--------------------------- MODULE SocketLifecycle ---------------------------
(***************************************************************************)
(* The life of the sessions of one name: commands that start, remove and   *)
(* kill them (src/src/session.rs, src/src/sock.rs, session_daemon_main),   *)
(* daemons that end or crash, and the two files they share by path, the    *)
(* socket and the log.  Every system call on a path is a step of its own.  *)
(*                                                                         *)
(* A session is named by its incarnation; a file by the incarnation that   *)
(* made it, so that it can be told from a later one at the same path.      *)
(***************************************************************************)

CONSTANTS Procs,    \* command processes
          Daemons,  \* incarnations of the session; bound: how many are started
          None      \* no file at the path

ASSUME NoneAssumption == None \notin Daemons

VARIABLES
    sockFile,  \* the socket file: whose it is
    logFile,   \* the log file: who created it
    daemon,    \* unborn, bound, starting, logged, running, reaping, ending, leaving, gone
    listens,   \* the sockets listen(2) was called on
    logOf,     \* the log each daemon writes to
    cmd,       \* where each command process is
    arg,       \* the session it is starting or killing
    reported   \* ghost: the sessions that kill said were stopped or killed

fileVs == <<sockFile, logFile>>
daemonVs == <<daemon, listens, logOf>>
cmdVs == <<cmd, arg>>
vars == <<fileVs, daemonVs, cmdVs, reported>>

Init ==
    /\ sockFile = None /\ logFile = None
    /\ daemon = [d \in Daemons |-> "unborn"] /\ listens = {}
    /\ logOf = [d \in Daemons |-> None]
    /\ cmd = [p \in Procs |-> "idle"] /\ arg = [p \in Procs |-> None]
    /\ reported = {}

\* The command goes on at s; a command that ends has nothing in hand.
Goto(p, s) == cmd' = [cmd EXCEPT ![p] = s]
Return(p) == Goto(p, "idle") /\ arg' = [arg EXCEPT ![p] = None]

(***************************************************************************)
(* Connecting                                                              *)
(***************************************************************************)

\* The command that started d has it open until it returns.
Starting == {"bound", "listening", "fork", "wait"}
Held(d) == \E p \in Procs : arg[p] = d /\ cmd[p] \in Starting

\* Mutant of Alive: the daemon closes its listener before it unlinks the socket.
AliveTillEnd(d) == daemon[d] \in {"starting", "logged", "running", "reaping", "leaving"}

\* The daemon process exists, and with it its listener.
Alive(d) == daemon[d] \in {"starting", "logged", "running", "reaping", "ending", "leaving"}

\* connect_unix: what connect(2) answers at the path.
Connected == sockFile # None /\ sockFile \in listens /\ (Alive(sockFile) \/ Held(sockFile))
Absent == sockFile = None               \* ENOENT
Refused == ~Connected /\ ~Absent        \* ECONNREFUSED

(***************************************************************************)
(* Starting: cmd_new, cmd_start, cmd_run, implicit_attach                  *)
(***************************************************************************)

\* attach(true) of implicit_attach: a session that runs is attached to, a stale
\* socket is removed in a step to come, and then a session is started.
ImplicitAttach(p) ==
    /\ cmd[p] = "idle"
    /\ ~Connected
    /\ Goto(p, IF Refused THEN "implicit" ELSE "start")
    /\ UNCHANGED <<fileVs, daemonVs, arg, reported>>
ImplicitUnlink(p) ==
    /\ cmd[p] = "implicit"
    /\ sockFile' = None /\ Goto(p, "start")
    /\ UNCHANGED <<logFile, daemonVs, arg, reported>>

\* listen_unix, which every way to start comes to: the probe.
ListenProbe(p) ==
    /\ cmd[p] \in {"idle", "start"}
    /\ \/ Connected /\ Return(p)                       \* already running
       \/ Refused /\ Goto(p, "unlink") /\ UNCHANGED arg
       \/ Absent /\ Goto(p, "bind") /\ UNCHANGED arg
    /\ UNCHANGED <<fileVs, daemonVs, reported>>
ListenUnlink(p) ==
    /\ cmd[p] = "unlink"
    /\ sockFile' = None /\ Goto(p, "bind")
    /\ UNCHANGED <<logFile, daemonVs, arg, reported>>

\* bind(2), which fails if there is a file at the path.
Bind(p) ==
    /\ cmd[p] = "bind"
    /\ \/ ~Absent /\ Return(p) /\ UNCHANGED <<sockFile, daemon>>
       \/ \E d \in Daemons :
             /\ Absent /\ daemon[d] = "unborn"
             /\ daemon' = [daemon EXCEPT ![d] = "bound"]
             /\ sockFile' = d
             /\ arg' = [arg EXCEPT ![p] = d] /\ Goto(p, "bound")
    /\ UNCHANGED <<logFile, listens, logOf, reported>>

\* listen(2), and then the mode of whatever is at the path; if nothing is, the
\* start fails and the listener is closed.
Listen(p) ==
    /\ cmd[p] = "bound"
    /\ listens' = listens \union {arg[p]} /\ Goto(p, "listening")
    /\ UNCHANGED <<fileVs, daemon, logOf, arg, reported>>
SetMode(p) ==
    /\ cmd[p] = "listening"
    /\ \/ ~Absent /\ Goto(p, "fork") /\ UNCHANGED <<daemon, arg>>
       \/ Absent /\ daemon' = [daemon EXCEPT ![arg[p]] = "gone"] /\ Return(p)
    /\ UNCHANGED <<fileVs, listens, logOf, reported>>

\* Mutant of Fork: when it fails, the listener stays open.
ForkLeaks(p) ==
    /\ cmd[p] = "fork"
    /\ \/ /\ daemon' = [daemon EXCEPT ![arg[p]] = "starting"]
          /\ Goto(p, "wait") /\ UNCHANGED <<sockFile, arg>>
       \/ /\ UNCHANGED daemon
          /\ sockFile' = None /\ Return(p)
    /\ UNCHANGED <<logFile, listens, logOf, reported>>

\* fork, and the wait for the child's word; when it fails the socket is removed.
\* (run does not fork: the command is then the daemon, and takes the same steps.)
Fork(p) ==
    /\ cmd[p] = "fork"
    /\ \/ /\ daemon' = [daemon EXCEPT ![arg[p]] = "starting"]
          /\ Goto(p, "wait") /\ UNCHANGED <<sockFile, arg>>
       \/ /\ daemon' = [daemon EXCEPT ![arg[p]] = "gone"]
          /\ sockFile' = None /\ Return(p)
    /\ UNCHANGED <<logFile, listens, logOf, reported>>
Started(p) ==
    /\ cmd[p] = "wait" /\ daemon[arg[p]] \notin {"starting", "logged"}
    /\ Return(p)
    /\ UNCHANGED <<fileVs, daemonVs, reported>>

(***************************************************************************)
(* The daemon: SessionDaemon::new, and the end of run                      *)
(***************************************************************************)

Becomes(d, s, t) == daemon[d] = s /\ daemon' = [daemon EXCEPT ![d] = t]

\* SessionLog::open: the log there is, or a new one; or none, when it cannot be
\* opened or none is wanted.
OpenLog(d) ==
    /\ Becomes(d, "starting", "logged")
    /\ \/ /\ logFile' = IF logFile = None THEN d ELSE logFile
          /\ logOf' = [logOf EXCEPT ![d] = logFile']
       \/ UNCHANGED <<logFile, logOf>>
    /\ UNCHANGED <<sockFile, listens, cmdVs, reported>>

\* Pty::new.  When it fails the process exits, and the socket file stays.
StartChild(d) ==
    /\ Becomes(d, "logged", "running") \/ Becomes(d, "logged", "gone")
    /\ UNCHANGED <<fileVs, listens, logOf, cmdVs, reported>>

\* The terminal is closed, the child is reaped, and cleanup ends the log and
\* removes what is at the path; the listener closes when the process exits.
TerminalCloses(d) ==
    /\ Becomes(d, "running", "reaping")
    /\ UNCHANGED <<fileVs, listens, logOf, cmdVs, reported>>
ReapChild(d) ==
    /\ Becomes(d, "reaping", "ending")
    /\ UNCHANGED <<fileVs, listens, logOf, cmdVs, reported>>

\* Mutant of UnlinkOwn: the socket is removed before the child is reaped.
UnlinkEarly(d) ==
    /\ Becomes(d, "reaping", "reaping")
    /\ sockFile' = None
    /\ UNCHANGED <<logFile, listens, logOf, cmdVs, reported>>
UnlinkOwn(d) ==
    /\ Becomes(d, "ending", "leaving")
    /\ sockFile' = None
    /\ UNCHANGED <<logFile, listens, logOf, cmdVs, reported>>
Exit(d) ==
    /\ Becomes(d, "leaving", "gone")
    /\ UNCHANGED <<fileVs, listens, logOf, cmdVs, reported>>

\* It is killed, or the machine's memory runs out: the files stay as they are.
Crash(d) ==
    /\ Alive(d) /\ daemon' = [daemon EXCEPT ![d] = "gone"]
    /\ UNCHANGED <<fileVs, listens, logOf, cmdVs, reported>>

(***************************************************************************)
(* rm                                                                      *)
(***************************************************************************)

\* rm_single: refused while it runs; else the socket, if it is stale, and the log.
RmProbe(p) ==
    /\ cmd[p] = "idle" /\ ~Connected
    /\ Goto(p, IF Refused THEN "rm_sock" ELSE "rm_log")
    /\ UNCHANGED <<fileVs, daemonVs, arg, reported>>

\* rm_stale_sockets and rm_orphaned_logs, the entries of this name.
RmAll(p) ==
    /\ cmd[p] = "idle"
    /\ Goto(p, IF Refused THEN "rm_sock" ELSE "rm_orphan")
    /\ UNCHANGED <<fileVs, daemonVs, arg, reported>>
RmSock(p) ==
    /\ cmd[p] = "rm_sock"
    /\ sockFile' = None /\ Goto(p, "rm_log")
    /\ UNCHANGED <<logFile, daemonVs, arg, reported>>
RmLog(p) ==                        \* the end of rm of one name, not of rm of all
    /\ cmd[p] = "rm_log"
    /\ logFile' = None
    /\ Return(p) \/ (Goto(p, "rm_orphan") /\ UNCHANGED arg)
    /\ UNCHANGED <<sockFile, daemonVs, reported>>

\* Mutant of Orphaned: any log is taken for one without a socket.
AnyLog == logFile # None
Orphaned == logFile # None /\ sockFile = None
RmOrphan(p) ==
    /\ cmd[p] = "rm_orphan"
    /\ IF Orphaned THEN Goto(p, "rm_orphaned") /\ UNCHANGED arg ELSE Return(p)
    /\ UNCHANGED <<fileVs, daemonVs, reported>>
RmOrphaned(p) ==
    /\ cmd[p] = "rm_orphaned"
    /\ logFile' = None /\ Return(p)
    /\ UNCHANGED <<sockFile, daemonVs, reported>>

(***************************************************************************)
(* kill                                                                    *)
(***************************************************************************)

\* The first signal.  What it does to the child is left to the child: it may end
\* at any time.
KillSend(p) ==
    /\ cmd[p] = "idle" /\ Connected
    /\ \E s \in {"kill_last", "kill"} : Goto(p, s)      \* forced, or not
    /\ arg' = [arg EXCEPT ![p] = sockFile]
    /\ UNCHANGED <<fileVs, daemonVs, reported>>

\* A poll that finds the socket gone is the end of it.
KillGone(p) ==
    /\ cmd[p] \in {"kill", "kill_last"} /\ Absent
    /\ reported' = reported \union {arg[p]}
    /\ Return(p)
    /\ UNCHANGED <<fileVs, daemonVs>>

\* The last poll found it there: SIGKILL to whoever listens now, or giving up.
Escalate(p) ==
    /\ cmd[p] = "kill" /\ ~Absent /\ Goto(p, "kill_last")
    /\ UNCHANGED <<fileVs, daemonVs, arg, reported>>
GiveUp(p) ==
    /\ cmd[p] = "kill_last" /\ ~Absent
    /\ Return(p)
    /\ UNCHANGED <<fileVs, daemonVs, reported>>

\* The user interrupts a command, wherever it is; what it had not forked closes.
Interrupted(p) ==
    /\ cmd[p] # "idle" /\ Return(p)
    /\ daemon' = [d \in Daemons |->
                    IF daemon[d] = "bound" /\ arg[p] = d THEN "gone" ELSE daemon[d]]
    /\ UNCHANGED <<fileVs, listens, logOf, reported>>

(***************************************************************************)
(* The whole                                                               *)
(***************************************************************************)

StartStep(p) == \/ ImplicitAttach(p) \/ ImplicitUnlink(p) \/ ListenProbe(p) \/ ListenUnlink(p)
                \/ Bind(p) \/ Listen(p) \/ SetMode(p) \/ Fork(p) \/ Started(p)
RmStep(p) == RmProbe(p) \/ RmAll(p) \/ RmSock(p) \/ RmLog(p) \/ RmOrphan(p) \/ RmOrphaned(p)
KillStep(p) == KillSend(p) \/ KillGone(p) \/ Escalate(p) \/ GiveUp(p)
DaemonStep(d) == \/ OpenLog(d) \/ StartChild(d) \/ TerminalCloses(d) \/ ReapChild(d)
                 \/ UnlinkOwn(d) \/ Exit(d) \/ Crash(d)

Next == \/ \E p \in Procs : StartStep(p) \/ RmStep(p) \/ KillStep(p) \/ Interrupted(p)
        \/ \E d \in Daemons : DaemonStep(d)

Spec == Init /\ [][Next]_vars

(***************************************************************************)
(* Properties                                                              *)
(***************************************************************************)

\* Every variable has its type, a command has a session in hand exactly while it
\* starts or kills one, and a listener not yet handed to a daemon is open in the
\* command that starts it and nowhere else.
TypeOK ==
    /\ sockFile \in Daemons \union {None} /\ logFile \in Daemons \union {None}
    /\ daemon \in [Daemons -> {"unborn", "bound", "starting", "logged", "running", "reaping",
                               "ending", "leaving", "gone"}]
    /\ listens \subseteq Daemons
    /\ logOf \in [Daemons -> Daemons \union {None}]
    /\ cmd \in [Procs -> {"idle", "implicit", "start", "unlink", "bind", "bound", "listening",
                          "fork", "wait", "rm_sock", "rm_log", "rm_orphan", "rm_orphaned",
                          "kill", "kill_last"}]
    /\ arg \in [Procs -> Daemons \union {None}]
    /\ \A p \in Procs : arg[p] # None <=> cmd[p] \in Starting \union {"kill", "kill_last"}
    /\ \A d \in Daemons : daemon[d] = "bound" <=>
          \E p \in Procs : arg[p] = d /\ cmd[p] \in {"bound", "listening", "fork"}
    /\ reported \subseteq Daemons

\* Until it removes its socket itself, a session is found under its name, and so
\* there is never a second one: neither a start nor rm, whatever ends or crashes in
\* the middle of them, removes the socket of a session that runs, and no session
\* that ends removes another's.  (Commands on a name do not overlap, but any of them
\* may be interrupted.)
Named == \A d \in Daemons :
    daemon[d] \in {"starting", "logged", "running", "reaping", "ending"} => sockFile = d

\* The log of a session that runs is not removed under it: what it writes is in the
\* file that attach and tail read.  (Commands on a name do not overlap.)
LogKept == \A d \in Daemons :
    daemon[d] \in {"logged", "running", "reaping", "ending"} => logOf[d] \in {None, logFile}

\* When kill says that a session is stopped, its child has been reaped and its log is
\* finished: session_gone looks at the file only.  (Commands on a name do not overlap.)
StoppedIsDead == \A d \in reported : daemon[d] \in {"leaving", "gone"}

\* "ECONNREFUSED means the socket file is orphaned: remove it so bind can create a
\* fresh one" (listen_unix): what a start removes is nobody's.
RemovesOrphansOnly ==
    [][\A p \in Procs : cmd[p] = "unlink" /\ cmd'[p] = "bind" /\ sockFile # None
            => ~Alive(sockFile) /\ ~Held(sockFile)]_vars

\* The session that has the name, from bind until cleanup has removed its socket; the
\* one that a connection reaches; and those that have given the name up.
Holders == {d \in Daemons : daemon[d] \in {"bound", "starting", "logged", "running", "reaping",
                                           "ending"}}
Answering == IF Connected THEN {sockFile} ELSE {}
Ended == {d \in Daemons : daemon[d] \in {"leaving", "gone"}}
Name == INSTANCE SessionName
          WITH Sessions <- Daemons, holder <- Holders, answers <- Answering, over <- Ended

\* The files, the listeners and the commands together keep what a name promises: one
\* session has it at a time, a connection is answered by that session alone, from
\* listen on and without a gap, no other takes the name before, and kill reports those
\* that have given it up.  (Commands on a name do not overlap; any of them may be
\* interrupted, and daemons crash.)
KeepsPromise == Name!Spec
=============================================================================
