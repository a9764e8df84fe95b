------------------------ MODULE SocketLifecycle_proof ------------------------
(***************************************************************************)
(* For any number of incarnations and one command process, which is one    *)
(* command after another, any of them interrupted at any step: a session   *)
(* that runs keeps its socket and its log, and kill reports the dead only. *)
(* Together they implement SessionName.                                    *)
(***************************************************************************)
EXTENDS SocketLifecycle, TLAPS

\* Commands on the name do not overlap.
Serial == \A p, q \in Procs : p = q

(***************************************************************************)
(* The inductive invariant                                                 *)
(***************************************************************************)

\* The daemon is there and its socket has not been removed by it yet.
Lives == {"starting", "logged", "running", "reaping", "ending"}

\* Where a command may remove the socket or the log, or is about to bind.
Alone == {"implicit", "start", "unlink", "bind", "rm_sock", "rm_log", "rm_orphaned"}

\* What a daemon that lives has: its socket at the path, and a listener that connects.
Reachable == \A d \in Daemons : daemon[d] \in Lives => sockFile = d /\ d \in listens

\* A listener in the hands of the command is the one at the path as well, so that
\* nothing else lives; it listens from the step after bind on.
Prepared == /\ \A d \in Daemons : daemon[d] = "bound" => sockFile = d
            /\ \A p \in Procs : cmd[p] \in {"listening", "fork"} => arg[p] \in listens

\* The probe found no session, and none has started since.
Quiet == \A p \in Procs : cmd[p] \in Alone => \A d \in Daemons : daemon[d] \notin Lives

\* Whoever is being killed was started.
Target == \A p \in Procs : cmd[p] \in {"kill", "kill_last"} =>
             daemon[arg[p]] \notin {"unborn", "bound"}

\* The log is opened after the start.
NoLogYet == \A d \in Daemons : daemon[d] \in {"unborn", "bound", "starting"} => logOf[d] = None

IInv == /\ TypeOK /\ Reachable /\ Prepared /\ Quiet
        /\ Target /\ NoLogYet /\ LogKept /\ StoppedIsDead

\* What the states of a daemon are.
States == {"unborn", "bound", "starting", "logged", "running", "reaping", "ending", "leaving",
           "gone"}

(***************************************************************************)
(* Steps of a daemon                                                       *)
(***************************************************************************)

\* Two sessions never live at once.
LEMMA OneLives ==
  ASSUME IInv, NEW d \in Daemons, NEW e \in Daemons,
         daemon[d] \in Lives \union {"bound"}, daemon[e] \in Lives \union {"bound"}
  PROVE  d = e
BY DEF IInv, Reachable, Prepared

\* A probe that does not connect says that nothing lives.
LEMMA NoneLives ==
  ASSUME IInv, ~Connected
  PROVE  \A d \in Daemons : daemon[d] \notin Lives
BY NoneAssumption DEF IInv, Reachable, Connected, Alive, Lives

\* Types are kept by a daemon that goes from one state after the fork to another.
LEMMA MoveType ==
  ASSUME TypeOK, NEW d \in Daemons, NEW t \in States \ {"unborn", "bound"},
         daemon[d] \notin {"unborn", "bound"}, daemon' = [daemon EXCEPT ![d] = t],
         listens' = listens, cmd' = cmd, arg' = arg, reported' = reported,
         sockFile' \in Daemons \union {None}, logFile' \in Daemons \union {None},
         logOf' \in [Daemons -> Daemons \union {None}]
  PROVE  TypeOK'
<1>1. /\ daemon \in [Daemons -> States] /\ daemon' \in [Daemons -> States]
      /\ daemon'[d] = t /\ \A e \in Daemons : e # d => daemon'[e] = daemon[e]
  BY DEF TypeOK, States
<1>2. \A e \in Daemons : daemon'[e] = "bound" <=> daemon[e] = "bound"
  BY <1>1
<1> QED
  BY <1>1, <1>2 DEF TypeOK, Starting, States

\* A daemon that moves on without touching a file keeps the invariant.
LEMMA MoveIInv ==
  ASSUME IInv, NEW d \in Daemons, NEW t \in States,
         UNCHANGED <<fileVs, listens, logOf, cmdVs, reported>>,
         daemon' = [daemon EXCEPT ![d] = t],
         \/ daemon[d] \in {"logged", "running", "reaping"} /\ t \in {"running", "reaping", "ending", "gone"}
         \/ daemon[d] \in Lives \union {"leaving"} /\ t = "gone"
  PROVE  IInv'
<1>1. /\ sockFile' = sockFile /\ logFile' = logFile /\ listens' = listens /\ logOf' = logOf
      /\ cmd' = cmd /\ arg' = arg /\ reported' = reported
  BY DEF fileVs, cmdVs
<1>2. TypeOK'
  BY <1>1, MoveType DEF IInv, TypeOK, Lives, States
<1>3. /\ daemon'[d] = t /\ \A e \in Daemons : e # d => daemon'[e] = daemon[e]
  BY DEF IInv, TypeOK, States
<1>4. Reachable'
  BY <1>1, <1>3 DEF IInv, Reachable, Lives
<1>5. Prepared'
  BY <1>1, <1>3 DEF IInv, Prepared, Lives
<1>6. Quiet'
  BY <1>1, <1>3 DEF IInv, Quiet, Lives
<1>7. Target'
  BY <1>1, <1>3 DEF IInv, Target, Lives
<1>8. LogKept'
  BY <1>1, <1>3 DEF IInv, LogKept, Lives
<1>9. StoppedIsDead'
  BY <1>1, <1>3 DEF IInv, StoppedIsDead, Lives, TypeOK
<1>10. NoLogYet'
  BY <1>1, <1>3 DEF IInv, NoLogYet
<1> QED
  BY <1>2, <1>4, <1>5, <1>6, <1>7, <1>8, <1>9, <1>10 DEF IInv

\* The log that is opened is nobody else's: nothing else lives.
LEMMA OpenLogIInv == ASSUME IInv, NEW d \in Daemons, OpenLog(d) PROVE IInv'
<1>1. /\ daemon[d] = "starting" /\ daemon' = [daemon EXCEPT ![d] = "logged"]
      /\ sockFile' = sockFile /\ listens' = listens
      /\ cmd' = cmd /\ arg' = arg /\ reported' = reported
  BY DEF OpenLog, Becomes, cmdVs
<1>2. /\ logFile' \in Daemons \union {None} /\ logOf' \in [Daemons -> Daemons \union {None}]
      /\ logOf'[d] \in {logOf[d], logFile'}
      /\ \A e \in Daemons : e # d => logOf'[e] = logOf[e]
  BY DEF OpenLog, IInv, TypeOK
<1>3. TypeOK'
  <2>1. /\ TypeOK /\ "logged" \in States \ {"unborn", "bound"}
        /\ daemon[d] \notin {"unborn", "bound"} /\ sockFile' \in Daemons \union {None}
    BY <1>1 DEF IInv, TypeOK, States
  <2> QED
    BY <1>1, <1>2, <2>1, MoveType
<1>4. /\ daemon'[d] = "logged" /\ \A e \in Daemons : e # d => daemon'[e] = daemon[e]
  BY <1>1 DEF IInv, TypeOK
<1>5. \A e \in Daemons : e # d => daemon[e] \notin Lives
  BY <1>1, OneLives DEF Lives
<1>6. Reachable' /\ Prepared' /\ Quiet' /\ Target'
  <2>1. Reachable'
    BY <1>1, <1>4 DEF IInv, Reachable, Lives
  <2>2. Prepared'
    BY <1>1, <1>4 DEF IInv, Prepared
  <2>3. Quiet'
    BY <1>1, <1>4 DEF IInv, Quiet, Lives
  <2>4. Target'
    BY <1>1, <1>4 DEF IInv, Target
  <2> QED
    BY <2>1, <2>2, <2>3, <2>4
<1>7. LogKept' /\ NoLogYet'
  <2>1. LogKept'
    BY <1>1, <1>2, <1>4, <1>5 DEF IInv, NoLogYet, LogKept, Lives
  <2>2. NoLogYet'
    BY <1>2, <1>4 DEF IInv, NoLogYet
  <2> QED
    BY <2>1, <2>2
<1>8. StoppedIsDead'
  BY <1>1, <1>4 DEF IInv, StoppedIsDead, TypeOK
<1> QED
  BY <1>3, <1>6, <1>7, <1>8 DEF IInv

\* What cleanup removes is the daemon's own socket: nothing else lives.
LEMMA UnlinkOwnIInv == ASSUME IInv, NEW d \in Daemons, UnlinkOwn(d) PROVE IInv'
<1>1. /\ daemon[d] = "ending" /\ daemon' = [daemon EXCEPT ![d] = "leaving"]
      /\ sockFile' = None /\ logFile' = logFile /\ listens' = listens /\ logOf' = logOf
      /\ cmd' = cmd /\ arg' = arg /\ reported' = reported
  BY DEF UnlinkOwn, Becomes, cmdVs
<1>2. TypeOK'
  BY <1>1, MoveType DEF IInv, TypeOK, States
<1>3. /\ daemon'[d] = "leaving" /\ \A e \in Daemons : e # d => daemon'[e] = daemon[e]
  BY <1>1 DEF IInv, TypeOK
<1>4. \A e \in Daemons : e # d => daemon[e] \notin Lives \union {"bound"}
  BY <1>1, OneLives DEF Lives
<1>5. \A e \in Daemons : daemon'[e] \notin Lives \union {"bound"}
  BY <1>3, <1>4 DEF Lives
<1>6. Reachable' /\ Quiet' /\ LogKept'
  BY <1>5 DEF Reachable, Quiet, LogKept, Lives
<1>7. Prepared'
  BY <1>1, <1>5 DEF IInv, Prepared
<1>8. Target'
  BY <1>1, <1>3 DEF IInv, Target
<1>9. StoppedIsDead'
  BY <1>1, <1>3 DEF IInv, StoppedIsDead, TypeOK
<1>10. NoLogYet'
  BY <1>1, <1>3 DEF IInv, NoLogYet
<1> QED
  BY <1>2, <1>6, <1>7, <1>8, <1>9, <1>10 DEF IInv

LEMMA DaemonIInv == ASSUME IInv, NEW d \in Daemons, DaemonStep(d) PROVE IInv'
<1>1. CASE OpenLog(d)
  BY <1>1, OpenLogIInv
<1>2. CASE StartChild(d)
  BY <1>2, MoveIInv DEF StartChild, Becomes, Lives, States
<1>3. CASE TerminalCloses(d)
  BY <1>3, MoveIInv DEF TerminalCloses, Becomes, States
<1>4. CASE ReapChild(d)
  BY <1>4, MoveIInv DEF ReapChild, Becomes, States
<1>5. CASE UnlinkOwn(d)
  BY <1>5, UnlinkOwnIInv
<1>6. CASE Exit(d)
  BY <1>6, MoveIInv DEF Exit, Becomes, Lives, States
<1>7. CASE Crash(d)
  BY <1>7, MoveIInv DEF Crash, Alive, Lives, States
<1> QED
  BY <1>1, <1>2, <1>3, <1>4, <1>5, <1>6, <1>7 DEF DaemonStep

(***************************************************************************)
(* Steps of a command                                                      *)
(***************************************************************************)

\* Where a command has a listener that no daemon has yet, a session in hand, a place.
Holding == {"bound", "listening", "fork"}
InHand == Starting \union {"kill", "kill_last"}
Places == {"idle", "implicit", "start", "unlink", "bind", "bound", "listening", "fork", "wait",
           "rm_sock", "rm_log", "rm_orphan", "rm_orphaned", "kill", "kill_last"}

\* The one command holds no listener, so nobody does.
LEMMA NoneBound ==
  ASSUME Serial, IInv, NEW p \in Procs, cmd[p] \notin Holding
  PROVE  \A d \in Daemons : daemon[d] # "bound"
BY DEF Serial, IInv, TypeOK, Holding

\* The listener the one command holds is its own, and it is at the path.
LEMMA HoldsOwn ==
  ASSUME Serial, IInv, NEW p \in Procs, cmd[p] \in Holding
  PROVE  /\ arg[p] \in Daemons /\ daemon[arg[p]] = "bound" /\ sockFile = arg[p]
         /\ \A d \in Daemons : d # arg[p] => daemon[d] \notin Lives \union {"bound"}
<1>1. arg[p] \in Daemons
  BY DEF IInv, TypeOK, Holding, Starting
<1>2. daemon[arg[p]] = "bound"
  BY <1>1 DEF IInv, TypeOK, Holding
<1>3. sockFile = arg[p]
  BY <1>1, <1>2 DEF IInv, Prepared
<1> QED
  BY <1>1, <1>2, <1>3, OneLives

\* The place and the session in hand of a command after a step.
LEMMA Stepped ==
  ASSUME IInv, NEW p \in Procs, NEW s \in Places, Goto(p, s)
  PROVE  /\ cmd' \in [Procs -> Places] /\ cmd'[p] = s
         /\ \A q \in Procs : q # p => cmd'[q] = cmd[q]
BY DEF Goto, IInv, TypeOK, Places
LEMMA Returned ==
  ASSUME IInv, NEW p \in Procs, Return(p)
  PROVE  /\ Goto(p, "idle") /\ arg' \in [Procs -> Daemons \union {None}] /\ arg'[p] = None
         /\ \A q \in Procs : q # p => arg'[q] = arg[q]
BY DEF Return, IInv, TypeOK

\* Types after a step of a command that leaves the daemons alone.
LEMMA StepType ==
  ASSUME Serial, IInv, NEW p \in Procs, NEW s \in Places, Goto(p, s),
         daemon' = daemon, logOf' = logOf, listens' \subseteq Daemons, reported' \subseteq Daemons,
         sockFile' \in Daemons \union {None}, logFile' \in Daemons \union {None},
         arg' \in [Procs -> Daemons \union {None}], arg'[p] # None <=> s \in InHand,
         \/ s \notin Holding /\ cmd[p] \notin Holding
         \/ s \in Holding /\ cmd[p] \in Holding /\ arg' = arg
  PROVE  TypeOK'
<1>1. cmd' \in [Procs -> Places] /\ cmd'[p] = s /\ \A q \in Procs : q = p
  BY Stepped DEF Serial
<1>2. \A q \in Procs : arg'[q] # None <=> cmd'[q] \in InHand
  BY <1>1
<1>3. \A d \in Daemons : daemon'[d] = "bound" <=>
         \E q \in Procs : arg'[q] = d /\ cmd'[q] \in Holding
  <2>1. \A d \in Daemons : daemon[d] = "bound" <=> (arg[p] = d /\ cmd[p] \in Holding)
    BY <1>1 DEF IInv, TypeOK, Holding
  <2> QED
    BY <1>1, <2>1
<1>4. daemon' \in [Daemons -> States] /\ logOf' \in [Daemons -> Daemons \union {None}]
  BY DEF IInv, TypeOK, States
<1> QED
  BY <1>1, <1>2, <1>3, <1>4, Zenon DEF TypeOK, Places, InHand, Holding, States

\* What such a step may do: it removes the socket only if nothing lives or is held,
\* the log only if nothing lives, and goes where only a lone command may be only then.
LEMMA StepIInv ==
  ASSUME Serial, IInv, NEW p \in Procs, NEW s \in Places, Goto(p, s), TypeOK',
         daemon' = daemon, logOf' = logOf, listens \subseteq listens',
         \/ sockFile' = sockFile
         \/ \A d \in Daemons : daemon[d] \notin Lives \union {"bound"},
         \/ logFile' = logFile
         \/ \A d \in Daemons : daemon[d] \notin Lives,
         s \in Alone => \A d \in Daemons : daemon[d] \notin Lives,
         s \in {"listening", "fork"} => arg'[p] \in listens',
         s \in {"kill", "kill_last"} => daemon[arg'[p]] \notin {"unborn", "bound"},
         \A d \in reported' \ reported : daemon[d] \in {"leaving", "gone"}
  PROVE  IInv'
<1>1. cmd'[p] = s /\ \A q \in Procs : q = p
  BY Stepped DEF Serial
<1>2. Reachable'
  BY DEF IInv, Reachable
<1>3. Prepared'
  BY <1>1 DEF IInv, Prepared
<1>4. Quiet' /\ Target'
  BY <1>1 DEF Quiet, Target
<1>5. LogKept' /\ NoLogYet'
  BY DEF IInv, LogKept, NoLogYet, Lives
<1>6. StoppedIsDead'
  BY DEF IInv, StoppedIsDead
<1> QED
  BY <1>2, <1>3, <1>4, <1>5, <1>6 DEF IInv

\* A command that has no listener and touches no daemon, types included.
LEMMA PlainIInv ==
  ASSUME Serial, IInv, NEW p \in Procs, NEW s \in Places \ Holding, Goto(p, s),
         cmd[p] \notin Holding, daemon' = daemon, logOf' = logOf, listens' = listens,
         sockFile' \in {sockFile, None}, logFile' \in {logFile, None},
         sockFile' # sockFile \/ logFile' # logFile \/ s \in Alone
            => \A d \in Daemons : daemon[d] \notin Lives,
         arg' \in [Procs -> Daemons \union {None}], arg'[p] # None <=> s \in InHand,
         s \in {"kill", "kill_last"} => daemon[arg'[p]] \notin {"unborn", "bound"},
         reported' \subseteq Daemons,
         \A d \in reported' \ reported : daemon[d] \in {"leaving", "gone"}
  PROVE  IInv'
<1>1. \A d \in Daemons : daemon[d] # "bound"
  BY NoneBound
<1>2. /\ listens' \subseteq Daemons /\ listens \subseteq listens'
      /\ sockFile' \in Daemons \union {None} /\ logFile' \in Daemons \union {None}
  BY DEF IInv, TypeOK
<1>3. s \in Places /\ s \notin Holding
  OBVIOUS
<1>4. TypeOK'
  BY <1>2, <1>3, StepType
<1>5. s \notin {"listening", "fork"}
  BY DEF Holding
<1> QED
  BY <1>1, <1>2, <1>3, <1>4, <1>5, StepIInv

\* One that goes on without a session in hand, and one that returns.
LEMMA OnIInv ==
  ASSUME Serial, IInv, NEW p \in Procs, NEW s \in Places \ (Holding \union InHand), Goto(p, s),
         cmd[p] \notin Holding \union InHand, arg' = arg, UNCHANGED <<daemonVs, reported>>,
         sockFile' \in {sockFile, None}, logFile' \in {logFile, None},
         sockFile' # sockFile \/ logFile' # logFile \/ s \in Alone
            => \A d \in Daemons : daemon[d] \notin Lives
  PROVE  IInv'
<1>1. /\ daemon' = daemon /\ logOf' = logOf /\ listens' = listens /\ reported' = reported
      /\ s \in Places \ Holding /\ s \notin {"kill", "kill_last"} /\ s \notin InHand
  BY DEF daemonVs, InHand
<1>2. arg' \in [Procs -> Daemons \union {None}] /\ arg'[p] = None /\ reported' \subseteq Daemons
  BY <1>1 DEF IInv, TypeOK, InHand
<1> QED
  BY <1>1, <1>2, PlainIInv
LEMMA ReturnIInv ==
  ASSUME Serial, IInv, NEW p \in Procs, Return(p), cmd[p] \notin Holding,
         UNCHANGED daemonVs,
         sockFile' \in {sockFile, None}, logFile' \in {logFile, None},
         sockFile' # sockFile \/ logFile' # logFile => \A d \in Daemons : daemon[d] \notin Lives,
         reported' \subseteq Daemons,
         \A d \in reported' \ reported : daemon[d] \in {"leaving", "gone"}
  PROVE  IInv'
<1>1. /\ daemon' = daemon /\ logOf' = logOf /\ listens' = listens
      /\ "idle" \in Places \ Holding /\ "idle" \notin {"kill", "kill_last"}
      /\ "idle" \notin InHand /\ "idle" \notin Alone
  BY DEF daemonVs, Places, Holding, InHand, Starting, Alone
<1>2. /\ Goto(p, "idle") /\ arg' \in [Procs -> Daemons \union {None}] /\ arg'[p] = None
  BY Returned
<1> QED
  BY <1>1, <1>2, PlainIInv

\* implicit_attach and the probe of listen_unix: what is removed is nobody's.
LEMMA ProbeIInv ==
  ASSUME Serial, IInv, NEW p \in Procs,
         ImplicitAttach(p) \/ ImplicitUnlink(p) \/ ListenProbe(p) \/ ListenUnlink(p)
  PROVE  IInv'
<1> USE DEF Places, Holding, InHand, Starting, Alone
<1>1. CASE ImplicitAttach(p)
  <2>1. \A d \in Daemons : daemon[d] \notin Lives
    BY <1>1, NoneLives DEF ImplicitAttach
  <2>2. PICK s \in {"implicit", "start"} : Goto(p, s)
    BY <1>1 DEF ImplicitAttach
  <2> QED
    BY <1>1, <2>1, <2>2, OnIInv DEF ImplicitAttach, fileVs
<1>2. CASE ImplicitUnlink(p)
  <2>1. \A d \in Daemons : daemon[d] \notin Lives
    BY <1>2 DEF ImplicitUnlink, IInv, Quiet
  <2> QED
    BY <1>2, <2>1, OnIInv DEF ImplicitUnlink
<1>3. CASE ListenProbe(p)
  <2>1. CASE Return(p)
    BY <1>3, <2>1, ReturnIInv DEF ListenProbe, fileVs, IInv, TypeOK
  <2>2. CASE ~Connected /\ arg' = arg /\ (Goto(p, "unlink") \/ Goto(p, "bind"))
    <3>1. \A d \in Daemons : daemon[d] \notin Lives
      BY <2>2, NoneLives
    <3> QED
      BY <1>3, <2>2, <3>1, OnIInv DEF ListenProbe, fileVs
  <2>3. sockFile = None => ~Connected
    BY DEF Connected
  <2> QED
    BY <1>3, <2>1, <2>2, <2>3 DEF ListenProbe, Refused, Absent
<1>4. CASE ListenUnlink(p)
  <2>1. \A d \in Daemons : daemon[d] \notin Lives
    BY <1>4 DEF ListenUnlink, IInv, Quiet
  <2> QED
    BY <1>4, <2>1, OnIInv DEF ListenUnlink
<1> QED
  BY <1>1, <1>2, <1>3, <1>4

\* rm: what it removes belongs to nobody who lives.
LEMMA RmIInv == ASSUME Serial, IInv, NEW p \in Procs, RmStep(p) PROVE IInv'
<1> USE DEF Places, Holding, InHand, Starting, Alone
<1>1. CASE RmProbe(p)
  <2>1. \A d \in Daemons : daemon[d] \notin Lives
    BY <1>1, NoneLives DEF RmProbe
  <2>2. PICK s \in {"rm_sock", "rm_log"} : Goto(p, s)
    BY <1>1 DEF RmProbe
  <2> QED
    BY <1>1, <2>1, <2>2, OnIInv DEF RmProbe, fileVs
<1>2. CASE RmAll(p)
  <2>1. CASE Refused /\ Goto(p, "rm_sock")
    <3>1. \A d \in Daemons : daemon[d] \notin Lives
      BY <2>1, NoneLives DEF Refused
    <3> QED
      BY <1>2, <2>1, <3>1, OnIInv DEF RmAll, fileVs
  <2>2. CASE Goto(p, "rm_orphan")
    BY <1>2, <2>2, OnIInv DEF RmAll, fileVs
  <2> QED
    BY <1>2, <2>1, <2>2 DEF RmAll
<1>3. CASE RmSock(p)
  <2>1. \A d \in Daemons : daemon[d] \notin Lives
    BY <1>3 DEF RmSock, IInv, Quiet
  <2> QED
    BY <1>3, <2>1, OnIInv DEF RmSock
<1>4. CASE RmLog(p)
  <2>1. \A d \in Daemons : daemon[d] \notin Lives
    BY <1>4 DEF RmLog, IInv, Quiet
  <2>2. CASE Return(p)
    BY <1>4, <2>1, <2>2, ReturnIInv DEF RmLog, IInv, TypeOK
  <2>3. CASE Goto(p, "rm_orphan") /\ UNCHANGED arg
    BY <1>4, <2>1, <2>3, OnIInv DEF RmLog
  <2> QED
    BY <1>4, <2>2, <2>3 DEF RmLog
<1>5. CASE RmOrphan(p)
  <2>1. CASE Orphaned /\ Goto(p, "rm_orphaned") /\ UNCHANGED arg
    <3>1. \A d \in Daemons : daemon[d] \notin Lives
      BY <2>1, NoneAssumption DEF Orphaned, IInv, Reachable
    <3> QED
      BY <1>5, <2>1, <3>1, OnIInv DEF RmOrphan, fileVs
  <2>2. CASE Return(p)
    BY <1>5, <2>2, ReturnIInv DEF RmOrphan, fileVs, IInv, TypeOK
  <2> QED
    BY <1>5, <2>1, <2>2 DEF RmOrphan
<1>6. CASE RmOrphaned(p)
  <2>1. \A d \in Daemons : daemon[d] \notin Lives
    BY <1>6 DEF RmOrphaned, IInv, Quiet
  <2> QED
    BY <1>6, <2>1, ReturnIInv DEF RmOrphaned, IInv, TypeOK
<1> QED
  BY <1>1, <1>2, <1>3, <1>4, <1>5, <1>6 DEF RmStep

\* kill: whom it signals lives or is leaving, and has gone when the socket has.
LEMMA KillIInv == ASSUME Serial, IInv, NEW p \in Procs, KillStep(p) PROVE IInv'
<1> USE DEF Places, Holding, InHand, Starting, Alone
<1>1. CASE KillSend(p)
  <2>1. PICK s \in {"kill", "kill_last"} : Goto(p, s)
    BY <1>1 DEF KillSend
  <2>2. /\ cmd[p] = "idle" /\ Connected /\ arg' = [arg EXCEPT ![p] = sockFile]
        /\ UNCHANGED <<fileVs, daemonVs, reported>>
    BY <1>1 DEF KillSend
  <2>3. ~Held(sockFile)
    BY <2>2 DEF Held, Serial
  <2>4. sockFile \in Daemons /\ daemon[sockFile] \notin {"unborn", "bound"}
    BY <2>2, <2>3 DEF Connected, Alive, IInv, TypeOK
  <2>5. arg' \in [Procs -> Daemons \union {None}] /\ arg'[p] = sockFile /\ sockFile # None
    BY <2>2, <2>4, NoneAssumption DEF IInv, TypeOK
  <2>6. /\ daemon' = daemon /\ logOf' = logOf /\ listens' = listens /\ reported' = reported
        /\ sockFile' = sockFile /\ logFile' = logFile /\ reported \subseteq Daemons
    BY <2>2 DEF fileVs, daemonVs, IInv, TypeOK
  <2>7. s \in Places \ Holding /\ s \in InHand /\ s \notin Alone
    OBVIOUS
  <2> QED
    BY <2>1, <2>2, <2>4, <2>5, <2>6, <2>7, PlainIInv
<1>2. CASE KillGone(p)
  <2>1. /\ cmd[p] \in {"kill", "kill_last"} /\ sockFile = None /\ Return(p)
        /\ reported' = reported \union {arg[p]} /\ UNCHANGED <<fileVs, daemonVs>>
    BY <1>2 DEF KillGone, Absent
  <2>2. arg[p] \in Daemons /\ reported \subseteq Daemons /\ daemon[arg[p]] \in States
    BY <2>1 DEF IInv, TypeOK, States
  <2>3. daemon[arg[p]] \notin {"unborn", "bound"} \union Lives
    BY <2>1, <2>2, NoneAssumption DEF IInv, Target, Reachable
  <2>4. daemon[arg[p]] \in {"leaving", "gone"}
    BY <2>2, <2>3 DEF States, Lives
  <2> QED
    BY <2>1, <2>2, <2>4, ReturnIInv DEF fileVs
<1>3. CASE Escalate(p)
  <2>1. /\ cmd[p] = "kill" /\ Goto(p, "kill_last") /\ arg' = arg
        /\ daemon' = daemon /\ logOf' = logOf /\ listens' = listens /\ reported' = reported
        /\ sockFile' = sockFile /\ logFile' = logFile
    BY <1>3 DEF Escalate, fileVs, daemonVs
  <2>2. /\ arg \in [Procs -> Daemons \union {None}] /\ arg[p] # None /\ reported \subseteq Daemons
        /\ daemon[arg[p]] \notin {"unborn", "bound"}
    BY <2>1 DEF IInv, TypeOK, Target
  <2>3. "kill_last" \in Places \ Holding
    OBVIOUS
  <2> QED
    BY <2>1, <2>2, <2>3, PlainIInv
<1>4. CASE GiveUp(p)
  BY <1>4, ReturnIInv DEF GiveUp, fileVs, IInv, TypeOK
<1> QED
  BY <1>1, <1>2, <1>3, <1>4 DEF KillStep

(***************************************************************************)
(* Steps of a start that change a daemon                                   *)
(***************************************************************************)

\* The command lets go of its listener: it fails, or is interrupted.  The socket may
\* be removed, for nothing else lives.
LEMMA LetGoIInv ==
  ASSUME Serial, IInv, NEW p \in Procs, cmd[p] \in Holding, Return(p),
         daemon' = [daemon EXCEPT ![arg[p]] = "gone"],
         logFile' = logFile, listens' = listens, logOf' = logOf, reported' = reported,
         sockFile' \in {sockFile, None}
  PROVE  IInv'
<1>1. /\ arg[p] \in Daemons /\ daemon[arg[p]] = "bound"
      /\ \A d \in Daemons : d # arg[p] => daemon[d] \notin Lives \union {"bound"}
  BY HoldsOwn
<1>2. /\ daemon' \in [Daemons -> States] /\ daemon'[arg[p]] = "gone"
      /\ \A d \in Daemons : d # arg[p] => daemon'[d] = daemon[d]
  BY <1>1 DEF IInv, TypeOK, States
<1>3. \A d \in Daemons : daemon'[d] \notin Lives \union {"bound"}
  BY <1>1, <1>2 DEF Lives
<1>4. /\ cmd' \in [Procs -> Places] /\ cmd'[p] = "idle" /\ \A q \in Procs : q = p
      /\ arg' \in [Procs -> Daemons \union {None}] /\ arg'[p] = None
  BY Stepped, Returned DEF Serial, Places
<1>5. TypeOK'
  <2>1. \A q \in Procs : arg'[q] # None <=> cmd'[q] \in InHand
    BY <1>4 DEF InHand, Starting
  <2>2. \A d \in Daemons : daemon'[d] = "bound" <=>
           \E q \in Procs : arg'[q] = d /\ cmd'[q] \in Holding
    BY <1>3, <1>4 DEF Holding
  <2>3. /\ sockFile' \in Daemons \union {None} /\ logFile' \in Daemons \union {None}
        /\ listens' \subseteq Daemons /\ reported' \subseteq Daemons
        /\ logOf' \in [Daemons -> Daemons \union {None}]
    BY DEF IInv, TypeOK
  <2> QED
    BY <1>2, <1>4, <2>1, <2>2, <2>3, Zenon DEF TypeOK, Places, InHand, Holding, States
<1>6. Reachable' /\ LogKept'
  BY <1>3 DEF Reachable, LogKept, Lives
<1>7. Prepared' /\ Quiet' /\ Target'
  BY <1>3, <1>4 DEF Prepared, Quiet, Target
<1>8. NoLogYet' /\ StoppedIsDead'
  BY <1>2 DEF IInv, NoLogYet, StoppedIsDead
<1> QED
  BY <1>5, <1>6, <1>7, <1>8 DEF IInv

\* bind: the probe found nothing that lives, so the new session is the only one.
LEMMA BindIInv == ASSUME Serial, IInv, NEW p \in Procs, Bind(p) PROVE IInv'
<1>1. CASE Return(p) /\ UNCHANGED <<sockFile, daemon>>
  BY <1>1, ReturnIInv DEF Bind, daemonVs, Holding, IInv, TypeOK
<1>2. ASSUME NEW d \in Daemons, Absent, daemon[d] = "unborn",
             daemon' = [daemon EXCEPT ![d] = "bound"], sockFile' = d,
             arg' = [arg EXCEPT ![p] = d], Goto(p, "bound")
      PROVE  IInv'
  <2>1. /\ cmd[p] = "bind" /\ logFile' = logFile /\ listens' = listens
        /\ logOf' = logOf /\ reported' = reported
    BY DEF Bind
  <2>2. /\ \A e \in Daemons : daemon[e] \notin Lives
        /\ \A e \in Daemons : daemon[e] # "bound"
    BY <2>1, NoneBound DEF IInv, Quiet, Alone, Holding
  <2>3. /\ daemon' \in [Daemons -> States] /\ daemon'[d] = "bound"
        /\ \A e \in Daemons : e # d => daemon'[e] = daemon[e]
    BY <1>2 DEF IInv, TypeOK, States
  <2>4. /\ cmd' \in [Procs -> Places] /\ cmd'[p] = "bound" /\ \A q \in Procs : q = p
        /\ arg' \in [Procs -> Daemons \union {None}] /\ arg'[p] = d
    BY <1>2, Stepped DEF Serial, Places, IInv, TypeOK
  <2>5. TypeOK'
    <3>1. \A q \in Procs : arg'[q] # None <=> cmd'[q] \in InHand
      BY <2>4, NoneAssumption DEF InHand, Starting
    <3>2. \A e \in Daemons : daemon'[e] = "bound" <=>
             \E q \in Procs : arg'[q] = e /\ cmd'[q] \in Holding
      BY <2>2, <2>3, <2>4 DEF Holding
    <3>3. /\ sockFile' \in Daemons \union {None} /\ logFile' \in Daemons \union {None}
          /\ listens' \subseteq Daemons /\ reported' \subseteq Daemons
          /\ logOf' \in [Daemons -> Daemons \union {None}]
      BY <1>2, <2>1 DEF IInv, TypeOK
    <3> QED
      BY <2>3, <2>4, <3>1, <3>2, <3>3, Zenon DEF TypeOK, Places, InHand, Holding, States
  <2>6. \A e \in Daemons : daemon'[e] \notin Lives
    BY <2>2, <2>3 DEF Lives
  <2>7. Reachable' /\ LogKept' /\ Quiet'
    BY <2>6 DEF Reachable, LogKept, Quiet, Lives
  <2>8. Prepared' /\ Target'
    BY <1>2, <2>2, <2>3, <2>4 DEF Prepared, Target
  <2>9. NoLogYet' /\ StoppedIsDead'
    BY <1>2, <2>1, <2>3 DEF IInv, NoLogYet, StoppedIsDead
  <2> QED
    BY <2>5, <2>7, <2>8, <2>9 DEF IInv
<1> QED
  BY <1>1, <1>2 DEF Bind

\* fork: the session starts with the socket that is at the path.
LEMMA ForkIInv == ASSUME Serial, IInv, NEW p \in Procs, Fork(p) PROVE IInv'
<1> DEFINE d == arg[p]
<1>1. /\ cmd[p] = "fork" /\ cmd[p] \in Holding /\ logFile' = logFile /\ listens' = listens
      /\ logOf' = logOf /\ reported' = reported
  BY DEF Fork, Holding
<1>2. /\ d \in Daemons /\ daemon[d] = "bound" /\ sockFile = d /\ d \in listens
      /\ \A e \in Daemons : e # d => daemon[e] \notin Lives \union {"bound"}
  BY <1>1, HoldsOwn DEF IInv, Prepared
<1>3. CASE daemon' = [daemon EXCEPT ![arg[p]] = "gone"] /\ sockFile' = None /\ Return(p)
  BY <1>1, <1>3, LetGoIInv
<1>4. CASE daemon' = [daemon EXCEPT ![arg[p]] = "starting"] /\ Goto(p, "wait")
           /\ UNCHANGED <<sockFile, arg>>
  <2>1. /\ daemon' \in [Daemons -> States] /\ daemon'[d] = "starting"
        /\ \A e \in Daemons : e # d => daemon'[e] = daemon[e]
    BY <1>2, <1>4 DEF IInv, TypeOK, States
  <2>2. /\ cmd' \in [Procs -> Places] /\ cmd'[p] = "wait" /\ \A q \in Procs : q = p
        /\ arg' = arg /\ arg \in [Procs -> Daemons \union {None}]
    BY <1>4, Stepped DEF Serial, Places, IInv, TypeOK
  <2>3. \A e \in Daemons : daemon'[e] # "bound"
    BY <1>2, <2>1
  <2>4. TypeOK'
    <3>1. \A q \in Procs : arg'[q] # None <=> cmd'[q] \in InHand
      BY <1>2, <2>2, NoneAssumption DEF InHand, Starting
    <3>2. \A e \in Daemons : daemon'[e] = "bound" <=>
             \E q \in Procs : arg'[q] = e /\ cmd'[q] \in Holding
      BY <2>2, <2>3 DEF Holding
    <3>3. /\ sockFile' \in Daemons \union {None} /\ logFile' \in Daemons \union {None}
          /\ listens' \subseteq Daemons /\ reported' \subseteq Daemons
          /\ logOf' \in [Daemons -> Daemons \union {None}]
      BY <1>1, <1>4 DEF IInv, TypeOK
    <3> QED
      BY <2>1, <2>2, <3>1, <3>2, <3>3, Zenon DEF TypeOK, Places, InHand, Holding, States
  <2>5. Reachable'
    BY <1>1, <1>2, <1>4, <2>1 DEF Reachable, Lives
  <2>6. LogKept' /\ NoLogYet'
    BY <1>1, <1>2, <2>1 DEF IInv, LogKept, NoLogYet
  <2>7. Prepared' /\ Quiet' /\ Target'
    BY <2>2, <2>3 DEF Prepared, Quiet, Target, Alone
  <2>8. StoppedIsDead'
    <3>1. \A e \in reported : e \in Daemons /\ daemon[e] \in {"leaving", "gone"}
      BY DEF IInv, TypeOK, StoppedIsDead
    <3> QED
      BY <1>1, <1>2, <2>1, <3>1 DEF StoppedIsDead
  <2> QED
    BY <2>4, <2>5, <2>6, <2>7, <2>8 DEF IInv
<1> QED
  BY <1>3, <1>4 DEF Fork

LEMMA StartIInv == ASSUME Serial, IInv, NEW p \in Procs, StartStep(p) PROVE IInv'
<1>1. CASE ImplicitAttach(p) \/ ImplicitUnlink(p) \/ ListenProbe(p) \/ ListenUnlink(p)
  BY <1>1, ProbeIInv
<1>2. CASE Bind(p)
  BY <1>2, BindIInv
<1>3. CASE Listen(p)
  <2>1. /\ cmd[p] = "bound" /\ listens' = listens \union {arg[p]} /\ Goto(p, "listening")
        /\ sockFile' = sockFile /\ logFile' = logFile /\ daemon' = daemon /\ logOf' = logOf
        /\ arg' = arg /\ reported' = reported
    BY <1>3 DEF Listen, fileVs
  <2>2. arg[p] \in Daemons
    BY <2>1, HoldsOwn DEF Holding
  <2>3. "listening" \in Places /\ "listening" \in InHand /\ "listening" \in Holding /\ "bound" \in Holding
    BY DEF Places, InHand, Starting, Holding
  <2>4. /\ listens' \subseteq Daemons /\ reported' \subseteq Daemons
        /\ sockFile' \in Daemons \union {None} /\ logFile' \in Daemons \union {None}
        /\ arg' \in [Procs -> Daemons \union {None}] /\ arg'[p] # None
    BY <2>1, <2>2, NoneAssumption DEF IInv, TypeOK
  <2>5. TypeOK'
    BY <2>1, <2>3, <2>4, StepType
  <2>6. "listening" \notin Alone \union {"kill", "kill_last"} /\ arg'[p] \in listens'
        /\ listens \subseteq listens'
    BY <2>1 DEF Alone
  <2> QED
    BY <2>1, <2>3, <2>5, <2>6, StepIInv
<1>4. CASE SetMode(p)
  <2>1. /\ cmd[p] = "listening" /\ cmd[p] \in Holding /\ sockFile' = sockFile /\ logFile' = logFile
        /\ listens' = listens /\ logOf' = logOf /\ reported' = reported
    BY <1>4 DEF SetMode, fileVs, Holding
  <2>2. CASE daemon' = [daemon EXCEPT ![arg[p]] = "gone"] /\ Return(p)
    BY <2>1, <2>2, LetGoIInv
  <2>3. CASE Goto(p, "fork") /\ UNCHANGED <<daemon, arg>>
    <3>1. arg[p] \in Daemons /\ arg[p] \in listens
      BY <2>1, HoldsOwn DEF IInv, Prepared
    <3>2. "fork" \in Places /\ "fork" \in InHand /\ "fork" \in Holding
          /\ "fork" \notin Alone \union {"kill", "kill_last"}
      BY DEF Places, InHand, Starting, Holding, Alone
    <3>3. /\ listens' \subseteq Daemons /\ reported' \subseteq Daemons
          /\ sockFile' \in Daemons \union {None} /\ logFile' \in Daemons \union {None}
          /\ arg' \in [Procs -> Daemons \union {None}] /\ arg'[p] # None
      BY <2>1, <2>3, <3>1, NoneAssumption DEF IInv, TypeOK
    <3>4. TypeOK'
      BY <2>1, <2>3, <3>2, <3>3, StepType
    <3> QED
      BY <2>1, <2>3, <3>1, <3>2, <3>4, StepIInv
  <2> QED
    BY <1>4, <2>2, <2>3 DEF SetMode
<1>5. CASE Fork(p)
  BY <1>5, ForkIInv
<1>6. CASE Started(p)
  BY <1>6, ReturnIInv DEF Started, fileVs, Holding, IInv, TypeOK
<1> QED
  BY <1>1, <1>2, <1>3, <1>4, <1>5, <1>6 DEF StartStep

\* An interrupted command leaves the files as they are; its listener closes.
LEMMA InterruptedIInv == ASSUME Serial, IInv, NEW p \in Procs, Interrupted(p) PROVE IInv'
<1>1. /\ Return(p) /\ sockFile' = sockFile /\ logFile' = logFile /\ listens' = listens
      /\ logOf' = logOf /\ reported' = reported
      /\ daemon' = [d \in Daemons |->
                      IF daemon[d] = "bound" /\ arg[p] = d THEN "gone" ELSE daemon[d]]
  BY DEF Interrupted, fileVs
<1>2. CASE cmd[p] \in Holding
  <2>1. arg[p] \in Daemons /\ daemon[arg[p]] = "bound" /\ daemon \in [Daemons -> States]
    BY <1>2, HoldsOwn DEF IInv, TypeOK, States
  <2>2. daemon' = [daemon EXCEPT ![arg[p]] = "gone"]
    BY <1>1, <2>1
  <2> QED
    BY <1>1, <1>2, <2>2, LetGoIInv
<1>3. CASE cmd[p] \notin Holding
  <2>1. daemon' = daemon
    BY <1>1, <1>3, NoneBound DEF IInv, TypeOK
  <2> QED
    BY <1>1, <1>3, <2>1, ReturnIInv DEF daemonVs, IInv, TypeOK
<1> QED
  BY <1>2, <1>3

(***************************************************************************)
(* What the name promises                                                  *)
(***************************************************************************)

\* Whoever has the name answers from listen on, and nobody else does.
HolderAlone == \A d \in Holders : /\ Holders = {d}
                                  /\ Answering = IF d \in listens THEN {d} ELSE {}
LEMMA HolderAnswers == IInv => HolderAlone
<1> SUFFICES ASSUME IInv, NEW d \in Daemons, d \in Holders
             PROVE  Holders = {d} /\ Answering = IF d \in listens THEN {d} ELSE {}
  BY DEF HolderAlone, Holders
<1>1. daemon[d] \in Lives \union {"bound"}
  BY DEF Holders, Lives
<1>2. Holders = {d}
  BY <1>1, OneLives DEF Holders, Lives
<1>3. sockFile = d /\ d # None
  BY <1>1, NoneAssumption DEF IInv, Reachable, Prepared
<1>4. Alive(d) \/ Held(d)
  BY <1>1 DEF IInv, TypeOK, Alive, Held, Lives, Starting
<1> QED
  BY <1>2, <1>3, <1>4 DEF Answering, Connected

LEMMA HolderAnswersNext == IInv' => HolderAlone'
BY HolderAnswers, PTL

\* What was not started yet does not listen.
NoListener == \A d \in Daemons : daemon[d] = "unborn" => d \notin listens
LEMMA StepListener ==
  ASSUME Serial, IInv, NoListener, [Next]_vars
  PROVE  NoListener'
<1>1. CASE \E p \in Procs : Listen(p)
  <2>1. PICK p \in Procs : Listen(p)
    BY <1>1
  <2>2. daemon[arg[p]] = "bound"
    BY <2>1, HoldsOwn DEF Listen, Holding
  <2> QED
    BY <2>1, <2>2 DEF Listen, NoListener
<1>2. CASE ~\E p \in Procs : Listen(p)
  <2>1. listens' = listens
    BY <1>2 DEF Next, vars, daemonVs, StartStep, RmStep, KillStep, DaemonStep, ImplicitAttach,
       ImplicitUnlink, ListenProbe, ListenUnlink, Bind, SetMode, Fork, Started, OpenLog,
       StartChild, TerminalCloses, ReapChild, UnlinkOwn, Exit, Crash, RmProbe, RmAll, RmSock,
       RmLog, RmOrphan, RmOrphaned, KillSend, KillGone, Escalate, GiveUp, Interrupted
  <2>2. \A d \in Daemons : daemon'[d] = "unborn" => daemon[d] = "unborn"
    <3>1. daemon \in [Daemons -> States]
      BY DEF IInv, TypeOK, States
    <3> QED
      BY <1>2, <3>1 DEF Next, vars, daemonVs, StartStep, RmStep, KillStep, DaemonStep,
         ImplicitAttach, ImplicitUnlink, ListenProbe, ListenUnlink, Bind, SetMode, Fork, Started,
         OpenLog, StartChild, TerminalCloses, ReapChild, UnlinkOwn, Exit, Crash, RmProbe, RmAll,
         RmSock, RmLog, RmOrphan, RmOrphaned, KillSend, KillGone, Escalate, GiveUp, Interrupted,
         Becomes
  <2> QED
    BY <2>1, <2>2 DEF NoListener
<1> QED
  BY <1>1, <1>2

\* Where no socket, listener, daemon or start is added, nobody begins to answer.
Fading == /\ sockFile' \in {sockFile, None} /\ listens' = listens
          /\ \A d \in Daemons : (Alive(d)' => Alive(d)) /\ (Held(d)' => Held(d))
LEMMA Fades == ASSUME IInv, Fading PROVE Answering' \in {Answering, {}}
<1>1. CASE Connected'
  <2>1. sockFile' = sockFile /\ sockFile \in Daemons /\ sockFile # None /\ sockFile \in listens
    BY <1>1 DEF Fading, Connected, IInv, TypeOK
  <2>2. Alive(sockFile)' \/ Held(sockFile)'
    BY <1>1 DEF Connected
  <2>3. Alive(sockFile) \/ Held(sockFile)
    BY <2>1, <2>2 DEF Fading
  <2> QED
    BY <1>1, <2>1, <2>3 DEF Answering, Connected
<1>2. CASE ~Connected'
  BY <1>2 DEF Answering
<1> QED
  BY <1>1, <1>2

Promised == [Name!Next]_<<Holders, Answering, Ended, reported>>

\* A step by which no session takes the name, ends or is reported.
LEMMA SameHolder ==
  ASSUME IInv, IInv', Holders' = Holders, Ended' = Ended, UNCHANGED <<listens, reported>>,
         Holders = {} => Fading
  PROVE  Promised
<1>1. CASE Holders = {}
  <2>1. Answering' \in {Answering, {}}
    BY <1>1, Fades
  <2> QED
    BY <1>1, <2>1 DEF Promised, Name!Next, Name!Close
<1>2. ASSUME NEW d \in Daemons, d \in Holders PROVE Promised
  <2>1. d \in Holders'
    BY <1>2
  <2>2. Answering = IF d \in listens THEN {d} ELSE {}
    BY <1>2, HolderAnswers DEF HolderAlone
  <2>3. Answering' = IF d \in listens' THEN {d} ELSE {}
    BY <2>1, HolderAnswersNext DEF HolderAlone
  <2> QED
    BY <2>2, <2>3 DEF Promised
<1> QED
  BY <1>1, <1>2 DEF Holders

\* A session that has the name ends, on its own or before it was forked.
LEMMA GivesUp ==
  ASSUME IInv, NEW d \in Daemons, d \in Holders, NEW t \in {"leaving", "gone"},
         daemon' = [daemon EXCEPT ![d] = t], Fading, reported' = reported
  PROVE  Promised
<1>1. /\ daemon'[d] = t /\ \A e \in Daemons : e # d => daemon'[e] = daemon[e]
  BY DEF IInv, TypeOK
<1>2. Holders = {d}
  BY HolderAnswers DEF HolderAlone
<1>3. Holders' = {}
  BY <1>1, <1>2 DEF Holders
<1>4. Ended' = Ended \union Holders
  BY <1>1, <1>2 DEF Ended
<1>5. Answering' \in {Answering, {}}
  BY Fades
<1> QED
  BY <1>2, <1>3, <1>4, <1>5 DEF Promised, Name!Next, Name!End

\* A command that only looks, removes or returns.
LEMMA CommandPromise ==
  ASSUME Serial, IInv, IInv', NEW p \in Procs, UNCHANGED <<daemonVs, reported>>,
         sockFile' \in {sockFile, None}, cmd'[p] \notin Starting
  PROVE  Promised
<1>1. daemon' = daemon /\ listens' = listens /\ reported' = reported
  BY DEF daemonVs
<1>2. Holders' = Holders /\ Ended' = Ended
  BY <1>1 DEF Holders, Ended
<1>3. Fading
  BY <1>1 DEF Fading, Alive, Held, Serial
<1> QED
  BY <1>1, <1>2, <1>3, SameHolder

\* A daemon moves on: it keeps the name until it has removed its socket or has died.
LEMMA DaemonPromise ==
  ASSUME IInv, IInv', NEW d \in Daemons, DaemonStep(d)
  PROVE  Promised
<1>1. PICK t \in States :
        /\ daemon' = [daemon EXCEPT ![d] = t]
        /\ \/ daemon[d] \in Lives /\ t \in Lives
           \/ daemon[d] \in Lives /\ t \in {"leaving", "gone"}
           \/ daemon[d] = "leaving" /\ t = "gone"
  BY DEF DaemonStep, OpenLog, StartChild, TerminalCloses, ReapChild, UnlinkOwn, Exit, Crash,
     Becomes, Alive, Lives, States
<1>2. /\ sockFile' \in {sockFile, None} /\ listens' = listens /\ reported' = reported
      /\ cmd' = cmd /\ arg' = arg
  BY DEF DaemonStep, OpenLog, StartChild, TerminalCloses, ReapChild, UnlinkOwn, Exit, Crash,
     fileVs, cmdVs
<1>3. /\ daemon'[d] = t /\ \A e \in Daemons : e # d => daemon'[e] = daemon[e]
  BY <1>1 DEF IInv, TypeOK
<1>4. Fading
  BY <1>1, <1>2, <1>3 DEF Fading, Alive, Held, Lives
<1>5. CASE daemon[d] \in Lives /\ t \in {"leaving", "gone"}
  BY <1>1, <1>2, <1>4, <1>5, GivesUp DEF Holders, Lives
<1>6. CASE \/ daemon[d] \in Lives /\ t \in Lives
           \/ daemon[d] = "leaving" /\ t = "gone"
  <2>1. Holders' = Holders /\ Ended' = Ended
    BY <1>3, <1>6 DEF Holders, Ended, Lives
  <2> QED
    BY <1>2, <1>4, <2>1, SameHolder
<1> QED
  BY <1>1, <1>5, <1>6

\* A start that fails or is interrupted before the fork gives the name up.
LEMMA LetGoPromise ==
  ASSUME Serial, IInv, NEW p \in Procs, cmd[p] \in Holding, Return(p),
         daemon' = [daemon EXCEPT ![arg[p]] = "gone"],
         listens' = listens, reported' = reported, sockFile' \in {sockFile, None}
  PROVE  Promised
<1>1. /\ arg[p] \in Daemons /\ daemon[arg[p]] = "bound"
  BY HoldsOwn
<1>2. /\ daemon'[arg[p]] = "gone" /\ \A e \in Daemons : e # arg[p] => daemon'[e] = daemon[e]
      /\ cmd'[p] = "idle" /\ \A q \in Procs : q = p
  BY <1>1, Stepped DEF IInv, TypeOK, Return, Serial, Places
<1>3. Fading
  BY <1>1, <1>2 DEF Fading, Alive, Held, Starting
<1>4. arg[p] \in Holders
  BY <1>1 DEF Holders
<1> QED
  BY <1>1, <1>3, <1>4, GivesUp

\* bind takes the name, listen opens it, and fork hands it on.
LEMMA StartPromise ==
  ASSUME Serial, IInv, IInv', NoListener, NEW p \in Procs, StartStep(p)
  PROVE  Promised
<1>1. CASE ImplicitAttach(p) \/ ImplicitUnlink(p) \/ ListenProbe(p) \/ ListenUnlink(p) \/ Started(p)
  <2>1. UNCHANGED <<daemonVs, reported>> /\ sockFile' \in {sockFile, None}
    BY <1>1 DEF ImplicitAttach, ImplicitUnlink, ListenProbe, ListenUnlink, Started, fileVs
  <2>2. \E s \in {"idle", "implicit", "start", "unlink", "bind"} : Goto(p, s)
    BY <1>1 DEF ImplicitAttach, ImplicitUnlink, ListenProbe, ListenUnlink, Started, Return
  <2>3. cmd'[p] \notin Starting
    BY <2>2, Stepped DEF Places, Starting
  <2> QED
    BY <2>1, <2>3, CommandPromise
<1>2. CASE Bind(p)
  <2>1. CASE Return(p) /\ UNCHANGED <<sockFile, daemon>>
    <3>1. cmd'[p] \notin Starting
      BY <2>1, Stepped DEF Return, Places, Starting
    <3> QED
      BY <1>2, <2>1, <3>1, CommandPromise DEF Bind, daemonVs
  <2>2. ASSUME NEW d \in Daemons, Absent, daemon[d] = "unborn",
               daemon' = [daemon EXCEPT ![d] = "bound"], sockFile' = d
        PROVE  Promised
    <3>1. cmd[p] = "bind" /\ listens' = listens /\ reported' = reported
      BY <1>2 DEF Bind
    <3>2. Holders = {}
      BY <3>1, NoneBound DEF Holders, IInv, Quiet, Alone, Holding, Lives
    <3>3. /\ daemon'[d] = "bound" /\ \A e \in Daemons : e # d => daemon'[e] = daemon[e]
      BY <2>2 DEF IInv, TypeOK
    <3>4. Holders' = {d} /\ Ended' = Ended /\ d \notin Ended
      BY <2>2, <3>2, <3>3 DEF Holders, Ended
    <3>5. Answering = {}
      BY <2>2 DEF Absent, Answering, Connected
    <3>6. d \notin listens
      BY <2>2 DEF NoListener
    <3>7. Answering' = {}
      BY <3>1, <3>4, <3>6, HolderAnswersNext DEF HolderAlone
    <3> QED
      BY <3>1, <3>2, <3>4, <3>5, <3>7 DEF Promised, Name!Next, Name!Take
  <2> QED
    BY <1>2, <2>1, <2>2 DEF Bind
<1>3. CASE Listen(p)
  <2>1. /\ cmd[p] = "bound" /\ listens' = listens \union {arg[p]}
        /\ daemon' = daemon /\ reported' = reported
    BY <1>3 DEF Listen
  <2>2. arg[p] \in Daemons /\ daemon[arg[p]] = "bound"
    BY <2>1, HoldsOwn DEF Holding
  <2>3. arg[p] \in Holders /\ Holders' = Holders /\ Ended' = Ended
    BY <2>1, <2>2 DEF Holders, Ended
  <2>4. Holders = {arg[p]} /\ Answering' = {arg[p]}
    BY <2>1, <2>3, HolderAnswers, HolderAnswersNext DEF HolderAlone
  <2> QED
    BY <2>1, <2>3, <2>4 DEF Promised, Name!Next, Name!Open
<1>4. CASE SetMode(p)
  <2>1. /\ cmd[p] = "listening" /\ cmd[p] \in Holding /\ sockFile' = sockFile
        /\ listens' = listens /\ reported' = reported
    BY <1>4 DEF SetMode, fileVs, Holding
  <2>2. CASE daemon' = [daemon EXCEPT ![arg[p]] = "gone"] /\ Return(p)
    BY <2>1, <2>2, LetGoPromise
  <2>3. CASE Goto(p, "fork") /\ UNCHANGED <<daemon, arg>>
    <3>1. arg[p] \in Daemons /\ daemon[arg[p]] = "bound"
      BY <2>1, HoldsOwn
    <3>2. arg[p] \in Holders /\ Holders' = Holders /\ Ended' = Ended
      BY <2>3, <3>1 DEF Holders, Ended
    <3> QED
      BY <2>1, <3>2, SameHolder
  <2> QED
    BY <1>4, <2>2, <2>3 DEF SetMode
<1>5. CASE Fork(p)
  <2>1. /\ cmd[p] = "fork" /\ cmd[p] \in Holding /\ listens' = listens /\ reported' = reported
    BY <1>5 DEF Fork, Holding
  <2>2. CASE daemon' = [daemon EXCEPT ![arg[p]] = "gone"] /\ sockFile' = None /\ Return(p)
    BY <2>1, <2>2, LetGoPromise
  <2>3. CASE daemon' = [daemon EXCEPT ![arg[p]] = "starting"]
    <3>1. arg[p] \in Daemons /\ daemon[arg[p]] = "bound"
      BY <2>1, HoldsOwn
    <3>2. /\ daemon'[arg[p]] = "starting"
          /\ \A e \in Daemons : e # arg[p] => daemon'[e] = daemon[e]
      BY <2>3, <3>1 DEF IInv, TypeOK
    <3>3. arg[p] \in Holders /\ Holders' = Holders /\ Ended' = Ended
      BY <3>1, <3>2 DEF Holders, Ended
    <3> QED
      BY <2>1, <3>3, SameHolder
  <2> QED
    BY <1>5, <2>2, <2>3 DEF Fork
<1> QED
  BY <1>1, <1>2, <1>3, <1>4, <1>5 DEF StartStep

LEMMA StepPromise ==
  ASSUME Serial, IInv, IInv', NoListener, [Next]_vars
  PROVE  Promised
<1>1. ASSUME NEW p \in Procs, StartStep(p) PROVE Promised
  BY <1>1, StartPromise
<1>2. ASSUME NEW p \in Procs, RmStep(p) PROVE Promised
  <2>1. UNCHANGED <<daemonVs, reported>> /\ sockFile' \in {sockFile, None}
    BY <1>2 DEF RmStep, RmProbe, RmAll, RmSock, RmLog, RmOrphan, RmOrphaned, fileVs
  <2>2. \E s \in {"idle", "rm_sock", "rm_log", "rm_orphan", "rm_orphaned"} : Goto(p, s)
    BY <1>2 DEF RmStep, RmProbe, RmAll, RmSock, RmLog, RmOrphan, RmOrphaned, Return
  <2>3. cmd'[p] \notin Starting
    BY <2>2, Stepped DEF Places, Starting
  <2> QED
    BY <2>1, <2>3, CommandPromise
<1>3. ASSUME NEW p \in Procs, KillStep(p) PROVE Promised
  <2>1. UNCHANGED daemonVs /\ sockFile' = sockFile
    BY <1>3 DEF KillStep, KillSend, KillGone, Escalate, GiveUp, fileVs
  <2>2. \E s \in {"idle", "kill", "kill_last"} : Goto(p, s)
    BY <1>3 DEF KillStep, KillSend, KillGone, Escalate, GiveUp, Return
  <2>3. cmd'[p] \notin Starting
    BY <2>2, Stepped DEF Places, Starting
  <2>4. CASE reported' = reported
    BY <2>1, <2>3, <2>4, CommandPromise
  <2>5. CASE KillGone(p)
    <3>1. /\ sockFile = None /\ reported' = reported \union {arg[p]} /\ arg[p] \in Daemons
      BY <2>5 DEF KillGone, Absent, IInv, TypeOK
    <3>2. Holders' = Holders /\ Ended' = Ended
      BY <2>1 DEF daemonVs, Holders, Ended
    <3>3. Answering' = Answering
      BY <2>1, <3>1 DEF Answering, Connected
    <3>4. arg[p] \in reported'
      BY <3>1
    <3>5. arg[p] \in Ended
      BY <2>1, <3>1, <3>4 DEF daemonVs, IInv, StoppedIsDead, Ended
    <3> QED
      BY <3>1, <3>2, <3>3, <3>5 DEF Promised, Name!Next, Name!Report
  <2> QED
    BY <1>3, <2>4, <2>5 DEF KillStep, KillSend, Escalate, GiveUp
<1>4. ASSUME NEW p \in Procs, Interrupted(p) PROVE Promised
  <2>1. /\ Return(p) /\ sockFile' = sockFile
        /\ listens' = listens /\ logOf' = logOf /\ reported' = reported
        /\ daemon' = [d \in Daemons |->
                        IF daemon[d] = "bound" /\ arg[p] = d THEN "gone" ELSE daemon[d]]
    BY <1>4 DEF Interrupted, fileVs
  <2>2. CASE cmd[p] \in Holding
    <3>1. arg[p] \in Daemons /\ daemon[arg[p]] = "bound" /\ daemon \in [Daemons -> States]
      BY <2>2, HoldsOwn DEF IInv, TypeOK, States
    <3>2. daemon' = [daemon EXCEPT ![arg[p]] = "gone"]
      BY <2>1, <3>1
    <3> QED
      BY <2>1, <2>2, <3>2, LetGoPromise
  <2>3. CASE cmd[p] \notin Holding
    <3>1. daemon' = daemon
      BY <2>1, <2>3, NoneBound DEF IInv, TypeOK
    <3>2. cmd'[p] \notin Starting
      BY <2>1, Stepped DEF Return, Places, Starting
    <3> QED
      BY <2>1, <3>1, <3>2, CommandPromise DEF daemonVs
  <2> QED
    BY <2>2, <2>3
<1>5. ASSUME NEW d \in Daemons, DaemonStep(d) PROVE Promised
  BY <1>5, DaemonPromise
<1>6. CASE UNCHANGED vars
  BY <1>6 DEF vars, fileVs, daemonVs, cmdVs, Promised, Holders, Ended, Answering, Connected,
     Alive, Held
<1> QED
  BY <1>1, <1>2, <1>3, <1>4, <1>5, <1>6 DEF Next

(***************************************************************************)
(* Theorems                                                                *)
(***************************************************************************)

LEMMA InitIInv == Init => IInv
BY NoneAssumption DEF Init, IInv, TypeOK, Starting, Reachable, Prepared, Quiet, Target, NoLogYet,
   LogKept, StoppedIsDead, Lives, Alone

LEMMA NextIInv == ASSUME Serial PROVE IInv /\ [Next]_vars => IInv'
<1> SUFFICES ASSUME IInv, [Next]_vars PROVE IInv'
  OBVIOUS
<1>1. ASSUME NEW p \in Procs, StartStep(p) PROVE IInv'
  BY <1>1, StartIInv
<1>2. ASSUME NEW p \in Procs, RmStep(p) PROVE IInv'
  BY <1>2, RmIInv
<1>3. ASSUME NEW p \in Procs, KillStep(p) PROVE IInv'
  BY <1>3, KillIInv
<1>4. ASSUME NEW p \in Procs, Interrupted(p) PROVE IInv'
  BY <1>4, InterruptedIInv
<1>5. ASSUME NEW d \in Daemons, DaemonStep(d) PROVE IInv'
  BY <1>5, DaemonIInv
<1>6. CASE UNCHANGED vars
  BY <1>6 DEF vars, fileVs, daemonVs, cmdVs, IInv, TypeOK, Starting, Reachable, Prepared, Quiet,
     Target, NoLogYet, LogKept, StoppedIsDead
<1> QED
  BY <1>1, <1>2, <1>3, <1>4, <1>5, <1>6 DEF Next

\* While commands on the name do not overlap, the invariant holds in every state.
THEOREM Lifecycle == ASSUME Serial PROVE Spec => []IInv
<1>1. IInv /\ [Next]_vars => IInv'
  BY NextIInv
<1> QED
  BY InitIInv, <1>1, PTL DEF Spec

\* Types; a listener that is not handed on yet is in the command that starts it.
THEOREM Types == ASSUME Serial PROVE Spec => []TypeOK
<1>1. IInv => TypeOK
  BY DEF IInv
<1> QED
  BY <1>1, Lifecycle, PTL

\* A session that runs keeps its socket, whatever crashes, ends or is interrupted:
\* listen_unix, rm and the cleanup of an older session never remove it.
THEOREM KeepsItsName == ASSUME Serial PROVE Spec => []Named
<1>1. IInv => Named
  BY DEF IInv, Reachable, Lives, Named
<1> QED
  BY <1>1, Lifecycle, PTL

\* A session that runs keeps its log: rm removes only logs of sessions that are over.
THEOREM KeepsItsLog == ASSUME Serial PROVE Spec => []LogKept
<1>1. IInv => LogKept
  BY DEF IInv
<1> QED
  BY <1>1, Lifecycle, PTL

\* Session::kill reports a session stopped only when its child is dead.
THEOREM ReportsTheDead == ASSUME Serial PROVE Spec => []StoppedIsDead
<1>1. IInv => StoppedIsDead
  BY DEF IInv
<1> QED
  BY <1>1, Lifecycle, PTL

\* The files, listeners and commands implement the name: one session has it at a time,
\* it alone answers, from listen until its end, and kill reports what has ended.
THEOREM ImplementsName == ASSUME Serial PROVE Spec => KeepsPromise
<1>1. Init => Name!Init /\ NoListener
  BY DEF Init, NoListener, Name!Init, Holders, Ended, Answering, Connected
<1>2. IInv /\ NoListener /\ [Next]_vars => NoListener'
  BY StepListener
<1>3. IInv /\ IInv' /\ NoListener /\ [Next]_vars
         => [Name!Next]_<<Holders, Answering, Ended, reported>>
  BY StepPromise DEF Promised
<1> QED
  BY <1>1, <1>2, <1>3, Lifecycle, PTL DEF Spec, KeepsPromise, Name!Spec
=============================================================================
