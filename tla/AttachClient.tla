--------------------------- MODULE AttachClient ---------------------------
(***************************************************************************)
(* The attached client of session.rs: attach, event_loop and what they     *)
(* call, with the signal handlers that may run between any two of its      *)
(* steps, the user, the terminal, and the daemon as the client sees it.    *)
(***************************************************************************)
EXTENDS Integers, Sequences

CONSTANTS QueueCap,   \* packets the connection holds before a write blocks
          KeyCap,     \* keys typed and not yet read
          ChunkLen,   \* keys one read of stdin takes (8 in the code)
          MaxResize,  \* bound: how often the window changes its size
          Suspends,   \* the suspend key is looked at (~no_suspend)
          Detaches    \* there is a detach key (detach_char >= 0)

ASSUME ClientAssumption == /\ {QueueCap, KeyCap, ChunkLen} \subseteq Nat \ {0}
                           /\ MaxResize \in Nat
                           /\ {Suspends, Detaches} \subseteq BOOLEAN

VARIABLES
    pc, sending,              \* the client's place; the packet being written
    ready, code,              \* what select reported; the exit status
    shouldDie, winChanged,    \* SHOULD_DIE and WIN_CHANGED
    backedUp,                 \* TERM_BACKED_UP
    pending,                  \* signals that wait for a stopped process
    term, size, keys, tty,    \* the terminal: its mode, size, input; still there
    server, queue, output,    \* the connection: its state, each direction
    attached, told            \* what the daemon believes of this client

progVars   == <<pc, sending, ready, code>>
sigVars    == <<shouldDie, winChanged, pending>>
termVars   == <<term, backedUp>>
userVars   == <<size, keys, tty>>
serverVars == <<server, queue, output, attached, told>>
vars == <<progVars, sigVars, termVars, userVars, serverVars>>

Keys == {"text", "suspend", "detach", "ctrl_l"}
Packets == [type : {"Push", "Attach", "Detach", "Winch", "Redraw"}, size : 0 .. MaxResize]
SizedTypes == {"Winch", "Redraw"}
Sized(p) == p.type \in SizedTypes

Nothing == [packet |-> [type |-> "Push", size |-> 0], then |-> "exited", failed |-> "exited"]

Init ==
    /\ pc = "handlers" /\ sending = Nothing /\ ready = {} /\ code = 0
    /\ shouldDie = FALSE /\ winChanged = FALSE /\ pending = {}
    /\ term = "cooked" /\ backedUp = FALSE
    /\ size = 0 /\ keys = << >> /\ tty = TRUE
    /\ server = "open" /\ queue = << >> /\ output = FALSE
    /\ attached = FALSE /\ told = 0

Goto(place) == pc' = place /\ UNCHANGED <<sending, ready, code>>

\* A packet of this type is written next, and then the client goes on at then;
\* the window size is the one of this moment.
Write(type, then, failed) ==
    /\ pc' = "send"
    /\ sending' = [packet |-> [type |-> type, size |-> IF type \in SizedTypes THEN size ELSE 0],
                   then |-> then, failed |-> failed]
    /\ ready' = {} /\ code' = code

(***************************************************************************)
(* Signals                                                                 *)
(***************************************************************************)

\* A signal ends select, not the steps that lead to it; a blocked write goes on,
\* signal(3) restarts it.
Interrupted == IF pc = "select" THEN "check" ELSE pc

\* restore_term.
RestoreTerm == term' = IF backedUp THEN "cooked" ELSE term

\* SIGHUP, SIGTERM, SIGINT or SIGQUIT.  Before the handlers are installed it is
\* the end; a stopped process handles it when it continues.  Nobody sends the client a
\* SIGTSTP (it is raw), SIGSTOP or SIGKILL: it stops itself only (Stop).
DieSignal ==
    \/ /\ pc = "handlers"
       /\ pc' = "exited" /\ code' = 1
       /\ UNCHANGED <<sending, ready, sigVars, termVars>>
    \/ /\ pc = "stopped"
       /\ pending' = pending \union {"die"}
       /\ UNCHANGED <<progVars, termVars, shouldDie, winChanged>>
    \/ /\ pc \notin {"handlers", "stopped", "exited"}
       /\ shouldDie' = TRUE /\ RestoreTerm /\ Goto(Interrupted)
       /\ UNCHANGED <<winChanged, pending, backedUp>>

\* The window gets another size.  SIGWINCH goes to the foreground: the client,
\* or, while it is stopped, the shell; it may come just before the shell takes over.
Resize ==
    /\ size < MaxResize /\ size' = size + 1
    /\ \/ /\ pc \in {"handlers", "exited"}
          /\ UNCHANGED <<progVars, sigVars>>
       \/ /\ pc = "stopped"
          /\ pending' \in {pending, pending \union {"winch"}}
          /\ UNCHANGED <<progVars, shouldDie, winChanged>>
       \/ /\ pc \notin {"handlers", "stopped", "exited"}
          /\ winChanged' = TRUE /\ Goto(Interrupted)
          /\ UNCHANGED <<shouldDie, pending>>
    /\ UNCHANGED <<termVars, keys, tty, serverVars>>

(***************************************************************************)
(* attach, from the handlers to the event loop                             *)
(***************************************************************************)

InstallHandlers ==
    /\ pc = "handlers" /\ Goto("raw")
    /\ UNCHANGED <<sigVars, termVars, userVars, serverVars>>

\* Mutant of RawTerminal: the terminal is not noted as one to restore.
RawOnly ==
    /\ pc = "raw" /\ term' = "raw"
    /\ Write("Attach", "redraw", "return")
    /\ UNCHANGED <<sigVars, userVars, serverVars, backedUp>>

RawTerminal ==
    /\ pc = "raw" /\ backedUp' = TRUE /\ term' = "raw"
    /\ Write("Attach", "redraw", "return")
    /\ UNCHANGED <<sigVars, userVars, serverVars>>

FirstRedraw ==
    /\ pc = "redraw"
    /\ Write("Redraw", "check", "return")
    /\ UNCHANGED <<sigVars, termVars, userVars, serverVars>>

\* Mutant of Send: it does not wait for room.
SendAtOnce ==
    /\ pc = "send"
    /\ queue' = IF server = "open" THEN Append(queue, sending.packet) ELSE queue
    /\ pc' = IF server = "open" THEN sending.then ELSE sending.failed
    /\ sending' = Nothing
    /\ UNCHANGED <<ready, code, sigVars, termVars, userVars, server, output, attached, told>>

\* Packet::write_to on a connection that blocks.
Send ==
    /\ pc = "send"
    /\ \/ /\ server = "open" /\ Len(queue) < QueueCap
          /\ queue' = Append(queue, sending.packet)
          /\ pc' = sending.then
       \/ /\ server # "open"
          /\ pc' = sending.failed
          /\ UNCHANGED queue
    /\ sending' = Nothing
    /\ UNCHANGED <<ready, code, sigVars, termVars, userVars, server, output, attached, told>>

\* A failed attach returns, and main's exit runs restore_term.
ReturnFailed ==
    /\ pc = "return"
    /\ pc' = "exited" /\ code' = 1 /\ RestoreTerm
    /\ UNCHANGED <<sending, ready, sigVars, backedUp, userVars, serverVars>>

(***************************************************************************)
(* event_loop                                                              *)
(***************************************************************************)

Leave(status) == pc' = "restore" /\ code' = status /\ ready' = {} /\ UNCHANGED sending

CheckDie ==
    /\ pc = "check"
    /\ IF shouldDie THEN Leave(0) ELSE Goto("fdset")
    /\ UNCHANGED <<sigVars, termVars, userVars, serverVars>>

\* The descriptors are set and select is entered: a signal that came since the load
\* of SHOULD_DIE has been handled and does not end it.
EnterSelect ==
    /\ pc = "fdset" /\ Goto("select")
    /\ UNCHANGED <<sigVars, termVars, userVars, serverVars>>

Readable == {f \in {"server", "stdin"} :
                \/ f = "server" /\ (output \/ server # "open")
                \/ f = "stdin" /\ (keys # << >> \/ ~tty)}
Select ==
    /\ pc = "select" /\ Readable # {}
    /\ pc' = "server" /\ ready' = Readable
    /\ UNCHANGED <<sending, code, sigVars, termVars, userVars, serverVars>>

\* handle_server_data: what the daemon sent goes to the terminal; its end, or an
\* error, is the client's.
ServerData ==
    /\ pc = "server"
    /\ IF "server" \notin ready \/ output
       THEN pc' = "stdin" /\ ready' = ready \ {"server"} /\ UNCHANGED <<sending, code>>
       ELSE Leave(IF server = "closed" THEN 0 ELSE 1)
    /\ output' = IF "server" \in ready THEN FALSE ELSE output
    /\ UNCHANGED <<sigVars, termVars, userVars, server, queue, attached, told>>

\* handle_stdin_data.  Only the first of the keys read is looked at.
Taken == IF Len(keys) < ChunkLen THEN Len(keys) ELSE ChunkLen
Read == keys' = SubSeq(keys, Taken + 1, Len(keys))

\* Mutant of NoInput: the window is looked at after input only.
NoInputNoSize ==
    /\ pc = "stdin" /\ "stdin" \notin ready
    /\ Goto("check")
    /\ UNCHANGED <<sigVars, termVars, userVars, serverVars>>

NoInput ==
    /\ pc = "stdin" /\ "stdin" \notin ready
    /\ Goto("size")
    /\ UNCHANGED <<sigVars, termVars, userVars, serverVars>>

StdinClosed ==
    /\ pc = "stdin" /\ "stdin" \in ready /\ keys = << >>
    /\ Leave(1)
    /\ UNCHANGED <<sigVars, termVars, userVars, serverVars>>

FirstKey(k) == pc = "stdin" /\ "stdin" \in ready /\ keys # << >> /\ Head(keys) = k

\* Mutant of SuspendKey: the daemon is not told.
SuspendSilently ==
    /\ FirstKey("suspend") /\ Suspends /\ Read
    /\ Goto("cook")
    /\ UNCHANGED <<sigVars, termVars, size, tty, serverVars>>

SuspendKey ==
    /\ FirstKey("suspend") /\ Suspends /\ Read
    /\ Write("Detach", "cook", "cook")
    /\ UNCHANGED <<sigVars, termVars, size, tty, serverVars>>

DetachKey ==
    /\ FirstKey("detach") /\ Detaches /\ Read
    /\ Leave(0)
    /\ UNCHANGED <<sigVars, termVars, size, tty, serverVars>>

PushKeys ==
    /\ \E k \in Keys : /\ FirstKey(k) /\ Read
                       /\ ~(k = "suspend" /\ Suspends) /\ ~(k = "detach" /\ Detaches)
                       /\ winChanged' = (winChanged \/ k = "ctrl_l")
    /\ Write("Push", "size", "size")
    /\ UNCHANGED <<shouldDie, pending, termVars, size, tty, serverVars>>

\* Suspending: the terminal is handed to the shell and taken back.
CookTerminal ==
    /\ pc = "cook" /\ term' = "cooked" /\ Goto("stop")
    /\ UNCHANGED <<sigVars, backedUp, userVars, serverVars>>

\* SIGTSTP to itself, which an orphaned process group ignores.
Stop ==
    /\ pc = "stop" /\ \E place \in {"stopped", "reraw"} : Goto(place)
    /\ UNCHANGED <<sigVars, termVars, userVars, serverVars>>

\* SIGCONT in the foreground: what was pending is handled first.
Resume ==
    /\ pc = "stopped" /\ Goto("reraw")
    /\ shouldDie' = (shouldDie \/ "die" \in pending)
    /\ winChanged' = (winChanged \/ "winch" \in pending)
    /\ pending' = {}
    /\ UNCHANGED <<termVars, userVars, serverVars>>

Reraw ==
    /\ pc = "reraw" /\ term' = "raw"
    /\ Write("Attach", "reredraw", "reredraw")
    /\ UNCHANGED <<sigVars, backedUp, userVars, serverVars>>

\* Mutant of Reredraw: the daemon is told of the new attachment only.
ReattachOnly ==
    /\ pc = "reredraw" /\ Goto("size")
    /\ UNCHANGED <<sigVars, termVars, userVars, serverVars>>

Reredraw ==
    /\ pc = "reredraw"
    /\ Write("Redraw", "size", "size")
    /\ UNCHANGED <<sigVars, termVars, userVars, serverVars>>

\* Mutant of CheckSize: the loop goes back to select, SHOULD_DIE is looked at when
\* a signal has ended it only.
CheckSizeToSelect ==
    /\ pc = "size"
    /\ Goto(IF winChanged THEN "report" ELSE "fdset")
    /\ winChanged' = FALSE
    /\ UNCHANGED <<shouldDie, pending, termVars, userVars, serverVars>>

\* The swap of WIN_CHANGED; the size is read after it.
CheckSize ==
    /\ pc = "size"
    /\ Goto(IF winChanged THEN "report" ELSE "check")
    /\ winChanged' = FALSE
    /\ UNCHANGED <<shouldDie, pending, termVars, userVars, serverVars>>

Report ==
    /\ pc = "report"
    /\ Write("Winch", "check", "check")
    /\ UNCHANGED <<sigVars, termVars, userVars, serverVars>>

\* restore_and_exit.
RestoreAndExit ==
    /\ pc = "restore"
    /\ pc' = "exited" /\ term' = "cooked" /\ backedUp' = FALSE
    /\ UNCHANGED <<sending, ready, code, sigVars, userVars, serverVars>>

(***************************************************************************)
(* The user and the daemon                                                 *)
(***************************************************************************)

Type(k) ==
    /\ tty /\ Len(keys) < KeyCap /\ keys' = Append(keys, k)
    /\ UNCHANGED <<progVars, sigVars, termVars, size, tty, serverVars>>

HangUp ==
    /\ tty /\ tty' = FALSE
    /\ UNCHANGED <<progVars, sigVars, termVars, size, keys, serverVars>>

ServerReads ==
    /\ server = "open" /\ queue # << >> /\ queue' = Tail(queue)
    /\ LET p == Head(queue)
       IN  /\ told' = IF Sized(p) THEN p.size ELSE told
           /\ attached' = (p.type = "Attach" \/ (attached /\ p.type # "Detach"))
    /\ UNCHANGED <<progVars, sigVars, termVars, userVars, server, output>>

ServerWrites ==
    /\ server = "open" /\ attached /\ output' = TRUE
    /\ UNCHANGED <<progVars, sigVars, termVars, userVars, server, queue, attached, told>>

\* The daemon closes the connection; packets it has not read make that a reset.
ServerCloses ==
    /\ server = "open"
    /\ server' = IF queue = << >> THEN "closed" ELSE "reset"
    /\ UNCHANGED <<progVars, sigVars, termVars, userVars, queue, output, attached, told>>

ClientStep == \/ InstallHandlers \/ RawTerminal \/ FirstRedraw \/ Send \/ ReturnFailed
              \/ CheckDie \/ EnterSelect \/ Select \/ ServerData
              \/ NoInput \/ StdinClosed \/ SuspendKey \/ DetachKey \/ PushKeys
              \/ CookTerminal \/ Stop \/ Reraw \/ Reredraw
              \/ CheckSize \/ Report \/ RestoreAndExit
UserStep   == \/ DieSignal /\ UNCHANGED <<userVars, serverVars>>
              \/ Resize \/ Resume \/ HangUp \/ \E k \in Keys : Type(k)
ServerStep == ServerReads \/ ServerWrites \/ ServerCloses

Gone == pc = "exited" /\ UNCHANGED vars
Next == ClientStep \/ (pc # "exited" /\ (UserStep \/ ServerStep)) \/ Gone

\* The client and the daemon are processes that run; the user need do nothing.
Fairness == WF_vars(ClientStep) /\ WF_vars(pc # "exited" /\ ServerReads)
Spec == Init /\ [][Next]_vars /\ Fairness

(***************************************************************************)
(* Properties                                                              *)
(***************************************************************************)

Places == {"handlers", "raw", "redraw", "send", "return", "check", "fdset", "select",
           "server", "stdin", "cook", "stop", "stopped", "reraw", "reredraw", "size", "report",
           "restore", "exited"}

\* Every variable has its type; what waits to be written has somewhere to go on.
TypeOK ==
    /\ pc \in Places /\ ready \subseteq {"server", "stdin"} /\ code \in {0, 1}
    /\ sending \in [packet : Packets, then : Places, failed : Places]
    /\ {shouldDie, winChanged, backedUp, tty, output, attached} \subseteq BOOLEAN
    /\ pending \subseteq {"die", "winch"} /\ term \in {"cooked", "raw"}
    /\ {size, told} \subseteq 0 .. MaxResize
    /\ keys \in Seq(Keys) /\ Len(keys) <= KeyCap
    /\ server \in {"open", "closed", "reset"}
    /\ queue \in Seq(Packets) /\ Len(queue) <= QueueCap

\* Whoever gets the terminal from the client, the shell when it stops and whoever
\* started it when it ends, finds it in the mode it had, whichever of the ways out
\* it took and whatever signals came on the way (restore_and_exit, atexit in
\* raw_terminal, handle_die, the suspend key).
TerminalRestored == pc \in {"stopped", "exited"} => term = "cooked"

\* What the daemon will believe once it has read all that was written: the size of
\* the last Winch or Redraw, attached by the last Attach or Detach.
SizeAfter(t, q, s) ==
    \/ t = s /\ \A i \in 1 .. Len(q) : ~Sized(q[i])
    \/ \E i \in 1 .. Len(q) : /\ Sized(q[i]) /\ q[i].size = s
                             /\ \A j \in i + 1 .. Len(q) : ~Sized(q[j])
WillKnow(s) == SizeAfter(told, queue, s)
Moves(p) == p.type \in {"Attach", "Detach"}
IsAfter(a, q, b) ==
    \/ a = b /\ \A i \in 1 .. Len(q) : ~Moves(q[i])
    \/ \E i \in 1 .. Len(q) : /\ Moves(q[i]) /\ b = (q[i].type = "Attach")
                             /\ \A j \in i + 1 .. Len(q) : ~Moves(q[j])
WillBe(b) == IsAfter(attached, queue, b)

\* A client that waits in select is attached for the daemon, one that is stopped is
\* not, once the daemon has read what they wrote: otherwise it would wait for a
\* client that cannot read, or not write to one that waits for it (event_loop and
\* the suspend key in handle_stdin_data).
AttachedWhileReading ==
    server = "open" => /\ pc = "select" => WillBe(TRUE)
                       /\ pc = "stopped" => WillBe(FALSE)

\* A change of the window's size is never forgotten: until the daemon will know the
\* size, WIN_CHANGED is set or the client is on its way to read the size and write it,
\* whenever the change came, while it was suspended and nobody signalled it too.
SizeNotForgotten ==
    server = "open" /\ pc \notin {"exited", "restore", "return"} =>
        \/ WillKnow(size) \/ winChanged
        \/ pc \in {"handlers", "raw", "redraw", "cook", "stop", "stopped", "reraw",
                   "reredraw", "report"}
        \/ /\ pc = "send"
           /\ \/ sending.packet.size = size /\ Sized(sending.packet)
              \/ sending.then \in {"redraw", "cook", "reredraw"}

\* A session that writes again to whoever is attached and has read what was written
\* before, and a user who continues what was stopped.
KeepsWriting == WF_vars(pc # "exited" /\ ServerWrites)
Continues    == WF_vars(pc = "stopped" /\ Resume)

\* A signal that is to end the client does end it, wherever it came: in select, in a
\* blocked write, before the client stops itself or while it is stopped, and between
\* the load of SHOULD_DIE and select (session.rs:1096-1121), where event_loop does not
\* see it and sleeps until the session writes again: the client never gets stuck, and
\* passes the load on every way round the loop.
DieEnds == KeepsWriting /\ Continues => (shouldDie ~> (pc = "exited"))

\* A new window size reaches a session that goes on writing, although event_loop goes
\* back to select when SIGWINCH interrupts it, and sleeps in select when it comes just
\* before.
SizeReaches ==
    KeepsWriting => (told # size ~> (told = size \/ pc \in {"stopped", "exited"}))
=============================================================================
