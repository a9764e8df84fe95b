------------------------------- MODULE Session -------------------------------
(***************************************************************************)
(* A running session: the daemon of SessionDaemon with the client          *)
(* processes of src/src/session.rs at the other end of its connections and *)
(* the child at the other end of its terminal.  What the clients may send  *)
(* and what the child does are chosen freely within the bounds; a client   *)
(* that attaches sends the packets of attach() and event_loop().           *)
(***************************************************************************)
EXTENDS SessionDaemon

CONSTANTS Traffic,   \* the packets clients send in this instance
          QueueCap   \* bound: packets on their way to the daemon, per client

ASSUME QueueCapAssumption == QueueCap \in Nat \ {0}

Pkt(type, len) == [type |-> type, len |-> len]
ClientPackets == [type : {"Push", "Attach", "Detach", "Winch", "Redraw", "Kill",
                          "ForceDetach", "Info"}, len : 0 .. 255]
ASSUME TrafficAssumption == Traffic \subseteq ClientPackets

DaemonState == <<loopVars, clients, client, ring, evict, sendVars, fileVars, total,
                 served>>
DaemonVars == <<DaemonState, ghosts>>

(***************************************************************************)
(* Client processes                                                        *)
(***************************************************************************)

\* connect_socket.
Connect(c) ==
    /\ peer[c] = "none" /\ fd[c] = "none" /\ sockFile
    /\ peer' = [peer EXCEPT ![c] = "fresh"]
    /\ fd' = [fd EXCEPT ![c] = "backlog"]
    /\ backlog' = Append(backlog, c)
    /\ UNCHANGED <<DaemonVars, inq, out, childVars, avail, ptyIn>>

\* Packet::write_to on a blocking socket: it waits while the queue is full.
Send(c, p) ==
    /\ p \in Traffic
    /\ fd[c] # "none" /\ Len(inq[c]) < QueueCap
    /\ inq' = [inq EXCEPT ![c] = Append(@, p)]
    /\ UNCHANGED <<DaemonVars, fd, backlog, out, childVars, avail, ptyIn>>

\* The packets of these types that this instance sends; one it has none of is left out.
Of(types) == {p \in Traffic : p.type \in types}
Greeted == IF Of({"Redraw"}) = {} THEN "attached" ELSE "redrawing"

\* attach: Attach with the history to be replayed (0) or shown already (1), then
\* Redraw, then the event loop.
Attach(c) ==
    /\ peer[c] = "fresh"
    /\ \E len \in {0, 1} : Send(c, Pkt("Attach", len))
    /\ peer' = [peer EXCEPT ![c] = Greeted]
Redraw(c) ==
    /\ peer[c] = "redrawing"
    /\ \E p \in Of({"Redraw"}) : Send(c, p)
    /\ peer' = [peer EXCEPT ![c] = "attached"]

\* event_loop: input and a new window size are sent from the loop that also
\* receives, so a client whose packets are not read stops receiving.
FromLoop == {"Push", "Winch"}
Interact(c) ==
    /\ peer[c] \in {"attached", "blocked"}
    /\ \E p \in Of(FromLoop) : Send(c, p)
    /\ peer' = [peer EXCEPT ![c] = "attached"]
Block(c) ==
    /\ peer[c] = "attached" /\ Of(FromLoop) # {}
    /\ fd[c] # "none" /\ Len(inq[c]) = QueueCap
    /\ peer' = [peer EXCEPT ![c] = "blocked"]
    /\ UNCHANGED <<DaemonVars, fd, backlog, inq, out, childVars, avail, ptyIn>>
\* EPIPE, which is ignored.
SendFails(c) ==
    /\ peer[c] = "blocked" /\ fd[c] = "none"
    /\ peer' = [peer EXCEPT ![c] = "attached"]
    /\ UNCHANGED <<DaemonVars, fd, backlog, inq, out, childVars, avail, ptyIn>>

\* handle_stdin_data: the suspend key, and the continuation after SIGCONT.
Suspend(c) ==
    /\ peer[c] = "attached" /\ Send(c, Pkt("Detach", 0))
    /\ peer' = [peer EXCEPT ![c] = "suspended"]
Resume(c) ==
    /\ peer[c] = "suspended" /\ Send(c, Pkt("Attach", 0))
    /\ peer' = [peer EXCEPT ![c] = Greeted]

\* push: packet after packet.
PushInput(c) ==
    /\ peer[c] \in {"fresh", "pushing"}
    /\ \E p \in Of({"Push"}) : Send(c, p)
    /\ peer' = [peer EXCEPT ![c] = "pushing"]

\* kill, cmd_detach and cmd_info: a single packet on a connection of its own.
OneShot(c, type) ==
    /\ peer[c] = "fresh"
    /\ \E p \in Of({type}) : Send(c, p)
    /\ peer' = [peer EXCEPT ![c] = "control"]
SendKill(c) == OneShot(c, "Kill")
CmdDetach(c) == OneShot(c, "ForceDetach")
CmdInfo(c) == OneShot(c, "Info")

\* handle_server_data, cmd_info: the client takes what is there.
Receive(c) ==
    /\ peer[c] \in {"attached", "control"} /\ out[c] > 0
    /\ \E n \in 1 .. out[c] : out' = [out EXCEPT ![c] = @ - n]
    /\ UNCHANGED <<DaemonVars, connVars, inq, childVars, avail, ptyIn>>

\* The process ends: detach key, end of input, a signal, the end of its stream.
Leave(c) ==
    /\ peer[c] # "none"
    /\ peer' = [peer EXCEPT ![c] = "none"]
    /\ out' = [out EXCEPT ![c] = 0]
    /\ next' = [next EXCEPT ![c] = 1] /\ stream' = [stream EXCEPT ![c] = "whole"]
    /\ UNCHANGED <<DaemonState, fd, backlog, inq, childVars, avail, ptyIn>>

ClientStep(c) == \/ Connect(c) \/ Attach(c) \/ Redraw(c)
                 \/ Interact(c) \/ Block(c) \/ SendFails(c)
                 \/ Suspend(c) \/ Resume(c) 
                 \/ PushInput(c) \/ SendKill(c) \/ CmdDetach(c) \/ CmdInfo(c)
                 \/ Receive(c) \/ Leave(c)

(***************************************************************************)
(* The child                                                               *)
(***************************************************************************)

ChildWrite ==
    /\ child = "running" /\ avail < BufSize /\ total + avail < MaxOut
    /\ avail' = avail + 1
    /\ UNCHANGED <<DaemonVars, connVars, inq, out, childVars, ptyIn>>

ChildRead ==
    /\ child = "running" /\ ptyIn > 0
    /\ ptyIn' = ptyIn - 1
    /\ UNCHANGED <<DaemonVars, connVars, inq, out, childVars, avail>>

\* The last process with the terminal open closes it, and the child lives on.
ChildHangup ==
    /\ child = "running"
    /\ child' = "hungup"
    /\ UNCHANGED <<DaemonVars, connVars, inq, out, sigs, avail, ptyIn>>

\* It ends by itself, or from a signal it does not handle.
ChildExit ==
    /\ child # "exited"
    /\ child' = "exited" /\ sigs' = {}
    /\ UNCHANGED <<DaemonVars, connVars, inq, out, avail, ptyIn>>

\* A signal it handles or ignores; SIGKILL is not one.
ChildHandles ==
    /\ child # "exited"
    /\ \E s \in sigs \ {"KILL"} : sigs' = sigs \ {s}
    /\ UNCHANGED <<DaemonVars, connVars, inq, out, child, avail, ptyIn>>

ChildStep == ChildWrite \/ ChildRead \/ ChildHangup \/ ChildExit \/ ChildHandles

\* After the session has ended nothing need happen.
Ended == pc = "exited" /\ UNCHANGED vars

Next == DaemonStep \/ (\E c \in Conns : ClientStep(c)) \/ ChildStep \/ Ended

Spec == Init /\ [][Next]_vars

(***************************************************************************)
(* Safety                                                                  *)
(***************************************************************************)

Distinct(s) == \A i, j \in 1 .. Len(s) : s[i] = s[j] => i = j

LoopType ==
    /\ pc \in {"build", "select", "accept", "packets", "evict", "drain", "pty", "forward",
               "write", "reap", "exited"}
    /\ idx \in Nat \ {0}
    /\ ready \in [listener : BOOLEAN, pty : BOOLEAN, rd : SUBSET Conns, wr : SUBSET Conns]
    /\ served \in Seq(Conns)
TableType ==
    /\ clients \in Seq(Conns)
    /\ client \in [Conns -> [attached : BOOLEAN, head : Index, remaining : 0 .. Size]]
    /\ fd \in [Conns -> {"none", "backlog", "open"}]
    /\ backlog \in Seq(Conns)
    /\ inq \in [Conns -> Seq(ClientPackets)]
StreamType == /\ out \in [Conns -> 0 .. SockCap]
              /\ next \in [Conns -> Nat]
              /\ stream \in [Conns -> Verdicts]
SendType == evict \in BOOLEAN /\ chunk \in 0 .. total /\ written \in BOOLEAN /\ bad \subseteq Conns
FileType == /\ execBit \in BOOLEAN /\ sockFile \in BOOLEAN
            /\ log \in [bytes : Nat, ended : BOOLEAN]
OutputType == /\ ring \in Ring
              /\ avail \in Nat /\ total \in Nat /\ total + avail <= MaxOut
OutsideType == /\ peer \in [Conns -> {"none", "fresh", "redrawing", "attached", "blocked",
                                      "suspended", "pushing", "control"}]
               /\ child \in {"running", "hungup", "exited"}
               /\ ptyIn \in 0 .. PtyCap /\ sigs \subseteq {"WINCH", "TERM", "HUP", "KILL"}

\* Every variable has its type: ring positions stay in the ring, and the kernel's
\* buffers keep their capacity.
TypeOK == /\ LoopType /\ TableType /\ StreamType /\ SendType
          /\ FileType /\ OutputType /\ OutsideType

\* The client vector and the descriptors agree: every open connection is in it
\* once and nothing else is, whatever swap_remove and retain did to it.  This is
\* what keeps select from failing with EBADF and the daemon from leaking or
\* closing twice (the comment of send_to_clients).
FdTable == /\ Distinct(clients) /\ Open = {c \in Conns : fd[c] = "open"}
           /\ Distinct(backlog) /\ Elements(backlog) = {c \in Conns : fd[c] = "backlog"}
           /\ \A c \in Conns : fd[c] # "open" => client[c] = NoClient
           /\ \A c \in Conns : fd[c] = "none" => inq[c] = << >>

\* A pass of handle_client_packets reads one packet from every client that select
\* reported and from no other, although dropping a client moves another into
\* its place while the loop runs.
ServedOnce == /\ Distinct(served) /\ Elements(served) \subseteq ready.rd
              /\ pc = "evict" => Elements(served) = ready.rd

\* The session ends only when the child is dead and all its output has been
\* read, and it leaves a finished log and no socket.
SessionEnd == pc = "exited" => /\ child = "exited" /\ avail = 0
                               /\ log = [bytes |-> total, ended |-> TRUE]
                               /\ ~sockFile

\* Output goes to the client, the scrollback and the log together: an attached
\* client has been sent all of what is in the log, in order and without a gap,
\* whenever the daemon waits.  (Where the connections take whatever is written.)
CaughtUp == pc \in {"build", "select"} =>
               \A c \in AttachedOnes : peer[c] # "none" =>
                  stream[c] = "whole" /\ next[c] = log.bytes + 1

\* Nothing a client is sent is repeated or out of order, whether from the replay
\* or live, however slowly it reads and however often the ring wraps, until output
\* overwrites what its replay was to send next.  (No client resumes.)
NeverMixed == \A c \in Conns : stream[c] # "mixed"

\* The daemon condemns no client that is still there, if a connection that is
\* reported writable takes a chunk (Linux).
OnlyDeadCondemned == \A c \in bad : peer[c] = "none"

(***************************************************************************)
(* What the comments say and the code does not do                          *)
(***************************************************************************)

\* "Detach all clients from a single session" (cmd_detach): after a forced detach
\* no client is left that is attached or on its way to be.
ForceDetachesAll ==
    [][evict /\ ~evict'
         => \A c \in Conns : peer[c] # "none"
               => ~client'[c].attached /\ client'[c].remaining = 0]_vars

(***************************************************************************)
(* Liveness                                                                *)
(***************************************************************************)

\* The daemon runs, an attached client reads what it is sent, and SIGKILL kills.
Fairness == /\ WF_vars(DaemonStep)
            /\ \A c \in Conns : WF_vars(Receive(c))
            /\ WF_vars(ChildExit /\ "KILL" \in sigs)

FairSpec == Spec /\ Fairness

\* A replay ends, or its client is dropped: drain_replay gets its turn however much
\* output there is (unless the child has closed the terminal: the daemon
\* then waits for it to die and does nothing else).
ReplayEnds == \A c \in Conns :
    client[c].remaining > 0 ~> client[c].remaining = 0 \/ child = "hungup"

\* Every packet is read in the end, unless the child has closed the terminal (the
\* daemon then waits for it).  Nobody is starved by the others'
\* traffic, by replays or by send_to_clients.
PacketsRead == \A c \in Conns :
    inq[c] # << >> ~> inq[c] = << >> \/ child = "hungup"

\* The session ends when its child is dead.
SessionEnds == child = "exited" ~> pc = "exited"
=============================================================================
