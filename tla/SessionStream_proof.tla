------------------------ MODULE SessionStream_proof ------------------------
(***************************************************************************)
(* Proofs about what the clients of a Session are sent, for any number of  *)
(* them, every capacity and however often the ring wraps, while no client  *)
(* is suspended: nothing is repeated or out of order until output laps a   *)
(* client's replay, and where the connections have room for all of it,     *)
(* whoever is attached has been sent everything whenever the daemon waits. *)
(***************************************************************************)
EXTENDS Session_proof

USE SizeAssumption, CapAssumption, PositionAssumption, QueueCapAssumption, TrafficAssumption
USE DEF vars, loopVars, sendVars, fileVars, connVars, childVars, ghosts, DaemonState,
        DaemonVars, HandlerFrame, loopVs, tableVs, streamVs, sendVs, outputVs, outsideVs

\* The instances these proofs are about: no client detaches to be continued.
Unsuspended == \A p \in Traffic : p.type # "Detach"

\* A client's Attach is the first packet it sends, so that the daemon knows nothing
\* of a client whose Attach it has not read.
Fresh(c) ==
    /\ peer[c] # "suspended"
    /\ peer[c] = "fresh" => inq[c] = << >> /\ client[c] = NoClient
    /\ \A k \in 1 .. Len(inq[c]) :
          inq[c][k].type = "Attach" => k = 1 /\ client[c] = NoClient
AllFresh == \A c \in Conns : Fresh(c)

\* There is a chunk exactly while it is being sent.
Quiet == pc \in {"forward", "write"} <=> chunk > 0

\* The ring holds the last of the output; byte p of it, while it is there, is in CellOf(p).
Held == Window(ring, total)
InRing(p) == total < p + ring.len
CellOf(p) == Mask(ring.head + (p + ring.len - total - 1))

(***************************************************************************)
(* What the clients do                                                     *)
(***************************************************************************)

\* What a client does to its connection: it goes, connects, sends a packet, or receives.
Leaves(c) == /\ peer'[c] = "none" /\ inq'[c] = inq[c] /\ out'[c] = 0
             /\ next'[c] = 1 /\ stream'[c] = "whole"
Joins(c) == /\ peer[c] = "none" /\ fd[c] = "none" /\ peer'[c] = "fresh"
            /\ inq'[c] = inq[c] /\ out'[c] = out[c]
Says(c) == /\ peer[c] # "none" /\ peer'[c] \notin {"none", "fresh", "suspended"}
           /\ out'[c] = out[c]
           /\ \E p \in ClientPackets : /\ inq'[c] = Append(inq[c], p)
                                       /\ p.type = "Attach" => peer[c] = "fresh"
Hears(c) == /\ peer[c] \notin {"none", "fresh"}
            /\ peer'[c] \notin {"none", "fresh", "suspended"}
            /\ inq'[c] = inq[c] /\ out'[c] <= out[c]
Acts(c) == \/ Leaves(c)
           \/ next'[c] = next[c] /\ stream'[c] = stream[c] /\ (Joins(c) \/ Says(c) \/ Hears(c))

\* What a client does concerns its own connection alone.  It goes; or its stream stays
\* as it was: it connects, sends a packet, or receives.
LEMMA ClientFrame ==
  ASSUME IInv, Unsuspended, NEW c \in Conns, ClientStep(c), peer[c] # "suspended"
  PROVE  /\ UNCHANGED <<loopVs, sendVs, clients, client, ring, total, log>>
         /\ \A d \in Conns : d # c =>
               /\ peer'[d] = peer[d] /\ inq'[d] = inq[d] /\ out'[d] = out[d]
               /\ next'[d] = next[d] /\ stream'[d] = stream[d]
         /\ Acts(c)
<1>0. /\ peer \in [Conns -> PeerStates] /\ inq \in [Conns -> Seq(ClientPackets)]
      /\ out \in [Conns -> 0 .. SockCap] /\ next \in [Conns -> Nat]
      /\ stream \in [Conns -> Verdicts]
  BY DEF IInv, TypeOK, OutsideType, TableType, StreamType, PeerStates
<1>a. ASSUME NEW p \in ClientPackets, Send(c, p), p.type = "Attach" => peer[c] = "fresh",
             peer[c] # "none",
             NEW x \in {"redrawing", "attached", "pushing", "control"},
             peer' = [peer EXCEPT ![c] = x]
      PROVE  /\ UNCHANGED <<loopVs, sendVs, clients, client, ring, total, log>>
             /\ \A d \in Conns : d # c =>
                   /\ peer'[d] = peer[d] /\ inq'[d] = inq[d] /\ out'[d] = out[d]
                   /\ next'[d] = next[d] /\ stream'[d] = stream[d]
             /\ Acts(c)
  BY <1>0, <1>a DEF Send, Acts, Says
<1>1. CASE Connect(c)
  BY <1>0, <1>1 DEF Connect, Acts, Joins
<1>2. CASE Attach(c) \/ Redraw(c) \/ Interact(c) \/ PushInput(c) \/ SendKill(c) \/ CmdDetach(c)
             \/ CmdInfo(c)
  <2>1. Greeted \in {"redrawing", "attached"}
    BY DEF Greeted
  <2>2. \E p \in Traffic : /\ Send(c, p) /\ (p.type = "Attach" => peer[c] = "fresh")
                           /\ peer[c] # "none"
                           /\ \E x \in {"redrawing", "attached", "pushing", "control"} :
                                 peer' = [peer EXCEPT ![c] = x]
    <3>1. CASE Attach(c)
      BY <2>1, <3>1 DEF Attach, Send, Pkt
    <3>2. CASE Redraw(c) \/ Interact(c) \/ PushInput(c) \/ SendKill(c) \/ CmdDetach(c) \/ CmdInfo(c)
      <4>1. PICK p \in Traffic : /\ Send(c, p) /\ p.type # "Attach" /\ peer[c] # "none"
                                 /\ \E x \in {"attached", "pushing", "control"} :
                                       peer' = [peer EXCEPT ![c] = x]
        BY <3>2 DEF Redraw, Interact, PushInput, SendKill, CmdDetach, CmdInfo, OneShot, Of, FromLoop
      <4> QED
        BY <4>1
    <3> QED
      BY <1>2, <3>1, <3>2
  <2>3. PICK p \in ClientPackets,
             x \in {"redrawing", "attached", "pushing", "control"} :
                /\ Send(c, p) /\ (p.type = "Attach" => peer[c] = "fresh") /\ peer[c] # "none"
                /\ peer' = [peer EXCEPT ![c] = x]
    BY <2>2
  <2> HIDE DEF loopVs, sendVs
  <2> QED
    BY <1>a, <2>3
<1>3. CASE Suspend(c) \/ Resume(c)
  BY <1>3 DEF Suspend, Resume, Send, Unsuspended, Pkt
<1>4. CASE Block(c) \/ SendFails(c)
  BY <1>0, <1>4 DEF Block, SendFails, Acts, Hears
<1>5. CASE Receive(c)
  <2>1. PICK n \in 1 .. out[c] : out' = [out EXCEPT ![c] = out[c] - n]
    BY <1>5 DEF Receive
  <2>2. out'[c] <= out[c] /\ \A d \in Conns : d # c => out'[d] = out[d]
    BY <1>0, <2>1
  <2> QED
    BY <1>5, <2>2 DEF Receive, Acts, Hears
<1>6. CASE Leave(c)
  BY <1>0, <1>6 DEF Leave, Acts, Leaves
<1> HIDE DEF loopVs, sendVs
<1> QED
  BY <1>1, <1>2, <1>3, <1>4, <1>5, <1>6 DEF ClientStep

\* A client that has not said anything yet may attach; any other packet comes later.
LEMMA FreshClient ==
  ASSUME IInv, Unsuspended, AllFresh, NEW c \in Conns, ClientStep(c)
  PROVE  AllFresh'
<1>1. UNCHANGED client /\ \A d \in Conns : d # c => peer'[d] = peer[d] /\ inq'[d] = inq[d]
  BY ClientFrame DEF AllFresh, Fresh
<1>2. /\ peer[c] # "suspended"
      /\ peer[c] = "fresh" => inq[c] = << >> /\ client[c] = NoClient
      /\ \A k \in 1 .. Len(inq[c]) :
            inq[c][k].type = "Attach" => k = 1 /\ client[c] = NoClient
  BY DEF AllFresh, Fresh
<1>3. inq[c] \in Seq(ClientPackets) /\ client'[c] = client[c]
  BY <1>1 DEF IInv, TypeOK, TableType
<1>4. CASE inq'[c] = inq[c] /\ peer'[c] \notin {"suspended", "fresh"}
  BY <1>1, <1>2, <1>4 DEF AllFresh, Fresh
<1>5. CASE inq'[c] = inq[c] /\ fd[c] = "none" /\ peer'[c] = "fresh"
  <2>1. inq[c] = << >> /\ client[c] = NoClient
    BY <1>5 DEF IInv, FdTable
  <2> QED
    BY <1>1, <1>2, <1>5, <2>1 DEF AllFresh, Fresh
<1>6. ASSUME NEW p \in ClientPackets, inq'[c] = Append(inq[c], p),
             p.type = "Attach" => peer[c] = "fresh", peer'[c] \notin {"suspended", "fresh"}
      PROVE  AllFresh'
  <2> DEFINE n == Len(inq[c])
             q == inq'[c]
  <2>1. n \in Nat /\ Len(q) = n + 1 /\ q[n + 1] = p /\ \A k \in 1 .. n : q[k] = inq[c][k]
    BY <1>3, <1>6, AppendProperties
  <2> HIDE DEF q
  <2>2. ASSUME NEW k \in 1 .. Len(q), q[k].type = "Attach"
        PROVE  k = 1 /\ client[c] = NoClient
    <3>1. CASE k = n + 1
      <4>1. inq[c] = << >> /\ client[c] = NoClient
        BY <1>2, <1>6, <2>1, <2>2, <3>1
      <4> QED
        BY <3>1, <4>1, EmptySeq
    <3>2. CASE k # n + 1
      <4>1. k \in 1 .. n
        BY <2>1, <3>2
      <4> QED
        BY <1>2, <2>1, <2>2, <4>1
    <3> QED
      BY <3>1, <3>2
  <2>3. Fresh(c)'
    BY <1>3, <1>6, <2>2 DEF Fresh, q
  <2> QED
    BY <1>1, <2>3 DEF AllFresh, Fresh
<1> QED
  BY <1>2, <1>4, <1>5, <1>6, ClientFrame DEF Acts, Leaves, Joins, Says, Hears

\* A queue without an Attach in it.
NoAttach(q) == \A k \in 1 .. Len(q) : q[k].type # "Attach"

\* Behind its first packet nobody has an Attach in the queue.
LEMMA AttachFirst ==
  ASSUME IInv, AllFresh, NEW d \in Conns, inq[d] # << >>
  PROVE  NoAttach(Tail(inq[d]))
<1>1. /\ inq[d] \in Seq(ClientPackets)
      /\ \A k \in 1 .. Len(inq[d]) : inq[d][k].type = "Attach" => k = 1
  BY DEF IInv, TypeOK, TableType, AllFresh, Fresh
<1> DEFINE n == Len(inq[d])
           q == Tail(inq[d])
<1>2. n \in Nat /\ Len(q) = n - 1 /\ \A k \in 1 .. n - 1 : q[k] = inq[d][k + 1]
  BY <1>1, HeadTailProperties, EmptySeq
<1> HIDE DEF q
<1>3. \A k \in 1 .. Len(q) : k + 1 \in 1 .. n /\ k + 1 # 1 /\ k \in 1 .. n - 1
  BY <1>2
<1>4. \A k \in 1 .. Len(q) : q[k].type # "Attach"
  BY <1>1, <1>2, <1>3
<1> QED
  BY <1>4 DEF NoAttach, q

\* Closing a connection, and taking a packet off its queue, keep it.
LEMMA FreshQueue ==
  ASSUME IInv, AllFresh, NEW d \in Conns, peer'[d] = peer[d],
         \/ inq'[d] = inq[d] /\ client'[d] = client[d]
         \/ inq'[d] = << >> /\ (peer[d] = "fresh" => client'[d] = NoClient)
         \/ inq[d] # << >> /\ inq'[d] = Tail(inq[d])
  PROVE  Fresh(d)'
<1>1. /\ peer[d] # "suspended"
      /\ peer[d] = "fresh" => inq[d] = << >> /\ client[d] = NoClient
      /\ \A k \in 1 .. Len(inq[d]) :
            inq[d][k].type = "Attach" => k = 1 /\ client[d] = NoClient
  BY DEF AllFresh, Fresh
<1>2. CASE inq'[d] = inq[d] /\ client'[d] = client[d]
  BY <1>1, <1>2 DEF Fresh
<1>3. CASE inq'[d] = << >> /\ (peer[d] = "fresh" => client'[d] = NoClient)
  BY <1>1, <1>3 DEF Fresh
<1>4. CASE inq[d] # << >> /\ inq'[d] = Tail(inq[d])
  BY <1>1, <1>4, AttachFirst DEF Fresh, NoAttach
<1> QED
  BY <1>2, <1>3, <1>4

\* The daemon does not attach a client, or start a replay, but from its Attach.
LEMMA FreshDaemon ==
  ASSUME IInv, AllFresh, DaemonStep
  PROVE  AllFresh'
<1>1. UNCHANGED peer
  BY DEF DaemonStep, BuildFdSets, Select, AcceptClient, HandlePacket, SkipClient, ReadEof,
         HandlePush, HandleAttach, HandleDetach, HandleForceDetach, HandleInfo, HandleWinch,
         HandleRedraw, HandleKill, EndPackets, EvictAttached, DrainReplay, EndDrain, ReadOutput,
         EndOutput, Reap, InnerSelect, WriteChunk, EndWrites
<1>2. /\ inq \in [Conns -> Seq(ClientPackets)]
      /\ client \in [Conns -> [attached : BOOLEAN, head : Index, remaining : 0 .. Size]]
  BY DEF IInv, TypeOK, TableType
<1> SUFFICES ASSUME NEW d \in Conns
             PROVE  Fresh(d)'
  BY DEF AllFresh
<1>3. CASE UNCHANGED <<inq, client>>
  BY <1>1, <1>3, FreshQueue
<1>4. ASSUME NEW gone, Closed(gone)
      PROVE  Fresh(d)'
  BY <1>1, <1>4, FreshQueue DEF Closed
<1>5. CASE /\ inq' = [c \in Conns |-> << >>]
           /\ client' = [c \in Conns |-> NoClient]
  BY <1>1, <1>5, FreshQueue
<1>6. ASSUME Serving, Current \in ready.rd, inq[Current] # << >>, NextClient,
             \A c \in Conns : c # Current => client'[c] = client[c]
      PROVE  Fresh(d)'
  BY <1>1, <1>2, <1>6, FreshQueue DEF NextClient
<1>7. CASE BuildFdSets \/ EndPackets \/ EndDrain \/ EndOutput \/ InnerSelect \/ WriteChunk
             \/ SkipClient \/ \E n \in 1 .. BufSize : ReadOutput(n)
  BY <1>3, <1>7 DEF BuildFdSets, EndPackets, EndDrain, EndOutput, InnerSelect, WriteChunk,
                    SkipClient, ReadOutput
<1>8. CASE Select
  BY <1>3, <1>5, <1>8 DEF Select, Cleanup
<1>9. CASE Reap
  BY <1>5, <1>9 DEF Reap, Cleanup
<1>10. CASE AcceptClient
  <2>1. client' = client /\ (inq'[d] = inq[d] \/ inq'[d] = << >>)
    BY <1>2, <1>10 DEF AcceptClient
  <2>2. peer[d] = "fresh" => client[d] = NoClient
    BY DEF AllFresh, Fresh
  <2> QED
    BY <1>1, <2>1, <2>2, FreshQueue
<1>11. CASE ReadEof \/ HandleForceDetach \/ HandleInfo
  BY <1>4, <1>11 DEF ReadEof, HandleForceDetach, HandleInfo, DropClient
<1>12. CASE HandlePush \/ HandleAttach \/ HandleDetach \/ HandleWinch \/ HandleRedraw
              \/ HandleKill
  <2>1. Serving /\ Current \in ready.rd /\ inq[Current] # << >> /\ NextClient
    BY <1>12 DEF HandlePush, HandleAttach, HandleDetach, HandleWinch, HandleRedraw, HandleKill,
                 ReadPacket
  <2>2. \A c \in Conns : c # Current => client'[c] = client[c]
    BY <1>2, <1>12 DEF HandlePush, HandleAttach, HandleDetach, HandleWinch, HandleRedraw,
                       HandleKill, DrainTo
  <2> QED
    BY <1>6, <2>1, <2>2
<1>13. CASE EvictAttached
  BY <1>3, <1>4, <1>13 DEF EvictAttached, CloseAndRemove
<1>14. CASE EndWrites
  BY <1>4, <1>14 DEF EndWrites, CloseAndRemove
<1>15. CASE DrainReplay
  <2>1. inq' = inq /\ (~Pending => UNCHANGED client)
    BY <1>15 DEF DrainReplay
  <2>2. \A c \in Conns : c # Current => client'[c] = client[c]
    BY <1>2, <1>15 DEF DrainReplay, DrainTo
  <2>3. CASE d = Current /\ Pending
    <3>1. client[d] # NoClient
      BY <2>3 DEF Pending, NoClient
    <3> QED
      BY <1>1, <2>1, <3>1 DEF AllFresh, Fresh
  <2> QED
    BY <1>1, <2>1, <2>2, <2>3, FreshQueue
<1> QED
  BY <1>7, <1>8, <1>9, <1>10, <1>11, <1>12, <1>13, <1>14, <1>15 DEF DaemonStep, HandlePacket

\* No step of anyone attaches a client but by the first packet it sent.
LEMMA FreshStep ==
  ASSUME IInv, Unsuspended, AllFresh, [Next]_vars
  PROVE  AllFresh'
<1>1. CASE ChildStep \/ UNCHANGED vars
  <2>1. UNCHANGED <<peer, inq, client>>
    BY <1>1 DEF ChildStep, ChildWrite, ChildRead, ChildHangup, ChildExit, ChildHandles
  <2> QED
    BY <2>1 DEF AllFresh, Fresh
<1> QED
  BY <1>1, FreshClient, FreshDaemon DEF Next, Ended

(***************************************************************************)
(* The chunk and the ring                                                  *)
(***************************************************************************)

\* read_pty takes the chunk up and send_to_clients puts it down.
LEMMA QuietStep ==
  ASSUME IInv, Quiet, [Next]_vars
  PROVE  Quiet'
<1>1. chunk \in Nat
  BY DEF IInv, TypeOK, SendType, OutputType
<1>2. CASE UNCHANGED <<pc, chunk>>
  BY <1>2 DEF Quiet
<1>3. CASE \E c \in Conns : ClientStep(c)
  BY <1>2, <1>3 DEF ClientStep, Connect, Attach, Redraw, Interact, Block, SendFails, Suspend,
                    Resume, PushInput, SendKill, CmdDetach, CmdInfo, OneShot, Receive, Leave, Send
<1>4. CASE ChildStep \/ UNCHANGED vars
  BY <1>2, <1>4 DEF ChildStep, ChildWrite, ChildRead, ChildHangup, ChildExit, ChildHandles
<1>5. CASE HandlePacket \/ DrainReplay \/ WriteChunk
  BY <1>2, <1>5 DEF HandlePacket, SkipClient, ReadEof, HandlePush, HandleAttach, HandleDetach,
                    HandleForceDetach, HandleInfo, HandleWinch, HandleRedraw, HandleKill,
                    DrainReplay, WriteChunk
<1>6. CASE BuildFdSets \/ Select \/ AcceptClient \/ EndPackets \/ EvictAttached \/ EndDrain
             \/ EndOutput \/ Reap
  <2>1. /\ UNCHANGED chunk /\ pc \notin {"forward", "write"}
        /\ pc' \in {"select", "accept", "packets", "evict", "drain", "pty", "reap", "build",
                    "exited"}
    BY <1>6 DEF BuildFdSets, Select, AcceptClient, EndPackets, EvictAttached, EndDrain, EndOutput,
                Reap, Cleanup
  <2> QED
    BY <2>1 DEF Quiet
<1>7. CASE \E n \in 1 .. BufSize : ReadOutput(n)
  <2>1. PICK n \in 1 .. BufSize : ReadOutput(n)
    BY <1>7
  <2>2. n \in Nat /\ n > 0
    OBVIOUS
  <2> QED
    BY <2>1, <2>2 DEF ReadOutput, Quiet
<1>8. CASE InnerSelect
  BY <1>8 DEF InnerSelect, Quiet
<1>9. CASE EndWrites
  BY <1>9 DEF EndWrites, Quiet
<1> QED
  BY <1>3, <1>4, <1>5, <1>6, <1>7, <1>8, <1>9 DEF Next, DaemonStep, Ended

\* What is appended is the output behind what was there.
LEMMA OutputRead ==
  ASSUME IInv, NEW n \in 1 .. BufSize, ReadOutput(n)
  PROVE  \E d \in Seq(Byte) :
            /\ ring' = AppendData(ring, d) /\ total' = total + n
            /\ n \in Nat /\ n > 0 /\ d # << >> /\ Len(d) = n
            /\ \A k \in 1 .. Len(d) : d[k] = total + k
<1>1. /\ total' = total + n /\ n <= avail /\ ring' = AppendData(ring, Chunk(n))
  BY DEF ReadOutput
<1>2. n \in Nat /\ n > 0 /\ total \in Nat /\ total + n <= MaxOut
  BY <1>1 DEF IInv, TypeOK, OutputType
<1> DEFINE d == Chunk(n)
<1>3. /\ d \in Seq(Byte) /\ Len(d) = n /\ \A k \in 1 .. n : d[k] = total + k
  BY <1>2 DEF Chunk
<1> HIDE DEF d
<1>4. d # << >>
  BY <1>2, <1>3, EmptySeq
<1> QED
  BY <1>1, <1>2, <1>3, <1>4 DEF d

\* Reading output is the one step that puts anything in the ring.
LEMMA OutputFrame ==
  ASSUME [Next]_vars
  PROVE  (\E n \in 1 .. BufSize : ReadOutput(n)) \/ UNCHANGED <<ring, total>>
<1>1. CASE \E c \in Conns : ClientStep(c)
  BY <1>1 DEF ClientStep, Connect, Attach, Redraw, Interact, Block, SendFails, Suspend, Resume,
              PushInput, SendKill, CmdDetach, CmdInfo, OneShot, Receive, Leave, Send
<1>2. CASE ChildStep \/ UNCHANGED vars
  BY <1>2 DEF ChildStep, ChildWrite, ChildRead, ChildHangup, ChildExit, ChildHandles
<1>3. CASE HandlePacket
  BY <1>3 DEF HandlePacket, SkipClient, ReadEof, HandlePush, HandleAttach, HandleDetach,
              HandleForceDetach, HandleInfo, HandleWinch, HandleRedraw, HandleKill
<1>4. CASE DaemonStep /\ ~HandlePacket
  BY <1>4 DEF DaemonStep, BuildFdSets, Select, AcceptClient, EndPackets, EvictAttached, DrainReplay,
              EndDrain, EndOutput, Reap, InnerSelect, WriteChunk, EndWrites
<1> QED
  BY <1>1, <1>2, <1>3, <1>4 DEF Next, Ended

\* So the ring holds the last of the output at all times.
LEMMA HeldStep ==
  ASSUME IInv, Held, [Next]_vars
  PROVE  Held'
<1>1. CASE UNCHANGED <<ring, total>>
  BY <1>1 DEF Held
<1>2. ASSUME NEW n \in 1 .. BufSize, ReadOutput(n)
      PROVE  Held'
  <2>1. PICK d \in Seq(Byte) : /\ ring' = AppendData(ring, d) /\ total' = total + n
                               /\ Len(d) = n /\ \A k \in 1 .. Len(d) : d[k] = total + k
    BY <1>2, OutputRead
  <2>2. total \in Nat
    BY DEF IInv, TypeOK, OutputType
  <2>3. Window(AppendData(ring, d), total + Len(d))
    BY <2>1, <2>2, WindowAppend DEF Held
  <2> QED
    BY <2>1, <2>3 DEF Held
<1> QED
  BY <1>1, <1>2, OutputFrame

\* A byte stays in its cell until it is overwritten.
LEMMA CellKept ==
  ASSUME IInv, Held, NEW n \in 1 .. BufSize, ReadOutput(n),
         NEW p \in Nat, p <= total + 1, InRing(p)'
  PROVE  InRing(p) /\ CellOf(p)' = CellOf(p)
<1>1. PICK d \in Seq(Byte) : /\ ring' = AppendData(ring, d) /\ total' = total + n
                             /\ n \in Nat /\ n > 0 /\ d # << >> /\ Len(d) = n
                             /\ \A k \in 1 .. Len(d) : d[k] = total + k
  BY OutputRead
<1>2. /\ total \in Nat /\ ring \in Ring /\ ring.len = Smaller(total, Size)
      /\ ring.len \in Nat /\ ring.head \in Nat /\ Size \in Nat
  BY DEF IInv, TypeOK, OutputType, Recent, Ring, Index
<1>3. ring'.len = Smaller(total + n, Size)
  <2>1. Held'
    BY HeldStep DEF Next, DaemonStep
  <2> QED
    BY <1>1, <2>1 DEF Held, Window
<1>4. n <= Size
  BY <1>1, <1>2, <1>3 DEF InRing, Smaller
<1>5. ring'.head = IF ring.len + n <= Size THEN ring.head
                   ELSE Mask(ring.head + (ring.len + n - Size))
  BY <1>1, <1>2, <1>4, HeadAppend
<1> DEFINE a == p + ring.len - total - 1
           b == p + ring'.len - total' - 1
<1>6. CellOf(p) = Mask(ring.head + a) /\ CellOf(p)' = Mask(ring'.head + b)
  BY DEF CellOf
<1>7. CASE ring.len + n <= Size
  <2>1. a = b /\ InRing(p)
    BY <1>1, <1>2, <1>3, <1>7 DEF InRing, Smaller
  <2> HIDE DEF a, b
  <2> QED
    BY <1>5, <1>6, <1>7, <2>1
<1>8. CASE ring.len + n > Size
  <2> DEFINE e == ring.len + n - Size
  <2>1. /\ e \in Nat /\ b \in Nat /\ a = e + b /\ InRing(p) /\ ring'.head = Mask(ring.head + e)
    BY <1>1, <1>2, <1>3, <1>5, <1>8 DEF InRing, Smaller
  <2> HIDE DEF a, b, e
  <2>2. ring.head + e \in Nat /\ (ring.head + e) + b = ring.head + a
    BY <1>2, <2>1
  <2>3. Mask(Mask(ring.head + e) + b) = Mask((ring.head + e) + b)
    BY <2>1, <2>2, MaskAdd
  <2> QED
    BY <1>6, <2>1, <2>2, <2>3
<1> QED
  BY <1>1, <1>2, <1>7, <1>8

\* A cell is a cell of the buffer.
LEMMA CellIndex ==
  ASSUME IInv, NEW p \in Nat, InRing(p)
  PROVE  CellOf(p) \in Index
<1>1. /\ total \in Nat /\ ring.len \in Nat /\ ring.head \in Nat
  BY DEF IInv, TypeOK, OutputType, Ring, Index
<1>2. ring.head + (p + ring.len - total - 1) \in Nat
  BY <1>1 DEF InRing
<1> QED
  BY <1>2, MaskRange DEF CellOf

\* Byte p and those behind it are in consecutive cells.
LEMMA CellNext ==
  ASSUME IInv, Held, NEW p \in Nat, InRing(p), NEW k \in Nat
  PROVE  /\ Mask(CellOf(p) + k) = CellOf(p + k)
         /\ p + k <= total => ring.buf[CellOf(p + k)] = p + k
<1>1. /\ total \in Nat /\ ring \in Ring /\ ring.len \in Nat /\ ring.head \in Nat
      /\ ring.len <= total
  BY DEF IInv, TypeOK, OutputType, Recent, Ring, Index, Smaller
<1> DEFINE a == p + ring.len - total - 1
           j == p + k + ring.len - total
<1>2. /\ a \in Nat /\ ring.head + a \in Nat /\ (ring.head + a) + k = ring.head + (j - 1)
      /\ j \in Nat /\ j >= 1 /\ j - 1 = p + k + ring.len - total - 1
  <2>1. a \in Nat /\ j = a + k + 1
    BY <1>1 DEF InRing
  <2>2. j - 1 = p + k + ring.len - total - 1
    BY <1>1
  <2> HIDE DEF a, j
  <2>3. j - 1 = a + k
    BY <2>1
  <2> QED
    BY <1>1, <2>1, <2>2, <2>3
<1>3. CellOf(p) = Mask(ring.head + a) /\ CellOf(p + k) = Mask(ring.head + (j - 1))
  BY <1>2 DEF CellOf
<1>4. p + k <= total => j \in 1 .. ring.len /\ (total - ring.len) + j = p + k
  <2>1. p + k <= total => j <= ring.len
    BY <1>1
  <2>2. (total - ring.len) + j = p + k
    BY <1>1
  <2> HIDE DEF j
  <2> QED
    BY <1>1, <1>2, <2>1, <2>2
<1> HIDE DEF a, j
<1>5. Mask(Mask(ring.head + a) + k) = Mask((ring.head + a) + k)
  BY <1>2, MaskAdd
<1>6. ASSUME p + k <= total
      PROVE  ring.buf[CellOf(p + k)] = p + k
  <2>1. Content(ring)[j] = ring.buf[Mask(ring.head + j - 1)]
    BY <1>1, <1>4, <1>6, ContentType
  <2>2. Content(ring)[j] = (total - ring.len) + j
    BY <1>4, <1>6 DEF Held, Window
  <2> QED
    BY <1>2, <1>3, <1>4, <1>6, <2>1, <2>2
<1> QED
  BY <1>2, <1>3, <1>5, <1>6

(***************************************************************************)
(* The stream of a client                                                  *)
(***************************************************************************)

\* A client that is sent a replay is not attached, and the replay continues what it was
\* sent, within the output; unless it was overwritten, what it goes on with is at its head.
Replaying(c) ==
    peer[c] # "none" /\ client[c].remaining > 0 =>
       /\ ~client[c].attached
       /\ next[c] + client[c].remaining <= total + 1
       /\ InRing(next[c]) => client[c].head = CellOf(next[c])

\* Nobody was sent what is still to be read, or a byte of a chunk that may be sent again:
\* send_to_clients repeats a pass only for those that took nothing of it.
Due(c) == /\ next[c] <= total + 1
          /\ c \in Open => \/ next[c] <= total - chunk + 1
                           \/ pc = "write" /\ ~Ahead(c) /\ (written \/ c \in bad)

\* A chunk goes to attached clients alone.
Targets == pc = "write" => ready.wr \subseteq AttachedOnes

\* Of a client whose replay was lapped nothing more is said.
Orderly(c) == stream[c] = "lapped" \/ (Replaying(c) /\ Due(c))
Streams == \A c \in Conns : Orderly(c)

SInv == AllFresh /\ Quiet /\ Held /\ Targets /\ Streams /\ NeverMixed

\* v is the n bytes from position a + 1 on; client c, whose stream was st up to nx, has
\* been sent them.
Bytes(v, a, n) == v \in Seq(Nat) /\ Len(v) = n /\ \A k \in 1 .. n : v[k] = a + k
Continued(c, st, nx, a, n) ==
    /\ \A d \in Conns : d # c => next'[d] = next[d] /\ stream'[d] = stream[d]
    /\ next'[c] = IF n = 0 THEN nx ELSE a + n + 1
    /\ st # "mixed" => stream'[c] # "mixed"
    /\ st = "lapped" \/ nx = a + 1 => stream'[c] = st

\* A client is sent what it is to be sent next, or has been left out for a while.
LEMMA Continues ==
  ASSUME IInv, NEW c \in Conns, NEW st \in Verdicts, NEW nx \in Nat,
         NEW a \in Nat, NEW n \in Nat, NEW v, Bytes(v, a, n), nx <= a + 1 \/ st = "lapped",
         Delivered(c, st, nx, v)
  PROVE  Continued(c, st, nx, a, n)
<1>1. next \in [Conns -> Nat] /\ stream \in [Conns -> Verdicts]
  BY DEF IInv, TypeOK, StreamType
<1>2. v \in Seq(Nat) /\ Len(v) = n /\ \A k \in 1 .. n : v[k] = a + k
  BY DEF Bytes
<1>3. v = << >> <=> n = 0
  BY <1>2, EmptySeq
<1>4. (IF v = << >> THEN nx ELSE v[Len(v)] + 1) = IF n = 0 THEN nx ELSE a + n + 1
  BY <1>2, <1>3
<1>5. n # 0 => InOrder(v) /\ v[1] = a + 1
  BY <1>2 DEF InOrder
<1>6. /\ next' = [next EXCEPT ![c] = IF n = 0 THEN nx ELSE a + n + 1]
      /\ stream' = [stream EXCEPT ![c] = Verdict(st, nx, v)]
  BY <1>4 DEF Delivered
<1>7. /\ st # "mixed" => Verdict(st, nx, v) # "mixed"
      /\ st = "lapped" \/ nx = a + 1 => Verdict(st, nx, v) = st
  BY <1>3, <1>5 DEF Verdict
<1> QED
  BY <1>1, <1>6, <1>7 DEF Continued

\* A write of n of the rem bytes of a replay from position p on leaves client c as x.
Replayed(c, p, rem, st, n, x) ==
    /\ n \in 0 .. rem
    /\ client' = [client EXCEPT ![c] = x]
    /\ x.attached <=> n = rem
    /\ x.remaining = rem - n
    /\ x.head = CellOf(p + n)
    /\ out' = [out EXCEPT ![c] = out[c] + n]
    /\ next'[c] = p + n /\ stream'[c] = st
    /\ \A d \in Conns : d # c => next'[d] = next[d] /\ stream'[d] = stream[d]

\* A replay of the whole ring starts with the oldest byte it holds.
LEMMA Oldest ==
  ASSUME IInv
  PROVE  /\ ring.len \in 0 .. Size /\ total - ring.len + 1 \in Nat
         /\ (total - ring.len + 1) + ring.len = total + 1
         /\ InRing(total - ring.len + 1) /\ CellOf(total - ring.len + 1) = ring.head
<1>1. /\ total \in Nat /\ ring.len \in Nat /\ ring.len <= total /\ ring.len \in 0 .. Size
      /\ ring.head \in Index /\ ring.head \in Nat
  BY DEF IInv, TypeOK, OutputType, Recent, Ring, Index, Smaller
<1> DEFINE p == total - ring.len + 1
<1>2. p \in Nat /\ p + ring.len = total + 1 /\ p + ring.len - total - 1 = 0
  BY <1>1
<1>3. InRing(p)
  BY <1>1, <1>2 DEF InRing
<1>4. CellOf(p) = ring.head
  <2> HIDE DEF p
  <2>1. CellOf(p) = Mask(ring.head + 0) /\ ring.head + 0 = ring.head
    BY <1>1, <1>2 DEF CellOf
  <2> QED
    BY <1>1, <2>1, MaskLow
<1> QED
  BY <1>1, <1>2, <1>3, <1>4

\* A part of a replay sends the output from where it is on.
LEMMA ReplayContinues ==
  ASSUME IInv, Held, NEW c \in Conns, peer[c] # "none",
         NEW p \in Nat, NEW rem \in 0 .. Size, p + rem <= total + 1, InRing(p),
         NEW st \in Verdicts, DrainTo(c, FALSE, CellOf(p), rem, st, p)
  PROVE  \E n \in Taken(c, rem), x \in ClientFields : Replayed(c, p, rem, st, n, x)
<1> DEFINE h == CellOf(p)
           V(n) == [k \in 1 .. n |-> ring.buf[Mask(h + k - 1)]]
<1>1. PICK n \in Taken(c, rem) :
         /\ client' = [client EXCEPT ![c] = [attached  |-> FALSE \/ n = rem,
                                             head      |-> ReplayHead(h, n),
                                             remaining |-> rem - n]]
         /\ out' = [out EXCEPT ![c] = out[c] + n]
         /\ Delivered(c, SoFar(st, p), p, V(n))
  BY DEF DrainTo, Completed
<1>2. /\ total \in Nat /\ Size \in Nat /\ rem \in Nat /\ ring.len \in Nat /\ ring.len <= total
      /\ p >= 1
  BY DEF IInv, TypeOK, OutputType, Ring, Recent, Smaller, InRing
<1>3. n \in 0 .. rem /\ n \in Nat
  BY <1>1, <1>2, TakenRange
<1>4. SoFar(st, p) = st
  BY <1>2 DEF SoFar, InRing
<1>5. V(n) = [k \in 1 .. n |-> (p - 1) + k]
  <2>1. ASSUME NEW k \in 1 .. n
        PROVE  ring.buf[Mask(h + k - 1)] = (p - 1) + k
    <3>1. k - 1 \in Nat /\ p + (k - 1) <= total /\ p + (k - 1) = (p - 1) + k
      BY <1>2, <1>3
    <3>2. Mask(h + (k - 1)) = CellOf(p + (k - 1)) /\ ring.buf[CellOf(p + (k - 1))] = p + (k - 1)
      BY <3>1, CellNext
    <3> QED
      BY <3>1, <3>2
  <2> QED
    BY <2>1
<1> DEFINE v == V(n)
           a == p - 1
<1> HIDE DEF V
<1>6. Bytes(v, a, n) /\ Delivered(c, st, p, v)
  BY <1>1, <1>3, <1>4, <1>5 DEF Bytes
<1> HIDE DEF v
<1>7. a \in Nat /\ p <= a + 1 /\ p = a + 1 /\ a + n + 1 = p + n
  BY <1>2, <1>3
<1> HIDE DEF a
<1>8. /\ \A d \in Conns : d # c => next'[d] = next[d] /\ stream'[d] = stream[d]
      /\ next'[c] = p + n /\ stream'[c] = st
  <2>1. Continued(c, st, p, a, n)
    BY <1>3, <1>6, <1>7, Continues
  <2> QED
    BY <1>3, <1>7, <2>1 DEF Continued
<1>9. ReplayHead(h, n) = CellOf(p + n)
  BY <1>3, CellNext DEF ReplayHead
<1> DEFINE b == FALSE \/ n = rem
           x == [attached |-> b, head |-> ReplayHead(h, n), remaining |-> rem - n]
<1>10. (b <=> n = rem) /\ client' = [client EXCEPT ![c] = x]
  BY <1>1
<1> HIDE DEF b
<1>11. /\ x.attached = b /\ x.head = ReplayHead(h, n) /\ x.remaining = rem - n
  OBVIOUS
<1>12. x \in ClientFields
  <2>1. b \in BOOLEAN
    BY <1>10, Zenon DEF b
  <2>2. rem - n \in 0 .. Size
    BY <1>2, <1>3
  <2>3. ReplayHead(h, n) \in Index
    <3>1. InRing(p + n) /\ p + n \in Nat
      BY <1>2, <1>3 DEF InRing
    <3> QED
      BY <1>9, <3>1, CellIndex
  <2> QED
    BY <2>1, <2>2, <2>3 DEF ClientFields
<1> HIDE DEF x, h
<1> QED
  BY <1>1, <1>3, <1>8, <1>9, <1>10, <1>11, <1>12 DEF Replayed

\* Of a replay that was lapped no more is known than whose it is.
LEMMA ReplayLapped ==
  ASSUME IInv, NEW c \in Conns, NEW b, NEW h, NEW rem, NEW st, NEW p,
         SoFar(st, p) = "lapped", peer[c] # "none", DrainTo(c, b, h, rem, st, p)
  PROVE  /\ stream'[c] = "lapped"
         /\ \A d \in Conns : d # c => /\ client'[d] = client[d] /\ next'[d] = next[d]
                                      /\ stream'[d] = stream[d]
<1>1. /\ client \in [Conns -> ClientFields] /\ next \in [Conns -> Nat]
      /\ stream \in [Conns -> Verdicts]
  BY DEF IInv, TypeOK, TableType, StreamType, ClientFields
<1> DEFINE V(n) == [k \in 1 .. n |-> ring.buf[Mask(h + k - 1)]]
           X(n) == [attached |-> b \/ Completed(n, rem), head |-> ReplayHead(h, n),
                    remaining |-> rem - n]
<1>a. PICK n \in Taken(c, rem) : /\ client' = [client EXCEPT ![c] = X(n)]
                                 /\ Delivered(c, SoFar(st, p), p, V(n))
  BY Zenon DEF DrainTo
<1> DEFINE v == V(n)
           x == X(n)
<1> HIDE DEF V, X
<1>2. client' = [client EXCEPT ![c] = x] /\ Delivered(c, "lapped", p, v)
  BY <1>a
<1> HIDE DEF v, x
<1>3. \E y : next' = [next EXCEPT ![c] = y]
  BY <1>2 DEF Delivered
<1>4. stream' = [stream EXCEPT ![c] = "lapped"]
  BY <1>2 DEF Delivered, Verdict
<1> QED
  BY <1>1, <1>2, <1>3, <1>4

\* The clients do not disturb each other's streams.
LEMMA StreamClient ==
  ASSUME IInv, Unsuspended, SInv, NEW c \in Conns, ClientStep(c)
  PROVE  Targets' /\ Streams' /\ NeverMixed'
<1>1. peer[c] # "suspended"
  BY DEF SInv, AllFresh, Fresh
<1>2. UNCHANGED <<pc, idx, ready, clients, client, chunk, written, bad, total, ring>>
  BY <1>1, ClientFrame
<1>3. chunk \in Nat /\ total \in Nat /\ chunk <= total
  BY DEF IInv, TypeOK, SendType, OutputType
<1>4. Open' = Open /\ AttachedOnes' = AttachedOnes
  BY <1>2 DEF Open, AttachedOnes
<1>5. Targets'
  BY <1>2, <1>4 DEF SInv, Targets
<1> SUFFICES ASSUME NEW d \in Conns
             PROVE  Orderly(d)' /\ stream'[d] # "mixed"
  BY <1>5 DEF Streams, NeverMixed
<1>6. Orderly(d) /\ stream[d] # "mixed"
  BY DEF SInv, Streams, NeverMixed
<1>7. /\ peer'[d] = "none" \/ client[d].remaining = 0 \/ peer[d] # "none"
      /\ \/ next'[d] = next[d] /\ stream'[d] = stream[d]
         \/ peer'[d] = "none" /\ next'[d] = 1 /\ stream'[d] = "whole"
  <2>1. CASE d # c
    <3>1. peer'[d] = peer[d] /\ next'[d] = next[d] /\ stream'[d] = stream[d]
      BY <1>1, <2>1, ClientFrame
    <3> QED
      BY <3>1
  <2>2. CASE d = c
    <3>1. /\ peer'[c] = "none" \/ fd[c] = "none" \/ peer[c] # "none"
          /\ \/ next'[c] = next[c] /\ stream'[c] = stream[c]
             \/ peer'[c] = "none" /\ next'[c] = 1 /\ stream'[c] = "whole"
      BY <1>1, ClientFrame DEF Acts, Leaves, Joins, Says, Hears
    <3>2. fd[c] = "none" => client[c].remaining = 0
      BY DEF IInv, FdTable, NoClient
    <3> QED
      BY <2>2, <3>1, <3>2
  <2> QED
    BY <2>1, <2>2
<1>8. stream'[d] = "lapped" \/ Replaying(d)'
  BY <1>2, <1>6, <1>7 DEF Orderly, Replaying, InRing, CellOf
<1>9. stream'[d] = "lapped" \/ Due(d)'
  BY <1>2, <1>3, <1>4, <1>6, <1>7 DEF Orderly, Due, Ahead
<1> QED
  BY <1>6, <1>7, <1>8, <1>9 DEF Orderly

\* Outside send_to_clients, a step that sends nothing: it may detach or close clients.
LEMMA StreamIdle ==
  ASSUME IInv, SInv, Quiet', UNCHANGED <<next, stream, peer, total, ring>>,
         pc' \notin {"forward", "write"}, chunk' \in Nat,
         \A d \in Conns : client'[d] \in {client[d], NoClient,
                                          [client[d] EXCEPT !.attached = FALSE]}
  PROVE  Targets' /\ Streams' /\ NeverMixed'
<1>1. Targets' /\ NeverMixed'
  BY DEF Targets, SInv, NeverMixed
<1>2. chunk' = 0 /\ total \in Nat
  BY DEF Quiet, IInv, TypeOK, OutputType
<1> SUFFICES ASSUME NEW d \in Conns, stream[d] # "lapped"
             PROVE  Replaying(d)' /\ Due(d)'
  BY <1>1 DEF Streams, Orderly
<1>3. Replaying(d) /\ Due(d) /\ next[d] \in Nat /\ client[d] \in ClientFields
  BY DEF SInv, Streams, Orderly, IInv, TypeOK, StreamType, TableType, ClientFields
<1>4. Due(d)'
  BY <1>2, <1>3 DEF Due
<1>5. CASE client'[d] = NoClient
  BY <1>4, <1>5 DEF Replaying, NoClient
<1>6. CASE client'[d] \in {client[d], [client[d] EXCEPT !.attached = FALSE]}
  <2>1. /\ client'[d].remaining = client[d].remaining /\ client'[d].head = client[d].head
        /\ client'[d].attached => client[d].attached
    BY <1>3, <1>6 DEF ClientFields
  <2>2. Replaying(d)'
    BY <1>2, <1>3, <2>1 DEF Replaying, InRing, CellOf
  <2> QED
    BY <1>4, <2>2
<1> QED
  BY <1>5, <1>6

\* Attach: nothing is repeated, because nothing was known of the client before.
LEMMA StreamAttach ==
  ASSUME IInv, SInv, Quiet', HandleAttach
  PROVE  Targets' /\ Streams' /\ NeverMixed'
<1> DEFINE c == Current
<1>1. /\ Serving /\ c \in Conns /\ inq[c] # << >> /\ Head(inq[c]).type = "Attach"
      /\ inq[c] \in Seq(ClientPackets)
  BY AheadNext DEF HandleAttach, ReadPacket, Serving, IInv, TypeOK, TableType
<1>2. client[c] = NoClient /\ inq[c][1].type = "Attach"
  <2>1. 1 \in 1 .. Len(inq[c]) /\ Head(inq[c]) = inq[c][1]
    BY <1>1, EmptySeq, HeadTailProperties
  <2> QED
    BY <1>1, <2>1 DEF SInv, AllFresh, Fresh
<1>3. /\ UNCHANGED <<ready, ring, total, chunk, peer, pc>> /\ pc = "packets" /\ chunk = 0
      /\ total \in Nat /\ Held
  BY DEF HandleAttach, Serving, SInv, Quiet, ReadPacket, IInv, TypeOK, OutputType, SendType
<1>4. client \in [Conns -> ClientFields] /\ next \in [Conns -> Nat]
      /\ stream \in [Conns -> Verdicts]
  BY DEF IInv, TypeOK, TableType, StreamType, ClientFields
<1>5. Targets'
  BY <1>3 DEF Targets
<1>6. /\ \A d \in Conns : d # c => /\ client'[d] = client[d] /\ next'[d] = next[d]
                                   /\ stream'[d] = stream[d]
      /\ stream'[c] # "mixed"
      /\ stream'[c] = "lapped" \/ next'[c] <= total + 1
      /\ peer[c] # "none" /\ client'[c].remaining > 0 =>
            /\ ~client'[c].attached
            /\ next'[c] + client'[c].remaining <= total + 1
            /\ client'[c].head = CellOf(next'[c])
  <2>1. CASE Packet.len # 0 \/ ring.len = 0
    <3>1. /\ client' = [client EXCEPT ![c].attached = TRUE]
          /\ next' = [next EXCEPT ![c] = total + 1] /\ stream' = [stream EXCEPT ![c] = "whole"]
      BY <2>1 DEF HandleAttach
    <3>2. client'[c].remaining = 0
      BY <1>1, <1>2, <1>4, <3>1 DEF NoClient
    <3> QED
      BY <1>1, <1>3, <1>4, <3>1, <3>2
  <2>2. CASE ~(Packet.len # 0 \/ ring.len = 0)
    <3> DEFINE p == total - ring.len + 1
               rem == ring.len
    <3>1. DrainTo(c, FALSE, ring.head, rem, "whole", p)
      <4>1. DrainTo(c, client[c].attached, ring.head, ring.len, "whole", total - ring.len + 1)
        BY <2>2 DEF HandleAttach
      <4>2. client[c].attached = FALSE
        BY <1>2 DEF NoClient
      <4> QED
        BY <4>1, <4>2
    <3>2. rem \in 0 .. Size /\ p \in Nat /\ p + rem = total + 1 /\ InRing(p)
          /\ CellOf(p) = ring.head
      BY <1>3, Oldest
    <3> HIDE DEF p, rem
    <3>3. CASE peer[c] = "none"
      <4>1. /\ \E x : client' = [client EXCEPT ![c] = x]
            /\ UNCHANGED <<next, stream>>
        BY <3>1, <3>3 DEF DrainTo
      <4> QED
        BY <1>1, <1>4, <3>3, <4>1 DEF SInv, Streams, Orderly, Due, NeverMixed
    <3>4. CASE peer[c] # "none"
      <4>1. "whole" \in Verdicts /\ p + rem <= total + 1
        BY <1>3, <3>2 DEF Verdicts
      <4>2. PICK n \in Taken(c, rem), x \in ClientFields :
               Replayed(c, p, rem, "whole", n, x)
        BY <1>1, <1>3, <3>1, <3>2, <3>4, <4>1, ReplayContinues
      <4>3. client'[c] = x /\ \A d \in Conns : d # c => client'[d] = client[d]
        BY <1>1, <1>4, <4>2 DEF Replayed
      <4>4. n \in Nat /\ n <= rem /\ rem \in Nat
        BY <3>2, <4>2 DEF Replayed
      <4>5. p + n <= total + 1 /\ (p + n) + (rem - n) <= total + 1 /\ (rem - n > 0 => n # rem)
        BY <1>3, <3>2, <4>4
      <4> QED
        BY <4>2, <4>3, <4>5 DEF Replayed
    <3> QED
      BY <3>3, <3>4
  <2> QED
    BY <2>1, <2>2
<1> HIDE DEF c
<1>7. ASSUME NEW d \in Conns
      PROVE  Orderly(d)' /\ stream'[d] # "mixed"
  <2>1. Orderly(d) /\ stream[d] # "mixed"
    BY DEF SInv, Streams, NeverMixed
  <2>2. stream'[d] = "lapped" \/ Replaying(d)'
    BY <1>3, <1>6, <2>1 DEF Orderly, Replaying, InRing, CellOf
  <2>3. stream'[d] = "lapped" \/ Due(d)'
    BY <1>3, <1>6, <2>1 DEF Orderly, Due
  <2> QED
    BY <1>6, <2>1, <2>2, <2>3 DEF Orderly
<1> QED
  BY <1>5, <1>7 DEF Streams, NeverMixed

\* drain_replay goes on where the replay stopped, unless it was lapped.
LEMMA StreamDrain ==
  ASSUME IInv, SInv, Quiet', DrainReplay
  PROVE  Targets' /\ Streams' /\ NeverMixed'
<1> DEFINE c == Current
<1>1. /\ UNCHANGED <<ready, ring, total, chunk, peer, pc>> /\ pc = "drain" /\ chunk = 0
      /\ c \in Conns /\ total \in Nat /\ Held /\ ring.len \in Nat
  BY AheadNext DEF DrainReplay, SInv, Quiet, IInv, TypeOK, OutputType, SendType, Ring
<1>2. client \in [Conns -> ClientFields] /\ next \in [Conns -> Nat]
      /\ stream \in [Conns -> Verdicts]
  BY DEF IInv, TypeOK, TableType, StreamType, ClientFields
<1>3. CASE ~Pending \/ peer[c] = "none"
  <2> DEFINE x == [attached |-> client[c].attached, head |-> client[c].head,
                   remaining |-> client[c].remaining]
  <2>1. UNCHANGED <<next, stream>> /\ (client' = client \/ client' = [client EXCEPT ![c] = x])
    BY <1>3 DEF DrainReplay, DrainTo
  <2>2. x = client[c]
    BY <1>1, <1>2 DEF ClientFields
  <2> HIDE DEF x
  <2>3. client' = client
    BY <1>2, <2>1, <2>2
  <2> QED
    BY <1>1, <2>1, <2>3, StreamIdle
<1>4. CASE Pending /\ peer[c] # "none"
  <2> DEFINE rem == client[c].remaining
             p == next[c]
             st == stream[c]
  <2>0. /\ rem > 0 /\ rem \in Nat /\ rem \in 0 .. Size /\ p \in Nat /\ st \in Verdicts
        /\ DrainTo(c, client[c].attached, client[c].head, rem, st, p)
    BY <1>1, <1>2, <1>4 DEF DrainReplay, Pending, ClientFields
  <2>1. /\ stream'[c] # "mixed"
        /\ \/ stream'[c] = "lapped"
           \/ /\ next'[c] <= total + 1
              /\ client'[c].remaining > 0 => /\ ~client'[c].attached
                                             /\ next'[c] + client'[c].remaining <= total + 1
                                             /\ client'[c].head = CellOf(next'[c])
        /\ \A d \in Conns : d # c => /\ client'[d] = client[d] /\ next'[d] = next[d]
                                     /\ stream'[d] = stream[d]
    <3>1. CASE SoFar(st, p) = "lapped"
      <4>1. \E b, h : DrainTo(c, b, h, rem, st, p)
        BY <2>0
      <4> HIDE DEF c, rem, p, st
      <4> QED
        BY <1>1, <1>4, <3>1, <4>1, ReplayLapped
    <3>2. CASE SoFar(st, p) # "lapped"
      <4>1. st # "lapped" /\ st # "mixed" /\ InRing(p)
        BY <1>1, <2>0, <3>2 DEF SoFar, InRing, SInv, NeverMixed
      <4>2. /\ client[c].attached = FALSE /\ p + rem <= total + 1
            /\ client[c].head = CellOf(p)
        <5>1. Replaying(c) /\ client[c] \in ClientFields
          BY <1>1, <1>2, <4>1 DEF SInv, Streams, Orderly
        <5> QED
          BY <1>4, <2>0, <4>1, <5>1 DEF Replaying, ClientFields
      <4>3. DrainTo(c, FALSE, CellOf(p), rem, st, p)
        BY <2>0, <4>2
      <4> HIDE DEF rem, p, st
      <4>4. PICK n \in Taken(c, rem), x \in ClientFields : Replayed(c, p, rem, st, n, x)
        BY <1>1, <1>4, <2>0, <4>1, <4>2, <4>3, ReplayContinues
      <4>5. client'[c] = x /\ \A d \in Conns : d # c => client'[d] = client[d]
        BY <1>1, <1>2, <4>4 DEF Replayed
      <4>6. n \in Nat /\ n <= rem
        BY <2>0, <4>4 DEF Replayed
      <4>7. p + n <= total + 1 /\ (p + n) + (rem - n) <= total + 1 /\ (rem - n > 0 => n # rem)
        BY <1>1, <2>0, <4>2, <4>6
      <4> QED
        BY <4>1, <4>4, <4>5, <4>7 DEF Replayed
    <3> QED
      BY <3>1, <3>2
  <2> HIDE DEF c
  <2>2. ASSUME NEW d \in Conns
        PROVE  Orderly(d)' /\ stream'[d] # "mixed"
    <3>1. Orderly(d) /\ stream[d] # "mixed"
      BY DEF SInv, Streams, NeverMixed
    <3>2. stream'[d] = "lapped" \/ Replaying(d)'
      BY <1>1, <2>1, <3>1 DEF Orderly, Replaying, InRing, CellOf
    <3>3. stream'[d] = "lapped" \/ Due(d)'
      BY <1>1, <2>1, <3>1 DEF Orderly, Due
    <3> QED
      BY <2>1, <3>1, <3>2, <3>3 DEF Orderly
  <2> QED
    BY <1>1, <2>2 DEF Streams, NeverMixed, Targets
<1> QED
  BY <1>3, <1>4

\* What a write of the chunk puts on a connection.
LEMMA ChunkContinues ==
  ASSUME IInv, NEW c \in Conns, NEW n \in 0 .. chunk,
         next[c] <= total - chunk + 1 \/ stream[c] = "lapped",
         Delivered(c, stream[c], next[c], Data(n))
  PROVE  Continued(c, stream[c], next[c], total - chunk, n)
<1>1. /\ chunk \in Nat /\ total \in Nat /\ chunk <= total
      /\ next[c] \in Nat /\ stream[c] \in Verdicts
  BY DEF IInv, TypeOK, SendType, OutputType, StreamType
<1>2. PICK a \in Nat, nx \in Nat, st \in Verdicts, v \in {Data(n)} :
         a = total - chunk /\ nx = next[c] /\ st = stream[c]
  BY <1>1
<1>3. Bytes(v, a, n)
  <2>1. v = [k \in 1 .. n |-> a + k]
    BY <1>2 DEF Data
  <2> QED
    BY <1>1, <2>1 DEF Bytes
<1>4. (nx <= a + 1 \/ st = "lapped") /\ n \in Nat /\ Delivered(c, st, nx, v)
  BY <1>1, <1>2
<1>5. Continued(c, st, nx, a, n)
  BY <1>2, <1>3, <1>4, Continues
<1> QED
  BY <1>2, <1>5 DEF Continued

\* send_to_clients writes a chunk to nobody who has had a byte of it.
LEMMA StreamWrite ==
  ASSUME IInv, SInv, WriteChunk
  PROVE  Targets' /\ Streams' /\ NeverMixed'
<1> DEFINE c == Current
<1>1. /\ UNCHANGED <<clients, client, ready, chunk, peer, pc, total, ring>>
      /\ pc = "write" /\ idx <= Len(clients) /\ idx' = idx + 1
  BY DEF WriteChunk
<1>2. /\ c \in Conns /\ c \in Open /\ Ahead(c)
      /\ \A d : (\E i \in idx + 1 .. Len(clients) : clients[i] = d) <=> Ahead(d) /\ d # c
  BY <1>1, AheadNext
<1>3. \A d : Ahead(d)' <=> Ahead(d) /\ d # c
  BY <1>1, <1>2 DEF Ahead
<1>4. /\ chunk \in Nat /\ total \in Nat /\ chunk <= total
      /\ next \in [Conns -> Nat] /\ stream \in [Conns -> Verdicts]
      /\ client \in [Conns -> ClientFields]
  BY DEF IInv, TypeOK, SendType, OutputType, StreamType, TableType, ClientFields
<1>5. Open' = Open /\ Targets'
  BY <1>1 DEF SInv, Targets, Open, AttachedOnes
<1> HIDE DEF c
<1>6. /\ \A d \in Conns : d # c => next'[d] = next[d] /\ stream'[d] = stream[d]
      /\ stream'[c] # "mixed" /\ (stream[c] = "lapped" => stream'[c] = "lapped")
      /\ written => written'
      /\ bad \subseteq bad'
      /\ stream[c] # "lapped" =>
            /\ next'[c] <= total + 1
            /\ next'[c] <= total - chunk + 1 \/ written' \/ c \in bad'
            /\ next'[c] = next[c] \/ client[c].remaining = 0
  <2>1. /\ stream[c] # "mixed"
        /\ stream[c] # "lapped" => next[c] <= total - chunk + 1 /\ next[c] <= total + 1
    BY <1>2 DEF SInv, Streams, Orderly, Due, NeverMixed
  <2>2. CASE ~(c \in ready.wr /\ peer[c] # "none")
    <3>1. UNCHANGED <<next, stream>> /\ (written => written') /\ bad \subseteq bad'
      BY <2>2 DEF WriteChunk, c
    <3> QED
      BY <2>1, <3>1
  <2>3. CASE c \in ready.wr /\ peer[c] # "none"
    <3>1. PICK n \in Taken(c, chunk) :
             /\ written' = (written \/ n = chunk)
             /\ bad' = IF n \in 1 .. chunk - 1 THEN bad \union {c} ELSE bad
             /\ Delivered(c, stream[c], next[c], Data(n))
      BY <2>3 DEF WriteChunk, c
    <3>2. n \in 0 .. chunk
      BY <1>2, <1>4, <3>1, TakenRange
    <3>3. n \in Nat /\ n <= chunk
      BY <1>4, <3>2
    <3>4. /\ \A d \in Conns : d # c => next'[d] = next[d] /\ stream'[d] = stream[d]
          /\ next'[c] = IF n = 0 THEN next[c] ELSE total - chunk + n + 1
          /\ stream'[c] # "mixed" /\ (stream[c] = "lapped" => stream'[c] = "lapped")
      BY <1>2, <2>1, <3>1, <3>2, ChunkContinues DEF Continued
    <3>6. (written => written') /\ bad \subseteq bad'
      BY <3>1
    <3>a. CASE stream[c] = "lapped"
      BY <3>4, <3>6, <3>a
    <3>b. CASE stream[c] # "lapped"
      <4>1. client[c].remaining = 0
        <5>1. client[c].attached /\ client[c].remaining \in Nat
          BY <1>1, <1>2, <1>4, <2>3 DEF SInv, Targets, AttachedOnes, ClientFields
        <5> QED
          BY <1>2, <2>3, <3>b, <5>1 DEF SInv, Streams, Orderly, Replaying
      <4>2. next'[c] <= total + 1
        BY <1>4, <2>1, <3>3, <3>4, <3>b
      <4>3. CASE n = 0
        BY <2>1, <3>4, <3>6, <3>b, <4>1, <4>2, <4>3
      <4>4. CASE n = chunk
        BY <3>1, <3>4, <3>6, <3>b, <4>1, <4>2, <4>4
      <4>5. CASE n # 0 /\ n # chunk
        <5>1. n \in 1 .. chunk - 1
          BY <1>4, <3>3, <4>5
        <5> QED
          BY <3>1, <3>4, <3>6, <3>b, <4>1, <4>2, <5>1
      <4> QED
        BY <4>3, <4>4, <4>5
    <3> QED
      BY <3>a, <3>b
  <2> QED
    BY <2>2, <2>3
<1>7. ASSUME NEW d \in Conns
      PROVE  Orderly(d)' /\ stream'[d] # "mixed"
  <2>1. /\ stream[d] # "mixed"
        /\ stream[d] = "lapped" => stream'[d] = "lapped"
        /\ stream[d] # "lapped" => Replaying(d) /\ Due(d)
    BY <1>6 DEF SInv, Streams, Orderly, NeverMixed
  <2>2. CASE stream[d] = "lapped"
    BY <2>1, <2>2 DEF Orderly
  <2>3. CASE stream[d] # "lapped"
    <3>1. Replaying(d)'
      BY <1>1, <1>6, <2>1, <2>3 DEF Replaying, InRing, CellOf
    <3>2. next'[d] <= total' + 1
      BY <1>1, <1>6, <2>1, <2>3 DEF Due
    <3>3. ASSUME d \in Open
          PROVE  \/ next'[d] <= total' - chunk' + 1
                 \/ pc' = "write" /\ ~Ahead(d)' /\ (written' \/ d \in bad')
      BY <1>1, <1>3, <1>6, <2>1, <2>3, <3>3 DEF Due
    <3>4. Due(d)'
      BY <1>5, <3>2, <3>3 DEF Due
    <3> QED
      BY <1>6, <2>1, <3>1, <3>4 DEF Orderly
  <2> QED
    BY <1>6, <2>1, <2>2, <2>3
<1> QED
  BY <1>5, <1>7 DEF Streams, NeverMixed

\* The inner select, and the end of a pass, which starts over only if nobody got the
\* chunk and without those that took a part of it.
LEMMA StreamPasses ==
  ASSUME IInv, SInv, Quiet', InnerSelect \/ EndWrites
  PROVE  Targets' /\ Streams' /\ NeverMixed'
<1>0. /\ chunk \in Nat /\ total \in Nat /\ next \in [Conns -> Nat]
      /\ client \in [Conns -> ClientFields]
  BY DEF IInv, TypeOK, SendType, OutputType, StreamType, TableType, ClientFields
<1>1. CASE InnerSelect
  <2>1. /\ UNCHANGED <<clients, client, chunk, peer, total, ring, next, stream>>
        /\ pc = "forward" /\ pc' = "write" /\ ready' = InnerReady
    BY <1>1 DEF InnerSelect
  <2>2. Open' = Open /\ AttachedOnes' = AttachedOnes
    BY <2>1 DEF Open, AttachedOnes
  <2>3. Targets'
    BY <2>1, <2>2 DEF Targets, InnerReady, NoneReady
  <2>4. ASSUME NEW d \in Conns, stream[d] # "lapped"
        PROVE  Replaying(d)' /\ Due(d)'
    <3>1. Replaying(d) /\ Due(d)
      BY <2>4 DEF SInv, Streams, Orderly
    <3>2. Replaying(d)'
      BY <2>1, <3>1 DEF Replaying, InRing, CellOf
    <3>3. Due(d)'
      BY <2>1, <2>2, <3>1 DEF Due
    <3> QED
      BY <3>2, <3>3
  <2> QED
    BY <2>1, <2>3, <2>4 DEF Streams, Orderly, SInv, NeverMixed
<1>2. CASE EndWrites
  <2>1. /\ UNCHANGED <<peer, total, ring, next, stream, backlog>>
        /\ pc = "write" /\ idx > Len(clients) /\ CloseAndRemove(bad)
        /\ \/ pc' = "build" /\ chunk' = 0
           \/ ~Forwarded /\ pc' = "forward" /\ chunk' = chunk
    BY <1>2 DEF EndWrites
  <2>2. \A d \in Conns : client'[d] \in {client[d], NoClient}
    BY <2>1 DEF CloseAndRemove, Closed
  <2>3. CASE pc' = "build" /\ chunk' = 0
    BY <1>0, <2>1, <2>2, <2>3, StreamIdle
  <2>4. CASE ~Forwarded /\ pc' = "forward" /\ chunk' = chunk
    <3>1. Targets' /\ NeverMixed'
      BY <2>1, <2>4 DEF Targets, SInv, NeverMixed
    <3>2. ~written
      BY <2>4 DEF Forwarded
    <3>3. Open' = Open \ bad
      BY <2>1, CloseAndRemoveTable DEF IInv, Condemned
    <3>4. ASSUME NEW d \in Conns, stream[d] # "lapped"
          PROVE  Replaying(d)' /\ Due(d)'
      <4>1. Replaying(d) /\ Due(d)
        BY <3>4 DEF SInv, Streams, Orderly
      <4>2. Replaying(d)'
        BY <1>0, <2>1, <2>2, <4>1 DEF Replaying, NoClient, InRing, CellOf
      <4>3. Due(d)'
        <5>1. d \in Open' => next[d] <= total - chunk + 1
          BY <3>2, <3>3, <4>1 DEF Due
        <5> QED
          BY <2>1, <2>4, <4>1, <5>1 DEF Due
      <4> QED
        BY <4>2, <4>3
    <3> QED
      BY <2>1, <3>1, <3>4 DEF Streams, Orderly
  <2> QED
    BY <2>1, <2>3, <2>4
<1> QED
  BY <1>1, <1>2

\* What has just been read nobody has been sent, and what a replay goes on with is where it
\* was, unless it is overwritten.
LEMMA StreamOutput ==
  ASSUME IInv, SInv, Quiet', NEW n \in 1 .. BufSize, ReadOutput(n)
  PROVE  Targets' /\ Streams' /\ NeverMixed'
<1>1. /\ UNCHANGED <<client, peer, next, stream>>
      /\ total' = total + n /\ pc' \in {"build", "forward"} /\ chunk' \in {0, n}
  BY DEF ReadOutput
<1>2. n \in Nat /\ total \in Nat /\ next \in [Conns -> Nat] /\ client \in [Conns -> ClientFields]
  BY DEF IInv, TypeOK, OutputType, StreamType, TableType, ClientFields
<1>3. ASSUME NEW d \in Conns, stream[d] # "lapped"
      PROVE  Replaying(d)' /\ Due(d)'
  <2>1. Replaying(d) /\ Due(d)
    BY <1>3 DEF SInv, Streams, Orderly
  <2>2. client[d].remaining \in Nat /\ next[d] \in Nat
    BY <1>2 DEF ClientFields
  <2>3. PICK p \in Nat : p = next[d] /\ p <= total + 1
    BY <2>1, <2>2 DEF Due
  <2>4. InRing(p)' => InRing(p) /\ CellOf(p)' = CellOf(p)
    BY <2>3, CellKept DEF SInv
  <2>5. InRing(next[d])' => InRing(p)' /\ CellOf(next[d])' = CellOf(p)'
    BY <1>1, <2>3 DEF InRing, CellOf
  <2>6. Replaying(d)'
    <3>1. next[d] + client[d].remaining <= total + 1
             => next[d] + client[d].remaining <= total' + 1
      BY <1>1, <1>2, <2>2
    <3> QED
      BY <1>1, <2>1, <2>3, <2>4, <2>5, <3>1 DEF Replaying
  <2>7. next'[d] <= total' - chunk' + 1 /\ next'[d] <= total' + 1
    BY <1>1, <1>2, <2>1, <2>2 DEF Due
  <2>8. Due(d)'
    BY <2>7 DEF Due
  <2> QED
    BY <2>6, <2>8
<1> QED
  BY <1>1, <1>3 DEF Streams, Orderly, Targets, SInv, NeverMixed

\* The steps of the daemon that send no output.
LEMMA StreamOthers ==
  ASSUME IInv, SInv, Quiet',
         \/ BuildFdSets \/ Select \/ AcceptClient \/ EndPackets \/ EvictAttached \/ EndDrain
         \/ EndOutput \/ Reap
         \/ HandlePacket /\ ~HandleAttach
  PROVE  Targets' /\ Streams' /\ NeverMixed'
<1> DEFINE Loop == BuildFdSets \/ Select \/ AcceptClient \/ EndPackets \/ EvictAttached \/ EndDrain
                   \/ EndOutput \/ Reap
           Drop == ReadEof \/ HandleForceDetach \/ HandleInfo
           Keep == SkipClient \/ HandlePush \/ HandleWinch \/ HandleRedraw \/ HandleKill
<1>0. /\ chunk \in Nat /\ total \in Nat /\ client \in [Conns -> ClientFields]
  BY DEF IInv, TypeOK, SendType, OutputType, TableType, ClientFields
<1>1. /\ UNCHANGED <<next, stream, peer, total, ring, chunk>>
      /\ pc' \notin {"forward", "write"}
  <2>1. CASE Loop
    BY <2>1 DEF BuildFdSets, Select, AcceptClient, EndPackets, EvictAttached, EndDrain, EndOutput,
                Reap, Cleanup
  <2>2. CASE HandlePacket /\ ~HandleAttach
    BY <2>2 DEF HandlePacket, SkipClient, ReadEof, HandlePush, HandleDetach, HandleForceDetach,
                HandleInfo, HandleWinch, HandleRedraw, HandleKill, ReadPacket, Serving
  <2> QED
    BY <2>1, <2>2
<1>2. \A d \in Conns : client'[d] \in {client[d], NoClient,
                                       [client[d] EXCEPT !.attached = FALSE]}
  <2>1. CASE Loop
    BY <2>1 DEF BuildFdSets, Select, AcceptClient, EndPackets, EvictAttached, EndDrain, EndOutput,
                Reap, Cleanup, CloseAndRemove, Closed
  <2>2. CASE Drop
    BY <2>2 DEF ReadEof, HandleForceDetach, HandleInfo, DropClient, Closed
  <2>3. CASE Keep
    BY <2>3 DEF SkipClient, HandlePush, HandleWinch, HandleRedraw, HandleKill
  <2>4. CASE HandleDetach
    BY <1>0, <2>4 DEF HandleDetach
  <2> QED
    BY <2>1, <2>2, <2>3, <2>4 DEF HandlePacket
<1> QED
  BY <1>0, <1>1, <1>2, StreamIdle

\* Every step keeps the streams in order.
LEMMA StreamStep ==
  ASSUME Unsuspended, IInv, SInv, [Next]_vars
  PROVE  SInv'
<1>1. AllFresh' /\ Quiet' /\ Held'
  BY FreshStep, QuietStep, HeldStep DEF SInv
<1>2. Targets' /\ Streams' /\ NeverMixed'
  <2>1. CASE DaemonStep
    BY <1>1, <2>1, StreamOthers, StreamAttach, StreamDrain, StreamOutput, StreamPasses, StreamWrite
       DEF DaemonStep
  <2>2. CASE \E c \in Conns : ClientStep(c)
    BY <2>2, StreamClient
  <2>3. CASE ChildStep \/ UNCHANGED vars
    <3>1. UNCHANGED <<loopVs, clients, client, chunk, written, bad, total, ring, peer, next,
                      stream>>
      BY <2>3 DEF ChildStep, ChildWrite, ChildRead, ChildHangup, ChildExit, ChildHandles
    <3> QED
      BY <3>1 DEF SInv, Targets, Streams, Orderly, Replaying, Due, NeverMixed, AttachedOnes,
                   Open, Ahead, InRing, CellOf
  <2> QED
    BY <2>1, <2>2, <2>3 DEF Next, Ended
<1> QED
  BY <1>1, <1>2 DEF SInv

\* Nothing has been sent at the start.
LEMMA StreamInit == Init => SInv
<1> SUFFICES ASSUME Init
             PROVE  SInv
  OBVIOUS
<1>1. Len(<< >>) = 0
  BY EmptySeq
<1>2. AllFresh
  BY <1>1 DEF Init, AllFresh, Fresh
<1>3. Quiet /\ Held /\ Targets /\ NeverMixed
  BY WindowNew DEF Init, Quiet, Held, Targets, NeverMixed
<1>4. Streams
  BY <1>1 DEF Init, Streams, Orderly, Replaying, Due, Open, Elements, NoClient
<1> QED
  BY <1>2, <1>3, <1>4 DEF SInv

\* Where nobody is suspended, no client is ever sent a byte twice or out of order, until
\* output overwrites what its replay was to go on with: a replay continues itself through
\* drain_replay wherever its bytes are in the ring and however often that wraps, live
\* output follows it, and send_to_clients repeats a pass only for clients that took
\* nothing, however slowly anyone reads and whoever else is closed or lapped meanwhile.
THEOREM SentInOrder ==
  ASSUME Unsuspended
  PROVE  Spec => []NeverMixed
<1>1. Init => SInv
  BY StreamInit
<1>2. IInv /\ SInv /\ [Next]_vars => SInv'
  BY StreamStep
<1>3. SInv => NeverMixed
  BY DEF SInv
<1> QED
  BY <1>1, <1>2, <1>3, Invariant, PTL DEF Spec

(***************************************************************************)
(* Where the connections have room                                         *)
(***************************************************************************)

\* A connection takes all the output, and select reports it writable whatever part of the
\* output is on it.
Ample == MaxOut + LowWater <= SockCap + 1

\* Nothing is on its way to a client whose Attach the daemon has not read.
Empty(c) == peer[c] \in {"none", "fresh"} \/ ~NoAttach(inq[c]) => out[c] = 0

\* A replay is over at once, and an attached client has been sent all but the chunk that
\* is being sent, or that too if it has had its turn.
Level(c) ==
    peer[c] # "none" =>
       /\ client[c].remaining = 0
       /\ client[c].attached =>
             /\ stream[c] = "whole" /\ out[c] <= next[c] - 1
             /\ next[c] = IF pc = "write" /\ ~Ahead(c) THEN total + 1 ELSE total - chunk + 1

\* A pass of send_to_clients is for everyone who is attached, and unless it wrote the chunk
\* to someone, all it met are gone.
Everyone == pc = "write" => /\ ready.wr = AttachedOnes
                            /\ ~written => \A c \in ready.wr : Ahead(c) \/ c \in bad
Gone == \A c \in bad : peer[c] = "none"

AllLevel == \A c \in Conns : Empty(c) /\ Level(c)

CInv == AllFresh /\ Quiet /\ Held /\ AllLevel /\ Everyone /\ Gone

\* A client that comes, speaks, receives or goes keeps the connections level.
LEMMA LevelClient ==
  ASSUME IInv, IInv', Unsuspended, CInv, NEW c \in Conns, ClientStep(c)
  PROVE  AllLevel' /\ Everyone' /\ Gone'
<1>1. peer[c] # "suspended"
  BY DEF CInv, AllFresh, Fresh
<1>2. UNCHANGED <<pc, idx, ready, clients, client, chunk, written, bad, total>>
  BY <1>1, ClientFrame
<1>3. /\ chunk \in Nat /\ total \in Nat /\ chunk <= total
      /\ out \in [Conns -> 0 .. SockCap] /\ out' \in [Conns -> 0 .. SockCap]
      /\ next \in [Conns -> Nat] /\ inq \in [Conns -> Seq(ClientPackets)]
      /\ bad \subseteq Open /\ Open = {d \in Conns : fd[d] = "open"}
  <2>1. out' \in [Conns -> 0 .. SockCap]
    BY DEF IInv, TypeOK, StreamType
  <2>2. bad \subseteq Open /\ Open = {d \in Conns : fd[d] = "open"}
    BY DEF IInv, Condemned, FdTable
  <2>3. chunk \in Nat /\ total \in Nat /\ chunk <= total
    BY DEF IInv, TypeOK, SendType, OutputType
  <2> QED
    BY <2>1, <2>2, <2>3 DEF IInv, TypeOK, StreamType, TableType
<1>4. ASSUME NEW d \in Conns
      PROVE  /\ \/ peer[d] # "none" \/ peer'[d] = "none"
                \/ fd[d] = "none" /\ peer[d] = "none" /\ peer'[d] = "fresh"
             /\ out'[d] <= out[d] /\ out'[d] \in Nat /\ out[d] \in Nat
             /\ peer'[d] # "none" => next'[d] = next[d] /\ stream'[d] = stream[d]
             /\ peer'[d] = "none" => out'[d] = 0 \/ (out'[d] = out[d] /\ peer[d] = "none")
             /\ peer'[d] = "fresh" => peer[d] \in {"none", "fresh"}
             /\ NoAttach(inq'[d]) \/ ~NoAttach(inq[d]) \/ peer[d] = "fresh"
  <2>1. out'[d] \in Nat /\ out[d] \in Nat
    BY <1>3
  <2>2. CASE d # c
    <3>1. /\ peer'[d] = peer[d] /\ inq'[d] = inq[d] /\ out'[d] = out[d]
          /\ next'[d] = next[d] /\ stream'[d] = stream[d]
      BY <1>1, <2>2, ClientFrame
    <3>2. out'[d] <= out[d]
      BY <2>1, <3>1
    <3> QED
      BY <2>1, <3>1, <3>2 DEF NoAttach
  <2>3. CASE d = c
    <3>1. /\ \/ peer[c] # "none" \/ peer'[c] = "none"
             \/ fd[c] = "none" /\ peer[c] = "none" /\ peer'[c] = "fresh"
          /\ out'[c] = 0 \/ out'[c] <= out[c]
          /\ peer'[c] # "none" => next'[c] = next[c] /\ stream'[c] = stream[c]
          /\ peer'[c] = "none" => out'[c] = 0
          /\ peer'[c] = "fresh" => peer[c] = "none"
          /\ \/ inq'[c] = inq[c]
             \/ \E p \in ClientPackets : /\ inq'[c] = Append(inq[c], p)
                                         /\ p.type = "Attach" => peer[c] = "fresh"
      <4>1. Acts(c) /\ (out'[c] = out[c] => out'[c] <= out[c])
        BY <1>1, <1>3, ClientFrame
      <4> QED
        BY <4>1 DEF Acts, Leaves, Joins, Says, Hears
    <3>2. NoAttach(inq'[c]) \/ ~NoAttach(inq[c]) \/ peer[c] = "fresh"
      <4> SUFFICES ASSUME NEW p \in ClientPackets, inq'[c] = Append(inq[c], p),
                          p.type # "Attach", NoAttach(inq[c])
                   PROVE  NoAttach(inq'[c])
        BY <3>1
      <4>1. /\ Len(inq[c]) \in Nat /\ Len(inq'[c]) = Len(inq[c]) + 1
            /\ inq'[c][Len(inq[c]) + 1] = p
            /\ \A k \in 1 .. Len(inq[c]) : inq'[c][k] = inq[c][k]
        BY <1>3, AppendProperties
      <4>2. \A k \in 1 .. Len(inq'[c]) : k \in 1 .. Len(inq[c]) \/ k = Len(inq[c]) + 1
        BY <4>1
      <4> QED
        BY <4>1, <4>2 DEF NoAttach
    <3> QED
      BY <2>1, <2>3, <3>1, <3>2
  <2> QED
    BY <2>2, <2>3
<1>5. ASSUME NEW d \in Conns
      PROVE  Empty(d)' /\ Level(d)'
  <2>1. Empty(d) /\ Level(d)
    BY DEF CInv, AllLevel
  <2>2. Empty(d)'
    BY <1>4, <2>1 DEF Empty
  <2>3. fd[d] = "none" => client[d] = NoClient
    BY DEF IInv, FdTable
  <2>4. peer'[d] # "none" => client[d].remaining = 0 /\ (client[d].attached => peer[d] # "none")
    BY <1>4, <2>1, <2>3 DEF Level, NoClient
  <2>5. Level(d)'
    <3>1. next[d] \in Nat /\ out[d] \in Nat /\ out'[d] \in Nat
      BY <1>3
    <3> QED
      BY <1>2, <1>4, <2>1, <2>4, <3>1 DEF Level, Ahead
  <2> QED
    BY <2>2, <2>5
<1>6. Everyone'
  BY <1>2 DEF CInv, Everyone, AttachedOnes, Open, Ahead
<1>7. Gone'
  BY <1>2, <1>3, <1>4 DEF CInv, Gone
<1> QED
  BY <1>5, <1>6, <1>7 DEF AllLevel

\* A step of the daemon leaves a queue alone or without an Attach, and puts nothing on the
\* way to a client it knows nothing of.
LEMMA EmptyDaemon ==
  ASSUME IInv, CInv, DaemonStep, NEW d \in Conns
  PROVE  Empty(d)' /\ peer'[d] = peer[d]
<1>0. /\ inq \in [Conns -> Seq(ClientPackets)] /\ out \in [Conns -> 0 .. SockCap]
      /\ client \in [Conns -> ClientFields] /\ Len(<< >>) = 0
  BY EmptySeq DEF IInv, TypeOK, TableType, StreamType, ClientFields
<1>1. peer' = peer
  BY DEF DaemonStep, BuildFdSets, Select, AcceptClient, HandlePacket, SkipClient, ReadEof,
         HandlePush, HandleAttach, HandleDetach, HandleForceDetach, HandleInfo, HandleWinch,
         HandleRedraw, HandleKill, EndPackets, EvictAttached, DrainReplay, EndDrain, ReadOutput,
         EndOutput, Reap, InnerSelect, WriteChunk, EndWrites
<1>2. inq'[d] \in {inq[d], << >>} \/ (inq[d] # << >> /\ inq'[d] = Tail(inq[d]))
  <2>1. CASE HandlePacket
    BY <1>0, <2>1 DEF HandlePacket, SkipClient, ReadEof, HandlePush, HandleAttach, HandleDetach,
          HandleForceDetach, HandleInfo, HandleWinch, HandleRedraw, HandleKill, ReadPacket,
          NextClient, DropClient, Closed
  <2>2. CASE DaemonStep /\ ~HandlePacket
    BY <1>0, <2>2 DEF DaemonStep, BuildFdSets, Select, AcceptClient, EndPackets, EvictAttached,
          DrainReplay, EndDrain, ReadOutput, EndOutput, Reap, InnerSelect, WriteChunk, EndWrites,
          Cleanup, CloseAndRemove, Closed
  <2> QED
    BY <2>1, <2>2
<1>3. inq'[d] = inq[d] \/ NoAttach(inq'[d])
  <2>1. NoAttach(<< >>)
    BY <1>0 DEF NoAttach
  <2> QED
    BY <1>2, <2>1, AttachFirst DEF CInv
<1>4. /\ Empty(d) /\ Level(d) /\ Fresh(d)
  BY DEF CInv, AllLevel, AllFresh
<1>5. out'[d] = out[d] \/ (peer[d] \notin {"none", "fresh"} /\ NoAttach(inq'[d]))
  <2>1. CASE HandleAttach \/ HandleInfo
    <3>1. /\ Current \in Conns /\ inq[Current] # << >>
          /\ d # Current => out'[d] = out[d]
          /\ peer[Current] = "none" => out'[d] = out[d]
      <4>1. Serving /\ inq[Current] # << >> /\ Current \in Conns
        BY <2>1, AheadNext DEF HandleAttach, HandleInfo, ReadPacket, Serving
      <4> QED
        BY <1>0, <2>1, <4>1 DEF HandleAttach, HandleInfo, DrainTo
    <3>2. inq'[Current] # inq[Current]
      <4>1. inq'[Current] \in {<< >>, Tail(inq[Current])}
        BY <1>0, <2>1, <3>1 DEF HandleAttach, HandleInfo, NextClient, DropClient, Closed
      <4>2. inq[Current] \in Seq(ClientPackets)
        BY <1>0, <3>1
      <4>3. Len(Tail(inq[Current])) # Len(inq[Current])
        BY <3>1, <4>2, EmptySeq, HeadTailProperties
      <4> QED
        BY <3>1, <4>1, <4>3
    <3>3. CASE d = Current /\ peer[d] # "none"
      BY <1>3, <1>4, <3>1, <3>2, <3>3 DEF Fresh
    <3> QED
      BY <3>1, <3>3
  <2>2. CASE DrainReplay
    <3>1. CASE Pending /\ peer[Current] # "none"
      <4>1. Current \in Conns
        BY <2>2, AheadNext DEF DrainReplay
      <4> QED
        BY <1>0, <3>1, <4>1 DEF Pending, CInv, AllLevel, Level, ClientFields
    <3>2. CASE ~(Pending /\ peer[Current] # "none")
      BY <2>2, <3>2 DEF DrainReplay, DrainTo
    <3> QED
      BY <3>1, <3>2
  <2>3. CASE WriteChunk
    <3>1. /\ pc = "write" /\ inq' = inq /\ Current \in Conns
          /\ d # Current => out'[d] = out[d]
          /\ ~(Current \in ready.wr /\ peer[Current] # "none") => out'[d] = out[d]
      BY <1>0, <2>3, AheadNext DEF WriteChunk
    <3>2. CASE d = Current /\ d \in ready.wr /\ peer[d] # "none"
      <4>1. client[d] # NoClient
        BY <3>1, <3>2 DEF CInv, Everyone, AttachedOnes, NoClient
      <4> QED
        BY <1>4, <3>1, <3>2, <4>1 DEF Fresh, NoAttach
    <3> QED
      BY <3>1, <3>2
  <2>4. CASE HandlePacket /\ ~HandleAttach /\ ~HandleInfo
    BY <2>4 DEF HandlePacket, SkipClient, ReadEof, HandlePush, HandleDetach, HandleForceDetach,
                HandleWinch, HandleRedraw, HandleKill
  <2>5. CASE DaemonStep /\ ~HandlePacket /\ ~DrainReplay /\ ~WriteChunk
    BY <2>5 DEF DaemonStep, BuildFdSets, Select, AcceptClient, EndPackets, EvictAttached,
                EndDrain, ReadOutput, EndOutput, Reap, InnerSelect, EndWrites
  <2> QED
    BY <2>1, <2>2, <2>3, <2>4, <2>5
<1> QED
  BY <1>1, <1>3, <1>4, <1>5 DEF Empty

\* Outside send_to_clients, a step that sends nothing to anyone who stays attached.
LEMMA LevelIdle ==
  ASSUME IInv, CInv, Quiet', UNCHANGED <<next, stream, peer, total>>, chunk' \in Nat,
         pc \notin {"forward", "write"}, pc' \notin {"forward", "write"},
         \A d \in Conns : client'[d] \in {client[d], NoClient,
                                          [client[d] EXCEPT !.attached = FALSE]},
         \A d \in Conns : client'[d].attached => out'[d] = out[d]
  PROVE  (\A d \in Conns : Level(d)') /\ Everyone'
<1>1. chunk = 0 /\ chunk' = 0
  BY DEF CInv, Quiet, IInv, TypeOK, SendType, OutputType
<1> SUFFICES ASSUME NEW d \in Conns
             PROVE  Level(d)'
  BY DEF Everyone
<1>2. Level(d) /\ client[d] \in ClientFields
  BY DEF CInv, AllLevel, IInv, TypeOK, TableType, ClientFields
<1>3. /\ client'[d].attached => client[d].attached
      /\ client'[d].remaining = 0 \/ client'[d].remaining = client[d].remaining
  BY <1>2 DEF ClientFields, NoClient
<1> QED
  BY <1>1, <1>2, <1>3 DEF Level

\* The whole history fits on a new connection.
LEMMA LevelAttach ==
  ASSUME Ample, IInv, CInv, Quiet', HandleAttach
  PROVE  (\A d \in Conns : Level(d)') /\ Everyone'
<1> DEFINE c == Current
<1>1. /\ Serving /\ c \in Conns /\ inq[c] # << >> /\ Head(inq[c]).type = "Attach"
      /\ inq[c] \in Seq(ClientPackets)
  BY AheadNext DEF HandleAttach, ReadPacket, Serving, IInv, TypeOK, TableType
<1>2. client[c] = NoClient /\ out[c] = 0
  <2>1. 1 \in 1 .. Len(inq[c]) /\ inq[c][1].type = "Attach"
    BY <1>1, EmptySeq, HeadTailProperties
  <2>2. ~NoAttach(inq[c])
    BY <2>1 DEF NoAttach
  <2> QED
    BY <1>1, <2>1, <2>2 DEF CInv, AllFresh, Fresh, AllLevel, Empty
<1>3. /\ UNCHANGED <<ready, ring, total, chunk, peer, pc>> /\ pc = "packets" /\ chunk = 0
      /\ total \in Nat /\ total <= MaxOut /\ MaxOut <= SockCap /\ SockCap \in Nat
  BY DEF HandleAttach, Serving, CInv, Quiet, ReadPacket, IInv, TypeOK, OutputType, SendType, Ample
<1>4. client \in [Conns -> ClientFields] /\ next \in [Conns -> Nat]
      /\ stream \in [Conns -> Verdicts] /\ out \in [Conns -> 0 .. SockCap]
  BY DEF IInv, TypeOK, TableType, StreamType, ClientFields
<1>5. /\ \A d \in Conns : d # c => /\ client'[d] = client[d] /\ next'[d] = next[d]
                                   /\ stream'[d] = stream[d] /\ out'[d] = out[d]
      /\ peer[c] # "none" => /\ client'[c].remaining = 0
                             /\ next'[c] = total + 1 /\ stream'[c] = "whole"
                             /\ out'[c] <= total
  <2>1. CASE Packet.len # 0 \/ ring.len = 0
    <3>1. /\ client' = [client EXCEPT ![c].attached = TRUE] /\ out' = out
          /\ next' = [next EXCEPT ![c] = total + 1] /\ stream' = [stream EXCEPT ![c] = "whole"]
      BY <2>1 DEF HandleAttach
    <3>2. client'[c].remaining = 0
      BY <1>1, <1>2, <1>4, <3>1 DEF NoClient
    <3> QED
      BY <1>1, <1>2, <1>3, <1>4, <3>1, <3>2
  <2>2. CASE ~(Packet.len # 0 \/ ring.len = 0)
    <3> DEFINE p == total - ring.len + 1
               rem == ring.len
    <3>1. DrainTo(c, FALSE, ring.head, rem, "whole", p)
      <4>1. DrainTo(c, client[c].attached, ring.head, ring.len, "whole", total - ring.len + 1)
        BY <2>2 DEF HandleAttach
      <4>2. client[c].attached = FALSE
        BY <1>2 DEF NoClient
      <4> QED
        BY <4>1, <4>2
    <3>2. rem \in 0 .. Size /\ p \in Nat /\ p + rem = total + 1 /\ InRing(p)
          /\ CellOf(p) = ring.head /\ rem <= total
      BY <1>3, Oldest DEF IInv, Recent, Smaller
    <3> HIDE DEF p, rem
    <3>3. CASE peer[c] = "none"
      <4>1. /\ \E x : client' = [client EXCEPT ![c] = x]
            /\ UNCHANGED <<out, next, stream>>
        BY <3>1, <3>3 DEF DrainTo
      <4> QED
        BY <1>1, <1>4, <3>3, <4>1
    <3>4. CASE peer[c] # "none"
      <4>1. "whole" \in Verdicts /\ p + rem <= total + 1 /\ Held
        BY <1>3, <3>2 DEF Verdicts, CInv
      <4>2. PICK n \in Taken(c, rem), x \in ClientFields : Replayed(c, p, rem, "whole", n, x)
        BY <1>1, <3>1, <3>2, <3>4, <4>1, ReplayContinues
      <4>3. n = rem
        <5>1. rem <= SockCap - out[c]
          BY <1>2, <1>3, <3>2
        <5> QED
          BY <5>1 DEF Taken
      <4>4. /\ client'[c] = x /\ out'[c] = rem
            /\ \A d \in Conns : d # c => client'[d] = client[d] /\ out'[d] = out[d]
        BY <1>1, <1>2, <1>4, <3>2, <4>2, <4>3 DEF Replayed
      <4> QED
        BY <1>3, <3>2, <4>2, <4>3, <4>4 DEF Replayed
    <3> QED
      BY <3>3, <3>4
  <2> QED
    BY <2>1, <2>2
<1> HIDE DEF c
<1>6. ASSUME NEW d \in Conns
      PROVE  Level(d)'
  <2>1. Level(d)
    BY DEF CInv, AllLevel
  <2>2. CASE d = c
    BY <1>3, <1>5, <2>2 DEF Level
  <2>3. CASE d # c
    BY <1>3, <1>5, <2>1, <2>3 DEF Level
  <2> QED
    BY <2>2, <2>3
<1> QED
  BY <1>3, <1>6 DEF Everyone

\* So no replay is left to drain_replay, but to those that are gone.
LEMMA LevelDrain ==
  ASSUME IInv, CInv, Quiet', DrainReplay
  PROVE  (\A d \in Conns : Level(d)') /\ Everyone'
<1>1. /\ UNCHANGED <<total, chunk, peer, pc>> /\ pc = "drain" /\ chunk \in Nat
      /\ Current \in Conns
  BY AheadNext DEF DrainReplay, IInv, TypeOK, OutputType, SendType
<1>2. client \in [Conns -> ClientFields]
  BY DEF IInv, TypeOK, TableType, ClientFields
<1>3. ~(Pending /\ peer[Current] # "none")
  BY <1>1, <1>2 DEF Pending, CInv, AllLevel, Level, ClientFields
<1> DEFINE x == [attached |-> client[Current].attached, head |-> client[Current].head,
                 remaining |-> client[Current].remaining]
<1>4. /\ UNCHANGED <<out, next, stream>>
      /\ client' = client \/ client' = [client EXCEPT ![Current] = x]
  BY <1>3 DEF DrainReplay, DrainTo
<1>5. x = client[Current]
  BY <1>1, <1>2 DEF ClientFields
<1> HIDE DEF x
<1>6. client' = client
  BY <1>2, <1>4, <1>5
<1> QED
  BY <1>1, <1>4, <1>6, LevelIdle

\* What is read is the chunk, unless nobody is attached.
LEMMA LevelOutput ==
  ASSUME IInv, CInv, NEW n \in 1 .. BufSize, ReadOutput(n)
  PROVE  (\A d \in Conns : Level(d)') /\ Everyone'
<1>1. /\ UNCHANGED <<client, peer, next, stream, out>> /\ total' = total + n
      /\ pc = "pty" /\ pc' \in {"build", "forward"}
      /\ AttachedOnes # {} => chunk' = n
  BY DEF ReadOutput
<1>2. n \in Nat /\ total \in Nat /\ chunk = 0 /\ client \in [Conns -> ClientFields]
  BY <1>1 DEF IInv, TypeOK, OutputType, TableType, ClientFields, CInv, Quiet, SendType
<1> SUFFICES ASSUME NEW d \in Conns
             PROVE  Level(d)'
  BY <1>1 DEF Everyone
<1>3. Level(d)
  BY DEF CInv, AllLevel
<1>4. client[d].attached => d \in AttachedOnes
  BY DEF IInv, FdTable, NoClient, AttachedOnes
<1> QED
  BY <1>1, <1>2, <1>3, <1>4 DEF Level

\* Whoever is attached has room for more, and is written to.
LEMMA LevelSelect ==
  ASSUME Ample, IInv, CInv, InnerSelect
  PROVE  (\A d \in Conns : Level(d)') /\ Everyone' /\ Gone'
<1>1. /\ UNCHANGED <<clients, client, chunk, peer, total, next, stream, out, fd>>
      /\ pc = "forward" /\ pc' = "write" /\ ready' = InnerReady /\ idx' = 1 /\ bad' = {}
  BY DEF InnerSelect
<1>2. /\ chunk \in Nat /\ chunk > 0 /\ total \in Nat /\ total <= MaxOut /\ MaxOut \in Nat
      /\ SockCap \in Nat /\ LowWater \in Nat
      /\ next \in [Conns -> Nat] /\ out \in [Conns -> 0 .. SockCap]
  BY <1>1 DEF IInv, TypeOK, SendType, OutputType, StreamType, CInv, Quiet
<1>3. Open' = Open /\ AttachedOnes' = AttachedOnes /\ Open \subseteq Conns
  BY <1>1 DEF Open, AttachedOnes, IInv, FdTable
<1>4. \A d \in AttachedOnes : Writable(d)
  <2> SUFFICES ASSUME NEW d \in AttachedOnes, peer[d] # "none"
               PROVE  SockCap - out[d] >= LowWater
    BY DEF Writable
  <2>1. d \in Conns /\ client[d].attached
    BY <1>3 DEF AttachedOnes
  <2>2. out[d] <= next[d] - 1 /\ next[d] = total - chunk + 1
    BY <1>1, <2>1 DEF CInv, AllLevel, Level
  <2>3. out[d] \in Nat /\ next[d] \in Nat
    BY <1>2, <2>1
  <2> QED
    BY <1>2, <2>2, <2>3 DEF Ample
<1>5. ready'.wr = AttachedOnes
  BY <1>1, <1>4 DEF InnerReady, NoneReady
<1>6. \A d \in Open : Ahead(d)'
  BY <1>1 DEF Open, Elements, Ahead
<1>7. Everyone'
  BY <1>3, <1>5, <1>6 DEF Everyone, AttachedOnes
<1>8. ASSUME NEW d \in Conns
      PROVE  Level(d)'
  <2>1. Level(d)
    BY DEF CInv, AllLevel
  <2>2. client[d].attached => Ahead(d)'
    BY <1>6 DEF IInv, FdTable, NoClient
  <2> QED
    BY <1>1, <2>1, <2>2 DEF Level
<1> QED
  BY <1>1, <1>7, <1>8 DEF Gone

\* A client that is there takes the whole chunk.
LEMMA LevelWrite ==
  ASSUME Ample, IInv, CInv, WriteChunk
  PROVE  (\A d \in Conns : Level(d)') /\ Everyone' /\ Gone'
<1> DEFINE c == Current
<1>1. /\ UNCHANGED <<clients, client, ready, chunk, peer, pc, total>>
      /\ pc = "write" /\ idx <= Len(clients) /\ idx' = idx + 1
  BY DEF WriteChunk
<1>2. /\ c \in Conns /\ c \in Open /\ Ahead(c)
      /\ \A d : (\E i \in idx + 1 .. Len(clients) : clients[i] = d) <=> Ahead(d) /\ d # c
  BY <1>1, AheadNext
<1>3. \A d : Ahead(d)' <=> Ahead(d) /\ d # c
  BY <1>1, <1>2 DEF Ahead
<1>4. /\ chunk \in Nat /\ chunk > 0 /\ total \in Nat /\ chunk <= total /\ total <= MaxOut
      /\ MaxOut \in Nat /\ MaxOut <= SockCap /\ SockCap \in Nat
      /\ next \in [Conns -> Nat] /\ out \in [Conns -> 0 .. SockCap]
  BY <1>1 DEF IInv, TypeOK, SendType, OutputType, StreamType, CInv, Quiet, Ample
<1>5. /\ AttachedOnes' = AttachedOnes /\ ready.wr = AttachedOnes
      /\ ~written => \A d \in ready.wr : Ahead(d) \/ d \in bad
      /\ \A d \in bad : peer[d] = "none"
      /\ \A d \in Conns : Level(d)
  BY <1>1 DEF CInv, Everyone, Gone, AllLevel, AttachedOnes, Open
<1>6. c \in ready.wr <=> client[c].attached
  BY <1>2, <1>5 DEF AttachedOnes
<1> HIDE DEF c
<1>7. /\ \A d \in Conns : d # c => /\ next'[d] = next[d] /\ stream'[d] = stream[d]
                                   /\ out'[d] = out[d]
      /\ peer[c] # "none" /\ client[c].attached =>
            /\ next'[c] = total + 1 /\ stream'[c] = "whole" /\ out'[c] <= total
      /\ written' \/ ~written
      /\ c \in ready.wr => written' \/ c \in bad'
      /\ bad \subseteq bad' /\ (\A d \in bad' : d \in bad \/ peer[d] = "none")
  <2>1. CASE c \notin ready.wr
    <3>1. UNCHANGED <<written, bad, out, next, stream>>
      BY <2>1 DEF WriteChunk, c
    <3> QED
      BY <1>6, <2>1, <3>1
  <2>2. CASE c \in ready.wr /\ peer[c] = "none"
    <3>1. bad' = bad \union {c} /\ UNCHANGED <<written, out, next, stream>>
      BY <2>2 DEF WriteChunk, c
    <3> QED
      BY <2>2, <3>1
  <2>3. CASE c \in ready.wr /\ peer[c] # "none"
    <3>1. PICK n \in Taken(c, chunk) :
             /\ written' = (written \/ n = chunk)
             /\ bad' = IF n \in 1 .. chunk - 1 THEN bad \union {c} ELSE bad
             /\ out' = [out EXCEPT ![c] = out[c] + n]
             /\ Delivered(c, stream[c], next[c], Data(n))
      BY <2>3 DEF WriteChunk, c
    <3>2. /\ stream[c] = "whole" /\ out[c] <= next[c] - 1
          /\ next[c] = total - chunk + 1 /\ out[c] \in Nat
      BY <1>1, <1>2, <1>4, <1>5, <1>6, <2>3 DEF Level
    <3>3. n = chunk
      <4>1. chunk <= SockCap - out[c]
        BY <1>4, <3>2
      <4> QED
        BY <3>1, <4>1 DEF Taken
    <3>4. n \in 0 .. chunk /\ next[c] <= total - chunk + 1 /\ next[c] \in Nat
      BY <1>2, <1>4, <3>2, <3>3
    <3>5. Continued(c, stream[c], next[c], total - chunk, n)
      BY <1>2, <3>1, <3>4, ChunkContinues
    <3>6. /\ \A d \in Conns : d # c => next'[d] = next[d] /\ stream'[d] = stream[d]
          /\ next'[c] = total + 1 /\ stream'[c] = "whole"
      BY <1>4, <3>2, <3>3, <3>5 DEF Continued
    <3>7. written' /\ bad' = bad
      <4>1. n = chunk /\ n \notin 1 .. chunk - 1
        BY <1>4, <3>3
      <4> QED
        BY <3>1, <4>1
    <3>8. out'[c] = out[c] + chunk /\ \A d \in Conns : d # c => out'[d] = out[d]
      BY <1>2, <1>4, <3>1, <3>3
    <3>9. out'[c] <= total
      BY <1>4, <3>2, <3>8
    <3> QED
      BY <3>6, <3>7, <3>8, <3>9
  <2> QED
    BY <2>1, <2>2, <2>3
<1>8. Everyone'
  <2>1. ASSUME ~written', NEW d \in ready.wr
        PROVE  Ahead(d)' \/ d \in bad'
    BY <1>3, <1>5, <1>7, <2>1
  <2> QED
    BY <1>1, <1>5, <2>1 DEF Everyone
<1>9. Gone'
  BY <1>1, <1>5, <1>7 DEF Gone
<1>10. ASSUME NEW d \in Conns
       PROVE  Level(d)'
  <2>1. Level(d)
    BY <1>5
  <2>2. CASE d = c
    BY <1>1, <1>3, <1>4, <1>7, <2>1, <2>2 DEF Level
  <2>3. CASE d # c
    BY <1>1, <1>3, <1>7, <2>1, <2>3 DEF Level
  <2> QED
    BY <2>2, <2>3
<1> QED
  BY <1>8, <1>9, <1>10

\* So a pass is the only one for its chunk: it was for everyone who is still there.
LEMMA LevelEnd ==
  ASSUME IInv, CInv, EndWrites
  PROVE  (\A d \in Conns : Level(d)') /\ Everyone' /\ Gone'
<1>1. /\ UNCHANGED <<peer, total, next, stream, out, backlog>> /\ bad' = {}
      /\ pc = "write" /\ idx > Len(clients) /\ CloseAndRemove(bad)
      /\ \/ Forwarded /\ pc' = "build" /\ chunk' = 0
         \/ ~Forwarded /\ pc' = "forward" /\ chunk' = chunk
  BY DEF EndWrites
<1>2. /\ idx \in Nat /\ Len(clients) \in Nat /\ total \in Nat
      /\ client \in [Conns -> ClientFields]
  BY DEF IInv, TypeOK, LoopType, TableType, OutputType, ClientFields
<1>3. \A d : ~Ahead(d)
  <2>1. \A i \in idx .. Len(clients) : FALSE
    BY <1>1, <1>2
  <2> QED
    BY <2>1 DEF Ahead
<1>4. Forwarded
  BY <1>1, <1>3 DEF CInv, Everyone, Forwarded
<1>5. pc' = "build" /\ chunk' = 0
  BY <1>1, <1>4
<1>6. \A d \in Conns : client'[d] = IF d \in bad THEN NoClient ELSE client[d]
  BY <1>1 DEF CloseAndRemove, Closed
<1>7. ASSUME NEW d \in Conns
      PROVE  Level(d)'
  <2>1. Level(d)
    BY DEF CInv, AllLevel
  <2> QED
    BY <1>1, <1>2, <1>3, <1>5, <1>6, <2>1 DEF Level, NoClient
<1> QED
  BY <1>1, <1>5, <1>7 DEF Everyone, Gone

\* The steps of the daemon that send no output.
LEMMA LevelOthers ==
  ASSUME IInv, CInv, Quiet',
         \/ BuildFdSets \/ Select \/ AcceptClient \/ EndPackets \/ EvictAttached \/ EndDrain
         \/ EndOutput \/ Reap
         \/ HandlePacket /\ ~HandleAttach
  PROVE  (\A d \in Conns : Level(d)') /\ Everyone'
<1> DEFINE Loop == BuildFdSets \/ Select \/ AcceptClient \/ EndPackets \/ EvictAttached \/ EndDrain
                   \/ EndOutput \/ Reap
           Drop == ReadEof \/ HandleForceDetach \/ HandleInfo
           Keep == SkipClient \/ HandlePush \/ HandleWinch \/ HandleRedraw \/ HandleKill
<1>0. /\ chunk \in Nat /\ client \in [Conns -> ClientFields] /\ out \in [Conns -> 0 .. SockCap]
  BY DEF IInv, TypeOK, SendType, OutputType, TableType, StreamType, ClientFields
<1>1. /\ UNCHANGED <<next, stream, peer, total, chunk>>
      /\ pc \notin {"forward", "write"} /\ pc' \notin {"forward", "write"}
  <2>1. CASE Loop
    BY <2>1 DEF BuildFdSets, Select, AcceptClient, EndPackets, EvictAttached, EndDrain, EndOutput,
                Reap, Cleanup
  <2>2. CASE HandlePacket /\ ~HandleAttach
    BY <2>2 DEF HandlePacket, SkipClient, ReadEof, HandlePush, HandleDetach, HandleForceDetach,
                HandleInfo, HandleWinch, HandleRedraw, HandleKill, ReadPacket, Serving
  <2> QED
    BY <2>1, <2>2
<1>2. \A d \in Conns : client'[d] \in {client[d], NoClient,
                                       [client[d] EXCEPT !.attached = FALSE]}
  <2>1. CASE Loop
    BY <2>1 DEF BuildFdSets, Select, AcceptClient, EndPackets, EvictAttached, EndDrain, EndOutput,
                Reap, Cleanup, CloseAndRemove, Closed
  <2>2. CASE Drop
    BY <2>2 DEF ReadEof, HandleForceDetach, HandleInfo, DropClient, Closed
  <2>3. CASE Keep
    BY <2>3 DEF SkipClient, HandlePush, HandleWinch, HandleRedraw, HandleKill
  <2>4. CASE HandleDetach
    BY <1>0, <2>4 DEF HandleDetach
  <2> QED
    BY <2>1, <2>2, <2>3, <2>4 DEF HandlePacket
<1>3. \A d \in Conns : client'[d].attached => out'[d] = out[d]
  <2>1. CASE HandleInfo
    BY <1>0, <2>1 DEF HandleInfo, DropClient, Closed, NoClient
  <2>2. CASE ~HandleInfo
    BY <2>2 DEF BuildFdSets, Select, AcceptClient, EndPackets, EvictAttached, EndDrain, EndOutput,
                Reap, HandlePacket, SkipClient, ReadEof, HandlePush, HandleDetach,
                HandleForceDetach, HandleWinch, HandleRedraw, HandleKill
  <2> QED
    BY <2>1, <2>2
<1> QED
  BY <1>0, <1>1, <1>2, <1>3, LevelIdle

\* Every step keeps the connections level.
LEMMA LevelStep ==
  ASSUME Unsuspended, Ample, IInv, IInv', CInv, [Next]_vars
  PROVE  CInv'
<1>1. AllFresh' /\ Quiet' /\ Held'
  BY FreshStep, QuietStep, HeldStep DEF CInv
<1>2. AllLevel' /\ Everyone' /\ Gone'
  <2>1. CASE DaemonStep
    <3>1. \A d \in Conns : Empty(d)' /\ peer'[d] = peer[d]
      BY <2>1, EmptyDaemon
    <3>2. (\A d \in Conns : Level(d)') /\ Everyone'
      BY <1>1, <2>1, LevelOthers, LevelAttach, LevelDrain, LevelOutput, LevelSelect, LevelWrite,
         LevelEnd DEF DaemonStep
    <3>3. Gone'
      <4>1. CASE InnerSelect \/ WriteChunk \/ EndWrites
        BY <4>1, LevelSelect, LevelWrite, LevelEnd
      <4>2. CASE ~(InnerSelect \/ WriteChunk \/ EndWrites)
        <5>1. bad' = bad
          BY <2>1, <4>2 DEF DaemonStep, BuildFdSets, Select, AcceptClient, HandlePacket,
             SkipClient, ReadEof, HandlePush, HandleAttach, HandleDetach, HandleForceDetach,
             HandleInfo, HandleWinch, HandleRedraw, HandleKill, EndPackets, EvictAttached,
             DrainReplay, EndDrain, ReadOutput, EndOutput, Reap, Cleanup
        <5>2. bad \subseteq Conns
          BY DEF IInv, Condemned, FdTable, Open
        <5> QED
          BY <3>1, <5>1, <5>2 DEF CInv, Gone
      <4> QED
        BY <4>1, <4>2
    <3> QED
      BY <3>1, <3>2, <3>3 DEF AllLevel
  <2>2. CASE \E c \in Conns : ClientStep(c)
    BY <2>2, LevelClient
  <2>3. CASE ChildStep \/ UNCHANGED vars
    <3>1. UNCHANGED <<loopVs, clients, client, inq, chunk, written, bad, total, peer, next, stream,
                      out>>
      BY <2>3 DEF ChildStep, ChildWrite, ChildRead, ChildHangup, ChildExit, ChildHandles
    <3> QED
      BY <3>1 DEF CInv, AllLevel, Empty, Level, Everyone, Gone, AttachedOnes, Open, Ahead, NoAttach
  <2> QED
    BY <2>1, <2>2, <2>3 DEF Next, Ended
<1> QED
  BY <1>1, <1>2 DEF CInv

\* Nobody is connected at the start.
LEMMA LevelInit == Init => CInv
<1> SUFFICES ASSUME Init
             PROVE  CInv
  OBVIOUS
<1>1. AllFresh /\ Quiet /\ Held
  BY StreamInit DEF SInv
<1>2. AllLevel /\ Everyone /\ Gone
  BY DEF Init, AllLevel, Empty, Level, Everyone, Gone
<1> QED
  BY <1>1, <1>2 DEF CInv

\* Where the connections have room for all the output and nobody is suspended, every
\* attached client has been sent every byte in the log since the oldest in the ring when it
\* attached, in order and without a gap, whenever the daemon waits in select: an Attach is
\* answered with the history up to the byte after which the live output goes on, and
\* send_to_clients writes a chunk to all who are attached before it is given up.
THEOREM NobodyBehind ==
  ASSUME Unsuspended, Ample
  PROVE  Spec => []CaughtUp
<1>1. Init => CInv
  BY LevelInit
<1>2. IInv /\ IInv' /\ CInv /\ [Next]_vars => CInv'
  BY LevelStep
<1>3. IInv /\ CInv => CaughtUp
  <2> SUFFICES ASSUME IInv, CInv, pc \in {"build", "select"},
                      NEW c \in AttachedOnes, peer[c] # "none"
               PROVE  stream[c] = "whole" /\ next[c] = log.bytes + 1
    BY DEF CaughtUp
  <2>1. c \in Conns /\ client[c].attached
    BY DEF AttachedOnes, Open, IInv, FdTable
  <2>2. chunk = 0 /\ total \in Nat /\ log.bytes = total
    BY DEF CInv, Quiet, IInv, TypeOK, SendType, OutputType, Ending
  <2>3. Level(c)
    BY <2>1 DEF CInv, AllLevel
  <2> QED
    BY <2>1, <2>2, <2>3 DEF Level
<1> QED
  BY <1>1, <1>2, <1>3, Invariant, PTL DEF Spec
=============================================================================
