---------------------------- MODULE Session_proof ----------------------------
(***************************************************************************)
(* Proofs about Session: the table of descriptors, the pass over the       *)
(* clients, and the end of a session, for any number of connections and    *)
(* every capacity of the ring, the connections and the terminal.           *)
(***************************************************************************)
EXTENDS Session, Scrollback_proof, FiniteSetTheorems

(***************************************************************************)
(* Sequences of distinct descriptors                                       *)
(***************************************************************************)

\* Accepting, or connecting: a new descriptor at the end.
LEMMA AppendDistinct ==
  ASSUME NEW S, NEW s \in Seq(S), NEW x \in S
  PROVE  /\ Append(s, x) \in Seq(S)
         /\ Elements(Append(s, x)) = Elements(s) \union {x}
         /\ Distinct(s) /\ x \notin Elements(s) => Distinct(Append(s, x))
<1>1. /\ Len(s) \in Nat /\ Append(s, x) \in Seq(S)
      /\ Len(Append(s, x)) = Len(s) + 1
      /\ \A i \in 1 .. Len(s) : Append(s, x)[i] = s[i]
      /\ Append(s, x)[Len(s) + 1] = x
  BY AppendProperties
<1> DEFINE t == Append(s, x)
<1> HIDE DEF t
<1>2. /\ Len(s) \in Nat /\ Len(t) = Len(s) + 1
      /\ \A i \in 1 .. Len(s) : t[i] = s[i]
      /\ t[Len(s) + 1] = x
  BY <1>1 DEF t
<1>3. Elements(t) = Elements(s) \union {x}
  <2>1. \A i \in 1 .. Len(s) + 1 : i \in 1 .. Len(s) \/ i = Len(s) + 1
    BY <1>2
  <2>2. 1 .. Len(s) \subseteq 1 .. Len(t) /\ Len(s) + 1 \in 1 .. Len(t)
    BY <1>2
  <2> QED
    BY <1>2, <2>1, <2>2 DEF Elements
<1>4. ASSUME Distinct(s), x \notin Elements(s)
      PROVE  Distinct(t)
  <2>1. \A i \in 1 .. Len(s) : s[i] # x
    BY <1>4 DEF Elements
  <2> QED
    BY <1>2, <1>4, <2>1 DEF Distinct
<1> QED
  BY <1>1, <1>3, <1>4 DEF t

\* accept takes the connection that waited longest.
LEMMA TailDistinct ==
  ASSUME NEW S, NEW s \in Seq(S), s # << >>, Distinct(s)
  PROVE  /\ Head(s) \in Elements(s) /\ Head(s) \in S
         /\ Tail(s) \in Seq(S) /\ Distinct(Tail(s))
         /\ Elements(Tail(s)) = Elements(s) \ {Head(s)}
<1> DEFINE t == Tail(s)
           n == Len(s)
<1>1. n \in Nat /\ n > 0 /\ Head(s) = s[1] /\ Head(s) \in S
  BY EmptySeq, HeadTailProperties
<1>2. t \in Seq(S) /\ Len(t) = n - 1 /\ \A i \in 1 .. n - 1 : t[i] = s[i + 1]
  BY HeadTailProperties
<1> HIDE DEF t, n
<1>3. \A i \in 1 .. n : i = 1 \/ (i - 1 \in 1 .. n - 1 /\ (i - 1) + 1 = i)
  BY <1>1
<1>4. \A i \in 1 .. n - 1 : i + 1 \in 1 .. n /\ i + 1 # 1
  BY <1>1
<1>5. 1 \in 1 .. n
  BY <1>1
<1>6. \A i, j \in 1 .. n : s[i] = s[j] => i = j
  BY DEF Distinct, n
<1>7. Distinct(t)
  BY <1>1, <1>2, <1>4, <1>6 DEF Distinct
<1>8. Elements(s) = {s[i] : i \in 1 .. n}
  BY DEF Elements, n
<1>9. Elements(t) = Elements(s) \ {s[1]}
  <2>1. Elements(t) = {t[i] : i \in 1 .. n - 1}
    BY <1>2 DEF Elements
  <2>2. ASSUME NEW i \in 1 .. n - 1
        PROVE  t[i] \in Elements(s) \ {s[1]}
    BY <1>2, <1>4, <1>5, <1>6, <1>8
  <2>3. ASSUME NEW y \in Elements(s) \ {s[1]}
        PROVE  y \in Elements(t)
    <3>1. PICK i \in 1 .. n : y = s[i]
      BY <1>8
    <3>2. i - 1 \in 1 .. n - 1 /\ t[i - 1] = s[i]
      BY <1>2, <1>3, <2>3, <3>1
    <3> QED
      BY <2>1, <3>1, <3>2
  <2> QED
    BY <2>1, <2>2, <2>3
<1> QED
  BY <1>1, <1>2, <1>5, <1>7, <1>8, <1>9 DEF t

\* swap_remove takes one element out and keeps the others, each once.
LEMMA SwapRemoveDistinct ==
  ASSUME NEW S, NEW s \in Seq(S), Distinct(s), NEW i \in 1 .. Len(s)
  PROVE  /\ SwapRemove(s, i) \in Seq(S) /\ Len(SwapRemove(s, i)) = Len(s) - 1
         /\ \A k \in 1 .. Len(s) - 1 :
               SwapRemove(s, i)[k] = IF k = i THEN s[Len(s)] ELSE s[k]
         /\ Distinct(SwapRemove(s, i))
         /\ Elements(SwapRemove(s, i)) = Elements(s) \ {s[i]}
<1> DEFINE n == Len(s)
           t == SwapRemove(s, i)
<1>1. n \in Nat /\ n > 0 /\ i \in 1 .. n /\ \A k \in 1 .. n : s[k] \in S
  BY ElementOfSeq
<1>2. t = [k \in 1 .. n - 1 |-> IF k = i THEN s[n] ELSE s[k]]
  BY DEF SwapRemove
<1>3. \A j, k \in 1 .. n : s[j] = s[k] => j = k
  BY DEF Distinct
<1>4. Elements(s) = {s[k] : k \in 1 .. n}
  BY DEF Elements
<1> HIDE DEF n, t
<1>5. /\ t \in Seq(S) /\ Len(t) = n - 1
      /\ \A k \in 1 .. n - 1 : t[k] = IF k = i THEN s[n] ELSE s[k]
  BY <1>1, <1>2
<1>6. Distinct(t)
  <2> SUFFICES ASSUME NEW j \in 1 .. n - 1, NEW k \in 1 .. n - 1, t[j] = t[k]
               PROVE  j = k
    BY <1>5 DEF Distinct
  <2>1. j \in 1 .. n /\ k \in 1 .. n /\ n \in 1 .. n /\ j # n /\ k # n
    BY <1>1
  <2> QED
    BY <1>3, <1>5, <2>1
<1>7. Elements(t) = Elements(s) \ {s[i]}
  <2>1. Elements(t) = {t[k] : k \in 1 .. n - 1}
    BY <1>5 DEF Elements
  <2>2. ASSUME NEW k \in 1 .. n - 1
        PROVE  t[k] \in Elements(s) \ {s[i]}
    <3>1. k \in 1 .. n /\ n \in 1 .. n /\ (k = i => n # i)
      BY <1>1
    <3> QED
      BY <1>1, <1>3, <1>4, <1>5, <3>1
  <2>3. ASSUME NEW k \in 1 .. n, s[k] # s[i]
        PROVE  s[k] \in Elements(t)
    <3>1. CASE k < n
      <4>1. k \in 1 .. n - 1 /\ k # i
        BY <1>1, <2>3, <3>1
      <4> QED
        BY <1>5, <2>1, <4>1
    <3>2. CASE k = n
      <4>1. i \in 1 .. n - 1
        BY <1>1, <2>3, <3>2
      <4> QED
        BY <1>5, <2>1, <3>2, <4>1
    <3> QED
      BY <1>1, <3>1, <3>2
  <2> QED
    BY <1>4, <2>1, <2>2, <2>3
<1> QED
  BY <1>5, <1>6, <1>7 DEF n, t

\* retain keeps the chosen elements, each once.
LEMMA RetainDistinct ==
  ASSUME NEW keep, clients \in Seq(Conns), Distinct(clients), Retain(keep)
  PROVE  /\ clients' \in Seq(Conns) /\ Distinct(clients')
         /\ Elements(clients') = Elements(clients) \intersect keep
<1> DEFINE m == Len(clients)
           Kept == {i \in 1 .. m : clients[i] \in keep}
<1>0. PICK n \in 0 .. m : \E f \in [1 .. n -> Kept] :
         /\ \A i, j \in 1 .. n : i < j => f[i] < f[j]
         /\ Kept = {f[i] : i \in 1 .. n}
         /\ clients' = [i \in 1 .. n |-> clients[f[i]]]
  BY DEF Retain
<1>1. PICK f \in [1 .. n -> Kept] :
         /\ \A i, j \in 1 .. n : i < j => f[i] < f[j]
         /\ Kept = {f[i] : i \in 1 .. n}
         /\ clients' = [i \in 1 .. n |-> clients[f[i]]]
  BY <1>0
<1>2. m \in Nat /\ n \in Nat /\ \A k \in 1 .. m : clients[k] \in Conns
  BY <1>1, ElementOfSeq
<1>3. \A i \in 1 .. n : f[i] \in 1 .. m /\ clients[f[i]] \in keep
  BY <1>1
<1>4. \A j, k \in 1 .. m : clients[j] = clients[k] => j = k
  BY DEF Distinct
<1>5. Elements(clients) = {clients[k] : k \in 1 .. m}
  BY DEF Elements
<1>6. \A k \in 1 .. m : clients[k] \in keep => \E i \in 1 .. n : f[i] = k
  BY <1>1
<1> HIDE DEF m, Kept
<1>7. /\ clients' \in Seq(Conns) /\ Len(clients') = n
      /\ \A i \in 1 .. n : clients'[i] = clients[f[i]]
  <2>1. clients' = [i \in 1 .. n |-> clients[f[i]]]
    BY <1>1
  <2>2. \A i \in 1 .. n : clients[f[i]] \in Conns
    BY <1>2, <1>3
  <2> QED
    BY <1>2, <2>1, <2>2
<1>8. Distinct(clients')
  <2> SUFFICES ASSUME NEW i \in 1 .. n, NEW j \in 1 .. n, clients'[i] = clients'[j]
               PROVE  i = j
    BY <1>7 DEF Distinct
  <2>1. f[i] = f[j] /\ f[i] \in Int
    BY <1>2, <1>3, <1>4, <1>7
  <2>2. (i < j => f[i] < f[j]) /\ (j < i => f[j] < f[i])
    BY <1>1, Zenon
  <2>3. ~(i < j) /\ ~(j < i)
    BY <2>1, <2>2
  <2> QED
    BY <1>2, <2>3
<1>9. Elements(clients') = {clients'[i] : i \in 1 .. n}
  BY <1>7 DEF Elements
<1>10. Elements(clients') = Elements(clients) \intersect keep
  BY <1>3, <1>5, <1>6, <1>7, <1>9
<1> QED
  BY <1>7, <1>8, <1>10

(***************************************************************************)
(* The inductive invariant                                                 *)
(***************************************************************************)

\* Client c is still to be met by the loop over the clients.
Ahead(c) == \E i \in idx .. Len(clients) : clients[i] = c

\* A pass has met exactly the readable clients that are not ahead any more, each
\* once; accept is only called for a connection that is there.
Pass ==
    /\ pc = "accept" => /\ ready.listener => backlog # << >>
                        /\ ready.rd \subseteq Open
    /\ pc \notin {"packets", "evict"} => served = << >>
    /\ pc \in {"packets", "evict"} => Distinct(served)
    /\ pc = "packets" => /\ Elements(served) \subseteq ready.rd
                         /\ \A c \in ready.rd : c \in Elements(served) <=> ~Ahead(c)
    /\ pc = "evict" => Elements(served) = ready.rd

\* Only open clients are condemned, and only in send_to_clients.
Condemned == /\ bad \subseteq Open
             /\ pc # "write" => bad = {}

\* The way to the end: the daemon reaps a child that has closed the terminal and
\* whose output is read, and the log always has all that was read.
Ending == /\ pc = "reap" => avail = 0 /\ child # "running"
          /\ pc = "exited" => avail = 0 /\ child = "exited" /\ ~sockFile
          /\ log.bytes = total /\ (log.ended <=> pc = "exited")

\* The ring holds the last bytes of the output, as many as fit.
Recent == ring.len = Smaller(total, Size)

IInv == TypeOK /\ FdTable /\ Pass /\ Condemned /\ Ending /\ Recent

USE SizeAssumption, CapAssumption, PositionAssumption, QueueCapAssumption,
    TrafficAssumption
USE DEF vars, loopVars, sendVars, fileVars, connVars, childVars, ghosts, DaemonState,
        DaemonVars, HandlerFrame

LEMMA InitIInv == Init => IInv
<1> SUFFICES ASSUME Init
             PROVE  IInv
  OBVIOUS
<1>1. << >> \in Seq(Conns) /\ << >> \in Seq(ClientPackets) /\ Len(<< >>) = 0
  BY EmptySeq
<1>2. Distinct(<< >>) /\ Elements(<< >>) = {}
  BY <1>1 DEF Distinct, Elements
<1>3. NewRing \in Ring
  BY NewRingEmpty
<1>4. LoopType /\ SendType
  <2>1. /\ pc = "build" /\ idx = 1 /\ ready = NoneReady /\ served = << >>
        /\ evict = FALSE /\ chunk = 0 /\ written = FALSE /\ bad = {} /\ total = 0
    BY DEF Init
  <2>2. LoopType
    BY <1>1, <2>1 DEF LoopType, NoneReady
  <2>3. 0 \in 0 .. 0
    OBVIOUS
  <2> QED
    BY <2>1, <2>2, <2>3, Zenon DEF SendType
<1>5. TableType
  <2>1. NoClient \in [attached : BOOLEAN, head : Index, remaining : 0 .. Size]
    BY DEF NoClient, Index
  <2>2. clients = << >> /\ backlog = << >> /\ client = [c \in Conns |-> NoClient]
        /\ fd = [c \in Conns |-> "none"] /\ inq = [c \in Conns |-> << >>]
    BY DEF Init
  <2> QED
    BY <1>1, <2>1, <2>2 DEF TableType
<1>6. StreamType
  <2>1. /\ out = [c \in Conns |-> 0] /\ next = [c \in Conns |-> 1]
        /\ stream = [c \in Conns |-> "whole"]
    BY DEF Init
  <2> QED
    BY <2>1 DEF StreamType, Verdicts
<1>7. FileType /\ OutputType
  <2>1. avail = 0 /\ total = 0 /\ ring = NewRing
    BY DEF Init
  <2>2. OutputType
    BY <1>3, <2>1 DEF OutputType
  <2> QED
    BY <2>2 DEF Init, FileType
<1>8. OutsideType
  BY DEF Init, OutsideType
<1>9. FdTable
  BY <1>2 DEF Init, FdTable, Open
<1>10. Pass /\ Condemned /\ Ending
  BY DEF Init, Pass, Condemned, Ending, Open
<1>11. Recent
  BY DEF Init, Recent, NewRing, Smaller
<1> QED
  BY <1>4, <1>5, <1>6, <1>7, <1>8, <1>9, <1>10, <1>11 DEF IInv, TypeOK

\* The variables each part of the invariant speaks of.
loopVs == <<pc, idx, ready, served>>
tableVs == <<clients, client, fd, backlog, inq>>
streamVs == <<out, next, stream>>
sendVs == <<evict, chunk, written, bad>>
outputVs == <<ring, avail, total>>
outsideVs == <<peer, child, ptyIn, sigs>>
USE DEF loopVs, tableVs, streamVs, sendVs, outputVs, outsideVs

\* A part is kept by a step that changes none of its variables.
LEMMA Kept ==
  ASSUME IInv
  PROVE  /\ UNCHANGED loopVs => LoopType'
         /\ UNCHANGED tableVs => TableType' /\ FdTable'
         /\ UNCHANGED streamVs => StreamType'
         /\ UNCHANGED <<sendVs, total>> => SendType'
         /\ UNCHANGED fileVars => FileType'
         /\ UNCHANGED outputVs => OutputType' /\ Recent'
         /\ UNCHANGED outsideVs => OutsideType'
         /\ UNCHANGED <<loopVs, clients, backlog>> => Pass'
         /\ UNCHANGED <<pc, clients, bad>> => Condemned'
         /\ UNCHANGED <<pc, avail, child, sockFile, log, total>> => Ending'
<1> USE DEF IInv, TypeOK
<1>1. UNCHANGED loopVs => LoopType'
  BY DEF LoopType
<1>2. UNCHANGED tableVs => TableType'
  BY DEF TableType
<1>3. UNCHANGED tableVs => FdTable'
  BY DEF FdTable, Open
<1>4. UNCHANGED streamVs => StreamType'
  BY DEF StreamType
<1>5. UNCHANGED <<sendVs, total>> => SendType'
  BY DEF SendType
<1>6. UNCHANGED fileVars => FileType'
  BY DEF FileType
<1>7. UNCHANGED outputVs => OutputType' /\ Recent'
  BY DEF OutputType, Recent
<1>8. UNCHANGED outsideVs => OutsideType'
  BY DEF OutsideType
<1>9. UNCHANGED <<loopVs, clients, backlog>> => Pass'
  BY DEF Pass, Open, Ahead
<1>10. UNCHANGED <<pc, clients, bad>> => Condemned'
  BY DEF Condemned, Open
<1>11. UNCHANGED <<pc, avail, child, sockFile, log, total>> => Ending'
  BY DEF Ending
<1> QED
  BY <1>1, <1>2, <1>3, <1>4, <1>5, <1>6, <1>7, <1>8, <1>9, <1>10, <1>11

(***************************************************************************)
(* The steps of the loop                                                   *)
(***************************************************************************)

\* Closing clients and taking them out of the vector keeps the two in agreement.
LEMMA CloseAndRemoveTable ==
  ASSUME IInv, NEW gone, gone \subseteq Open, CloseAndRemove(gone), UNCHANGED backlog
  PROVE  TableType' /\ FdTable' /\ Open' = Open \ gone
<1> USE DEF IInv, TypeOK
<1>1. clients \in Seq(Conns) /\ Distinct(clients) /\ Open \subseteq Conns
  BY ElementOfSeq DEF TableType, FdTable, Open, Elements
<1>2. Retain(Open \ gone)
  BY DEF CloseAndRemove
<1> DEFINE keep == Open \ gone
<1> HIDE DEF keep
<1>3. Retain(keep)
  BY <1>2 DEF keep
<1>4. /\ clients' \in Seq(Conns) /\ Distinct(clients')
      /\ Elements(clients') = Elements(clients) \intersect keep
  BY <1>1, <1>3, RetainDistinct
<1>5. Open' = Open \ gone
  BY <1>4 DEF Open, keep
<1>6. /\ fd' = [c \in Conns |-> IF c \in gone THEN "none" ELSE fd[c]]
      /\ inq' = [c \in Conns |-> IF c \in gone THEN << >> ELSE inq[c]]
      /\ client' = [c \in Conns |-> IF c \in gone THEN NoClient ELSE client[c]]
  BY DEF CloseAndRemove, Closed
<1>7. TableType'
  <2>1. << >> \in Seq(ClientPackets)
    BY EmptySeq
  <2>2. NoClient \in [attached : BOOLEAN, head : Index, remaining : 0 .. Size]
    BY DEF NoClient, Index
  <2> QED
    BY <1>4, <1>6, <2>1, <2>2 DEF TableType
<1>8. FdTable'
  BY <1>1, <1>4, <1>5, <1>6 DEF FdTable, TableType
<1> QED
  BY <1>5, <1>7, <1>8

LEMMA LoopSteps ==
  ASSUME IInv,
         BuildFdSets \/ Select \/ AcceptClient \/ EndPackets \/ EvictAttached \/ EndDrain
           \/ EndOutput \/ Reap \/ InnerSelect \/ EndWrites
  PROVE  IInv'
<1> USE DEF IInv, TypeOK
<1>1. CASE BuildFdSets
  <2>1. UNCHANGED <<tableVs, streamVs, sendVs, outputVs, outsideVs>>
        /\ UNCHANGED <<idx, ready, served, sockFile, log>>
        /\ pc = "build" /\ pc' = "select" /\ execBit' \in BOOLEAN
    BY <1>1 DEF BuildFdSets
  <2>2. LoopType' /\ FileType'
    BY <2>1 DEF LoopType, FileType
  <2>3. Pass' /\ Condemned' /\ Ending'
    BY <2>1 DEF Pass, Condemned, Ending, Open
  <2> QED
    BY <2>1, <2>2, <2>3, Kept
<1>2. CASE Select
  <2>1. ~BadFd
    BY DEF BadFd, FdTable
  <2>2. UNCHANGED <<tableVs, streamVs, sendVs, fileVars, outputVs, outsideVs>>
        /\ UNCHANGED <<idx, served>>
        /\ pc = "select" /\ pc' = "accept" /\ ready' = Ready
    BY <1>2, <2>1 DEF Select
  <2>3. Open \subseteq Conns
    BY ElementOfSeq DEF Open, Elements, TableType
  <2>4. LoopType'
    <3>1. Ready \in [listener : BOOLEAN, pty : BOOLEAN, rd : SUBSET Conns, wr : SUBSET Conns]
      BY <2>3, Zenon DEF Ready, PtyReadable
    <3> QED
      BY <2>2, <3>1 DEF LoopType
  <2>5. Pass'
    BY <2>2 DEF Pass, Ready, Open
  <2>6. Condemned' /\ Ending'
    BY <2>2 DEF Condemned, Ending, Open
  <2> QED
    BY <2>2, <2>4, <2>5, <2>6, Kept
<1>3. CASE AcceptClient
  <2>1. UNCHANGED <<client, streamVs, sendVs, fileVars, outputVs, outsideVs>>
        /\ UNCHANGED <<ready, served>>
        /\ pc = "accept" /\ pc' = "packets" /\ idx' = 1
    BY <1>3 DEF AcceptClient
  <2>2. LoopType'
    BY <2>1 DEF LoopType
  <2>3. Ending'
    BY <2>1 DEF Ending
  <2>4. ASSUME Open \subseteq Open', clients' \in Seq(Conns)
        PROVE  Pass' /\ Condemned'
    <3>1. Len(clients') \in Nat /\ Elements(<< >>) = {} /\ Distinct(<< >>)
      BY <2>4 DEF Elements, Distinct
    <3>2. \A c \in Open' : Ahead(c)'
      BY <2>1, <3>1 DEF Open, Elements, Ahead
    <3> QED
      BY <2>1, <2>4, <3>1, <3>2 DEF Pass, Condemned
  <2>5. CASE ~(ready.listener /\ Cardinality(Open) < MaxFds)
    <3>1. UNCHANGED tableVs
      BY <1>3, <2>1, <2>5 DEF AcceptClient
    <3>2. Pass' /\ Condemned'
      BY <2>4, <3>1 DEF Open, TableType
    <3> QED
      BY <2>1, <2>2, <2>3, <3>1, <3>2, Kept
  <2>6. CASE ready.listener /\ Cardinality(Open) < MaxFds
    <3> DEFINE new == Head(backlog)
    <3>1. backlog \in Seq(Conns) /\ backlog # << >> /\ Distinct(backlog)
      BY <2>1, <2>6 DEF Pass, TableType, FdTable
    <3>2. /\ new \in Elements(backlog) /\ new \in Conns
          /\ Tail(backlog) \in Seq(Conns) /\ Distinct(Tail(backlog))
          /\ Elements(Tail(backlog)) = Elements(backlog) \ {new}
      BY <3>1, TailDistinct, Zenon
    <3>3. /\ backlog' = Tail(backlog)
          /\ \/ /\ fd' = [fd EXCEPT ![new] = "open"]
                /\ clients' = Append(clients, new)
                /\ inq' = inq
             \/ /\ fd' = [fd EXCEPT ![new] = "none"]
                /\ inq' = [inq EXCEPT ![new] = << >>]
                /\ clients' = clients
      BY <1>3, <2>6 DEF AcceptClient
    <3> HIDE DEF new
    <3>4. clients \in Seq(Conns) /\ Distinct(clients) /\ fd[new] = "backlog"
          /\ new \notin Open
      BY <3>2 DEF TableType, FdTable
    <3>5. /\ Append(clients, new) \in Seq(Conns) /\ Distinct(Append(clients, new))
          /\ Elements(Append(clients, new)) = Open \union {new}
      BY <3>2, <3>4, AppendDistinct DEF Open
    <3>6. clients' \in Seq(Conns) /\ Distinct(clients') /\ Open \subseteq Open'
      BY <3>3, <3>4, <3>5 DEF Open
    <3>7. TableType'
      <4>1. << >> \in Seq(ClientPackets)
        BY EmptySeq
      <4>2. fd' \in [Conns -> {"none", "backlog", "open"}]
        BY <3>3 DEF TableType
      <4>3. inq' \in [Conns -> Seq(ClientPackets)]
        BY <3>3, <4>1 DEF TableType
      <4>4. backlog' \in Seq(Conns)
        BY <3>2, <3>3
      <4> QED
        BY <2>1, <3>6, <4>2, <4>3, <4>4 DEF TableType
    <3>8. FdTable'
      <4>1. Open' = {c \in Conns : fd'[c] = "open"}
        <5>1. Open = {c \in Conns : fd[c] = "open"} /\ fd \in [Conns -> {"none", "backlog", "open"}]
          BY DEF FdTable, TableType
        <5>2. CASE clients' = Append(clients, new) /\ fd' = [fd EXCEPT ![new] = "open"]
          <6>1. Open' = Open \union {new}
            BY <3>5, <5>2 DEF Open
          <6> QED
            BY <3>2, <5>1, <5>2, <6>1
        <5>3. CASE clients' = clients /\ fd' = [fd EXCEPT ![new] = "none"]
          <6>1. Open' = Open
            BY <5>3 DEF Open
          <6> QED
            BY <3>2, <3>4, <5>1, <5>3, <6>1
        <5> QED
          BY <3>3, <5>2, <5>3
      <4>2. Elements(backlog') = {c \in Conns : fd'[c] = "backlog"}
        BY <3>2, <3>3 DEF FdTable, TableType
      <4>3. /\ \A c \in Conns : fd'[c] # "open" => client'[c] = NoClient
            /\ \A c \in Conns : fd'[c] = "none" => inq'[c] = << >>
        BY <2>1, <3>2, <3>3, <3>4 DEF FdTable, TableType
      <4> QED
        BY <3>2, <3>3, <3>6, <4>1, <4>2, <4>3 DEF FdTable
    <3> QED
      BY <2>1, <2>2, <2>3, <2>4, <3>6, <3>7, <3>8, Kept
  <2> QED
    BY <2>5, <2>6
<1>4. CASE EndPackets
  <2>1. UNCHANGED <<tableVs, streamVs, sendVs, fileVars, outputVs, outsideVs>>
        /\ UNCHANGED <<idx, ready, served>>
        /\ pc = "packets" /\ pc' = "evict" /\ idx > Len(clients)
    BY <1>4 DEF EndPackets
  <2>2. LoopType'
    BY <2>1 DEF LoopType
  <2>3. \A c : ~Ahead(c)
    <3>1. Len(clients) \in Nat /\ idx \in Nat
      BY DEF TableType, LoopType
    <3> QED
      BY <2>1, <3>1 DEF Ahead
  <2>4. Pass'
    BY <2>1, <2>3 DEF Pass, LoopType
  <2>5. Condemned' /\ Ending'
    BY <2>1 DEF Condemned, Ending, Open
  <2> QED
    BY <2>1, <2>2, <2>4, <2>5, Kept
<1>5. CASE EvictAttached
  <2>1. UNCHANGED <<streamVs, chunk, written, bad, fileVars, outputVs, outsideVs>>
        /\ UNCHANGED <<ready, backlog>>
        /\ pc = "evict" /\ pc' = "drain" /\ idx' = 1 /\ served' = << >> /\ evict' = FALSE
    BY <1>5 DEF EvictAttached
  <2>2. LoopType'
    BY <2>1, EmptySeq DEF LoopType
  <2>3. SendType'
    BY <2>1 DEF SendType
  <2>4. Pass' /\ Condemned' /\ Ending'
    BY <2>1 DEF Pass, Condemned, Ending
  <2>5. TableType' /\ FdTable'
    <3>1. CASE evict
      <4>1. CloseAndRemove(AttachedOnes)
        BY <1>5, <3>1 DEF EvictAttached
      <4>2. AttachedOnes \subseteq Open
        BY DEF AttachedOnes
      <4> QED
        BY <2>1, <4>1, <4>2, CloseAndRemoveTable
    <3>2. CASE ~evict
      BY <1>5, <2>1, <3>2, Kept DEF EvictAttached
    <3> QED
      BY <3>1, <3>2
  <2> QED
    BY <2>1, <2>2, <2>3, <2>4, <2>5, Kept
<1>6. CASE EndDrain
  <2>1. UNCHANGED <<tableVs, streamVs, sendVs, fileVars, outputVs, outsideVs>>
        /\ UNCHANGED <<ready, served>>
        /\ pc = "drain" /\ pc' = "pty" /\ idx' = 1
    BY <1>6 DEF EndDrain
  <2>2. LoopType'
    BY <2>1 DEF LoopType
  <2>3. Pass' /\ Condemned' /\ Ending'
    BY <2>1 DEF Pass, Condemned, Ending, Open
  <2> QED
    BY <2>1, <2>2, <2>3, Kept
<1>7. CASE EndOutput
  <2>1. UNCHANGED <<tableVs, streamVs, sendVs, fileVars, outputVs, outsideVs>>
        /\ UNCHANGED <<idx, ready, served>>
        /\ pc = "pty" /\ ((pc' = "reap" /\ ready.pty /\ child # "running") \/ pc' = "build")
        /\ ~(ready.pty /\ avail > 0)
    BY <1>7 DEF EndOutput, NoOutput
  <2>2. LoopType'
    BY <2>1 DEF LoopType
  <2>3. Pass' /\ Condemned'
    BY <2>1 DEF Pass, Condemned, Open
  <2>4. Ending'
    <3>1. ready.pty => avail = 0
      BY <2>1 DEF OutputType
    <3> QED
      BY <2>1, <3>1 DEF Ending
  <2> QED
    BY <2>1, <2>2, <2>3, <2>4, Kept
<1>8. CASE Reap
  <2>1. UNCHANGED <<streamVs, sendVs, outputVs, outsideVs>>
        /\ pc = "reap" /\ child = "exited"
    BY <1>8 DEF Reap
  <2>2. /\ pc' = "exited" /\ idx' = 1 /\ ready' = NoneReady /\ served' = << >>
        /\ log' = [log EXCEPT !.ended = TRUE] /\ sockFile' = FALSE /\ execBit' = FALSE
        /\ fd' = [c \in Conns |-> "none"] /\ backlog' = << >> /\ clients' = << >>
        /\ client' = [c \in Conns |-> NoClient] /\ inq' = [c \in Conns |-> << >>]
    BY <1>8 DEF Reap, Cleanup
  <2>3. << >> \in Seq(Conns) /\ << >> \in Seq(ClientPackets) /\ Len(<< >>) = 0
    BY EmptySeq
  <2>4. LoopType'
    BY <2>2, <2>3 DEF LoopType, NoneReady
  <2>5. TableType'
    <3>1. NoClient \in [attached : BOOLEAN, head : Index, remaining : 0 .. Size]
      BY DEF NoClient, Index
    <3> QED
      BY <2>2, <2>3, <3>1 DEF TableType
  <2>6. FdTable'
    <3>1. Distinct(<< >>) /\ Elements(<< >>) = {}
      BY <2>3 DEF Distinct, Elements
    <3> QED
      BY <2>2, <3>1 DEF FdTable, Open
  <2>7. FileType'
    BY <2>2 DEF FileType
  <2>8. Pass' /\ Condemned' /\ Ending'
    <3>1. bad' = {}
      BY <2>1 DEF Condemned
    <3>2. log'.bytes = log.bytes /\ log'.ended = TRUE
      BY <2>2 DEF FileType
    <3> QED
      BY <2>1, <2>2, <3>1, <3>2 DEF Pass, Condemned, Ending
  <2> QED
    BY <2>1, <2>4, <2>5, <2>6, <2>7, <2>8, Kept
<1>9. CASE InnerSelect
  <2>1. UNCHANGED <<tableVs, streamVs, evict, chunk, fileVars, outputVs, outsideVs>>
        /\ UNCHANGED served
        /\ pc = "forward" /\ pc' = "write" /\ idx' = 1 /\ ready' = InnerReady
        /\ written' = FALSE /\ bad' = {}
    BY <1>9 DEF InnerSelect
  <2>2. LoopType'
    <3>1. Open \subseteq Conns
      BY ElementOfSeq DEF Open, Elements, TableType
    <3> DEFINE room == {c \in AttachedOnes : Writable(c)}
               waiting == backlog # << >>
    <3>2. room \subseteq Conns /\ waiting \in BOOLEAN
      BY <3>1, Zenon DEF AttachedOnes
    <3>3. InnerReady = [NoneReady EXCEPT !.listener = waiting, !.wr = room]
      BY DEF InnerReady
    <3> HIDE DEF room, waiting
    <3>4. InnerReady \in [listener : BOOLEAN, pty : BOOLEAN, rd : SUBSET Conns,
                          wr : SUBSET Conns]
      BY <3>2, <3>3 DEF NoneReady
    <3> QED
      BY <2>1, <3>4 DEF LoopType
  <2>3. SendType'
    BY <2>1 DEF SendType
  <2>4. Pass' /\ Condemned' /\ Ending'
    BY <2>1 DEF Pass, Condemned, Ending
  <2> QED
    BY <2>1, <2>2, <2>3, <2>4, Kept
<1>10. CASE EndWrites
  <2>1. UNCHANGED <<streamVs, evict, fileVars, outputVs, outsideVs>>
        /\ UNCHANGED <<served, backlog>>
        /\ pc = "write" /\ pc' \in {"build", "forward"} /\ idx' = 1 /\ ready' = NoneReady
        /\ written' = FALSE /\ bad' = {} /\ chunk' \in {0, chunk}
        /\ CloseAndRemove(bad)
    BY <1>10 DEF EndWrites
  <2>2. LoopType'
    BY <2>1 DEF LoopType, NoneReady
  <2>3. SendType'
    <3>1. chunk' \in 0 .. total'
      BY <2>1 DEF SendType, OutputType
    <3> QED
      BY <2>1, <3>1 DEF SendType
  <2>4. TableType' /\ FdTable'
    BY <2>1, CloseAndRemoveTable DEF Condemned
  <2>5. Pass' /\ Condemned' /\ Ending'
    BY <2>1 DEF Pass, Condemned, Ending
  <2> QED
    BY <2>1, <2>2, <2>3, <2>4, <2>5, Kept
<1> QED
  BY <1>1, <1>2, <1>3, <1>4, <1>5, <1>6, <1>7, <1>8, <1>9, <1>10

(***************************************************************************)
(* The packets of one pass                                                 *)
(***************************************************************************)

\* Which clients are ahead of the next position.
LEMMA AheadNext ==
  ASSUME IInv, idx <= Len(clients)
  PROVE  /\ Len(clients) \in Nat /\ idx \in Nat /\ 1 <= idx /\ idx <= Len(clients)
         /\ Current \in Conns /\ Current \in Open /\ Ahead(Current)
         /\ \A c : (\E i \in idx + 1 .. Len(clients) : clients[i] = c)
                     <=> Ahead(c) /\ c # Current
<1> USE DEF IInv, TypeOK
<1>1. Len(clients) \in Nat /\ idx \in Nat /\ 1 <= idx /\ idx <= Len(clients)
  BY DEF TableType, LoopType
<1>2. idx \in 1 .. Len(clients) /\ idx \in idx .. Len(clients)
  BY <1>1
<1>3. Current \in Conns /\ Current \in Open /\ Ahead(Current)
  BY <1>2, ElementOfSeq DEF Current, TableType, Open, Elements, Ahead
<1>4. \A i \in idx .. Len(clients) :
         i \in 1 .. Len(clients) /\ (i = idx \/ i \in idx + 1 .. Len(clients))
  BY <1>1
<1>5. \A i \in idx + 1 .. Len(clients) : i \in idx .. Len(clients) /\ i # idx
  BY <1>1
<1>6. \A i, j \in 1 .. Len(clients) : clients[i] = clients[j] => i = j
  BY DEF FdTable, Distinct
<1>7. ASSUME NEW c
      PROVE  (\E i \in idx + 1 .. Len(clients) : clients[i] = c) <=> Ahead(c) /\ c # Current
  BY <1>2, <1>4, <1>5, <1>6 DEF Ahead, Current
<1> QED
  BY <1>1, <1>3, <1>7

\* The client of the loop was read from; those ahead are the same but for it.
LEMMA PassRead ==
  ASSUME IInv, Serving, Current \in ready.rd,
         served' = Append(served, Current), UNCHANGED <<pc, ready>>,
         idx' \in Nat \ {0},
         \A c : Ahead(c)' <=> Ahead(c) /\ c # Current
  PROVE  LoopType' /\ Pass'
<1> USE DEF IInv, TypeOK
<1>1. pc = "packets"
  BY DEF Serving
<1>2. /\ served \in Seq(Conns) /\ Distinct(served) /\ Elements(served) \subseteq ready.rd
      /\ \A c \in ready.rd : c \in Elements(served) <=> ~Ahead(c)
  BY <1>1 DEF Pass, LoopType
<1>3. Current \in Conns /\ Current \notin Elements(served)
  BY <1>2, AheadNext DEF Serving
<1> DEFINE cur == Current
<1> HIDE DEF cur
<1>4. /\ Append(served, cur) \in Seq(Conns) /\ Distinct(Append(served, cur))
      /\ Elements(Append(served, cur)) = Elements(served) \union {cur}
  BY <1>2, <1>3, AppendDistinct DEF cur
<1>5. LoopType'
  BY <1>4 DEF LoopType, cur
<1>6. Pass'
  BY <1>1, <1>2, <1>4 DEF Pass, cur
<1> QED
  BY <1>5, <1>6

\* The handlers that keep the client.
LEMMA PassOn ==
  ASSUME IInv, Serving, Current \in ready.rd, inq[Current] # << >>,
         served' = Append(served, Current), NextClient,
         UNCHANGED <<pc, ready, bad, backlog>>,
         NEW x \in [attached : BOOLEAN, head : Index, remaining : 0 .. Size],
         client' \in {client, [client EXCEPT ![Current] = x]}
  PROVE  LoopType' /\ Pass' /\ Condemned' /\ TableType' /\ FdTable'
<1> USE DEF IInv, TypeOK
<1>1. /\ Len(clients) \in Nat /\ idx \in Nat /\ Current \in Conns /\ Current \in Open
      /\ \A c : (\E i \in idx + 1 .. Len(clients) : clients[i] = c)
                  <=> Ahead(c) /\ c # Current
  BY AheadNext DEF Serving
<1>2. idx' = idx + 1 /\ UNCHANGED <<clients, fd>>
      /\ inq' = [inq EXCEPT ![Current] = Tail(inq[Current])]
  BY DEF NextClient
<1>3. \A c : Ahead(c)' <=> Ahead(c) /\ c # Current
  BY <1>1, <1>2 DEF Ahead
<1>4. LoopType' /\ Pass'
  BY <1>1, <1>2, <1>3, PassRead
<1>5. Condemned'
  BY <1>2 DEF Condemned, Open
<1> DEFINE cur == Current
<1>6. cur \in Conns /\ fd[cur] = "open" /\ Open' = Open
  BY <1>1, <1>2 DEF FdTable, Open
<1>7. Tail(inq[cur]) \in Seq(ClientPackets)
  BY <1>6, HeadTailProperties DEF TableType
<1>8. /\ inq' = [inq EXCEPT ![cur] = Tail(inq[cur])]
      /\ client' \in {client, [client EXCEPT ![cur] = x]}
  BY <1>2
<1> HIDE DEF cur
<1>9. TableType'
  <2>1. client' \in [Conns -> [attached : BOOLEAN, head : Index, remaining : 0 .. Size]]
    BY <1>8 DEF TableType
  <2>2. inq' \in [Conns -> Seq(ClientPackets)]
    BY <1>7, <1>8 DEF TableType
  <2> QED
    BY <1>2, <2>1, <2>2 DEF TableType
<1>10. FdTable'
  BY <1>2, <1>6, <1>8 DEF FdTable, TableType
<1> QED
  BY <1>4, <1>5, <1>9, <1>10

\* The handlers that drop the client: the loop goes on with the one swapped in.
LEMMA PassDrop ==
  ASSUME IInv, Serving, Current \in ready.rd,
         served' = Append(served, Current), DropClient,
         UNCHANGED <<pc, ready, bad, backlog>>
  PROVE  LoopType' /\ Pass' /\ Condemned' /\ TableType' /\ FdTable'
<1> USE DEF IInv, TypeOK
<1> DEFINE n == Len(clients)
           cur == Current
<1>1. /\ n \in Nat /\ idx \in Nat /\ 1 <= idx /\ idx <= n /\ cur \in Conns /\ cur \in Open
      /\ \A c : (\E i \in idx + 1 .. n : clients[i] = c) <=> Ahead(c) /\ c # cur
  BY AheadNext DEF Serving
<1>2. /\ clients' = SwapRemove(clients, idx) /\ idx' = idx
      /\ fd' = [c \in Conns |-> IF c \in {cur} THEN "none" ELSE fd[c]]
      /\ inq' = [c \in Conns |-> IF c \in {cur} THEN << >> ELSE inq[c]]
      /\ client' = [c \in Conns |-> IF c \in {cur} THEN NoClient ELSE client[c]]
  BY DEF DropClient, Closed
<1>3. clients \in Seq(Conns) /\ Distinct(clients) /\ idx \in 1 .. Len(clients)
  BY <1>1 DEF TableType, FdTable
<1>4. /\ clients' \in Seq(Conns) /\ Len(clients') = n - 1
      /\ \A k \in 1 .. n - 1 : clients'[k] = IF k = idx THEN clients[n] ELSE clients[k]
      /\ Distinct(clients')
      /\ Elements(clients') = Elements(clients) \ {cur}
  <2> DEFINE t == SwapRemove(clients, idx)
  <2>1. /\ t \in Seq(Conns) /\ Len(t) = Len(clients) - 1
        /\ \A k \in 1 .. Len(clients) - 1 : t[k] = IF k = idx THEN clients[Len(clients)]
                                                            ELSE clients[k]
        /\ Distinct(t) /\ Elements(t) = Elements(clients) \ {clients[idx]}
    BY <1>3, SwapRemoveDistinct
  <2>2. clients' = t
    BY <1>2
  <2> HIDE DEF t
  <2> QED
    BY <2>1, <2>2 DEF Current
<1> HIDE DEF n, cur
<1>5. \A c : Ahead(c)' <=> Ahead(c) /\ c # cur
  <2> SUFFICES ASSUME NEW c
               PROVE  (\E i \in idx .. n - 1 : clients'[i] = c)
                        <=> (\E i \in idx + 1 .. n : clients[i] = c)
    BY <1>1, <1>2, <1>4 DEF Ahead
  <2>1. ASSUME NEW i \in idx .. n - 1
        PROVE  \E j \in idx + 1 .. n : clients[j] = clients'[i]
    <3>1. CASE i = idx
      <4>1. n \in idx + 1 .. n /\ i \in 1 .. n - 1
        BY <1>1
      <4> QED
        BY <1>4, <3>1, <4>1
    <3>2. CASE i # idx
      <4>1. i \in idx + 1 .. n /\ i \in 1 .. n - 1
        BY <1>1, <3>2
      <4> QED
        BY <1>4, <3>2, <4>1
    <3> QED
      BY <3>1, <3>2
  <2>2. ASSUME NEW j \in idx + 1 .. n
        PROVE  \E i \in idx .. n - 1 : clients'[i] = clients[j]
    <3>1. CASE j = n
      <4>1. idx \in idx .. n - 1 /\ idx \in 1 .. n - 1
        BY <1>1
      <4> QED
        BY <1>4, <3>1, <4>1
    <3>2. CASE j # n
      <4>1. j \in idx .. n - 1 /\ j \in 1 .. n - 1 /\ j # idx
        BY <1>1, <3>2
      <4> QED
        BY <1>4, <4>1
    <3> QED
      BY <3>1, <3>2
  <2> QED
    BY <2>1, <2>2
<1>6. LoopType' /\ Pass'
  <2>1. \A c : Ahead(c)' <=> Ahead(c) /\ c # Current
    BY <1>5 DEF cur
  <2>2. idx' \in Nat \ {0}
    BY <1>1, <1>2
  <2> QED
    BY <2>1, <2>2, PassRead
<1>7. Open' = Open \ {cur}
  BY <1>4 DEF Open
<1>8. Condemned'
  BY DEF Condemned, Serving
<1>9. TableType'
  <2>1. << >> \in Seq(ClientPackets)
    BY EmptySeq
  <2>2. NoClient \in [attached : BOOLEAN, head : Index, remaining : 0 .. Size]
    BY DEF NoClient, Index
  <2> QED
    BY <1>2, <1>4, <2>1, <2>2 DEF TableType
<1>10. FdTable'
  BY <1>1, <1>2, <1>4, <1>7 DEF FdTable, TableType
<1> QED
  BY <1>6, <1>8, <1>9, <1>10

ClientFields == [attached : BOOLEAN, head : Index, remaining : 0 .. Size]

\* A write of n bytes takes no more than n, and no more than there is room for.
LEMMA TakenRange ==
  ASSUME IInv, NEW c \in Conns, NEW n \in Nat, NEW k \in Taken(c, n)
  PROVE  k \in 0 .. n /\ out[c] + k \in 0 .. SockCap
<1>1. out[c] \in 0 .. SockCap
  BY DEF IInv, TypeOK, StreamType
<1> DEFINE room == SockCap - out[c]
<1>2. room \in Nat /\ out[c] + room = SockCap /\ out[c] \in Nat
  BY <1>1
<1>3. k \in (IF n <= room THEN {n} ELSE Smaller(1, room) .. room)
  BY DEF Taken
<1> HIDE DEF room
<1>4. k \in 0 .. n /\ k <= room
  BY <1>2, <1>3 DEF Smaller
<1> QED
  BY <1>2, <1>4

LEMMA DeliveredTypes ==
  ASSUME IInv, NEW c \in Conns, NEW st \in Verdicts, NEW nx \in Nat,
         NEW v \in Seq(Nat), Delivered(c, st, nx, v)
  PROVE  /\ next' \in [Conns -> Nat]
         /\ stream' \in [Conns -> Verdicts]
<1>1. next \in [Conns -> Nat] /\ stream \in [Conns -> Verdicts]
  BY DEF IInv, TypeOK, StreamType
<1>2. Verdict(st, nx, v) \in Verdicts
  BY Zenon DEF Verdict, Verdicts
<1>3. (IF v = << >> THEN nx ELSE v[Len(v)] + 1) \in Nat
  BY EmptySeq
<1> QED
  BY <1>1, <1>2, <1>3 DEF Delivered

\* drain moves the replay on within the ring.
LEMMA DrainTypes ==
  ASSUME IInv, NEW c \in Conns, NEW before \in BOOLEAN, NEW h \in Index,
         NEW rem \in 0 .. Size, NEW st \in Verdicts, NEW nx \in Nat,
         DrainTo(c, before, h, rem, st, nx)
  PROVE  /\ StreamType'
         /\ \E x \in ClientFields : client' = [client EXCEPT ![c] = x]
<1>1. CASE peer[c] = "none"
  <2> DEFINE x == [attached |-> before, head |-> h, remaining |-> rem]
  <2>1. client' = [client EXCEPT ![c] = x] /\ UNCHANGED streamVs
    BY <1>1 DEF DrainTo
  <2>2. x \in ClientFields
    BY DEF ClientFields
  <2> QED
    BY <2>1, <2>2, Kept
<1>2. CASE peer[c] # "none"
  <2>1. PICK n \in Taken(c, rem) :
           /\ client' = [client EXCEPT ![c] = [attached  |-> before \/ Completed(n, rem),
                                               head      |-> ReplayHead(h, n),
                                               remaining |-> rem - n]]
           /\ out' = [out EXCEPT ![c] = out[c] + n]
           /\ Delivered(c, SoFar(st, nx), nx, [k \in 1 .. n |-> ring.buf[Mask(h + k - 1)]])
    BY <1>2 DEF DrainTo
  <2>2. Size \in Nat /\ rem \in Nat /\ rem <= Size /\ h \in Nat /\ h < Size
    BY DEF Index
  <2>3. n \in Nat /\ n <= rem /\ out[c] + n \in 0 .. SockCap
    BY <2>1, <2>2, TakenRange
  <2> DEFINE x == [attached  |-> before \/ Completed(n, rem),
                   head      |-> ReplayHead(h, n),
                   remaining |-> rem - n]
             v == [k \in 1 .. n |-> ring.buf[Mask(h + k - 1)]]
  <2>4. x \in ClientFields
    <3>1. h + n \in 0 .. 2 * Size - 1
      BY <2>2, <2>3
    <3>2. ReplayHead(h, n) \in Index
      BY <3>1, MaskValue DEF ReplayHead
    <3>3. rem - n \in 0 .. Size
      BY <2>2, <2>3
    <3>4. (before \/ Completed(n, rem)) \in BOOLEAN
      BY Zenon DEF Completed
    <3> DEFINE a == before \/ Completed(n, rem)
    <3> HIDE DEF a
    <3>5. [attached |-> a, head |-> ReplayHead(h, n), remaining |-> rem - n] \in ClientFields
      BY <3>2, <3>3, <3>4 DEF ClientFields, a
    <3> QED
      BY <3>5 DEF a
  <2>5. v \in Seq(Nat)
    <3>1. ASSUME NEW k \in 1 .. n
          PROVE  ring.buf[Mask(h + k - 1)] \in Nat
      <4>1. h + k - 1 \in 0 .. 2 * Size - 1
        BY <2>2, <2>3
      <4>2. Mask(h + k - 1) \in Index
        BY <4>1, MaskValue
      <4>3. ring.buf \in [Index -> 0 .. MaxOut]
        BY DEF IInv, TypeOK, OutputType, Ring
      <4> QED
        BY <4>2, <4>3
    <3> QED
      BY <2>3, <3>1
  <2>6. Delivered(c, SoFar(st, nx), nx, v) /\ SoFar(st, nx) \in Verdicts
    BY <2>1 DEF SoFar, Verdicts
  <2>7. client' = [client EXCEPT ![c] = x]
    BY <2>1
  <2>8. out' \in [Conns -> 0 .. SockCap]
    BY <2>1, <2>3 DEF IInv, TypeOK, StreamType
  <2> HIDE DEF x, v
  <2>9. next' \in [Conns -> Nat] /\ stream' \in [Conns -> Verdicts]
    BY <2>5, <2>6, DeliveredTypes
  <2> QED
    BY <2>4, <2>7, <2>8, <2>9 DEF StreamType
<1> QED
  BY <1>1, <1>2

\* The number of attached clients is a number.
LEMMA AttachedFinite == ASSUME IInv PROVE Cardinality(AttachedOnes) \in Nat
<1>1. Len(clients) \in Nat
  BY DEF IInv, TypeOK, TableType
<1> DEFINE D == 1 .. Len(clients)
<1>2. IsFiniteSet(D)
  BY <1>1, FS_Interval
<1>3. Open = {clients[i] : i \in D}
  BY DEF Open, Elements
<1>4. IsFiniteSet({clients[i] : i \in D})
  <2> DEFINE g == [i \in D |-> clients[i]]
  <2>1. {g[i] : i \in D} = {clients[i] : i \in D}
    OBVIOUS
  <2>2. IsFiniteSet({g[i] : i \in D})
    <3>1. g \in Surjection(D, {g[i] : i \in D})
      BY DEF Surjection
    <3> QED
      BY <1>2, <3>1, FS_Surjection
  <2> QED
    BY <2>1, <2>2
<1>5. AttachedOnes \subseteq Open
  BY DEF AttachedOnes
<1> QED
  BY <1>3, <1>4, <1>5, FS_Subset, FS_CardinalityType

LEMMA PacketSteps ==
  ASSUME IInv, HandlePacket
  PROVE  IInv'
<1> USE DEF IInv, TypeOK, ReadPacket
<1> DEFINE c == Current
<1>0. c \in Conns /\ client[c] \in ClientFields
  BY AheadNext DEF HandlePacket, SkipClient, ReadEof, HandlePush, HandleAttach, HandleDetach,
                   HandleForceDetach, HandleInfo, HandleWinch, HandleRedraw, HandleKill,
                   Serving, TableType, ClientFields
<1>a. ASSUME Serving, c \in ready.rd, inq[c] # << >>, served' = Append(served, c), NextClient,
             UNCHANGED <<pc, ready, backlog, bad, fileVars, outputVs, peer, child>>,
             UNCHANGED <<evict, chunk, written>>,
             NEW x \in ClientFields, client' \in {client, [client EXCEPT ![c] = x]},
             StreamType', OutsideType'
      PROVE  IInv'
  <2>1. LoopType' /\ Pass' /\ Condemned' /\ TableType' /\ FdTable'
    BY <1>a, PassOn DEF ClientFields
  <2>2. SendType' /\ FileType' /\ OutputType' /\ Recent'
    BY <1>a, Kept
  <2>3. Ending'
    BY <1>a, Kept
  <2> QED
    BY <1>a, <2>1, <2>2, <2>3
<1>b. ASSUME Serving, c \in ready.rd, served' = Append(served, c), DropClient,
             UNCHANGED <<pc, ready, backlog, bad, fileVars, outputVs, peer, child>>,
             UNCHANGED <<chunk, written>>, evict' \in BOOLEAN,
             StreamType', OutsideType'
      PROVE  IInv'
  <2>1. LoopType' /\ Pass' /\ Condemned' /\ TableType' /\ FdTable'
    BY <1>b, PassDrop
  <2>2. SendType'
    BY <1>b DEF SendType
  <2>3. FileType' /\ OutputType' /\ Recent' /\ Ending'
    BY <1>b, Kept
  <2> QED
    BY <1>b, <2>1, <2>2, <2>3
<1>1. CASE SkipClient
  <2>1. /\ UNCHANGED <<tableVs, streamVs, sendVs, fileVars, outputVs, outsideVs>>
        /\ UNCHANGED <<pc, ready, served>>
        /\ Serving /\ Current \notin ready.rd /\ idx' = idx + 1
    BY <1>1 DEF SkipClient
  <2>2. LoopType'
    BY <2>1 DEF LoopType
  <2>3. Pass'
    <3>1. \A d : Ahead(d)' <=> Ahead(d) /\ d # Current
      BY <2>1, AheadNext DEF Ahead, Serving
    <3> QED
      BY <2>1, <3>1 DEF Pass, Serving
  <2>4. Condemned' /\ Ending'
    BY <2>1, Kept
  <2> QED
    BY <2>1, <2>2, <2>3, <2>4, Kept
<1>2. CASE ReadEof
  <2>1. StreamType' /\ OutsideType'
    BY <1>2, Kept DEF ReadEof
  <2>2. evict' \in BOOLEAN
    BY <1>2 DEF ReadEof, SendType
  <2> QED
    BY <1>2, <1>b, <2>1, <2>2 DEF ReadEof
<1>3. CASE HandlePush
  <2>1. StreamType'
    BY <1>3, Kept DEF HandlePush
  <2>2. OutsideType'
    <3>1. ptyIn' \in 0 .. PtyCap
      BY <1>3 DEF HandlePush, TerminalWrite, Smaller, OutsideType
    <3> QED
      BY <1>3, <3>1 DEF HandlePush, OutsideType
  <2> QED
    BY <1>0, <1>3, <1>a, <2>1, <2>2 DEF HandlePush
<1>4. CASE HandleAttach
  <2>1. OutsideType'
    BY <1>4, Kept DEF HandleAttach
  <2>2. CASE Packet.len # 0 \/ ring.len = 0
    <3> DEFINE x == [client[c] EXCEPT !.attached = TRUE]
    <3>1. x \in ClientFields /\ client' = [client EXCEPT ![c] = x]
      BY <1>0, <1>4, <2>2 DEF HandleAttach, ClientFields
    <3>2. /\ next' = [next EXCEPT ![c] = total + 1] /\ out' = out
          /\ stream' = [stream EXCEPT ![c] = "whole"]
      BY <1>4, <2>2 DEF HandleAttach
    <3>3. total + 1 \in Nat
      BY DEF OutputType
    <3>4. StreamType'
      BY <1>0, <3>2, <3>3 DEF StreamType, Verdicts
    <3> HIDE DEF x
    <3> QED
      BY <1>4, <1>a, <2>1, <3>1, <3>4 DEF HandleAttach
  <2>3. CASE ~(Packet.len # 0 \/ ring.len = 0)
    <3>1. DrainTo(c, client[c].attached, ring.head, ring.len, "whole", total - ring.len + 1)
      BY <1>4, <2>3 DEF HandleAttach
    <3>2. client[c].attached \in BOOLEAN /\ ring.head \in Index /\ ring.len \in 0 .. Size
      BY <1>0 DEF ClientFields, OutputType, Ring
    <3>3. total - ring.len + 1 \in Nat
      BY <3>2 DEF OutputType, Recent, Smaller
    <3>4. StreamType' /\ \E x \in ClientFields : client' = [client EXCEPT ![c] = x]
      BY <1>0, <3>1, <3>2, <3>3, DrainTypes DEF Verdicts
    <3> QED
      BY <1>4, <1>a, <2>1, <3>4 DEF HandleAttach
  <2> QED
    BY <2>2, <2>3
<1>5. CASE HandleDetach
  <2>1. StreamType' /\ OutsideType'
    BY <1>5, Kept DEF HandleDetach
  <2> DEFINE x == [client[c] EXCEPT !.attached = FALSE]
  <2>2. x \in ClientFields /\ client' = [client EXCEPT ![c] = x]
    BY <1>0, <1>5 DEF HandleDetach, ClientFields
  <2> HIDE DEF x
  <2> QED
    BY <1>5, <1>a, <2>1, <2>2 DEF HandleDetach
<1>6. CASE HandleForceDetach
  <2>1. StreamType' /\ OutsideType'
    BY <1>6, Kept DEF HandleForceDetach
  <2> QED
    BY <1>6, <1>b, <2>1 DEF HandleForceDetach
<1>7. CASE HandleInfo
  <2>1. OutsideType'
    BY <1>7, Kept DEF HandleInfo
  <2>2. StreamType'
    <3> DEFINE n == out[c] + 1 + Cardinality(AttachedOnes)
               o == IF peer[c] = "none" THEN out[c] ELSE Smaller(n, SockCap)
    <3>1. out[c] \in 0 .. SockCap
      BY <1>0 DEF StreamType
    <3>2. n \in Nat
      BY <3>1, AttachedFinite
    <3>3. out' = [out EXCEPT ![c] = o] /\ UNCHANGED <<next, stream>>
      BY <1>7 DEF HandleInfo
    <3> HIDE DEF n
    <3>4. o \in 0 .. SockCap
      BY <3>1, <3>2 DEF Smaller
    <3> HIDE DEF o
    <3> QED
      BY <1>0, <3>3, <3>4 DEF StreamType
  <2>3. evict' \in BOOLEAN
    BY <1>7 DEF HandleInfo, SendType
  <2> QED
    BY <1>7, <1>b, <2>1, <2>2, <2>3 DEF HandleInfo
<1>8. CASE HandleWinch
  <2>1. StreamType'
    BY <1>8, Kept DEF HandleWinch
  <2>2. OutsideType'
    <3>1. sigs' \subseteq {"WINCH", "TERM", "HUP", "KILL"}
      BY <1>8 DEF HandleWinch, Raise, OutsideType
    <3> QED
      BY <1>8, <3>1 DEF HandleWinch, OutsideType
  <2> QED
    BY <1>0, <1>8, <1>a, <2>1, <2>2 DEF HandleWinch
<1>9. CASE HandleRedraw
  <2>1. StreamType'
    BY <1>9, Kept DEF HandleRedraw
  <2>2. OutsideType'
    <3>1. sigs' \subseteq {"WINCH", "TERM", "HUP", "KILL"}
      BY <1>9 DEF HandleRedraw, Raise, OutsideType
    <3>2. ptyIn' \in {Smaller(ptyIn, PtyCap), Smaller(ptyIn + 1, PtyCap), Smaller(ptyIn + 0, PtyCap)}
      BY <1>9 DEF HandleRedraw, TerminalWrite
    <3>3. ptyIn' \in 0 .. PtyCap
      BY <3>2 DEF Smaller, OutsideType
    <3> QED
      BY <1>9, <3>1, <3>3 DEF HandleRedraw, OutsideType
  <2> QED
    BY <1>0, <1>9, <1>a, <2>1, <2>2 DEF HandleRedraw
<1>10. CASE HandleKill
  <2>1. StreamType'
    BY <1>10, Kept DEF HandleKill
  <2>2. OutsideType'
    <3>1. Signal(Packet.len) \in {"TERM", "HUP", "KILL"}
      BY Zenon DEF Signal
    <3>2. sigs' \subseteq {"WINCH", "TERM", "HUP", "KILL"}
      BY <1>10, <3>1 DEF HandleKill, Raise, OutsideType
    <3> QED
      BY <1>10, <3>2 DEF HandleKill, OutsideType
  <2> QED
    BY <1>0, <1>10, <1>a, <2>1, <2>2 DEF HandleKill
<1> QED
  BY <1>1, <1>2, <1>3, <1>4, <1>5, <1>6, <1>7, <1>8, <1>9, <1>10 DEF HandlePacket

(***************************************************************************)
(* Replay, output, and send_to_clients                                     *)
(***************************************************************************)

LEMMA OutputSteps ==
  ASSUME IInv, DrainReplay \/ WriteChunk \/ (\E n \in 1 .. BufSize : ReadOutput(n))
  PROVE  IInv'
<1> USE DEF IInv, TypeOK
<1>1. CASE DrainReplay
  <2> DEFINE c == Current
  <2>1. /\ UNCHANGED <<sendVs, fileVars, outputVs, outsideVs>>
        /\ UNCHANGED <<pc, ready, served, clients, fd, backlog, inq>>
        /\ pc = "drain" /\ idx <= Len(clients) /\ idx' = idx + 1
    BY <1>1 DEF DrainReplay
  <2>2. LoopType'
    BY <2>1 DEF LoopType
  <2>3. Pass' /\ Condemned' /\ Ending'
    BY <2>1 DEF Pass, Condemned, Ending, Open
  <2>4. c \in Conns /\ c \in Open /\ fd[c] = "open"
    <3>1. c \in Conns /\ c \in Open
      BY <2>1, AheadNext
    <3> QED
      BY <3>1 DEF FdTable
  <2>5. client[c] \in ClientFields
    BY <2>4 DEF TableType, ClientFields
  <2>6. StreamType' /\ \E x \in ClientFields : client' = [client EXCEPT ![c] = x]
    <3>1. CASE Pending
      <4>1. DrainTo(c, client[c].attached, client[c].head, client[c].remaining,
                    stream[c], next[c])
        BY <1>1, <3>1 DEF DrainReplay
      <4>2. /\ client[c].attached \in BOOLEAN /\ client[c].head \in Index
            /\ client[c].remaining \in 0 .. Size
            /\ stream[c] \in Verdicts /\ next[c] \in Nat
        BY <2>4, <2>5 DEF ClientFields, StreamType
      <4> QED
        BY <2>4, <4>1, <4>2, DrainTypes
    <3>2. CASE ~Pending
      <4>1. UNCHANGED <<client, streamVs>>
        BY <1>1, <3>2 DEF DrainReplay
      <4>2. client' = [client EXCEPT ![c] = client[c]]
        BY <4>1 DEF TableType
      <4> QED
        BY <2>5, <4>1, <4>2, Kept
    <3> QED
      BY <3>1, <3>2
  <2> HIDE DEF c
  <2>7. PICK x \in ClientFields : client' = [client EXCEPT ![c] = x]
    BY <2>6
  <2>8. TableType'
    BY <2>1, <2>7 DEF TableType, ClientFields
  <2>9. FdTable'
    BY <2>1, <2>4, <2>7 DEF FdTable, TableType, Open
  <2> QED
    BY <2>1, <2>2, <2>3, <2>6, <2>8, <2>9, Kept
<1>2. CASE WriteChunk
  <2> DEFINE c == Current
  <2>1. /\ UNCHANGED <<tableVs, fileVars, outputVs, outsideVs>>
        /\ UNCHANGED <<pc, ready, served, evict, chunk>>
        /\ pc = "write" /\ idx <= Len(clients) /\ idx' = idx + 1
    BY <1>2 DEF WriteChunk
  <2>2. LoopType'
    BY <2>1 DEF LoopType
  <2>3. c \in Conns /\ c \in Open
    BY <2>1, AheadNext
  <2>4. /\ bad' \subseteq bad \union {c} /\ written' \in BOOLEAN
        /\ StreamType'
    <3>1. CASE c \notin ready.wr
      <4>1. UNCHANGED <<written, bad, out, next, stream>>
        BY <1>2, <3>1 DEF WriteChunk
      <4> QED
        BY <4>1, Kept DEF SendType
    <3>2. CASE c \in ready.wr /\ peer[c] = "none"
      <4>1. bad' = bad \union {c} /\ UNCHANGED <<written, out, next, stream>>
        BY <1>2, <3>2 DEF WriteChunk
      <4> QED
        BY <4>1, Kept DEF SendType
    <3>3. CASE c \in ready.wr /\ peer[c] # "none"
      <4>1. PICK n \in Taken(c, chunk) :
               /\ written' = (written \/ n = chunk)
               /\ bad' = IF n \in 1 .. chunk - 1 THEN bad \union {c} ELSE bad
               /\ out' = [out EXCEPT ![c] = out[c] + n]
               /\ Delivered(c, stream[c], next[c], Data(n))
        BY <1>2, <3>3 DEF WriteChunk
      <4>2. chunk \in Nat /\ chunk <= total /\ total \in Nat
        BY DEF SendType, OutputType
      <4>3. n \in 0 .. chunk /\ out[c] + n \in 0 .. SockCap
        BY <2>3, <4>1, <4>2, TakenRange
      <4>4. Data(n) \in Seq(Nat)
        <5>1. n \in Nat /\ \A k \in 1 .. n : total - chunk + k \in Nat
          BY <4>2, <4>3
        <5> QED
          BY <5>1 DEF Data
      <4>5. stream[c] \in Verdicts /\ next[c] \in Nat
        BY <2>3 DEF StreamType
      <4>6. next' \in [Conns -> Nat] /\ stream' \in [Conns -> Verdicts]
        BY <2>3, <4>1, <4>4, <4>5, DeliveredTypes
      <4>7. out' \in [Conns -> 0 .. SockCap]
        BY <4>1, <4>3 DEF StreamType
      <4>8. written' \in BOOLEAN /\ bad' \subseteq bad \union {c}
        BY <4>1, Zenon
      <4> QED
        BY <4>6, <4>7, <4>8 DEF StreamType
    <3> QED
      BY <3>1, <3>2, <3>3
  <2>5. SendType'
    BY <2>1, <2>3, <2>4 DEF SendType
  <2>6. Pass' /\ Ending'
    BY <2>1 DEF Pass, Ending, Open
  <2>7. Condemned'
    BY <2>1, <2>3, <2>4 DEF Condemned, Open
  <2> QED
    BY <2>1, <2>2, <2>4, <2>5, <2>6, <2>7, Kept
<1>3. ASSUME NEW n \in 1 .. BufSize, ReadOutput(n)
      PROVE  IInv'
  <2>1. /\ UNCHANGED <<tableVs, streamVs, outsideVs>>
        /\ UNCHANGED <<idx, ready, served, evict, written, bad, execBit, sockFile>>
        /\ pc = "pty" /\ pc' \in {"build", "forward"} /\ chunk' \in {0, n} /\ n <= avail
        /\ avail' = avail - n /\ total' = total + n
        /\ ring' = AppendData(ring, Chunk(n))
        /\ log' = [log EXCEPT !.bytes = log.bytes + n]
    BY <1>3 DEF ReadOutput, LogWrite
  <2>2. n \in Nat /\ avail \in Nat /\ total \in Nat /\ total + avail <= MaxOut
        /\ ring \in Ring
    BY DEF OutputType
  <2>3. LoopType'
    BY <2>1 DEF LoopType
  <2>4. SendType'
    <3>1. chunk' \in 0 .. total'
      BY <2>1, <2>2
    <3> QED
      BY <2>1, <3>1 DEF SendType
  <2>5. log'.bytes = log.bytes + n /\ log'.ended = log.ended /\ FileType'
    <3>1. log \in [bytes : Nat, ended : BOOLEAN]
      BY DEF FileType
    <3>2. log.bytes + n \in Nat
      BY <2>2, <3>1
    <3>3. log'.bytes = log.bytes + n /\ log'.ended = log.ended
      BY <2>1, <3>1
    <3>4. log' \in [bytes : Nat, ended : BOOLEAN]
      BY <2>1, <3>1, <3>2
    <3> QED
      BY <2>1, <3>3, <3>4 DEF FileType
  <2>6. Chunk(n) \in Seq(Byte) /\ Len(Chunk(n)) = n
    <3>1. \A k \in 1 .. n : total + k \in Byte
      BY <2>1, <2>2
    <3> QED
      BY <2>2, <3>1 DEF Chunk
  <2> DEFINE ch == Chunk(n)
             old == Content(ring)
  <2> HIDE DEF ch
  <2>7. ch \in Seq(Byte) /\ Len(ch) = n /\ ring' = AppendData(ring, ch)
    BY <2>1, <2>6 DEF ch
  <2>8. ring' \in Ring /\ Content(ring') = LastN(old \o ch, Size)
    BY <2>2, <2>7, AppendContent
  <2>9. old \in Seq(Byte) /\ Len(old) = ring.len
    BY <2>2, ContentType
  <2> HIDE DEF old
  <2>10. old \o ch \in Seq(Byte) /\ Len(old \o ch) = ring.len + n
    BY <2>7, <2>9, ConcatProperties
  <2>11. Len(Content(ring')) = Smaller(ring.len + n, Size)
    BY <2>8, <2>10, LastNType
  <2>12. ring'.len = Smaller(ring.len + n, Size)
    BY <2>8, <2>11, ContentType
  <2>13. Recent'
    BY <2>1, <2>2, <2>12 DEF Recent, Smaller
  <2>14. OutputType'
    <3>1. avail' \in Nat /\ total' \in Nat /\ total' + avail' <= MaxOut
      BY <2>1, <2>2
    <3> QED
      BY <2>8, <3>1 DEF OutputType
  <2>15. Pass' /\ Condemned'
    BY <2>1 DEF Pass, Condemned, Open
  <2>16. Ending'
    BY <2>1, <2>5 DEF Ending
  <2> QED
    BY <2>1, <2>3, <2>4, <2>5, <2>13, <2>14, <2>15, <2>16, Kept
<1> QED
  BY <1>1, <1>2, <1>3

(***************************************************************************)
(* The clients and the child                                               *)
(***************************************************************************)

PeerStates == {"none", "fresh", "redrawing", "attached", "blocked", "suspended", "pushing",
               "control"}

\* What a client does to its queue and to itself does not touch the daemon.
LEMMA ClientSteps ==
  ASSUME IInv, NEW c \in Conns, ClientStep(c)
  PROVE  IInv'
<1> USE DEF IInv, TypeOK
<1>a. ASSUME UNCHANGED <<loopVs, clients, client, sendVs, fileVars, outputVs, child, ptyIn,
                        sigs>>,
             TableType', FdTable', StreamType', OutsideType',
             pc = "accept" /\ backlog # << >> => backlog' # << >>
      PROVE  IInv'
  <2>1. Pass'
    BY <1>a DEF Pass, Open, Ahead
  <2>2. Condemned' /\ Ending'
    BY <1>a, Kept
  <2> QED
    BY <1>a, <2>1, <2>2, Kept
<1>b. ASSUME NEW p, Send(c, p), NEW x \in PeerStates, peer' = [peer EXCEPT ![c] = x]
      PROVE  IInv'
  <2>1. /\ UNCHANGED <<loopVs, clients, client, sendVs, fileVars, outputVs, child, ptyIn, sigs>>
        /\ UNCHANGED <<fd, backlog, streamVs>>
        /\ p \in ClientPackets /\ fd[c] # "none"
        /\ inq' = [inq EXCEPT ![c] = Append(inq[c], p)]
    BY <1>b DEF Send
  <2>2. Append(inq[c], p) \in Seq(ClientPackets)
    BY <2>1, AppendProperties DEF TableType
  <2>3. TableType'
    BY <2>1, <2>2 DEF TableType
  <2>4. FdTable'
    BY <2>1 DEF FdTable, TableType, Open
  <2>5. OutsideType'
    BY <1>b, <2>1 DEF OutsideType, PeerStates
  <2> QED
    BY <1>a, <2>1, <2>3, <2>4, <2>5, Kept
<1>1. CASE Connect(c)
  <2>1. /\ UNCHANGED <<loopVs, clients, client, sendVs, fileVars, outputVs, child, ptyIn, sigs>>
        /\ UNCHANGED <<inq, streamVs>>
        /\ fd[c] = "none" /\ fd' = [fd EXCEPT ![c] = "backlog"]
        /\ backlog' = Append(backlog, c) /\ peer' = [peer EXCEPT ![c] = "fresh"]
    BY <1>1 DEF Connect
  <2>2. backlog \in Seq(Conns) /\ Distinct(backlog) /\ c \notin Elements(backlog)
    BY <2>1 DEF TableType, FdTable
  <2>3. /\ Append(backlog, c) \in Seq(Conns) /\ Distinct(Append(backlog, c))
        /\ Elements(Append(backlog, c)) = Elements(backlog) \union {c}
    BY <2>2, AppendDistinct
  <2>4. backlog' # << >>
    BY <2>1, <2>2, AppendProperties
  <2>5. TableType'
    BY <2>1, <2>3 DEF TableType
  <2>6. FdTable'
    BY <2>1, <2>3 DEF FdTable, TableType, Open
  <2>7. OutsideType'
    BY <2>1 DEF OutsideType
  <2> QED
    BY <1>a, <2>1, <2>4, <2>5, <2>6, <2>7, Kept
<1>2. CASE Attach(c) \/ Redraw(c) \/ Interact(c) \/ Suspend(c) \/ Resume(c) \/ PushInput(c)
             \/ SendKill(c) \/ CmdDetach(c) \/ CmdInfo(c)
  <2>1. Greeted \in PeerStates
    BY DEF Greeted, PeerStates
  <2>2. \E p : Send(c, p) /\ \E x \in PeerStates : peer' = [peer EXCEPT ![c] = x]
    BY <1>2, <2>1 DEF Attach, Redraw, Interact, Suspend, Resume, PushInput, SendKill, CmdDetach,
                      CmdInfo, OneShot, PeerStates
  <2> QED
    BY <1>b, <2>2
<1>3. CASE Block(c) \/ SendFails(c)
  <2>1. /\ UNCHANGED <<loopVs, tableVs, streamVs, sendVs, fileVars, outputVs, child, ptyIn, sigs>>
        /\ \E x \in {"blocked", "attached"} : peer' = [peer EXCEPT ![c] = x]
    BY <1>3 DEF Block, SendFails
  <2>2. OutsideType'
    BY <2>1 DEF OutsideType
  <2> QED
    BY <1>a, <2>1, <2>2, Kept
<1>4. CASE Receive(c)
  <2>1. /\ UNCHANGED <<loopVs, tableVs, sendVs, fileVars, outputVs, outsideVs, next, stream>>
        /\ \E n \in 1 .. out[c] : out' = [out EXCEPT ![c] = out[c] - n]
    BY <1>4 DEF Receive
  <2>2. out[c] \in 0 .. SockCap
    BY DEF StreamType
  <2>3. \A n \in 1 .. out[c] : out[c] - n \in 0 .. SockCap
    BY <2>2
  <2>4. StreamType'
    BY <2>1, <2>3 DEF StreamType
  <2> QED
    BY <1>a, <2>1, <2>4, Kept
<1>5. CASE Leave(c)
  <2>1. /\ UNCHANGED <<loopVs, tableVs, sendVs, fileVars, outputVs, child, ptyIn, sigs>>
        /\ peer' = [peer EXCEPT ![c] = "none"] /\ out' = [out EXCEPT ![c] = 0]
        /\ next' = [next EXCEPT ![c] = 1] /\ stream' = [stream EXCEPT ![c] = "whole"]
    BY <1>5 DEF Leave
  <2>2. StreamType'
    BY <2>1 DEF StreamType, Verdicts
  <2>3. OutsideType'
    BY <2>1 DEF OutsideType
  <2> QED
    BY <1>a, <2>1, <2>2, <2>3, Kept
<1> QED
  BY <1>1, <1>2, <1>3, <1>4, <1>5 DEF ClientStep

LEMMA ChildSteps ==
  ASSUME IInv, ChildStep
  PROVE  IInv'
<1> USE DEF IInv, TypeOK
<1>1. /\ UNCHANGED <<loopVs, tableVs, streamVs, sendVs, fileVars, ring, total, peer>>
      /\ \/ UNCHANGED avail
         \/ child = "running" /\ child' = child /\ total + avail < MaxOut /\ avail' = avail + 1
      /\ child' \in {child, "hungup", "exited"} /\ (child' = "hungup" => child # "exited")
      /\ sigs' \subseteq sigs /\ (ptyIn' = ptyIn \/ (ptyIn > 0 /\ ptyIn' = ptyIn - 1))
  <2>1. CASE ChildWrite
    BY <2>1 DEF ChildWrite
  <2>2. CASE ChildRead
    BY <2>2 DEF ChildRead
  <2>3. CASE ChildHangup
    BY <2>3 DEF ChildHangup
  <2>4. CASE ChildExit
    BY <2>4 DEF ChildExit
  <2>5. CASE ChildHandles
    BY <2>5 DEF ChildHandles
  <2> QED
    BY <2>1, <2>2, <2>3, <2>4, <2>5 DEF ChildStep
<1>2. OutputType'
  <2>1. avail' \in Nat /\ total + avail' <= MaxOut
    BY <1>1 DEF OutputType
  <2> QED
    BY <1>1, <2>1 DEF OutputType
<1>3. OutsideType'
  <2>1. ptyIn' \in 0 .. PtyCap
    BY <1>1 DEF OutsideType
  <2> QED
    BY <1>1, <2>1 DEF OutsideType
<1>4. Ending'
  BY <1>1 DEF Ending, OutsideType
<1>5. SendType' /\ Recent'
  BY <1>1 DEF SendType, Recent
<1> QED
  BY <1>1, <1>2, <1>3, <1>4, <1>5, Kept

(***************************************************************************)
(* Slow clients                                                            *)
(***************************************************************************)

\* A chunk is no longer than one read of the terminal.  Whoever select reported
\* writable and is yet to be written to still has the room select promised.
Room == /\ chunk <= BufSize
        /\ \A c \in bad : peer[c] = "none"
        /\ pc = "write" => \A c \in ready.wr :
              Ahead(c) /\ peer[c] # "none" => SockCap - out[c] >= LowWater

LEMMA RoomClient ==
  ASSUME IInv, Room, NEW c \in Conns, ClientStep(c)
  PROVE  Room'
<1>1. UNCHANGED <<loopVs, sendVs, clients>>
  BY DEF ClientStep, Connect, Attach, Redraw, Interact, Block, SendFails, Suspend, Resume, PushInput,
         SendKill, CmdDetach, CmdInfo, OneShot, Receive, Leave, Send
<1>2. \/ UNCHANGED out
      \/ peer' = [peer EXCEPT ![c] = "none"] /\ out' = [out EXCEPT ![c] = 0]
      \/ \E n \in 1 .. out[c] : out' = [out EXCEPT ![c] = out[c] - n]
  BY DEF ClientStep, Connect, Attach, Redraw, Interact, Block, SendFails, Suspend, Resume, PushInput,
         SendKill, CmdDetach, CmdInfo, OneShot, Receive, Leave, Send
<1>3. /\ \E x \in PeerStates : peer' = [peer EXCEPT ![c] = x] \/ peer' = peer
      /\ peer[c] = "none" => fd[c] = "none" \/ peer'[c] = "none"
  <2>1. Greeted # "none" /\ Greeted \in PeerStates
    BY DEF Greeted, PeerStates
  <2> QED
    BY <2>1 DEF ClientStep, Connect, Attach, Redraw, Interact, Block, SendFails, Suspend, Resume,
           PushInput, SendKill, CmdDetach, CmdInfo, OneShot, Receive, Leave, PeerStates
<1>4. \A d \in Conns : fd[d] # "none" /\ peer[d] = "none" => peer'[d] = "none"
  BY <1>3 DEF IInv, TypeOK, OutsideType
<1>5. \A d \in Conns : peer'[d] # "none" => out'[d] <= out[d] /\ out[d] \in Nat /\ out'[d] \in Nat
  <2>1. peer \in [Conns -> PeerStates] /\ out \in [Conns -> 0 .. SockCap]
    BY DEF IInv, TypeOK, OutsideType, StreamType, PeerStates
  <2>2. \A d \in Conns : out[d] \in Nat
    BY <2>1
  <2>3. CASE UNCHANGED out
    BY <2>2, <2>3
  <2>4. CASE peer' = [peer EXCEPT ![c] = "none"] /\ out' = [out EXCEPT ![c] = 0]
    BY <2>1, <2>2, <2>4
  <2>5. CASE \E n \in 1 .. out[c] : out' = [out EXCEPT ![c] = out[c] - n]
    <3>1. PICK n \in 1 .. out[c] : out' = [out EXCEPT ![c] = out[c] - n]
      BY <2>5
    <3>2. out[c] - n \in Nat /\ out[c] - n <= out[c]
      BY <2>2, <3>1
    <3> QED
      BY <2>1, <2>2, <3>1, <3>2
  <2> QED
    BY <1>2, <2>3, <2>4, <2>5
<1>6. \A d \in Open : d \in Conns /\ fd[d] = "open"
  BY DEF IInv, FdTable
<1>7. \A d \in bad : peer'[d] = "none"
  BY <1>4, <1>6 DEF Room, IInv, Condemned
<1>8. ASSUME pc = "write", NEW d \in ready.wr, Ahead(d), peer'[d] # "none"
      PROVE  SockCap - out'[d] >= LowWater
  <2>1. d \in Open
    <3>1. \A i \in idx .. Len(clients) : i \in 1 .. Len(clients)
      BY DEF IInv, TypeOK, LoopType, TableType
    <3> QED
      BY <1>8, <3>1 DEF Ahead, Open, Elements
  <2>2. peer[d] # "none" /\ d \in Conns
    BY <1>4, <1>6, <1>8, <2>1
  <2>3. SockCap - out[d] >= LowWater
    BY <1>8, <2>2 DEF Room
  <2> QED
    BY <1>5, <1>8, <2>2, <2>3
<1> QED
  BY <1>1, <1>7, <1>8 DEF Room, Ahead

\* A chunk that fits is taken whole, so that no client with room is condemned.
LEMMA RoomWrite ==
  ASSUME BufSize <= LowWater, IInv, Room, WriteChunk
  PROVE  Room'
<1> DEFINE c == Current
<1>1. /\ UNCHANGED <<clients, ready, chunk, peer, pc>>
      /\ pc = "write" /\ idx <= Len(clients) /\ idx' = idx + 1
  BY DEF WriteChunk
<1>2. /\ c \in Conns /\ Ahead(c)
      /\ \A d : (\E i \in idx + 1 .. Len(clients) : clients[i] = d) <=> Ahead(d) /\ d # c
  BY <1>1, AheadNext
<1>3. \A d : Ahead(d)' <=> Ahead(d) /\ d # c
  BY <1>1, <1>2 DEF Ahead
<1>4. \A d \in Conns : d # c => out'[d] = out[d]
  <2>1. \/ UNCHANGED out
        \/ \E n \in Taken(c, chunk) : out' = [out EXCEPT ![c] = out[c] + n]
    BY DEF WriteChunk
  <2> QED
    BY <2>1 DEF IInv, TypeOK, StreamType
<1>5. \A d \in bad' : peer[d] = "none"
  <2>1. \A d \in bad : peer[d] = "none"
    BY DEF Room
  <2>2. CASE c \in ready.wr /\ peer[c] # "none"
    <3>1. PICK n \in Taken(c, chunk) : bad' = IF n \in 1 .. chunk - 1 THEN bad \union {c} ELSE bad
      BY <2>2 DEF WriteChunk
    <3> DEFINE room == SockCap - out[c]
    <3>2. room >= LowWater /\ out[c] \in 0 .. SockCap /\ room \in Nat
      BY <1>1, <1>2, <2>2 DEF Room, IInv, TypeOK, StreamType
    <3>3. chunk \in Nat /\ chunk <= room
      <4>1. chunk \in Nat /\ chunk <= BufSize
        BY DEF Room, IInv, TypeOK, SendType, OutputType
      <4> QED
        BY <3>2, <4>1
    <3>4. n \in (IF chunk <= room THEN {chunk} ELSE Smaller(1, room) .. room)
      BY <3>1 DEF Taken
    <3> HIDE DEF room
    <3>5. n = chunk
      BY <3>3, <3>4
    <3> QED
      BY <2>1, <3>1, <3>3, <3>5
  <2>3. CASE ~(c \in ready.wr /\ peer[c] # "none")
    <3>1. bad' = bad \/ (bad' = bad \union {c} /\ peer[c] = "none")
      BY <2>3 DEF WriteChunk
    <3> QED
      BY <2>1, <3>1
  <2> QED
    BY <2>2, <2>3
<1>6. ASSUME NEW d \in ready.wr, Ahead(d), d # c, peer[d] # "none"
      PROVE  SockCap - out'[d] >= LowWater
  <2>1. d \in Conns
    BY <1>6 DEF IInv, TypeOK, LoopType
  <2> QED
    BY <1>1, <1>4, <1>6, <2>1 DEF Room
<1> QED
  BY <1>1, <1>3, <1>5, <1>6 DEF Room

LEMMA RoomStep ==
  ASSUME BufSize <= LowWater, IInv, IInv', Room, [Next]_vars
  PROVE  Room'
<1>1. CASE WriteChunk
  BY <1>1, RoomWrite
<1>2. CASE \E c \in Conns : ClientStep(c)
  BY <1>2, RoomClient
<1>3. CASE InnerSelect
  <2>1. /\ UNCHANGED <<chunk, peer, out>> /\ bad' = {} /\ ready' = InnerReady
    BY <1>3 DEF InnerSelect
  <2>2. ready'.wr = {c \in AttachedOnes : Writable(c)}
    BY <2>1 DEF InnerReady, NoneReady
  <2>3. \A c \in ready'.wr : peer[c] # "none" => SockCap - out[c] >= LowWater
    BY <2>2 DEF Writable
  <2> QED
    BY <2>1, <2>3 DEF Room
<1>4. CASE ChildStep \/ UNCHANGED vars
  <2>1. UNCHANGED <<chunk, bad, pc, ready, idx, clients, peer, out>>
    BY <1>4 DEF ChildStep, ChildWrite, ChildRead, ChildHangup, ChildExit, ChildHandles
  <2> QED
    BY <2>1 DEF Room, Ahead
<1>5. ASSUME pc' # "write", chunk' <= BufSize
      PROVE  Room'
  <2>1. bad' = {}
    BY <1>5 DEF IInv, Condemned
  <2> QED
    BY <1>5, <2>1 DEF Room
<1>6. CASE \E n \in 1 .. BufSize : ReadOutput(n)
  <2>1. chunk' <= BufSize /\ pc' # "write"
    BY <1>6 DEF ReadOutput
  <2> QED
    BY <1>5, <2>1
<1>7. CASE EndWrites
  <2>1. chunk' <= BufSize /\ pc' # "write"
    BY <1>7 DEF EndWrites, Room
  <2> QED
    BY <1>5, <2>1
<1>8. CASE HandlePacket
  <2>1. UNCHANGED <<chunk, pc>> /\ pc = "packets"
    BY <1>8 DEF HandlePacket, SkipClient, ReadEof, HandlePush, HandleAttach, HandleDetach,
                HandleForceDetach, HandleInfo, HandleWinch, HandleRedraw, HandleKill, ReadPacket,
                Serving
  <2> QED
    BY <1>5, <2>1 DEF Room
<1>9. CASE BuildFdSets \/ Select \/ AcceptClient \/ EndPackets \/ EvictAttached \/ DrainReplay
             \/ EndDrain \/ EndOutput \/ Reap
  <2>1. UNCHANGED chunk /\ pc' # "write"
    BY <1>9 DEF BuildFdSets, Select, AcceptClient, EndPackets, EvictAttached, DrainReplay, EndDrain,
                EndOutput, Reap, Cleanup
  <2> QED
    BY <1>5, <2>1 DEF Room
<1> QED
  BY <1>1, <1>2, <1>3, <1>4, <1>6, <1>7, <1>8, <1>9 DEF Next, DaemonStep, Ended

(***************************************************************************)
(* The theorems                                                            *)
(***************************************************************************)

\* The invariant holds in every state of every session.
LEMMA Invariant == Spec => []IInv
<1>1. Init => IInv
  BY InitIInv
<1>2. IInv /\ [Next]_vars => IInv'
  <2> SUFFICES ASSUME IInv, [Next]_vars
               PROVE  IInv'
    OBVIOUS
  <2>1. CASE DaemonStep
    BY <2>1, LoopSteps, PacketSteps, OutputSteps DEF DaemonStep
  <2>2. CASE \E c \in Conns : ClientStep(c)
    BY <2>2, ClientSteps
  <2>3. CASE ChildStep
    BY <2>3, ChildSteps
  <2>4. CASE UNCHANGED vars
    BY <2>4, Kept DEF IInv, TypeOK
  <2> QED
    BY <2>1, <2>2, <2>3, <2>4 DEF Next, Ended
<1> QED
  BY <1>1, <1>2, PTL DEF Spec

\* Every position the daemon keeps (of the loop, of a replay, in the ring) and every
\* buffer stays within its range, whatever is sent, received, lost or closed.
THEOREM Types == Spec => []TypeOK
<1>1. IInv => TypeOK
  BY DEF IInv
<1> QED
  BY <1>1, Invariant, PTL

\* swap_remove in the packet loop, retain after a forced detach and in
\* send_to_clients, and accept keep the client vector in agreement with the open
\* descriptors: select never sees a closed one, and none is leaked.
THEOREM TableAgrees == Spec => []FdTable
<1>1. IInv => FdTable
  BY DEF IInv
<1> QED
  BY <1>1, Invariant, PTL

\* Although the packet loop drops clients while it walks over them, a pass reads
\* every readable client once, and no other.
THEOREM EveryReadableOnce == Spec => []ServedOnce
<1>1. IInv => ServedOnce
  <2> SUFFICES ASSUME IInv
               PROVE  ServedOnce
    OBVIOUS
  <2>1. Distinct(<< >>) /\ Elements(<< >>) = {}
    BY EmptySeq DEF Distinct, Elements
  <2> QED
    BY <2>1 DEF IInv, Pass, ServedOnce
<1> QED
  BY <1>1, Invariant, PTL

\* A session that has ended has a dead child, no output unread, a finished log with
\* all of it, and no socket file.
THEOREM EndsComplete == Spec => []SessionEnd
<1>1. IInv => SessionEnd
  <2> SUFFICES ASSUME IInv, pc = "exited"
               PROVE  SessionEnd
    BY DEF SessionEnd
  <2>1. log \in [bytes : Nat, ended : BOOLEAN] /\ log.bytes = total /\ log.ended = TRUE
    BY DEF IInv, TypeOK, FileType, Ending
  <2> QED
    BY <2>1 DEF IInv, Ending, SessionEnd
<1> QED
  BY <1>1, Invariant, PTL

\* Where a connection that is reported writable takes a chunk, the daemon drops no
\* client for being slow: send_to_clients closes only connections whose peer is gone.
THEOREM OnlyDeadDropped ==
  ASSUME BufSize <= LowWater
  PROVE  Spec => []OnlyDeadCondemned
<1>1. Init => Room
  BY DEF Init, Room
<1>2. IInv /\ IInv' /\ Room /\ [Next]_vars => Room'
  BY RoomStep
<1>3. Room => OnlyDeadCondemned
  BY DEF Room, OnlyDeadCondemned
<1> QED
  BY <1>1, <1>2, <1>3, Invariant, PTL DEF Spec
=============================================================================
