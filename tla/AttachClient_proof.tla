------------------------- MODULE AttachClient_proof -------------------------
(***************************************************************************)
(* For every capacity of the connection and the keyboard and any number of *)
(* size changes: the client gives the terminal back as it found it, is     *)
(* attached exactly while it reads, and forgets no size.                   *)
(***************************************************************************)
EXTENDS AttachClient, SequenceTheorems, TLAPS


(***************************************************************************)
(* What the daemon will have read                                          *)
(***************************************************************************)

\* A packet put behind the others: the last size, and the last Attach or Detach, are
\* its own or, if it has none, what they were.
LEMMA AppendLast ==
  ASSUME NEW q \in Seq(Packets), NEW p \in Packets, NEW t, NEW a
  PROVE  /\ Append(q, p) \in Seq(Packets) /\ Len(Append(q, p)) = Len(q) + 1
         /\ Sized(p) => SizeAfter(t, Append(q, p), p.size)
         /\ \A s : ~Sized(p) /\ SizeAfter(t, q, s) => SizeAfter(t, Append(q, p), s)
         /\ Moves(p) => IsAfter(a, Append(q, p), p.type = "Attach")
         /\ \A b : ~Moves(p) /\ IsAfter(a, q, b) => IsAfter(a, Append(q, p), b)
<1>1. /\ Len(q) \in Nat /\ Append(q, p) \in Seq(Packets)
      /\ Len(Append(q, p)) = Len(q) + 1
      /\ \A i \in 1 .. Len(q) : Append(q, p)[i] = q[i]
      /\ Append(q, p)[Len(q) + 1] = p
  BY AppendProperties
<1> DEFINE r == Append(q, p)
           n == Len(q)
<1> HIDE DEF r, n
<1>2. /\ n \in Nat /\ Len(q) = n /\ Len(r) = n + 1 /\ r[n + 1] = p
      /\ \A i \in 1 .. n : r[i] = q[i]
  BY <1>1 DEF r, n
<1>3. /\ n + 1 \in 1 .. n + 1 /\ \A j : j \notin (n + 1) + 1 .. n + 1
      /\ \A i \in 1 .. n : i \in 1 .. n + 1
      /\ \A i \in 1 .. n + 1 : i \in 1 .. n \/ i = n + 1
      /\ \A i \in 1 .. n : \A j \in i + 1 .. n + 1 : j \in i + 1 .. n \/ j = n + 1
      /\ \A i \in 1 .. n : \A j \in i + 1 .. n : j \in 1 .. n
  BY <1>2
<1>4. Sized(p) => SizeAfter(t, r, p.size)
  BY <1>2, <1>3 DEF SizeAfter
<1>5. ASSUME NEW s, ~Sized(p), SizeAfter(t, q, s)
      PROVE  SizeAfter(t, r, s)
  <2>1. CASE t = s /\ \A i \in 1 .. n : ~Sized(q[i])
    BY <1>2, <1>3, <1>5, <2>1 DEF SizeAfter
  <2>2. CASE \E i \in 1 .. n : /\ Sized(q[i]) /\ q[i].size = s
                               /\ \A j \in i + 1 .. n : ~Sized(q[j])
    <3>1. PICK i \in 1 .. n : /\ Sized(q[i]) /\ q[i].size = s
                              /\ \A j \in i + 1 .. n : ~Sized(q[j])
      BY <2>2
    <3>2. Sized(r[i]) /\ r[i].size = s /\ \A j \in i + 1 .. n + 1 : ~Sized(r[j])
      BY <1>2, <1>3, <1>5, <3>1
    <3> QED
      BY <1>2, <1>3, <3>2 DEF SizeAfter
  <2> QED
    BY <1>2, <1>5, <2>1, <2>2 DEF SizeAfter
<1>6. Moves(p) => IsAfter(a, r, p.type = "Attach")
  BY <1>2, <1>3 DEF IsAfter
<1>7. ASSUME NEW b, ~Moves(p), IsAfter(a, q, b)
      PROVE  IsAfter(a, r, b)
  <2>1. CASE a = b /\ \A i \in 1 .. n : ~Moves(q[i])
    BY <1>2, <1>3, <1>7, <2>1 DEF IsAfter
  <2>2. CASE \E i \in 1 .. n : /\ Moves(q[i]) /\ b = (q[i].type = "Attach")
                               /\ \A j \in i + 1 .. n : ~Moves(q[j])
    <3>1. PICK i \in 1 .. n : /\ Moves(q[i]) /\ b = (q[i].type = "Attach")
                              /\ \A j \in i + 1 .. n : ~Moves(q[j])
      BY <2>2
    <3>2. Moves(r[i]) /\ b = (r[i].type = "Attach") /\ \A j \in i + 1 .. n + 1 : ~Moves(r[j])
      BY <1>2, <1>3, <1>7, <3>1
    <3> QED
      BY <1>2, <1>3, <3>2 DEF IsAfter
  <2> QED
    BY <1>2, <1>7, <2>1, <2>2 DEF IsAfter
<1> QED
  BY <1>1, <1>4, <1>5, <1>6, <1>7 DEF r

\* The daemon reads the first of the packets and believes what it says.
LEMMA TailLast ==
  ASSUME NEW q \in Seq(Packets), q # << >>, NEW t, NEW a
  PROVE  /\ Head(q) \in Packets /\ Tail(q) \in Seq(Packets) /\ Len(Tail(q)) = Len(q) - 1
         /\ \A s : SizeAfter(t, q, s) =>
              SizeAfter(IF Sized(Head(q)) THEN Head(q).size ELSE t, Tail(q), s)
         /\ \A b : IsAfter(a, q, b) =>
              IsAfter(IF Moves(Head(q)) THEN Head(q).type = "Attach" ELSE a, Tail(q), b)
<1> DEFINE r == Tail(q)
           n == Len(q)
           h == Head(q)
<1>1. /\ n \in Nat /\ n > 0 /\ h = q[1] /\ h \in Packets
      /\ r \in Seq(Packets) /\ Len(r) = n - 1 /\ \A i \in 1 .. n - 1 : r[i] = q[i + 1]
  BY EmptySeq, HeadTailProperties
<1> HIDE DEF r, n, h
<1>2. /\ 1 \in 1 .. n
      /\ \A i \in 1 .. n : i = 1 \/ (i - 1 \in 1 .. n - 1 /\ (i - 1) + 1 = i)
      /\ \A i \in 1 .. n - 1 : i + 1 \in 1 .. n /\ i + 1 \in 1 + 1 .. n
      /\ \A i \in 1 .. n : \A j \in (i - 1) + 1 .. n - 1 : j + 1 \in i + 1 .. n
  BY <1>1
<1>3. ASSUME NEW s, SizeAfter(t, q, s)
      PROVE  SizeAfter(IF Sized(h) THEN h.size ELSE t, r, s)
  <2>1. CASE t = s /\ \A i \in 1 .. n : ~Sized(q[i])
    BY <1>1, <1>2, <2>1 DEF SizeAfter
  <2>2. CASE \E i \in 1 .. n : /\ Sized(q[i]) /\ q[i].size = s
                               /\ \A j \in i + 1 .. n : ~Sized(q[j])
    <3>1. PICK i \in 1 .. n : /\ Sized(q[i]) /\ q[i].size = s
                              /\ \A j \in i + 1 .. n : ~Sized(q[j])
      BY <2>2
    <3>2. CASE i = 1
      BY <1>1, <1>2, <3>1, <3>2 DEF SizeAfter
    <3>3. CASE i # 1
      <4>1. /\ i - 1 \in 1 .. n - 1 /\ Sized(r[i - 1]) /\ r[i - 1].size = s
            /\ \A j \in (i - 1) + 1 .. n - 1 : ~Sized(r[j])
        <5>1. i - 1 \in 1 .. n - 1 /\ (i - 1) + 1 = i
          BY <1>2, <3>3
        <5>2. \A j \in (i - 1) + 1 .. n - 1 : j \in 1 .. n - 1 /\ j + 1 \in i + 1 .. n
          BY <1>1, <1>2, <5>1
        <5> QED
          BY <1>1, <3>1, <5>1, <5>2
      <4> QED
        BY <1>1, <4>1 DEF SizeAfter
    <3> QED
      BY <3>2, <3>3
  <2> QED
    BY <1>3, <2>1, <2>2 DEF SizeAfter, n
<1>4. ASSUME NEW b, IsAfter(a, q, b)
      PROVE  IsAfter(IF Moves(h) THEN h.type = "Attach" ELSE a, r, b)
  <2>1. CASE a = b /\ \A i \in 1 .. n : ~Moves(q[i])
    BY <1>1, <1>2, <2>1 DEF IsAfter
  <2>2. CASE \E i \in 1 .. n : /\ Moves(q[i]) /\ b = (q[i].type = "Attach")
                               /\ \A j \in i + 1 .. n : ~Moves(q[j])
    <3>1. PICK i \in 1 .. n : /\ Moves(q[i]) /\ b = (q[i].type = "Attach")
                              /\ \A j \in i + 1 .. n : ~Moves(q[j])
      BY <2>2
    <3>2. CASE i = 1
      <4>1. b = (h.type = "Attach") /\ \A j \in 1 .. n - 1 : ~Moves(r[j])
        BY <1>1, <1>2, <3>1, <3>2
      <4>2. Moves(h)
        BY <1>1, <3>1, <3>2
      <4> QED
        BY <1>1, <4>1, <4>2 DEF IsAfter
    <3>3. CASE i # 1
      <4>1. /\ i - 1 \in 1 .. n - 1 /\ Moves(r[i - 1]) /\ b = (r[i - 1].type = "Attach")
            /\ \A j \in (i - 1) + 1 .. n - 1 : ~Moves(r[j])
        <5>1. i - 1 \in 1 .. n - 1 /\ (i - 1) + 1 = i
          BY <1>2, <3>3
        <5>2. \A j \in (i - 1) + 1 .. n - 1 : j \in 1 .. n - 1 /\ j + 1 \in i + 1 .. n
          BY <1>1, <1>2, <5>1
        <5> QED
          BY <1>1, <3>1, <5>1, <5>2
      <4> QED
        BY <1>1, <4>1 DEF IsAfter
    <3> QED
      BY <3>2, <3>3
  <2> QED
    BY <1>4, <2>1, <2>2 DEF IsAfter, n
<1> QED
  BY <1>1, <1>3, <1>4 DEF r, n, h

(***************************************************************************)
(* The inductive invariant                                                 *)
(***************************************************************************)

\* The packet being written, where the client goes on then, and where if it fails.
Flows == {<<"Attach", "redraw", "return">>, <<"Redraw", "check", "return">>,
          <<"Detach", "cook", "cook">>, <<"Push", "size", "size">>,
          <<"Attach", "reredraw", "reredraw">>, <<"Redraw", "size", "size">>,
          <<"Winch", "check", "check">>}
Flow == pc = "send" => <<sending.packet.type, sending.then, sending.failed>> \in Flows

\* From raw_terminal on the terminal can be restored at any step; it is in its own
\* mode before that, from the handing over to the shell on, and in the end.
Modes == /\ pc \notin {"handlers", "raw", "exited"} => backedUp = TRUE
         /\ pc \in {"handlers", "raw", "stop", "stopped", "exited"} => term = "cooked"

\* What the daemon will believe of the client wherever it is.
Loop  == {"redraw", "check", "fdset", "select", "server", "stdin", "size", "report",
          "reredraw"}
Told  == server = "open" =>
            /\ pc \in Loop => WillBe(TRUE)
            /\ pc = "send" /\ ~Moves(sending.packet) => WillBe(TRUE)
            /\ pc \in {"cook", "stop", "stopped", "reraw"} => WillBe(FALSE)

\* A size that is not the window's any more is only written while WIN_CHANGED is set.
Stale == (pc = "send" /\ Sized(sending.packet) /\ sending.packet.size # size) => winChanged

IInv == TypeOK /\ Flow /\ Modes /\ Told /\ Stale /\ SizeNotForgotten

(***************************************************************************)
(* Its parts, step by step                                                 *)
(***************************************************************************)

\* Packets that the client writes, and reading of keys.
LEMMA Packed ==
  ASSUME TypeOK, NEW type \in {"Push", "Attach", "Detach", "Winch", "Redraw"}
  PROVE  [type |-> type, size |-> IF type \in SizedTypes THEN size ELSE 0] \in Packets
BY ClientAssumption DEF TypeOK, Packets

LEMMA ReadKeys ==
  ASSUME TypeOK, Read
  PROVE  keys' \in Seq(Keys) /\ Len(keys') <= KeyCap
<1>1. Len(keys) \in Nat /\ keys \in Seq(Keys) /\ Len(keys) <= KeyCap
      /\ KeyCap \in Nat /\ ChunkLen \in Nat
  BY ClientAssumption, LenProperties DEF TypeOK
<1>2. Taken \in 0 .. Len(keys)
  BY <1>1 DEF Taken
<1>3. \A i \in Taken + 1 .. Len(keys) : keys[i] \in Keys
  BY <1>1, <1>2, ElementOfSeq
<1>4. /\ keys' \in Seq(Keys)
      /\ Len(keys') = IF Taken + 1 <= Len(keys) THEN Len(keys) - (Taken + 1) + 1 ELSE 0
  BY <1>1, <1>2, <1>3, SubSeqProperties DEF Read
<1> QED
  BY <1>1, <1>2, <1>4

\* Every step keeps the types.
LEMMA NextTypes ==
  ASSUME TypeOK, Flow, [Next]_vars
  PROVE  TypeOK'
<1> USE DEF TypeOK, Goto, progVars, sigVars, termVars, userVars, serverVars
<1>1. CASE InstallHandlers
  BY <1>1 DEF InstallHandlers, Places
<1>2. CASE RawTerminal
  BY <1>2, Packed DEF RawTerminal, Write, Places
<1>3. CASE FirstRedraw
  BY <1>3, Packed DEF FirstRedraw, Write, Places
<1>4. CASE Send
  <2>1. pc = "send" /\ sending.packet \in Packets /\ sending.then \in Places
        /\ sending.failed \in Places /\ Nothing \in [packet : Packets, then : Places, failed : Places]
    BY <1>4, ClientAssumption DEF Send, Places, Packets, Nothing
  <2>2. queue' \in Seq(Packets) /\ Len(queue') <= QueueCap
    <3>1. queue \in Seq(Packets) /\ Len(queue) \in Nat /\ Len(queue) <= QueueCap
          /\ QueueCap \in Nat
      BY ClientAssumption, LenProperties
    <3>2. /\ Append(queue, sending.packet) \in Seq(Packets)
          /\ Len(Append(queue, sending.packet)) = Len(queue) + 1
      BY <2>1, <3>1, AppendProperties
    <3>3. \/ queue' = queue
          \/ Len(queue) < QueueCap /\ queue' = Append(queue, sending.packet)
      BY <1>4 DEF Send
    <3> HIDE DEF TypeOK
    <3> QED
      BY <3>1, <3>2, <3>3
  <2> QED
    BY <1>4, <2>1, <2>2 DEF Send
<1>5. CASE ReturnFailed
  BY <1>5 DEF ReturnFailed, RestoreTerm, Places
<1>6. CASE CheckDie
  BY <1>6 DEF CheckDie, Leave, Places
<1>7. CASE EnterSelect
  BY <1>7 DEF EnterSelect, Places
<1>8. CASE Select
  BY <1>8 DEF Select, Readable, Places
<1>9. CASE ServerData
  BY <1>9 DEF ServerData, Leave, Places
<1>10. CASE NoInput
  BY <1>10 DEF NoInput, Places
<1>11. CASE StdinClosed
  BY <1>11 DEF StdinClosed, Leave, Places
<1>12. CASE SuspendKey
  BY <1>12, Packed, ReadKeys DEF SuspendKey, Write, Places, FirstKey
<1>13. CASE DetachKey
  BY <1>13, ReadKeys DEF DetachKey, FirstKey, Leave, Places
<1>14. CASE PushKeys
  BY <1>14, Packed, ReadKeys DEF PushKeys, Write, Places, FirstKey
<1>15. CASE CookTerminal
  BY <1>15 DEF CookTerminal, Places
<1>16. CASE Stop
  BY <1>16 DEF Stop, Places
<1>17. CASE Reraw
  BY <1>17, Packed DEF Reraw, Write, Places
<1>18. CASE Reredraw
  BY <1>18, Packed DEF Reredraw, Write, Places
<1>19. CASE CheckSize
  <2>1. pc' \in Places /\ winChanged' \in BOOLEAN
    BY <1>19 DEF CheckSize, Places
  <2>2. {shouldDie, winChanged, backedUp, tty, output, attached}' \subseteq BOOLEAN
    BY <1>19, <2>1 DEF CheckSize
  <2> QED
    BY <1>19, <2>1, <2>2 DEF CheckSize
<1>20. CASE Report
  BY <1>20, Packed DEF Report, Write, Places
<1>21. CASE RestoreAndExit
  <2>1. {shouldDie, winChanged, backedUp, tty, output, attached}' \subseteq BOOLEAN
    BY <1>21 DEF RestoreAndExit
  <2> QED
    BY <1>21, <2>1 DEF RestoreAndExit, Places
<1>22. CASE DieSignal /\ UNCHANGED <<userVars, serverVars>>
  <2>1. {shouldDie, winChanged, backedUp, tty, output, attached}' \subseteq BOOLEAN
    BY <1>22 DEF DieSignal
  <2>2. /\ pc' \in Places /\ code' \in {0, 1} /\ UNCHANGED <<sending, ready>>
        /\ pending' \subseteq {"die", "winch"} /\ term' \in {"cooked", "raw"}
    BY <1>22 DEF DieSignal, RestoreTerm, Interrupted, Places
  <2> QED
    BY <1>22, <2>1, <2>2
<1>23. CASE Resize
  <2>1. size' \in 0 .. MaxResize
    BY <1>23, ClientAssumption DEF Resize
  <2>2. /\ pc' \in Places /\ winChanged' \in BOOLEAN /\ pending' \subseteq {"die", "winch"}
        /\ UNCHANGED <<sending, ready, code, shouldDie>>
    BY <1>23 DEF Resize, Interrupted, Places
  <2>3. {shouldDie, winChanged, backedUp, tty, output, attached}' \subseteq BOOLEAN
    BY <1>23, <2>2 DEF Resize
  <2> QED
    BY <1>23, <2>1, <2>2, <2>3 DEF Resize
<1>24. CASE Resume
  BY <1>24 DEF Resume, Places
<1>25. CASE HangUp
  <2>1. tty' \in BOOLEAN /\ UNCHANGED <<shouldDie, winChanged, backedUp, output, attached>>
    BY <1>25 DEF HangUp
  <2>2. {shouldDie, winChanged, backedUp, tty, output, attached}' \subseteq BOOLEAN
    BY <2>1
  <2> QED
    BY <1>25, <2>2 DEF HangUp
<1>26. CASE \E k \in Keys : Type(k)
  <2>1. PICK k \in Keys : Type(k)
    BY <1>26
  <2>2. /\ Len(keys) \in Nat /\ keys' \in Seq(Keys) /\ Len(keys') = Len(keys) + 1
        /\ Len(keys) < KeyCap
    BY <2>1, AppendProperties DEF Type
  <2>3. Len(keys') <= KeyCap
    BY <2>2, ClientAssumption
  <2> QED
    BY <2>1, <2>2, <2>3 DEF Type
<1>27. CASE ServerReads
  <2>1. /\ Head(queue) \in Packets /\ queue' \in Seq(Packets)
        /\ Len(queue') = Len(queue) - 1 /\ Len(queue) \in Nat
    BY <1>27, TailLast, LenProperties DEF ServerReads
  <2>2. Len(queue') <= QueueCap
    BY <2>1, ClientAssumption
  <2>3. told' \in 0 .. MaxResize
    BY <1>27, <2>1 DEF ServerReads, Packets
  <2>4. attached' \in BOOLEAN
    BY <1>27, Zenon DEF ServerReads
  <2> QED
    BY <1>27, <2>1, <2>2, <2>3, <2>4 DEF ServerReads
<1>28. CASE ServerWrites
  BY <1>28 DEF ServerWrites
<1>29. CASE ServerCloses
  BY <1>29 DEF ServerCloses
<1>30. CASE UNCHANGED vars
  BY <1>30 DEF vars
<1> QED
  BY <1>1, <1>2, <1>3, <1>4, <1>5, <1>6, <1>7, <1>8, <1>9, <1>10, <1>11, <1>12, <1>13,
     <1>14, <1>15, <1>16, <1>17, <1>18, <1>19, <1>20, <1>21, <1>22, <1>23, <1>24, <1>25,
     <1>26, <1>27, <1>28, <1>29, <1>30 DEF Next, ClientStep, UserStep, ServerStep, Gone

\* Every step keeps what is written and where it goes on.
LEMMA NextFlow ==
  ASSUME Flow, [Next]_vars
  PROVE  Flow'
<1> USE DEF Flow, Flows, Goto, progVars, sigVars, termVars, userVars, serverVars
<1>1. CASE InstallHandlers
  BY <1>1 DEF InstallHandlers
<1>2. CASE RawTerminal
  BY <1>2 DEF RawTerminal, Write
<1>3. CASE FirstRedraw
  BY <1>3 DEF FirstRedraw, Write
<1>4. CASE Send
  BY <1>4 DEF Send
<1>5. CASE ReturnFailed
  BY <1>5 DEF ReturnFailed, RestoreTerm
<1>6. CASE CheckDie
  BY <1>6 DEF CheckDie, Leave
<1>7. CASE EnterSelect
  BY <1>7 DEF EnterSelect
<1>8. CASE Select
  BY <1>8 DEF Select
<1>9. CASE ServerData
  BY <1>9 DEF ServerData, Leave
<1>10. CASE NoInput
  BY <1>10 DEF NoInput
<1>11. CASE StdinClosed
  BY <1>11 DEF StdinClosed, Leave
<1>12. CASE SuspendKey
  BY <1>12 DEF SuspendKey, Write, FirstKey
<1>13. CASE DetachKey
  BY <1>13 DEF DetachKey, FirstKey, Leave
<1>14. CASE PushKeys
  BY <1>14 DEF PushKeys, Write, FirstKey
<1>15. CASE CookTerminal
  BY <1>15 DEF CookTerminal
<1>16. CASE Stop
  BY <1>16 DEF Stop
<1>17. CASE Reraw
  BY <1>17 DEF Reraw, Write
<1>18. CASE Reredraw
  BY <1>18 DEF Reredraw, Write
<1>19. CASE CheckSize
  BY <1>19 DEF CheckSize
<1>20. CASE Report
  BY <1>20 DEF Report, Write
<1>21. CASE RestoreAndExit
  BY <1>21 DEF RestoreAndExit
<1>22. CASE DieSignal /\ UNCHANGED <<userVars, serverVars>>
  BY <1>22 DEF DieSignal, RestoreTerm, Interrupted
<1>23. CASE Resize
  BY <1>23 DEF Resize, Interrupted
<1>24. CASE Resume
  BY <1>24 DEF Resume
<1>25. CASE HangUp
  BY <1>25 DEF HangUp
<1>26. CASE \E k \in Keys : Type(k)
  BY <1>26 DEF Type
<1>27. CASE ServerReads
  BY <1>27 DEF ServerReads
<1>28. CASE ServerWrites
  BY <1>28 DEF ServerWrites
<1>29. CASE ServerCloses
  BY <1>29 DEF ServerCloses
<1>30. CASE UNCHANGED vars
  BY <1>30 DEF vars
<1> QED
  BY <1>1, <1>2, <1>3, <1>4, <1>5, <1>6, <1>7, <1>8, <1>9, <1>10, <1>11, <1>12, <1>13,
     <1>14, <1>15, <1>16, <1>17, <1>18, <1>19, <1>20, <1>21, <1>22, <1>23, <1>24, <1>25,
     <1>26, <1>27, <1>28, <1>29, <1>30 DEF Next, ClientStep, UserStep, ServerStep, Gone

\* Every step keeps the terminal to be restored.
LEMMA NextModes ==
  ASSUME TypeOK, Flow, Modes, [Next]_vars
  PROVE  Modes'
<1> USE DEF TypeOK, Flow, Flows, Modes, Goto, progVars, sigVars, termVars, userVars, serverVars
<1>1. CASE InstallHandlers
  BY <1>1 DEF InstallHandlers
<1>2. CASE RawTerminal
  BY <1>2 DEF RawTerminal, Write
<1>3. CASE FirstRedraw
  BY <1>3 DEF FirstRedraw, Write
<1>4. CASE Send
  BY <1>4 DEF Send
<1>5. CASE ReturnFailed
  BY <1>5 DEF ReturnFailed, RestoreTerm
<1>6. CASE CheckDie
  BY <1>6 DEF CheckDie, Leave
<1>7. CASE EnterSelect
  BY <1>7 DEF EnterSelect
<1>8. CASE Select
  BY <1>8 DEF Select
<1>9. CASE ServerData
  BY <1>9 DEF ServerData, Leave
<1>10. CASE NoInput
  BY <1>10 DEF NoInput
<1>11. CASE StdinClosed
  BY <1>11 DEF StdinClosed, Leave
<1>12. CASE SuspendKey
  BY <1>12 DEF SuspendKey, Write, FirstKey
<1>13. CASE DetachKey
  BY <1>13 DEF DetachKey, FirstKey, Leave
<1>14. CASE PushKeys
  BY <1>14 DEF PushKeys, Write, FirstKey
<1>15. CASE CookTerminal
  BY <1>15 DEF CookTerminal
<1>16. CASE Stop
  BY <1>16 DEF Stop
<1>17. CASE Reraw
  BY <1>17 DEF Reraw, Write
<1>18. CASE Reredraw
  BY <1>18 DEF Reredraw, Write
<1>19. CASE CheckSize
  BY <1>19 DEF CheckSize
<1>20. CASE Report
  BY <1>20 DEF Report, Write
<1>21. CASE RestoreAndExit
  BY <1>21 DEF RestoreAndExit
<1>22. CASE DieSignal /\ UNCHANGED <<userVars, serverVars>>
  BY <1>22 DEF DieSignal, RestoreTerm, Interrupted
<1>23. CASE Resize
  BY <1>23 DEF Resize, Interrupted
<1>24. CASE Resume
  BY <1>24 DEF Resume
<1>25. CASE HangUp
  BY <1>25 DEF HangUp
<1>26. CASE \E k \in Keys : Type(k)
  BY <1>26 DEF Type
<1>27. CASE ServerReads
  BY <1>27 DEF ServerReads
<1>28. CASE ServerWrites
  BY <1>28 DEF ServerWrites
<1>29. CASE ServerCloses
  BY <1>29 DEF ServerCloses
<1>30. CASE UNCHANGED vars
  BY <1>30 DEF vars
<1> QED
  BY <1>1, <1>2, <1>3, <1>4, <1>5, <1>6, <1>7, <1>8, <1>9, <1>10, <1>11, <1>12, <1>13,
     <1>14, <1>15, <1>16, <1>17, <1>18, <1>19, <1>20, <1>21, <1>22, <1>23, <1>24, <1>25,
     <1>26, <1>27, <1>28, <1>29, <1>30 DEF Next, ClientStep, UserStep, ServerStep, Gone

\* Every step keeps a size to be written current or noted as changed.
LEMMA NextStale ==
  ASSUME Flow, Stale, [Next]_vars
  PROVE  Stale'
<1> USE DEF Stale, Sized, SizedTypes, Goto, progVars, sigVars, termVars, userVars, serverVars
<1>1. CASE InstallHandlers
  BY <1>1 DEF InstallHandlers
<1>2. CASE RawTerminal
  BY <1>2 DEF RawTerminal, Write
<1>3. CASE FirstRedraw
  BY <1>3 DEF FirstRedraw, Write
<1>4. CASE Send
  BY <1>4 DEF Send, Flow, Flows
<1>5. CASE ReturnFailed
  BY <1>5 DEF ReturnFailed, RestoreTerm
<1>6. CASE CheckDie
  BY <1>6 DEF CheckDie, Leave
<1>7. CASE EnterSelect
  BY <1>7 DEF EnterSelect
<1>8. CASE Select
  BY <1>8 DEF Select
<1>9. CASE ServerData
  BY <1>9 DEF ServerData, Leave
<1>10. CASE NoInput
  BY <1>10 DEF NoInput
<1>11. CASE StdinClosed
  BY <1>11 DEF StdinClosed, Leave
<1>12. CASE SuspendKey
  BY <1>12 DEF SuspendKey, Write, FirstKey
<1>13. CASE DetachKey
  BY <1>13 DEF DetachKey, FirstKey, Leave
<1>14. CASE PushKeys
  BY <1>14 DEF PushKeys, Write, FirstKey
<1>15. CASE CookTerminal
  BY <1>15 DEF CookTerminal
<1>16. CASE Stop
  BY <1>16 DEF Stop
<1>17. CASE Reraw
  BY <1>17 DEF Reraw, Write
<1>18. CASE Reredraw
  BY <1>18 DEF Reredraw, Write
<1>19. CASE CheckSize
  BY <1>19 DEF CheckSize
<1>20. CASE Report
  BY <1>20 DEF Report, Write
<1>21. CASE RestoreAndExit
  BY <1>21 DEF RestoreAndExit
<1>22. CASE DieSignal /\ UNCHANGED <<userVars, serverVars>>
  BY <1>22 DEF DieSignal, RestoreTerm, Interrupted
<1>23. CASE Resize
  BY <1>23 DEF Resize, Interrupted
<1>24. CASE Resume
  BY <1>24 DEF Resume
<1>25. CASE HangUp
  BY <1>25 DEF HangUp
<1>26. CASE \E k \in Keys : Type(k)
  BY <1>26 DEF Type
<1>27. CASE ServerReads
  BY <1>27 DEF ServerReads
<1>28. CASE ServerWrites
  BY <1>28 DEF ServerWrites
<1>29. CASE ServerCloses
  BY <1>29 DEF ServerCloses
<1>30. CASE UNCHANGED vars
  BY <1>30 DEF vars
<1> QED
  BY <1>1, <1>2, <1>3, <1>4, <1>5, <1>6, <1>7, <1>8, <1>9, <1>10, <1>11, <1>12, <1>13,
     <1>14, <1>15, <1>16, <1>17, <1>18, <1>19, <1>20, <1>21, <1>22, <1>23, <1>24, <1>25,
     <1>26, <1>27, <1>28, <1>29, <1>30 DEF Next, ClientStep, UserStep, ServerStep, Gone

\* Every step keeps what the daemon will believe in step with what the client does.
LEMMA NextTold ==
  ASSUME TypeOK, Flow, Told, [Next]_vars
  PROVE  Told'
<1> USE DEF Told, Loop, Moves, Goto, progVars, sigVars, termVars, userVars, serverVars
<1>0. UNCHANGED <<queue, attached>> => \A b : WillBe(b)' = WillBe(b)
  BY DEF WillBe
<1>1. CASE InstallHandlers
  BY <1>1, <1>0 DEF InstallHandlers
<1>2. CASE RawTerminal
  BY <1>2, <1>0 DEF RawTerminal, Write
<1>3. CASE FirstRedraw
  BY <1>3, <1>0 DEF FirstRedraw, Write
<1>4. CASE Send
  <2>1. CASE server # "open"
    BY <1>4, <2>1 DEF Send
  <2>2. CASE server = "open"
    <3>1. /\ queue \in Seq(Packets) /\ sending.packet \in Packets
          /\ queue' = Append(queue, sending.packet) /\ attached' = attached
          /\ pc = "send" /\ pc' = sending.then
      BY <1>4, <2>2 DEF Send, TypeOK
    <3>2. /\ Moves(sending.packet) => IsAfter(attached, queue', sending.packet.type = "Attach")
          /\ ~Moves(sending.packet) => IsAfter(attached, queue', TRUE)
      <4> HIDE DEF Moves
      <4> QED
        BY <2>2, <3>1, AppendLast DEF WillBe
    <3>3. /\ pc' \in Loop => IsAfter(attached, queue', TRUE)
          /\ pc' \notin Loop => pc' = "cook" /\ IsAfter(attached, queue', FALSE)
      <4>1. CASE sending.packet.type = "Attach"
        <5>1. pc' \in {"redraw", "reredraw"}
          BY <3>1, <4>1 DEF Flow, Flows
        <5> QED
          BY <3>2, <4>1, <5>1
      <4>2. CASE sending.packet.type = "Detach"
        <5>1. pc' = "cook"
          BY <3>1, <4>2 DEF Flow, Flows
        <5>2. (sending.packet.type = "Attach") = FALSE
          BY <4>2
        <5> QED
          BY <3>2, <4>2, <5>1, <5>2
      <4>3. CASE ~Moves(sending.packet)
        <5>1. pc' \in {"check", "size"}
          BY <3>1, <4>3 DEF Flow, Flows
        <5> QED
          BY <3>2, <4>3, <5>1
      <4> QED
        BY <4>1, <4>2, <4>3
    <3> QED
      BY <3>1, <3>3 DEF WillBe
  <2> QED
    BY <2>1, <2>2
<1>5. CASE ReturnFailed
  BY <1>5, <1>0 DEF ReturnFailed, RestoreTerm
<1>6. CASE CheckDie
  BY <1>6, <1>0 DEF CheckDie, Leave
<1>7. CASE EnterSelect
  BY <1>7, <1>0 DEF EnterSelect
<1>8. CASE Select
  BY <1>8, <1>0 DEF Select
<1>9. CASE ServerData
  BY <1>9, <1>0 DEF ServerData, Leave
<1>10. CASE NoInput
  BY <1>10, <1>0 DEF NoInput
<1>11. CASE StdinClosed
  BY <1>11, <1>0 DEF StdinClosed, Leave
<1>12. CASE SuspendKey
  BY <1>12, <1>0 DEF SuspendKey, Write, FirstKey
<1>13. CASE DetachKey
  BY <1>13, <1>0 DEF DetachKey, FirstKey, Leave
<1>14. CASE PushKeys
  BY <1>14, <1>0 DEF PushKeys, Write, FirstKey
<1>15. CASE CookTerminal
  BY <1>15, <1>0 DEF CookTerminal
<1>16. CASE Stop
  BY <1>16, <1>0 DEF Stop
<1>17. CASE Reraw
  BY <1>17, <1>0 DEF Reraw, Write
<1>18. CASE Reredraw
  BY <1>18, <1>0 DEF Reredraw, Write
<1>19. CASE CheckSize
  BY <1>19, <1>0 DEF CheckSize
<1>20. CASE Report
  BY <1>20, <1>0 DEF Report, Write
<1>21. CASE RestoreAndExit
  BY <1>21, <1>0 DEF RestoreAndExit
<1>22. CASE DieSignal /\ UNCHANGED <<userVars, serverVars>>
  BY <1>22, <1>0 DEF DieSignal, RestoreTerm, Interrupted
<1>23. CASE Resize
  BY <1>23, <1>0 DEF Resize, Interrupted
<1>24. CASE Resume
  BY <1>24, <1>0 DEF Resume
<1>25. CASE HangUp
  BY <1>25, <1>0 DEF HangUp
<1>26. CASE \E k \in Keys : Type(k)
  BY <1>26, <1>0 DEF Type
<1>27. CASE ServerReads
  <2>1. \A b : WillBe(b) => WillBe(b)'
    <3>1. /\ queue \in Seq(Packets) /\ queue # << >> /\ queue' = Tail(queue)
          /\ attached \in BOOLEAN
      BY <1>27 DEF ServerReads, TypeOK
    <3>2. attached' = IF Moves(Head(queue)) THEN Head(queue).type = "Attach" ELSE attached
      BY <1>27, <3>1 DEF ServerReads
    <3> QED
      BY <3>1, <3>2, TailLast DEF WillBe
  <2> QED
    BY <1>27, <2>1 DEF ServerReads
<1>28. CASE ServerWrites
  BY <1>28, <1>0 DEF ServerWrites
<1>29. CASE ServerCloses
  BY <1>29 DEF ServerCloses
<1>30. CASE UNCHANGED vars
  BY <1>30, <1>0 DEF vars
<1> QED
  BY <1>1, <1>2, <1>3, <1>4, <1>5, <1>6, <1>7, <1>8, <1>9, <1>10, <1>11, <1>12, <1>13,
     <1>14, <1>15, <1>16, <1>17, <1>18, <1>19, <1>20, <1>21, <1>22, <1>23, <1>24, <1>25,
     <1>26, <1>27, <1>28, <1>29, <1>30 DEF Next, ClientStep, UserStep, ServerStep, Gone

\* No step forgets a change of the size.
LEMMA NextSize ==
  ASSUME TypeOK, Flow, Stale, SizeNotForgotten, [Next]_vars
  PROVE  SizeNotForgotten'
<1> USE DEF SizeNotForgotten, Sized, SizedTypes, Goto, progVars, sigVars, termVars, userVars, serverVars
<1>0. UNCHANGED <<queue, told, size>> => WillKnow(size)' = WillKnow(size)
  BY DEF WillKnow
<1>1. CASE InstallHandlers
  BY <1>1, <1>0 DEF InstallHandlers
<1>2. CASE RawTerminal
  BY <1>2, <1>0 DEF RawTerminal, Write
<1>3. CASE FirstRedraw
  BY <1>3, <1>0 DEF FirstRedraw, Write
<1>4. CASE Send
  <2>1. CASE server # "open"
    BY <1>4, <2>1 DEF Send
  <2>2. CASE server = "open"
    <3>1. /\ queue \in Seq(Packets) /\ sending.packet \in Packets
          /\ queue' = Append(queue, sending.packet) /\ told' = told /\ size' = size
          /\ pc = "send" /\ pc' = sending.then /\ winChanged' = winChanged
      BY <1>4, <2>2 DEF Send, TypeOK
    <3>2. CASE Sized(sending.packet)
      <4>1. sending.packet.size = size => WillKnow(size)'
        BY <3>1, <3>2, AppendLast DEF WillKnow
      <4> QED
        BY <1>4, <3>1, <3>2, <4>1 DEF Stale
    <3>3. CASE ~Sized(sending.packet)
      <4>1. WillKnow(size) => WillKnow(size)'
        BY <3>1, <3>3, AppendLast DEF WillKnow
      <4> QED
        BY <2>2, <3>1, <3>3, <4>1
    <3> QED
      BY <3>2, <3>3
  <2> QED
    BY <2>1, <2>2
<1>5. CASE ReturnFailed
  BY <1>5, <1>0 DEF ReturnFailed, RestoreTerm
<1>6. CASE CheckDie
  BY <1>6, <1>0 DEF CheckDie, Leave
<1>7. CASE EnterSelect
  BY <1>7, <1>0 DEF EnterSelect
<1>8. CASE Select
  BY <1>8, <1>0 DEF Select
<1>9. CASE ServerData
  BY <1>9, <1>0 DEF ServerData, Leave
<1>10. CASE NoInput
  BY <1>10, <1>0 DEF NoInput
<1>11. CASE StdinClosed
  BY <1>11, <1>0 DEF StdinClosed, Leave
<1>12. CASE SuspendKey
  BY <1>12, <1>0 DEF SuspendKey, Write, FirstKey
<1>13. CASE DetachKey
  BY <1>13, <1>0 DEF DetachKey, FirstKey, Leave
<1>14. CASE PushKeys
  BY <1>14, <1>0 DEF PushKeys, Write, FirstKey
<1>15. CASE CookTerminal
  BY <1>15, <1>0 DEF CookTerminal
<1>16. CASE Stop
  BY <1>16, <1>0 DEF Stop
<1>17. CASE Reraw
  BY <1>17, <1>0 DEF Reraw, Write
<1>18. CASE Reredraw
  BY <1>18, <1>0 DEF Reredraw, Write
<1>19. CASE CheckSize
  BY <1>19, <1>0 DEF CheckSize
<1>20. CASE Report
  BY <1>20, <1>0 DEF Report, Write
<1>21. CASE RestoreAndExit
  BY <1>21, <1>0 DEF RestoreAndExit
<1>22. CASE DieSignal /\ UNCHANGED <<userVars, serverVars>>
  BY <1>22, <1>0 DEF DieSignal, RestoreTerm, Interrupted
<1>23. CASE Resize
  BY <1>23, <1>0 DEF Resize, Interrupted
<1>24. CASE Resume
  BY <1>24, <1>0 DEF Resume
<1>25. CASE HangUp
  BY <1>25, <1>0 DEF HangUp
<1>26. CASE \E k \in Keys : Type(k)
  BY <1>26, <1>0 DEF Type
<1>27. CASE ServerReads
  <2>1. WillKnow(size) => WillKnow(size)'
    <3>1. /\ queue \in Seq(Packets) /\ queue # << >> /\ queue' = Tail(queue) /\ size' = size
          /\ told' = IF Sized(Head(queue)) THEN Head(queue).size ELSE told
      BY <1>27 DEF ServerReads, TypeOK
    <3> QED
      BY <3>1, TailLast DEF WillKnow
  <2> QED
    BY <1>27, <2>1 DEF ServerReads
<1>28. CASE ServerWrites
  BY <1>28, <1>0 DEF ServerWrites
<1>29. CASE ServerCloses
  BY <1>29 DEF ServerCloses
<1>30. CASE UNCHANGED vars
  BY <1>30, <1>0 DEF vars
<1> QED
  BY <1>1, <1>2, <1>3, <1>4, <1>5, <1>6, <1>7, <1>8, <1>9, <1>10, <1>11, <1>12, <1>13,
     <1>14, <1>15, <1>16, <1>17, <1>18, <1>19, <1>20, <1>21, <1>22, <1>23, <1>24, <1>25,
     <1>26, <1>27, <1>28, <1>29, <1>30 DEF Next, ClientStep, UserStep, ServerStep, Gone

\* The invariant holds in every state.
THEOREM Client == Spec => []IInv
<1>1. Init => IInv
  <2>1. ASSUME Init PROVE TypeOK
    <3>1. /\ << >> \in Seq(Keys) /\ << >> \in Seq(Packets) /\ Len(<< >>) = 0
          /\ 0 <= KeyCap /\ 0 <= QueueCap /\ 0 \in 0 .. MaxResize
      BY ClientAssumption, EmptySeq
    <3>2. Nothing \in [packet : Packets, then : Places, failed : Places]
      BY <3>1 DEF Nothing, Packets, Places
    <3>3. {shouldDie, winChanged, backedUp, tty, output, attached} \subseteq BOOLEAN
      BY <2>1 DEF Init
    <3> QED
      BY <2>1, <3>1, <3>2, <3>3 DEF Init, TypeOK, Places
  <2>2. ASSUME Init PROVE Flow /\ Modes /\ Told /\ Stale /\ SizeNotForgotten
    BY <2>2 DEF Init, Flow, Modes, Told, Loop, Stale, SizeNotForgotten
  <2> QED
    BY <2>1, <2>2 DEF IInv
<1>2. IInv /\ [Next]_vars => IInv'
  BY NextTypes, NextFlow, NextModes, NextTold, NextStale, NextSize DEF IInv
<1> QED
  BY <1>1, <1>2, PTL DEF Spec

\* Types; a packet that is being written has somewhere to go on.
THEOREM Types == Spec => []TypeOK
<1>1. IInv => TypeOK
  BY DEF IInv
<1> QED
  BY <1>1, Client, PTL

\* Whatever signals come and whichever way out it takes, the client leaves the terminal
\* in the mode it had: restore_and_exit, atexit, handle_die and the suspend key.
THEOREM RestoresTerminal == Spec => []TerminalRestored
<1>1. IInv => TerminalRestored
  BY DEF IInv, Modes, TerminalRestored
<1> QED
  BY <1>1, Client, PTL

\* The daemon is told to write to the client exactly while the client reads.
THEOREM AttachedAsItReads == Spec => []AttachedWhileReading
<1>1. IInv => AttachedWhileReading
  BY DEF IInv, Told, Loop, AttachedWhileReading
<1> QED
  BY <1>1, Client, PTL

\* No change of the window's size is forgotten.
THEOREM SizeKept == Spec => []SizeNotForgotten
<1>1. IInv => SizeNotForgotten
  BY DEF IInv
<1> QED
  BY <1>1, Client, PTL
=============================================================================
