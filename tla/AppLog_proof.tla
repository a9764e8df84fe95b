---------------------------- MODULE AppLog_proof ----------------------------
(***************************************************************************)
(* For any processes, sizes and number of lines: the application log       *)
(* outgrows its limit by no more than a line for each process that has     *)
(* still to trim it, and holds nothing but lines that were recorded; where *)
(* no trim runs into another process, it is the tail of all of them.       *)
(***************************************************************************)
EXTENDS AppLog, SequenceTheorems, FiniteSetTheorems, TLAPS

(***************************************************************************)
(* Numbers and sequences                                                   *)
(***************************************************************************)

\* A line more, and no line less.
LEMMA Times ==
  ASSUME NEW l \in Nat, NEW a \in Nat, NEW b \in Nat, a <= b
  PROVE  l * a \in Nat /\ l * a <= l * b /\ l * (a + 1) = l * a + l
<1>1. PICK d \in Nat : b = a + d
  <2>1. b - a \in Nat /\ b = a + (b - a)
    OBVIOUS
  <2> QED
    BY <2>1
<1>2. l * (a + d) = l * a + l * d /\ l * d \in Nat /\ l * a \in Nat
  OBVIOUS
<1>3. l * (a + 1) = l * a + l
  OBVIOUS
<1> QED
  BY <1>1, <1>2, <1>3

\* A function on the numbers up to n is a sequence.
LEMMA Sequence ==
  ASSUME NEW S, NEW n \in Nat, NEW f \in [1 .. n -> S]
  PROVE  f \in Seq(S) /\ Len(f) = n
<1>1. f \in Seq(S)
  BY SeqDef
<1>2. Len(f) \in Nat /\ DOMAIN f = 1 .. Len(f) /\ DOMAIN f = 1 .. n
  BY <1>1, LenProperties
<1> QED
  BY <1>1, <1>2

\* Lines that were recorded stay recorded.
LEMMA MoreRecorded ==
  ASSUME NEW n \in Nat, NEW s \in Seq(1 .. n) PROVE s \in Seq(1 .. n + 1)
<1>1. Len(s) \in Nat /\ s \in [1 .. Len(s) -> 1 .. n]
  BY LenProperties, SeqDef
<1>2. s \in [1 .. Len(s) -> 1 .. n + 1]
  BY <1>1
<1> QED
  BY <1>1, <1>2, Sequence

\* What rotate_file reads, and that it is no longer than asked for.
TailOf(f, o, n) == SubSeq(f, o + 1, Smaller(o + n, Len(f)))
LEMMA TailIs ==
  ASSUME NEW S, NEW f \in Seq(S), NEW o \in Nat, NEW n \in Nat
  PROVE  /\ TailOf(f, o, n) \in Seq(S) /\ Len(TailOf(f, o, n)) \in Nat
         /\ Len(TailOf(f, o, n)) <= n
         /\ TailOf(f, o, n) = << >> /\ n > 0 => Len(f) <= o
<1>1. Len(f) \in Nat
  BY LenProperties
<1> DEFINE e == Smaller(o + n, Len(f))
<1>2. e \in Nat /\ e <= o + n /\ e <= Len(f) /\ (e = o + n \/ e = Len(f))
  BY <1>1 DEF Smaller
<1> HIDE DEF e
<1>3. \A i \in o + 1 .. e : f[i] \in S
  BY <1>1, <1>2, ElementOfSeq
<1>4. /\ SubSeq(f, o + 1, e) \in Seq(S)
      /\ Len(SubSeq(f, o + 1, e)) = IF o + 1 <= e THEN e - (o + 1) + 1 ELSE 0
  BY <1>1, <1>2, <1>3, SubSeqProperties
<1>5. TailOf(f, o, n) \in Seq(S)
      /\ Len(TailOf(f, o, n)) = IF o + 1 <= e THEN e - (o + 1) + 1 ELSE 0
  BY <1>4 DEF TailOf, e
<1>6. Len(TailOf(f, o, n)) \in Nat /\ Len(TailOf(f, o, n)) <= n
  BY <1>2, <1>5
<1>7. ASSUME TailOf(f, o, n) = << >>, n > 0 PROVE Len(f) <= o
  <2>1. Len(TailOf(f, o, n)) = 0
    BY <1>7
  <2> QED
    BY <1>1, <1>2, <1>5, <1>7, <2>1
<1> QED
  BY <1>5, <1>6, <1>7

\* A number up to the longer of two lengths.
LEMMA Longer ==
  ASSUME NEW a \in Nat, NEW b \in Nat, NEW m \in Nat, m = a \/ m = b, NEW i \in 1 .. m
  PROVE  /\ i - 0 = i
         /\ i \in 0 + 1 .. 0 + a => i \in 1 .. a
         /\ i \notin 0 + 1 .. 0 + a => i <= b /\ i \in 1 .. b
OBVIOUS

\* The write of a tail at the start, over what others wrote meanwhile.
LEMMA WrittenIs ==
  ASSUME NEW S, file \in Seq(S), NEW data \in Seq(S)
  PROVE  /\ Written(0, data) \in Seq(S)
         /\ Len(Written(0, data)) = Larger(Len(data), Len(file))
<1>1. Len(file) \in Nat /\ Len(data) \in Nat
  BY LenProperties
<1> DEFINE m == Larger(Len(data), Len(file))
<1>2. m \in Nat /\ 0 + Len(data) = Len(data) /\ (m = Len(data) \/ m = Len(file))
      /\ Len(data) <= m /\ Len(file) <= m
  BY <1>1 DEF Larger
<1> HIDE DEF m
<1>3. Written(0, data) = [i \in 1 .. m |->
                            IF i \in 0 + 1 .. 0 + Len(data) THEN data[i - 0]
                            ELSE IF i <= Len(file) THEN file[i] ELSE 0]
  BY <1>2 DEF Written, m
<1>4. \A i \in 1 .. m : /\ i \in 0 + 1 .. 0 + Len(data) => data[i - 0] \in S
                        /\ i \notin 0 + 1 .. 0 + Len(data) => i <= Len(file) /\ file[i] \in S
  <2>1. \A i \in 1 .. m : /\ i - 0 = i
                          /\ i \in 0 + 1 .. 0 + Len(data) => i \in 1 .. Len(data)
                          /\ i \notin 0 + 1 .. 0 + Len(data) => i <= Len(file) /\ i \in 1 .. Len(file)
    BY <1>1, <1>2, Longer
  <2>2. /\ \A i \in 1 .. Len(data) : data[i] \in S
        /\ \A i \in 1 .. Len(file) : file[i] \in S
    BY ElementOfSeq
  <2> QED
    BY <2>1, <2>2
<1>5. Written(0, data) \in [1 .. m -> S]
  BY <1>3, <1>4
<1> QED
  BY <1>2, <1>5, Sequence DEF m

(***************************************************************************)
(* The inductive invariant                                                 *)
(***************************************************************************)

\* What a trim reads and keeps is within the limit: the lines that others appended
\* meanwhile cannot push its offset behind it (AppLogAssumption).
Tails == \A p \in Procs : offset[p] <= MaxSize /\ Len(buf[p]) <= MaxSize
IInv == TypeOK /\ Tails /\ AppLogBounded

\* The lines that are yet to be trimmed away.
Over == Cardinality(YetToTrim) + owed

LEMMA Numbers ==
  ASSUME TypeOK
  PROVE  /\ MaxSize \in Nat /\ MaxSize > 0 /\ LineLen \in Nat /\ MaxKills \in Nat /\ MaxLines \in Nat
         /\ recorded \in Nat /\ owed \in Nat /\ kills \in Nat /\ Len(file) \in Nat
         /\ IsFiniteSet(YetToTrim) /\ Cardinality(YetToTrim) \in Nat
         /\ Over \in Nat /\ LineLen * Over \in Nat /\ LineLen * Over <= MaxSize
<1>1. /\ MaxSize \in Nat /\ MaxSize > 0 /\ LineLen \in Nat /\ MaxKills \in Nat /\ MaxLines \in Nat
      /\ recorded \in Nat /\ owed \in Nat /\ kills \in Nat /\ owed <= MaxKills
  BY AppLogAssumption DEF TypeOK
<1>2. Len(file) \in Nat
  BY LenProperties DEF TypeOK
<1>3. /\ IsFiniteSet(YetToTrim) /\ Cardinality(YetToTrim) \in Nat
      /\ Cardinality(Procs) \in Nat /\ Cardinality(YetToTrim) <= Cardinality(Procs)
  <2>1. YetToTrim \in SUBSET Procs
    BY DEF YetToTrim
  <2> QED
    BY <2>1, AppLogAssumption, FS_Subset, FS_CardinalityType
<1> DEFINE most == Cardinality(Procs) + MaxKills
<1>4. Over \in Nat /\ most \in Nat /\ Over <= most
  BY <1>1, <1>3 DEF Over
<1> HIDE DEF most
<1>5. LineLen * Over \in Nat /\ LineLen * Over <= LineLen * most /\ LineLen * most \in Nat
  BY <1>1, <1>4, Times
<1>6. LineLen * most <= MaxSize
  BY AppLogAssumption DEF most
<1> QED
  BY <1>1, <1>2, <1>3, <1>4, <1>5, <1>6

\* The lines yet to be trimmed when process p goes from one place to another.
LEMMA Trims ==
  ASSUME TypeOK, NEW p \in Procs, NEW place, Goto(p, place)
  PROVE  /\ pc[p] \in {"measure", "read", "truncate"} <=> p \in YetToTrim
         /\ Cardinality(YetToTrim') =
               IF place \in {"measure", "read", "truncate"}
               THEN Cardinality(YetToTrim) + (IF p \in YetToTrim THEN 0 ELSE 1)
               ELSE Cardinality(YetToTrim) - (IF p \in YetToTrim THEN 1 ELSE 0)
<1>1. pc[p] \in {"measure", "read", "truncate"} <=> p \in YetToTrim
  BY DEF YetToTrim
<1>2. \A q \in Procs : pc'[q] = IF q = p THEN place ELSE pc[q]
  BY DEF Goto, TypeOK
<1>3. CASE place \in {"measure", "read", "truncate"}
  <2>1. YetToTrim' = YetToTrim \cup {p}
    BY <1>2, <1>3 DEF YetToTrim
  <2> QED
    <3>1. IsFiniteSet(YetToTrim) /\ Cardinality(YetToTrim) \in Nat
      BY Numbers
    <3>2. Cardinality(YetToTrim \cup {p}) =
             IF p \in YetToTrim THEN Cardinality(YetToTrim) ELSE Cardinality(YetToTrim) + 1
      BY <3>1, FS_AddElement
    <3> QED
      BY <1>1, <1>3, <2>1, <3>1, <3>2
<1>4. CASE place \notin {"measure", "read", "truncate"}
  <2>1. YetToTrim' = YetToTrim \ {p}
    BY <1>2, <1>4 DEF YetToTrim
  <2> QED
    <3>1. IsFiniteSet(YetToTrim) /\ Cardinality(YetToTrim) \in Nat
      BY Numbers
    <3>2. Cardinality(YetToTrim \ {p}) =
             IF p \in YetToTrim THEN Cardinality(YetToTrim) - 1 ELSE Cardinality(YetToTrim)
      BY <3>1, FS_RemoveElement
    <3> QED
      BY <1>1, <1>4, <2>1, <3>1, <3>2
<1> QED
  BY <1>3, <1>4

\* The bound, from the lines that are yet to be trimmed.
LEMMA BoundedBy ==
  ASSUME TypeOK, TypeOK', Len(file') <= Len(file), AppLogBounded, Over' = Over
  PROVE  AppLogBounded'
<1>1. Len(file) <= MaxSize + LineLen * Over
  BY DEF AppLogBounded, Over
<1>2. Len(file') \in Nat
  BY LenProperties DEF TypeOK
<1>3. Len(file') <= MaxSize + LineLen * Over'
  BY <1>1, <1>2, Numbers
<1> QED
  BY <1>3 DEF AppLogBounded, Over

LEMMA Within ==
  ASSUME TypeOK', Len(file') <= MaxSize PROVE AppLogBounded'
<1>1. Len(file') \in Nat
  BY LenProperties DEF TypeOK
<1>2. LineLen * Over' \in Nat
  <2>1. owed' \in Nat /\ IsFiniteSet(YetToTrim')
    <3>1. YetToTrim' \in SUBSET Procs
      BY DEF YetToTrim
    <3>2. owed' \in Nat
      BY AppLogAssumption DEF TypeOK
    <3> QED
      BY <3>1, <3>2, AppLogAssumption, FS_Subset
  <2>2. Over' \in Nat
    BY <2>1, FS_CardinalityType DEF Over
  <2> QED
    BY <2>2, Times, AppLogAssumption
<1>3. Len(file') <= MaxSize + LineLen * Over'
  BY <1>1, <1>2, AppLogAssumption
<1> QED
  BY <1>3 DEF AppLogBounded, Over

(***************************************************************************)
(* The steps                                                               *)
(***************************************************************************)

Places == {"idle", "measure", "read", "truncate", "rewrite"}

LEMMA GotoTypes ==
  ASSUME TypeOK, NEW p \in Procs, NEW place \in Places, Goto(p, place)
  PROVE  pc' \in [Procs -> Places]
BY DEF TypeOK, Goto, Places

LEMMA RecordKeeps == ASSUME IInv, NEW p \in Procs, Record(p) PROVE IInv'
<1> DEFINE line == Line(recorded + 1)
<1>1. /\ pc[p] = "idle" /\ recorded < MaxLines /\ recorded' = recorded + 1
      /\ file' = file \o line /\ Goto(p, "measure")
      /\ overlapped' = (overlapped \/ \E q \in Procs \ {p} : Trimming(q))
      /\ UNCHANGED <<offset, buf, kills, owed>>
  BY DEF Record, At, Changes
<1>2. line \in Seq(1 .. recorded + 1) /\ Len(line) = LineLen
  <2>1. line \in [1 .. LineLen -> 1 .. recorded + 1]
    BY Numbers DEF IInv, Line
  <2> QED
    BY <2>1, AppLogAssumption, Sequence
<1> HIDE DEF line
<1>3. file \in Seq(1 .. recorded + 1) /\ \A q \in Procs : buf[q] \in Seq(1 .. recorded + 1)
  BY Numbers, MoreRecorded DEF IInv, TypeOK
<1>4. file' \in Seq(1 .. recorded + 1) /\ Len(file') = Len(file) + LineLen
  BY <1>1, <1>2, <1>3, ConcatProperties
<1>5. TypeOK'
  <2>1. pc' \in [Procs -> Places]
    BY <1>1, GotoTypes DEF IInv, Places
  <2>2. overlapped' \in BOOLEAN
    BY <1>1 DEF IInv, TypeOK
  <2>3. buf' \in [Procs -> Seq(1 .. recorded')]
    BY <1>1, <1>3 DEF IInv, TypeOK
  <2>4. recorded' \in 0 .. MaxLines
    BY <1>1, Numbers DEF IInv, TypeOK
  <2> QED
    BY <1>1, <1>4, <2>1, <2>2, <2>3, <2>4 DEF IInv, TypeOK, Places
<1>6. AppLogBounded'
  <2>1. Over' = Over + 1
    <3>1. Cardinality(YetToTrim') = Cardinality(YetToTrim) + 1
      BY <1>1, Trims, Numbers DEF IInv
    <3> QED
      BY <1>1, <3>1, Numbers DEF IInv, Over
  <2>2. LineLen * Over' = LineLen * Over + LineLen
    BY <2>1, Numbers, Times DEF IInv
  <2>3. Len(file) <= MaxSize + LineLen * Over
    BY DEF IInv, AppLogBounded, Over
  <2>4. Len(file') <= MaxSize + LineLen * Over'
    <3>1. /\ Len(file) \in Nat /\ LineLen \in Nat /\ MaxSize \in Nat /\ LineLen * Over \in Nat
      BY Numbers DEF IInv
    <3> HIDE DEF Over
    <3>2. Len(file) + LineLen <= MaxSize + (LineLen * Over + LineLen)
      BY <2>3, <3>1
    <3> QED
      BY <1>4, <2>2, <3>2
  <2> QED
    BY <2>4 DEF AppLogBounded, Over
<1> QED
  BY <1>1, <1>5, <1>6 DEF IInv, Tails

LEMMA MeasureKeeps == ASSUME IInv, NEW p \in Procs, Measure(p) PROVE IInv'
<1>0. pc[p] = "measure" /\ UNCHANGED <<file, buf, recorded, kills, overlapped>>
  BY DEF Measure, At
<1>1. CASE Len(file) <= MaxSize
  <2>1. Goto(p, "idle") /\ owed' = 0 /\ offset' = offset
    BY <1>1 DEF Measure
  <2>2. TypeOK'
    <3>1. pc' \in [Procs -> Places]
      BY <2>1, GotoTypes DEF IInv, Places
    <3>2. 0 \in 0 .. kills
      BY Numbers DEF IInv
    <3> QED
      BY <1>0, <2>1, <3>1, <3>2 DEF IInv, TypeOK, Places
  <2>3. AppLogBounded'
    BY <1>0, <1>1, <2>2, Within
  <2> QED
    BY <1>0, <2>1, <2>2, <2>3 DEF IInv, Tails
<1>2. CASE ~(Len(file) <= MaxSize)
  <2>1. Goto(p, "read") /\ offset' = [offset EXCEPT ![p] = Len(file) - MaxSize] /\ owed' = owed
    BY <1>2 DEF Measure
  <2>2. Len(file) - MaxSize \in Nat /\ Len(file) - MaxSize <= MaxSize
    <3>1. Len(file) <= MaxSize + LineLen * Over
      BY DEF IInv, AppLogBounded, Over
    <3> QED
      BY <1>2, <3>1, Numbers DEF IInv
  <2>3. TypeOK'
    <3>1. pc' \in [Procs -> Places]
      BY <2>1, GotoTypes DEF IInv, Places
    <3> QED
      BY <1>0, <2>1, <2>2, <3>1 DEF IInv, TypeOK, Places
  <2>4. Over' = Over
    <3>1. Cardinality(YetToTrim') = Cardinality(YetToTrim)
      BY <1>0, <2>1, Trims, Numbers DEF IInv
    <3> QED
      BY <2>1, <3>1 DEF Over
  <2>5. AppLogBounded'
    <3>1. Len(file') <= Len(file)
      BY <1>0, Numbers DEF IInv
    <3> QED
      BY <2>3, <2>4, <3>1, BoundedBy DEF IInv
  <2>6. Tails'
    BY <1>0, <2>1, <2>2 DEF IInv, Tails, TypeOK
  <2> QED
    BY <2>3, <2>5, <2>6 DEF IInv
<1> QED
  BY <1>1, <1>2

LEMMA ReadTailKeeps == ASSUME IInv, NEW p \in Procs, ReadTail(p) PROVE IInv'
<1> DEFINE tail == TailOf(file, offset[p], MaxSize)
<1>1. /\ pc[p] = "read" /\ UNCHANGED <<file, recorded, kills, owed, overlapped>>
      /\ buf' = [buf EXCEPT ![p] = tail]
      /\ tail = << >> => Goto(p, "idle") /\ offset' = [offset EXCEPT ![p] = 0]
      /\ tail # << >> => Goto(p, "truncate") /\ offset' = offset
  BY DEF ReadTail, At, ghostVars, TailOf
<1>2. /\ tail \in Seq(1 .. recorded) /\ Len(tail) \in Nat /\ Len(tail) <= MaxSize
      /\ tail = << >> => Len(file) <= offset[p]
  <2>1. file \in Seq(1 .. recorded) /\ offset[p] \in Nat /\ MaxSize \in Nat /\ MaxSize > 0
    BY AppLogAssumption DEF IInv, TypeOK
  <2> QED
    BY <2>1, TailIs
<1> HIDE DEF tail
<1>3. TypeOK'
  <2>1. pc' \in [Procs -> Places]
    BY <1>1, GotoTypes DEF IInv, Places
  <2>2. offset' \in [Procs -> Nat]
    <3>1. offset \in [Procs -> Nat]
      BY DEF IInv, TypeOK
    <3>2. offset' = [offset EXCEPT ![p] = 0] \/ offset' = offset
      BY <1>1
    <3> QED
      BY <3>1, <3>2
  <2>3. buf' \in [Procs -> Seq(1 .. recorded')]
    BY <1>1, <1>2 DEF IInv, TypeOK
  <2> QED
    BY <1>1, <2>1, <2>2, <2>3 DEF IInv, TypeOK, Places
<1>4. Tails'
  <2>1. \A q \in Procs : offset'[q] = 0 \/ offset'[q] = offset[q]
    <3>1. offset \in [Procs -> Nat]
      BY DEF IInv, TypeOK
    <3>2. offset' = [offset EXCEPT ![p] = 0] \/ offset' = offset
      BY <1>1
    <3> QED
      BY <3>1, <3>2
  <2>2. \A q \in Procs : buf'[q] = tail \/ buf'[q] = buf[q]
    BY <1>1 DEF IInv, TypeOK
  <2>3. 0 <= MaxSize
    BY AppLogAssumption
  <2> QED
    BY <1>2, <2>1, <2>2, <2>3 DEF IInv, Tails
<1>5. AppLogBounded'
  <2>1. CASE tail = << >>
    <3>1. Len(file) <= MaxSize
      <4>1. offset[p] \in Nat /\ offset[p] <= MaxSize
        BY DEF IInv, Tails, TypeOK
      <4> QED
        BY <1>2, <2>1, <4>1, Numbers DEF IInv
    <3> QED
      BY <1>1, <1>3, <3>1, Within
  <2>2. CASE tail # << >>
    <3>1. Cardinality(YetToTrim') = Cardinality(YetToTrim)
      BY <1>1, <2>2, Trims, Numbers DEF IInv
    <3>2. Over' = Over
      BY <1>1, <3>1 DEF Over
    <3>3. Len(file') <= Len(file)
      BY <1>1, Numbers DEF IInv
    <3> QED
      BY <1>3, <3>2, <3>3, BoundedBy DEF IInv
  <2> QED
    BY <2>1, <2>2
<1> QED
  BY <1>3, <1>4, <1>5 DEF IInv

LEMMA TruncateKeeps == ASSUME IInv, NEW p \in Procs, Truncate(p) PROVE IInv'
<1>1. /\ file' = << >> /\ owed' = 0 /\ Goto(p, "rewrite")
      /\ overlapped' = (overlapped \/ \E q \in Procs \ {p} : Trimming(q))
      /\ UNCHANGED <<offset, buf, recorded, kills>>
  BY DEF Truncate, Changes
<1>2. TypeOK'
  <2>1. pc' \in [Procs -> Places]
    BY <1>1, GotoTypes DEF IInv, Places
  <2>2. overlapped' \in BOOLEAN
    BY <1>1 DEF IInv, TypeOK
  <2>3. file' \in Seq(1 .. recorded') /\ 0 \in 0 .. kills'
    BY <1>1, Numbers DEF IInv
  <2> QED
    BY <1>1, <2>1, <2>2, <2>3 DEF IInv, TypeOK, Places
<1>3. AppLogBounded'
  <2>1. Len(file') <= MaxSize
    BY <1>1, Numbers DEF IInv
  <2> QED
    BY <1>2, <2>1, Within
<1> QED
  BY <1>1, <1>2, <1>3 DEF IInv, Tails

\* A process that is done has no offset and no tail.
LEMMA DoneKeeps ==
  ASSUME TypeOK, Tails, NEW p \in Procs, Done(p), recorded' = recorded
  PROVE  /\ pc' \in [Procs -> Places] /\ offset' \in [Procs -> Nat]
         /\ buf' \in [Procs -> Seq(1 .. recorded')] /\ Tails'
         /\ Goto(p, "idle")
<1>1. /\ Goto(p, "idle") /\ offset' = [offset EXCEPT ![p] = 0]
      /\ buf' = [buf EXCEPT ![p] = << >>]
  BY DEF Done
<1>2. << >> \in Seq(1 .. recorded) /\ Len(<< >>) = 0
  OBVIOUS
<1>3. pc' \in [Procs -> Places]
  BY <1>1, GotoTypes DEF Places
<1>4. offset' \in [Procs -> Nat] /\ buf' \in [Procs -> Seq(1 .. recorded')]
  BY <1>1, <1>2 DEF TypeOK
<1>5. Tails'
  <2>1. \A q \in Procs : offset'[q] = 0 \/ offset'[q] = offset[q]
    BY <1>1 DEF TypeOK
  <2>2. \A q \in Procs : buf'[q] = << >> \/ buf'[q] = buf[q]
    BY <1>1 DEF TypeOK
  <2>3. 0 <= MaxSize
    BY AppLogAssumption
  <2> QED
    BY <1>2, <2>1, <2>2, <2>3 DEF Tails
<1> QED
  BY <1>1, <1>3, <1>4, <1>5

LEMMA RewriteKeeps == ASSUME IInv, NEW p \in Procs, Rewrite(p) PROVE IInv'
<1>1. /\ pc[p] = "rewrite" /\ file' = Written(0, buf[p]) /\ Done(p)
      /\ overlapped' = (overlapped \/ \E q \in Procs \ {p} : Trimming(q))
      /\ UNCHANGED <<recorded, kills, owed>>
  BY DEF Rewrite, At, Changes
<1>2. /\ file' \in Seq(1 .. recorded)
      /\ Len(file') = Len(buf[p]) \/ Len(file') = Len(file)
      /\ Len(buf[p]) <= MaxSize
  <2>1. recorded \in Nat /\ file \in Seq(1 .. recorded) /\ buf[p] \in Seq(1 .. recorded)
    BY Numbers DEF IInv, TypeOK
  <2>2. /\ Written(0, buf[p]) \in Seq(1 .. recorded)
        /\ Len(Written(0, buf[p])) = Larger(Len(buf[p]), Len(file))
    BY <2>1, WrittenIs
  <2> QED
    BY <1>1, <2>2 DEF IInv, Tails, Larger
<1>3. TypeOK'
  <2>1. overlapped' \in BOOLEAN
    BY <1>1 DEF IInv, TypeOK
  <2> QED
    BY <1>1, <1>2, <2>1, DoneKeeps DEF IInv, TypeOK, Places
<1>4. AppLogBounded'
  <2>1. CASE Len(file') = Len(buf[p])
    BY <1>2, <1>3, <2>1, Within
  <2>2. CASE Len(file') = Len(file)
    <3>1. Cardinality(YetToTrim') = Cardinality(YetToTrim)
      <4>1. Goto(p, "idle")
        BY <1>1 DEF Done
      <4> QED
        BY <1>1, <4>1, Trims, Numbers DEF IInv
    <3>2. Over' = Over
      BY <1>1, <3>1 DEF Over
    <3>3. Len(file') <= Len(file)
      BY <2>2, Numbers DEF IInv
    <3> QED
      BY <1>3, <3>2, <3>3, BoundedBy DEF IInv
  <2> QED
    BY <1>2, <2>1, <2>2
<1> QED
  BY <1>1, <1>3, <1>4, DoneKeeps DEF IInv

LEMMA KilledKeeps == ASSUME IInv, NEW p \in Procs, Killed(p) PROVE IInv'
<1>1. /\ pc[p] # "idle" /\ kills < MaxKills /\ kills' = kills + 1 /\ Done(p)
      /\ owed' = IF pc[p] = "rewrite" THEN owed ELSE owed + 1
      /\ UNCHANGED <<file, recorded, overlapped>>
  BY DEF Killed, At
<1>2. pc[p] \in {"measure", "read", "truncate", "rewrite"} /\ Goto(p, "idle")
  BY <1>1 DEF IInv, TypeOK, Done
<1>3. TypeOK'
  <2>1. kills' \in 0 .. MaxKills /\ owed' \in 0 .. kills'
    BY <1>1, Numbers DEF IInv, TypeOK
  <2> QED
    BY <1>1, <2>1, DoneKeeps DEF IInv, TypeOK, Places
<1>4. Over' = Over
  <2>1. CASE pc[p] = "rewrite"
    <3>1. Cardinality(YetToTrim') = Cardinality(YetToTrim)
      BY <1>2, <2>1, Trims, Numbers DEF IInv
    <3> QED
      BY <1>1, <2>1, <3>1 DEF Over
  <2>2. CASE pc[p] # "rewrite"
    <3>1. Cardinality(YetToTrim') = Cardinality(YetToTrim) - 1
      BY <1>2, <2>2, Trims, Numbers DEF IInv
    <3> QED
      BY <1>1, <2>2, <3>1, Numbers DEF IInv, Over
  <2> QED
    BY <2>1, <2>2
<1>5. AppLogBounded'
  <2>1. Len(file') <= Len(file)
    BY <1>1, Numbers DEF IInv
  <2> QED
    BY <1>3, <1>4, <2>1, BoundedBy DEF IInv
<1> QED
  BY <1>1, <1>3, <1>5, DoneKeeps DEF IInv

(***************************************************************************)
(* The theorems                                                            *)
(***************************************************************************)

LEMMA Starts == Init => IInv
<1> SUFFICES ASSUME Init PROVE IInv
  OBVIOUS
<1>1. << >> \in Seq(1 .. 0) /\ Len(<< >>) = 0
  OBVIOUS
<1>2. TypeOK
  <2>1. 0 \in 0 .. MaxLines /\ 0 \in 0 .. MaxKills /\ 0 \in 0 .. 0
    BY AppLogAssumption
  <2>2. recorded = 0 /\ kills = 0 /\ owed = 0 /\ overlapped = FALSE /\ file = << >>
    BY DEF Init
  <2>3. /\ pc \in [Procs -> {"idle", "measure", "read", "truncate", "rewrite"}]
        /\ offset \in [Procs -> Nat] /\ buf \in [Procs -> Seq(1 .. 0)]
    BY <1>1 DEF Init
  <2> QED
    BY <1>1, <2>1, <2>2, <2>3 DEF TypeOK
<1>3. Tails
  BY <1>1, AppLogAssumption DEF Init, Tails
<1>4. AppLogBounded
  <2>1. Len(file) = 0 /\ LineLen * Over \in Nat /\ MaxSize \in Nat
    BY <1>1, <1>2, Numbers DEF Init
  <2>2. Len(file) <= MaxSize + LineLen * Over
    BY <2>1
  <2> QED
    BY <2>2 DEF AppLogBounded, Over
<1> QED
  BY <1>2, <1>3, <1>4 DEF IInv

\* The invariant holds in every reachable state, whichever processes record, trim and
\* are killed in whatever order (record, rotate_file).
THEOREM Trimmed == Spec => []IInv
<1>1. Init => IInv
  BY Starts
<1>2. IInv /\ [Next]_vars => IInv'
  <2> SUFFICES ASSUME IInv, [Next]_vars PROVE IInv'
    OBVIOUS
  <2>1. CASE UNCHANGED vars
    BY <2>1 DEF vars, procVars, ghostVars, IInv, TypeOK, Tails, AppLogBounded, YetToTrim
  <2> QED
    BY <2>1, RecordKeeps, MeasureKeeps, ReadTailKeeps, TruncateKeeps, RewriteKeeps, KilledKeeps
       DEF Next
<1> QED
  BY <1>1, <1>2, PTL DEF Spec

\* Every variable keeps its type: the file holds no hole and no line that nobody
\* recorded.
THEOREM Types == Spec => []TypeOK
<1>1. IInv => TypeOK
  BY DEF IInv
<1> QED
  BY <1>1, Trimmed, PTL

\* The log exceeds its limit by no more than a line for each process that has still to
\* trim it, or was killed before it could (record, rotate_file).
THEOREM Bounded == Spec => []AppLogBounded
<1>1. IInv => AppLogBounded
  BY DEF IInv
<1> QED
  BY <1>1, Trimmed, PTL

(***************************************************************************)
(* What is lost                                                            *)
(***************************************************************************)

\* All that was recorded, in bytes, and the line a byte of it belongs to.
Total == LineLen * recorded
LineOf(i) == 1 + (i - 1) \div LineLen

\* The bytes of f are the last that were recorded, and they are as many as the limit, or
\* all there are.
Ends(f) == /\ Len(f) <= Total
           /\ Len(f) >= MaxSize \/ Len(f) = Total
           /\ \A i \in 1 .. Len(f) : f[i] = LineOf(Total - Len(f) + i)
IsTail(f) == Ends(f) /\ Len(f) = MaxSize

\* While nobody was disturbed: the file ends with the last lines but between a trim's
\* set_len(0) and its write; a trim knows where the tail begins, and has it until it is
\* written; and when one has emptied the file no other is on its way to.
NotEmptied == \A p \in Procs : pc[p] # "rewrite"
KnowsTail(p) == pc[p] = "read" => offset[p] = Len(file) - MaxSize /\ Len(file) > MaxSize
HasTail(p) == pc[p] \in {"truncate", "rewrite"} => IsTail(buf[p])
Emptied(p) == pc[p] = "rewrite" => /\ file = << >>
                                   /\ \A q \in Procs : q # p => ~Trimming(q)
Tidy == /\ NotEmptied => Ends(file)
        /\ \A p \in Procs : KnowsTail(p) /\ HasTail(p) /\ Emptied(p)
Undisturbed == ~overlapped /\ kills = 0 => Tidy

\* How much there is, in bytes.
LEMMA Totals ==
  ASSUME TypeOK
  PROVE  /\ Total \in Nat /\ LineLen \in Nat /\ LineLen > 0 /\ MaxSize \in Nat /\ MaxSize > 0
         /\ recorded \in Nat /\ Len(file) \in Nat
         /\ \A p \in Procs : buf[p] \in Seq(1 .. recorded) /\ Len(buf[p]) \in Nat
<1>1. LineLen \in Nat /\ LineLen > 0 /\ MaxSize \in Nat /\ MaxSize > 0
  BY AppLogAssumption
<1>2. recorded \in Nat /\ Len(file) \in Nat
  BY Numbers
<1>3. Total \in Nat
  BY <1>1, <1>2, Times DEF Total
<1>4. ASSUME NEW p \in Procs
      PROVE  buf[p] \in Seq(1 .. recorded) /\ Len(buf[p]) \in Nat
  BY LenProperties DEF TypeOK
<1> QED
  BY <1>1, <1>2, <1>3, <1>4

\* The next line follows all lines.
LEMMA NextLine ==
  ASSUME TypeOK, NEW i \in 1 .. LineLen
  PROVE  LineOf(Total + i) = recorded + 1
<1>1. LineLen \in Nat /\ LineLen > 0 /\ recorded \in Nat /\ Total \in Nat
  BY Totals
<1>2. i - 1 \in 0 .. LineLen - 1 /\ Total + i - 1 = LineLen * recorded + (i - 1)
  BY <1>1 DEF Total
<1>3. (LineLen * recorded + (i - 1)) \div LineLen = recorded
  <2> DEFINE k == i - 1
  <2>1. k \in 0 .. LineLen - 1
    BY <1>2
  <2> HIDE DEF k
  <2>2. (LineLen * recorded + k) \div LineLen = recorded
    BY <1>1, <2>1
  <2> QED
    BY <2>2 DEF k
<1> QED
  BY <1>1, <1>2, <1>3 DEF LineOf

\* Whoever changes the file undisturbed finds nobody else trimming it.
LEMMA NobodyElse ==
  ASSUME NEW p \in Procs, Changes(p), ~overlapped', overlapped \in BOOLEAN
  PROVE  ~overlapped /\ \A q \in Procs : q # p => ~Trimming(q)
BY DEF Changes

\* A line recorded undisturbed comes behind the last lines.
LEMMA RecordTidy ==
  ASSUME IInv, Undisturbed, NEW p \in Procs, Record(p)
  PROVE  Undisturbed'
<1> DEFINE line == Line(recorded + 1)
<1>1. /\ pc[p] = "idle" /\ recorded' = recorded + 1 /\ file' = file \o line
      /\ Goto(p, "measure") /\ Changes(p) /\ UNCHANGED <<offset, buf, kills>>
  BY DEF Record, At
<1> SUFFICES ASSUME ~overlapped', kills = 0
             PROVE  Tidy'
  BY <1>1 DEF Undisturbed
<1>2. \A q \in Procs : ~Trimming(q) /\ ~Trimming(q)'
  <2>1. \A q \in Procs : q # p => ~Trimming(q)
    BY <1>1, NobodyElse DEF IInv, TypeOK
  <2>2. ~Trimming(p)
    BY <1>1 DEF Trimming
  <2>3. \A q \in Procs : pc'[q] = IF q = p THEN "measure" ELSE pc[q]
    BY <1>1 DEF Goto, IInv, TypeOK
  <2> QED
    BY <2>1, <2>2, <2>3 DEF Trimming
<1>3. Ends(file)
  <2>1. ~overlapped
    BY <1>1, NobodyElse DEF IInv, TypeOK
  <2> QED
    BY <1>2, <2>1 DEF Undisturbed, Tidy, NotEmptied, Trimming
<1>4. /\ Len(file') = Len(file) + LineLen /\ Len(file) \in Nat
      /\ \A i \in 1 .. Len(file) : file'[i] = file[i]
      /\ \A i \in 1 .. LineLen : file'[Len(file) + i] = recorded + 1
  <2>1. line \in Seq(Nat) /\ Len(line) = LineLen /\ \A i \in 1 .. LineLen : line[i] = recorded + 1
    <3>1. line \in [1 .. LineLen -> Nat]
      BY Totals DEF IInv, Line
    <3> QED
      BY <3>1, Totals, Sequence DEF IInv, Line
  <2>2. file \in Seq(Nat)
    BY Totals, ElementOfSeq, SeqDef DEF IInv, TypeOK
  <2> HIDE DEF line
  <2>3. /\ Len(file \o line) = Len(file) + Len(line)
        /\ \A i \in 1 .. Len(file) + Len(line) :
              (file \o line)[i] = IF i <= Len(file) THEN file[i] ELSE line[i - Len(file)]
    BY <2>1, <2>2, ConcatProperties
  <2>4. Len(file) \in Nat /\ LineLen \in Nat
    BY Totals DEF IInv
  <2>5. ASSUME NEW i \in 1 .. LineLen
        PROVE  (file \o line)[Len(file) + i] = recorded + 1
    <3> DEFINE k == Len(file) + i
    <3>1. k \in 1 .. Len(file) + LineLen /\ ~(k <= Len(file)) /\ k - Len(file) = i
      BY <2>4
    <3> HIDE DEF k
    <3>2. (file \o line)[k] = line[i]
      BY <2>1, <2>3, <3>1
    <3> QED
      BY <2>1, <3>2 DEF k
  <2> QED
    BY <1>1, <2>1, <2>3, <2>4, <2>5
<1>5. Total' = Total + LineLen /\ Total \in Nat /\ LineLen \in Nat /\ MaxSize \in Nat
  BY <1>1, Totals DEF IInv, Total
<1>6. Ends(file)'
  <2>1. Len(file') <= Total' /\ (Len(file') >= MaxSize \/ Len(file') = Total')
    BY <1>3, <1>4, <1>5 DEF Ends
  <2>2. \A i : LineOf(i)' = LineOf(i)
    BY DEF LineOf
  <2>3. ASSUME NEW i \in 1 .. Len(file')
        PROVE  file'[i] = LineOf(Total' - Len(file') + i)
    <3>1. Total' - Len(file') + i = Total - Len(file) + i
      BY <1>4, <1>5
    <3>2. CASE i <= Len(file)
      BY <1>3, <1>4, <2>3, <3>1, <3>2 DEF Ends
    <3>3. CASE i > Len(file)
      <4> DEFINE k == i - Len(file)
      <4>1. k \in 1 .. LineLen /\ i = Len(file) + k /\ Total - Len(file) + i = Total + k
        BY <1>4, <1>5, <2>3, <3>3
      <4> HIDE DEF k
      <4> QED
        BY <1>4, <3>1, <4>1, NextLine DEF IInv
    <3> QED
      BY <1>4, <2>3, <3>2, <3>3
  <2> QED
    BY <2>1, <2>2, <2>3 DEF Ends
<1> QED
  BY <1>2, <1>6 DEF Tidy, KnowsTail, HasTail, Emptied, Trimming

\* A trim that finds the file too long knows where its tail begins.
LEMMA MeasureTidy ==
  ASSUME IInv, Undisturbed, NEW p \in Procs, Measure(p)
  PROVE  Undisturbed'
<1>1. /\ pc[p] = "measure" /\ UNCHANGED <<file, buf, recorded, kills, overlapped>>
      /\ \/ Goto(p, "idle") /\ offset' = offset
         \/ /\ Goto(p, "read") /\ offset' = [offset EXCEPT ![p] = Len(file) - MaxSize]
            /\ ~(Len(file) <= MaxSize)
  BY DEF Measure, At
<1> SUFFICES ASSUME ~overlapped, kills = 0
             PROVE  Tidy'
  BY <1>1 DEF Undisturbed
<1>2. Tidy
  BY DEF Undisturbed
<1>3. Len(file) \in Nat /\ MaxSize \in Nat /\ offset \in [Procs -> Nat]
  BY Totals DEF IInv, TypeOK
<1>4. /\ \A q \in Procs : q # p => pc'[q] = pc[q] /\ offset'[q] = offset[q]
      /\ \/ pc'[p] = "idle"
         \/ pc'[p] = "read" /\ offset'[p] = Len(file) - MaxSize /\ Len(file) > MaxSize
  BY <1>1, <1>3 DEF Goto, IInv, TypeOK
<1>5. \A f : Ends(f)' <=> Ends(f)
  BY <1>1 DEF Ends, Total, LineOf
<1>6. NotEmptied' => Ends(file)'
  BY <1>1, <1>2, <1>4, <1>5 DEF Tidy, NotEmptied
<1>7. ASSUME NEW q \in Procs
      PROVE  KnowsTail(q)' /\ HasTail(q)' /\ Emptied(q)'
  <2>1. KnowsTail(q) /\ HasTail(q) /\ Emptied(q)
    BY <1>2 DEF Tidy
  <2>2. KnowsTail(q)'
    BY <1>1, <1>4, <2>1 DEF KnowsTail
  <2>3. HasTail(q)'
    BY <1>1, <1>4, <1>5, <2>1 DEF HasTail, IsTail
  <2>4. Emptied(q)'
    <3>1. file = << >> => ~(Len(file) > MaxSize)
      BY <1>3, EmptySeq
    <3> QED
      BY <1>1, <1>4, <2>1, <3>1 DEF Emptied, Trimming
  <2> QED
    BY <2>2, <2>3, <2>4
<1> QED
  BY <1>6, <1>7 DEF Tidy

\* What is read, undisturbed, is the tail.
LEMMA ReadTailTidy ==
  ASSUME IInv, Undisturbed, NEW p \in Procs, ReadTail(p)
  PROVE  Undisturbed'
<1> DEFINE tail == TailOf(file, offset[p], MaxSize)
<1>1. /\ pc[p] = "read" /\ UNCHANGED <<file, recorded, kills, overlapped>>
      /\ buf' = [buf EXCEPT ![p] = tail]
      /\ tail = << >> => Goto(p, "idle") /\ offset' = [offset EXCEPT ![p] = 0]
      /\ tail # << >> => Goto(p, "truncate") /\ offset' = offset
  BY DEF ReadTail, At, ghostVars, TailOf
<1> SUFFICES ASSUME ~overlapped, kills = 0
             PROVE  Tidy'
  BY <1>1 DEF Undisturbed
<1>2. Tidy
  BY DEF Undisturbed
<1>3. /\ Len(file) \in Nat /\ MaxSize \in Nat /\ MaxSize > 0 /\ Total \in Nat
      /\ offset \in [Procs -> Nat] /\ buf \in [Procs -> Seq(1 .. recorded)]
      /\ file \in Seq(1 .. recorded)
  BY Totals DEF IInv, TypeOK
<1>4. /\ offset[p] = Len(file) - MaxSize /\ Len(file) > MaxSize
      /\ NotEmptied /\ Ends(file)
  <2>1. NotEmptied
    BY <1>1, <1>2 DEF Tidy, Emptied, NotEmptied, Trimming
  <2> QED
    BY <1>1, <1>2, <2>1 DEF Tidy, KnowsTail
<1>5. Len(tail) = MaxSize /\ \A i \in 1 .. MaxSize : tail[i] = file[Len(file) - MaxSize + i]
  <2> DEFINE o == offset[p]
             n == Len(file)
  <2>1. Smaller(o + MaxSize, n) = n /\ o + MaxSize = n /\ o \in Nat /\ n \in Nat
    BY <1>3, <1>4 DEF Smaller
  <2>2. \A i \in o + 1 .. n : file[i] \in 1 .. recorded
    <3>1. \A i \in o + 1 .. n : i \in 1 .. Len(file)
      BY <2>1
    <3> QED
      BY <1>3, <3>1, ElementOfSeq
  <2> HIDE DEF o, n
  <2>3. /\ Len(SubSeq(file, o + 1, n)) = n - (o + 1) + 1
        /\ \A i \in 1 .. n - (o + 1) + 1 : SubSeq(file, o + 1, n)[i] = file[(o + 1) + i - 1]
    BY <1>3, <2>1, <2>2, SubSeqProperties DEF n
  <2>4. tail = SubSeq(file, o + 1, n)
    BY <2>1 DEF TailOf, o, n
  <2> HIDE DEF tail
  <2>5. n - (o + 1) + 1 = MaxSize /\ \A i \in 1 .. MaxSize : (o + 1) + i - 1 = n - MaxSize + i
    <3>1. MaxSize \in Nat
      BY <1>3
    <3> QED
      BY <2>1, <3>1
  <2> QED
    BY <2>3, <2>4, <2>5 DEF n
<1> HIDE DEF tail
<1>6. tail # << >>
  BY <1>3, <1>5, EmptySeq
<1>7. IsTail(tail)
  <2>1. ASSUME NEW i \in 1 .. MaxSize
        PROVE  tail[i] = LineOf(Total - MaxSize + i)
    <3> DEFINE k == Len(file) - MaxSize + i
    <3>1. k \in 1 .. Len(file) /\ Total - Len(file) + k = Total - MaxSize + i
      BY <1>3, <1>4
    <3> HIDE DEF k
    <3>2. file[k] = LineOf(Total - MaxSize + i)
      BY <1>4, <3>1 DEF Ends
    <3> QED
      BY <1>5, <3>2 DEF k
  <2>2. MaxSize <= Total
    BY <1>3, <1>4 DEF Ends
  <2> QED
    BY <1>3, <1>5, <2>1, <2>2 DEF IsTail, Ends
<1>8. \A q \in Procs : /\ q # p => pc'[q] = pc[q] /\ buf'[q] = buf[q]
                       /\ offset'[q] = offset[q]
                       /\ pc'[p] = "truncate" /\ buf'[p] = tail
  BY <1>1, <1>3, <1>6 DEF Goto, IInv, TypeOK
<1>9. \A f : Ends(f)' <=> Ends(f)
  BY <1>1 DEF Ends, Total, LineOf
<1>10. ASSUME NEW q \in Procs
       PROVE  KnowsTail(q)' /\ HasTail(q)' /\ Emptied(q)'
  <2>1. KnowsTail(q) /\ HasTail(q) /\ pc[q] # "rewrite"
    BY <1>2, <1>4 DEF Tidy, NotEmptied
  <2>2. KnowsTail(q)'
    BY <1>1, <1>8, <2>1 DEF KnowsTail
  <2>3. HasTail(q)'
    BY <1>7, <1>8, <1>9, <2>1 DEF HasTail, IsTail
  <2>4. Emptied(q)'
    BY <1>8, <2>1 DEF Emptied
  <2> QED
    BY <2>2, <2>3, <2>4
<1> QED
  BY <1>1, <1>4, <1>9, <1>10 DEF Tidy

\* Whoever empties the file has the tail of it, and no other trim is under way.
LEMMA TruncateTidy ==
  ASSUME IInv, Undisturbed, NEW p \in Procs, Truncate(p)
  PROVE  Undisturbed'
<1>1. /\ pc[p] = "truncate" /\ file' = << >> /\ Goto(p, "rewrite") /\ Changes(p)
      /\ UNCHANGED <<offset, buf, recorded, kills>>
  BY DEF Truncate, At
<1> SUFFICES ASSUME ~overlapped', kills = 0
             PROVE  Tidy'
  BY <1>1 DEF Undisturbed
<1>2. Tidy /\ \A q \in Procs : q # p => ~Trimming(q)
  BY <1>1, NobodyElse DEF IInv, TypeOK, Undisturbed
<1>3. pc'[p] = "rewrite" /\ \A q \in Procs : q # p => pc'[q] = pc[q]
  BY <1>1 DEF Goto, IInv, TypeOK
<1>4. \A f : Ends(f)' <=> Ends(f)
  BY <1>1 DEF Ends, Total, LineOf
<1>5. HasTail(p)
  BY <1>2 DEF Tidy
<1> QED
  BY <1>1, <1>2, <1>3, <1>4, <1>5
     DEF Tidy, NotEmptied, KnowsTail, HasTail, IsTail, Emptied, Trimming

\* A tail written into an empty file is all there is.
LEMMA WrittenAlone ==
  ASSUME NEW S, file = << >>, NEW data \in Seq(S)
  PROVE  Written(0, data) = data
<1>1. Len(file) = 0 /\ Len(data) \in Nat /\ data \in [1 .. Len(data) -> S]
  BY EmptySeq, LenProperties, SeqDef
<1>2. Larger(0 + Len(data), Len(file)) = Len(data)
  BY <1>1 DEF Larger
<1>3. Written(0, data) = [i \in 1 .. Len(data) |->
                            IF i \in 0 + 1 .. 0 + Len(data) THEN data[i - 0]
                            ELSE IF i <= Len(file) THEN file[i] ELSE 0]
  BY <1>2 DEF Written
<1>4. \A i \in 1 .. Len(data) : i \in 0 + 1 .. 0 + Len(data) /\ i - 0 = i
  BY <1>1
<1>5. Written(0, data) = [i \in 1 .. Len(data) |-> data[i]]
  BY <1>3, <1>4
<1> QED
  BY <1>1, <1>5

\* What is written back is all there is then: the tail.
LEMMA RewriteTidy ==
  ASSUME IInv, Undisturbed, NEW p \in Procs, Rewrite(p)
  PROVE  Undisturbed'
<1>1. /\ pc[p] = "rewrite" /\ file' = Written(0, buf[p]) /\ Goto(p, "idle") /\ Changes(p)
      /\ offset' = [offset EXCEPT ![p] = 0] /\ buf' = [buf EXCEPT ![p] = << >>]
      /\ UNCHANGED <<recorded, kills>>
  BY DEF Rewrite, At, Done
<1> SUFFICES ASSUME ~overlapped', kills = 0
             PROVE  Tidy'
  BY <1>1 DEF Undisturbed
<1>2. Tidy /\ \A q \in Procs : q # p => ~Trimming(q)
  BY <1>1, NobodyElse DEF IInv, TypeOK, Undisturbed
<1>3. pc'[p] = "idle" /\ \A q \in Procs : q # p => pc'[q] = pc[q]
  BY <1>1 DEF Goto, IInv, TypeOK
<1>4. \A f : Ends(f)' <=> Ends(f)
  BY <1>1 DEF Ends, Total, LineOf
<1>5. file = << >> /\ IsTail(buf[p]) /\ buf[p] \in Seq(1 .. recorded)
  BY <1>1, <1>2, Totals DEF Tidy, Emptied, HasTail, IInv
<1>6. file' = buf[p]
  BY <1>1, <1>5, WrittenAlone
<1>7. Ends(file)'
  BY <1>4, <1>5, <1>6 DEF IsTail
<1> QED
  BY <1>2, <1>3, <1>7 DEF Tidy, KnowsTail, HasTail, Emptied, Trimming

\* A log that nobody has to trim is within its limit.
LEMMA TidyIsTail ==
  ASSUME IInv, Undisturbed
  PROVE  QuietLogIsTail
<1> SUFFICES ASSUME ~overlapped, kills = 0, \A p \in Procs : At(p, "idle")
             PROVE  file = LastOnes(AllLines, MaxSize)
  BY DEF QuietLogIsTail
<1>1. Ends(file)
  BY DEF Undisturbed, Tidy, NotEmptied, At
<1>2. /\ Total \in Nat /\ LineLen \in Nat /\ MaxSize \in Nat /\ MaxSize > 0
      /\ Len(file) \in Nat /\ file \in Seq(1 .. recorded)
  BY Totals DEF IInv, TypeOK
<1>3. Len(file) <= MaxSize
  <2>1. YetToTrim = {} /\ owed = 0
    <3>1. YetToTrim = {}
      BY DEF YetToTrim, At
    <3> QED
      BY <3>1, Numbers DEF IInv, TypeOK
  <2>2. Cardinality(YetToTrim) + owed = 0
    BY <2>1, FS_EmptySet
  <2>3. LineLen * 0 = 0
    BY <1>2
  <2>4. Len(file) <= MaxSize + LineLen * 0
    BY <2>2 DEF IInv, AppLogBounded
  <2> QED
    BY <1>2, <2>3, <2>4
<1> DEFINE a == Larger(Total - MaxSize, 0) + 1
<1>4. Len(file) = Total - a + 1 /\ a \in 1 .. Total + 1
  BY <1>1, <1>2, <1>3 DEF Ends, Larger
<1>5. /\ AllLines \in Seq(Int) /\ Len(AllLines) = Total
      /\ \A i \in 1 .. Total : AllLines[i] = LineOf(i)
  <2>1. AllLines = [i \in 1 .. Total |-> LineOf(i)]
    BY DEF AllLines, Total, LineOf
  <2>2. \A i \in 1 .. Total : LineOf(i) \in Int
    BY Totals DEF LineOf, IInv
  <2>3. AllLines \in [1 .. Total -> Int]
    BY <2>1, <2>2
  <2> QED
    BY <1>2, <2>1, <2>3, Sequence
<1> HIDE DEF a
<1>6. LastOnes(AllLines, MaxSize) = SubSeq(AllLines, a, Total)
  BY <1>5 DEF LastOnes, a
<1>7. /\ SubSeq(AllLines, a, Total) \in Seq(Int)
      /\ Len(SubSeq(AllLines, a, Total)) = IF a <= Total THEN Total - a + 1 ELSE 0
      /\ \A i \in 1 .. Total - a + 1 : SubSeq(AllLines, a, Total)[i] = AllLines[a + i - 1]
  <2>1. \A i \in a .. Total : AllLines[i] \in Int
    BY <1>2, <1>4, <1>5, ElementOfSeq
  <2> QED
    BY <1>2, <1>4, <1>5, <2>1, SubSeqProperties
<1>8. ASSUME NEW i \in 1 .. Len(file)
      PROVE  SubSeq(AllLines, a, Total)[i] = file[i]
  <2>1. a + i - 1 \in 1 .. Total /\ a + i - 1 = Total - Len(file) + i
    BY <1>2, <1>4
  <2> QED
    BY <1>1, <1>4, <1>5, <1>7, <2>1 DEF Ends
<1>9. file \in Seq(Int)
  BY <1>2, Totals, ElementOfSeq, SeqDef DEF IInv
<1>10. Len(SubSeq(AllLines, a, Total)) = Len(file)
  BY <1>2, <1>4, <1>7
<1> QED
  BY <1>6, <1>7, <1>8, <1>9, <1>10, SeqEqual

\* Nothing that was recorded is lost but what the limit leaves no room for, as long as no
\* trim runs into another process and none is cut short (record, rotate_file).
THEOREM QuietKeepsTail == Spec => []QuietLogIsTail
<1>1. Init => Undisturbed
  <2> SUFFICES ASSUME Init
               PROVE  Tidy
    BY DEF Undisturbed
  <2>1. Len(file) = 0 /\ Total = 0
    BY EmptySeq, AppLogAssumption DEF Init, Total
  <2> QED
    BY <2>1 DEF Init, Tidy, KnowsTail, HasTail, Emptied, Ends
<1>2. IInv /\ Undisturbed /\ [Next]_vars => Undisturbed'
  <2> SUFFICES ASSUME IInv, Undisturbed, [Next]_vars
               PROVE  Undisturbed'
    OBVIOUS
  <2>1. CASE UNCHANGED vars
    BY <2>1 DEF vars, procVars, ghostVars, Undisturbed, Tidy, NotEmptied, KnowsTail, HasTail,
                IsTail, Emptied, Trimming, Ends, Total, LineOf
  <2>2. ASSUME NEW p \in Procs, Killed(p)
        PROVE  Undisturbed'
    <3>1. kills' = kills + 1 /\ kills \in Nat
      BY <2>2, Numbers DEF Killed, IInv
    <3> QED
      BY <3>1 DEF Undisturbed
  <2> QED
    BY <2>1, <2>2, RecordTidy, MeasureTidy, ReadTailTidy, TruncateTidy, RewriteTidy DEF Next
<1>3. IInv /\ Undisturbed => QuietLogIsTail
  BY TidyIsTail
<1> QED
  BY <1>1, <1>2, <1>3, Trimmed, PTL DEF Spec
=============================================================================
