-------------------------- MODULE SessionLog_proof --------------------------
(***************************************************************************)
(* For every size of the log, of a read and of the output and any number   *)
(* of daemons: the log is a piece of the output up to its end, it does not *)
(* outgrow its limit by more than its daemon wrote, no reader is shown a   *)
(* byte twice, and tail prints the lines it was asked for.                 *)
(***************************************************************************)
EXTENDS SessionLog, SequenceTheorems, FiniteSetTheorems, TLAPS

(***************************************************************************)
(* Sets of numbers, sequences                                              *)
(***************************************************************************)

\* Some of the numbers up to n, if any, have a greatest and a least among them.
LEMMA Extremes ==
  ASSUME NEW n \in Nat, NEW T, T \subseteq 1 .. n, T # {}
  PROVE  /\ \E x \in T : \A y \in T : y <= x
         /\ \E x \in T : \A y \in T : x <= y
<1> DEFINE Less == OpToRel(<, Nat)
<1>1. \A x, y \in Nat : x < y => <<x, y>> \in Less
  BY DEF OpToRel
<1>2. \E x \in T : \A y \in T : x <= y
  <2>1. T \subseteq Nat
    OBVIOUS
  <2>2. \E x \in T : \A y \in T : <<y, x>> \notin Less
    <3> HIDE DEF Less
    <3>1. IsWellFoundedOn(Less, Nat)
      BY NatLessThanWellFounded DEF Less
    <3> QED
      BY <2>1, <3>1, WFMin
  <2>3. PICK x \in T : \A y \in T : <<y, x>> \notin Less
    BY <2>2
  <2>4. \A y \in T : ~(y < x) /\ y \in Nat /\ x \in Nat
    BY <1>1, <2>1, <2>3
  <2>5. \A y \in T : x <= y
    BY <2>4
  <2> QED
    BY <2>5
<1>3. \E x \in T : \A y \in T : y <= x
  <2> DEFINE U == {n - x : x \in T}
  <2>1. U \subseteq Nat /\ U # {}
    <3>1. \A x \in T : n - x \in Nat
      OBVIOUS
    <3> QED
      BY <3>1
  <2>2. \E x \in U : \A y \in U : <<y, x>> \notin Less
    <3> HIDE DEF Less, U
    <3>1. IsWellFoundedOn(Less, Nat)
      BY NatLessThanWellFounded DEF Less
    <3> QED
      BY <2>1, <3>1, WFMin
  <2>3. PICK x \in T : \A y \in T : <<n - y, n - x>> \notin Less
    BY <2>2
  <2>4. \A y \in T : n - y \in Nat /\ n - x \in Nat
    BY <2>1
  <2>5. \A y \in T : ~(n - y < n - x)
    BY <1>1, <2>3, <2>4
  <2>6. \A y \in T : y \in Int /\ x \in Int
    OBVIOUS
  <2>7. \A y \in T : y <= x
    BY <2>5, <2>6
  <2> QED
    BY <2>7
<1> QED
  BY <1>2, <1>3

\* A function on the numbers up to n is a sequence.
LEMMA Sequence ==
  ASSUME NEW S, NEW n \in Nat, NEW f \in [1 .. n -> S]
  PROVE  f \in Seq(S) /\ Len(f) = n
<1>1. f \in Seq(S)
  BY SeqDef
<1>2. Len(f) \in Nat /\ DOMAIN f = 1 .. Len(f) /\ DOMAIN f = 1 .. n
  BY <1>1, LenProperties
<1> QED
  BY <1>1, <1>2

\* The bytes of f up to a, or a hole, and then the data.
IsWritten(w, f, a, data) ==
    /\ Len(w) = a + Len(data)
    /\ \A i \in 1 .. a + Len(data) :
          /\ i > a => w[i] = data[i - a]
          /\ ~(i > a) => w[i] = IF i <= Len(f) THEN f[i] ELSE Hole

\* Bytes written at the end of a file, or at an offset beyond the end of an empty one.
LEMMA WrittenAt ==
  ASSUME NEW S, Hole \in S, NEW f \in Seq(S), NEW at0 \in Nat, NEW data \in Seq(S),
         Len(f) \in {0, at0}
  PROVE  /\ Written(f, at0, data) \in Seq(S)
         /\ IsWritten(Written(f, at0, data), f, at0, data)
<1> DEFINE w == Written(f, at0, data)
           n == at0 + Len(data)
<1>1. Len(f) \in Nat /\ Len(data) \in Nat /\ n \in Nat
  BY LenProperties
<1>2. Larger(Len(f), n) = n
  BY <1>1 DEF Larger
<1>3. w = [i \in 1 .. n |->
             IF i \in at0 + 1 .. n THEN data[i - at0]
             ELSE IF i <= Len(f) THEN f[i] ELSE Hole]
  BY <1>2 DEF Written
<1>4. \A i \in 1 .. n : /\ i \in at0 + 1 .. n <=> i > at0
                        /\ i > at0 => data[i - at0] \in S
                        /\ i <= Len(f) => f[i] \in S
  <2>1. \A i \in 1 .. n : /\ i \in at0 + 1 .. n <=> i > at0
                          /\ i > at0 => i - at0 \in 1 .. Len(data)
                          /\ i <= Len(f) => i \in 1 .. Len(f)
    BY <1>1
  <2> QED
    BY <2>1, ElementOfSeq
<1>5. w \in [1 .. n -> S]
  BY <1>3, <1>4
<1>6. w \in Seq(S) /\ Len(w) = n
  BY <1>1, <1>5, Sequence
<1>7. \A i \in 1 .. n : /\ i > at0 => w[i] = data[i - at0]
                        /\ ~(i > at0) => w[i] = IF i <= Len(f) THEN f[i] ELSE Hole
  BY <1>3, <1>4
<1> QED
  BY <1>6, <1>7 DEF IsWritten

\* What a read at an offset within a file returns.
LEMMA ReadFrom ==
  ASSUME NEW S, NEW f \in Seq(S), NEW p \in 0 .. Len(f), NEW n \in Nat
  PROVE  /\ ReadAt(f, p, n) \in Seq(S)
         /\ Len(ReadAt(f, p, n)) = Smaller(p + n, Len(f)) - p
         /\ Len(ReadAt(f, p, n)) \in Nat
         /\ \A i \in 1 .. Len(ReadAt(f, p, n)) : ReadAt(f, p, n)[i] = f[p + i]
<1>1. Len(f) \in Nat
  BY LenProperties
<1> DEFINE e == Smaller(p + n, Len(f))
<1>2. e \in p .. Len(f)
  BY <1>1 DEF Smaller
<1> HIDE DEF e
<1>3. \A i \in p + 1 .. e : f[i] \in S
  BY <1>1, <1>2, ElementOfSeq
<1>4. /\ SubSeq(f, p + 1, e) \in Seq(S)
      /\ Len(SubSeq(f, p + 1, e)) = IF p + 1 <= e THEN e - (p + 1) + 1 ELSE 0
      /\ \A i \in 1 .. e - (p + 1) + 1 : SubSeq(f, p + 1, e)[i] = f[p + 1 + i - 1]
  BY <1>1, <1>2, <1>3, SubSeqProperties
<1>5. \A i \in 1 .. e - p : p + 1 + i - 1 = p + i /\ e - (p + 1) + 1 = e - p
  BY <1>1, <1>2
<1>6. Len(SubSeq(f, p + 1, e)) = e - p
  BY <1>1, <1>2, <1>4
<1>7. \A i \in 1 .. e - p : SubSeq(f, p + 1, e)[i] = f[p + i]
  BY <1>1, <1>2, <1>4, <1>5
<1> QED
  BY <1>1, <1>2, <1>4, <1>6, <1>7 DEF ReadAt, e

\* Nothing is read behind the end.
LEMMA ReadNothing ==
  ASSUME NEW S, NEW f \in Seq(S), NEW p \in Nat, NEW n \in Nat, p >= Len(f)
  PROVE  ReadAt(f, p, n) = << >>
<1>1. Len(f) \in Nat
  BY LenProperties
<1>2. Smaller(p + n, Len(f)) \in Int /\ Smaller(p + n, Len(f)) < p + 1
  BY <1>1 DEF Smaller
<1> QED
  BY <1>2, SubSeqEmpty DEF ReadAt

\* The i-th byte is the newline that is one more than the l asked for, where c were
\* counted before those found here.
StopsAt(found, c, l, i) == /\ c + Cardinality({j \in found : j >= i}) > l
                           /\ ~(c + Cardinality({j \in found : j > i}) > l)

\* find_tail_start has a newline to stop at when it has counted enough of them.
LEMMA StartExists ==
  ASSUME NEW m \in Nat, NEW found, found \subseteq 1 .. m, NEW c \in Nat, NEW l \in Nat,
         c <= l, c + Cardinality(found) > l
  PROVE  \E i \in found : StopsAt(found, c, l, i)
<1>1. \A X : X \subseteq found => /\ IsFiniteSet(X) /\ Cardinality(X) \in Nat
                                  /\ X \subseteq 1 .. m
  <2>1. IsFiniteSet(1 .. m)
    BY FS_Interval
  <2> QED
    BY <2>1, FS_Subset, FS_CardinalityType
<1>2. found # {}
  BY <1>1, FS_EmptySet
<1> DEFINE From(i) == {j \in found : j >= i}
           Good == {i \in found : c + Cardinality(From(i)) > l}
<1>3. Good # {}
  <2>1. PICK x \in found : \A y \in found : x <= y
    BY <1>2, Extremes
  <2>2. From(x) = found
    BY <2>1
  <2> QED
    BY <2>1, <2>2
<1>4. PICK i \in Good : \A y \in Good : y <= i
  <2>1. Good \subseteq 1 .. m
    BY <1>1
  <2> HIDE DEF Good
  <2> QED
    BY <1>3, <2>1, Extremes
<1> DEFINE U == {j \in found : j > i}
<1>5. ~(c + Cardinality(U) > l)
  <2>1. CASE U = {}
    BY <2>1, FS_EmptySet
  <2>2. CASE U # {}
    <3>1. U \subseteq found /\ U \subseteq 1 .. m /\ i \in 1 .. m
      BY <1>1
    <3>2. PICK k \in U : \A y \in U : k <= y
      <4> HIDE DEF U
      <4> QED
        BY <2>2, <3>1, Extremes
    <3>3. k \in found /\ k > i /\ k \in 1 .. m
      BY <3>1, <3>2
    <3>4. From(k) = U
      <4>1. \A j \in found : j >= k => j > i
        BY <1>1, <3>1, <3>3
      <4>2. \A j \in found : j > i => j >= k
        BY <1>1, <3>2, <3>3
      <4> QED
        BY <4>1, <4>2
    <3>5. k \notin Good
      BY <1>4, <3>1, <3>3
    <3> QED
      BY <3>3, <3>4, <3>5
  <2> QED
    BY <2>1, <2>2
<1> QED
  BY <1>4, <1>5 DEF StopsAt

(***************************************************************************)
(* The inductive invariant                                                 *)
(***************************************************************************)

FileTypes ==
    /\ file \in Seq(0 .. MaxOut) /\ kept \in Seq(0 .. MaxOut)
    /\ daemon \in {"off", "listening", "measure", "trim", "truncate", "rewrite", "running"}
    /\ at \in 0 .. MaxOut /\ total \in 0 .. MaxOut /\ began \in 0 .. total
    /\ starts \in 0 .. Starts
ReaderTypes ==
    /\ joined \in 0 .. starts
    /\ reader \in {"idle", "size", "scan", "print", "watch", "follow", "wait", "replay",
                   "send", "attached"}
    /\ pos \in 0 .. MaxOut /\ lines \in 0 .. MaxLines /\ scan \in 0 .. MaxOut
    /\ count \in 0 .. MaxLines /\ measured \in -1 .. MaxOut
Flags == notify \in BOOLEAN /\ event \in BOOLEAN

\* Bytes that end with the t-th written.
Piece(s, t) == /\ \A i \in 1 .. Len(s) : s[i] \in {Hole, t - Len(s) + i}
               /\ HolesInFront(s)
               /\ Len(s) <= t

\* What the daemon knows of the file at each step of the trimming, and after it.
Pieces ==
    /\ Piece(file, total)
    /\ daemon = "running" => /\ Len(file) \in {0, at} /\ at <= total
                             /\ at <= MaxSize + (total - began)
    /\ daemon \in {"listening", "measure", "trim", "truncate", "rewrite"} => total = began
    /\ daemon = "trim" => Len(file) \in {0, at + MaxSize}
    /\ daemon \in {"truncate", "rewrite"} =>
          at = 0 /\ Piece(kept, total) /\ Len(kept) <= MaxSize
    /\ daemon = "truncate" => Len(file) = 0 \/ Len(kept) <= Len(file)
    /\ daemon = "rewrite" => Len(file) = 0

\* Nothing behind the reader's offset was shown, if the file is, or grows from, n bytes.
Behind(n) == last <= total - n + pos
Reading == {"size", "scan", "print", "watch", "follow", "wait", "replay"}
Shown ==
    /\ repeated = FALSE /\ last \in 0 .. total
    /\ reader \in {"size", "scan"} => last = 0
    /\ reader \in Reading =>
          /\ Behind(Len(file))
          /\ daemon = "running" => Behind(at)
          /\ daemon \in {"truncate", "rewrite"} => Behind(Len(kept))

\* The search goes on as long as there are too few newlines.
Searching == reader = "scan" => count <= lines

IInv == FileTypes /\ ReaderTypes /\ Flags /\ Pieces /\ Shown /\ Searching

(***************************************************************************)
(* Pieces                                                                  *)
(***************************************************************************)

\* A piece that is written to at the daemon's offset is a piece of more output.
LEMMA Grown ==
  ASSUME NEW S, S \subseteq Nat, Hole \in S, NEW t \in Nat, NEW f \in Seq(S), NEW a \in Nat,
         NEW data \in Seq(S), Piece(f, t), Len(f) \in {0, a}, a <= t,
         \A k \in 1 .. Len(data) : data[k] = t + k
  PROVE  Piece(Written(f, a, data), t + Len(data))
<1> DEFINE w == Written(f, a, data)
           n == Len(data)
<1>1. n \in Nat /\ Len(f) \in Nat
  BY LenProperties
<1>0. IsWritten(w, f, a, data)
  BY WrittenAt
<1> HIDE DEF w
<1>2. /\ Len(w) = a + n
      /\ \A i \in 1 .. a + n :
           /\ i > a => w[i] = data[i - a]
           /\ ~(i > a) => w[i] = IF i <= Len(f) THEN f[i] ELSE Hole
  BY <1>0 DEF IsWritten
<1>3. \A i \in 1 .. a + n : i > a => w[i] = t - a + i /\ w[i] # Hole
  <2>1. \A i \in 1 .. a + n : i > a => i - a \in 1 .. n
    BY <1>1
  <2> HIDE DEF n
  <2>2. \A i \in 1 .. a + n : i > a => w[i] = t + (i - a)
    BY <1>1, <1>2, <2>1 DEF n
  <2> QED
    BY <1>1, <2>1, <2>2 DEF Hole
<1>4. \A i \in 1 .. a + n : ~(i > a) => w[i] = IF Len(f) = 0 THEN Hole ELSE f[i]
  BY <1>1, <1>2
<1>5. \A i \in 1 .. a + n : w[i] \in {Hole, (t + n) - (a + n) + i}
  <2>1. \A i \in 1 .. a + n : ~(i > a) /\ Len(f) # 0 => f[i] \in {Hole, t - a + i}
    <3>1. CASE Len(f) = 0
      BY <3>1
    <3>2. CASE Len(f) = a
      <4>1. \A i \in 1 .. a + n : ~(i > a) => i \in 1 .. Len(f)
        BY <1>1, <3>2
      <4> QED
        BY <3>2, <4>1 DEF Piece
    <3> QED
      BY <3>1, <3>2
  <2> QED
    BY <1>1, <1>3, <1>4, <2>1
<1>6. HolesInFront(w)
  <2>1. \A i, j \in 1 .. a + n : i < j /\ w[j] = Hole => w[i] = Hole
    <3> SUFFICES ASSUME NEW i \in 1 .. a + n, NEW j \in 1 .. a + n, i < j, w[j] = Hole
                 PROVE  w[i] = Hole
      OBVIOUS
    <3>1. ~(j > a) /\ ~(i > a)
      BY <1>1, <1>3
    <3>2. CASE Len(f) = 0
      BY <1>4, <3>1, <3>2
    <3>3. CASE Len(f) # 0
      <4>1. i \in 1 .. Len(f) /\ j \in 1 .. Len(f)
        BY <1>1, <3>1, <3>3
      <4>2. w[i] = f[i] /\ w[j] = f[j]
        BY <1>4, <3>1, <3>3
      <4> QED
        BY <4>1, <4>2 DEF Piece, HolesInFront
    <3> QED
      BY <3>2, <3>3
  <2> QED
    BY <1>2, <2>1 DEF HolesInFront
<1> QED
  BY <1>1, <1>2, <1>5, <1>6 DEF Piece, w

\* Written to an empty file a piece is the piece it was.
LEMMA Restored ==
  ASSUME NEW S, Hole \in S, NEW t \in Nat, NEW f \in Seq(S), Len(f) = 0,
         NEW data \in Seq(S), Piece(data, t)
  PROVE  /\ Piece(Written(f, 0, data), t)
         /\ Len(Written(f, 0, data)) = Len(data)
<1> DEFINE w == Written(f, 0, data)
<1>1. Len(data) \in Nat
  BY LenProperties
<1>0. IsWritten(w, f, 0, data)
  <2>1. 0 \in Nat /\ Len(f) \in {0, 0}
    OBVIOUS
  <2> QED
    BY <2>1, WrittenAt
<1> HIDE DEF w
<1>2. /\ Len(w) = 0 + Len(data)
      /\ \A i \in 1 .. 0 + Len(data) :
           /\ i > 0 => w[i] = data[i - 0]
           /\ ~(i > 0) => w[i] = IF i <= Len(f) THEN f[i] ELSE Hole
  BY <1>0 DEF IsWritten
<1>3. Len(w) = Len(data) /\ \A i \in 1 .. Len(data) : i - 0 = i /\ w[i] = data[i]
  BY <1>1, <1>2
<1> QED
  BY <1>3 DEF Piece, HolesInFront, w

\* The end of a piece is a piece.
LEMMA KeptEnd ==
  ASSUME NEW S, NEW t \in Nat, NEW f \in Seq(S), Piece(f, t), NEW p \in 0 .. Len(f),
         NEW n \in Nat, p + n = Len(f)
  PROVE  Piece(ReadAt(f, p, n), t) /\ Len(ReadAt(f, p, n)) = n
<1> DEFINE r == ReadAt(f, p, n)
<1>1. Len(f) \in Nat
  BY LenProperties
<1>2. Len(r) = n /\ \A i \in 1 .. n : r[i] = f[p + i]
  <2>1. Len(r) = Smaller(p + n, Len(f)) - p /\ \A i \in 1 .. Len(r) : r[i] = f[p + i]
    BY ReadFrom
  <2>2. Smaller(p + n, Len(f)) - p = n
    BY <1>1 DEF Smaller
  <2> QED
    BY <2>1, <2>2
<1> HIDE DEF r
<1>3. \A i \in 1 .. n : p + i \in 1 .. Len(f) /\ t - Len(f) + (p + i) = t - n + i
  BY <1>1
<1>4. \A i, j \in 1 .. n : i < j => p + i < p + j
  BY <1>1
<1>5. \A i \in 1 .. n : r[i] \in {Hole, t - n + i}
  BY <1>2, <1>3 DEF Piece
<1>6. HolesInFront(r)
  BY <1>2, <1>3, <1>4 DEF Piece, HolesInFront
<1>7. n <= t
  BY <1>1 DEF Piece
<1> QED
  BY <1>2, <1>5, <1>6, <1>7 DEF Piece, r

\* Nothing is a piece.
LEMMA NoPiece == ASSUME NEW t \in Nat PROVE Piece(<< >>, t)
BY DEF Piece, HolesInFront

\* Cells of rising positions behind what was shown show nothing twice.
LEMMA ShowsMore ==
  ASSUME repeated = FALSE, last \in Nat, NEW lo \in Nat, last <= lo,
         NEW S, S \subseteq Nat, NEW cells \in Seq(S),
         \A i \in 1 .. Len(cells) : cells[i] \in {Hole, lo + i}, Shows(cells)
  PROVE  repeated' = FALSE /\ last' \in Nat /\ last' <= lo + Len(cells)
<1> DEFINE n == Len(cells)
<1>1. n \in Nat
  BY LenProperties
<1>2. Bytes(cells) \subseteq 1 .. n /\ \A i \in Bytes(cells) : cells[i] = lo + i
  BY DEF Bytes
<1>3. repeated' = FALSE
  <2>1. \A i \in Bytes(cells) : ~(cells[i] <= last)
    BY <1>1, <1>2
  <2>2. \A i, j \in Bytes(cells) : j < i => ~(cells[i] <= cells[j])
    <3>1. \A i, j \in 1 .. n : j < i => ~(lo + i <= lo + j)
      BY <1>1
    <3> QED
      BY <1>2, <3>1
  <2>3. repeated' = (repeated \/ \E i \in Bytes(cells) : \/ cells[i] <= last
                                 \/ \E j \in Bytes(cells) : j < i /\ cells[i] <= cells[j])
    BY DEF Shows
  <2> QED
    BY <2>1, <2>2, <2>3
<1>4. CASE Bytes(cells) = {}
  <2>1. last' = last
    BY <1>4 DEF Shows
  <2> QED
    BY <1>1, <1>3, <2>1
<1>5. CASE Bytes(cells) # {}
  <2> DEFINE greatest == CHOOSE i \in Bytes(cells) : \A j \in Bytes(cells) : j <= i
  <2>1. \E i \in Bytes(cells) : \A j \in Bytes(cells) : j <= i
    <3> HIDE DEF n
    <3> QED
      BY <1>1, <1>2, <1>5, Extremes
  <2>2. greatest \in Bytes(cells)
    BY <2>1
  <2>3. last' = cells[greatest]
    BY <1>5 DEF Shows
  <2> HIDE DEF greatest
  <2>4. last' = lo + greatest /\ greatest \in 1 .. n
    BY <1>2, <2>2, <2>3
  <2> QED
    BY <1>1, <1>3, <2>4
<1> QED
  BY <1>4, <1>5

(***************************************************************************)
(* The file and the daemon                                                 *)
(***************************************************************************)

\* What the arithmetic below needs of the file and what is kept of it.
LEMMA Lengths ==
  ASSUME FileTypes
  PROVE  /\ Len(file) \in Nat /\ Len(kept) \in Nat /\ MaxSize \in Nat /\ MaxSize > 0
         /\ BufSize \in Nat /\ BufSize > 0 /\ MaxLines \in Nat
         /\ MaxOut \in Nat /\ Starts \in Nat
         /\ total \in Nat /\ at \in Nat /\ began \in Nat
         /\ Hole \in 0 .. MaxOut /\ 0 .. MaxOut \subseteq Nat
<1>1. Len(file) \in Nat /\ Len(kept) \in Nat
  BY LenProperties DEF FileTypes
<1> QED
  BY <1>1, LogAssumption DEF FileTypes, Hole

\* The file and the daemon are as the invariant says.
FileInv == FileTypes /\ Pieces

LEMMA ListenKeeps == ASSUME FileInv, Listen PROVE FileInv'
<1>1. FileTypes'
  BY Lengths DEF FileInv, FileTypes, Listen
<1>2. Pieces'
  BY Lengths DEF FileInv, FileTypes, Pieces, Listen, Piece, HolesInFront
<1> QED
  BY <1>1, <1>2 DEF FileInv

LEMMA OpenKeeps == ASSUME FileInv, Open PROVE FileInv'
<1>1. FileTypes'
  BY DEF FileInv, FileTypes, Open, DaemonAt
<1>2. Pieces'
  BY DEF FileInv, Pieces, Open, DaemonAt, Piece, HolesInFront
<1> QED
  BY <1>1, <1>2 DEF FileInv

LEMMA MeasureKeeps == ASSUME FileInv, Measure PROVE FileInv'
<1>0. Len(file) \in Nat /\ Len(file) <= total /\ Len(file) <= MaxOut
  BY Lengths DEF FileInv, FileTypes, Pieces, Piece
<1>1. FileTypes'
  BY <1>0, Lengths DEF FileInv, FileTypes, Measure, DaemonAt
<1>2. Piece(file, total)'
  BY DEF FileInv, Pieces, Measure, DaemonAt, Piece, HolesInFront
<1>3. Pieces'
  BY <1>0, <1>2, Lengths DEF FileInv, FileTypes, Pieces, Measure, DaemonAt
<1> QED
  BY <1>1, <1>3 DEF FileInv

LEMMA ReadKeptKeeps == ASSUME FileInv, ReadKept PROVE FileInv'
<1> DEFINE rest == ReadAt(file, at, MaxSize)
<1>0. Len(file) \in Nat /\ Len(file) <= total /\ Len(file) <= MaxOut
  BY Lengths DEF FileInv, FileTypes, Pieces, Piece
<1>1. /\ daemon = "trim" /\ kept' = rest /\ UNCHANGED <<file, total, began, starts>>
      /\ rest = << >> => daemon' = "running" /\ at' = Len(file)
      /\ rest # << >> => daemon' = "truncate" /\ at' = 0
  BY DEF ReadKept, DaemonAt
<1>2. Piece(file, total)'
  BY <1>1 DEF FileInv, Pieces, Piece, HolesInFront
<1>3. CASE Len(file) = 0
  <2>1. rest = << >>
    <3>1. file \in Seq(0 .. MaxOut) /\ at \in Nat /\ MaxSize \in Nat /\ at >= Len(file)
      BY <1>3, Lengths DEF FileInv, FileTypes
    <3> QED
      BY <3>1, ReadNothing
  <2>2. << >> \in Seq(0 .. MaxOut)
    OBVIOUS
  <2> HIDE DEF rest
  <2>3. FileTypes'
    BY <1>0, <1>1, <1>3, <2>1, <2>2, Lengths DEF FileInv, FileTypes
  <2>4. Pieces'
    BY <1>0, <1>1, <1>2, <1>3, <2>1, Lengths DEF FileInv, FileTypes, Pieces
  <2> QED
    BY <2>3, <2>4 DEF FileInv
<1>4. CASE Len(file) # 0
  <2>1. Len(file) = at + MaxSize /\ at \in 0 .. Len(file) /\ total = began
    BY <1>1, <1>4, Lengths DEF FileInv, FileTypes, Pieces
  <2>2. Piece(rest, total) /\ Len(rest) = MaxSize
    <3>1. file \in Seq(0 .. MaxOut) /\ total \in Nat /\ MaxSize \in Nat /\ Piece(file, total)
      BY Lengths DEF FileInv, FileTypes, Pieces
    <3>2. at + MaxSize = Len(file)
      BY <2>1
    <3> QED
      BY <2>1, <3>1, <3>2, KeptEnd
  <2>3. rest \in Seq(0 .. MaxOut)
    BY <2>1, Lengths, ReadFrom DEF FileInv, FileTypes
  <2>4. rest # << >>
    BY <2>2, Lengths DEF FileInv
  <2> HIDE DEF rest
  <2>5. FileTypes'
    BY <1>0, <1>1, <2>3, <2>4, Lengths DEF FileInv, FileTypes
  <2>6. Piece(kept, total)'
    BY <1>1, <2>2 DEF Piece, HolesInFront
  <2>7. Pieces'
    BY <1>0, <1>1, <1>2, <2>1, <2>2, <2>4, <2>6, Lengths DEF FileInv, Pieces
  <2> QED
    BY <2>5, <2>7 DEF FileInv
<1> QED
  BY <1>3, <1>4

LEMMA TruncateKeeps == ASSUME FileInv, Truncate PROVE FileInv'
<1>1. /\ daemon = "truncate" /\ daemon' = "rewrite" /\ file' = << >>
      /\ UNCHANGED <<at, kept, total, began, starts>>
  BY DEF Truncate, DaemonAt
<1>2. << >> \in Seq(0 .. MaxOut) /\ Len(<< >>) = 0
  OBVIOUS
<1>3. FileTypes'
  BY <1>1, <1>2, Lengths DEF FileInv, FileTypes
<1>4. Piece(file, total)'
  BY <1>1, Lengths DEF FileInv, Piece, HolesInFront
<1>5. Piece(kept, total)'
  BY <1>1 DEF FileInv, Pieces, Piece, HolesInFront
<1>6. Pieces'
  BY <1>1, <1>2, <1>4, <1>5 DEF FileInv, Pieces
<1> QED
  BY <1>3, <1>6 DEF FileInv

LEMMA RewriteKeeps == ASSUME FileInv, Rewrite PROVE FileInv'
<1>1. /\ daemon = "rewrite" /\ daemon' = "running" /\ at = 0 /\ Len(file) = 0
      /\ file' = Written(file, 0, kept) /\ at' = Len(file') /\ kept' = << >>
      /\ Piece(kept, total) /\ Len(kept) <= MaxSize /\ total = began
      /\ UNCHANGED <<total, began, starts>>
  BY DEF FileInv, Pieces, Rewrite, DaemonAt
<1>2. Written(file, 0, kept) \in Seq(0 .. MaxOut)
  <2>1. 0 \in Nat /\ Len(file) \in {0, 0}
    BY <1>1
  <2> QED
    BY <2>1, Lengths, WrittenAt DEF FileInv, FileTypes
<1>3. Piece(Written(file, 0, kept), total) /\ Len(Written(file, 0, kept)) = Len(kept)
  <2>1. /\ Hole \in 0 .. MaxOut /\ total \in Nat
        /\ file \in Seq(0 .. MaxOut) /\ kept \in Seq(0 .. MaxOut)
    BY Lengths DEF FileInv, FileTypes
  <2> QED
    BY <1>1, <2>1, Restored
<1>4. Len(kept) <= total
  BY <1>1 DEF Piece
<1>5. << >> \in Seq(0 .. MaxOut)
  OBVIOUS
<1>6. FileTypes'
  BY <1>1, <1>2, <1>3, <1>4, <1>5, Lengths DEF FileInv, FileTypes
<1>7. Piece(file, total)'
  BY <1>1, <1>3 DEF Piece, HolesInFront
<1>8. Pieces'
  BY <1>1, <1>3, <1>4, <1>7, Lengths DEF FileInv, Pieces
<1> QED
  BY <1>6, <1>8 DEF FileInv

\* Bytes of output, or the marker.
LEMMA Extends ==
  ASSUME FileInv, NEW data \in Seq(0 .. MaxOut), daemon = "running",
         \A k \in 1 .. Len(data) : data[k] = total + k
  PROVE  /\ Written(file, at, data) \in Seq(0 .. MaxOut)
         /\ Len(Written(file, at, data)) = at + Len(data)
         /\ Piece(Written(file, at, data), total + Len(data))
<1>1. Len(file) \in {0, at} /\ at <= total /\ Piece(file, total)
  BY DEF FileInv, Pieces
<1>2. Written(file, at, data) \in Seq(0 .. MaxOut) /\ IsWritten(Written(file, at, data), file, at, data)
  BY <1>1, Lengths, WrittenAt DEF FileInv, FileTypes
<1>3. Piece(Written(file, at, data), total + Len(data))
  BY <1>1, Lengths, Grown DEF FileInv, FileTypes
<1> QED
  BY <1>2, <1>3 DEF IsWritten

\* The bytes of an Output.
LEMMA OutputIs ==
  ASSUME FileTypes, NEW n \in 1 .. BufSize, total + n <= MaxOut
  PROVE  /\ [k \in 1 .. n |-> total + k] \in Seq(0 .. MaxOut)
         /\ Len([k \in 1 .. n |-> total + k]) = n
         /\ \A k \in 1 .. n : [j \in 1 .. n |-> total + j][k] = total + k
<1>1. n \in Nat
  BY Lengths
<1>2. [k \in 1 .. n |-> total + k] \in [1 .. n -> 0 .. MaxOut]
  BY Lengths
<1> QED
  BY <1>1, <1>2, Sequence

LEMMA OutputKeeps == ASSUME FileInv, NEW n \in 1 .. BufSize, Output(n) PROVE FileInv'
<1> DEFINE data == [k \in 1 .. n |-> total + k]
<1>1. /\ daemon = "running" /\ total + n <= MaxOut /\ file' = Written(file, at, data)
      /\ at' = at + n /\ total' = total + n /\ UNCHANGED <<daemon, kept, began, starts>>
  BY DEF Output
<1>2. data \in Seq(0 .. MaxOut) /\ Len(data) = n /\ \A k \in 1 .. n : data[k] = total + k
  BY <1>1, OutputIs DEF FileInv
<1> HIDE DEF data
<1>3. /\ Written(file, at, data) \in Seq(0 .. MaxOut)
      /\ Len(Written(file, at, data)) = at + n
      /\ Piece(Written(file, at, data), total + n)
  BY <1>1, <1>2, Extends
<1>4. n \in Nat /\ at <= total /\ at <= MaxSize + (total - began)
  BY <1>1, Lengths DEF FileInv, Pieces
<1>5. FileTypes'
  <2>1. total' \in 0 .. MaxOut /\ at' \in 0 .. MaxOut /\ began' \in 0 .. total'
    BY <1>1, <1>4, Lengths DEF FileInv, FileTypes
  <2> QED
    BY <1>1, <1>3, <2>1 DEF FileInv, FileTypes
<1>6. Piece(file, total)'
  BY <1>1, <1>3 DEF Piece, HolesInFront
<1>7. /\ Len(file') = at' /\ at' <= total' /\ at' <= MaxSize + (total' - began')
      /\ daemon' = "running"
  <2>1. MaxSize \in Nat /\ total \in Nat /\ at \in Nat /\ began \in Nat
    BY Lengths DEF FileInv
  <2>2. at + n <= total + n /\ at + n <= MaxSize + ((total + n) - began)
    BY <1>4, <2>1
  <2> QED
    BY <1>1, <1>3, <2>2
<1>8. Pieces'
  BY <1>6, <1>7 DEF Pieces
<1> QED
  BY <1>5, <1>8 DEF FileInv

LEMMA CloseKeeps == ASSUME FileInv, Close PROVE FileInv'
<1> DEFINE data == <<total + 1>>
<1>1. /\ daemon = "running" /\ total < MaxOut /\ file' = Written(file, at, data)
      /\ daemon' = "off" /\ at' = 0 /\ kept' = << >>
      /\ total' = total + 1 /\ UNCHANGED <<began, starts>>
  BY DEF Close, Ends
<1>2. data \in Seq(0 .. MaxOut) /\ Len(data) = 1 /\ \A k \in 1 .. 1 : data[k] = total + k
  BY <1>1, Lengths DEF FileInv
<1> HIDE DEF data
<1>3. /\ Written(file, at, data) \in Seq(0 .. MaxOut)
      /\ Piece(Written(file, at, data), total + 1)
  BY <1>1, <1>2, Extends
<1>4. << >> \in Seq(0 .. MaxOut)
  OBVIOUS
<1>5. FileTypes'
  BY <1>1, <1>3, <1>4, Lengths DEF FileInv, FileTypes
<1>6. Piece(file, total)'
  BY <1>1, <1>3 DEF Piece, HolesInFront
<1>7. Pieces'
  BY <1>1, <1>6 DEF Pieces
<1> QED
  BY <1>5, <1>7 DEF FileInv

LEMMA CrashKeeps == ASSUME FileInv, Crash PROVE FileInv'
<1>1. /\ daemon' = "off" /\ at' = 0 /\ kept' = << >> /\ UNCHANGED <<file, total, began, starts>>
  BY DEF Crash, Ends
<1>2. << >> \in Seq(0 .. MaxOut)
  OBVIOUS
<1>3. FileTypes'
  BY <1>1, <1>2, Lengths DEF FileInv, FileTypes
<1>4. Pieces'
  BY <1>1 DEF FileInv, Pieces, Piece, HolesInFront
<1> QED
  BY <1>3, <1>4 DEF FileInv

LEMMA ClearKeeps == ASSUME FileInv, Clear PROVE FileInv'
<1>1. file' = << >> /\ UNCHANGED <<daemon, at, kept, total, began, starts>>
  BY DEF Clear, daemonVars
<1>2. << >> \in Seq(0 .. MaxOut) /\ Len(<< >>) = 0
  OBVIOUS
<1>3. FileTypes'
  BY <1>1, <1>2, Lengths DEF FileInv, FileTypes
<1>4. Piece(file, total)'
  BY <1>1, Lengths DEF FileInv, Piece, HolesInFront
<1>5. daemon \in {"truncate", "rewrite"} => Piece(kept, total)'
  BY <1>1 DEF FileInv, Pieces, Piece, HolesInFront
<1>6. Pieces'
  BY <1>1, <1>2, <1>4, <1>5 DEF FileInv, Pieces
<1> QED
  BY <1>3, <1>6 DEF FileInv

\* A step of a reader leaves the file and the daemon as they are.
LEMMA ReaderLeaves ==
  ASSUME \/ ReaderStep \/ Quit \/ (\E n \in 1 .. MaxLines : StartTail(n)) \/ Connect
         \/ UNCHANGED vars
  PROVE  UNCHANGED <<file, daemon, at, kept, total, began, starts>>
<1>1. ASSUME ReaderStep
      PROVE  UNCHANGED <<file, daemon, at, kept, total, began, starts>>
  BY <1>1 DEF ReaderStep, TailSize, TailScan, PrintPart, PrintEnd, Watch, Follow, FollowEnd, Wakes,
     ReplayLog, ReplayLogEnd, HandleAttach, AttachFails, ReadMore, daemonVars
<1>2. ASSUME NEW n, StartTail(n)
      PROVE  UNCHANGED <<file, daemon, at, kept, total, began, starts>>
  BY <1>2 DEF StartTail, daemonVars
<1>3. ASSUME Connect \/ Quit \/ UNCHANGED vars
      PROVE  UNCHANGED <<file, daemon, at, kept, total, began, starts>>
  BY <1>3 DEF Connect, Quit, vars, daemonVars
<1> QED
  BY <1>1, <1>2, <1>3

\* The cases of a step.
LEMMA Steps ==
  ASSUME [Next]_vars
  PROVE  \/ Listen \/ Open \/ Measure \/ ReadKept \/ Truncate \/ Rewrite
         \/ (\E n \in 1 .. BufSize : Output(n)) \/ Close \/ Crash \/ Clear
         \/ ReaderStep \/ Quit \/ (\E n \in 1 .. MaxLines : StartTail(n)) \/ Connect
         \/ UNCHANGED vars
BY DEF Next, DaemonStep

LEMMA FileInvKept == ASSUME FileInv, [Next]_vars PROVE FileInv'
<1>1. CASE \/ ReaderStep \/ Quit \/ (\E n \in 1 .. MaxLines : StartTail(n)) \/ Connect
           \/ UNCHANGED vars
  <2>1. UNCHANGED <<file, daemon, at, kept, total, began, starts>>
    BY <1>1, ReaderLeaves
  <2> QED
    BY <2>1 DEF FileInv, FileTypes, Pieces, Piece, HolesInFront
<1> QED
  BY <1>1, Steps, ListenKeeps, OpenKeeps, MeasureKeeps, ReadKeptKeeps, TruncateKeeps, RewriteKeeps,
     OutputKeeps, CloseKeeps, CrashKeeps, ClearKeeps

(***************************************************************************)
(* The reader                                                              *)
(***************************************************************************)

ReaderInv == ReaderTypes /\ Flags /\ Searching

LEMMA Size == ASSUME FileInv PROVE Len(file) \in 0 .. MaxOut /\ Len(file) <= total
BY Lengths DEF FileInv, FileTypes, Pieces, Piece

\* One chunk of find_tail_start, and what it counted.
LEMMA TailScanIs ==
  ASSUME FileInv, ReaderInv, TailScan
  PROVE  /\ pos' \in 0 .. MaxOut /\ scan' \in 0 .. MaxOut /\ count' \in 0 .. MaxLines
         /\ reader' = "scan" => count' <= lines
         /\ reader' \in {"scan", "print"} /\ UNCHANGED <<joined, notify, lines, measured, event>>
<1> DEFINE lo == Larger(scan - BufSize, 0)
           found == NewlinesIn(file, lo, scan)
           n == count + Cardinality(found)
           start == CHOOSE i \in found :
                      Enough(count + Cardinality({j \in found : j >= i})) /\
                      ~Enough(count + Cardinality({j \in found : j > i}))
<1>1. /\ reader = "scan" /\ UNCHANGED <<lines, measured, event, joined, notify>>
      /\ \/ n > lines /\ reader' = "print" /\ scan' = 0 /\ count' = 0 /\ pos' = start
         \/ reader' = "print" /\ scan' = 0 /\ count' = 0 /\ pos' = 0
         \/ /\ ~(n > lines)
            /\ scan' = lo /\ count' = n /\ UNCHANGED <<reader, pos>>
  <2> HIDE DEF lo, start
  <2> QED
    BY DEF TailScan, ReaderAt, Enough, lo, start
<1>0. /\ scan \in Nat /\ scan <= MaxOut /\ BufSize \in Nat /\ MaxOut \in Nat
      /\ Len(file) \in Nat /\ MaxLines \in Nat
  BY Lengths DEF FileInv, ReaderInv, ReaderTypes
<1>2. lo \in 0 .. MaxOut
  BY <1>0 DEF Larger
<1>3. found \subseteq 1 .. Len(file)
  <2> HIDE DEF lo
  <2>1. Smaller(scan, Len(file)) \in Int /\ Smaller(scan, Len(file)) <= Len(file)
    BY <1>0 DEF Smaller
  <2>2. lo + 1 .. Smaller(scan, Len(file)) \subseteq 1 .. Len(file)
    BY <1>0, <1>2, <2>1
  <2> QED
    BY <2>2 DEF NewlinesIn
<1> HIDE DEF found, lo
<1>4. Cardinality(found) \in Nat
  <2>1. IsFiniteSet(1 .. Len(file))
    BY Lengths, FS_Interval DEF FileInv
  <2> QED
    BY <1>3, <2>1, FS_Subset, FS_CardinalityType
<1>5. count \in Nat /\ lines \in Nat /\ lines <= MaxLines /\ count <= lines /\ n \in Nat
  <2>1. count \in 0 .. MaxLines /\ lines \in 0 .. MaxLines /\ count <= lines
    BY <1>1 DEF ReaderInv, ReaderTypes, Searching
  <2> QED
    BY <1>0, <1>4, <2>1
<1>6. n > lines => start \in 0 .. MaxOut
  <2> SUFFICES ASSUME n > lines PROVE start \in 0 .. MaxOut
    OBVIOUS
  <2>1. Len(file) \in Nat
    BY Lengths DEF FileInv
  <2>2. \E i \in found : StopsAt(found, count, lines, i)
    BY <1>3, <1>5, <2>1, StartExists
  <2>3. \E i \in found : Enough(count + Cardinality({j \in found : j >= i})) /\
                         ~Enough(count + Cardinality({j \in found : j > i}))
    BY <2>2 DEF Enough, StopsAt
  <2>4. start \in found
    BY <2>3
  <2>5. start \in 1 .. Len(file)
    BY <1>3, <2>4
  <2> HIDE DEF start
  <2> QED
    BY <2>5, Size, LogAssumption
<1> HIDE DEF start, n
<1>7. ~(n > lines) => n \in 0 .. MaxLines /\ n <= lines
  BY <1>5, Lengths DEF FileInv
<1>8. 0 \in 0 .. MaxOut /\ 0 \in 0 .. MaxLines /\ pos \in 0 .. MaxOut
  BY Lengths DEF FileInv, ReaderInv, ReaderTypes
<1> QED
  BY <1>1, <1>2, <1>6, <1>7, <1>8

\* A read moves the offset.
LEMMA ReadMoreIs ==
  ASSUME FileInv, ReaderInv, ReadMore
  PROVE  /\ pos' \in 0 .. MaxOut
         /\ UNCHANGED <<file, daemon, at, kept, total, began, starts>>
         /\ UNCHANGED <<reader, joined, lines, scan, count, measured, notify, event>>
<1>1. pos' = Smaller(pos + BufSize, Len(file))
  BY DEF ReadMore
<1>2. pos' \in 0 .. MaxOut
  <2>1. /\ pos \in Nat /\ pos <= MaxOut /\ BufSize \in Nat /\ MaxOut \in Nat
        /\ Len(file) \in Nat /\ Len(file) <= MaxOut
    BY Lengths, Size DEF FileInv, ReaderInv, ReaderTypes
  <2> QED
    BY <1>1, <2>1 DEF Smaller
<1> QED
  BY <1>2 DEF ReadMore, daemonVars, tailVars

LEMMA ReaderStepKeeps ==
  ASSUME FileInv, ReaderInv, ReaderStep PROVE ReaderInv'
<1>1. starts' = starts /\ Len(file) \in 0 .. MaxOut /\ 0 \in 0 .. MaxOut
      /\ 0 \in 0 .. MaxLines /\ -1 \in -1 .. MaxOut /\ Len(file) \in -1 .. MaxOut
      /\ 0 \in -1 .. MaxOut
  BY ReaderLeaves, Size, Lengths DEF FileInv
<1>2. CASE TailSize
  BY <1>1, <1>2 DEF TailSize, ReaderAt, ReaderInv, ReaderTypes, Flags, Searching, daemonVars
<1>3. CASE TailScan
  <2>1. \A x \in {"scan", "print"} : x \in {"idle", "size", "scan", "print", "watch", "follow",
           "wait", "replay", "send", "attached"}
    OBVIOUS
  <2> QED
    BY <1>1, <1>3, <2>1, TailScanIs DEF ReaderInv, ReaderTypes, Flags, Searching
<1>4. CASE PrintPart \/ Follow \/ ReplayLog
  <2>1. ReadMore
    BY <1>4 DEF PrintPart, Follow, ReplayLog
  <2> QED
    BY <1>1, <2>1, ReadMoreIs DEF ReaderInv, ReaderTypes, Flags, Searching
<1>5. CASE PrintEnd
  BY <1>1, <1>5 DEF PrintEnd, ReaderInv, ReaderTypes, Flags, Searching, daemonVars
<1>6. CASE Watch
  BY <1>1, <1>6 DEF Watch, ReaderInv, ReaderTypes, Flags, Searching, daemonVars, tailVars
<1>7. CASE FollowEnd
  BY <1>1, <1>7 DEF FollowEnd, ReaderAt, ReaderInv, ReaderTypes, Flags, Searching, tailVars
<1>8. CASE Wakes
  BY <1>1, <1>8 DEF Wakes, ReaderAt, ReaderInv, ReaderTypes, Flags, Searching, tailVars
<1>9. CASE ReplayLogEnd \/ HandleAttach \/ AttachFails
  BY <1>1, <1>9 DEF ReplayLogEnd, HandleAttach, AttachFails, ReaderAt, ReaderInv, ReaderTypes,
     Flags, Searching, tailVars
<1> QED
  BY <1>2, <1>3, <1>4, <1>5, <1>6, <1>7, <1>8, <1>9 DEF ReaderStep

\* The other steps: what they change for the reader.
LEMMA OthersKeep ==
  ASSUME FileInv, ReaderInv,
         \/ Listen \/ Open \/ Measure \/ ReadKept \/ Truncate \/ Rewrite
         \/ (\E n \in 1 .. BufSize : Output(n)) \/ Close \/ Crash \/ Clear
         \/ Quit \/ (\E n \in 1 .. MaxLines : StartTail(n)) \/ Connect \/ UNCHANGED vars
  PROVE  ReaderInv'
<1>1. 0 \in 0 .. MaxOut /\ 0 \in 0 .. MaxLines /\ -1 \in -1 .. MaxOut /\ 0 \in -1 .. MaxOut
      /\ starts \in Nat /\ starts \in 0 .. starts /\ 0 \in 0 .. starts
  BY Lengths DEF FileInv, FileTypes
<1>2. CASE Listen
  <2>1. joined \in 0 .. starts + 1
    BY <1>1 DEF ReaderInv, ReaderTypes
  <2> QED
    BY <1>2, <2>1 DEF Listen, ReaderInv, ReaderTypes, Flags, Searching, readerVars, tailVars
<1>3. CASE Open \/ Measure \/ ReadKept
  BY <1>3 DEF Open, Measure, ReadKept, DaemonAt, ReaderInv, ReaderTypes, Flags, Searching,
     readerVars, tailVars
<1>4. CASE Truncate \/ Clear
  <2>1. event' = (event \/ notify) /\ measured' \in {-1, measured}
        /\ UNCHANGED <<starts, reader, joined, pos, lines, scan, count, notify>>
    BY <1>4 DEF Truncate, Clear, DaemonAt, Modified, Shrunk, daemonVars
  <2>2. event' \in BOOLEAN
    BY <2>1 DEF ReaderInv, Flags
  <2> QED
    BY <1>1, <2>1, <2>2 DEF ReaderInv, ReaderTypes, Flags, Searching
<1>5. CASE Rewrite \/ (\E n \in 1 .. BufSize : Output(n))
  <2>1. event' = (event \/ notify) /\ UNCHANGED <<starts, readerVars>>
    BY <1>5 DEF Rewrite, Output, DaemonAt, Modified
  <2>2. event' \in BOOLEAN
    BY <2>1 DEF ReaderInv, Flags
  <2> QED
    BY <2>1, <2>2 DEF ReaderInv, ReaderTypes, Flags, Searching, readerVars, tailVars
<1>6. CASE Close \/ Crash
  <2>1. /\ event' = event \/ event' = (event \/ notify)
        /\ reader' \in {"idle", reader} /\ (reader' = "idle" \/ reader' = reader)
        /\ UNCHANGED <<starts, joined, pos, lines, scan, count, notify, measured>>
    BY <1>6 DEF Close, Crash, Ends, Modified, tailVars
  <2>2. event' \in BOOLEAN
    BY <2>1 DEF ReaderInv, Flags
  <2> QED
    BY <2>1, <2>2 DEF ReaderInv, ReaderTypes, Flags, Searching
<1>7. CASE Quit
  BY <1>1, <1>7 DEF Quit, daemonVars, ReaderInv, ReaderTypes, Flags, Searching
<1>8. ASSUME NEW n \in 1 .. MaxLines, StartTail(n) PROVE ReaderInv'
  <2>1. n \in 0 .. MaxLines
    BY Lengths DEF FileInv
  <2> QED
    BY <1>1, <1>8, <2>1 DEF StartTail, ReaderAt, daemonVars, ReaderInv, ReaderTypes, Flags, Searching
<1>9. CASE Connect
  BY <1>1, <1>9 DEF Connect, daemonVars, tailVars, ReaderInv, ReaderTypes, Flags, Searching
<1>10. CASE UNCHANGED vars
  BY <1>10 DEF vars, daemonVars, readerVars, tailVars, ReaderInv, ReaderTypes, Flags, Searching
<1> QED
  BY <1>2, <1>3, <1>4, <1>5, <1>6, <1>7, <1>8, <1>9, <1>10

LEMMA ReaderInvKept == ASSUME FileInv, ReaderInv, [Next]_vars PROVE ReaderInv'
BY Steps, ReaderStepKeeps, OthersKeep

(***************************************************************************)
(* What is shown                                                           *)
(***************************************************************************)

\* The invariant without the parts that are proved above.
All == FileInv /\ ReaderInv /\ Shown

\* The numbers that bound what was shown.
LEMMA Numbers ==
  ASSUME All
  PROVE  /\ last \in Nat /\ last <= total /\ pos \in Nat
         /\ Len(file) \in Nat /\ Len(kept) \in Nat /\ total \in Nat /\ at \in Nat
         /\ Len(file) <= total /\ BufSize \in Nat
BY Lengths, Size DEF All, FileInv, ReaderInv, ReaderTypes, Shown

\* A step that shows nothing, and does not move the reader, moves the file as it should.
LEMMA Unseen ==
  ASSUME All, UNCHANGED <<last, repeated, pos>>, total' \in Nat, total <= total',
         reader' = reader \/ (reader' \in Reading => reader \in Reading \ {"size", "scan"}
                                                     /\ reader' \notin {"size", "scan"})
                          \/ reader' \notin Reading,
         reader' \in Reading =>
            /\ Behind(Len(file))'
            /\ daemon' = "running" => Behind(at)'
            /\ daemon' \in {"truncate", "rewrite"} => Behind(Len(kept))'
  PROVE  Shown'
<1>1. repeated' = FALSE /\ last' \in 0 .. total'
  <2>1. repeated = FALSE /\ last \in Nat /\ last <= total /\ total \in Nat
    BY Numbers DEF All, Shown
  <2>2. last' = last /\ repeated' = repeated
    OBVIOUS
  <2>3. last \in 0 .. total'
    BY <2>1
  <2> QED
    BY <2>1, <2>2, <2>3
<1>2. reader' \in {"size", "scan"} => last' = 0
  BY DEF All, Shown, Reading
<1> QED
  BY <1>1, <1>2 DEF Shown

\* The steps that only the daemon takes, or clear.
LEMMA DaemonUnseen ==
  ASSUME All,
         \/ Listen \/ Open \/ Measure \/ ReadKept \/ Truncate \/ Rewrite
         \/ Crash \/ Clear \/ Close
  PROVE  Shown'
<1>1. /\ UNCHANGED <<last, repeated, pos>>
      /\ reader' = reader \/ reader' = "idle"
      /\ total' \in Nat /\ total <= total'
  <2>1. /\ UNCHANGED <<last, repeated, pos>>
        /\ reader' = reader \/ reader' = "idle"
        /\ total' = total \/ total' = total + 1
    BY DEF Listen, Open, Measure, ReadKept, Truncate, Rewrite, Crash, Clear, Close, Ends,
       DaemonAt, daemonVars, readerVars, shownVars
  <2> QED
    BY <2>1, Numbers
<1>2. ASSUME reader' \in Reading
      PROVE  /\ Behind(Len(file))'
             /\ daemon' = "running" => Behind(at)'
             /\ daemon' \in {"truncate", "rewrite"} => Behind(Len(kept))'
  <2>0. /\ reader \in Reading /\ UNCHANGED <<last, pos>>
        /\ last <= total - Len(file) + pos
        /\ daemon = "running" => last <= total - at + pos
        /\ daemon \in {"truncate", "rewrite"} => last <= total - Len(kept) + pos
    BY <1>1, <1>2 DEF Reading, All, Shown, Behind
  <2>1. CASE Listen \/ Open
    BY <2>0, <2>1 DEF Listen, Open, DaemonAt, Behind
  <2>2. CASE Measure
    <3>1. /\ file' = file /\ total' = total
          /\ daemon' = "running" \/ daemon' = "trim"
          /\ daemon' = "running" => at' = Len(file)
      BY <2>2 DEF Measure, DaemonAt
    <3>2. last' = last /\ pos' = pos
      BY <2>0
    <3> QED
      BY <2>0, <3>1, <3>2 DEF Behind
  <2>3. CASE ReadKept
    <3>1. /\ UNCHANGED <<file, total>> /\ daemon' \in {"running", "truncate"}
          /\ daemon' = "running" => at' = Len(file)
      BY <2>3 DEF ReadKept, DaemonAt
    <3>2. daemon' = "truncate" => Len(kept') \in Nat /\ Len(kept') <= Len(file)
      <4>1. Pieces' /\ FileTypes'
        BY <2>3, ReadKeptKeeps DEF All, FileInv
      <4>2. daemon' = "truncate" => kept' # << >>
        BY <2>3 DEF ReadKept, DaemonAt
      <4>3. Len(kept') \in Nat /\ (daemon' = "truncate" => Len(file) = 0 \/ Len(kept') <= Len(file))
        BY <3>1, <4>1, LenProperties DEF FileTypes, Pieces
      <4>4. Len(file) = 0 => kept' = << >>
        <5>1. file \in Seq(0 .. MaxOut) /\ at \in Nat /\ MaxSize \in Nat
          BY Lengths DEF All, FileInv, FileTypes
        <5>2. Len(file) = 0 => ReadAt(file, at, MaxSize) = << >>
          <6> SUFFICES ASSUME Len(file) = 0 PROVE ReadAt(file, at, MaxSize) = << >>
            OBVIOUS
          <6>1. at >= Len(file)
            BY <5>1
          <6> QED
            BY <5>1, <6>1, ReadNothing
        <5> QED
          BY <2>3, <5>2 DEF ReadKept
      <4> QED
        BY <4>2, <4>3, <4>4
    <3> QED
      BY <2>0, <3>1, <3>2, Numbers DEF Behind
  <2>4. CASE Truncate
    <3>1. /\ daemon = "truncate" /\ daemon' = "rewrite" /\ Len(file') = 0 /\ UNCHANGED <<total, kept>>
      BY <2>4 DEF Truncate, DaemonAt
    <3> QED
      BY <2>0, <3>1, Numbers DEF Behind
  <2>5. CASE Rewrite
    <3>1. /\ daemon = "rewrite" /\ daemon' = "running" /\ at' = Len(file') /\ total' = total
          /\ file' = Written(file, 0, kept)
      BY <2>5 DEF Rewrite, DaemonAt, All, FileInv, Pieces
    <3>2. Len(file') = Len(kept)
      <4>1. Len(file) = 0 /\ Piece(kept, total)
        BY <3>1 DEF All, FileInv, Pieces
      <4>2. /\ Hole \in 0 .. MaxOut /\ total \in Nat
            /\ file \in Seq(0 .. MaxOut) /\ kept \in Seq(0 .. MaxOut)
        BY Lengths DEF All, FileInv, FileTypes
      <4> QED
        BY <3>1, <4>1, <4>2, Restored
    <3> QED
      BY <2>0, <3>1, <3>2 DEF Behind
  <2>6. CASE Crash
    BY <2>0, <2>6 DEF Crash, Ends, Behind
  <2>7. CASE Clear
    <3>1. Len(file') = 0 /\ UNCHANGED <<daemon, at, kept, total>>
      BY <2>7 DEF Clear, daemonVars
    <3> QED
      BY <2>0, <3>1, Numbers DEF Behind
  <2>8. CASE Close
    <3>1. /\ daemon = "running" /\ daemon' = "off" /\ total' = total + 1
          /\ file' = Written(file, at, <<total + 1>>) /\ total < MaxOut
      BY <2>8 DEF Close, Ends
    <3> DEFINE data == <<total + 1>>
    <3>2. data \in Seq(0 .. MaxOut) /\ Len(data) = 1 /\ \A k \in 1 .. 1 : data[k] = total + k
      BY <3>1, Lengths DEF All, FileInv
    <3> HIDE DEF data
    <3>3. Len(Written(file, at, data)) = at + 1
      BY <3>1, <3>2, Extends DEF All
    <3>4. Len(file') = at + 1
      BY <3>1, <3>3 DEF data
    <3> QED
      BY <2>0, <3>1, <3>4, Numbers DEF Behind
  <2> QED
    BY <2>1, <2>2, <2>3, <2>4, <2>5, <2>6, <2>7, <2>8
<1>3. \/ reader' = reader
      \/ reader' \notin Reading
  BY <1>1 DEF Reading
<1> QED
  BY <1>1, <1>2, <1>3, Unseen

\* Output is shown to an attached client, and is behind what any other was shown.
LEMMA OutputShown == ASSUME All, NEW n \in 1 .. BufSize, Output(n) PROVE Shown'
<1> DEFINE data == [k \in 1 .. n |-> total + k]
<1>1. /\ daemon = "running" /\ total + n <= MaxOut /\ file' = Written(file, at, data)
      /\ at' = at + n /\ total' = total + n /\ UNCHANGED <<daemon, kept, reader, pos>>
      /\ reader = "attached" => Shows(data)
      /\ reader # "attached" => UNCHANGED <<last, repeated>>
  BY DEF Output, readerVars, shownVars
<1>2. data \in Seq(0 .. MaxOut) /\ Len(data) = n /\ \A k \in 1 .. n : data[k] = total + k
  BY <1>1, OutputIs DEF All, FileInv
<1> HIDE DEF data
<1>3. n \in Nat /\ n >= 1
  BY Numbers
<1>4. CASE reader = "attached"
  <2>1. repeated' = FALSE /\ last' \in Nat /\ last' <= total + Len(data)
    <3>1. Shows(data) /\ repeated = FALSE /\ last \in Nat /\ total \in Nat /\ last <= total
      BY <1>1, <1>4, Numbers DEF All, Shown
    <3>2. 0 .. MaxOut \subseteq Nat
      BY Lengths DEF All, FileInv
    <3>3. \A i \in 1 .. Len(data) : data[i] \in {Hole, total + i}
      BY <1>2
    <3> QED
      BY <1>2, <3>1, <3>2, <3>3, ShowsMore
  <2>2. last' \in 0 .. total'
    BY <1>1, <1>2, <1>3, <2>1, Numbers
  <2> QED
    BY <1>1, <1>4, <2>1, <2>2 DEF Shown, Reading
<1>5. CASE reader # "attached"
  <2>1. Len(file') = at + n
    BY <1>1, <1>2, Extends DEF All
  <2>2. reader \in Reading => last <= total - at + pos
    BY <1>1 DEF All, Shown, Behind
  <2>3. reader' \in Reading =>
            /\ Behind(Len(file))'
            /\ daemon' = "running" => Behind(at)'
            /\ daemon' \in {"truncate", "rewrite"} => Behind(Len(kept))'
    BY <1>1, <1>3, <1>5, <2>1, <2>2, Numbers DEF Behind
  <2>4. total' \in Nat /\ total <= total'
    BY <1>1, <1>3, Numbers
  <2> QED
    BY <1>1, <1>5, <2>3, <2>4, Unseen
<1> QED
  BY <1>4, <1>5

\* The i-th byte of a read that ends at q, in a file of l bytes that ends with the t-th.
LEMMA Within ==
  ASSUME NEW t \in Nat, NEW l \in Nat, l <= t, NEW p \in 0 .. l, NEW q \in p .. l,
         NEW i \in 1 .. q - p
  PROVE  p + i \in 1 .. l /\ t - l + (p + i) = (t - l + p) + i
OBVIOUS

\* A read shows what is behind everything shown before.
LEMMA ReadShown ==
  ASSUME All, ReadMore, reader \in {"print", "follow", "replay"} PROVE Shown'
<1> DEFINE cells == ReadAt(file, pos, BufSize)
           lo == total - Len(file) + pos
<1>1. /\ pos < Len(file) /\ pos' = Smaller(pos + BufSize, Len(file)) /\ Shows(cells)
      /\ UNCHANGED <<file, daemon, at, kept, total, began, starts, reader>>
  BY DEF ReadMore, daemonVars
<1> HIDE DEF cells
<1>2. pos \in 0 .. Len(file) /\ lo \in Nat /\ last <= lo /\ lo + (Len(file) - pos) = total
  <2>1. last <= total - Len(file) + pos
    BY DEF All, Shown, Behind, Reading
  <2>2. pos < Len(file)
    BY <1>1
  <2> QED
    BY <2>1, <2>2, Numbers
<1>3. /\ cells \in Seq(0 .. MaxOut) /\ Len(cells) = pos' - pos /\ Len(cells) \in Nat
      /\ \A i \in 1 .. Len(cells) : cells[i] = file[pos + i]
  <2>1. file \in Seq(0 .. MaxOut) /\ BufSize \in Nat
    BY Lengths DEF All, FileInv, FileTypes
  <2> HIDE DEF lo
  <2> QED
    BY <1>1, <1>2, <2>1, ReadFrom DEF cells
<1>4. pos' \in Nat /\ pos' <= Len(file) /\ pos' >= pos
  BY <1>1, Numbers DEF Smaller
<1>5. \A i \in 1 .. Len(cells) : cells[i] \in {Hole, lo + i}
  <2>1. \A i \in 1 .. Len(cells) : /\ pos + i \in 1 .. Len(file)
                                   /\ total - Len(file) + (pos + i) = lo + i
    <3>1. total \in Nat /\ Len(file) \in Nat /\ Len(file) <= total /\ pos' \in pos .. Len(file)
      BY <1>2, <1>4, Numbers
    <3>2. \A i \in 1 .. pos' - pos : /\ pos + i \in 1 .. Len(file)
                                     /\ total - Len(file) + (pos + i) =
                                           (total - Len(file) + pos) + i
      BY <1>2, <3>1, Within
    <3> QED
      BY <1>3, <3>2
  <2>2. \A j \in 1 .. Len(file) : file[j] \in {Hole, total - Len(file) + j}
    BY DEF All, FileInv, Pieces, Piece
  <2> HIDE DEF lo
  <2> QED
    BY <1>3, <2>1, <2>2
<1>6. repeated' = FALSE /\ last' \in Nat /\ last' <= lo + Len(cells)
  <2>1. repeated = FALSE /\ last \in Nat /\ 0 .. MaxOut \subseteq Nat
    BY Numbers, Lengths DEF All, Shown, FileInv
  <2> HIDE DEF cells, lo
  <2> QED
    BY <1>1, <1>2, <1>3, <1>5, <2>1, ShowsMore
<1>7. last' <= total - Len(file) + pos' /\ last' <= total
  <2>1. /\ total \in Nat /\ Len(file) \in Nat /\ pos \in Nat /\ pos' \in Nat /\ last' \in Nat
        /\ last' <= lo + (pos' - pos) /\ pos' <= Len(file)
    BY <1>2, <1>3, <1>4, <1>6, Numbers
  <2> QED
    BY <2>1
<1>8. daemon = "running" => Len(file) = at
  BY <1>1, <1>2, Numbers DEF All, FileInv, Pieces
<1>9. daemon # "rewrite" /\ (daemon = "truncate" => Len(kept) <= Len(file))
  BY <1>1, <1>2, Numbers DEF All, FileInv, Pieces
<1> HIDE DEF cells, lo
<1>10. /\ Behind(Len(file))'
       /\ daemon' = "running" => Behind(at)'
       /\ daemon' \in {"truncate", "rewrite"} => Behind(Len(kept))'
  <2>1. /\ total \in Nat /\ Len(file) \in Nat /\ Len(kept) \in Nat /\ at \in Nat
        /\ UNCHANGED <<file, daemon, at, kept, total>>
    BY <1>1, Numbers
  <2>2. last' <= total - Len(file) + pos'
    BY <1>7
  <2>3. daemon = "running" => last' <= total - at + pos'
    BY <1>8, <2>2
  <2>4. daemon \in {"truncate", "rewrite"} => last' <= total - Len(kept) + pos'
    BY <1>4, <1>6, <1>9, <2>1, <2>2
  <2> QED
    BY <2>1, <2>2, <2>3, <2>4 DEF Behind
<1>11. last' \in 0 .. total' /\ reader' \notin {"size", "scan"}
  BY <1>1, <1>6, <1>7, Numbers
<1> QED
  BY <1>6, <1>10, <1>11 DEF Shown

\* A reader that starts has been shown nothing.
LEMMA StartShown ==
  ASSUME All, (\E n \in 1 .. MaxLines : StartTail(n)) \/ Connect PROVE Shown'
<1>1. /\ last' = 0 /\ pos' = 0 /\ repeated' = repeated
      /\ UNCHANGED <<file, daemon, at, kept, total>>
  BY DEF StartTail, Connect, daemonVars
<1>2. /\ daemon = "running" => at <= total
      /\ daemon \in {"truncate", "rewrite"} => Len(kept) <= total
  BY DEF All, FileInv, Pieces, Piece
<1>3. 0 \in 0 .. total
  BY Numbers
<1> QED
  <2>1. last' = 0 /\ pos' = 0 /\ repeated' = FALSE /\ total' = total /\ daemon' = daemon
        /\ at' = at /\ Len(file') = Len(file) /\ Len(kept') = Len(kept)
    BY <1>1 DEF All, Shown
  <2>2. /\ 0 <= total - Len(file) + 0
        /\ daemon = "running" => 0 <= total - at + 0
        /\ daemon \in {"truncate", "rewrite"} => 0 <= total - Len(kept) + 0
    BY <1>2, Numbers
  <2> QED
    BY <1>3, <2>1, <2>2 DEF Shown, Behind

\* tail's search ends at or behind the start of the file, before anything is shown.
LEMMA ScanShown == ASSUME All, TailScan PROVE Shown'
<1>1. /\ reader = "scan" /\ reader' \in {"scan", "print"}
      /\ UNCHANGED <<file, daemon, at, kept, total, last, repeated>>
  BY TailScanIs DEF All, TailScan, daemonVars, shownVars
<1>2. pos' \in Nat /\ last = 0
  BY <1>1, TailScanIs, Lengths DEF All, Shown, FileInv
<1>3. /\ daemon = "running" => at <= total
      /\ daemon \in {"truncate", "rewrite"} => Len(kept) <= total
  BY DEF All, FileInv, Pieces, Piece
<1> QED
  <2>1. /\ last' = 0 /\ repeated' = FALSE /\ total' = total /\ daemon' = daemon
        /\ at' = at /\ Len(file') = Len(file) /\ Len(kept') = Len(kept)
    BY <1>1, <1>2 DEF All, Shown
  <2>2. /\ 0 <= total - Len(file) + pos'
        /\ daemon = "running" => 0 <= total - at + pos'
        /\ daemon \in {"truncate", "rewrite"} => 0 <= total - Len(kept) + pos'
        /\ 0 \in 0 .. total
    BY <1>2, <1>3, Numbers
  <2> QED
    BY <2>1, <2>2 DEF Shown, Behind

\* The other steps of a reader show nothing and leave its offset.
LEMMA QuietShown ==
  ASSUME All, \/ TailSize \/ PrintEnd \/ Watch \/ FollowEnd \/ Wakes \/ ReplayLogEnd
              \/ HandleAttach \/ AttachFails \/ Quit \/ UNCHANGED vars
  PROVE  Shown'
<1>1. /\ UNCHANGED <<file, daemon, at, kept, total, last, repeated>>
      /\ reader' \in Reading => pos' = pos /\ reader \in Reading
      /\ reader' \in {"size", "scan"} => reader \in {"size", "scan"}
  BY DEF TailSize, PrintEnd, Watch, FollowEnd, Wakes, ReplayLogEnd, HandleAttach, AttachFails,
     Quit, ReaderAt, vars, daemonVars, readerVars, shownVars, Reading
<1> QED
  BY <1>1 DEF All, Shown, Behind

LEMMA ShownKept == ASSUME All, [Next]_vars PROVE Shown'
<1>1. CASE PrintPart \/ Follow \/ ReplayLog
  BY <1>1, ReadShown DEF PrintPart, Follow, ReplayLog
<1> QED
  BY <1>1, Steps, DaemonUnseen, OutputShown, StartShown, ScanShown, QuietShown DEF ReaderStep

(***************************************************************************)
(* The theorems                                                            *)
(***************************************************************************)

LEMMA Starts0 == Init => IInv
<1> SUFFICES ASSUME Init PROVE IInv
  OBVIOUS
<1>1. << >> \in Seq(0 .. MaxOut) /\ Len(<< >>) = 0
  OBVIOUS
<1>2. FileTypes
  BY <1>1, LogAssumption DEF Init, FileTypes
<1>5. ReaderTypes
  <2>1. 0 \in 0 .. 0 /\ 0 \in 0 .. MaxOut /\ 0 \in 0 .. MaxLines /\ 0 \in -1 .. MaxOut
    BY LogAssumption
  <2> QED
    BY <2>1 DEF Init, ReaderTypes
<1>6. Flags /\ Searching
  BY DEF Init, Flags, Searching
<1>3. Pieces
  BY <1>1 DEF Init, Pieces, Piece, HolesInFront
<1>4. Shown
  BY DEF Init, Shown, Reading
<1> QED
  BY <1>2, <1>3, <1>4, <1>5, <1>6 DEF IInv

LEMMA Inductive == IInv /\ [Next]_vars => IInv'
<1> SUFFICES ASSUME IInv, [Next]_vars PROVE IInv'
  OBVIOUS
<1>1. FileInv /\ ReaderInv /\ Shown
  BY DEF IInv, FileInv, ReaderInv
<1>2. FileInv' /\ ReaderInv'
  BY <1>1, FileInvKept, ReaderInvKept
<1>3. Shown'
  BY <1>1, ShownKept DEF All
<1> QED
  BY <1>2, <1>3 DEF IInv, FileInv, ReaderInv

\* The invariant holds in every reachable state: the file is a piece of the output up
\* to its end, at every step of trimming, clearing and writing (session_log.rs,
\* cmd_clear, cmd_tail).
THEOREM Log == Spec => []IInv
<1>1. Init => IInv
  BY Starts0
<1>2. IInv /\ [Next]_vars => IInv'
  BY Inductive
<1> QED
  BY <1>1, <1>2, PTL DEF Spec

\* Every variable of the log, its daemon and its readers keeps its type.
THEOREM Types == Spec => []TypeOK
<1>1. IInv => TypeOK
  BY DEF IInv, FileTypes, ReaderTypes, Flags, Shown, TypeOK
<1> QED
  BY <1>1, Log, PTL

\* The log is a piece of what was written that ends with the last byte written, and a
\* daemon writes at its end or, after a clear, beyond it (session_log.rs, cmd_clear).
THEOREM HoldsOutput == Spec => []LogHoldsOutput
<1>1. IInv => LogHoldsOutput
  <2> SUFFICES ASSUME IInv PROVE LogHoldsOutput
    OBVIOUS
  <2>1. Piece(file, total) /\ (daemon = "running" => Len(file) \in {0, at})
    BY DEF IInv, Pieces
  <2>2. Aligned(file, Len(file))
    BY <2>1 DEF Piece, Aligned
  <2> QED
    BY <2>1, <2>2 DEF Piece, LogHoldsOutput
<1> QED
  BY <1>1, Log, PTL

\* The log exceeds what its daemon wrote by no more than log_max_size, whatever was
\* cleared between the steps of its trimming (session_log.rs:3-5).
THEOREM Bounded == Spec => []LogBounded
<1>1. IInv => LogBounded
  <2> SUFFICES ASSUME IInv, daemon = "running" PROVE Len(file) <= MaxSize + (total - began)
    BY DEF LogBounded
  <2>1. FileInv
    BY DEF IInv, FileInv
  <2>2. Len(file) \in {0, at} /\ at <= MaxSize + (total - began)
    BY DEF IInv, Pieces
  <2> QED
    BY <2>1, <2>2, Lengths DEF FileInv
<1> QED
  BY <1>1, Log, PTL

\* No reader is shown a byte twice or out of order: neither tail -f while the log is
\* cleared, trimmed and written on, nor a client that shows the log and is then attached
\* (cmd_tail, replay_log, handle_attach).
THEOREM OnceShown == Spec => []ShownOnce
<1>1. IInv => ShownOnce
  BY DEF IInv, Shown, ShownOnce
<1> QED
  BY <1>1, Log, PTL

(***************************************************************************)
(* Where tail starts                                                       *)
(***************************************************************************)

\* While the log has not shrunk under it, the search has counted the newlines from its
\* place to the end that tail saw.
Counted ==
    reader = "scan" /\ measured >= 0 =>
        /\ 0 < scan /\ scan <= measured /\ measured <= Len(file)
        /\ count = Cardinality(NewlinesIn(file, scan, measured))

\* The newlines of a part of a file are finitely many.
LEMMA NewlinesAre ==
  ASSUME NEW f, NEW lo \in Nat, NEW hi \in Nat, Len(f) \in Nat, hi <= Len(f)
  PROVE  /\ \A i : i \in NewlinesIn(f, lo, hi) <=> i \in lo + 1 .. hi /\ f[i] \in Newlines
         /\ NewlinesIn(f, lo, hi) \subseteq 1 .. hi
         /\ IsFiniteSet(NewlinesIn(f, lo, hi))
         /\ Cardinality(NewlinesIn(f, lo, hi)) \in Nat
<1>1. Smaller(hi, Len(f)) = hi
  BY DEF Smaller
<1>2. \A i : i \in NewlinesIn(f, lo, hi) <=> i \in lo + 1 .. hi /\ f[i] \in Newlines
  BY <1>1 DEF NewlinesIn
<1>3. NewlinesIn(f, lo, hi) \subseteq 1 .. hi
  BY <1>2
<1>4. IsFiniteSet(1 .. hi)
  BY FS_Interval
<1> QED
  BY <1>2, <1>3, <1>4, FS_Subset, FS_CardinalityType

\* They are those of its two halves together.
LEMMA Halves ==
  ASSUME NEW f, NEW lo \in Nat, NEW mid \in Nat, NEW hi \in Nat,
         lo <= mid, mid <= hi, Len(f) \in Nat, hi <= Len(f)
  PROVE  Cardinality(NewlinesIn(f, lo, hi))
           = Cardinality(NewlinesIn(f, lo, mid)) + Cardinality(NewlinesIn(f, mid, hi))
<1> DEFINE A == NewlinesIn(f, lo, mid)
           B == NewlinesIn(f, mid, hi)
<1>1. mid <= Len(f)
  OBVIOUS
<1>2. /\ \A i : i \in A <=> i \in lo + 1 .. mid /\ f[i] \in Newlines
      /\ IsFiniteSet(A) /\ Cardinality(A) \in Nat
  BY <1>1, NewlinesAre
<1>3. /\ \A i : i \in B <=> i \in mid + 1 .. hi /\ f[i] \in Newlines
      /\ IsFiniteSet(B) /\ Cardinality(B) \in Nat
  BY NewlinesAre
<1>4. \A i : i \in NewlinesIn(f, lo, hi) <=> i \in lo + 1 .. hi /\ f[i] \in Newlines
  BY NewlinesAre
<1> HIDE DEF A, B
<1>5. NewlinesIn(f, lo, hi) = A \cup B
  <2>1. \A i : i \in lo + 1 .. hi <=> i \in lo + 1 .. mid \/ i \in mid + 1 .. hi
    OBVIOUS
  <2> QED
    BY <1>2, <1>3, <1>4, <2>1
<1>6. A \cap B = {}
  <2>1. \A i : ~(i \in lo + 1 .. mid /\ i \in mid + 1 .. hi)
    OBVIOUS
  <2> QED
    BY <1>2, <1>3, <2>1
<1>7. Cardinality(A \cup B) = Cardinality(A) + Cardinality(B) - Cardinality(A \cap B)
  BY <1>2, <1>3, FS_Union
<1>8. Cardinality(A \cap B) = 0
  BY <1>6, FS_EmptySet
<1> QED
  BY <1>2, <1>3, <1>5, <1>7, <1>8 DEF A, B

\* Where the search stops there are just the newlines asked for.
LEMMA StopsExactly ==
  ASSUME NEW m \in Nat, NEW found, found \subseteq 1 .. m, NEW c \in Nat, NEW l \in Nat,
         NEW i \in found, StopsAt(found, c, l, i)
  PROVE  c + Cardinality({j \in found : j > i}) = l
<1> DEFINE U == {j \in found : j > i}
           V == {j \in found : j >= i}
<1>1. IsFiniteSet(U) /\ Cardinality(U) \in Nat
  <2>1. IsFiniteSet(1 .. m)
    BY FS_Interval
  <2>2. U \subseteq 1 .. m
    OBVIOUS
  <2> QED
    BY <2>1, <2>2, FS_Subset, FS_CardinalityType
<1>2. V = U \cup {i} /\ i \notin U
  <2>1. i \in Int /\ \A j \in found : j \in Int
    OBVIOUS
  <2>2. \A j \in found : j >= i <=> (j > i \/ j = i)
    BY <2>1
  <2>3. ~(i > i) /\ i >= i
    BY <2>1
  <2> QED
    BY <2>2, <2>3
<1>3. c + Cardinality(V) > l /\ ~(c + Cardinality(U) > l)
  BY DEF StopsAt
<1> HIDE DEF U, V
<1>4. Cardinality(V) = Cardinality(U) + 1
  BY <1>1, <1>2, FS_AddElement
<1> QED
  BY <1>1, <1>3, <1>4 DEF U

\* What is counted is not touched when the file is written on at its end.
LEMMA WrittenBehind ==
  ASSUME NEW f, NEW a \in Nat, NEW data, NEW w, NEW lo \in Nat, NEW hi \in Nat,
         IsWritten(w, f, a, data), Len(f) \in Nat, Len(data) \in Nat, a <= Len(f), hi <= a
  PROVE  /\ a <= Len(w)
         /\ NewlinesIn(w, lo, hi) = NewlinesIn(f, lo, hi)
<1>1. Len(w) = a + Len(data) /\ Len(w) \in Nat /\ a <= Len(w) /\ hi <= Len(w) /\ hi <= Len(f)
  BY DEF IsWritten
<1>2. \A i \in lo + 1 .. hi : w[i] = f[i]
  <2>1. \A i \in lo + 1 .. hi : i \in 1 .. a + Len(data) /\ ~(i > a) /\ i <= Len(f)
    BY <1>1
  <2> QED
    BY <2>1 DEF IsWritten
<1>3. \A i : i \in NewlinesIn(w, lo, hi) <=> i \in lo + 1 .. hi /\ w[i] \in Newlines
  BY <1>1, NewlinesAre
<1>4. \A i : i \in NewlinesIn(f, lo, hi) <=> i \in lo + 1 .. hi /\ f[i] \in Newlines
  BY <1>1, NewlinesAre
<1> QED
  BY <1>1, <1>2, <1>3, <1>4

\* The start of a line with n newlines from there to the end of what the search saw, or
\* the start of the file where it holds no more.
LineStart(p, n) ==
    LET behind == Cardinality(NewlinesIn(file, p, measured))
    IN  IF p = 0 THEN behind <= n ELSE file[p] \in Newlines /\ behind = n

\* From there on are the last lines.
LEMMA LastOnes ==
  ASSUME FileInv, EndsLine, NEW p \in 0 .. measured, NEW n \in Nat, LineStart(p, n)
  PROVE  LastLines(p, n)
<1>1. /\ measured \in Nat /\ Len(file) \in Nat /\ measured <= Len(file)
      /\ file[measured] \in Newlines
  BY Lengths DEF EndsLine, FileInv, FileTypes
<1>2. ASSUME NEW q \in 0 .. measured
      PROVE  /\ LinesFrom(q) = Cardinality(NewlinesIn(file, q, measured))
             /\ LinesFrom(q) \in Nat
  <2>1. /\ \A i : i \in NewlinesIn(file, q, measured)
                   <=> i \in q + 1 .. measured /\ file[i] \in Newlines
        /\ Cardinality(NewlinesIn(file, q, measured)) \in Nat
    <3>1. q \in Nat
      BY <1>1
    <3> QED
      BY <1>1, <3>1, NewlinesAre
  <2>2. {i \in q + 1 .. measured : file[i] \in Newlines \/ i = measured}
           = NewlinesIn(file, q, measured)
    BY <1>1, <2>1
  <2> QED
    BY <2>1, <2>2, Zenon DEF LinesFrom
<1>3. 0 \in 0 .. measured
  BY <1>1
<1>4. LinesFrom(0) \in Nat /\ LinesFrom(p) \in Nat
  BY <1>2, <1>3
<1>5. CASE p = 0
  <2>1. LinesFrom(p) <= n
    BY <1>2, <1>5 DEF LineStart
  <2> QED
    BY <1>4, <1>5, <2>1 DEF LastLines, Smaller
<1>6. CASE p # 0
  <2>1. file[p] \in Newlines /\ LinesFrom(p) = n
    BY <1>2, <1>6 DEF LineStart
  <2>2. /\ Cardinality(NewlinesIn(file, 0, measured))
             = Cardinality(NewlinesIn(file, 0, p)) + Cardinality(NewlinesIn(file, p, measured))
        /\ Cardinality(NewlinesIn(file, 0, p)) \in Nat
    <3>1. p \in Nat /\ 0 <= p /\ p <= measured /\ p <= Len(file) /\ 0 \in Nat
      BY <1>1
    <3> QED
      BY <1>1, <3>1, Halves, NewlinesAre
  <2>3. LinesFrom(0) = Cardinality(NewlinesIn(file, 0, p)) + LinesFrom(p)
    BY <1>2, <1>3, <2>2, Zenon
  <2>4. n <= LinesFrom(0)
    BY <1>4, <2>1, <2>2, <2>3
  <2> QED
    BY <1>4, <2>1, <2>4 DEF LastLines, Smaller
<1> QED
  BY <1>5, <1>6

\* One chunk of find_tail_start: the start it finds, or the newlines it goes on with.
LEMMA ScanFinds ==
  ASSUME FileInv, ReaderInv, Counted, TailScan, measured >= 0
  PROVE  /\ reader' = "print" => LineStart(pos', lines) /\ pos' \in 0 .. measured
         /\ Counted'
<1> DEFINE lo == Larger(scan - BufSize, 0)
           found == NewlinesIn(file, lo, scan)
           n == count + Cardinality(found)
           start == CHOOSE i \in found :
                      Enough(count + Cardinality({j \in found : j >= i})) /\
                      ~Enough(count + Cardinality({j \in found : j > i}))
<1>1. /\ reader = "scan" /\ UNCHANGED <<file, lines, measured>>
      /\ \/ n > lines /\ reader' = "print" /\ pos' = start
         \/ /\ ~(n > lines) /\ (lo = 0 \/ lo >= Len(file))
            /\ reader' = "print" /\ pos' = 0
         \/ /\ ~(n > lines) /\ ~(lo = 0 \/ lo >= Len(file))
            /\ reader' = "scan" /\ scan' = lo /\ count' = n
  <2> HIDE DEF lo, start
  <2> QED
    BY DEF TailScan, ReaderAt, Enough, lo, start
<1>2. /\ 0 < scan /\ scan <= measured /\ measured <= Len(file) /\ scan \in Nat
      /\ measured \in Nat /\ Len(file) \in Nat /\ lines \in Nat
      /\ count = Cardinality(NewlinesIn(file, scan, measured)) /\ count \in Nat /\ count <= lines
      /\ file \in Seq(0 .. MaxOut)
  BY <1>1, Lengths DEF Counted, FileInv, FileTypes, ReaderInv, ReaderTypes, Searching
<1>3. lo \in Nat /\ lo < scan /\ scan <= Len(file) /\ lo < Len(file)
  <2>1. BufSize \in Nat /\ BufSize > 0
    BY LogAssumption
  <2>2. lo \in Nat /\ lo < scan
    BY <1>2, <2>1 DEF Larger
  <2> HIDE DEF lo
  <2> QED
    BY <1>2, <2>2
<1>4. /\ \A i : i \in found <=> i \in lo + 1 .. scan /\ file[i] \in Newlines
      /\ found \subseteq 1 .. scan /\ Cardinality(found) \in Nat
  <2> HIDE DEF lo
  <2> QED
    BY <1>2, <1>3, NewlinesAre
<1>5. n = Cardinality(NewlinesIn(file, lo, measured))
  <2> HIDE DEF lo
  <2>1. lo <= scan
    BY <1>2, <1>3
  <2>2. Cardinality(NewlinesIn(file, lo, measured)) = Cardinality(found) + count
    BY <1>2, <1>3, <2>1, Halves
  <2> QED
    BY <1>2, <1>4, <2>2
<1> HIDE DEF lo, found
<1>6. CASE n > lines /\ reader' = "print" /\ pos' = start
  <2>1. \E i \in found : StopsAt(found, count, lines, i)
    BY <1>2, <1>4, <1>6, StartExists
  <2>2. \E i \in found : Enough(count + Cardinality({j \in found : j >= i})) /\
                         ~Enough(count + Cardinality({j \in found : j > i}))
    BY <2>1 DEF Enough, StopsAt
  <2>3. start \in found /\ StopsAt(found, count, lines, start)
    BY <2>2 DEF Enough, StopsAt
  <2> HIDE DEF start
  <2>4. count + Cardinality({j \in found : j > start}) = lines
    BY <1>2, <1>4, <2>3, StopsExactly
  <2>5. start \in Nat /\ lo < start /\ start <= scan /\ file[start] \in Newlines
    BY <1>2, <1>3, <1>4, <2>3
  <2>6. {j \in found : j > start} = NewlinesIn(file, start, scan)
    <3>1. \A i : i \in NewlinesIn(file, start, scan)
                    <=> i \in start + 1 .. scan /\ file[i] \in Newlines
      <4> HIDE DEF n
      <4> QED
        BY <1>2, <1>3, <2>5, NewlinesAre
    <3>2. \A i : i \in lo + 1 .. scan /\ i > start <=> i \in start + 1 .. scan
      BY <1>2, <1>3, <2>5
    <3> QED
      BY <1>4, <3>1, <3>2
  <2>7. Cardinality(NewlinesIn(file, start, scan)) \in Nat
    BY <1>2, <1>3, <2>5, NewlinesAre
  <2>8. Cardinality(NewlinesIn(file, start, measured)) = lines
    <3>1. Cardinality(NewlinesIn(file, start, measured))
             = Cardinality(NewlinesIn(file, start, scan)) + count
      BY <1>2, <2>5, Halves
    <3>2. count + Cardinality(NewlinesIn(file, start, scan)) = lines
      BY <2>4, <2>6, Zenon
    <3>3. \A k \in Nat : k + count = count + k
      BY <1>2
    <3>4. Cardinality(NewlinesIn(file, start, scan)) + count
             = count + Cardinality(NewlinesIn(file, start, scan))
      BY <2>7, <3>3, Zenon
    <3> QED
      BY <3>1, <3>2, <3>4, Zenon
  <2>9. start # 0
    BY <1>3, <2>5
  <2> QED
    BY <1>2, <1>6, <2>5, <2>8, <2>9 DEF LineStart, Counted
<1>7. CASE ~(n > lines) /\ lo = 0 /\ reader' = "print" /\ pos' = 0
  <2>1. Cardinality(NewlinesIn(file, 0, measured)) <= lines
    BY <1>2, <1>4, <1>5, <1>7
  <2> QED
    BY <1>2, <1>7, <2>1 DEF LineStart, Counted
<1>8. CASE /\ ~(lo = 0 \/ lo >= Len(file)) /\ reader' = "scan" /\ scan' = lo /\ count' = n
  BY <1>1, <1>2, <1>3, <1>5, <1>8 DEF Counted
<1> QED
  <2>1. ~(lo >= Len(file))
    BY <1>2, <1>3
  <2> QED
    BY <1>1, <1>6, <1>7, <1>8, <2>1

\* Output and the marker are written behind what is counted.
LEMMA WritesCounted ==
  ASSUME FileInv, ReaderInv, Counted, daemon = "running",
         NEW data \in Seq(0 .. MaxOut), file' = Written(file, at, data),
         reader' = reader \/ reader' = "idle", UNCHANGED <<scan, count, measured>>
  PROVE  Counted'
<1> SUFFICES ASSUME reader' = "scan", measured >= 0
             PROVE  /\ 0 < scan /\ scan <= measured /\ measured <= Len(file')
                    /\ count = Cardinality(NewlinesIn(file', scan, measured))
  BY DEF Counted
<1>1. /\ 0 < scan /\ scan <= measured /\ measured <= Len(file) /\ scan \in Nat
      /\ measured \in Nat /\ Len(file) \in Nat
      /\ count = Cardinality(NewlinesIn(file, scan, measured)) /\ file \in Seq(0 .. MaxOut)
  BY Lengths DEF Counted, FileInv, FileTypes, ReaderInv, ReaderTypes
<1>2. Len(file) = at /\ at \in Nat /\ Hole \in 0 .. MaxOut
  BY <1>1, Lengths DEF FileInv, Pieces
<1> DEFINE w == Written(file, at, data)
<1>3. w \in Seq(0 .. MaxOut) /\ IsWritten(w, file, at, data)
  BY <1>1, <1>2, WrittenAt
<1>4. Len(w) \in Nat /\ Len(data) \in Nat
  BY <1>3, LenProperties
<1> HIDE DEF w
<1>5. measured <= at /\ at <= Len(file)
  BY <1>1, <1>2
<1>6. at <= Len(w) /\ NewlinesIn(w, scan, measured) = NewlinesIn(file, scan, measured)
  BY <1>1, <1>2, <1>3, <1>4, <1>5, WrittenBehind
<1> QED
  BY <1>1, <1>2, <1>4, <1>5, <1>6 DEF w

LEMMA CountedKept == ASSUME FileInv, ReaderInv, Counted, [Next]_vars PROVE Counted'
<1>1. CASE Truncate \/ Clear
  <2>1. reader = "scan" => measured' = -1
    BY <1>1 DEF Truncate, Clear, Shrunk
  <2>2. reader' = reader
    BY <1>1 DEF Truncate, Clear
  <2> QED
    BY <2>1, <2>2 DEF Counted
<1>2. CASE Rewrite
  <2>1. Len(file) = 0 /\ UNCHANGED <<reader, scan, measured>>
    BY <1>2 DEF Rewrite, FileInv, Pieces, readerVars, tailVars
  <2>2. scan \in Nat /\ measured \in Int
    BY DEF FileInv, FileTypes, ReaderInv, ReaderTypes
  <2>3. ~(reader = "scan" /\ measured >= 0)
    BY <2>1, <2>2 DEF Counted
  <2> QED
    BY <2>1, <2>3 DEF Counted
<1>3. ASSUME NEW n \in 1 .. BufSize, Output(n) PROVE Counted'
  <2> DEFINE data == [k \in 1 .. n |-> total + k]
  <2>1. /\ daemon = "running" /\ total + n <= MaxOut /\ file' = Written(file, at, data)
        /\ UNCHANGED <<reader, scan, count, measured>>
    BY <1>3 DEF Output, readerVars, tailVars
  <2>2. data \in Seq(0 .. MaxOut)
    BY <2>1, OutputIs DEF FileInv
  <2> HIDE DEF data
  <2> QED
    BY <2>1, <2>2, WritesCounted
<1>4. CASE Close
  <2>1. /\ daemon = "running" /\ total < MaxOut /\ file' = Written(file, at, <<total + 1>>)
        /\ reader' = reader \/ reader' = "idle"
        /\ UNCHANGED <<scan, count, measured>>
    BY <1>4 DEF Close, Ends, tailVars
  <2>2. <<total + 1>> \in Seq(0 .. MaxOut)
    BY <2>1, Lengths DEF FileInv
  <2> QED
    BY <2>1, <2>2, WritesCounted
<1>5. CASE Listen \/ Open \/ Measure \/ ReadKept \/ UNCHANGED vars
  BY <1>5 DEF Listen, Open, Measure, ReadKept, Counted, vars, readerVars, tailVars
<1>6. CASE Crash
  BY <1>6 DEF Crash, Ends, Counted, tailVars
<1>7. CASE TailSize
  <2>1. /\ reader' = "scan" => file # << >>
        /\ file' = file /\ scan' = Len(file) /\ count' = 0 /\ measured' = Len(file)
    BY <1>7 DEF TailSize, ReaderAt
  <2>2. file \in Seq(0 .. MaxOut) /\ Len(file) \in Nat
    BY Lengths DEF FileInv, FileTypes
  <2>3. file # << >> => 0 < Len(file)
    BY <2>2
  <2>4. NewlinesIn(file, Len(file), Len(file)) = {}
    <3>1. \A i : i \notin Len(file) + 1 .. Len(file)
      BY <2>2
    <3>2. Len(file) <= Len(file)
      BY <2>2
    <3>3. \A i : i \in NewlinesIn(file, Len(file), Len(file))
                   <=> i \in Len(file) + 1 .. Len(file) /\ file[i] \in Newlines
      BY <2>2, <3>2, NewlinesAre
    <3> QED
      BY <3>1, <3>3
  <2> QED
    BY <2>1, <2>2, <2>3, <2>4, FS_EmptySet DEF Counted
<1>8. CASE TailScan
  <2>1. measured' = measured
    BY <1>8 DEF TailScan
  <2> QED
    BY <1>8, <2>1, ScanFinds DEF Counted
<1>9. CASE PrintPart \/ Follow \/ ReplayLog
  BY <1>9, ReadMoreIs DEF PrintPart, Follow, ReplayLog, Counted, ReadMore, tailVars
<1>10. CASE \/ PrintEnd \/ Watch \/ FollowEnd \/ Wakes \/ ReplayLogEnd \/ HandleAttach
            \/ AttachFails \/ Quit \/ (\E n \in 1 .. MaxLines : StartTail(n)) \/ Connect
  <2>1. reader' # "scan"
    BY <1>10 DEF PrintEnd, Watch, FollowEnd, Wakes, ReplayLogEnd, HandleAttach, AttachFails,
       Quit, StartTail, Connect, ReaderAt
  <2> QED
    BY <2>1 DEF Counted
<1> QED
  BY <1>1, <1>2, <1>3, <1>4, <1>5, <1>6, <1>7, <1>8, <1>9, <1>10, Steps DEF ReaderStep

\* The search for the start ends in find_tail_start only.
LEMMA OnlyTheScan ==
  ASSUME [Next]_vars, reader = "scan", reader' = "print"
  PROVE  TailScan
<1>1. ~ReaderStep => reader' \in {reader, "idle", "size", "replay"}
  BY Steps DEF Listen, Open, Measure, ReadKept, Truncate, Rewrite, Output, Close, Crash, Clear,
     Ends, Quit, StartTail, Connect, ReaderAt, vars, readerVars
<1>2. ReaderStep => TailScan
  BY DEF ReaderStep, TailSize, PrintPart, PrintEnd, Watch, Follow, FollowEnd, Wakes,
     ReplayLog, ReplayLogEnd, HandleAttach, AttachFails
<1> QED
  BY <1>1, <1>2

\* tail prints the last lines of a log that ends with a newline, as many as it was asked
\* for or all there are, wherever the chunks of find_tail_start end, and whatever the
\* daemon writes behind the end it saw meanwhile (util.rs, find_tail_start).
THEOREM LastLinesPrinted == Spec => PrintsLastLines
<1>1. Init => Counted
  BY DEF Init, Counted
<1>2. IInv /\ Counted /\ [Next]_vars => Counted'
  BY CountedKept DEF IInv, FileInv, ReaderInv
<1>3. IInv /\ Counted /\ [Next]_vars =>
         [reader = "scan" /\ reader' = "print" /\ EndsLine => LastLines(pos', lines)]_vars
  <2> SUFFICES ASSUME IInv, Counted, [Next]_vars, reader = "scan", reader' = "print", EndsLine
               PROVE  LastLines(pos', lines)
    OBVIOUS
  <2>1. FileInv /\ ReaderInv /\ measured >= 0 /\ lines \in Nat
    BY DEF IInv, FileInv, ReaderInv, ReaderTypes, EndsLine
  <2>2. LineStart(pos', lines) /\ pos' \in 0 .. measured
    BY <2>1, OnlyTheScan, ScanFinds
  <2> QED
    BY <2>1, <2>2, LastOnes
<1> QED
  BY <1>1, <1>2, <1>3, Log, PTL DEF Spec, PrintsLastLines
=============================================================================
