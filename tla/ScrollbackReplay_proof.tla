----------------------- MODULE ScrollbackReplay_proof -----------------------
(* Theorems about ScrollbackReplay, for every capacity, chunk size and     *)
(* amount of output.                                                       *)
EXTENDS ScrollbackReplay, Scrollback_proof

USE SizeAssumption, BufSizeAssumption, MaxOutAssumption

\* The last position of the snapshot a replay is sending, and the oldest
\* position in the ring.
Last == next + remaining - 1
Oldest == produced - ring.len + 1

\* Until the output has lapped a replay altogether, the cell after its last
\* byte is the cell after that position in the ring.  This is what is left of
\* the replay's place in the ring once some of its bytes are overwritten, and
\* why a replay that catches up again finds the right bytes.
Aligned == remaining > 0 /\ produced - Last < Size
              => Mask(head + remaining) = Mask(ring.head + (Last + 1 - Oldest))

\* The inductive invariant: the types, the window, and where the replay stands.
IInv == TypeOK /\ RingIsWindow /\ WithinSnapshot /\ Aligned

\* A chunk of output is a sequence of bytes.
LEMMA ChunkType ==
  ASSUME TypeOK, NEW n \in 1 .. BufSize, produced + n <= MaxOut
  PROVE  Chunk(n) \in Seq(Byte) /\ Len(Chunk(n)) = n
  BY PositionAssumption DEF Chunk, TypeOK

\* Appending the next n positions to the last bytes of the output gives the last
\* bytes of the longer output.
LEMMA WindowStep ==
  ASSUME TypeOK, RingIsWindow, NEW n \in 1 .. BufSize, produced + n <= MaxOut
  PROVE  /\ AppendData(ring, Chunk(n)) \in Ring
         /\ AppendData(ring, Chunk(n)).len = Smaller(produced + n, Size)
         /\ Content(AppendData(ring, Chunk(n))) =
              [k \in 1 .. Smaller(produced + n, Size) |->
                   produced + n - Smaller(produced + n, Size) + k]
<1> DEFINE d == Chunk(n)
           r == AppendData(ring, d)
           m == Smaller(produced + n, Size)
<1>1. produced \in Nat /\ n \in Nat /\ Window(ring, produced)
  <2>1. produced \in Nat /\ ring \in Ring /\ ring.len = Smaller(produced, Size)
    BY DEF TypeOK, RingIsWindow
  <2>2. \A k \in 1 .. ring.len : Content(ring)[k] = produced - ring.len + k
    BY <2>1 DEF RingIsWindow
  <2> QED
    BY <2>1, <2>2 DEF Window
<1>2. d \in Seq(Byte) /\ Len(d) = n /\ \A k \in 1 .. Len(d) : d[k] = produced + k
  BY ChunkType DEF Chunk
<1> HIDE DEF d
<1>3. Window(r, produced + n)
  <2>1. Window(r, produced + Len(d))
    BY <1>1, <1>2, WindowAppend
  <2> QED
    BY <1>2, <2>1
<1> HIDE DEF r
<1>4. /\ r \in Ring /\ r.len = m
      /\ \A k \in 1 .. r.len : Content(r)[k] = (produced + n) - r.len + k
  BY <1>3 DEF Window
<1>5. Content(r) \in Seq(Byte) /\ Len(Content(r)) = r.len /\ r.len \in Nat
  BY <1>4, ContentType DEF Ring
<1> HIDE DEF m
<1>6. Content(r) = [k \in 1 .. m |-> produced + n - m + k]
  <2>1. \A k \in 1 .. r.len : Content(r)[k] = produced + n - r.len + k
    BY <1>1, <1>4, <1>5
  <2> QED
    BY <1>4, <1>5, <2>1
<1> QED
  BY <1>4, <1>6 DEF r, d, m

\* The numbers of a state of the invariant, for the arithmetic below.
LEMMA Numbers ==
  ASSUME IInv
  PROVE  /\ Size \in Nat /\ 0 < Size /\ BufSize \in Nat /\ MaxOut \in Nat
         /\ ring \in Ring /\ ring.head \in Nat /\ ring.head < Size
         /\ ring.len \in Nat /\ ring.len = (IF produced <= Size THEN produced ELSE Size)
         /\ produced \in Nat /\ produced <= MaxOut
         /\ head \in Nat /\ head < Size
         /\ remaining \in Nat /\ remaining <= Size
         /\ next \in Nat /\ 1 <= next /\ next + remaining <= produced + 1
  BY DEF IInv, TypeOK, RingIsWindow, WithinSnapshot, Ring, Index, Smaller

\* Numbers with the same mask are a capacity apart at most.
LEMMA MaskEqual ==
  ASSUME NEW u \in 0 .. 2 * Size - 1, NEW v \in 0 .. 2 * Size - 1
  PROVE  Mask(u) = Mask(v) <=> u = v \/ u = v + Size \/ v = u + Size
<1>1. /\ Mask(u) = IF u < Size THEN u ELSE u - Size
      /\ Mask(v) = IF v < Size THEN v ELSE v - Size
  BY MaskValue
<1>2. u \in Nat /\ v \in Nat /\ Size \in Nat /\ 0 < Size /\ u < 2 * Size /\ v < 2 * Size
  OBVIOUS
<1> QED
  BY <1>1, <1>2

\* An invariant state has the bytes of a replay that is not lapped in place.
LEMMA IntactFromInvariant == IInv => PendingIntact
<1> SUFFICES ASSUME IInv, ~Lapped, NEW i \in 0 .. remaining - 1
             PROVE  ring.buf[Mask(head + i)] = next + i
  BY DEF PendingIntact
<1> USE Numbers
<1>1. /\ i \in Nat /\ i < remaining /\ 0 < remaining
      /\ produced - next < Size
  BY DEF Lapped
<1> DEFINE k == next + i - Oldest + 1
           u == head + remaining
           v == ring.head + (Last + 1 - Oldest)
           x == head + i
           y == ring.head + k - 1
<1>2. k \in 1 .. ring.len /\ Oldest - 1 + k = next + i
  BY <1>1 DEF Oldest
<1>3. /\ u \in 0 .. 2 * Size - 1 /\ v \in 0 .. 2 * Size - 1
      /\ x \in 0 .. 2 * Size - 1 /\ y \in 0 .. 2 * Size - 1
      /\ u - x = v - y
  BY <1>1, <1>2, SMTT(30) DEF Oldest, Last
<1>4. Mask(u) = Mask(v)
  BY <1>1 DEF IInv, Aligned, Last
<1>5. Content(ring)[k] = produced - ring.len + k
  BY <1>2 DEF IInv, RingIsWindow
<1>6. Content(ring)[k] = ring.buf[Mask(y)]
  BY <1>2, ContentType
<1> HIDE DEF u, v, x, y
<1>7. Mask(x) = Mask(y)
  <2>1. u = v \/ u = v + Size \/ v = u + Size
    BY <1>3, <1>4, MaskEqual
  <2>2. x = y \/ x = y + Size \/ y = x + Size
    BY <1>3, <2>1
  <2> QED
    BY <1>3, <2>2, MaskEqual
<1>8. produced - ring.len + k = next + i
  BY <1>2 DEF Oldest
<1> QED
  BY <1>5, <1>6, <1>7, <1>8 DEF x

\* The initial state satisfies the invariant.
LEMMA InitIInv == Init => IInv
<1> SUFFICES ASSUME Init PROVE IInv
  OBVIOUS
<1>1. NewRing.len = 0 /\ Size \in Nat /\ 0 < Size
  BY DEF NewRing
<1>2. TypeOK
  BY <1>1, NewRingEmpty DEF Init, TypeOK, Index
<1>3. RingIsWindow
  BY <1>1, NewRingEmpty DEF Init, RingIsWindow, Smaller
<1> QED
  BY <1>2, <1>3 DEF Init, IInv, WithinSnapshot, Aligned

\* The head after an append, in the arithmetic the replay needs: it moves by as
\* many cells as bytes were pushed out, if the chunk was shorter than the ring.
LEMMA HeadAfterAppend ==
  ASSUME IInv, NEW n \in 1 .. BufSize, produced + n <= MaxOut, n <= Size
  PROVE  AppendData(ring, Chunk(n)).head =
            IF ring.len + n <= Size THEN ring.head ELSE Mask(ring.head + (ring.len + n - Size))
<1>1. Chunk(n) # << >> /\ Len(Chunk(n)) = n /\ n \in Nat
  BY DEF Chunk
<1>2. LastN(Chunk(n), Size) = Chunk(n)
  BY <1>1 DEF LastN
<1>3. AppendData(ring, Chunk(n)) = AppendClamped(ring, Chunk(n))
  BY <1>1, <1>2 DEF AppendData
<1>4. ring.head + (ring.len + n) - Size = ring.head + (ring.len + n - Size)
  BY <1>1, Numbers
<1> QED
  BY <1>1, <1>3, <1>4 DEF AppendClamped

\* Output keeps the invariant.
LEMMA OutputIInv ==
  ASSUME IInv, NEW n \in 1 .. BufSize, Output(n)
  PROVE  IInv'
<1> USE Numbers
<1> DEFINE r == AppendData(ring, Chunk(n))
<1>1. /\ produced + n <= MaxOut /\ n \in Nat /\ 1 <= n
      /\ ring' = r /\ produced' = produced + n
      /\ head' = head /\ remaining' = remaining /\ next' = next /\ inOrder' = inOrder
  BY DEF Output
<1>2. /\ r \in Ring /\ r.len = Smaller(produced + n, Size)
      /\ Content(r) = [k \in 1 .. Smaller(produced + n, Size) |->
                          produced + n - Smaller(produced + n, Size) + k]
  BY <1>1, WindowStep DEF IInv
<1> HIDE DEF r
<1>0. r.len \in Nat /\ r.head \in Nat /\ r.len <= Size
  BY <1>2 DEF Ring, Index
<1>3. TypeOK'
  BY <1>1, <1>2 DEF IInv, TypeOK
<1>4. RingIsWindow'
  <2> DEFINE m == Smaller(produced + n, Size)
  <2>1. Content(r) = [k \in 1 .. m |-> produced + n - m + k] /\ r.len = m
    BY <1>2
  <2> HIDE DEF m
  <2>2. ring'.len = Smaller(produced', Size)
    BY <1>1, <2>1 DEF m
  <2>3. Content(ring)' = [k \in 1 .. ring'.len |-> produced' - ring'.len + k]
    <3>1. Content(ring)' = Content(r)
      BY <1>1 DEF Content
    <3>2. ring'.len = m /\ produced' = produced + n /\ m \in Nat
      BY <1>0, <1>1, <2>1
    <3> QED
      BY <1>1, <2>1, <3>1, <3>2
  <2> QED
    BY <2>2, <2>3 DEF RingIsWindow
<1>5. WithinSnapshot'
  BY <1>1 DEF WithinSnapshot
<1>6. Aligned'
  <2>0. Last' = Last /\ Oldest' = produced + n - r.len + 1 /\ Last \in Int
    BY <1>0, <1>1 DEF Last, Oldest
  <2> SUFFICES ASSUME remaining > 0, produced + n - Last < Size
               PROVE  Mask(head + remaining) = Mask(r.head + (Last + 1 - (produced + n - r.len + 1)))
    BY <1>0, <1>1, <2>0 DEF Aligned
  <2> DEFINE off == Last + 1 - Oldest
  <2>1. /\ n <= Size /\ produced - Last < Size /\ Last \in Nat /\ Last <= produced
        /\ off \in 0 .. ring.len
    BY <1>1 DEF Last, Oldest
  <2>2. Mask(head + remaining) = Mask(ring.head + off)
    BY <2>1 DEF IInv, Aligned
  <2>3. r.head = IF ring.len + n <= Size THEN ring.head ELSE Mask(ring.head + (ring.len + n - Size))
    BY <1>1, <2>1, HeadAfterAppend DEF r
  <2>4. r.len = IF produced + n <= Size THEN produced + n ELSE Size
    BY <1>2 DEF Smaller
  <2>5. CASE ring.len + n <= Size
    <3>1. produced + n - r.len = produced - ring.len
      BY <1>1, <2>4, <2>5
    <3>2. Last + 1 - (produced + n - r.len + 1) = off
      BY <3>1 DEF Oldest
    <3> QED
      BY <2>2, <2>3, <2>5, <3>2
  <2>6. CASE ring.len + n > Size
    <3> DEFINE d == ring.len + n - Size
               e == Last + 1 - (produced + n - r.len + 1)
    <3>1. d \in Nat /\ e \in Nat /\ d + e = off /\ ring.head + d \in Nat
          /\ (ring.head + d) + e <= 2 * Size - 1
          /\ (ring.head + d) + e = ring.head + off
      BY <1>1, <2>1, <2>4, <2>6 DEF Oldest
    <3>2. r.head = Mask(ring.head + d)
      BY <1>1, <2>3, <2>6
    <3> HIDE DEF d, e, off
    <3>3. Mask(Mask(ring.head + d) + e) = Mask(ring.head + off)
      <4>1. Mask(Mask(ring.head + d) + e) = Mask((ring.head + d) + e)
        BY <3>1, MaskAdd
      <4> QED
        BY <3>1, <4>1
    <3> QED
      BY <2>2, <3>2, <3>3 DEF e
  <2> QED
    BY <1>1, <2>5, <2>6
<1> QED
  BY <1>3, <1>4, <1>5, <1>6 DEF IInv

\* A new replay starts at the head of the ring.
LEMMA StartReplayIInv == ASSUME IInv, StartReplay PROVE IInv'
<1> USE Numbers
<1>1. /\ ring.len > 0 /\ head' = ring.head /\ remaining' = ring.len
      /\ next' = produced - ring.len + 1 /\ inOrder' = TRUE
      /\ ring' = ring /\ produced' = produced
  BY DEF StartReplay
<1>2. TypeOK' /\ RingIsWindow' /\ WithinSnapshot'
  BY <1>1 DEF IInv, TypeOK, RingIsWindow, WithinSnapshot, Index
<1>3. Last' + 1 - Oldest' = ring.len
  BY <1>1 DEF Last, Oldest
<1>4. Aligned'
  BY <1>1, <1>3 DEF Aligned
<1> QED
  BY <1>2, <1>4 DEF IInv

\* A write moves the replay along its snapshot and does not touch the ring.
LEMMA DrainIInv ==
  ASSUME IInv, NEW n \in 1 .. Size, Drain(n)
  PROVE  IInv'
<1> USE Numbers
<1>1. /\ n \in Nat /\ 1 <= n /\ n <= Size - head /\ n <= remaining
      /\ head' = Mask(head + n) /\ remaining' = remaining - n /\ next' = next + n
      /\ ring' = ring /\ produced' = produced /\ inOrder' \in BOOLEAN
  BY DEF Drain, ReplayChunk, ReplayHead, Smaller, IInv, TypeOK
<1>2. head' \in Index
  BY <1>1, MaskValue
<1>3. TypeOK' /\ RingIsWindow' /\ WithinSnapshot'
  BY <1>1, <1>2 DEF IInv, TypeOK, RingIsWindow, WithinSnapshot
<1>4. Last' = Last /\ Oldest' = Oldest
  BY <1>1 DEF Last, Oldest
<1>5. Aligned'
  <2> SUFFICES ASSUME remaining - n > 0, produced - Last < Size
               PROVE  Mask(Mask(head + n) + (remaining - n)) = Mask(ring.head + (Last + 1 - Oldest))
    BY <1>1, <1>4 DEF Aligned
  <2> DEFINE a == head + n
             b == remaining - n
  <2>1. a \in Nat /\ b \in Nat /\ a + b = head + remaining /\ a + b <= 2 * Size - 1
    BY <1>1
  <2> HIDE DEF a, b
  <2>2. Mask(Mask(a) + b) = Mask(head + remaining)
    BY <2>1, MaskAdd
  <2>3. Mask(head + remaining) = Mask(ring.head + (Last + 1 - Oldest))
    BY <1>1 DEF IInv, Aligned
  <2> QED
    BY <2>2, <2>3 DEF a, b
<1> QED
  BY <1>3, <1>5 DEF IInv

\* Every step keeps the invariant.
LEMMA NextIInv == IInv /\ [Next]_vars => IInv'
<1> SUFFICES ASSUME IInv, [Next]_vars PROVE IInv'
  OBVIOUS
<1>1. ASSUME NEW n \in 1 .. BufSize, Output(n) PROVE IInv'
  BY <1>1, OutputIInv
<1>2. CASE StartReplay
  BY <1>2, StartReplayIInv
<1>3. ASSUME NEW n \in 1 .. Size, Drain(n) PROVE IInv'
  BY <1>3, DrainIInv
<1>4. CASE UNCHANGED vars
  BY <1>4 DEF vars, IInv, TypeOK, RingIsWindow, WithinSnapshot, Aligned, Last, Oldest
<1> QED
  BY <1>1, <1>2, <1>3, <1>4 DEF Next

\* The invariant holds in every reachable state.
THEOREM Invariance == Spec => []IInv
  BY InitIInv, NextIInv, PTL DEF Spec

\* Types, for every capacity (src/src/scrollback.rs: head and len stay in the
\* ranges append and drain index the buffer with).
THEOREM TypeCorrect == Spec => []TypeOK
<1>1. IInv => TypeOK
  BY DEF IInv
<1> QED
  BY <1>1, Invariance, PTL

\* Scrollback::append keeps exactly the last bytes of the output, in order.
THEOREM WindowCorrect == Spec => []RingIsWindow
<1>1. IInv => RingIsWindow
  BY DEF IInv
<1> QED
  BY <1>1, Invariance, PTL

\* A replay ends within the output its snapshot was taken of.
THEOREM SnapshotCorrect == Spec => []WithinSnapshot
<1>1. IInv => WithinSnapshot
  BY DEF IInv
<1> QED
  BY <1>1, Invariance, PTL

\* ReplayState::drain finds the bytes it has yet to send unless the output has
\* lapped it, whatever was appended while the replay was under way.
THEOREM ReplayCorrect == Spec => []PendingIntact
  BY IntactFromInvariant, Invariance, PTL

\* A step of drain that finds the replay not lapped sends the bytes that are due.
LEMMA DrainInOrder ==
  ASSUME IInv, NEW n \in 1 .. Size, Drain(n), inOrder, ~Lapped
  PROVE  inOrder'
<1> USE Numbers
<1>1. n \in Nat /\ n <= Size - head /\ n <= remaining
  BY DEF Drain, ReplayChunk, Smaller
<1>2. ASSUME NEW k \in 1 .. n
      PROVE  ReplayBytes(ring, head, n)[k] = next + k - 1
  <2>1. /\ k - 1 \in 0 .. remaining - 1 /\ head + (k - 1) \in 0 .. Size - 1
        /\ head + (k - 1) = head + k - 1 /\ next + (k - 1) = next + k - 1
    BY <1>1, <1>2
  <2>2. ring.buf[Mask(head + (k - 1))] = next + (k - 1)
    BY <2>1, IntactFromInvariant DEF PendingIntact
  <2>3. Mask(head + (k - 1)) = head + (k - 1)
    BY <2>1, MaskValue
  <2> QED
    BY <2>1, <2>2, <2>3 DEF ReplayBytes
<1>3. \A k \in 1 .. n : ReplayBytes(ring, head, n)[k] = next + k - 1
  BY <1>2
<1>4. inOrder' = (inOrder /\ \A k \in 1 .. n : ReplayBytes(ring, head, n)[k] = next + k - 1)
  BY DEF Drain
<1> QED
  BY <1>3, <1>4, Zenon

\* What a replay sends is in order until the output laps it.
THEOREM SendsInOrder == Spec => ReplayInOrder
<1>1. IInv /\ [Next]_vars => [inOrder /\ ~Lapped => inOrder']_vars
  <2> SUFFICES ASSUME IInv, [Next]_vars, inOrder, ~Lapped PROVE inOrder'
    OBVIOUS
  <2>1. ASSUME NEW n \in 1 .. BufSize, Output(n) PROVE inOrder'
    BY <2>1, Zenon DEF Output
  <2>2. CASE StartReplay
    BY <2>2, Zenon DEF StartReplay
  <2>3. ASSUME NEW n \in 1 .. Size, Drain(n) PROVE inOrder'
    BY <2>3, DrainInOrder
  <2>4. CASE UNCHANGED vars
    BY <2>4, Zenon DEF vars
  <2> QED
    BY <2>1, <2>2, <2>3, <2>4 DEF Next
<1> QED
  BY <1>1, Invariance, PTL DEF Spec, ReplayInOrder
=============================================================================
