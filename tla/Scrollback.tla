----------------------------- MODULE Scrollback -----------------------------
(***************************************************************************)
(* The fixed-capacity ring buffer of src/src/scrollback.rs as operators on *)
(* a record [buf, head, len]: buf is indexed from 0 as in the code, the    *)
(* oldest byte is buf[head] and len bytes are valid.  What a byte is does  *)
(* not matter: modules that use the ring take position numbers as bytes.   *)
(***************************************************************************)
EXTENDS Integers, Sequences

CONSTANTS Size,     \* SCROLLBACK_SIZE
          Byte,     \* what the ring stores
          Zero      \* the byte the buffer is filled with when it is created

ASSUME SizeAssumption == Size \in Nat \ {0}
ASSUME ByteAssumption == Zero \in Byte

Index == 0 .. Size - 1

\* The type of the ring: the representation invariant of the code.
Ring == [buf : [Index -> Byte], head : Index, len : 0 .. Size]

\* "& (SCROLLBACK_SIZE - 1)": the capacity is a power of two.
Mask(x) == x % Size

Smaller(a, b) == IF a <= b THEN a ELSE b

\* The last n elements of s, or all of s when it is shorter.
LastN(s, n) == IF Len(s) <= n THEN s ELSE SubSeq(s, Len(s) - n + 1, Len(s))

NewRing == [buf |-> [i \in Index |-> Zero], head |-> 0, len |-> 0]

\* Mutant of Copied: the second piece is forgotten.
CopiedFirst(buf, wp, data) ==
    LET n1 == Smaller(Size - wp, Len(data))
    IN  [i \in Index |-> IF wp <= i /\ i < wp + n1 THEN data[i - wp + 1] ELSE buf[i]]

\* copy_from_slice of data in two pieces: up to the end of the buffer, then
\* the remainder at its start.
Copied(buf, wp, data) ==
    LET n1 == Smaller(Size - wp, Len(data))
    IN  [i \in Index |->
            IF wp <= i /\ i < wp + n1 THEN data[i - wp + 1]
            ELSE IF i < Len(data) - n1 THEN data[n1 + i + 1]
            ELSE buf[i]]

\* Scrollback::append when the data fits in the buffer (the clamp is in
\* AppendData).
AppendClamped(r, data) ==
    LET total == r.len + Len(data)
    IN  [buf  |-> Copied(r.buf, Mask(r.head + r.len), data),
         head |-> IF total <= Size THEN r.head ELSE Mask(r.head + total - Size),
         len  |-> Smaller(total, Size)]

\* Scrollback::append.
AppendData(r, d) == IF d = << >> THEN r ELSE AppendClamped(r, LastN(d, Size))

\* The valid bytes, oldest first.
Content(r) == [k \in 1 .. r.len |-> r.buf[Mask(r.head + k - 1)]]

\* Mutant of ReplayHead: the head is not wrapped.
ReplayHeadNoWrap(head, n) == head + n

\* Mutant of ReplayBytes: it starts one byte late.
ReplayBytesLate(r, head, n) == [k \in 1 .. n |-> r.buf[Mask(head + k)]]

\* ReplayState::drain: the length of the next contiguous write, the bytes a
\* write of n hands to the kernel, and the head after it.
ReplayChunk(head, remaining) == Smaller(Size - head, remaining)
ReplayBytes(r, head, n) == [k \in 1 .. n |-> r.buf[head + k - 1]]
ReplayHead(head, n) == Mask(head + n)
=============================================================================
