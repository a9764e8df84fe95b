-------------------------- MODULE ScrollbackReplay --------------------------
(***************************************************************************)
(* The ring buffer at work: terminal output is appended to it while one    *)
(* client is being sent a snapshot of it by position (the replay_head and  *)
(* replay_remaining of src/src/client.rs, drained by ReplayState::drain).  *)
(* Nothing stops the output from reaching the cells the replay has yet to  *)
(* read.  A byte is its position in the output, so what the replay sends   *)
(* can be compared with what it should have sent.                          *)
(***************************************************************************)
EXTENDS Scrollback

CONSTANTS BufSize,   \* BUFSIZE, the most one read of the terminal returns
          MaxOut     \* bound: bytes of output in a behaviour

ASSUME BufSizeAssumption == BufSize \in Nat \ {0}
ASSUME MaxOutAssumption == MaxOut \in Nat
ASSUME PositionAssumption == Byte = 0 .. MaxOut /\ Zero = 0

VARIABLES ring,      \* the scrollback
          produced,  \* bytes of output appended so far
          head,      \* replay_head
          remaining, \* replay_remaining
          next,      \* ghost: the position the client must be sent next
          inOrder    \* ghost: every byte of this replay had its position

vars == <<ring, produced, head, remaining, next, inOrder>>

Chunk(n) == [k \in 1 .. n |-> produced + k]

Init == /\ ring = NewRing
        /\ produced = 0
        /\ head = 0 /\ remaining = 0
        /\ next = 1 /\ inOrder = TRUE

\* handle_pty_output: the chunk that was read is appended.
Output(n) ==
    /\ produced + n <= MaxOut
    /\ ring' = AppendData(ring, Chunk(n))
    /\ produced' = produced + n
    /\ UNCHANGED <<head, remaining, next, inOrder>>

\* Mutant of StartReplay: the replay starts at the start of the buffer.
StartAtZero ==
    /\ ring.len > 0
    /\ head' = 0 /\ remaining' = ring.len
    /\ next' = produced - ring.len + 1 /\ inOrder' = TRUE
    /\ UNCHANGED <<ring, produced>>

\* Mutant of StartReplay: the replay covers the buffer, full or not.
StartWhole ==
    /\ ring.len > 0
    /\ head' = ring.head /\ remaining' = Size
    /\ next' = produced - ring.len + 1 /\ inOrder' = TRUE
    /\ UNCHANGED <<ring, produced>>

\* handle_attach with len = 0: the replay covers the ring as it is now.  A
\* client that resumes may ask again before an earlier replay has ended.
StartReplay ==
    /\ ring.len > 0
    /\ head' = ring.head
    /\ remaining' = ring.len
    /\ next' = produced - ring.len + 1
    /\ inOrder' = TRUE
    /\ UNCHANGED <<ring, produced>>

\* One write of ReplayState::drain that the kernel takes n bytes of.
Drain(n) ==
    /\ n <= ReplayChunk(head, remaining)
    /\ inOrder' = (inOrder /\ \A k \in 1 .. n : ReplayBytes(ring, head, n)[k] = next + k - 1)
    /\ head' = ReplayHead(head, n)
    /\ remaining' = remaining - n
    /\ next' = next + n
    /\ UNCHANGED <<ring, produced>>

Next == \/ \E n \in 1 .. BufSize : Output(n)
        \/ StartReplay
        \/ \E n \in 1 .. Size : Drain(n)

Spec == Init /\ [][Next]_vars

(***************************************************************************)
(* Properties                                                              *)
(***************************************************************************)

\* Every variable has its type; for the ring this is the invariant its code
\* relies on (head within the buffer, len at most the capacity).
TypeOK == /\ ring \in Ring
          /\ produced \in 0 .. MaxOut
          /\ head \in Index
          /\ remaining \in 0 .. Size
          /\ next \in 1 .. MaxOut + 1
          /\ inOrder \in BOOLEAN

\* The ring holds the last bytes of the output, in order: SCROLLBACK_SIZE of
\* them, or all while there are fewer (Scrollback::append).
RingIsWindow ==
    /\ ring.len = Smaller(produced, Size)
    /\ Content(ring) = [k \in 1 .. ring.len |-> produced - ring.len + k]

\* While the output has not lapped the replay, the bytes the replay has yet to
\* send are where ReplayState::drain will look for them: first-half, second-half
\* and wrap of the ring included, and whatever was appended meanwhile.
Lapped == produced - next >= Size
PendingIntact ==
    ~Lapped => \A i \in 0 .. remaining - 1 : ring.buf[Mask(head + i)] = next + i

\* A replay never reaches past the output it was a snapshot of.
WithinSnapshot == next + remaining <= produced + 1

\* What ReplayState::drain sends continues what it sent before, byte by byte, for
\* as long as the output has not lapped the replay.  (When it has, drain sends newer
\* bytes in the place of those it was to send.)
ReplayInOrder == [][inOrder /\ ~Lapped => inOrder']_vars
=============================================================================
