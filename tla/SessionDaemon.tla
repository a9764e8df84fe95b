---------------------------- MODULE SessionDaemon ----------------------------
(***************************************************************************)
(* The daemon of one session (src/src/session_daemon.rs): a single thread  *)
(* that selects over the listening socket, the pseudo-terminal and the     *)
(* client connections, and the kernel objects it works on.  Between any    *)
(* two of its system calls the clients and the child may act; what they do *)
(* is in module Session, which composes the two.                           *)
(*                                                                         *)
(* A connection is named by its file descriptor, a byte of output by its   *)
(* position in the output.  A packet is a record: the data a Push or Winch *)
(* carries is left out.                                                    *)
(***************************************************************************)
EXTENDS Scrollback, FiniteSets

CONSTANTS Conns,     \* descriptors a client connection can have
          BufSize,   \* BUFSIZE, the most one read of the terminal returns
          SockCap,   \* capacity of a connection towards the client
          LowWater,  \* free capacity from which select reports it writable
          PtyCap,    \* capacity of the terminal towards the child
          MaxFds,    \* connections the process may have open (RLIMIT_NOFILE)
          MaxOut     \* bound: bytes of output in a behaviour

ASSUME CapAssumption == /\ BufSize \in Nat \ {0} /\ SockCap \in Nat \ {0}
                        /\ LowWater \in 1 .. SockCap
                        /\ PtyCap \in Nat /\ MaxFds \in Nat /\ MaxOut \in Nat
ASSUME PositionAssumption == Byte = 0 .. MaxOut /\ Zero = 0

VARIABLES
    \* SessionDaemon
    pc,        \* where its loop is
    idx,       \* the position of the loop over clients
    ready,     \* the fd sets the last select returned
    clients,   \* Vec<Client>, by descriptor
    client,    \* the fields of each Client
    ring,      \* scrollback
    evict,     \* evict_attached
    chunk,     \* data of send_to_clients: the length, it ends at total
    written,   \* any_written of send_to_clients
    bad,       \* bad_fds of send_to_clients
    execBit,   \* the owner-execute bit of the socket file
    sockFile,  \* the socket file exists
    log,       \* the session log: bytes of output in it, end marker written
    \* the kernel's side of the connections
    fd,        \* state of each descriptor: none, backlog, open
    backlog,   \* connections waiting to be accepted
    inq,       \* packets on their way to the daemon
    out,       \* bytes on their way to the client, not read yet
    peer,      \* what the client process at the other end is doing
    \* the terminal and the child
    child,     \* running, hungup (closed the terminal, still alive), exited
    avail,     \* bytes of output the daemon has not read
    ptyIn,     \* packets of input the child has not read
    sigs,      \* signals pending for the child
    \* ghosts
    total,     \* bytes of output read so far
    served,    \* clients read from in this pass, in order
    next,      \* position each client is to be sent next
    stream     \* what each client was sent: whole, gap (bytes missing), mixed, lapped

loopVars == <<pc, idx, ready>>
sendVars == <<chunk, written, bad>>
fileVars == <<execBit, sockFile, log>>
connVars == <<fd, backlog, peer>>
childVars == <<child, sigs>>
ptyVars == <<avail, total, ring>>
ghosts == <<next, stream>>
vars == <<loopVars, clients, client, ring, evict, sendVars, fileVars, connVars,
          inq, out, childVars, avail, ptyIn, total, served, ghosts>>

NoClient == [attached |-> FALSE, head |-> 0, remaining |-> 0]
NoneReady == [listener |-> FALSE, pty |-> FALSE, rd |-> {}, wr |-> {}]

Elements(s) == {s[i] : i \in 1 .. Len(s)}
Open == Elements(clients)
AttachedOnes == {c \in Open : client[c].attached}

Init ==
    /\ pc = "build" /\ idx = 1 /\ ready = NoneReady
    /\ clients = << >> /\ client = [c \in Conns |-> NoClient]
    /\ ring = NewRing /\ evict = FALSE /\ chunk = 0 /\ written = FALSE /\ bad = {}
    /\ execBit = FALSE /\ sockFile = TRUE /\ log = [bytes |-> 0, ended |-> FALSE]
    /\ fd = [c \in Conns |-> "none"] /\ backlog = << >>
    /\ inq = [c \in Conns |-> << >>] /\ out = [c \in Conns |-> 0]
    /\ peer = [c \in Conns |-> "none"]
    /\ child = "running" /\ avail = 0 /\ ptyIn = 0 /\ sigs = {}
    /\ total = 0 /\ served = << >>
    /\ next = [c \in Conns |-> 1] /\ stream = [c \in Conns |-> "whole"]

(***************************************************************************)
(* The kernel's calls                                                      *)
(***************************************************************************)

\* select(2): a closed peer makes a descriptor both readable and writable.
Writable(c) == peer[c] = "none" \/ SockCap - out[c] >= LowWater
Readable(c) == peer[c] = "none" \/ inq[c] # << >>
PtyReadable == avail > 0 \/ child # "running"

\* What write(2) may take of n bytes on a non-blocking connection whose peer is
\* there: all of them if they fit, else some, and none (EAGAIN) if it is full.
Taken(c, n) ==
    LET room == SockCap - out[c]
    IN  IF n <= room THEN {n} ELSE Smaller(1, room) .. room

\* Vec::swap_remove.
SwapRemove(s, i) ==
    [k \in 1 .. Len(s) - 1 |-> IF k = i THEN s[Len(s)] ELSE s[k]]

\* Vec::retain: the elements in keep stay, in their order.
Retain(keep) ==
    LET Kept == {i \in 1 .. Len(clients) : clients[i] \in keep}
    IN  \E n \in 0 .. Len(clients) : \E f \in [1 .. n -> Kept] :
          /\ \A i, j \in 1 .. n : i < j => f[i] < f[j]
          /\ Kept = {f[i] : i \in 1 .. n}
          /\ clients' = [i \in 1 .. n |-> clients[f[i]]]

\* close(2) on every descriptor of gone: unread packets are lost, and output
\* the client has not read stays readable to it.
Closed(gone) ==
    /\ fd' = [c \in Conns |-> IF c \in gone THEN "none" ELSE fd[c]]
    /\ inq' = [c \in Conns |-> IF c \in gone THEN << >> ELSE inq[c]]
    /\ client' = [c \in Conns |-> IF c \in gone THEN NoClient ELSE client[c]]

\* Mutant of CloseAndRemove: what send_to_clients did before its comment was written.
CloseOnly(gone) == clients' = clients /\ Closed(gone)

\* A set of clients is closed and leaves the vector.
CloseAndRemove(gone) == Retain(Open \ gone) /\ Closed(gone)

\* Ghost: the bytes v are put on the connection to c, whose stream so far has
\* verdict st and continues at nx.  They continue it, leave a gap, or are out of
\* order.  Of a stream whose replay was lapped nothing more is said.
Verdicts == {"whole", "gap", "mixed", "lapped"}
InOrder(v) == \A k \in 1 .. Len(v) : v[k] = v[1] + k - 1
Verdict(st, nx, v) ==
    IF v = << >> \/ st = "lapped" THEN st
    ELSE IF st = "mixed" \/ ~InOrder(v) \/ v[1] < nx THEN "mixed"
    ELSE IF v[1] > nx THEN "gap" ELSE st
Delivered(c, st, nx, v) ==
    /\ stream' = [stream EXCEPT ![c] = Verdict(st, nx, v)]
    /\ next' = [next EXCEPT ![c] = IF v = << >> THEN nx ELSE v[Len(v)] + 1]

(***************************************************************************)
(* The loop of run(): build_fd_sets, select, accept_client                 *)
(***************************************************************************)

\* cleanup(), and the process exits: the kernel closes every descriptor.
Cleanup ==
    /\ pc' = "exited" /\ idx' = 1 /\ ready' = NoneReady
    /\ log' = [log EXCEPT !.ended = TRUE] /\ sockFile' = FALSE /\ execBit' = FALSE
    /\ fd' = [c \in Conns |-> "none"] /\ backlog' = << >> /\ clients' = << >>
    /\ client' = [c \in Conns |-> NoClient] /\ inq' = [c \in Conns |-> << >>]
    /\ served' = << >>

\* build_fd_sets: the mode of the socket file shows whether anyone is attached.
BuildFdSets ==
    /\ pc = "build"
    /\ execBit' = (AttachedOnes # {})
    /\ pc' = "select"
    /\ UNCHANGED <<idx, ready, clients, client, ring, evict, sendVars, sockFile, log,
                   connVars, inq, out, childVars, avail, ptyIn, total, served, ghosts>>

\* A closed descriptor in the sets makes select fail with EBADF, which ends run().
BadFd == \E c \in Open : fd[c] # "open"

\* Mutant of Ready: the terminal is watched only while someone is attached.
ReadyForAttached == [listener |-> backlog # << >>,
                     pty      |-> PtyReadable /\ AttachedOnes # {},
                     rd       |-> {c \in Open : Readable(c)},
                     wr       |-> {c \in Open : client[c].remaining > 0 /\ Writable(c)}]

\* Mutant of Ready: only attached clients are watched for room.
ReadyAttachedOnly == [listener |-> backlog # << >>,
                      pty      |-> PtyReadable,
                      rd       |-> {c \in Open : Readable(c)},
                      wr       |-> {c \in AttachedOnes : client[c].remaining > 0 /\ Writable(c)}]

\* What the outer select reports.
Ready == [listener |-> backlog # << >>,
          pty      |-> PtyReadable,
          rd       |-> {c \in Open : Readable(c)},
          wr       |-> {c \in Open : client[c].remaining > 0 /\ Writable(c)}]

Select ==
    /\ pc = "select"
    /\ IF BadFd
       THEN Cleanup
       ELSE /\ Ready # NoneReady
            /\ ready' = Ready /\ pc' = "accept"
            /\ UNCHANGED <<idx, clients, client, served, fileVars, fd, backlog, inq>>
    /\ UNCHANGED <<ring, evict, sendVars, peer, out, childVars, avail, ptyIn, total, ghosts>>

\* accept_client.  A connection that cannot be made non-blocking is dropped; with
\* no descriptor left accept fails and the connection stays where it is.
AcceptClient ==
    /\ pc = "accept"
    /\ pc' = "packets" /\ idx' = 1
    /\ IF ready.listener /\ Cardinality(Open) < MaxFds
       THEN /\ backlog' = Tail(backlog)
            /\ \/ /\ fd' = [fd EXCEPT ![Head(backlog)] = "open"]
                  /\ clients' = Append(clients, Head(backlog))
                  /\ inq' = inq
               \/ /\ fd' = [fd EXCEPT ![Head(backlog)] = "none"]
                  /\ inq' = [inq EXCEPT ![Head(backlog)] = << >>]
                  /\ clients' = clients
       ELSE UNCHANGED <<backlog, fd, clients, inq>>
    /\ UNCHANGED <<ready, client, ring, evict, sendVars, fileVars, peer, out, childVars,
                   avail, ptyIn, total, served, ghosts>>

(***************************************************************************)
(* handle_client_packets: one packet from every readable client            *)
(***************************************************************************)

Current == clients[idx]
Serving == pc = "packets" /\ idx <= Len(clients)

\* A client that select did not report is passed over.
SkipClient ==
    /\ Serving /\ Current \notin ready.rd
    /\ idx' = idx + 1
    /\ UNCHANGED <<pc, ready, clients, client, ring, evict, sendVars, fileVars, connVars,
                   inq, out, childVars, avail, ptyIn, total, served, ghosts>>

\* The packet is of type t: it is read, and the client counts as served.
ReadPacket(t) ==
    /\ Serving /\ Current \in ready.rd
    /\ inq[Current] # << >> /\ Head(inq[Current]).type = t
    /\ served' = Append(served, Current)
Packet == Head(inq[Current])

\* The loop after a handler: it goes on with the next client, or closes this one
\* and goes on with the client swapped into its place.
NextClient ==
    /\ idx' = idx + 1
    /\ inq' = [inq EXCEPT ![Current] = Tail(@)]
    /\ UNCHANGED <<clients, fd>>

\* Mutant of DropClient: the loop steps over the client swapped in.
DropAndStep == /\ clients' = SwapRemove(clients, idx) /\ Closed({Current})
               /\ idx' = idx + 1

DropClient ==
    /\ clients' = SwapRemove(clients, idx)
    /\ Closed({Current})
    /\ UNCHANGED idx

\* What the handlers leave alone.
HandlerFrame == UNCHANGED <<pc, ready, ring, sendVars, fileVars, backlog, peer, child,
                            avail, total>>

ReadEof ==
    /\ Serving /\ Current \in ready.rd /\ inq[Current] = << >>
    /\ served' = Append(served, Current)
    /\ DropClient
    /\ HandlerFrame /\ UNCHANGED <<evict, out, sigs, ptyIn, ghosts>>

\* A write of input to the non-blocking terminal, whose result is ignored.
TerminalWrite(n) == ptyIn' = Smaller(ptyIn + n, PtyCap)

HandlePush ==
    /\ ReadPacket("Push") /\ TerminalWrite(1) /\ NextClient
    /\ HandlerFrame /\ UNCHANGED <<client, evict, out, sigs, ghosts>>

\* Mutant of Completed: attached although part of the replay is still to come.
AtOnce(n, remaining) == n <= remaining

\* A replay is over when nothing remains.
Completed(n, remaining) == n = remaining

\* Ghost: the verdict st of a replay that goes on at nx.  Output has lapped it if the
\* ring no longer holds what is due.
SoFar(st, nx) == IF nx + ring.len <= total THEN "lapped" ELSE st

\* ReplayState::drain towards client c from head with remaining bytes to go: it
\* writes until nothing remains or the connection is full; an error leaves the
\* replay as it was.  The client is attached once nothing remains.
DrainTo(c, before, head, remaining, st, nx) ==
    IF peer[c] = "none"
    THEN /\ client' = [client EXCEPT ![c] = [attached |-> before, head |-> head,
                                             remaining |-> remaining]]
         /\ UNCHANGED <<out, ghosts>>
    ELSE \E n \in Taken(c, remaining) :
           /\ client' = [client EXCEPT ![c] = [attached  |-> before \/ Completed(n, remaining),
                                               head      |-> ReplayHead(head, n),
                                               remaining |-> remaining - n]]
           /\ out' = [out EXCEPT ![c] = @ + n]
           /\ Delivered(c, SoFar(st, nx), nx, [k \in 1 .. n |-> ring.buf[Mask(head + k - 1)]])

\* handle_attach.  A client that says it has the history (len # 0), or for which
\* there is none, is attached as it is; another is sent the ring first.  What it
\* was before does not matter.
HandleAttach ==
    /\ ReadPacket("Attach") /\ NextClient
    /\ LET c == Current
       IN  IF Packet.len # 0 \/ ring.len = 0
           THEN /\ client' = [client EXCEPT ![c].attached = TRUE]
                /\ next' = [next EXCEPT ![c] = total + 1]
                /\ stream' = [stream EXCEPT ![c] = "whole"]
                /\ UNCHANGED out
           ELSE DrainTo(c, client[c].attached, ring.head, ring.len,
                        "whole", total - ring.len + 1)
    /\ HandlerFrame /\ UNCHANGED <<evict, sigs, ptyIn>>

HandleDetach ==
    /\ ReadPacket("Detach") /\ NextClient
    /\ client' = [client EXCEPT ![Current].attached = FALSE]
    /\ HandlerFrame /\ UNCHANGED <<evict, out, sigs, ptyIn, ghosts>>

\* handle_force_detach: noted for the end of the pass; the requester is dropped.
HandleForceDetach ==
    /\ ReadPacket("ForceDetach") /\ DropClient
    /\ evict' = TRUE
    /\ HandlerFrame /\ UNCHANGED <<out, sigs, ptyIn, ghosts>>

\* handle_info: a line, and a line for every attached client, as far as they
\* fit; the requester is dropped.
HandleInfo ==
    /\ ReadPacket("Info") /\ DropClient
    /\ out' = [out EXCEPT ![Current] =
                  IF peer[Current] = "none" THEN @
                  ELSE Smaller(@ + 1 + Cardinality(AttachedOnes), SockCap)]
    /\ HandlerFrame /\ UNCHANGED <<evict, sigs, ptyIn, ghosts>>

\* kill(2) on the process group; a zombie is not disturbed.
Raise(signals) == IF child = "exited" THEN sigs ELSE sigs \union signals

\* handle_winch: setting a size the terminal does not have yet signals the child.
HandleWinch ==
    /\ ReadPacket("Winch") /\ NextClient
    /\ sigs' \in {sigs, Raise({"WINCH"})}
    /\ HandlerFrame /\ UNCHANGED <<client, evict, out, ptyIn, ghosts>>

\* handle_redraw: sets the size; then a Ctrl-L if the child has the terminal in
\* raw mode (len = 2), or SIGWINCH (len = 3).
HandleRedraw ==
    /\ ReadPacket("Redraw") /\ NextClient
    /\ IF Packet.len = 3 THEN sigs' = Raise({"WINCH"})
                         ELSE sigs' \in {sigs, Raise({"WINCH"})}
    /\ \E raw \in BOOLEAN : TerminalWrite(IF Packet.len = 2 /\ raw THEN 1 ELSE 0)
    /\ HandlerFrame /\ UNCHANGED <<client, evict, out, ghosts>>

\* handle_kill: the signal named by len, or SIGTERM.
Signal(len) == CASE len = 9 -> "KILL" [] len = 1 -> "HUP" [] OTHER -> "TERM"
HandleKill ==
    /\ ReadPacket("Kill") /\ NextClient
    /\ sigs' = Raise({Signal(Packet.len)})
    /\ HandlerFrame /\ UNCHANGED <<client, evict, out, ptyIn, ghosts>>

EndPackets ==
    /\ pc = "packets" /\ idx > Len(clients)
    /\ pc' = "evict"
    /\ UNCHANGED <<idx, ready, clients, client, ring, evict, sendVars, fileVars, connVars,
                   inq, out, childVars, avail, ptyIn, total, served, ghosts>>

(***************************************************************************)
(* The rest of the pass: forced detach, drain_replay, handle_pty_output    *)
(***************************************************************************)

\* A forced detach closes every client that is attached now.
EvictAttached ==
    /\ pc = "evict"
    /\ pc' = "drain" /\ idx' = 1 /\ served' = << >> /\ evict' = FALSE
    /\ IF evict
       THEN CloseAndRemove(AttachedOnes)
       ELSE UNCHANGED <<clients, client, fd, inq>>
    /\ UNCHANGED <<ready, ring, sendVars, fileVars, backlog, peer, out, childVars, avail,
                   ptyIn, total, ghosts>>

\* drain_replay, one client.
Pending == Current \in ready.wr /\ client[Current].remaining > 0
DrainReplay ==
    /\ pc = "drain" /\ idx <= Len(clients)
    /\ idx' = idx + 1
    /\ IF Pending
       THEN LET c == Current
            IN  DrainTo(c, client[c].attached, client[c].head, client[c].remaining,
                        stream[c], next[c])
       ELSE UNCHANGED <<client, out, ghosts>>
    /\ UNCHANGED <<pc, ready, clients, ring, evict, sendVars, fileVars, connVars, inq,
                   childVars, avail, ptyIn, total, served>>

EndDrain ==
    /\ pc = "drain" /\ idx > Len(clients)
    /\ pc' = "pty" /\ idx' = 1
    /\ UNCHANGED <<ready, clients, client, ring, evict, sendVars, fileVars, connVars, inq,
                   out, childVars, avail, ptyIn, total, served, ghosts>>

\* Mutant of LogWrite: output is logged only while someone is attached.
LogIfAttached(n) == log' = IF AttachedOnes = {} THEN log ELSE [log EXCEPT !.bytes = @ + n]

\* SessionLog::write.
LogWrite(n) == log' = [log EXCEPT !.bytes = @ + n]

\* handle_pty_output.  What was read goes to the scrollback, to the log and, if
\* anyone is attached, to send_to_clients.
Chunk(n) == [k \in 1 .. n |-> total + k]
ReadOutput(n) ==
    /\ pc = "pty" /\ ready.pty /\ n <= avail
    /\ avail' = avail - n /\ total' = total + n
    /\ ring' = AppendData(ring, Chunk(n))
    /\ LogWrite(n)
    /\ pc' = IF AttachedOnes = {} THEN "build" ELSE "forward"
    /\ chunk' = IF AttachedOnes = {} THEN 0 ELSE n
    /\ UNCHANGED <<idx, ready, clients, client, evict, written, bad, execBit, sockFile,
                   connVars, inq, out, childVars, ptyIn, served, ghosts>>

\* Mutant of NoOutput: a dead child's last output is not looked for.
NoneOrDead == ~(ready.pty /\ avail > 0) \/ child = "exited"

NoOutput == ~(ready.pty /\ avail > 0)

\* Nothing to read yet, or the end of the output: then waitpid follows.
EndOutput ==
    /\ pc = "pty" /\ NoOutput
    /\ pc' = IF ready.pty /\ child # "running" THEN "reap" ELSE "build"
    /\ UNCHANGED <<idx, ready, clients, client, ring, evict, sendVars, fileVars, connVars,
                   inq, out, childVars, avail, ptyIn, total, served, ghosts>>

\* waitpid blocks until the child is dead; then the session ends.
Reap ==
    /\ pc = "reap" /\ child = "exited"
    /\ Cleanup
    /\ UNCHANGED <<ring, evict, sendVars, peer, out, childVars, avail, ptyIn, total, ghosts>>

(***************************************************************************)
(* send_to_clients: the chunk just read, the last bytes of the output      *)
(***************************************************************************)

\* Mutant of InnerReady: the attached clients are written to, writable or not.
InnerReadyAll == [NoneReady EXCEPT !.listener = (backlog # << >>), !.wr = AttachedOnes]

\* The inner select waits for an attached client that can take output, or for a
\* connection; it does not look at what the clients send.
InnerReady == [NoneReady EXCEPT !.listener = (backlog # << >>),
                                !.wr = {c \in AttachedOnes : Writable(c)}]
InnerSelect ==
    /\ pc = "forward"
    /\ InnerReady # NoneReady
    /\ ready' = InnerReady
    /\ pc' = "write" /\ idx' = 1 /\ written' = FALSE /\ bad' = {}
    /\ UNCHANGED <<clients, client, ring, evict, chunk, fileVars, connVars, inq, out,
                   childVars, avail, ptyIn, total, served, ghosts>>

\* One write of the chunk.  An error or a partial write condemns the client,
\* EAGAIN does not.
Data(n) == [k \in 1 .. n |-> total - chunk + k]
WriteChunk ==
    /\ pc = "write" /\ idx <= Len(clients)
    /\ idx' = idx + 1
    /\ LET c == Current
       IN  CASE c \notin ready.wr -> UNCHANGED <<written, bad, out, ghosts>>
             [] c \in ready.wr /\ peer[c] = "none" ->
                  /\ bad' = bad \union {c}
                  /\ UNCHANGED <<written, out, ghosts>>
             [] OTHER ->
                  \E n \in Taken(c, chunk) :
                    /\ written' = (written \/ n = chunk)
                    /\ bad' = IF n \in 1 .. chunk - 1 THEN bad \union {c} ELSE bad
                    /\ out' = [out EXCEPT ![c] = @ + n]
                    /\ Delivered(c, stream[c], next[c], Data(n))
    /\ UNCHANGED <<pc, ready, clients, client, ring, evict, chunk, fileVars, connVars, inq,
                   childVars, avail, ptyIn, total, served>>

\* Mutant of Forwarded: that nobody is attached any more is not looked at.
ForwardedOrCalled == written \/ ready.listener

\* The condemned are closed and removed; send_to_clients returns once someone got
\* the whole chunk, a connection is waiting or nobody is attached any more.
Forwarded == written \/ ready.listener \/ AttachedOnes \subseteq bad
EndWrites ==
    /\ pc = "write" /\ idx > Len(clients)
    /\ CloseAndRemove(bad)
    /\ idx' = 1 /\ ready' = NoneReady /\ bad' = {} /\ written' = FALSE
    /\ IF Forwarded THEN pc' = "build" /\ chunk' = 0
                    ELSE pc' = "forward" /\ UNCHANGED chunk
    /\ UNCHANGED <<ring, evict, fileVars, backlog, peer, out, childVars, avail, ptyIn,
                   total, served, ghosts>>

(***************************************************************************)
(* The daemon                                                              *)
(***************************************************************************)

HandlePacket == \/ SkipClient \/ ReadEof
                \/ HandlePush \/ HandleAttach \/ HandleDetach \/ HandleForceDetach
                \/ HandleInfo \/ HandleWinch \/ HandleRedraw \/ HandleKill

DaemonStep == \/ BuildFdSets \/ Select \/ AcceptClient
              \/ HandlePacket \/ EndPackets
              \/ EvictAttached \/ DrainReplay \/ EndDrain
              \/ (\E n \in 1 .. BufSize : ReadOutput(n)) \/ EndOutput \/ Reap
              \/ InnerSelect \/ WriteChunk \/ EndWrites
=============================================================================
