# A verification of zatch

TLA+ models of `zatch` (the sources are under `src/src/`), TLC runs that check them on
small instances, and proofs, checked by TLAPS, of what holds for every instance.
`PROJECT.json` lists the runs, the source lines every definition stands for, the
findings, the hazards and the theorems.

## 1. The system

A *session* is a child process on a pseudo-terminal and a *daemon* that owns the
terminal's other end. Clients connect to the daemon's Unix socket; what the child
writes goes to every attached client, to a ring buffer and to a log file, and what
clients type goes to the child. Everything is a process; they share a socket, a
terminal and files, and no memory.

| part | source | state | operations | hard parts |
|---|---|---|---|---|
| session daemon | `session_daemon.rs`, `client.rs`, `pty.rs` | client vector, `attached`, `replay_head`, `replay_remaining`, `evict_attached`, ring, log | one pass of `run`: `select`, accept, one packet per readable client, forced detach, replays, terminal output, forwarding | clients and child act between any two system calls; writes that are partial or would block; removal from the vector while looping over it; blocking inside the pass |
| scrollback | `scrollback.rs` | `buf`, `head`, `len`; a replay's `head`, `remaining` | `append`, `drain` | wrap-around; the ring moves under a replay |
| wire protocol | `protocol.rs` | none | `read_from`, `write_to`, `write_buf` | partial reads on a non-blocking socket |
| attached client | `session.rs` (`attach`, `event_loop`) | terminal mode and `TERM_BACKED_UP`, `SHOULD_DIE`, `WIN_CHANGED` | Attach, Redraw, input, window size, suspend and resume, detach key, signal handlers, restoring the terminal | signals between check and `select`, or while stopped or blocked; reads and writes on one connection from one thread |
| control clients | `session.rs` (`push`, `kill`, `cmd_detach`, `cmd_info`) | none | one connection, one packet (push: many) | escalation after a timeout |
| socket lifecycle | `sock.rs`, `session_daemon_main`, `rm`, `list` | the socket file, who listens on it | bind, probe, remove, unlink at the end | check and removal by path, by several processes |
| session log | `session_log.rs`, `cmd_clear` and `cmd_tail` (`main.rs`), `find_tail_start` (`util.rs`), `replay_log` (`session.rs`) | the file, the writer's offset, each reader's offset | open and prune, write, end marker, truncate, tail and follow, replay before an attach | truncation under an open offset; a daemon killed while it prunes; reading what is being written |
| application log | `app_log.rs` | the file | append, trim | every process does both, and nothing keeps them apart |
| command line, paths | `main.rs`, `util.rs` | none | parsing, formatting | |

What makes each part correct:

- *daemon*: the client vector and the open descriptors agree; every readable client
  is served once a pass; output reaches whoever is attached once and in order; nobody
  is dropped without cause or kept waiting for ever; the session ends when the child
  does, not before, with all output logged;
- *scrollback*: it holds the last bytes of the output; a replay sends what it was
  started to send;
- *attached client*: whoever gets the terminal from it finds the mode it had; it is
  attached, for the daemon, exactly while it reads; the size the session is told is in
  the end the window's; a signal that is to end it does;
- *socket lifecycle*: at most one daemon per name, and nobody removes another's socket;
- *session log*: a piece of the output that ends with the last byte written, pruned from
  the front only; a reader sees no byte twice and none out of order;
- *application log*: it stays near its limit however the trims run into each other.

## 2. Modules

| module | models | kind |
|---|---|---|
| `Scrollback` | the ring of `scrollback.rs` and the cursor of `ReplayState` | operators |
| `SessionName` | what the name of a session promises: one has it at a time and alone answers | abstract specification |
| `ScrollbackReplay` | output appended while one replay is drained | specification |
| `SessionDaemon` | `SessionDaemon` and the kernel's side of its descriptors | actions of the daemon |
| `Session` | the daemon composed with client processes and the child | specification |
| `SocketLifecycle` | starts, ends, `rm` and `kill` of the sessions of one name, and the files they share by path | specification, refines `SessionName` |
| `AttachClient` | one attached client: its loop, signals, terminal, user, and the daemon as it sees it | specification |
| `SessionLog` | the log file under daemons, `clear`, `tail` and a client that attaches | specification |
| `AppLog` | the application log under processes that append and trim | specification |
| `MCScrollbackReplay`, `MCSession`, `MCSocketLifecycle`, `MCAttachClient`, `MCSessionLog`, `MCAppLog` | instances for TLC | |
| `Scrollback_proof`, `ScrollbackReplay_proof`, `Session_proof`, `SessionStream_proof`, `SocketLifecycle_proof`, `AttachClient_proof`, `SessionLog_proof`, `AppLog_proof` | theorems and proofs | |

`Session` EXTENDS `SessionDaemon`, which EXTENDS `Scrollback`; `ScrollbackReplay`
EXTENDS `Scrollback` as well, so the theorems about the ring are used by both.

**How the daemon's code became actions.** The daemon is one thread; a system call is
where another process can come between. An action is therefore a handler, or the part
of the loop between two calls where the others may act: `BuildFdSets`, `Select`,
`AcceptClient`, one action for each packet type (with the read of the packet and what
the loop over the clients does after it), `EvictAttached`, `DrainReplay` for each
client, `ReadOutput`, and the loop of `send_to_clients` as `InnerSelect`, one
`WriteChunk` for each client, `EndWrites`. `pc` is the place in the pass and `idx` the
loop variable. `DrainTo` is `ReplayState::drain`: its loop of writes ends when nothing
remains or the connection is full, so its effect is one number of bytes.

**Data.** A connection is its descriptor (a member of `Conns`), and a byte of output is its
position in the output, so that *what* a client was sent can be compared with what was
produced. The ghosts `next` and `stream` record, for each client, the position that must come
next and a verdict over what it was sent since its last Attach: `whole`, `gap`, `mixed`
(repeated or out of order), or `lapped` (output has overwritten what its replay was to send
next; `SoFar`), after which nothing more is said of it. `served` lists the clients read in the
current pass. The data a Push or Winch carries is left out.

**The kernel** is modelled by what the code relies on. A connection towards a client
holds `SockCap` bytes and is reported writable from `LowWater` free bytes on; a write
takes all if it fits and otherwise some. The terminal holds `PtyCap` packets of input.
A closed peer is readable and writable. A descriptor in the sets that is not open makes
`select` fail, which ends `run`. Freed descriptors are used again. When the process
exits all of them are closed, and clients can still read what was sent.

**Clients** (`Session`) send what `attach`, `event_loop`, `push`, `kill`, `cmd_detach`
and `cmd_info` send, in the order they send it, restricted in each run to the packets
in `Traffic`; they block when their queue (`QueueCap`) is full, do not receive while
blocked or suspended, and may vanish at any time. The log a client shows before it
attaches is in `SessionLog`; here `Attach` chooses its `len` freely. What happens inside
a client between two packets is in `AttachClient`; here it is one step.

**The child** writes, reads, closes its terminal while it lives on, exits, and handles
or dies of signals, at any time.

**Socket and log files** (`SocketLifecycle`). The other model is about one session from
the moment its daemon runs; this one is about which files exist while sessions of one
name come and go. There is one name, since the paths of different names are unrelated.
Every system call on a path is a step: the probe of `listen_unix`, its removal, bind,
listen, the change of mode; likewise for `rm`, `kill` and the end of a daemon. `sockFile`
and `logFile` hold the incarnation that made the file, which the code cannot see, so that
a file can be told from a later one at the same path; `daemon` is the place of each
incarnation and `cmd` of each command. `Connected`, `Refused` and `Absent` are what
`connect` answers: a socket refuses when nobody has it open *or* when it is bound and not
yet listened on. A daemon may crash and a command be interrupted at every step. The
daemon's life between its start and the closing of its terminal is one state, `running`,
for what happens there is in `Session`.

**The attached client** (`AttachClient`). `pc` is the place in `attach`, `event_loop` and
the handler it is in; a signal handler may run between any two places, which are cut
where it makes a difference: between the check of `SHOULD_DIE` and `select` (the place
`fdset`, left by `EnterSelect`), between the clearing of `WIN_CHANGED` and the reading of the
size, between each of the steps of a suspension. `signal` restarts calls that block, so a
signal that comes in `select` ends it (`Interrupted`) and one in a write leaves it waiting;
one at `fdset` interrupts nothing, and the client then waits in `select` with `SHOULD_DIE` or
`WIN_CHANGED` set. The signals are those the client has handlers for, and the stop it sends
itself: a SIGTSTP, SIGSTOP or SIGKILL from outside leaves a terminal raw as in any program
and is not modelled. A write is `Write`, which fixes the packet, and `Send`, which
waits until the connection has room; `sending` holds where the client goes on, `then`, and
where if the write fails. A stopped process gets its signals when it continues
(`pending`), and a change of the window's size during the stop is signalled to the shell
in the foreground and perhaps not to the client at all. `SIGTSTP` is ignored in an
orphaned process group, so `Stop` may go straight on. The keys typed are told apart by
what the code does with them; it looks at the first key of a read only (`FirstKey`).
`attached` and `told` are what the daemon believes after the packets it has read.

**The session log** (`SessionLog`). A byte of the log is its position in all that was ever
written to it, so that the content says what was lost, repeated or moved; bytes that a
write beyond the end of the file leaves open are `Hole`, which terminals ignore. Every
system call on the file is a step of `rotate`: the size, the read of the tail, the
truncation, the write; a daemon may be killed between them, and `Clear` may come there.
Its socket answers before that, from `Listen` on, so a client may connect and show the log
while the daemon it will be attached to still trims it; its Attach waits until the daemon
runs (`HandleAttach`). A client that finds no log attaches with the ring, which is in
`Session`.
The end marker is one byte of output. One reading process is at a time a `tail`, with or
without `-f`, or a client that shows the log, sends Attach and is attached. Its loop
reads `BufSize` bytes a step; `TailScan` is one chunk of `find_tail_start`, whose loop
over the bytes from the end is the choice of the newline that is one more than those
asked for. inotify keeps that something happened (`event`), and waiting without it is a
sleep. `last` and `repeated` are ghosts of what was shown, and `measured` is the size tail
saw, as long as the file has not shrunk since.

**The application log** (`AppLog`). A byte is the number of the line it belongs to, in the
order of the appends. `Record` is the append (`O_APPEND` puts it at the end whatever
others do), and the four calls of `rotate_file` are a step each. A process may be killed
at any step. All lines have the same length.

## 3. Runs

The bounds of a run are the constants in its `.cfg`.

| run | instance | shows |
|---|---|---|
| `replay` | ring of 4 cells, reads of 1..5 bytes, 11 bytes of output | `TypeOK`, `RingIsWindow`, `PendingIntact`, `WithinSnapshot`, `ReplayInOrder`. The output wraps the ring nearly three times, a read can be larger than the ring, and every alignment of head and replay occurs |
| `prompt` | 2 clients, ring of 2, 3 bytes of output, connections that take whatever is written | `TypeOK`, `FdTable`, `ServedOnce`, `CaughtUp`, with attaching, leaving and forced detach in every interleaving |
| `slow` | 2 clients, ring of 3, connections of 2 bytes reported writable when empty, 5 bytes of output | `NeverMixed`, `OnlyDeadCondemned`: replays are cut in pieces, go round the end of the ring and are lapped; a chunk (at most 2 bytes) fits where writability is reported, as on Linux, where it needs a large part of the buffer to be free and a chunk is 4096 bytes |
| `control` | 1 connection used by one process after another, all packet types | `SessionEnd`, with every signal, a blocked or suspended client and a child that closes the terminal |
| `live` | 2 clients under fairness, ring of 2, connections of 1 byte | `ReplayEnds`, `PacketsRead`, `SessionEnds` |
| `names` | one command process, three incarnations | `TypeOK`, `Named`, `LogKept`, `StoppedIsDead`, and `KeepsPromise`, which is the refinement of `SessionName`: commands one after another, each of which may be interrupted half-way, against daemons that start, fail to, end and crash in between |
| `client` | connection of 2 packets, 2 keys, 2 changes of size | `TypeOK`, `TerminalRestored`, `AttachedWhileReading`, `SizeNotForgotten`, `DieEnds`, `SizeReaches`: every signal the client handles, at every step, also just before `select`; every key, suspension, a daemon that closes or resets the connection, a terminal that hangs up |
| `log` | 3 daemons, log of 3 bytes, reads of 2, 7 bytes of output with lines of two, one and no bytes, `tail -n 1` and `-n 2` | `TypeOK`, `LogHoldsOutput`, `LogBounded`, `ShownOnce`, `PrintsLastLines`, `FollowerCatchesUp`, with a kill or a `clear` between any two steps |
| `applog` | 3 processes, log of 4 lines and a half, 9 lines recorded, one process killed | `TypeOK`, `AppLogBounded`, `QuietLogIsTail` |

The properties of `names` hold of commands that do not overlap; with two at a time `Named`
and `LogKept` fail, by the race of `names_race` or by an `rm` whose probe precedes a start.
Three incarnations are one that leaves files behind, one that uses them, and one after
that.

Two clients are enough for what one client does to another (swap_remove, one fails and another
takes the chunk); a third adds only another of the same. A ring of 2 to 4 cells is filled,
wrapped and replayed in two pieces by 2 to 5 bytes of output. `MaxOut` bounds the output of a
behaviour, `QueueCap` the packets in a queue and `Daemons` the starts of a session. In `client`
two changes of size are needed for one to come while the other is being reported, and two
packets fill a connection. In `log` three daemons are one that writes, one that trims what it
wrote, perhaps only half-way, and one after that; seven bytes are twice what a log may keep,
and one more. In `applog` two processes are enough for a trim to run into another, the third
comes in between; nine lines are twice its limit. `CHECK_DEADLOCK FALSE` stands where the
bounded output really comes to an end, in the runs of `ScrollbackReplay`, `SessionLog` and
`AppLog`; in `Session` the daemon may wait in `select` for ever only while others can still
act, and a session that has ended stutters (`Ended`).

The other runs each check one sentence of the code's own documentation that the code
does not keep; TLC finds the behaviour.

| run | claim | what happens |
|---|---|---|
| `forced` | `session.rs:510` detach all clients | a client whose replay is pending is not `attached` and survives; the replay then attaches it. A Detach of its own is undone in the same way |
| `handoff` | `session_daemon.rs:481` a client that sends `len != 0` was attached already | every first Attach after a replay of the log has `len` 1: what is written between the client's last read of the log and the daemon's handling of the packet is shown to it by nobody |
| `names_race` | `sock.rs:51` a refusing socket is orphaned | a socket that another start has bound and not yet listened on refuses too, and so does the stale one two starts have both probed: one removes the socket of the other, which then runs without a name |

More behaviours of the code are part of the models without a run of their own; each is why
a property says less than one would like.

- A replay that the output laps sends newer bytes in the place of those it was to send,
  hence `~Lapped` in `PendingIntact` and `ReplayInOrder` and the verdict `lapped` of `Session`.
- `send_to_clients` returns when one client has taken the chunk: an attached client that
  was full misses it and stays. And output read during a replay goes only to clients
  already attached; the one being replayed to is attached afterwards without it
  (`client.rs:12` calls it "fully caught up"). Hence `CaughtUp` is promised only on
  connections that take whatever is written.
- Attach during a pending replay, then Detach and Attach: `handle_attach` starts a replay
  for a client that is attached, and the two streams mix, which the comment at
  `session_daemon.rs:497` is there to prevent. Hence `NeverMixed` has clients that do not
  resume.
- The inner loop of `send_to_clients` reads no packets, so a Detach in the queue of a
  suspended client is not seen and the daemon waits, and with it everything else, although
  `session_daemon.rs:650` says that all clients detaching aborts it. Hence `live` leaves
  out suspension.
- Once the child has closed its terminal the daemon is in `waitpid` and reads no packet, a
  forced Kill (`session.rs:384`) included. Hence the exception for a child that has hung up
  in `PacketsRead` and `ReplayEnds`.
- SIGWINCH that ends `select` makes `event_loop` go back to `select` before it looks at
  `WIN_CHANGED`, and a SIGTERM between the check of `SHOULD_DIE` and `select` interrupts
  nothing, so that the client waits in `select` though it has been told to end: both wait for
  the next input or output. Hence `SizeReaches` and `DieEnds` are promised where the session
  goes on writing (`KeepsWriting`), and `DieEnds` where a stopped client is continued
  (`Continues`); without either TLC refutes them, `DieEnds` by a signal at `fdset`.
- A detach key that is not the first byte of a read goes to the program, with what was
  typed before it in the same 8 bytes.
- `src/README.md:81` says of tail "Print last N lines of log". `find_tail_start` goes back to
  one newline more than those asked for (`util.rs:184`), which is right where the log ends with
  one; where it ends with a piece of a line, such as the prompt of a shell that is waiting,
  that piece is a line without a newline, and `tail -n 1` prints the line before it as well.
  Hence `EndsLine` in `PrintsLastLines`; without it TLC refutes the property. The comment of
  the function (`util.rs:162-164`, "just after the `nlines`-th newline") counts one newline less
  than the code and than its own test (`util.rs:323-330`).
- `src/README.md:232` draws the log as "(rolling, max 1 MB)". It is trimmed when it is opened
  only, and a session that runs on outgrows the limit by all it writes. `LogBounded` is what
  `session_log.rs:3-5` says of it: pruned on construction, no rotation afterwards.
- When a trim of the application log runs into another process, lines are lost, recent
  ones included; hence `~overlapped` in `QuietLogIsTail`.

**Fairness.** `WF(DaemonStep)`: the daemon is a process that runs. `WF(Receive(c))`:
a client in its event loop reads what is there; this assumes its own terminal takes the
output. `WF` of the child's death by a pending SIGKILL, which no process can refuse. Of
the child and of what users do nothing is assumed: a child need not write, read or exit,
a client need not send or leave. `live` leaves out suspension and input: a suspended
client with a full connection stops the daemon, and so does a client that
blocks writing input while the daemon blocks writing output to it.

In `client`, `WF(ClientStep)`: the client is a process that runs when it can; a `select` with
nothing to report and a write without room are not enabled, and a stopped client is continued
by its user or not at all. `WF(ServerReads)`: the daemon reads the packets of its clients,
which is `PacketsRead` of `live`. That the session goes on writing is the hypothesis
`KeepsWriting` of the two liveness properties and no fairness of the specification, since no
child need write; it is the weak fairness of `ServerWrites`, so a client that the daemon cannot
write to, detached or cut off, is not excused by it but has to end all the same. That a stopped
client is continued is the hypothesis `Continues`. In `log`, `WF(ReaderStep)`: the command is a
process that runs, and a poll's sleep ends.

## 4. Proofs

`Scrollback_proof` proves of the ring's operators, for every capacity, that appending
leaves the last bytes of old content and data (`AppendContent`). The code masks with
`SCROLLBACK_SIZE - 1`, which is the remainder because the capacity is a power of two;
the model writes the remainder, and the proofs need only that the capacity is positive.
The argument follows the byte: `WrapArithmetic` finds, for the k-th oldest byte of the
new ring, its place in the old content followed by the data, and shows that its cell was
written by the copy or not touched.

`ScrollbackReplay_proof` proves `TypeOK`, `RingIsWindow`, `WithinSnapshot`,
`PendingIntact` and `ReplayInOrder` from one inductive invariant `IInv`. `PendingIntact` is
not inductive: it says nothing of where the replay stands.
`Aligned` adds that the replay's head is where the ring keeps the position `next`, which
both append and drain preserve modulo the capacity; with `RingIsWindow` it gives the
bytes.

`Session_proof` proves of the whole session, for any number of connections and every
capacity: `TypeOK` (`Types`), `FdTable` (`TableAgrees`), `ServedOnce`
(`EveryReadableOnce`), `SessionEnd` (`EndsComplete`) and, where `BufSize <= LowWater`,
`OnlyDeadCondemned` (`OnlyDeadDropped`). The lemmas of its first part say what
`swap_remove`, `retain`, accept and connect do to a sequence of distinct descriptors.
The inductive invariant `IInv` adds to `TypeOK` and `FdTable`

- `Pass`: in the packet loop a readable client has been served exactly if it is not at a
  position the loop has still to come to (`Ahead`). `ServedOnce` alone does not say
  which clients are still to be met, and a client that `swap_remove` moves to the place
  of the one dropped is the case it would lose. It also says that accept is only
  called with a connection waiting;
- `Condemned`: only open clients are condemned, and only in `send_to_clients`; without it
  closing the condemned could close a descriptor that is in use again;
- `Ending`: the daemon reaps only with the output read, and what was read is logged;
- `Recent`: the ring holds as many bytes as were produced or fit, so that a replay starts
  at a position that exists (with `AppendContent` from `Scrollback_proof`).

Each action has a lemma or a case that shows the parts it disturbs; `Kept` carries the
parts whose variables it leaves alone. `OnlyDeadDropped` needs one thing more, `Room`:
between `select` and its turn in the loop a client that was reported writable keeps the
room, whatever the other processes do in between, because only the daemon fills it.

`SessionStream_proof` proves, for any number of connections, what the clients are sent:
`NeverMixed` (`SentInOrder`), where no client detaches to be continued (`Unsuspended`),
however little the connections take and however often the output wraps the ring; and
`CaughtUp` (`NobodyBehind`), where the connections also take all the output and are
reported writable whatever part of it is on them (`Ample`). The runs `slow` and `prompt`
are instances of them. Section 3 tells what the code does otherwise: a replay that is
lapped or mixed with live output, and a client that is slow and stays behind. Both rest
on the following, over `IInv`:

- `Fresh`: an Attach is the first packet of its connection, so that the daemon starts a
  replay for a client it has sent nothing; it is what rules out a second replay in the
  middle of the first;
- `Quiet` and `Held`: there is a chunk only from the read of the terminal to the end of
  `send_to_clients`, and the ring holds the last bytes of the output, so that a byte that
  is still there is in one cell, `CellOf`, whatever was appended since (`CellKept`), and
  the bytes behind it in the cells that follow modulo the capacity (`CellNext`);
- `Replaying` and `Due` (in `SInv`, both up to the verdict `lapped`): a replay has yet to
  send what follows the last byte it sent, and its head is the cell of that byte as long
  as the ring has it (`InRing`, which is what `SoFar` asks before each write); what an
  attached client is due begins no later than the chunk. A pass is
  repeated only if it wrote the chunk to nobody, and a client that took a part of it is
  condemned in the same pass, so nobody is handed a chunk again after a part of it;
- `Level` (in `CInv`): with room, no replay is left over and an attached client lacks the
  chunk exactly while its turn in the pass is still to come. `Empty` says that nothing is
  on the way to a client whose Attach is unread, so the whole history fits, and `Everyone`
  that a pass is for all who are attached, so that it is the only one for its chunk.

`SocketLifecycle_proof` proves `TypeOK`, `Named` (`KeepsItsName`), `LogKept`
(`KeepsItsLog`) and `StoppedIsDead` (`ReportsTheDead`) for any number of incarnations,
from `Serial`: there is one command process, which is to say one command after another.
`Named` is not inductive: it needs that what a command is about to remove was found dead
by a probe and that nothing has started since (`Quiet`), that the socket a starting
command holds is the one at the path (`Prepared`), and that the socket at the path of a
session that runs is listened on (`Reachable`), without which a probe could take it for
stale. Two sessions never live at once, since both would own the one path (`OneLives`).
`ImplementsName` is the refinement of `SessionName` (`KeepsPromise`), step by step: bind is
`Take`, listen is `Open`, the removal of the socket by its daemon, a crash, a start that
fails or is interrupted are `End`, `kill` that finds the socket gone is `Report`, and
everything else is a stutter, or `Close` where the command that started a session still
had its listener open when the session was over. `HolderAnswers` says whom a connection
reaches in every state in which somebody has the name; where nobody has it, no step
makes anybody answer (`Fades`).

`AttachClient_proof` proves `TypeOK`, `TerminalRestored` (`RestoresTerminal`),
`AttachedWhileReading` (`AttachedAsItReads`) and `SizeNotForgotten` (`SizeKept`) for any
number of keys, resizes and stops and any queue. What has to be added is where a signal or
a failed write can take the client from:

- `Flow`: what is being written decides where the client goes on, and where if the write
  fails, so that `Send` has seven cases;
- `Modes`: from `raw_terminal` on the terminal can be restored at any step, which is what
  `handle_die` relies on, and it is in its own mode wherever it is the shell's;
- `Told`: what the daemon *will* believe once it has read what is queued, written without
  recursion: the last Attach or Detach in the queue decides (`IsAfter`). `Attach`, `Detach`
  and the handler of a stop each change it at the write, not at the daemon's read;
- `Stale`: a size that is written although the window has another by now leaves
  `WIN_CHANGED` set.

`SessionLog_proof` proves `TypeOK`, `LogHoldsOutput` (`HoldsOutput`), `LogBounded` (`Bounded`)
and `ShownOnce` (`OnceShown`) for every size of the log, of a read and of the output and any
number of daemons. `Piece(s, t)` is the notion everything rests on: `s` is bytes that end with
the t-th written, with holes in front only. Writing at the daemon's offset keeps it, also
beyond the end of an emptied file (`Grown`), and so do the read of the tail (`KeptEnd`) and its
write (`Restored`). `Pieces` says what the daemon knows at each step of the trimming, where a
`clear` may come at any of them: the file is empty or as it was when it was measured. `Shown`
gives a bound on what was shown in terms of the reader's offset, for the file as it is and as
the daemon is about to make it (`Behind`): the log may shrink and grow under the reader, and
its offset then means a later byte, never an earlier one. `PrintsLastLines`
(`LastLinesPrinted`) needs `Counted` besides: while the log has not shrunk, the scan's count is
the number of newlines from its place to the end tail saw. A chunk adds those it holds,
wherever it ends (`Halves`); what the daemon writes is behind that end; and the newline the
scan stops at has exactly as many behind it as were asked for (`StopsExactly`), which are as
many lines if the log ended with a newline (`LastOnes`).

`AppLog_proof` proves `TypeOK` and `AppLogBounded` (`Bounded`) for any finite set of
processes. `AppLogBounded` is not inductive: a process that finds nothing at its offset
gives up, and the file may then be as long as the offset. `Tails` adds that no offset and
no tail exceeds the limit, which holds because the limit has room for a line of every
process (`AppLogAssumption`). `QuietLogIsTail` (`QuietKeepsTail`) has an invariant of its
own, `Undisturbed`: as long as no trim has run into another process and nobody was killed,
the file is the end of what was recorded (`Ends`) at every step but between the truncation and the
write; a trim that has measured knows where the tail begins, one that has read has it, and
while one has emptied the file no other trims. An append that comes into another's trim
sets `overlapped`, and one that does not keeps all three.

Assumed are only the named assumptions on constants (capacities positive, bytes are positions,
the application log holds a line of every process) and, in the theorems that say so, `BufSize
<= LowWater`, `Unsuspended`, `Ample` and `Serial`. Only checked by TLC: what is about liveness
(`ReplayEnds`, `PacketsRead`, `SessionEnds`, `DieEnds`, `SizeReaches`, `FollowerCatchesUp`),
since fairness and ENABLED are out of the prover's reach, and the three sentences the code does
not keep, which TLC refutes. No definition is RECURSIVE, and nothing is proved by induction
over data.

## 5. Not modelled, and the plan

Not modelled: partial reads of a packet (a packet is read whole), listing (which only
reads), sessions nested in one another, the mode bits and ownership of files, and
the parsing and formatting in `main.rs` and `util.rs`, which keep no state. The client of
`AttachClient` and the daemon of `Session` are composed only through what they send each
other, not in one specification: the product of the two is out of TLC's reach at sizes at
which the interesting cases of either happen. What `Session` assumes of a client (the order
of its packets, and that it is attached while it reads) is what `AttachClient` shows.

What could come next:

1. `Framing`: `read_from` and `write_to` byte by byte on a non-blocking socket, refining the
   whole packets of `Session`; `write_to` sends a packet in one write of 10 bytes, so only a
   writer other than this program could split one.
2. `DuplexFlow`: when daemon and client may block on each other, each writing while the
   other does not read (`session.rs:1213`).
3. Attaching from inside a session: the chain of session names in the environment that
   `try_connect` looks at.
4. Clients that detach and come back in `SentInOrder`: what can be said of their streams
   although a second replay may mix with the first.
