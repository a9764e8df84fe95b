---------------------------- MODULE SessionLog ----------------------------
(***************************************************************************)
(* The log file of a session: the daemons that write it one after another  *)
(* (session_log.rs), clear and tail (main.rs, util.rs), and the client     *)
(* that shows it before it attaches (session.rs).  A byte is its position  *)
(* in all that was ever written to the log; what a write beyond the end of *)
(* the file leaves open reads as a Hole.                                   *)
(***************************************************************************)
EXTENDS Integers, Sequences, FiniteSets

CONSTANTS MaxSize,    \* log_max_size
          BufSize,    \* BUFSIZE
          Newlines,   \* the positions that hold a newline
          MaxOut,     \* bound: bytes written
          Starts,     \* bound: daemons started
          MaxLines    \* bound: the -n of tail

ASSUME LogAssumption == /\ {MaxSize, BufSize, MaxLines} \subseteq Nat \ {0}
                        /\ {MaxOut, Starts} \subseteq Nat
                        /\ Newlines \subseteq Nat \ {0}

Hole == 0

VARIABLES
    file,                     \* the content of the log
    daemon, at, kept,         \* the daemon: its place, its offset, what it keeps
    total, began, starts,     \* bytes written in all, before this daemon; daemons
    reader, joined,           \* the reading command; the daemon it connected to
    pos, lines, scan, count,  \* its offset; tail's -n and its search for the start
    notify, event,            \* inotify in use, an event waiting
    last, repeated, measured  \* ghosts: last byte shown, one shown twice; the size
                              \* tail saw, -1 when the file shrank after that

daemonVars == <<daemon, at, kept, total, began, starts>>
tailVars   == <<lines, scan, count, measured>>
readerVars == <<reader, joined, pos, tailVars, notify>>
shownVars  == <<last, repeated>>
vars == <<file, daemonVars, readerVars, event, shownVars>>

Smaller(a, b) == IF a < b THEN a ELSE b
Larger(a, b) == IF a < b THEN b ELSE a

Init ==
    /\ file = << >> /\ daemon = "off" /\ at = 0 /\ kept = << >>
    /\ total = 0 /\ began = 0 /\ starts = 0
    /\ reader = "idle" /\ joined = 0 /\ pos = 0 /\ lines = 0 /\ scan = 0 /\ count = 0
    /\ notify = FALSE /\ event = FALSE
    /\ last = 0 /\ repeated = FALSE /\ measured = 0

(***************************************************************************)
(* The file                                                                *)
(***************************************************************************)

\* Bytes written at an offset, beyond the end as well.
Written(f, offset, data) ==
    [i \in 1 .. Larger(Len(f), offset + Len(data)) |->
        IF i \in offset + 1 .. offset + Len(data) THEN data[i - offset]
        ELSE IF i <= Len(f) THEN f[i] ELSE Hole]

\* What a read of up to n bytes at an offset returns.
ReadAt(f, offset, n) == SubSeq(f, offset + 1, Smaller(offset + n, Len(f)))

\* A change of the file is an event for whoever watches it.
Modified == event' = (event \/ notify)
Shrunk == measured' = IF reader = "scan" THEN -1 ELSE measured

(***************************************************************************)
(* The daemon                                                              *)
(***************************************************************************)

DaemonAt(place) == daemon' = place /\ UNCHANGED <<total, began, starts>>

\* listen_unix, before the fork: the socket answers from here on.
Listen ==
    /\ daemon = "off" /\ starts < Starts
    /\ daemon' = "listening" /\ starts' = starts + 1 /\ began' = total
    /\ UNCHANGED <<file, at, kept, total, readerVars, event, shownVars>>

\* SessionLog::open and rotate: the file is trimmed to its last MaxSize bytes.
Open ==
    /\ daemon = "listening" /\ DaemonAt("measure")
    /\ UNCHANGED <<file, at, kept, readerVars, event, shownVars>>

\* Mutant of Measure: the size is not looked at.
MeasureNot ==
    /\ daemon = "measure" /\ DaemonAt("trim") /\ at' = Len(file) - MaxSize
    /\ UNCHANGED <<file, kept, readerVars, event, shownVars>>

Measure ==
    /\ daemon = "measure"
    /\ DaemonAt(IF Len(file) <= MaxSize THEN "running" ELSE "trim")
    /\ at' = IF Len(file) <= MaxSize THEN Len(file) ELSE Len(file) - MaxSize
    /\ UNCHANGED <<file, kept, readerVars, event, shownVars>>

\* A file that clear has emptied meanwhile is left alone.
ReadKept ==
    /\ daemon = "trim"
    /\ LET rest == ReadAt(file, at, MaxSize)
       IN  /\ kept' = rest
           /\ IF rest = << >> THEN DaemonAt("running") /\ at' = Len(file)
                              ELSE DaemonAt("truncate") /\ at' = 0
    /\ UNCHANGED <<file, readerVars, event, shownVars>>

\* Mutant of Truncate: the file keeps its length.
TruncateNot ==
    /\ daemon = "truncate" /\ DaemonAt("rewrite") /\ Modified
    /\ UNCHANGED <<file, at, kept, readerVars, shownVars>>

Truncate ==
    /\ daemon = "truncate" /\ DaemonAt("rewrite")
    /\ file' = << >> /\ Modified /\ Shrunk
    /\ UNCHANGED <<at, kept, reader, joined, pos, lines, scan, count, notify, shownVars>>

\* Mutant of Rewrite: the offset is not moved to the end.
RewriteAndStay ==
    /\ daemon = "rewrite" /\ DaemonAt("running")
    /\ file' = Written(file, at, kept) /\ at' = 0 /\ kept' = << >> /\ Modified
    /\ UNCHANGED <<readerVars, shownVars>>

Rewrite ==
    /\ daemon = "rewrite" /\ DaemonAt("running")
    /\ file' = Written(file, at, kept) /\ at' = Len(file') /\ kept' = << >> /\ Modified
    /\ UNCHANGED <<readerVars, shownVars>>

(***************************************************************************)
(* What a reader shows                                                     *)
(***************************************************************************)

\* The terminal gets these cells: the last byte among them, and whether one was
\* shown before.
Bytes(cells) == {i \in 1 .. Len(cells) : cells[i] # Hole}
Shows(cells) ==
    /\ last' = IF Bytes(cells) = {} THEN last
               ELSE cells[CHOOSE i \in Bytes(cells) : \A j \in Bytes(cells) : j <= i]
    /\ repeated' = \/ repeated
                   \/ \E i \in Bytes(cells) : \/ cells[i] <= last
                                              \/ \E j \in Bytes(cells) : j < i /\ cells[i] <= cells[j]

(***************************************************************************)
(* Output                                                                  *)
(***************************************************************************)

\* SessionLog::write, with the forwarding to a client that is attached.
Output(n) ==
    /\ daemon = "running" /\ total + n <= MaxOut
    /\ LET data == [k \in 1 .. n |-> total + k]
       IN  /\ file' = Written(file, at, data)
           /\ IF reader = "attached" THEN Shows(data) ELSE UNCHANGED shownVars
    /\ at' = at + n /\ total' = total + n /\ Modified
    /\ UNCHANGED <<daemon, kept, began, starts, readerVars>>

\* The end of the session: SessionLog::close writes the marker (one byte here); its
\* clients are gone with it.  A daemon may also be killed, at any step.
Ends == /\ daemon' = "off" /\ at' = 0 /\ kept' = << >>
        /\ reader' = IF reader = "attached" THEN "idle" ELSE reader
        /\ UNCHANGED <<began, starts, joined, pos, tailVars, notify, shownVars>>
Close ==
    /\ daemon = "running" /\ total < MaxOut
    /\ file' = Written(file, at, <<total + 1>>) /\ total' = total + 1 /\ Modified
    /\ Ends
Crash ==
    /\ daemon # "off" /\ Ends
    /\ UNCHANGED <<file, total, event>>

\* cmd_clear.
Clear ==
    /\ file # << >> /\ file' = << >> /\ Modified /\ Shrunk
    /\ UNCHANGED <<daemonVars, reader, joined, pos, lines, scan, count, notify, shownVars>>

(***************************************************************************)
(* tail                                                                    *)
(***************************************************************************)

ReaderAt(place) == reader' = place /\ UNCHANGED <<joined, notify>>

StartTail(n) ==
    /\ reader = "idle" /\ starts > 0
    /\ ReaderAt("size") /\ lines' = n /\ pos' = 0 /\ last' = 0
    /\ UNCHANGED <<file, daemonVars, scan, count, measured, event, repeated>>

TailSize ==
    /\ reader = "size"
    /\ ReaderAt(IF file = << >> THEN "print" ELSE "scan")
    /\ scan' = Len(file) /\ count' = 0 /\ measured' = Len(file)
    /\ UNCHANGED <<file, daemonVars, pos, lines, event, shownVars>>

\* find_tail_start, one chunk from the end.  The start is behind the newline that is
\* one more than those asked for, or the start of the file.
NewlinesIn(f, lo, hi) == {i \in lo + 1 .. Smaller(hi, Len(f)) : f[i] \in Newlines}

\* Mutant of Enough: it stops one newline early.
EnoughEarly(n) == n >= lines

Enough(n) == n > lines
TailScan ==
    /\ reader = "scan"
    /\ LET lo    == Larger(scan - BufSize, 0)
           found == NewlinesIn(file, lo, scan)
           n     == count + Cardinality(found)
       IN  IF Enough(n)
           THEN /\ ReaderAt("print") /\ scan' = 0 /\ count' = 0
                /\ pos' = CHOOSE i \in found :
                            Enough(count + Cardinality({j \in found : j >= i})) /\
                            ~Enough(count + Cardinality({j \in found : j > i}))
           ELSE IF lo = 0 \/ lo >= Len(file)
           THEN ReaderAt("print") /\ scan' = 0 /\ count' = 0 /\ pos' = 0
           ELSE scan' = lo /\ count' = n /\ UNCHANGED <<reader, joined, notify, pos>>
    /\ UNCHANGED <<file, daemonVars, lines, measured, event, shownVars>>

\* One read of a loop that ends at the end of the file.
ReadMore ==
    /\ pos < Len(file)
    /\ pos' = Smaller(pos + BufSize, Len(file))
    /\ Shows(ReadAt(file, pos, BufSize))
    /\ UNCHANGED <<file, daemonVars, reader, joined, tailVars, notify, event>>
AtEnd == pos >= Len(file)

PrintPart == reader = "print" /\ ReadMore

\* Without -f that is all; with it the file is watched, or polled where it cannot be.
PrintEnd ==
    /\ reader = "print" /\ AtEnd
    /\ reader' \in {"idle", "watch"} /\ lines' = 0 /\ measured' = 0
    /\ UNCHANGED <<file, daemonVars, joined, pos, scan, count, notify, event, shownVars>>

\* Mutant of Watch: it waits first.
WatchAndWait ==
    /\ reader = "watch" /\ reader' = "wait" /\ notify' \in BOOLEAN
    /\ event' = FALSE
    /\ UNCHANGED <<file, daemonVars, joined, pos, tailVars, shownVars>>

Watch ==
    /\ reader = "watch" /\ reader' = "follow" /\ notify' \in BOOLEAN
    /\ event' = FALSE
    /\ UNCHANGED <<file, daemonVars, joined, pos, tailVars, shownVars>>

Follow == reader = "follow" /\ ReadMore

FollowEnd ==
    /\ reader = "follow" /\ AtEnd /\ ReaderAt("wait")
    /\ UNCHANGED <<file, daemonVars, pos, tailVars, event, shownVars>>

\* select on the inotify descriptor and the read of its events, or the sleep.
Wakes ==
    /\ reader = "wait" /\ (notify => event) /\ ReaderAt("follow") /\ event' = FALSE
    /\ UNCHANGED <<file, daemonVars, pos, tailVars, shownVars>>

(***************************************************************************)
(* attach, where there is a log: connect, replay_log, Attach               *)
(***************************************************************************)

\* A socket answers before its daemon has opened the log, and the log is read while it
\* is trimmed; the Attach waits until the daemon runs.
Connect ==
    /\ reader = "idle" /\ daemon # "off"
    /\ reader' = "replay" /\ joined' = starts /\ pos' = 0 /\ last' = 0
    /\ UNCHANGED <<file, daemonVars, tailVars, notify, event, repeated>>

ReplayLog == reader = "replay" /\ ReadMore

ReplayLogEnd ==
    /\ reader = "replay" /\ AtEnd /\ ReaderAt("send")
    /\ UNCHANGED <<file, daemonVars, pos, tailVars, event, shownVars>>

\* Mutant of HandleAttach: the daemon replays as well.
HandleAttachReplays ==
    /\ reader = "send" /\ daemon = "running" /\ joined = starts
    /\ ReaderAt("attached")
    /\ Shows([k \in 1 .. total - began |-> began + k])
    /\ UNCHANGED <<file, daemonVars, pos, tailVars, event>>

\* handle_attach with len # 0: output from here on.
HandleAttach ==
    /\ reader = "send" /\ daemon = "running" /\ joined = starts
    /\ ReaderAt("attached")
    /\ UNCHANGED <<file, daemonVars, pos, tailVars, event, shownVars>>

AttachFails ==
    /\ reader = "send" /\ (daemon = "off" \/ joined # starts)
    /\ ReaderAt("idle")
    /\ UNCHANGED <<file, daemonVars, pos, tailVars, event, shownVars>>

\* A reader may be interrupted, or detach.
Quit ==
    /\ reader # "idle" /\ reader' = "idle" /\ notify' = FALSE /\ event' = FALSE
    /\ lines' = 0 /\ scan' = 0 /\ count' = 0 /\ measured' = 0 /\ pos' = 0 /\ joined' = 0
    /\ UNCHANGED <<file, daemonVars, shownVars>>

DaemonStep == \/ Listen \/ Open \/ Measure \/ ReadKept \/ Truncate \/ Rewrite
              \/ (\E n \in 1 .. BufSize : Output(n)) \/ Close \/ Crash
ReaderStep == \/ TailSize \/ TailScan \/ PrintPart \/ PrintEnd \/ Watch \/ Follow \/ FollowEnd
              \/ Wakes \/ ReplayLog \/ ReplayLogEnd \/ HandleAttach \/ AttachFails
Next == \/ DaemonStep \/ ReaderStep \/ Clear \/ Quit
        \/ (\E n \in 1 .. MaxLines : StartTail(n)) \/ Connect

\* A command that reads is a process that runs.
Spec == Init /\ [][Next]_vars /\ WF_vars(ReaderStep)

(***************************************************************************)
(* Properties                                                              *)
(***************************************************************************)

\* Every variable has its type, offsets are within what was written.
TypeOK ==
    /\ file \in Seq(0 .. MaxOut) /\ kept \in Seq(0 .. MaxOut)
    /\ daemon \in {"off", "listening", "measure", "trim", "truncate", "rewrite", "running"}
    /\ at \in 0 .. MaxOut /\ total \in 0 .. MaxOut /\ began \in 0 .. total
    /\ starts \in 0 .. Starts /\ joined \in 0 .. starts
    /\ reader \in {"idle", "size", "scan", "print", "watch", "follow", "wait", "replay",
                   "send", "attached"}
    /\ pos \in 0 .. MaxOut /\ lines \in 0 .. MaxLines /\ scan \in 0 .. MaxOut
    /\ count \in 0 .. MaxLines /\ last \in 0 .. total /\ measured \in -1 .. MaxOut
    /\ {notify, event, repeated} \subseteq BOOLEAN

\* The log is a piece of what was written that ends with the last byte written: clear
\* and the trimming of open may take bytes from its front, also under the offset of
\* a daemon that then writes beyond the end, but nothing behind them moves, is lost
\* or is written over, through restarts and crashes at any step (session_log.rs,
\* cmd_clear).
Aligned(f, end) == \A i \in 1 .. end : i <= Len(f) => f[i] \in {Hole, total - end + i}
HolesInFront(f) == \A i, j \in 1 .. Len(f) : i < j /\ f[j] = Hole => f[i] = Hole
LogHoldsOutput ==
    /\ HolesInFront(file)
    /\ Aligned(file, Len(file))
    /\ daemon = "running" => Len(file) \in {0, at}

\* What a daemon finds when it starts writing is at most MaxSize bytes long, so
\* however long it runs the log exceeds its own output by no more than that, although
\* a clear comes between the steps of the trimming (session_log.rs:3-5).
LogBounded == daemon = "running" => Len(file) <= MaxSize + (total - began)

\* No byte is shown twice and none out of order, by tail -f while the log is
\* cleared, trimmed by the next daemon and written on under its offset, and by a
\* client that shows the log and is then attached (cmd_tail, replay_log, handle_attach).
ShownOnce == ~repeated

\* tail prints the last lines of the log (src/README.md:81), as many as it was asked for
\* or all there are, from the start of a line on, wherever the chunks of find_tail_start
\* end and whatever is written meanwhile.  That is where the log it saw ends with a
\* newline: of one that ends with a piece of a line, a prompt for instance, which is a
\* line as well but has no newline for the code to count, it prints one line more.
LinesFrom(p) == Cardinality({i \in p + 1 .. measured : file[i] \in Newlines \/ i = measured})
EndsLine     == measured \in 1 .. Len(file) /\ file[measured] \in Newlines
LastLines(p, n) == /\ p = 0 \/ file[p] \in Newlines
                   /\ LinesFrom(p) = Smaller(n, LinesFrom(0))
PrintsLastLines ==
    [][reader = "scan" /\ reader' = "print" /\ EndsLine => LastLines(pos', lines)]_vars

\* tail -f shows what is behind its offset: no write is missed between its reads and
\* its waiting, with inotify and without (cmd_tail adds the watch before it reads
\* once more).
Following == reader \in {"follow", "wait"}
FollowerCatchesUp ==
    Following /\ pos < Len(file) ~> ~Following \/ pos >= Len(file)

\* What session_daemon.rs:481 says of an Attach with len # 0, that the client "was
\* already attached and is just re-affirming": a client attached at once has been
\* shown what is in the log.
ReaffirmsOnly ==
    [][reader = "send" /\ reader' = "attached"
          => \A i \in 1 .. Len(file) : file[i] <= last]_vars
=============================================================================
