------------------------------ MODULE AppLog ------------------------------
(***************************************************************************)
(* The application log of app_log.rs: every process of the program appends *)
(* its messages to one file and trims it afterwards, with nothing to keep  *)
(* them apart.  A byte is the number of the line it belongs to, in the     *)
(* order of the appends.                                                   *)
(***************************************************************************)
EXTENDS Integers, Sequences, FiniteSets

CONSTANTS Procs,      \* the processes
          MaxSize,    \* APP_LOG_MAX_SIZE
          LineLen,    \* bytes of a line
          MaxLines,   \* bound: lines recorded
          MaxKills    \* bound: processes killed on the way

\* The log holds a line of every process and of every one killed.
ASSUME AppLogAssumption == /\ IsFiniteSet(Procs)
                           /\ {MaxSize, LineLen} \subseteq Nat \ {0}
                           /\ {MaxLines, MaxKills} \subseteq Nat
                           /\ LineLen * (Cardinality(Procs) + MaxKills) <= MaxSize

VARIABLES file,       \* the content of the file
          pc,         \* the place of each process in record
          offset,     \* where its trim reads from
          buf,        \* what its trim has read
          recorded,   \* lines appended
          kills,      \* processes killed
          owed,       \* ghost: those killed before their trim, since the last one
          overlapped  \* ghost: a process changed the file during another's trim

procVars  == <<pc, offset, buf>>
ghostVars == <<owed, overlapped>>
vars == <<file, procVars, recorded, kills, ghostVars>>

Init ==
    /\ file = << >> /\ recorded = 0 /\ kills = 0
    /\ pc = [p \in Procs |-> "idle"] /\ offset = [p \in Procs |-> 0]
    /\ buf = [p \in Procs |-> << >>]
    /\ owed = 0 /\ overlapped = FALSE

At(p, place) == pc[p] = place
Goto(p, place) == pc' = [pc EXCEPT ![p] = place]

\* A trim is under way between the look at the size and the last write.
Trimming(p) == pc[p] \in {"read", "truncate", "rewrite"}
Changes(p) == overlapped' = (overlapped \/ \E q \in Procs \ {p} : Trimming(q))

Larger(a, b) == IF a < b THEN b ELSE a
Smaller(a, b) == IF a < b THEN a ELSE b
Line(n) == [i \in 1 .. LineLen |-> n]

\* record: O_APPEND puts the line behind whatever is there.
Record(p) ==
    /\ At(p, "idle") /\ recorded < MaxLines
    /\ recorded' = recorded + 1 /\ file' = file \o Line(recorded + 1)
    /\ Goto(p, "measure") /\ Changes(p)
    /\ UNCHANGED <<offset, buf, kills, owed>>

\* rotate_file: its size, the read of the tail, set_len(0) and the write of the tail
\* at the start are one call each.
Measure(p) ==
    /\ At(p, "measure")
    /\ IF Len(file) <= MaxSize
       THEN Goto(p, "idle") /\ owed' = 0 /\ UNCHANGED offset
       ELSE Goto(p, "read") /\ offset' = [offset EXCEPT ![p] = Len(file) - MaxSize]
            /\ UNCHANGED owed
    /\ UNCHANGED <<file, buf, recorded, kills, overlapped>>

ReadTail(p) ==
    /\ At(p, "read")
    /\ LET tail == SubSeq(file, offset[p] + 1, Smaller(offset[p] + MaxSize, Len(file)))
       IN  /\ buf' = [buf EXCEPT ![p] = tail]
           /\ IF tail = << >>
              THEN Goto(p, "idle") /\ offset' = [offset EXCEPT ![p] = 0]
              ELSE Goto(p, "truncate") /\ UNCHANGED offset
    /\ UNCHANGED <<file, recorded, kills, ghostVars>>

\* Mutant of Truncate: only what exceeds the limit is cut off.
TruncateExcess(p) ==
    /\ At(p, "truncate")
    /\ file' = SubSeq(file, 1, Smaller(MaxSize, Len(file))) /\ owed' = 0
    /\ Goto(p, "idle") /\ Changes(p)
    /\ UNCHANGED <<offset, buf, recorded, kills>>

Truncate(p) ==
    /\ At(p, "truncate")
    /\ file' = << >> /\ owed' = 0
    /\ Goto(p, "rewrite") /\ Changes(p)
    /\ UNCHANGED <<offset, buf, recorded, kills>>

\* What record leaves behind when it returns.
Done(p) == /\ Goto(p, "idle")
           /\ offset' = [offset EXCEPT ![p] = 0] /\ buf' = [buf EXCEPT ![p] = << >>]

\* The file with bytes written at an offset.
Written(at, data) ==
    [i \in 1 .. Larger(at + Len(data), Len(file)) |->
        IF i \in at + 1 .. at + Len(data) THEN data[i - at]
        ELSE IF i <= Len(file) THEN file[i] ELSE 0]

\* Mutant of Rewrite: the tail is written where the read ended.
RewriteNoSeek(p) ==
    /\ At(p, "rewrite")
    /\ file' = Written(offset[p] + Len(buf[p]), buf[p])
    /\ Done(p) /\ Changes(p)
    /\ UNCHANGED <<recorded, kills, owed>>

\* Mutant of Rewrite: the tail is appended.
RewriteAppends(p) ==
    /\ At(p, "rewrite")
    /\ file' = file \o buf[p]
    /\ Done(p) /\ Changes(p)
    /\ UNCHANGED <<recorded, kills, owed>>

Rewrite(p) ==
    /\ At(p, "rewrite")
    /\ file' = Written(0, buf[p])
    /\ Done(p) /\ Changes(p)
    /\ UNCHANGED <<recorded, kills, owed>>

\* A process may be killed anywhere in record.
Killed(p) ==
    /\ ~At(p, "idle") /\ kills < MaxKills /\ kills' = kills + 1
    /\ owed' = IF At(p, "rewrite") THEN owed ELSE owed + 1
    /\ Done(p)
    /\ UNCHANGED <<file, recorded, overlapped>>

Next == \E p \in Procs : \/ Record(p) \/ Measure(p) \/ ReadTail(p) \/ Truncate(p)
                         \/ Rewrite(p) \/ Killed(p)
Spec == Init /\ [][Next]_vars

(***************************************************************************)
(* Properties                                                              *)
(***************************************************************************)

\* Every variable has its type; there is no hole in the file, and nothing in it that
\* nobody recorded.
TypeOK ==
    /\ file \in Seq(1 .. recorded) /\ recorded \in 0 .. MaxLines
    /\ pc \in [Procs -> {"idle", "measure", "read", "truncate", "rewrite"}]
    /\ offset \in [Procs -> Nat] /\ buf \in [Procs -> Seq(1 .. recorded)]
    /\ kills \in 0 .. MaxKills /\ owed \in 0 .. kills /\ overlapped \in BOOLEAN

\* The log exceeds its limit by no more than a line for each process that has still
\* to trim, or was killed before it could, however their trims run into each other:
\* none of them writes back more than it should, behind what another has written
\* (rotate_file).
YetToTrim == {p \in Procs : pc[p] \in {"measure", "read", "truncate"}}
AppLogBounded == Len(file) <= MaxSize + LineLen * (Cardinality(YetToTrim) + owed)

\* While no trim has run into another process, and none was cut short, the log is,
\* whenever nobody is at work on it, what the lines recorded so far end with; appends
\* may overlap appends and come before another's trim (record, rotate_path).
AllLines == [i \in 1 .. LineLen * recorded |-> 1 + (i - 1) \div LineLen]
LastOnes(s, n) == SubSeq(s, Larger(Len(s) - n, 0) + 1, Len(s))
QuietLogIsTail ==
    ~overlapped /\ kills = 0 /\ (\A p \in Procs : At(p, "idle"))
        => file = LastOnes(AllLines, MaxSize)
=============================================================================
