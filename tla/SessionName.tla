----------------------------- MODULE SessionName -----------------------------
(***************************************************************************)
(* What a name promises, without files, listeners or commands: one session *)
(* has it at a time, whoever connects to the name reaches that one, and    *)
(* what has ended has ended for good.                                      *)
(***************************************************************************)
CONSTANT Sessions

VARIABLES holder,   \* the session that has the name: a set of one at most
          answers,  \* whom a connection reaches: a set of one at most
          over,     \* the sessions that have ended
          reported  \* those a kill said were stopped

Init == holder = {} /\ answers = {} /\ over = {} /\ reported = {}

\* A session takes a name that nobody has and nobody answers to.
Take(s) == /\ holder = {} /\ answers = {} /\ s \notin over
           /\ holder' = {s} /\ UNCHANGED <<answers, over, reported>>

\* It answers from now until it ends.
Open == /\ holder # {} /\ answers' = holder
        /\ UNCHANGED <<holder, over, reported>>

\* It ends, and gives the name up.  The command that started it may have its
\* listener open and answer for a while; it closes at the latest when that returns.
End == /\ holder # {} /\ holder' = {} /\ over' = over \union holder
       /\ answers' \in {answers, {}} /\ UNCHANGED reported
Close == /\ holder = {} /\ answers' = {}
         /\ UNCHANGED <<holder, over, reported>>

Report(s) == /\ s \in over /\ reported' = reported \union {s}
             /\ UNCHANGED <<holder, answers, over>>

Next == (\E s \in Sessions : Take(s) \/ Report(s)) \/ Open \/ End \/ Close

Spec == Init /\ [][Next]_<<holder, answers, over, reported>>
=============================================================================
