------------------------------- MODULE BoundedPool -------------------------------
(***************************************************************************)
(* What the yt-dlp gate promises, without flights, callers or timers: a    *)
(* bounded number of jobs run, a bounded number wait, a job waits only     *)
(* while every slot is taken, the job that has waited longest is the next  *)
(* to start, and a closed pool starts nothing any more.                    *)
(***************************************************************************)
EXTENDS Naturals, Sequences, FiniteSets

CONSTANTS Job, Options

VARIABLES bounds, running, waiting, open

poolVars == <<bounds, running, waiting, open>>

Init ==
    /\ bounds \in Options
    /\ running = {} /\ waiting = <<>>
    /\ open = TRUE

SlotFree == Cardinality(running) < bounds.activeLimit

Waits(j) == \E i \in 1..Len(waiting) : waiting[i] = j

\* A new job starts, or waits for a slot behind the others.
Admit(j) ==
    /\ open
    /\ j \notin running /\ ~Waits(j)
    /\ IF SlotFree
       THEN running' = running \cup {j} /\ UNCHANGED waiting
       ELSE /\ Len(waiting) < bounds.queueMax
            /\ waiting' = Append(waiting, j) /\ UNCHANGED running
    /\ UNCHANGED <<bounds, open>>

\* A waiting job is given up: its callers left or it waited too long.  The
\* others keep their order.
Leave(j) ==
    /\ \E i \in 1..Len(waiting) :
          /\ waiting[i] = j
          /\ waiting' = [k \in 1..(Len(waiting) - 1) |->
                            IF k < i THEN waiting[k] ELSE waiting[k + 1]]
    /\ UNCHANGED <<bounds, running, open>>

\* A job is over and its slot goes to the first of those that wait.
Done(j) ==
    /\ j \in running
    /\ \/ /\ waiting = <<>> \/ ~open
          /\ running' = running \ {j}
          /\ UNCHANGED waiting
       \/ /\ open /\ waiting # <<>>
          /\ running' = (running \ {j}) \cup {waiting[1]}
          /\ waiting' = SubSeq(waiting, 2, Len(waiting))
    /\ UNCHANGED <<bounds, open>>

Close ==
    /\ open
    /\ open' = FALSE
    /\ waiting' = <<>>
    /\ UNCHANGED <<bounds, running>>

\* The bounds change only while nothing runs or waits.
Resize ==
    /\ open /\ running = {} /\ waiting = <<>>
    /\ bounds' \in Options
    /\ UNCHANGED <<running, waiting, open>>

Next == (\E j \in Job : Admit(j) \/ Leave(j) \/ Done(j)) \/ Close \/ Resize

Spec == Init /\ [][Next]_poolVars
=============================================================================
