------------------------------- MODULE Watchdog -------------------------------
(***************************************************************************)
(* What the test and benchmark runners promise of the programs they start:  *)
(* one at a time, and a job is over only when none of its processes is left, *)
(* whether they ended by themselves or were killed.                          *)
(***************************************************************************)
VARIABLES
  job,   \* "idle" or "started"
  alive  \* its processes that are running

Init == job = "idle" /\ alive = {}

Start == job = "idle" /\ alive = {} /\ job' = "started"

Fork == job = "started" /\ alive \subseteq alive' /\ UNCHANGED job

Die == alive' \subseteq alive /\ UNCHANGED job

\* Starting a process may fail, and then the job is over without one.
Finish == job = "started" /\ alive = {} /\ job' = "idle" /\ UNCHANGED alive

Next == Start \/ Fork \/ Die \/ Finish

Spec == Init /\ [][Next]_<<job, alive>>
=============================================================================
