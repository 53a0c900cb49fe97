------------------------------ MODULE JobLease -------------------------------
(***************************************************************************)
(* What the helpers promise about the directories they use, without a       *)
(* worker or messages: a job takes a number nobody has had, makes and       *)
(* removes the directory of that number only, and does not settle while it  *)
(* exists. If the file system is lost, the jobs that used it settle.        *)
(***************************************************************************)
EXTENDS Naturals

CONSTANT Jobs

VARIABLES
  phase,   \* "waiting", "holding" a number, or "settled"
  number,  \* the number each job has taken
  issued,  \* numbers issued so far
  held     \* the directories that exist

leaseVars == <<phase, number, issued, held>>

LeaseInit ==
  /\ phase = [j \in Jobs |-> "waiting"] /\ number = [j \in Jobs |-> 0]
  /\ issued = 0 /\ held = {}

\* Taking a number and settling are both allowed to find the worker gone.
Take(j) ==
  /\ phase[j] = "waiting"
  /\ \E p \in {"holding", "settled"} : phase' = [phase EXCEPT ![j] = p]
  /\ number' = [number EXCEPT ![j] = issued]
  /\ issued' = issued + 1
  /\ UNCHANGED held

Settle(j) ==
  /\ phase[j] = "waiting" \/ (phase[j] = "holding" /\ number[j] \notin held)
  /\ phase' = [phase EXCEPT ![j] = "settled"]
  /\ UNCHANGED <<number, issued, held>>

MakeOrRemove(j) ==
  /\ phase[j] = "holding"
  /\ held' \in {held \cup {number[j]}, held \ {number[j]}}
  /\ UNCHANGED <<phase, number, issued>>

LoseAll ==
  /\ phase' = [j \in Jobs |-> IF phase[j] = "holding" THEN "settled" ELSE phase[j]]
  /\ held' = {}
  /\ UNCHANGED <<number, issued>>

LeaseNext ==
  LoseAll \/ \E j \in Jobs : Take(j) \/ Settle(j) \/ MakeOrRemove(j)

LeaseSpec == LeaseInit /\ [][LeaseNext]_leaseVars
=============================================================================
