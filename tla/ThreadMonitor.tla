---------------------------- MODULE ThreadMonitor ----------------------------
(***************************************************************************)
(* What pthread calls promise their callers, with no scheduler: threads,    *)
(* mutexes that have one holder at most, and condition variables, where a   *)
(* thread gives up its mutex and falls asleep in one step, stays asleep     *)
(* until a signal or, if it asked for one, a timeout, and then competes for *)
(* the mutex again.                                                         *)
(***************************************************************************)
EXTENDS Integers

CONSTANTS Threads, First, Locks, Queues, Nobody

VARIABLES
  life,     \* "none", "live" or "finished"
  holder,   \* who holds each mutex
  asleep,   \* the condition variable a thread sleeps on
  timed     \* whether its sleep has a deadline

monitorVars == <<life, holder, asleep, timed>>

Awake(t) == life[t] = "live" /\ asleep[t] = Nobody

MonitorInit ==
  /\ life = [t \in Threads |-> "none"]
  /\ holder = [m \in Locks |-> Nobody]
  /\ asleep = [t \in Threads |-> Nobody]
  /\ timed = [t \in Threads |-> FALSE]

Start(t) ==
  /\ life[t] = "none"
  /\ life' = [life EXCEPT ![t] = "live"]
  /\ UNCHANGED <<holder, asleep, timed>>

Acquire(t, m) ==
  /\ Awake(t) /\ holder[m] = Nobody
  /\ holder' = [holder EXCEPT ![m] = t]
  /\ UNCHANGED <<life, asleep, timed>>

Release(t, m) ==
  /\ Awake(t) /\ holder[m] = t
  /\ holder' = [holder EXCEPT ![m] = Nobody]
  /\ UNCHANGED <<life, asleep, timed>>

\* No signal can fall between the release of the mutex and the sleep.
FallAsleep(t, c, m, bounded) ==
  /\ Awake(t) /\ holder[m] = t
  /\ holder' = [holder EXCEPT ![m] = Nobody]
  /\ asleep' = [asleep EXCEPT ![t] = c]
  /\ timed' = [timed EXCEPT ![t] = bounded]
  /\ UNCHANGED life

Wake(S) ==
  /\ asleep' = [t \in Threads |-> IF t \in S THEN Nobody ELSE asleep[t]]
  /\ timed' = [t \in Threads |-> t \notin S /\ timed[t]]

\* A signal wakes every thread that sleeps on c.
SignalAll(c) ==
  /\ Wake({t \in Threads : asleep[t] = c})
  /\ UNCHANGED <<life, holder>>

\* The threads in D are over and forgotten, and those in S time out.
Tidy(D, S) ==
  /\ \A t \in D : life[t] = "finished"
  /\ \A t \in S : timed[t]
  /\ life' = [t \in Threads |-> IF t \in D THEN "none" ELSE life[t]]
  /\ Wake(S)
  /\ UNCHANGED holder

\* A thread that finishes holds nothing.
Finish(t) ==
  /\ Awake(t) /\ \A m \in Locks : holder[m] # t
  /\ life' = [life EXCEPT ![t] = "finished"]
  /\ UNCHANGED <<holder, asleep, timed>>

\* A command begins: nothing of the one before it is left.
Restart ==
  /\ life' = [t \in Threads |-> IF t = First THEN "live" ELSE "none"]
  /\ holder' = [m \in Locks |-> Nobody]
  /\ asleep' = [t \in Threads |-> Nobody]
  /\ timed' = [t \in Threads |-> FALSE]

MonitorNext ==
  \/ \E t \in Threads : Start(t) \/ Finish(t)
  \/ \E t \in Threads, m \in Locks : Acquire(t, m) \/ Release(t, m)
  \/ \E t \in Threads, c \in Queues, m \in Locks, b \in BOOLEAN : FallAsleep(t, c, m, b)
  \/ \E c \in Queues : SignalAll(c)
  \/ \E D, S \in SUBSET Threads : Tidy(D, S)
  \/ Restart

MonitorSpec == MonitorInit /\ [][MonitorNext]_monitorVars
=============================================================================
