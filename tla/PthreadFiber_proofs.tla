------------------------ MODULE PthreadFiber_proofs --------------------------
(***************************************************************************)
(* Proofs about PthreadFiber, for any number of fibers, mutexes, condition  *)
(* variables, once controls and commands: its type invariant, mutual        *)
(* exclusion, that no wakeup is lost, and that it implements ThreadMonitor. *)
(***************************************************************************)
EXTENDS PthreadFiber, WellFoundedInduction, TLAPS

USE FiberAssumption DEF Main, Table, Fibers

-----------------------------------------------------------------------------
(* Frames, and who is next. *)

LEMMA FrameFields ==
  ASSUME NEW o, NEW x, NEW m, NEW t
  PROVE  /\ Frame(o, x, m, t).op = o /\ Frame(o, x, m, t).arg = x
         /\ Frame(o, x, m, t).relock = m /\ Frame(o, x, m, t).until = t
  BY DEF Frame

LEMMA FrameType ==
  ASSUME NEW o \in Ops, NEW x \in Objects \cup Fibers \cup {NULL},
         NEW m \in Mutexes \cup {NULL}, NEW t \in Times
  PROVE  Frame(o, x, m, t) \in Frames
  BY DEF Frame, Frames

LEMMA UserFrame == User \in Frames /\ User.op = "user" /\ User.arg = NULL /\ User.relock = NULL
<1>1. 0 \in Times /\ "user" \in Ops
  BY DEF Times, Ops
<1> QED BY <1>1, FrameFields, FrameType DEF User

LEMMA LeastOf ==
  ASSUME NEW D \in SUBSET Nat, D # {}
  PROVE  \E n \in D : \A k \in D : n <= k
<1>1. PICK n \in D : \A k \in D : <<k, n>> \notin OpToRel(<, Nat)
  BY NatLessThanWellFounded, WFMin, Zenon
<1>2. \A k \in D : ~(k < n)
  BY <1>1 DEF OpToRel
<1> QED BY <1>2

LEMMA NextOfIsOne ==
  ASSUME TypeOK, NEW S \in SUBSET Fibers, S # {}
  PROVE  NextOf(S) \in S
<1>1. current \in Fibers
  BY DEF TypeOK
<1>2. \A f \in Fibers : Distance(f) \in Nat
  BY <1>1 DEF Distance
<1> DEFINE D == {Distance(f) : f \in S}
<1>3. D \in SUBSET Nat /\ D # {}
  BY <1>2
<1>4. PICK n \in D : \A k \in D : n <= k
  <2> HIDE DEF D
  <2> QED BY <1>3, LeastOf
<1>5. \E f \in S : \A g \in S : Distance(f) <= Distance(g)
  BY <1>4
<1> QED BY <1>5 DEF NextOf

-----------------------------------------------------------------------------
(* Type correctness. *)

LEMMA InitType == Init => TypeOK
  BY UserFrame DEF Init, TypeOK, States, Phases, Times

\* What entering and leaving a call does to the frames.
LEMMA Entered ==
  ASSUME TypeOK, NEW o \in Ops, NEW x \in Objects \cup Fibers \cup {NULL},
         NEW m \in Mutexes \cup {NULL}, NEW t \in Times, Enter(o, x, m, t)
  PROVE  /\ call' \in [Fibers -> Frames]
         /\ call'[current].op = o /\ call'[current].arg = x
         /\ call'[current].relock = m /\ call'[current].until = t
         /\ \A f \in Fibers \ {current} : call'[f] = call[f]
<1>1. Frame(o, x, m, t) \in Frames
  BY FrameType
<1>2. call'[current] = Frame(o, x, m, t) /\ current \in Fibers
  BY DEF TypeOK, Enter
<1> QED BY <1>1, <1>2, FrameFields DEF TypeOK, Enter

LEMMA Returned ==
  ASSUME TypeOK, Return
  PROVE  /\ call' \in [Fibers -> Frames]
         /\ call'[current].op = "user" /\ call'[current].arg = NULL
         /\ call'[current].relock = NULL
         /\ \A f \in Fibers \ {current} : call'[f] = call[f]
  BY UserFrame DEF TypeOK, Return

LEMMA FrameOf ==
  ASSUME TypeOK, FramesAgree, NEW f \in Fibers
  PROVE  /\ call[f].op \in Ops /\ call[f].arg \in Objects \cup Fibers \cup {NULL}
         /\ call[f].relock \in Mutexes \cup {NULL} /\ call[f].until \in Times
         /\ call[f].op = "lock" => call[f].arg \in Mutexes
         /\ call[f].op \in {"cond", "timed"} => call[f].arg \in Conds /\ call[f].relock \in Mutexes
         /\ call[f].op = "join" => call[f].arg \in Table \ {f}
         /\ call[f].op = "once" => call[f].arg \in Onces
  BY DEF TypeOK, FramesAgree, Frames

-----------------------------------------------------------------------------
(* Steps that change no more than the phase and the current call. *)

LEMMA IdleStep ==
  ASSUME IInv, Tick \/ IdleAbort \/ \E m \in Mutexes : LockTwice(m)
  PROVE  IInv'
<1> USE DEF IInv
<1>1. /\ UNCHANGED <<table, stacks, current, epoch, memory, caller>>
      /\ now' \in Times /\ phase' \in Phases
      /\ phase' = phase \/ phase' = "selflocked"
           \/ (phase' = "deadlocked" /\ phase = "idle" /\ Armed = {})
  BY DEF Tick, IdleAbort, LockTwice, TypeOK, Times, Phases
<1> USE DEF table, stacks, memory, caller
<1>2. TypeOK' /\ FramesAgree' /\ HoldersAgree'
  BY <1>1 DEF TypeOK, FramesAgree, HoldersAgree, Holder
<1>3. BlockedForAReason' /\ WaitsAgree' /\ JoinersAgree' /\ OneInitializer'
  BY <1>1 DEF BlockedForAReason, WaitsAgree, JoinersAgree, OneInitializer, Holder, Live
<1>4. RunningFiber' /\ SlotsKept'
  BY <1>1 DEF RunningFiber, SlotsKept, Live, Over
<1>5. AbortOnlyWhenStuck'
  <2>1. CASE phase' = "deadlocked" /\ phase = "idle" /\ Armed = {}
    <3> SUFFICES ASSUME NEW f \in Fibers, Live(f) PROVE ~CanProceed(f)
      BY <1>1 DEF AbortOnlyWhenStuck, Live, CanProceed, Holder
    <3>1. state[f] = "blocked" /\ deadline[f] = NULL
      BY <2>1 DEF RunningFiber, Live, Armed
    <3> QED BY <3>1 DEF BlockedForAReason, CanProceed
  <2> QED BY <1>1, <2>1 DEF AbortOnlyWhenStuck, Live, CanProceed, Holder
<1> QED BY <1>2, <1>3, <1>4, <1>5

\* usleep moves between its two waits, or returns.
LEMMA SleepStep ==
  ASSUME IInv, SleepResume \/ \E t \in Times : Sleep(t)
  PROVE  IInv'
<1> USE DEF IInv
<1>1. /\ phase = "run" /\ phase' \in {"run", "pick", "nap"}
      /\ UNCHANGED <<table, initializing, current, epoch, now, memory, caller>>
      /\ call[current].op \in {"user", "yield"}
  BY DEF SleepResume, Sleep, Calls
<1>2. /\ call' \in [Fibers -> Frames]
      /\ call'[current].op \in {"user", "yield", "sleep"}
      /\ phase' = "nap" => call'[current].op = "sleep"
      /\ \A f \in Fibers \ {current} : call'[f] = call[f]
  <2>1. /\ 0 \in Times /\ call[current].until \in Times
        /\ "yield" \in Ops /\ "sleep" \in Ops
    BY FrameOf DEF Times, Ops, TypeOK
  <2>2. CASE Return /\ phase' # "nap"
    BY <2>2, Returned
  <2>3. CASE \E t \in Times : \/ Enter("sleep", NULL, NULL, t)
                              \/ Enter("yield", NULL, NULL, t) /\ phase' # "nap"
    BY <2>1, <2>3, Entered
  <2> QED BY <1>1, <2>1, <2>2, <2>3 DEF SleepResume, Sleep
<1> USE DEF table, memory, caller
<1>3. TypeOK' /\ FramesAgree' /\ HoldersAgree'
  BY <1>1, <1>2 DEF TypeOK, FramesAgree, HoldersAgree, Holder, Phases
<1>4. BlockedForAReason'
  BY <1>1, <1>2 DEF BlockedForAReason, Holder, RunningFiber
<1>5. WaitsAgree' /\ JoinersAgree'
  BY <1>1, <1>2 DEF WaitsAgree, JoinersAgree, Live, TypeOK
<1>6. RunningFiber' /\ SlotsKept' /\ OneInitializer'
  BY <1>1, <1>2 DEF RunningFiber, SlotsKept, Live, Over, OneInitializer
<1>7. AbortOnlyWhenStuck'
  BY <1>1 DEF AbortOnlyWhenStuck
<1> QED BY <1>3, <1>4, <1>5, <1>6, <1>7

-----------------------------------------------------------------------------
(* Steps of the scheduler. *)

\* Deadlines come due, the threads in R are forgotten, and the current fiber
\* may move within usleep.
LEMMA Expired ==
  ASSUME IInv, Expire(Due), NEW R \in SUBSET Reapable,
         state' = [f \in Fibers |-> IF f \in R THEN "free"
                                    ELSE IF f \in Due THEN "runnable" ELSE state[f]],
         UNCHANGED <<initializing, epoch, now, memory, caller>>,
         call' \in [Fibers -> Frames],
         \A f \in Fibers : \/ call'[f] = call[f]
                           \/ /\ f = current /\ state[f] = "runnable"
                              /\ call[f].op = "sleep" /\ call'[f].op \in {"user", "yield"},
         current' \in Fibers, phase' \in Phases
  PROVE  /\ TypeOK' /\ FramesAgree' /\ HoldersAgree' /\ BlockedForAReason' /\ WaitsAgree'
         /\ JoinersAgree' /\ OneInitializer'
         /\ \A f \in joinable : state'[f] # "free"
         /\ \A f \in Fibers : call'[f].op = "join" /\ (Live(f))' => state'[call'[f].arg] # "free"
<1> USE DEF IInv, memory, caller
<1>1. \A f \in Due : /\ state[f] = "blocked" /\ call[f].op = "timed"
                     /\ f \notin R /\ state'[f] = "runnable"
                     /\ waitOn'[f] = NULL /\ deadline'[f] = NULL
  BY DEF Due, Armed, WaitsAgree, Reapable, Expire
<1>2. \A f \in R : state[f] = "done" /\ detached[f] /\ f # current /\ state'[f] = "free"
                   /\ f \in Fibers
  BY DEF Reapable
<1>3. \A f \in Fibers : f \notin Due => waitOn'[f] = waitOn[f] /\ deadline'[f] = deadline[f]
  BY DEF Expire
<1>4. \A f \in Fibers : f \notin Due /\ f \notin R => state'[f] = state[f]
  OBVIOUS
<1>5. UNCHANGED <<detached, joinWaiter>>
  BY DEF Expire
<1>6. TypeOK'
  <2>1. state' \in [Fibers -> States]
    BY DEF TypeOK, States
  <2>2. /\ waitOn' \in [Fibers -> Objects \cup {NULL}]
        /\ deadline' \in [Fibers -> Times \cup {NULL}]
        /\ wokeByTimeout' \in [Fibers -> BOOLEAN]
    BY DEF TypeOK, Expire
  <2> QED BY <2>1, <2>2, <1>5 DEF TypeOK
<1>7. FramesAgree' /\ HoldersAgree' /\ OneInitializer'
  BY DEF FramesAgree, HoldersAgree, Holder, OneInitializer
<1>8. \A f \in Fibers : (Live(f))' <=> Live(f)
  BY <1>1, <1>2, <1>4 DEF Live
<1>9. JoinersAgree'
  BY <1>5, <1>8 DEF JoinersAgree, TypeOK
<1>10. WaitsAgree'
  <2> SUFFICES ASSUME NEW f \in Fibers
               PROVE  WaitsAgree!(f)'
    BY DEF WaitsAgree
  <2>1. CASE f \in Due
    <3>1. call'[f] = call[f]
      BY <2>1, <1>1
    <3> QED BY <2>1, <3>1, <1>1
  <2>2. CASE f \notin Due
    BY <2>2, <1>2, <1>3, <1>4 DEF WaitsAgree
  <2> QED BY <2>1, <2>2
<1>11. BlockedForAReason'
  <2> SUFFICES ASSUME NEW f \in Fibers, state'[f] = "blocked"
               PROVE  BlockedForAReason!(f)'
    BY DEF BlockedForAReason
  <2>1. /\ f \notin Due /\ f \notin R /\ state[f] = "blocked" /\ waitOn'[f] = waitOn[f]
        /\ deadline'[f] = deadline[f] /\ call'[f] = call[f]
    BY <1>1, <1>2, <1>3, <1>4
  <2>2. CASE call[f].op = "join"
    <3>1. /\ call[f].arg \in Fibers /\ joinWaiter[call[f].arg] = f
          /\ state[call[f].arg] \in {"runnable", "blocked"}
      BY <2>1, <2>2, FrameOf DEF BlockedForAReason
    <3>2. state'[call[f].arg] \in {"runnable", "blocked"}
      BY <3>1, <1>1, <1>2, <1>4
    <3> QED BY <2>1, <2>2, <3>1, <3>2, <1>5
  <2>3. CASE call[f].op # "join"
    BY <2>1, <2>3 DEF BlockedForAReason, Holder
  <2> QED BY <2>2, <2>3
<1>12. \A f \in joinable : state'[f] # "free"
  BY <1>2, <1>4, <1>1 DEF JoinersAgree, SlotsKept, TypeOK
<1>13. ASSUME NEW f \in Fibers, call'[f].op = "join", (Live(f))'
       PROVE  state'[call'[f].arg] # "free"
  <2>1. call'[f] = call[f] /\ Live(f) /\ call[f].arg \in Fibers
    BY <1>8, <1>13, FrameOf
  <2>2. ~detached[call[f].arg] /\ state[call[f].arg] # "free"
    BY <2>1, <1>13 DEF JoinersAgree, SlotsKept
  <2> QED BY <2>1, <2>2, <1>1, <1>2, <1>4
<1> QED BY <1>6, <1>7, <1>9, <1>10, <1>11, <1>12, <1>13

LEMMA SchedulerStep ==
  ASSUME IInv, Pick \/ IdleWake \/ NapEnds
  PROVE  IInv'
<1> USE DEF IInv
<1>1. CASE Pick
  <2> DEFINE others == {f \in Fibers \ {current} : state'[f] = "runnable"}
  <2>1. current' \in Fibers /\ phase' \in Phases
    <3>1. others # {} => NextOf(others) \in Fibers
      BY NextOfIsOne
    <3> QED BY <1>1, <3>1 DEF Pick, Phases, TypeOK
  <2>2. /\ TypeOK' /\ FramesAgree' /\ HoldersAgree' /\ BlockedForAReason' /\ WaitsAgree'
        /\ JoinersAgree' /\ OneInitializer'
        /\ \A f \in joinable : state'[f] # "free"
        /\ \A f \in Fibers : call'[f].op = "join" /\ (Live(f))' => state'[call'[f].arg] # "free"
    BY <1>1, <2>1, Expired DEF Pick, stacks, TypeOK
  <2>3. CASE others # {}
    <3>1. NextOf(others) \in others
      BY <2>3, NextOfIsOne
    <3>2. phase' = "run" /\ state'[current'] = "runnable"
      BY <1>1, <2>3, <3>1 DEF Pick
    <3> QED BY <1>1, <2>2, <3>2 DEF Pick, RunningFiber, SlotsKept, AbortOnlyWhenStuck, caller
  <2>4. CASE others = {}
    <3>1. state'[current] # "free"
      BY <1>1 DEF Pick, SlotsKept, Over, Reapable, TypeOK
    <3>2. /\ current' = current /\ phase' \in {"run", "idle"}
          /\ phase' = "run" <=> state'[current] = "runnable"
      BY <1>1, <2>4 DEF Pick
    <3> QED BY <1>1, <2>2, <2>4, <3>1, <3>2
            DEF Pick, RunningFiber, SlotsKept, AbortOnlyWhenStuck, caller
  <2> QED BY <2>3, <2>4
<1>2. CASE IdleWake \/ NapEnds
  <2>1. /\ call' \in [Fibers -> Frames] /\ UNCHANGED <<initializing, current, epoch, now, memory, caller>>
        /\ \A f \in Fibers : \/ call'[f] = call[f]
                             \/ /\ f = current /\ state[f] = "runnable"
                                /\ call[f].op = "sleep" /\ call'[f].op \in {"user", "yield"}
    <3>1. CASE IdleWake
      BY <3>1 DEF IdleWake, stacks, TypeOK
    <3>2. CASE NapEnds
      <4>1. state[current] = "runnable" /\ call[current].op = "sleep"
        BY <3>2 DEF NapEnds, RunningFiber
      <4>2. current \in Fibers /\ call[current].until \in Times /\ "yield" \in Ops
        BY FrameOf DEF TypeOK, Ops
      <4>3. CASE Return
        BY <3>2, <4>1, <4>2, <4>3, Returned DEF NapEnds
      <4>4. CASE Enter("yield", NULL, NULL, call[current].until)
        BY <3>2, <4>1, <4>2, <4>4, Entered DEF NapEnds
      <4> QED BY <3>2, <4>3, <4>4 DEF NapEnds
    <3> QED BY <1>2, <3>1, <3>2
  <2>2. /\ Expire(Due) /\ phase \in {"idle", "nap"} /\ phase' \in {"pick", "run"}
        /\ state' = [f \in Fibers |-> IF f \in Due THEN "runnable" ELSE state[f]]
        /\ phase' = "run" => phase = "nap"
    BY <1>2 DEF IdleWake, NapEnds
  <2>3. /\ TypeOK' /\ FramesAgree' /\ HoldersAgree' /\ BlockedForAReason' /\ WaitsAgree'
        /\ JoinersAgree' /\ OneInitializer'
        /\ \A f \in joinable : state'[f] # "free"
        /\ \A f \in Fibers : call'[f].op = "join" /\ (Live(f))' => state'[call'[f].arg] # "free"
    <3>1. state' = [f \in Fibers |-> IF f \in {} THEN "free"
                                    ELSE IF f \in Due THEN "runnable" ELSE state[f]]
      BY <2>2
    <3>2. phase' \in Phases /\ current' \in Fibers /\ {} \in SUBSET Reapable
      BY <2>1, <2>2 DEF Phases, TypeOK
    <3> QED BY <2>1, <2>2, <3>1, <3>2, Expired
  <2>4. state'[current] # "free" /\ (phase = "nap" => state'[current] = "runnable")
    BY <2>2 DEF SlotsKept, Over, RunningFiber, TypeOK
  <2> QED BY <2>1, <2>2, <2>3, <2>4 DEF RunningFiber, SlotsKept, AbortOnlyWhenStuck, caller
<1> QED BY <1>1, <1>2

-----------------------------------------------------------------------------
(* Mutexes and condition variables. *)

LEMMA LockStepKeeps ==
  ASSUME IInv, NEW m \in Mutexes, LockStep(m), phase = "run",
         call[current].op \in {"user", "lock", "cond", "timed"},
         deadline' \in [Fibers -> Times \cup {NULL}], deadline'[current] = NULL,
         \A f \in Fibers \ {current} : deadline'[f] = deadline[f]
  PROVE  IInv'
<1> USE DEF IInv
<1>1. /\ current \in Fibers /\ state[current] = "runnable"
      /\ UNCHANGED <<detached, joinWaiter, wokeByTimeout, initializing, current, epoch, now,
                     joinable, once>>
      /\ phase' \in {"run", "pick"}
  BY DEF LockStep, Take, WaitFor, RunningFiber, memory, TypeOK
<1>2. CASE Take(m)
  <2>1. /\ call' \in [Fibers -> Frames] /\ call'[current].op = "user" /\ call'[current].arg = NULL
        /\ \A f \in Fibers \ {current} : call'[f] = call[f]
    BY <1>2, Returned DEF Take
  <2>2. /\ state' = [state EXCEPT ![current] = "runnable"] /\ state' = state
        /\ waitOn' = [waitOn EXCEPT ![current] = NULL]
        /\ held' = [held EXCEPT ![current] = @ \cup {m}] /\ phase' = "run"
        /\ mutexEpoch' = [mutexEpoch EXCEPT ![m] = epoch]
        /\ owner' = [owner EXCEPT ![m] = current]
    BY <1>1, <1>2 DEF Take, TypeOK
  <2>3. \A n \in Mutexes : Holder(n)' = IF n = m THEN current ELSE Holder(n)
    BY <1>1, <2>2 DEF Holder, TypeOK
  <2>4. TypeOK' /\ FramesAgree'
    BY <1>1, <2>1, <2>2 DEF TypeOK, FramesAgree, Phases
  <2>5. HoldersAgree'
    BY <1>1, <1>2, <2>2, <2>3 DEF HoldersAgree, Take, TypeOK
  <2>6. BlockedForAReason'
    <3> SUFFICES ASSUME NEW f \in Fibers, state'[f] = "blocked"
                 PROVE  BlockedForAReason!(f)'
      BY DEF BlockedForAReason
    <3>1. /\ f # current /\ call'[f] = call[f] /\ waitOn'[f] = waitOn[f]
          /\ deadline'[f] = deadline[f] /\ state[f] = "blocked"
      BY <1>1, <2>1, <2>2 DEF TypeOK
    <3>2. CASE call[f].op = "lock"
      <4>1. call[f].arg \in Mutexes /\ Holder(call[f].arg) \in Fibers \ {f}
        BY <3>1, <3>2, FrameOf DEF BlockedForAReason
      <4>2. call[f].arg # m
        BY <4>1, <1>2 DEF Take
      <4> QED BY <3>1, <3>2, <4>1, <4>2, <2>3 DEF BlockedForAReason
    <3>3. CASE call[f].op # "lock"
      BY <1>1, <2>2, <3>1, <3>3 DEF BlockedForAReason
    <3> QED BY <3>2, <3>3
  <2>7. WaitsAgree' /\ RunningFiber' /\ SlotsKept'
    BY <1>1, <2>1, <2>2 DEF WaitsAgree, RunningFiber, SlotsKept, Over, Live, TypeOK
  <2>8. JoinersAgree'
    BY <1>1, <2>1, <2>2 DEF JoinersAgree, Live, TypeOK
  <2>9. OneInitializer' /\ AbortOnlyWhenStuck'
    BY <1>1, <2>2 DEF OneInitializer, AbortOnlyWhenStuck
  <2> QED BY <2>4, <2>5, <2>6, <2>7, <2>8, <2>9
<1>3. CASE WaitFor(m)
  <2>1. /\ call' \in [Fibers -> Frames] /\ call'[current].op = "lock" /\ call'[current].arg = m
        /\ \A f \in Fibers \ {current} : call'[f] = call[f]
    <3>1. "lock" \in Ops /\ 0 \in Times /\ m \in Objects
      BY DEF Ops, Times, Objects
    <3> QED BY <3>1, <1>3, Entered DEF WaitFor
  <2>2. /\ state' = [state EXCEPT ![current] = "blocked"]
        /\ waitOn' = [waitOn EXCEPT ![current] = m]
        /\ UNCHANGED <<held, mutexEpoch, owner>> /\ phase' = "pick"
        /\ Holder(m) \in Fibers \ {current}
    <3>1. Holder(m) \in Fibers \cup {NULL}
      BY DEF TypeOK, Holder
    <3> QED BY <3>1, <1>3 DEF WaitFor, memory
  <2>3. \A n \in Mutexes : Holder(n)' = Holder(n)
    BY <1>1, <2>2 DEF Holder
  <2>4. TypeOK' /\ FramesAgree' /\ HoldersAgree'
    BY <1>1, <2>1, <2>2, <2>3 DEF TypeOK, FramesAgree, Phases, States, Objects, HoldersAgree
  <2>5. BlockedForAReason'
    <3> SUFFICES ASSUME NEW f \in Fibers, state'[f] = "blocked"
                 PROVE  BlockedForAReason!(f)'
      BY DEF BlockedForAReason
    <3>1. CASE f = current
      BY <1>1, <2>1, <2>2, <2>3, <3>1 DEF TypeOK
    <3>2. CASE f # current
      <4>1. /\ call'[f] = call[f] /\ waitOn'[f] = waitOn[f]
            /\ deadline'[f] = deadline[f] /\ state[f] = "blocked"
        BY <1>1, <2>1, <2>2, <3>2 DEF TypeOK
      <4>2. call[f].op = "join" => call[f].arg \in Fibers
        BY FrameOf
      <4>3. call[f].op = "lock" => call[f].arg \in Mutexes
        BY FrameOf
      <4> QED BY <1>1, <2>2, <2>3, <4>1, <4>2, <4>3 DEF BlockedForAReason, TypeOK
    <3> QED BY <3>1, <3>2
  <2>6. WaitsAgree' /\ RunningFiber' /\ SlotsKept'
    BY <1>1, <2>1, <2>2, FrameOf DEF WaitsAgree, RunningFiber, SlotsKept, Over, Live, TypeOK
  <2>7. JoinersAgree'
    BY <1>1, <2>1, <2>2, FrameOf DEF JoinersAgree, Live, TypeOK
  <2>8. OneInitializer' /\ AbortOnlyWhenStuck'
    BY <1>1, <2>2 DEF OneInitializer, AbortOnlyWhenStuck
  <2> QED BY <2>4, <2>5, <2>6, <2>7, <2>8
<1> QED BY <1>2, <1>3 DEF LockStep

LEMMA LockSteps ==
  ASSUME IInv, LockResume \/ CondResume \/ \E m \in Mutexes : Lock(m)
  PROVE  IInv'
<1> USE DEF IInv
<1>1. current \in Fibers /\ deadline \in [Fibers -> Times \cup {NULL}]
  BY DEF TypeOK
<1>2. call[current].op # "timed" => deadline[current] = NULL
  BY <1>1 DEF WaitsAgree
<1>3. CASE LockResume
  <2>1. call[current].arg \in Mutexes
    BY <1>1, <1>3, FrameOf DEF LockResume, Calls
  <2> QED BY <1>1, <1>2, <1>3, <2>1, LockStepKeeps DEF LockResume, Calls
<1>4. CASE CondResume
  <2>1. call[current].relock \in Mutexes
    BY <1>1, <1>4, FrameOf DEF CondResume, Calls
  <2>2. /\ deadline' \in [Fibers -> Times \cup {NULL}] /\ deadline'[current] = NULL
        /\ \A f \in Fibers \ {current} : deadline'[f] = deadline[f]
    BY <1>1, <1>2, <1>4 DEF CondResume, Calls
  <2> QED BY <1>4, <2>1, <2>2, LockStepKeeps DEF CondResume, Calls
<1>5. CASE \E m \in Mutexes : Lock(m)
  BY <1>1, <1>2, <1>5, LockStepKeeps DEF Lock, Calls
<1> QED BY <1>3, <1>4, <1>5

\* What a wakeup does to the table.
LEMMA Awoken ==
  ASSUME IInv, NEW x
  PROVE  /\ Woken(x) \in [Fibers -> States] /\ Cleared(x) \in [Fibers -> Objects \cup {NULL}]
         /\ \A f \in Fibers :
              /\ Woken(x)[f] = "blocked" =>
                   state[f] = "blocked" /\ waitOn[f] # x /\ Cleared(x)[f] = waitOn[f]
              /\ Woken(x)[f] = "runnable" =>
                   state[f] \in {"runnable", "blocked"}
                     /\ (Cleared(x)[f] = NULL \/ (state[f] = "runnable" /\ Cleared(x)[f] = waitOn[f]))
              /\ Woken(x)[f] = "free" <=> state[f] = "free"
              /\ Woken(x)[f] \in {"runnable", "blocked"} <=> Live(f)
              /\ state[f] = "runnable" => Woken(x)[f] = "runnable"
              /\ waitOn[f] = NULL => Cleared(x)[f] = NULL
  BY DEF IInv, TypeOK, Woken, Cleared, Sleepers, Live, States

\* Mutex m, if it is one, is let go by the current fiber, or nothing happens
\* to the mutexes; the waiters for x wake up.
LEMMA WakeKeeps ==
  ASSUME IInv, phase = "run", NEW x, pf_wake_waiters_on(x),
         UNCHANGED <<call, current, epoch, phase, now, joinable>>,
         \/ UNCHANGED <<mutexEpoch, owner, held>>
         \/ x \in Mutexes /\ Drop(x),
         \/ UNCHANGED <<once, initializing>>
         \/ /\ x \in Onces /\ initializing[current] = x
            /\ once' = [once EXCEPT ![x] = "done"]
            /\ initializing' = [initializing EXCEPT ![current] = NULL]
  PROVE  IInv'
<1> USE DEF IInv
<1>1. current \in Fibers /\ state[current] = "runnable"
  BY DEF RunningFiber, TypeOK
<1>2. state' = Woken(x) /\ waitOn' = Cleared(x)
      /\ UNCHANGED <<detached, joinWaiter, deadline, wokeByTimeout>>
  BY DEF pf_wake_waiters_on
<1>3. \A f \in Fibers : (Live(f))' <=> Live(f)
  BY <1>2, Awoken DEF Live
<1>4. TypeOK' /\ FramesAgree'
  BY <1>2, Awoken DEF TypeOK, FramesAgree, Drop
<1>5. \A n \in Mutexes : n # x => Holder(n)' = Holder(n)
  BY DEF Holder, Drop, TypeOK
<1>6. HoldersAgree'
  <2>1. CASE UNCHANGED <<mutexEpoch, owner, held>>
    BY <2>1 DEF HoldersAgree, Holder
  <2>2. CASE x \in Mutexes /\ Drop(x)
    <3>1. Holder(x)' = NULL
      BY <2>2 DEF Drop, Holder, TypeOK
    <3>2. Holder(x) = current
      BY <1>1, <2>2 DEF Drop, HoldersAgree
    <3>3. held' = [held EXCEPT ![current] = @ \ {x}] /\ held \in [Fibers -> SUBSET Mutexes]
      BY <2>2 DEF Drop, TypeOK
    <3> QED BY <1>1, <1>5, <3>1, <3>2, <3>3 DEF HoldersAgree
  <2> QED BY <2>1, <2>2
<1>7. BlockedForAReason'
  <2> SUFFICES ASSUME NEW f \in Fibers, state'[f] = "blocked"
               PROVE  BlockedForAReason!(f)'
    BY DEF BlockedForAReason
  <2>1. state[f] = "blocked" /\ waitOn[f] # x /\ waitOn'[f] = waitOn[f]
    BY <1>2, Awoken
  <2>2. CASE call[f].op = "lock"
    BY <1>2, <1>5, <2>1, <2>2, FrameOf DEF BlockedForAReason
  <2>3. CASE call[f].op = "join"
    BY <1>2, <1>3, <2>1, <2>3, FrameOf DEF BlockedForAReason, Live
  <2>4. CASE call[f].op = "once"
    BY <1>2, <2>1, <2>4, FrameOf DEF BlockedForAReason, TypeOK
  <2>5. CASE call[f].op \notin {"lock", "join", "once"}
    BY <1>2, <2>1, <2>5 DEF BlockedForAReason
  <2> QED BY <2>2, <2>3, <2>4, <2>5
<1>8. WaitsAgree'
  BY <1>2, Awoken DEF WaitsAgree
<1>9. JoinersAgree'
  BY <1>2, <1>3 DEF JoinersAgree, TypeOK
<1>10. RunningFiber' /\ AbortOnlyWhenStuck'
  BY <1>1, <1>2, Awoken DEF RunningFiber, AbortOnlyWhenStuck
<1>11. SlotsKept'
  <2>1. \A f \in Fibers : state'[f] = "free" <=> state[f] = "free"
    BY <1>2, Awoken
  <2> QED BY <1>1, <1>3, <2>1, FrameOf DEF SlotsKept, Over, TypeOK
<1>12. OneInitializer'
  BY <1>1 DEF OneInitializer, TypeOK
<1> QED BY <1>4, <1>6, <1>7, <1>8, <1>9, <1>10, <1>11, <1>12

LEMMA WakeSteps ==
  ASSUME IInv, \/ \E m \in Mutexes : Unlock(m)
               \/ \E c \in Conds : Signal(c)
               \/ InitDone
  PROVE  IInv'
<1>1. CASE \E m \in Mutexes : Unlock(m)
  BY <1>1, WakeKeeps DEF Unlock, Calls, stacks
<1>2. CASE \E c \in Conds : Signal(c)
  BY <1>2, WakeKeeps DEF Signal, Calls, stacks, memory, caller
<1>3. CASE InitDone
  <2>1. initializing[current] \in Onces
    BY <1>3 DEF InitDone, IInv, TypeOK
  <2> QED BY <1>3, <2>1, WakeKeeps DEF InitDone, Calls, caller
<1> QED BY <1>1, <1>2, <1>3

LEMMA MutexSteps ==
  ASSUME IInv, \E m \in Mutexes : MutexInit(m) \/ MutexDestroy(m)
  PROVE  IInv'
<1> USE DEF IInv
<1>1. PICK m \in Mutexes : MutexInit(m) \/ MutexDestroy(m)
  OBVIOUS
<1>2. /\ UNCHANGED <<table, stacks, current, epoch, phase, now, once, caller>> /\ Holder(m) = NULL
      /\ owner' = [owner EXCEPT ![m] = NULL]
      /\ \E e \in {0, epoch} : mutexEpoch' = [mutexEpoch EXCEPT ![m] = e]
  BY <1>1 DEF MutexInit, MutexDestroy, Unused
<1>3. \A n \in Mutexes : Holder(n)' = Holder(n)
  BY <1>2 DEF Holder, TypeOK
<1> USE DEF table, stacks, caller
<1>4. TypeOK' /\ FramesAgree' /\ HoldersAgree'
  BY <1>2, <1>3 DEF TypeOK, FramesAgree, HoldersAgree
<1>5. BlockedForAReason'
  BY <1>2, <1>3, FrameOf DEF BlockedForAReason
<1>6. WaitsAgree' /\ JoinersAgree' /\ RunningFiber' /\ SlotsKept' /\ OneInitializer'
  BY <1>2 DEF WaitsAgree, JoinersAgree, RunningFiber, SlotsKept, OneInitializer, Live, Over
<1>7. AbortOnlyWhenStuck'
  BY <1>1, <1>2 DEF AbortOnlyWhenStuck, MutexInit, MutexDestroy, Calls
<1> QED BY <1>4, <1>5, <1>6, <1>7

LEMMA SleepOnSteps ==
  ASSUME IInv, \/ \E c \in Conds, m \in Mutexes : CondWait(c, m)
               \/ \E c \in Conds, m \in Mutexes, t \in Times : CondTimedWait(c, m, t)
  PROVE  IInv'
<1> USE DEF IInv
<1>1. PICK c \in Conds, m \in Mutexes, how \in {"cond", "timed"} :
        /\ SleepOn(c, m, how)
        /\ deadline' \in [Fibers -> Times \cup {NULL}]
        /\ wokeByTimeout' \in [Fibers -> BOOLEAN]
        /\ how = "timed" => deadline'[current] # NULL
        /\ how = "cond" => deadline' = deadline
        /\ \A f \in Fibers \ {current} : deadline'[f] = deadline[f]
  <2>1. \A t \in Times : t # NULL
    BY DEF Times
  <2>2. current \in Fibers /\ deadline \in [Fibers -> Times \cup {NULL}]
        /\ wokeByTimeout \in [Fibers -> BOOLEAN]
    BY DEF TypeOK
  <2>3. ASSUME NEW c \in Conds, NEW m \in Mutexes, CondWait(c, m)
        PROVE  /\ SleepOn(c, m, "cond") /\ UNCHANGED <<deadline, wokeByTimeout>>
    BY <2>3 DEF CondWait
  <2>4. ASSUME NEW c \in Conds, NEW m \in Mutexes, NEW t \in Times, CondTimedWait(c, m, t)
        PROVE  /\ SleepOn(c, m, "timed") /\ deadline' = [deadline EXCEPT ![current] = t]
               /\ wokeByTimeout' = [wokeByTimeout EXCEPT ![current] = FALSE]
    BY <2>4 DEF CondTimedWait
  <2>5. CASE \E c \in Conds, m \in Mutexes : CondWait(c, m)
    BY <2>2, <2>3, <2>5
  <2>6. CASE \E c \in Conds, m \in Mutexes, t \in Times : CondTimedWait(c, m, t)
    <3>1. PICK c \in Conds, m \in Mutexes, t \in Times : CondTimedWait(c, m, t)
      BY <2>6
    <3>2. /\ SleepOn(c, m, "timed") /\ deadline' = [deadline EXCEPT ![current] = t]
          /\ wokeByTimeout' = [wokeByTimeout EXCEPT ![current] = FALSE] /\ t # NULL
      BY <2>1, <2>4, <3>1
    <3>3. /\ deadline' \in [Fibers -> Times \cup {NULL}] /\ deadline'[current] # NULL
          /\ wokeByTimeout' \in [Fibers -> BOOLEAN]
          /\ \A f \in Fibers \ {current} : deadline'[f] = deadline[f]
      BY <2>2, <3>2
    <3> QED BY <3>2, <3>3
  <2> QED BY <2>5, <2>6
<1>2. /\ current \in Fibers /\ state[current] = "runnable" /\ call[current].op = "user"
      /\ waitOn[current] = NULL /\ phase = "run"
  BY <1>1 DEF SleepOn, Calls, RunningFiber, TypeOK, WaitsAgree
<1>3. deadline[current] = NULL
  BY <1>2 DEF WaitsAgree
<1>4. /\ call' \in [Fibers -> Frames] /\ call'[current].op = how /\ call'[current].arg = c
      /\ call'[current].relock = m
      /\ \A f \in Fibers \ {current} : call'[f] = call[f]
  <2>1. how \in Ops /\ 0 \in Times /\ c \in Objects
    BY DEF Ops, Times, Objects
  <2> QED BY <2>1, <1>1, Entered DEF SleepOn
<1>5. /\ state'[current] = "blocked" /\ waitOn'[current] = c
      /\ state' \in [Fibers -> States] /\ waitOn' \in [Fibers -> Objects \cup {NULL}]
      /\ \A f \in Fibers \ {current} : state'[f] = Woken(m)[f] /\ waitOn'[f] = Cleared(m)[f]
  BY <1>1, <1>2, Awoken DEF SleepOn, States, Objects
<1>6. /\ Drop(m) /\ phase' = "pick"
      /\ UNCHANGED <<detached, joinWaiter, initializing, current, epoch, now, once, joinable>>
  BY <1>1 DEF SleepOn
<1>7. \A f \in Fibers : (Live(f))' <=> Live(f)
  BY <1>2, <1>5, Awoken DEF Live
<1>8. TypeOK' /\ FramesAgree'
  BY <1>1, <1>4, <1>5, <1>6 DEF TypeOK, FramesAgree, Drop, Phases
<1>9. \A n \in Mutexes : n # m => Holder(n)' = Holder(n)
  BY <1>6 DEF Holder, Drop, TypeOK
<1>10. HoldersAgree'
  <2>1. Holder(m)' = NULL
    BY <1>6 DEF Drop, Holder, TypeOK
  <2>2. Holder(m) = current
    BY <1>2, <1>6 DEF Drop, HoldersAgree
  <2>3. held' = [held EXCEPT ![current] = @ \ {m}] /\ held \in [Fibers -> SUBSET Mutexes]
    BY <1>6 DEF Drop, TypeOK
  <2> QED BY <1>2, <1>9, <2>1, <2>2, <2>3 DEF HoldersAgree
<1>11. BlockedForAReason'
  <2> SUFFICES ASSUME NEW f \in Fibers, state'[f] = "blocked"
               PROVE  BlockedForAReason!(f)'
    BY DEF BlockedForAReason
  <2>1. CASE f = current
    BY <1>1, <1>4, <1>5, <2>1
  <2>2. CASE f # current
    <3>1. /\ state[f] = "blocked" /\ waitOn[f] # m /\ waitOn'[f] = waitOn[f]
          /\ call'[f] = call[f] /\ deadline'[f] = deadline[f]
      BY <1>1, <1>4, <1>5, <2>2, Awoken
    <3>2. CASE call[f].op = "lock"
      BY <1>9, <3>1, <3>2, FrameOf DEF BlockedForAReason
    <3>3. CASE call[f].op = "join"
      BY <1>6, <1>7, <3>1, <3>3, FrameOf DEF BlockedForAReason, Live
    <3>4. CASE call[f].op \notin {"lock", "join"}
      BY <1>6, <3>1, <3>4 DEF BlockedForAReason
    <3> QED BY <3>2, <3>3, <3>4
  <2> QED BY <2>1, <2>2
<1>12. WaitsAgree'
  BY <1>1, <1>2, <1>3, <1>4, <1>5, Awoken DEF WaitsAgree
<1>13. JoinersAgree'
  BY <1>1, <1>2, <1>4, <1>6, <1>7 DEF JoinersAgree, TypeOK
<1>14. RunningFiber' /\ OneInitializer' /\ AbortOnlyWhenStuck'
  BY <1>6 DEF RunningFiber, OneInitializer, AbortOnlyWhenStuck
<1>15. SlotsKept'
  <2>1. \A f \in Fibers : state'[f] = "free" <=> state[f] = "free"
    BY <1>2, <1>5, Awoken
  <2> QED BY <1>1, <1>2, <1>4, <1>5, <1>6, <1>7, <2>1, FrameOf DEF SlotsKept, Over, TypeOK
<1> QED BY <1>8, <1>10, <1>11, <1>12, <1>13, <1>14, <1>15

-----------------------------------------------------------------------------
(* Threads. *)

LEMMA CreateStep ==
  ASSUME IInv, Create
  PROVE  IInv'
<1> USE DEF IInv
<1>1. PICK f \in Table :
        /\ state[f] = "free"
        /\ state' = [state EXCEPT ![f] = "runnable"]
        /\ detached' = [detached EXCEPT ![f] = FALSE]
        /\ joinWaiter' = [joinWaiter EXCEPT ![f] = NULL]
        /\ waitOn' = [waitOn EXCEPT ![f] = NULL]
        /\ deadline' = [deadline EXCEPT ![f] = NULL]
        /\ wokeByTimeout' = [wokeByTimeout EXCEPT ![f] = FALSE]
        /\ call' = [call EXCEPT ![f] = User]
        /\ joinable' = joinable \cup {f}
        /\ UNCHANGED <<initializing, current, epoch, phase, now, memory, held>>
  <2> DEFINE f == CHOOSE g \in FreeSlots : \A h \in FreeSlots : g <= h
  <2>1. FreeSlots \in SUBSET Nat /\ FreeSlots # {}
    BY DEF Create, FreeSlots
  <2>2. f \in FreeSlots
    <3>1. \E g \in FreeSlots : \A h \in FreeSlots : g <= h
      BY <2>1, LeastOf
    <3> QED BY <3>1
  <2> QED BY <2>2 DEF Create, FreeSlots
<1>2. /\ phase = "run" /\ current \in Fibers /\ state[current] = "runnable" /\ f # current
  BY <1>1 DEF Create, Calls, RunningFiber, TypeOK
<1>3. /\ call' \in [Fibers -> Frames] /\ call'[f].op = "user" /\ call'[f].arg = NULL
      /\ \A g \in Fibers \ {f} : call'[g] = call[g]
  BY <1>1, UserFrame DEF TypeOK
<1>4. TypeOK' /\ FramesAgree' /\ HoldersAgree'
  BY <1>1, <1>3 DEF TypeOK, FramesAgree, HoldersAgree, Holder, States, memory
<1>5. BlockedForAReason'
  <2> SUFFICES ASSUME NEW g \in Fibers, state'[g] = "blocked"
               PROVE  BlockedForAReason!(g)'
    BY DEF BlockedForAReason
  <2>1. g # f /\ state[g] = "blocked" /\ call'[g] = call[g] /\ waitOn'[g] = waitOn[g]
        /\ deadline'[g] = deadline[g]
    BY <1>1, <1>3 DEF TypeOK
  <2>2. call[g].op = "join" => /\ call[g].arg \in Fibers \ {f}
                               /\ state'[call[g].arg] = state[call[g].arg]
                               /\ joinWaiter'[call[g].arg] = joinWaiter[call[g].arg]
    BY <1>1, <2>1, FrameOf DEF BlockedForAReason, TypeOK
  <2> QED BY <1>1, <2>1, <2>2 DEF BlockedForAReason, Holder, memory
<1>6. WaitsAgree'
  BY <1>1, <1>3 DEF WaitsAgree, TypeOK
<1>7. \A g \in Fibers \ {f} : (Live(g))' <=> Live(g)
  BY <1>1 DEF Live, TypeOK
<1>8. \A g \in Fibers : call[g].op = "join" /\ Live(g) => call[g].arg \in Fibers \ {f}
  BY <1>1, FrameOf DEF SlotsKept
<1>9. JoinersAgree'
  <2>1. \A g \in joinable' : ~detached'[g]
    BY <1>1 DEF JoinersAgree, TypeOK
  <2>2. ASSUME NEW g \in Fibers, call'[g].op = "join", (Live(g))'
        PROVE  /\ call'[g].arg \notin joinable' /\ ~detached'[call'[g].arg]
               /\ \A h \in Fibers \ {g} :
                    call'[h].op = "join" /\ (Live(h))' => call'[h].arg # call'[g].arg
    <3>1. g # f /\ call'[g] = call[g] /\ Live(g) /\ call[g].arg \in Fibers \ {f}
      BY <1>3, <1>7, <1>8, <2>2
    <3>2. \A h \in Fibers : call'[h].op = "join" /\ (Live(h))' => call'[h] = call[h] /\ Live(h)
      BY <1>3, <1>7
    <3> QED BY <1>1, <2>2, <3>1, <3>2 DEF JoinersAgree, TypeOK
  <2>3. ASSUME NEW g \in Fibers, (Live(g))', joinWaiter'[g] # NULL
        PROVE  /\ (Live(joinWaiter[g]))' /\ joinWaiter'[g] = joinWaiter[g]
               /\ call'[joinWaiter[g]].op = "join" /\ call'[joinWaiter[g]].arg = g
    <3>1. g # f /\ Live(g) /\ joinWaiter'[g] = joinWaiter[g] /\ joinWaiter[g] \in Fibers
      BY <1>1, <1>7, <2>3 DEF TypeOK
    <3>2. joinWaiter[g] # f
      BY <1>1, <2>3, <3>1 DEF JoinersAgree, Live
    <3> QED BY <1>3, <1>7, <2>3, <3>1, <3>2 DEF JoinersAgree
  <2> QED BY <2>1, <2>2, <2>3 DEF JoinersAgree, Live
<1>10. RunningFiber' /\ OneInitializer' /\ AbortOnlyWhenStuck'
  BY <1>1, <1>2, <1>3 DEF RunningFiber, OneInitializer, AbortOnlyWhenStuck, memory, TypeOK
<1>11. SlotsKept'
  BY <1>1, <1>2, <1>3, <1>7, <1>8 DEF SlotsKept, Over, TypeOK
<1> QED BY <1>4, <1>5, <1>6, <1>9, <1>10, <1>11

LEMMA ExitStep ==
  ASSUME IInv, Exit
  PROVE  IInv'
<1> USE DEF IInv
<1> DEFINE j == joinWaiter[current]
<1>1. /\ current \in Table /\ state[current] = "runnable" /\ phase = "run"
      /\ call[current].op = "user" /\ waitOn[current] = NULL /\ deadline[current] = NULL
      /\ initializing[current] = NULL
  BY DEF Exit, Calls, RunningFiber, TypeOK, WaitsAgree
<1>2. /\ call' \in [Fibers -> Frames] /\ call'[current].op = "exit"
      /\ \A f \in Fibers \ {current} : call'[f] = call[f]
  <2>1. "exit" \in Ops /\ 0 \in Times
    BY DEF Ops, Times
  <2> QED BY <2>1, Entered DEF Exit
<1>3. /\ UNCHANGED <<detached, waitOn, deadline, wokeByTimeout, initializing, current, epoch,
                     now, memory, caller>>
      /\ phase' = "pick" /\ joinWaiter' = [joinWaiter EXCEPT ![current] = NULL]
      /\ state' = [f \in Fibers |-> IF f = current THEN "done"
                                    ELSE IF f = j THEN "runnable" ELSE state[f]]
  BY DEF Exit
<1> USE DEF memory, caller
<1>4. j # NULL => /\ j \in Fibers \ {current} /\ Live(j) /\ waitOn[j] = NULL
                  /\ call[j].op = "join" /\ call[j].arg = current
  BY <1>1 DEF JoinersAgree, TypeOK, Live, WaitsAgree
<1>5. \A f \in Fibers \ {current} : (Live(f))' <=> Live(f)
  BY <1>3, <1>4 DEF Live
<1>6. state'[current] = "done" /\ ~(Live(current))'
  BY <1>1, <1>3 DEF Live
<1>7. TypeOK' /\ FramesAgree' /\ HoldersAgree'
  <2>1. state' \in [Fibers -> States]
    BY <1>3 DEF TypeOK, States
  <2> QED BY <1>2, <1>3, <2>1 DEF TypeOK, FramesAgree, HoldersAgree, Holder, Phases
<1>8. BlockedForAReason'
  <2> SUFFICES ASSUME NEW f \in Fibers, state'[f] = "blocked"
               PROVE  BlockedForAReason!(f)'
    BY DEF BlockedForAReason
  <2>1. f # current /\ f # j /\ state[f] = "blocked" /\ call'[f] = call[f]
    BY <1>2, <1>3
  <2>2. CASE call[f].op = "join"
    <3>1. /\ call[f].arg \in Fibers \ {current} /\ joinWaiter[call[f].arg] = f
          /\ state[call[f].arg] \in {"runnable", "blocked"}
      BY <2>1, <2>2, FrameOf DEF BlockedForAReason
    <3>2. /\ state'[call[f].arg] \in {"runnable", "blocked"}
          /\ joinWaiter'[call[f].arg] = f
      BY <1>3, <3>1 DEF TypeOK
    <3> QED BY <2>1, <2>2, <3>2
  <2>3. CASE call[f].op # "join"
    BY <1>3, <2>1, <2>3 DEF BlockedForAReason, Holder
  <2> QED BY <2>2, <2>3
<1>9. WaitsAgree'
  BY <1>1, <1>2, <1>3, <1>4 DEF WaitsAgree
<1>10. JoinersAgree'
  <2>1. \A f \in joinable' : ~detached'[f]
    BY <1>3 DEF JoinersAgree
  <2>2. ASSUME NEW g \in Fibers, call'[g].op = "join", (Live(g))'
        PROVE  /\ call'[g].arg \notin joinable' /\ ~detached'[call'[g].arg]
               /\ \A h \in Fibers \ {g} :
                    call'[h].op = "join" /\ (Live(h))' => call'[h].arg # call'[g].arg
    <3>1. \A h \in Fibers : call'[h].op = "join" => h # current /\ call'[h] = call[h]
      BY <1>2
    <3> QED BY <1>3, <1>5, <2>2, <3>1 DEF JoinersAgree
  <2>3. ASSUME NEW g \in Fibers, (Live(g))', joinWaiter'[g] # NULL
        PROVE  /\ (Live(joinWaiter[g]))' /\ joinWaiter'[g] = joinWaiter[g]
               /\ call'[joinWaiter[g]].op = "join" /\ call'[joinWaiter[g]].arg = g
    <3>1. g # current /\ Live(g) /\ joinWaiter'[g] = joinWaiter[g] /\ joinWaiter[g] \in Fibers
      BY <1>3, <1>5, <1>6, <2>3 DEF TypeOK
    <3>2. Live(joinWaiter[g]) /\ call[joinWaiter[g]].op = "join" /\ call[joinWaiter[g]].arg = g
      BY <2>3, <3>1 DEF JoinersAgree
    <3>3. joinWaiter[g] # current
      BY <1>1, <3>2
    <3> QED BY <1>2, <1>5, <3>1, <3>2, <3>3
  <2> QED BY <2>1, <2>2, <2>3 DEF JoinersAgree, Live
<1>11. RunningFiber' /\ OneInitializer' /\ AbortOnlyWhenStuck'
  BY <1>3 DEF RunningFiber, OneInitializer, AbortOnlyWhenStuck
<1>12. SlotsKept'
  <2>1. \A f \in Fibers : state'[f] = "free" => state[f] = "free"
    BY <1>3
  <2>2. \A f \in Fibers : call'[f].op = "join" => call'[f] = call[f] /\ f # current
    BY <1>2
  <2> QED BY <1>3, <1>5, <1>6, <2>1, <2>2, FrameOf DEF SlotsKept, Over, TypeOK
<1> QED BY <1>7, <1>8, <1>9, <1>10, <1>11, <1>12

\* A finished thread's slot is freed, by the last who had a claim on it; the
\* current fiber goes on with its own code.
LEMMA FreedKeeps ==
  ASSUME IInv, phase = "run", phase' = "run",
         NEW f \in Table \ {current}, state[f] = "done",
         state' = [state EXCEPT ![f] = "free"],
         joinable' \in SUBSET Table, joinable' \subseteq joinable \ {f},
         \A g \in Fibers \ {current} : call[g].op = "join" /\ Live(g) => call[g].arg # f,
         call' \in [Fibers -> Frames], call'[current].op = "user",
         \A g \in Fibers \ {current} : call'[g] = call[g],
         joinWaiter' \in [Fibers -> Fibers \cup {NULL}],
         \A g \in Fibers \ {f} : joinWaiter'[g] = joinWaiter[g],
         call[current].op = "user" \/ (call[current].op = "join" /\ call[current].arg = f),
         detached' \in [Fibers -> BOOLEAN],
         \A g \in Fibers \ {f} : detached'[g] = detached[g],
         UNCHANGED <<waitOn, deadline, wokeByTimeout, initializing, current, epoch, now,
                     memory, held>>
  PROVE  IInv'
<1> USE DEF IInv, memory
<1>1. current \in Fibers /\ state[current] = "runnable" /\ waitOn[current] = NULL
      /\ deadline[current] = NULL
  BY DEF RunningFiber, TypeOK, WaitsAgree
<1>2. /\ state'[f] = "free" /\ ~(Live(f))' /\ ~Live(f)
      /\ \A g \in Fibers \ {f} : state'[g] = state[g]
      /\ \A g \in Fibers : (Live(g))' <=> Live(g)
  BY DEF Live, TypeOK
<1>3. TypeOK' /\ FramesAgree' /\ HoldersAgree'
  BY DEF TypeOK, FramesAgree, HoldersAgree, Holder, States
<1>4. BlockedForAReason'
  <2> SUFFICES ASSUME NEW g \in Fibers, state'[g] = "blocked"
               PROVE  BlockedForAReason!(g)'
    BY DEF BlockedForAReason
  <2>1. g # current /\ g # f /\ state[g] = "blocked" /\ call'[g] = call[g]
    BY <1>1, <1>2
  <2>2. call[g].op = "join" => call[g].arg \in Fibers \ {f}
    BY <2>1, FrameOf DEF BlockedForAReason
  <2> QED BY <1>2, <2>1, <2>2 DEF BlockedForAReason, Holder
<1>5. WaitsAgree'
  BY <1>1, <1>2 DEF WaitsAgree
<1>6. \A g \in Fibers : call'[g].op = "join" /\ (Live(g))' =>
         g # current /\ call'[g] = call[g] /\ Live(g) /\ call[g].arg \in Fibers \ {f}
  BY <1>2, FrameOf
<1>7. JoinersAgree'
  <2>1. \A g \in joinable' : ~detached'[g]
    BY DEF JoinersAgree, TypeOK
  <2>2. ASSUME NEW g \in Fibers, call'[g].op = "join", (Live(g))'
        PROVE  /\ call'[g].arg \notin joinable' /\ ~detached'[call'[g].arg]
               /\ \A h \in Fibers \ {g} :
                    call'[h].op = "join" /\ (Live(h))' => call'[h].arg # call'[g].arg
    BY <1>6, <2>2 DEF JoinersAgree
  <2>3. ASSUME NEW g \in Fibers, (Live(g))', joinWaiter'[g] # NULL
        PROVE  /\ (Live(joinWaiter[g]))' /\ joinWaiter'[g] = joinWaiter[g]
               /\ call'[joinWaiter[g]].op = "join" /\ call'[joinWaiter[g]].arg = g
    <3>1. g # f /\ Live(g) /\ joinWaiter'[g] = joinWaiter[g] /\ joinWaiter[g] \in Fibers
      BY <1>2, <2>3 DEF TypeOK
    <3>2. Live(joinWaiter[g]) /\ call[joinWaiter[g]].op = "join" /\ call[joinWaiter[g]].arg = g
      BY <2>3, <3>1 DEF JoinersAgree
    <3>3. joinWaiter[g] # current
      BY <3>1, <3>2
    <3> QED BY <1>2, <3>1, <3>2, <3>3
  <2> QED BY <2>1, <2>2, <2>3 DEF JoinersAgree, Live
<1>8. RunningFiber' /\ OneInitializer' /\ AbortOnlyWhenStuck'
  BY <1>1, <1>2 DEF RunningFiber, OneInitializer, AbortOnlyWhenStuck
<1>9. SlotsKept'
  BY <1>1, <1>2, <1>6 DEF SlotsKept, Over, TypeOK
<1> QED BY <1>3, <1>4, <1>5, <1>7, <1>8, <1>9

LEMMA JoinSteps ==
  ASSUME IInv, JoinResume \/ \E f \in Table : Join(f)
  PROVE  IInv'
<1> USE DEF IInv
<1>1. /\ phase = "run" /\ current \in Fibers /\ state[current] = "runnable" /\ Live(current)
      /\ waitOn[current] = NULL
      /\ deadline[current] = NULL
  BY DEF JoinResume, Join, Calls, RunningFiber, TypeOK, WaitsAgree, Live
<1>2. ASSUME NEW f \in Table \ {current}, state[f] = "done", Reap(f)
      PROVE  /\ phase' = "run" /\ state' = [state EXCEPT ![f] = "free"]
             /\ call' \in [Fibers -> Frames] /\ call'[current].op = "user"
             /\ \A g \in Fibers \ {current} : call'[g] = call[g]
  <2>1. [state EXCEPT ![f] = "free", ![current] = "runnable"] = [state EXCEPT ![f] = "free"]
    BY <1>1, <1>2 DEF TypeOK
  <2> QED BY <1>1, <1>2, <2>1, Returned DEF Reap
<1>3. CASE JoinResume
  <2> DEFINE f == call[current].arg
  <2>1. call[current].op = "join" /\ f \in Table \ {current}
    BY <1>1, <1>3, FrameOf DEF JoinResume, Calls
  <2>2. CASE state[f] = "done" /\ Reap(f)
    <3>1. \A g \in Fibers \ {current} : call[g].op = "join" /\ Live(g) => call[g].arg # f
      BY <1>1, <2>1 DEF JoinersAgree
    <3>2. joinable' \in SUBSET Table /\ joinable' \subseteq joinable \ {f}
      BY <1>1, <1>3, <2>1 DEF JoinResume, JoinersAgree, TypeOK, caller
    <3> QED BY <1>1, <1>2, <1>3, <2>1, <2>2, <3>1, <3>2, FreedKeeps
            DEF JoinResume, caller, TypeOK
  <2>3. CASE phase' = "pick" /\ UNCHANGED <<state, call>>
    <3>1. UNCHANGED <<table, stacks, current, epoch, now, memory, caller>>
      BY <1>3, <2>3 DEF JoinResume, table, stacks
    <3> USE DEF table, stacks, memory, caller
    <3>2. TypeOK' /\ FramesAgree' /\ HoldersAgree'
      BY <2>3, <3>1 DEF TypeOK, FramesAgree, HoldersAgree, Holder, Phases
    <3>3. BlockedForAReason' /\ WaitsAgree' /\ JoinersAgree' /\ OneInitializer'
      BY <3>1 DEF BlockedForAReason, WaitsAgree, JoinersAgree, OneInitializer, Holder, Live
    <3>4. RunningFiber' /\ SlotsKept' /\ AbortOnlyWhenStuck'
      BY <1>1, <2>3, <3>1 DEF RunningFiber, SlotsKept, Live, Over, AbortOnlyWhenStuck
    <3> QED BY <3>2, <3>3, <3>4
  <2> QED BY <1>3, <2>2, <2>3 DEF JoinResume
<1>4. CASE \E f \in Table : Join(f)
  <2>1. PICK f \in Table : Join(f)
    BY <1>4
  <2>2. /\ f \in joinable \ {current} /\ call[current].op = "user"
        /\ joinWaiter' = [joinWaiter EXCEPT ![f] = current]
        /\ joinable' = joinable \ {f}
        /\ UNCHANGED <<detached, waitOn, deadline, wokeByTimeout, initializing, current, epoch,
                       now, memory, held>>
    BY <2>1 DEF Join, Calls
  <2>3. \A g \in Fibers : call[g].op = "join" /\ Live(g) => call[g].arg # f
    BY <2>2 DEF JoinersAgree
  <2>4. CASE state[f] = "done" /\ Reap(f)
    BY <1>1, <1>2, <2>2, <2>3, <2>4, FreedKeeps DEF TypeOK
  <2>5. CASE /\ state[f] # "done"
             /\ state' = [state EXCEPT ![current] = "blocked"]
             /\ Enter("join", f, NULL, 0)
             /\ phase' = "pick"
    <3> USE DEF memory
    <3>1. /\ call' \in [Fibers -> Frames] /\ call'[current].op = "join" /\ call'[current].arg = f
          /\ \A g \in Fibers \ {current} : call'[g] = call[g]
      <4>1. "join" \in Ops /\ 0 \in Times
        BY DEF Ops, Times
      <4> QED BY <4>1, <2>5, Entered
    <3>2. Live(f) /\ ~detached[f]
      BY <2>2, <2>5 DEF SlotsKept, JoinersAgree, Live, TypeOK, States
    <3>3. /\ state'[current] = "blocked"
          /\ \A g \in Fibers \ {current} : state'[g] = state[g]
          /\ \A g \in Fibers : (Live(g))' <=> Live(g)
      BY <1>1, <2>5 DEF Live, TypeOK
    <3>4. TypeOK' /\ FramesAgree' /\ HoldersAgree'
      BY <2>2, <2>5, <3>1 DEF TypeOK, FramesAgree, HoldersAgree, Holder, States, Phases
    <3>5. BlockedForAReason'
      <4> SUFFICES ASSUME NEW g \in Fibers, state'[g] = "blocked"
                   PROVE  BlockedForAReason!(g)'
        BY DEF BlockedForAReason
      <4>1. CASE g = current
        BY <2>2, <3>1, <3>2, <3>3, <4>1 DEF Live, TypeOK
      <4>2. CASE g # current
        <5>1. state[g] = "blocked" /\ call'[g] = call[g]
          BY <3>1, <3>3, <4>2
        <5>2. call[g].op = "join" => call[g].arg \in Fibers \ {f} /\ Live(call[g].arg)
          BY <2>3, <5>1, FrameOf DEF BlockedForAReason, Live
        <5> QED BY <2>2, <3>3, <5>1, <5>2 DEF BlockedForAReason, Holder, Live, TypeOK
      <4> QED BY <4>1, <4>2
    <3>6. WaitsAgree'
      BY <1>1, <2>2, <3>1, <3>3 DEF WaitsAgree
    <3>7. JoinersAgree'
      <4>1. \A g \in joinable' : ~detached'[g]
        BY <2>2 DEF JoinersAgree
      <4>2. ASSUME NEW g \in Fibers, call'[g].op = "join", (Live(g))'
            PROVE  /\ call'[g].arg \notin joinable' /\ ~detached'[call'[g].arg]
                   /\ \A h \in Fibers \ {g} :
                        call'[h].op = "join" /\ (Live(h))' => call'[h].arg # call'[g].arg
        BY <2>2, <2>3, <3>1, <3>2, <3>3, <4>2 DEF JoinersAgree
      <4>3. ASSUME NEW g \in Fibers, (Live(g))', joinWaiter'[g] # NULL
            PROVE  /\ (Live(joinWaiter[g]))'
                   /\ call'[joinWaiter'[g]].op = "join" /\ call'[joinWaiter'[g]].arg = g
                   /\ (Live(joinWaiter[g]))' <=> state'[joinWaiter'[g]] \in {"runnable", "blocked"}
        <5>1. CASE g = f
          BY <1>1, <2>2, <3>1, <3>3, <5>1 DEF Live, TypeOK
        <5>2. CASE g # f
          <6>1. joinWaiter'[g] = joinWaiter[g] /\ joinWaiter[g] \in Fibers /\ Live(g)
            BY <2>2, <3>3, <4>3, <5>2 DEF TypeOK
          <6>2. /\ Live(joinWaiter[g]) /\ call[joinWaiter[g]].op = "join"
                /\ call[joinWaiter[g]].arg = g
            BY <4>3, <6>1 DEF JoinersAgree
          <6>3. joinWaiter[g] # current
            BY <2>2, <6>2
          <6> QED BY <3>1, <3>3, <6>1, <6>2, <6>3 DEF Live
        <5> QED BY <5>1, <5>2
      <4> QED BY <4>1, <4>2, <4>3 DEF JoinersAgree, Live
    <3>8. RunningFiber' /\ OneInitializer' /\ AbortOnlyWhenStuck'
      BY <2>2, <2>5 DEF RunningFiber, OneInitializer, AbortOnlyWhenStuck
    <3>9. SlotsKept'
      <4>1. \A g \in Fibers : state'[g] = "free" <=> state[g] = "free"
        BY <1>1, <3>3
      <4>2. \A g \in Fibers : call'[g].op = "join" => \/ g = current /\ call'[g].arg = f
                                                      \/ call'[g] = call[g]
        BY <3>1
      <4> QED BY <1>1, <2>2, <3>2, <3>3, <4>1, <4>2, FrameOf DEF SlotsKept, Over, Live, TypeOK
    <3> QED BY <3>4, <3>5, <3>6, <3>7, <3>8, <3>9
  <2> QED BY <2>1, <2>4, <2>5 DEF Join
<1> QED BY <1>3, <1>4

LEMMA DetachStep ==
  ASSUME IInv, \E f \in Table : Detach(f)
  PROVE  IInv'
<1> USE DEF IInv
<1>1. PICK f \in Table : Detach(f)
  OBVIOUS
<1>2. /\ phase = "run" /\ phase' = "run" /\ call[current].op = "user" /\ f \in joinable
      /\ current \in Fibers /\ state[current] = "runnable" /\ call' = call
      /\ detached' = [detached EXCEPT ![f] = TRUE]
      /\ joinable' = joinable \ {f}
      /\ UNCHANGED <<joinWaiter, waitOn, deadline, wokeByTimeout, stacks,
                     current, epoch, phase, now, memory, held>>
  BY <1>1 DEF Detach, Calls, RunningFiber, TypeOK, stacks
<1>3. \A g \in Fibers : call[g].op = "join" /\ Live(g) => call[g].arg # f
  BY <1>2 DEF JoinersAgree
<1>4. CASE state[f] = "done"
  <2>1. f # current /\ state' = [state EXCEPT ![f] = "free"]
    BY <1>1, <1>2, <1>4 DEF Detach, TypeOK
  <2> QED BY <1>2, <1>3, <1>4, <2>1, FreedKeeps DEF TypeOK, stacks
<1>5. CASE state[f] # "done"
  <2> USE DEF stacks, memory
  <2>1. state' = state
    BY <1>1, <1>5 DEF Detach, TypeOK
  <2>2. TypeOK' /\ FramesAgree' /\ HoldersAgree'
    BY <1>2, <2>1 DEF TypeOK, FramesAgree, HoldersAgree, Holder
  <2>3. BlockedForAReason' /\ WaitsAgree' /\ OneInitializer'
    BY <1>2, <2>1 DEF BlockedForAReason, WaitsAgree, OneInitializer, Holder
  <2>4. JoinersAgree'
    BY <1>2, <1>3, <2>1 DEF JoinersAgree, Live, TypeOK
  <2>5. RunningFiber' /\ SlotsKept' /\ AbortOnlyWhenStuck'
    BY <1>2, <2>1 DEF RunningFiber, SlotsKept, Live, Over, AbortOnlyWhenStuck
  <2> QED BY <2>2, <2>3, <2>4, <2>5
<1> QED BY <1>4, <1>5

-----------------------------------------------------------------------------
(* pthread_once. *)

LEMMA OnceSteps ==
  ASSUME IInv, OnceResume \/ \E o \in Onces : Once(o)
  PROVE  IInv'
<1> USE DEF IInv, memory, caller
<1>1. /\ phase = "run" /\ current \in Fibers /\ state[current] = "runnable"
      /\ waitOn[current] = NULL /\ deadline[current] = NULL
      /\ call[current].op \in {"user", "once"}
      /\ UNCHANGED <<detached, joinWaiter, deadline, wokeByTimeout, current, epoch, now,
                     mutexEpoch, owner, caller>>
  BY DEF OnceResume, Once, Calls, RunningFiber, TypeOK, WaitsAgree
<1>2. PICK o \in Onces :
        \/ RunInitializer(o)
        \/ /\ once[o] = "running" /\ phase' = "pick"
           /\ UNCHANGED <<state, waitOn, call, once, initializing>>
        \/ /\ once[o] = "done"
           /\ Return
           /\ UNCHANGED <<state, waitOn, phase, once, initializing>>
        \/ /\ once[o] = "running"
           /\ waitOn' = [waitOn EXCEPT ![current] = o]
           /\ state' = [state EXCEPT ![current] = "blocked"]
           /\ Enter("once", o, NULL, 0)
           /\ phase' = "pick"
           /\ UNCHANGED <<once, initializing>>
  <2>1. CASE OnceResume
    <3>1. call[current].arg \in Onces
      BY <1>1, <2>1, FrameOf DEF OnceResume, Calls
    <3> QED BY <2>1, <3>1 DEF OnceResume
  <2>2. CASE \E o \in Onces : Once(o)
    BY <2>2 DEF Once
  <2> QED BY <2>1, <2>2
<1>3. /\ call' \in [Fibers -> Frames]
      /\ \A g \in Fibers \ {current} : call'[g] = call[g]
      /\ call'[current].op \in {"user", "once"}
      /\ call'[current].op = "once" => call'[current].arg \in Onces
      /\ state'[current] = "blocked" =>
           /\ phase' = "pick" /\ once'[call'[current].arg] = "running"
           /\ call'[current].op = "once" /\ waitOn'[current] = call'[current].arg
      /\ state'[current] # "blocked" => state'[current] = "runnable" /\ waitOn'[current] = NULL
  <2>1. CASE RunInitializer(o)
    BY <1>1, <2>1, Returned DEF RunInitializer
  <2>2. CASE UNCHANGED <<state, waitOn, call>>
    BY <1>1, <2>2, FrameOf DEF TypeOK
  <2>3. CASE Return /\ UNCHANGED <<state, waitOn>>
    BY <1>1, <2>3, Returned
  <2>4. CASE /\ once[o] = "running"
             /\ waitOn' = [waitOn EXCEPT ![current] = o]
             /\ state' = [state EXCEPT ![current] = "blocked"]
             /\ Enter("once", o, NULL, 0)
             /\ phase' = "pick"
             /\ UNCHANGED <<once, initializing>>
    <3>1. "once" \in Ops /\ 0 \in Times /\ o \in Objects
      BY DEF Ops, Times, Objects
    <3> QED BY <1>1, <2>4, <3>1, Entered DEF TypeOK
  <2> QED BY <1>2, <2>1, <2>2, <2>3, <2>4
<1>4. /\ state' \in [Fibers -> States] /\ waitOn' \in [Fibers -> Objects \cup {NULL}]
      /\ phase' \in {"run", "pick"}
      /\ phase' = "run" => state'[current] = "runnable"
      /\ \A g \in Fibers \ {current} : state'[g] = state[g] /\ waitOn'[g] = waitOn[g]
  BY <1>1, <1>2 DEF RunInitializer, TypeOK, States, Objects
<1>5. /\ once' \in [Onces -> {"new", "running", "done"}]
      /\ initializing' \in [Fibers -> Onces \cup {NULL}]
      /\ \A q \in Onces : once[q] = "running" => once'[q] = "running"
  BY <1>1, <1>2 DEF RunInitializer, TypeOK
<1>6. \A g \in Fibers : (Live(g))' <=> Live(g)
  BY <1>1, <1>3, <1>4 DEF Live
<1>7. TypeOK' /\ FramesAgree' /\ HoldersAgree'
  BY <1>1, <1>3, <1>4, <1>5 DEF TypeOK, FramesAgree, HoldersAgree, Holder, Phases
<1>8. BlockedForAReason'
  <2> SUFFICES ASSUME NEW g \in Fibers, state'[g] = "blocked"
               PROVE  BlockedForAReason!(g)'
    BY DEF BlockedForAReason
  <2>1. CASE g = current
    BY <1>3, <2>1
  <2>2. CASE g # current
    <3>1. state[g] = "blocked" /\ call'[g] = call[g] /\ waitOn'[g] = waitOn[g]
      BY <1>3, <1>4, <2>2
    <3>2. CASE call[g].op = "join"
      BY <1>1, <1>6, <3>1, <3>2, FrameOf DEF BlockedForAReason, Live
    <3>3. CASE call[g].op = "once"
      BY <1>5, <3>1, <3>3, FrameOf DEF BlockedForAReason
    <3>4. CASE call[g].op \notin {"join", "once"}
      BY <1>1, <3>1, <3>4 DEF BlockedForAReason, Holder
    <3> QED BY <3>2, <3>3, <3>4
  <2> QED BY <2>1, <2>2
<1>9. WaitsAgree'
  BY <1>1, <1>3, <1>4 DEF WaitsAgree
<1>10. JoinersAgree'
  BY <1>1, <1>3, <1>6 DEF JoinersAgree, TypeOK
<1>11. RunningFiber' /\ AbortOnlyWhenStuck'
  BY <1>1, <1>4 DEF RunningFiber, AbortOnlyWhenStuck
<1>12. SlotsKept'
  <2>1. \A g \in Fibers : state'[g] = "free" <=> state[g] = "free"
    BY <1>1, <1>3, <1>4
  <2> QED BY <1>1, <1>3, <1>6, <2>1, FrameOf DEF SlotsKept, Over, TypeOK
<1>13. OneInitializer'
  <2>1. CASE RunInitializer(o)
    <3>1. /\ once[o] = "new" /\ once'[o] = "running"
          /\ initializing' = [initializing EXCEPT ![current] = o]
      BY <2>1 DEF RunInitializer, TypeOK
    <3>2. \A g \in Fibers : initializing[g] # o
      BY <3>1 DEF OneInitializer, TypeOK
    <3> QED BY <1>1, <1>5, <3>1, <3>2 DEF OneInitializer, TypeOK
  <2>2. CASE UNCHANGED <<once, initializing>>
    BY <2>2 DEF OneInitializer
  <2> QED BY <1>2, <2>1, <2>2
<1> QED BY <1>7, <1>8, <1>9, <1>10, <1>11, <1>12, <1>13

-----------------------------------------------------------------------------
(* Commands, and the invariant. *)

LEMMA Begun ==
  ASSUME IInv, BeginCall
  PROVE  IInv'
<1> USE DEF IInv, memory, caller
<1>1. /\ epoch \in 1 .. MaxEpoch /\ epoch' \in 1 .. MaxEpoch /\ epoch' = epoch + 1
      /\ Main \in Fibers /\ current' = Main /\ phase' = "run"
      /\ \A f \in Fibers : /\ state'[f] = IF f = Main THEN "runnable" ELSE "free"
                           /\ waitOn'[f] = NULL /\ deadline'[f] = NULL /\ joinWaiter'[f] = NULL
                           /\ call'[f].op = "user" /\ initializing'[f] = NULL /\ held'[f] = {}
      /\ joinable' = {} /\ UNCHANGED <<now, mutexEpoch, owner, once>>
  BY UserFrame DEF BeginCall, TypeOK
<1>2. TypeOK'
  BY <1>1, UserFrame DEF BeginCall, TypeOK, States, Phases
<1>3. \A m \in Mutexes : mutexEpoch[m] \in 0 .. MaxEpoch /\ mutexEpoch[m] <= epoch
  BY DEF TypeOK, FramesAgree
<1>4. FramesAgree'
  BY <1>1, <1>3 DEF FramesAgree
<1>5. HoldersAgree'
  <2>1. \A m \in Mutexes : mutexEpoch'[m] # epoch'
    BY <1>1, <1>3
  <2>2. NULL \notin Fibers
    OBVIOUS
  <2> QED BY <1>1, <2>1, <2>2 DEF HoldersAgree, Holder
<1>6. BlockedForAReason' /\ WaitsAgree' /\ JoinersAgree' /\ OneInitializer'
  BY <1>1 DEF BlockedForAReason, WaitsAgree, JoinersAgree, OneInitializer
<1>7. RunningFiber' /\ SlotsKept' /\ AbortOnlyWhenStuck'
  BY <1>1 DEF RunningFiber, SlotsKept, AbortOnlyWhenStuck
<1> QED BY <1>2, <1>4, <1>5, <1>6, <1>7

LEMMA Unmoved ==
  ASSUME IInv, UNCHANGED vars
  PROVE  IInv'
<1> USE DEF IInv, vars, table, stacks, memory, caller
<1>1. TypeOK' /\ FramesAgree' /\ HoldersAgree'
  BY DEF TypeOK, FramesAgree, HoldersAgree, Holder
<1>2. BlockedForAReason' /\ WaitsAgree' /\ JoinersAgree' /\ OneInitializer'
  BY DEF BlockedForAReason, WaitsAgree, JoinersAgree, OneInitializer, Holder, Live
<1>3. RunningFiber' /\ SlotsKept' /\ AbortOnlyWhenStuck'
  BY DEF RunningFiber, SlotsKept, AbortOnlyWhenStuck, Live, Over, CanProceed, Holder
<1> QED BY <1>1, <1>2, <1>3

LEMMA InitInvariant == Init => IInv
<1> SUFFICES ASSUME Init PROVE IInv
  OBVIOUS
<1> USE DEF IInv
<1>1. TypeOK
  BY InitType
<1>2. /\ phase = "unstarted" /\ joinable = {} /\ epoch = 1
      /\ \A m \in Mutexes : mutexEpoch[m] = 0
      /\ \A f \in Fibers : /\ state[f] = "free" /\ waitOn[f] = NULL /\ deadline[f] = NULL
                           /\ joinWaiter[f] = NULL /\ initializing[f] = NULL /\ held[f] = {}
                           /\ call[f].op = "user"
  BY UserFrame DEF Init
<1>3. FramesAgree /\ HoldersAgree
  <2>1. NULL \notin Fibers
    OBVIOUS
  <2> QED BY <1>2, <2>1 DEF FramesAgree, HoldersAgree, Holder
<1>4. BlockedForAReason /\ WaitsAgree /\ JoinersAgree /\ OneInitializer
  BY <1>2 DEF BlockedForAReason, WaitsAgree, JoinersAgree, OneInitializer, Live
<1>5. RunningFiber /\ SlotsKept /\ AbortOnlyWhenStuck
  BY <1>2 DEF RunningFiber, SlotsKept, AbortOnlyWhenStuck, Live, Over
<1> QED BY <1>1, <1>3, <1>4, <1>5

LEMMA NextInvariant ==
  ASSUME IInv, [Next]_vars
  PROVE  IInv'
<1>1. CASE Shim
  BY <1>1, SchedulerStep, IdleStep, SleepStep, LockSteps, JoinSteps, OnceSteps DEF Shim
<1>2. CASE Calling
  BY <1>2, SleepStep, LockSteps, IdleStep, WakeSteps, MutexSteps, SleepOnSteps, CreateStep,
     ExitStep, JoinSteps, DetachStep, OnceSteps, Zenon DEF Calling
<1>3. CASE Tick \/ BeginCall \/ UNCHANGED vars
  BY <1>3, IdleStep, Begun, Unmoved
<1> QED BY <1>1, <1>2, <1>3 DEF Next

\* The invariant holds in every reachable state of the shim.
THEOREM ShimInvariant == Spec => []IInv
  BY InitInvariant, NextInvariant, PTL DEF Spec

-----------------------------------------------------------------------------
(* What the invariant gives the callers. *)

\* Every variable of the shim stays in its range, whatever the callers do.
THEOREM ShimTypes == Spec => []TypeOK
<1>1. IInv => TypeOK
  BY DEF IInv
<1> QED BY <1>1, ShimInvariant, PTL

\* Mutual exclusion: what the callers of pthread_mutex_lock, trylock and the
\* waits believe they hold is what the shim has given them, through commands
\* that end in the middle of a critical section too; pthread_once runs its
\* routine in one fiber at a time; and a slot is not handed out again while its
\* stack runs or somebody has yet to join it.
THEOREM MutualExclusion == Spec => []Exclusive
<1>1. IInv => Exclusive
  BY DEF IInv, Exclusive
<1> QED BY <1>1, ShimInvariant, PTL

\* No lost wakeup: a blocked fiber is one that its call cannot serve yet.
THEOREM NoLostWakeup == Spec => []BlockedForAReason
<1>1. IInv => BlockedForAReason
  BY DEF IInv
<1> QED BY <1>1, ShimInvariant, PTL

\* pfiber_pick calls abort() only when no fiber can ever run again.
THEOREM AbortsAreDeadlocks == Spec => []AbortOnlyWhenStuck
<1>1. IInv => AbortOnlyWhenStuck
  BY DEF IInv
<1> QED BY <1>1, ShimInvariant, PTL

-----------------------------------------------------------------------------
(* The shim implements the monitor: the mapping, fiber by fiber, and each of *)
(* the monitor's steps in terms of it.                                       *)

LifeOf(f)   == IF state[f] = "free" THEN "none"
               ELSE IF state[f] = "done" THEN "finished" ELSE "live"
AsleepOf(f) == IF state[f] = "blocked" /\ call[f].op \in {"cond", "timed"}
               THEN waitOn[f] ELSE NULL
TimedOf(f)  == state[f] = "blocked" /\ call[f].op = "timed"

LEMMA Stutters ==
  ASSUME \A f \in Fibers : LifeOf(f)' = LifeOf(f) /\ AsleepOf(f)' = AsleepOf(f)
                           /\ TimedOf(f)' = TimedOf(f),
         \A m \in Mutexes : Holder(m)' = Holder(m)
  PROVE  UNCHANGED Monitor!monitorVars
  BY DEF Monitor!monitorVars, LifeOf, AsleepOf, TimedOf

LEMMA Tidies ==
  ASSUME NEW D \in SUBSET Fibers, NEW S \in SUBSET Fibers,
         \A f \in D : LifeOf(f) = "finished", \A f \in S : TimedOf(f),
         \A f \in Fibers : /\ LifeOf(f)' = IF f \in D THEN "none" ELSE LifeOf(f)
                           /\ AsleepOf(f)' = IF f \in S THEN NULL ELSE AsleepOf(f)
                           /\ TimedOf(f)' = (f \notin S /\ TimedOf(f)),
         \A m \in Mutexes : Holder(m)' = Holder(m)
  PROVE  Monitor!MonitorNext
<1>1. Monitor!Tidy(D, S)
  BY DEF Monitor!Tidy, Monitor!Wake, LifeOf, AsleepOf, TimedOf
<1> QED BY <1>1 DEF Monitor!MonitorNext

LEMMA Signals ==
  ASSUME NEW c \in Conds,
         \A f \in Fibers : /\ LifeOf(f)' = LifeOf(f)
                           /\ AsleepOf(f)' = IF AsleepOf(f) = c THEN NULL ELSE AsleepOf(f)
                           /\ TimedOf(f)' = (AsleepOf(f) # c /\ TimedOf(f)),
         \A m \in Mutexes : Holder(m)' = Holder(m)
  PROVE  Monitor!MonitorNext
<1>1. Monitor!SignalAll(c)
  BY DEF Monitor!SignalAll, Monitor!Wake, LifeOf, AsleepOf, TimedOf
<1> QED BY <1>1 DEF Monitor!MonitorNext

\* A mutex changes hands, and the thread t may fall asleep on c.
LEMMA Passes ==
  ASSUME NEW t \in Fibers, NEW m \in Mutexes,
         LifeOf(t) = "live", AsleepOf(t) = NULL, TimedOf(t) = FALSE,
         \A f \in Fibers : LifeOf(f)' = LifeOf(f),
         \A f \in Fibers \ {t} : AsleepOf(f)' = AsleepOf(f) /\ TimedOf(f)' = TimedOf(f),
         \A n \in Mutexes \ {m} : Holder(n)' = Holder(n),
         \/ Holder(m) = NULL /\ Holder(m)' = t /\ AsleepOf(t)' = NULL /\ TimedOf(t)' = FALSE
         \/ Holder(m) = t /\ Holder(m)' = NULL /\ AsleepOf(t)' = NULL /\ TimedOf(t)' = FALSE
         \/ Holder(m) = t /\ Holder(m)' = NULL /\ AsleepOf(t)' \in Conds
  PROVE  Monitor!MonitorNext
<1>1. TimedOf(t)' \in BOOLEAN
  BY DEF TimedOf
<1>2. CASE Holder(m) = NULL /\ Holder(m)' = t /\ AsleepOf(t)' = NULL /\ TimedOf(t)' = FALSE
  <2>1. Monitor!Acquire(t, m)
    BY <1>2 DEF Monitor!Acquire, Monitor!Awake, LifeOf, AsleepOf, TimedOf
  <2> QED BY <2>1 DEF Monitor!MonitorNext
<1>3. CASE Holder(m) = t /\ Holder(m)' = NULL /\ AsleepOf(t)' = NULL /\ TimedOf(t)' = FALSE
  <2>1. Monitor!Release(t, m)
    BY <1>3 DEF Monitor!Release, Monitor!Awake, LifeOf, AsleepOf, TimedOf
  <2> QED BY <2>1 DEF Monitor!MonitorNext
<1>4. CASE Holder(m) = t /\ Holder(m)' = NULL /\ AsleepOf(t)' \in Conds
  <2>1. PICK c \in Conds, b \in BOOLEAN : AsleepOf(t)' = c /\ TimedOf(t)' = b
    BY <1>1, <1>4
  <2>2. Monitor!FallAsleep(t, c, m, b)
    BY <1>4, <2>1 DEF Monitor!FallAsleep, Monitor!Awake, LifeOf, AsleepOf, TimedOf
  <2> QED BY <2>2 DEF Monitor!MonitorNext
<1> QED BY <1>2, <1>3, <1>4

LEMMA Lives ==
  ASSUME NEW t \in Fibers,
         \/ LifeOf(t) = "none" /\ LifeOf(t)' = "live"
         \/ /\ LifeOf(t) = "live" /\ AsleepOf(t) = NULL /\ LifeOf(t)' = "finished"
            /\ \A m \in Mutexes : Holder(m) # t,
         \A f \in Fibers \ {t} : LifeOf(f)' = LifeOf(f),
         \A f \in Fibers : AsleepOf(f)' = AsleepOf(f) /\ TimedOf(f)' = TimedOf(f),
         \A m \in Mutexes : Holder(m)' = Holder(m)
  PROVE  Monitor!MonitorNext
<1>1. CASE LifeOf(t) = "none"
  <2>1. Monitor!Start(t)
    BY <1>1 DEF Monitor!Start, LifeOf, AsleepOf, TimedOf
  <2> QED BY <2>1 DEF Monitor!MonitorNext
<1>2. CASE LifeOf(t) = "live" /\ AsleepOf(t) = NULL
  <2>1. Monitor!Finish(t)
    BY <1>2 DEF Monitor!Finish, Monitor!Awake, LifeOf, AsleepOf, TimedOf
  <2> QED BY <2>1 DEF Monitor!MonitorNext
<1> QED BY <1>1, <1>2

\* Only a wait on a condition variable sleeps, and a sleeper is blocked.
LEMMA SleepersOf ==
  ASSUME IInv, NEW f \in Fibers
  PROVE  /\ AsleepOf(f) \in Conds \cup {NULL}
         /\ state[f] # "blocked" => AsleepOf(f) = NULL /\ TimedOf(f) = FALSE
         /\ call[f].op \notin {"cond", "timed"} => AsleepOf(f) = NULL /\ TimedOf(f) = FALSE
         /\ state[f] = "blocked" /\ waitOn[f] \in Conds => AsleepOf(f) = waitOn[f]
         /\ state[f] = "blocked" /\ waitOn[f] \notin Conds => AsleepOf(f) = NULL
         /\ state[f] = "blocked" /\ call[f].op \in {"cond", "timed"} => waitOn[f] \in Conds
<1>1. state[f] = "blocked" /\ call[f].op \in {"cond", "timed"} => waitOn[f] = call[f].arg
  BY DEF IInv, BlockedForAReason
<1>2. state[f] = "blocked" /\ call[f].op \notin {"cond", "timed"} => waitOn[f] \notin Conds
  BY FrameOf DEF IInv, BlockedForAReason, WaitsAgree
<1> QED BY <1>1, <1>2, FrameOf DEF IInv, AsleepOf, TimedOf

\* A step that touches the current fiber only, and leaves it live and not
\* asleep, is none of the monitor's business.
LEMMA StaysAwake ==
  ASSUME IInv, phase = "run", UNCHANGED current,
         state'[current] \in {"runnable", "blocked"},
         state'[current] = "blocked" => call'[current].op \notin {"cond", "timed"},
         \A f \in Fibers \ {current} : /\ state'[f] = state[f] /\ call'[f] = call[f]
                                       /\ waitOn'[f] = waitOn[f]
  PROVE  /\ LifeOf(current) = "live" /\ AsleepOf(current) = NULL /\ TimedOf(current) = FALSE
         /\ AsleepOf(current)' = NULL /\ TimedOf(current)' = FALSE /\ current \in Fibers
         /\ \A f \in Fibers : /\ LifeOf(f)' = LifeOf(f) /\ AsleepOf(f)' = AsleepOf(f)
                              /\ TimedOf(f)' = TimedOf(f)
<1>1. current \in Fibers /\ state[current] = "runnable"
  BY DEF IInv, RunningFiber, TypeOK
<1>2. \A f \in Fibers \ {current} : LifeOf(f)' = LifeOf(f) /\ AsleepOf(f)' = AsleepOf(f)
                                    /\ TimedOf(f)' = TimedOf(f)
  BY DEF LifeOf, AsleepOf, TimedOf
<1>3. /\ LifeOf(current) = "live" /\ AsleepOf(current) = NULL /\ TimedOf(current) = FALSE
      /\ LifeOf(current)' = "live" /\ AsleepOf(current)' = NULL /\ TimedOf(current)' = FALSE
  BY <1>1 DEF LifeOf, AsleepOf, TimedOf
<1> QED BY <1>1, <1>2, <1>3

\* No monitor variable changes while nothing but the phase, the clock and the
\* fibers' stacks outside the condition waits does.
LEMMA QuietSteps ==
  ASSUME IInv, \/ Tick \/ IdleAbort \/ SleepResume \/ OnceResume
               \/ \E t \in Times : Sleep(t)
               \/ \E m \in Mutexes : LockTwice(m) \/ MutexInit(m) \/ MutexDestroy(m)
               \/ \E o \in Onces : Once(o)
               \/ UNCHANGED vars
  PROVE  UNCHANGED Monitor!monitorVars
<1>1. CASE \/ Tick \/ IdleAbort \/ UNCHANGED vars
           \/ \E m \in Mutexes : LockTwice(m)
  <2>1. UNCHANGED <<state, call, waitOn, mutexEpoch, owner, epoch>>
    BY <1>1 DEF Tick, IdleAbort, LockTwice, vars, table, stacks, memory
  <2> QED BY <2>1, Stutters DEF LifeOf, AsleepOf, TimedOf, Holder
<1>2. CASE \E m \in Mutexes : MutexInit(m) \/ MutexDestroy(m)
  <2>1. UNCHANGED <<state, call, waitOn>> /\ \A n \in Mutexes : Holder(n)' = Holder(n)
    BY <1>2 DEF MutexInit, MutexDestroy, Unused, Holder, table, stacks, IInv, TypeOK
  <2> QED BY <2>1, Stutters DEF LifeOf, AsleepOf, TimedOf
<1>3. CASE SleepResume \/ OnceResume \/ (\E t \in Times : Sleep(t)) \/ \E o \in Onces : Once(o)
  <2>1. current \in Fibers /\ state[current] = "runnable" /\ phase = "run"
    BY <1>3 DEF IInv, RunningFiber, TypeOK, SleepResume, OnceResume, Sleep, Once, Calls
  <2>2. UNCHANGED current /\ \A m \in Mutexes : Holder(m)' = Holder(m)
    BY <1>3 DEF Holder, SleepResume, OnceResume, Sleep, Once, memory
  <2>3. /\ state'[current] \in {"runnable", "blocked"}
        /\ state'[current] = "blocked" => call'[current].op \notin {"cond", "timed"}
        /\ \A f \in Fibers \ {current} : /\ state'[f] = state[f] /\ call'[f] = call[f]
                                         /\ waitOn'[f] = waitOn[f]
    <3>1. CASE SleepResume \/ \E t \in Times : Sleep(t)
      BY <2>1, <3>1 DEF SleepResume, Sleep, table, IInv, TypeOK, Enter, Return
    <3>2. CASE OnceResume \/ \E o \in Onces : Once(o)
      <4>1. \A f \in Fibers \ {current} : /\ state'[f] = state[f] /\ call'[f] = call[f]
                                          /\ waitOn'[f] = waitOn[f]
        BY <2>1, <3>2 DEF OnceResume, Once, RunInitializer, IInv, TypeOK, Enter, Return
      <4>2. \/ state'[current] = "runnable"
            \/ state'[current] = "blocked" /\ \E o \in Onces : Enter("once", o, NULL, 0)
        BY <2>1, <3>2 DEF OnceResume, Once, RunInitializer, IInv, TypeOK
      <4>3. \A o \in Onces : Enter("once", o, NULL, 0) => call'[current].op = "once"
        <5>1. "once" \in Ops /\ 0 \in Times /\ TypeOK /\ Onces \subseteq Objects
          BY DEF Ops, Times, IInv, Objects
        <5> QED BY <5>1, Entered
      <4> QED BY <4>1, <4>2, <4>3
    <3> QED BY <1>3, <3>1, <3>2
  <2> QED BY <2>1, <2>2, <2>3, StaysAwake, Stutters
<1> QED BY <1>1, <1>2, <1>3

LEMMA LockMaps ==
  ASSUME IInv, NEW m \in Mutexes, LockStep(m), phase = "run"
  PROVE  Monitor!MonitorNext \/ UNCHANGED Monitor!monitorVars
<1>1. current \in Fibers /\ TypeOK /\ state[current] = "runnable" /\ UNCHANGED current
  BY DEF IInv, RunningFiber, TypeOK, LockStep
<1>2. CASE Take(m)
  <2>1. /\ state'[current] \in {"runnable", "blocked"}
        /\ state'[current] = "blocked" => call'[current].op \notin {"cond", "timed"}
        /\ \A f \in Fibers \ {current} : /\ state'[f] = state[f] /\ call'[f] = call[f]
                                         /\ waitOn'[f] = waitOn[f]
    BY <1>1, <1>2 DEF Take, Return, TypeOK
  <2>2. /\ Holder(m) = NULL /\ Holder(m)' = current
        /\ \A n \in Mutexes \ {m} : Holder(n)' = Holder(n)
    BY <1>1, <1>2 DEF Take, LockStep, Holder, TypeOK
  <2> QED BY <1>1, <2>1, <2>2, StaysAwake, Passes
<1>3. CASE WaitFor(m)
  <2>1. call'[current].op = "lock"
    <3>1. "lock" \in Ops /\ 0 \in Times /\ m \in Objects
      BY DEF Ops, Times, Objects
    <3> QED BY <1>1, <1>3, <3>1, Entered DEF WaitFor
  <2>2. /\ state'[current] \in {"runnable", "blocked"}
        /\ \A f \in Fibers \ {current} : /\ state'[f] = state[f] /\ call'[f] = call[f]
                                         /\ waitOn'[f] = waitOn[f]
    BY <1>1, <1>3 DEF WaitFor, Enter, TypeOK
  <2>3. \A n \in Mutexes : Holder(n)' = Holder(n)
    BY <1>3 DEF WaitFor, LockStep, Holder, memory
  <2> QED BY <1>1, <2>1, <2>2, <2>3, StaysAwake, Stutters
<1> QED BY <1>2, <1>3 DEF LockStep

\* A wakeup is seen by the monitor only when it is for a condition variable.
LEMMA WakeMaps ==
  ASSUME IInv, NEW x, x # NULL, NEW f \in Fibers,
         state'[f] = Woken(x)[f], waitOn'[f] = Cleared(x)[f], call'[f] = call[f]
  PROVE  /\ LifeOf(f)' = LifeOf(f)
         /\ AsleepOf(f)' = IF x \in Conds /\ AsleepOf(f) = x THEN NULL ELSE AsleepOf(f)
         /\ TimedOf(f)' = (~(x \in Conds /\ AsleepOf(f) = x) /\ TimedOf(f))
<1>1. CASE f \in Sleepers(x)
  <2>1. state[f] = "blocked" /\ waitOn[f] = x /\ state'[f] = "runnable"
    BY <1>1 DEF Woken, Sleepers
  <2>2. TimedOf(f) => x \in Conds
    BY <2>1, SleepersOf DEF TimedOf
  <2>3. AsleepOf(f) = IF x \in Conds THEN x ELSE NULL
    BY <2>1, SleepersOf
  <2> QED BY <2>1, <2>2, <2>3 DEF LifeOf, AsleepOf, TimedOf
<1>2. CASE f \notin Sleepers(x)
  <2>1. state'[f] = state[f] /\ waitOn'[f] = waitOn[f]
    BY <1>2 DEF Woken, Cleared
  <2>2. AsleepOf(f) # x
    BY <1>2 DEF AsleepOf, Sleepers
  <2> QED BY <2>1, <2>2 DEF LifeOf, AsleepOf, TimedOf
<1> QED BY <1>1, <1>2

LEMMA SchedulerMaps ==
  ASSUME IInv, Pick \/ IdleWake \/ NapEnds
  PROVE  Monitor!MonitorNext
<1>1. PICK R \in SUBSET Reapable :
        state' = [f \in Fibers |-> IF f \in R THEN "free"
                                   ELSE IF f \in Due THEN "runnable" ELSE state[f]]
  <2>1. CASE Pick
    BY <2>1 DEF Pick
  <2>2. CASE IdleWake \/ NapEnds
    <3>1. state' = [f \in Fibers |-> IF f \in {} THEN "free"
                                     ELSE IF f \in Due THEN "runnable" ELSE state[f]]
      BY <2>2 DEF IdleWake, NapEnds
    <3> QED BY <3>1
  <2> QED BY <2>1, <2>2
<1>2. Expire(Due) /\ UNCHANGED <<epoch, mutexEpoch, owner>>
  BY DEF Pick, IdleWake, NapEnds, memory
<1>3. \A f \in Fibers : call'[f] = call[f] \/ state[f] = "runnable"
  <2>1. CASE Pick \/ IdleWake
    BY <2>1 DEF Pick, IdleWake, stacks
  <2>2. CASE NapEnds
    BY <2>2 DEF NapEnds, Enter, Return, IInv, TypeOK, RunningFiber
  <2> QED BY <2>1, <2>2
<1>4. \A f \in Due : f \in Fibers /\ TimedOf(f) /\ LifeOf(f) = "live"
  BY DEF Due, Armed, IInv, WaitsAgree, TimedOf, LifeOf
<1>5. \A f \in R : f \in Fibers /\ LifeOf(f) = "finished" /\ AsleepOf(f) = NULL /\ TimedOf(f) = FALSE
  BY DEF Reapable, LifeOf, AsleepOf, TimedOf
<1>6. \A f \in Fibers : /\ LifeOf(f)' = IF f \in R THEN "none" ELSE LifeOf(f)
                        /\ AsleepOf(f)' = IF f \in Due THEN NULL ELSE AsleepOf(f)
                        /\ TimedOf(f)' = (f \notin Due /\ TimedOf(f))
  <2> SUFFICES ASSUME NEW f \in Fibers
               PROVE  /\ LifeOf(f)' = IF f \in R THEN "none" ELSE LifeOf(f)
                      /\ AsleepOf(f)' = IF f \in Due THEN NULL ELSE AsleepOf(f)
                      /\ TimedOf(f)' = (f \notin Due /\ TimedOf(f))
    OBVIOUS
  <2>1. CASE f \in R
    <3>1. f \notin Due /\ state'[f] = "free"
      BY <1>1, <1>4, <1>5, <2>1
    <3> QED BY <1>5, <2>1, <3>1 DEF LifeOf, AsleepOf, TimedOf
  <2>2. CASE f \in Due
    <3>1. f \notin R /\ state'[f] = "runnable"
      BY <1>1, <1>4, <1>5, <2>2
    <3> QED BY <1>4, <2>2, <3>1 DEF LifeOf, AsleepOf, TimedOf
  <2>3. CASE f \notin R /\ f \notin Due
    <3>1. state'[f] = state[f] /\ waitOn'[f] = waitOn[f]
      BY <1>1, <1>2, <2>3 DEF Expire
    <3> QED BY <1>3, <2>3, <3>1 DEF LifeOf, AsleepOf, TimedOf
  <2> QED BY <2>1, <2>2, <2>3
<1>7. \A m \in Mutexes : Holder(m)' = Holder(m)
  BY <1>2 DEF Holder
<1>8. R \in SUBSET Fibers /\ Due \in SUBSET Fibers
  BY <1>4, <1>5
<1> QED BY <1>4, <1>5, <1>6, <1>7, <1>8, Tidies

LEMMA DropMaps ==
  ASSUME IInv, NEW m \in Mutexes, Drop(m), UNCHANGED epoch
  PROVE  /\ Holder(m) = current /\ Holder(m)' = NULL
         /\ \A n \in Mutexes \ {m} : Holder(n)' = Holder(n)
<1>1. Holder(m) = current
  BY DEF Drop, IInv, HoldersAgree, TypeOK
<1>2. Holder(m)' = NULL /\ \A n \in Mutexes \ {m} : Holder(n)' = Holder(n)
  BY DEF Drop, Holder, IInv, TypeOK
<1> QED BY <1>1, <1>2

LEMMA WakingMaps ==
  ASSUME IInv, \/ \E m \in Mutexes : Unlock(m)
               \/ \E c \in Conds : Signal(c)
               \/ InitDone
  PROVE  Monitor!MonitorNext \/ UNCHANGED Monitor!monitorVars
<1>1. CASE \E m \in Mutexes : Unlock(m)
  <2>1. PICK m \in Mutexes : Unlock(m)
    BY <1>1
  <2>2. /\ Drop(m) /\ state' = Woken(m) /\ waitOn' = Cleared(m)
        /\ UNCHANGED <<call, epoch, current>> /\ phase = "run"
    BY <2>1 DEF Unlock, pf_wake_waiters_on, stacks, Calls
  <2>3. m \notin Conds /\ m # NULL
    OBVIOUS
  <2>4. \A f \in Fibers : /\ LifeOf(f)' = LifeOf(f) /\ AsleepOf(f)' = AsleepOf(f)
                          /\ TimedOf(f)' = TimedOf(f)
    BY <2>2, <2>3, WakeMaps DEF TimedOf
  <2>5. /\ current \in Fibers /\ LifeOf(current) = "live"
        /\ AsleepOf(current) = NULL /\ TimedOf(current) = FALSE
    BY <2>2 DEF IInv, RunningFiber, TypeOK, LifeOf, AsleepOf, TimedOf
  <2> QED BY <2>2, <2>4, <2>5, DropMaps, Passes
<1>2. CASE \E c \in Conds : Signal(c)
  <2>1. PICK c \in Conds : Signal(c)
    BY <1>2
  <2>2. /\ state' = Woken(c) /\ waitOn' = Cleared(c) /\ c # NULL
        /\ UNCHANGED <<call, epoch, mutexEpoch, owner>>
    BY <2>1 DEF Signal, pf_wake_waiters_on, stacks, memory
  <2> QED BY <2>2, WakeMaps, Signals DEF Holder
<1>3. CASE InitDone
  <2> DEFINE o == initializing[current]
  <2>1. o \in Onces
    BY <1>3 DEF InitDone, IInv, TypeOK
  <2>2. /\ state' = Woken(o) /\ waitOn' = Cleared(o) /\ o # NULL /\ o \notin Conds
        /\ UNCHANGED <<call, epoch, mutexEpoch, owner>>
    BY <1>3, <2>1 DEF InitDone, pf_wake_waiters_on
  <2>3. \A f \in Fibers : /\ LifeOf(f)' = LifeOf(f) /\ AsleepOf(f)' = AsleepOf(f)
                          /\ TimedOf(f)' = TimedOf(f)
    BY <2>2, WakeMaps DEF TimedOf
  <2> QED BY <2>2, <2>3, Stutters DEF Holder
<1> QED BY <1>1, <1>2, <1>3

LEMMA SleepOnMaps ==
  ASSUME IInv, \/ \E c \in Conds, m \in Mutexes : CondWait(c, m)
               \/ \E c \in Conds, m \in Mutexes, t \in Times : CondTimedWait(c, m, t)
  PROVE  Monitor!MonitorNext
<1>1. PICK c \in Conds, m \in Mutexes, how \in {"cond", "timed"} : SleepOn(c, m, how)
  BY DEF CondWait, CondTimedWait
<1>2. /\ current \in Fibers /\ state[current] = "runnable" /\ TypeOK
      /\ Drop(m) /\ UNCHANGED <<epoch, current>>
  BY <1>1 DEF SleepOn, Calls, IInv, RunningFiber, TypeOK
<1>3. \A f \in Fibers \ {current} : LifeOf(f)' = LifeOf(f) /\ AsleepOf(f)' = AsleepOf(f)
                                    /\ TimedOf(f)' = TimedOf(f)
  <2> SUFFICES ASSUME NEW f \in Fibers \ {current}
               PROVE  LifeOf(f)' = LifeOf(f) /\ AsleepOf(f)' = AsleepOf(f)
                      /\ TimedOf(f)' = TimedOf(f)
    OBVIOUS
  <2>1. state'[f] = Woken(m)[f] /\ waitOn'[f] = Cleared(m)[f] /\ call'[f] = call[f]
    BY <1>1, <1>2, Awoken DEF SleepOn, Enter, TypeOK
  <2>2. m # NULL /\ m \notin Conds
    OBVIOUS
  <2> QED BY <2>1, <2>2, WakeMaps DEF TimedOf
<1>4. /\ LifeOf(current) = "live" /\ AsleepOf(current) = NULL /\ TimedOf(current) = FALSE
      /\ LifeOf(current)' = "live" /\ AsleepOf(current)' = c
  <2>1. how \in Ops /\ 0 \in Times /\ c \in Objects
    BY DEF Ops, Times, Objects
  <2>2. call'[current].op = how /\ state'[current] = "blocked" /\ waitOn'[current] = c
    BY <1>1, <1>2, <2>1, Entered, Awoken DEF SleepOn
  <2> QED BY <1>2, <2>2 DEF LifeOf, AsleepOf, TimedOf
<1> QED
  <2>1. \A f \in Fibers : LifeOf(f)' = LifeOf(f)
    BY <1>2, <1>3, <1>4
  <2>2. AsleepOf(current)' \in Conds
    BY <1>4
  <2>3. /\ Holder(m) = current /\ Holder(m)' = NULL
        /\ \A n \in Mutexes \ {m} : Holder(n)' = Holder(n)
    BY <1>2, DropMaps
  <2> QED BY <1>2, <1>3, <1>4, <2>1, <2>2, <2>3, Passes

\* The joiner, or a detach, lets a finished thread be forgotten.
LEMMA FreedMaps ==
  ASSUME IInv, phase = "run", UNCHANGED <<current, epoch, mutexEpoch, owner, waitOn>>,
         NEW f \in Table \ {current}, state[f] = "done",
         state' = [state EXCEPT ![f] = "free"],
         \A g \in Fibers \ {current} : call'[g] = call[g]
  PROVE  Monitor!MonitorNext
<1>1. current \in Fibers /\ state[current] = "runnable" /\ state \in [Fibers -> States]
  BY DEF IInv, RunningFiber, TypeOK
<1>2. \A g \in Fibers : /\ LifeOf(g)' = IF g \in {f} THEN "none" ELSE LifeOf(g)
                        /\ AsleepOf(g)' = AsleepOf(g) /\ TimedOf(g)' = TimedOf(g)
  BY <1>1 DEF LifeOf, AsleepOf, TimedOf
<1>3. LifeOf(f) = "finished" /\ {f} \in SUBSET Fibers /\ {} \in SUBSET Fibers
  BY DEF LifeOf
<1>4. \A m \in Mutexes : Holder(m)' = Holder(m)
  BY DEF Holder
<1>5. \A g \in Fibers : TimedOf(g) \in BOOLEAN
  BY DEF TimedOf
<1>6. \A g \in Fibers : /\ AsleepOf(g)' = IF g \in {} THEN NULL ELSE AsleepOf(g)
                        /\ TimedOf(g)' = (g \notin {} /\ TimedOf(g))
  BY <1>2, <1>5
<1> QED BY <1>2, <1>3, <1>4, <1>6, Tidies

LEMMA ThreadMaps ==
  ASSUME IInv, \/ Create \/ Exit \/ JoinResume
               \/ \E f \in Table : Join(f) \/ Detach(f)
  PROVE  Monitor!MonitorNext \/ UNCHANGED Monitor!monitorVars
<1>1. /\ phase = "run" /\ current \in Fibers /\ state[current] = "runnable" /\ TypeOK
      /\ UNCHANGED <<current, epoch, mutexEpoch, owner>>
  BY DEF Create, Exit, JoinResume, Join, Detach, Calls, IInv, RunningFiber, TypeOK, memory
<1>2. \A m \in Mutexes : Holder(m)' = Holder(m)
  BY <1>1 DEF Holder
<1>3. CASE Create
  <2>1. PICK f \in Table :
          /\ state[f] = "free" /\ state' = [state EXCEPT ![f] = "runnable"]
          /\ \A g \in Fibers \ {f} : waitOn'[g] = waitOn[g] /\ call'[g] = call[g]
    <3> DEFINE f == CHOOSE g \in FreeSlots : \A h \in FreeSlots : g <= h
    <3>1. FreeSlots \in SUBSET Nat /\ FreeSlots # {}
      BY <1>3 DEF Create, FreeSlots
    <3>2. f \in FreeSlots
      <4>1. \E g \in FreeSlots : \A h \in FreeSlots : g <= h
        BY <3>1, LeastOf
      <4> QED BY <4>1
    <3> QED BY <1>1, <1>3, <3>2 DEF Create, FreeSlots, TypeOK
  <2>2. state'[f] = "runnable" /\ \A g \in Fibers \ {f} : state'[g] = state[g]
    BY <1>1, <2>1 DEF TypeOK
  <2>3. LifeOf(f) = "none" /\ LifeOf(f)' = "live"
    BY <2>1, <2>2 DEF LifeOf
  <2>4. /\ \A g \in Fibers \ {f} : LifeOf(g)' = LifeOf(g)
        /\ \A g \in Fibers : AsleepOf(g)' = AsleepOf(g) /\ TimedOf(g)' = TimedOf(g)
    BY <2>1, <2>2 DEF LifeOf, AsleepOf, TimedOf
  <2> QED BY <1>2, <2>3, <2>4, Lives
<1>4. CASE Exit
  <2> DEFINE j == joinWaiter[current]
  <2>1. j # NULL => j \in Fibers \ {current} /\ Live(j) /\ call[j].op = "join"
    BY <1>1, <1>4 DEF IInv, JoinersAgree, TypeOK, Live, Exit, Calls
  <2>2. /\ state'[current] = "done"
        /\ \A f \in Fibers \ {current} : state'[f] = IF f = j THEN "runnable" ELSE state[f]
        /\ \A f \in Fibers \ {current} : waitOn'[f] = waitOn[f] /\ call'[f] = call[f]
    BY <1>1, <1>4 DEF Exit, Enter, TypeOK
  <2>3. \A f \in Fibers \ {current} : LifeOf(f)' = LifeOf(f) /\ AsleepOf(f)' = AsleepOf(f)
                                      /\ TimedOf(f)' = TimedOf(f)
    BY <2>1, <2>2 DEF LifeOf, AsleepOf, TimedOf, Live
  <2>4. /\ LifeOf(current) = "live" /\ AsleepOf(current) = NULL /\ TimedOf(current) = FALSE
        /\ LifeOf(current)' = "finished" /\ AsleepOf(current)' = NULL /\ TimedOf(current)' = FALSE
    BY <1>1, <2>2 DEF LifeOf, AsleepOf, TimedOf
  <2>5. \A m \in Mutexes : Holder(m) # current
    BY <1>1, <1>4 DEF Exit, IInv, HoldersAgree
  <2>6. \A f \in Fibers : AsleepOf(f)' = AsleepOf(f) /\ TimedOf(f)' = TimedOf(f)
    BY <1>1, <2>3, <2>4
  <2> QED BY <1>1, <1>2, <2>3, <2>4, <2>5, <2>6, Lives
<1>5. ASSUME NEW f \in Table \ {current}, state[f] = "done", Reap(f), UNCHANGED waitOn
      PROVE  Monitor!MonitorNext
  <2>1. state' = [state EXCEPT ![f] = "free"]
    BY <1>1, <1>5 DEF Reap, TypeOK
  <2>2. \A g \in Fibers \ {current} : call'[g] = call[g]
    BY <1>1, <1>5 DEF Reap, Return, TypeOK
  <2> QED BY <1>1, <1>5, <2>1, <2>2, FreedMaps, IInv
<1>6. CASE JoinResume
  <2>1. call[current].arg \in Table \ {current} /\ UNCHANGED waitOn
    BY <1>1, <1>6, FrameOf DEF JoinResume, Calls, IInv
  <2>2. CASE UNCHANGED <<state, call>>
    BY <1>2, <2>1, <2>2, Stutters DEF LifeOf, AsleepOf, TimedOf
  <2> QED BY <1>5, <1>6, <2>1, <2>2 DEF JoinResume
<1>7. CASE \E f \in Table : Join(f)
  <2>1. PICK f \in Table : Join(f)
    BY <1>7
  <2>2. f \in Table \ {current} /\ UNCHANGED waitOn
    BY <2>1 DEF Join
  <2>3. CASE state[f] # "done" /\ state' = [state EXCEPT ![current] = "blocked"]
             /\ Enter("join", f, NULL, 0)
    <3>1. call'[current].op = "join" /\ \A g \in Fibers \ {current} : call'[g] = call[g]
      <4>1. "join" \in Ops /\ 0 \in Times
        BY DEF Ops, Times
      <4> QED BY <1>1, <2>2, <2>3, <4>1, Entered
    <3>2. /\ state'[current] = "blocked"
          /\ \A g \in Fibers \ {current} : state'[g] = state[g] /\ waitOn'[g] = waitOn[g]
      BY <1>1, <2>2, <2>3 DEF TypeOK
    <3> QED BY <1>1, <1>2, <3>1, <3>2, StaysAwake, Stutters
  <2> QED BY <1>5, <2>1, <2>2, <2>3 DEF Join
<1>8. CASE \E f \in Table : Detach(f)
  <2>1. PICK f \in Table : Detach(f)
    BY <1>8
  <2>2. UNCHANGED <<waitOn, call>>
    BY <2>1 DEF Detach, stacks
  <2>3. CASE state[f] = "done"
    <3>1. f # current /\ state' = [state EXCEPT ![f] = "free"]
      BY <1>1, <2>1, <2>3 DEF Detach, TypeOK
    <3> QED BY <1>1, <2>2, <2>3, <3>1, FreedMaps
  <2>4. CASE state[f] # "done"
    <3>1. state' = state
      BY <1>1, <2>1, <2>4 DEF Detach, TypeOK
    <3> QED BY <1>2, <2>2, <3>1, Stutters DEF LifeOf, AsleepOf, TimedOf
  <2> QED BY <2>3, <2>4
<1> QED BY <1>3, <1>4, <1>6, <1>7, <1>8

LEMMA BeginMaps ==
  ASSUME IInv, BeginCall
  PROVE  Monitor!MonitorNext
<1>1. \A f \in Fibers : /\ LifeOf(f)' = IF f = Main THEN "live" ELSE "none"
                        /\ AsleepOf(f)' = NULL /\ TimedOf(f)' = FALSE
  BY DEF BeginCall, LifeOf, AsleepOf, TimedOf
<1>2. \A m \in Mutexes : Holder(m)' = NULL
  BY DEF BeginCall, IInv, TypeOK, FramesAgree, Holder, memory
<1>3. Monitor!Restart
  BY <1>1, <1>2 DEF Monitor!Restart, LifeOf, AsleepOf, TimedOf
<1> QED BY <1>3 DEF Monitor!MonitorNext

\* Every step of the shim is a step of the monitor or none at all: with mutexes
\* polled in wait loops, a table scanned in a circle and stacks switched by
\* hand, it gives its callers what ThreadMonitor says pthreads give.
THEOREM ShimKeepsMonitor == Spec => KeepsMonitor
<1>1. Init => Monitor!MonitorInit
  <2> SUFFICES ASSUME Init PROVE Monitor!MonitorInit
    OBVIOUS
  <2>1. \A f \in Fibers : LifeOf(f) = "none" /\ AsleepOf(f) = NULL /\ TimedOf(f) = FALSE
    BY DEF Init, LifeOf, AsleepOf, TimedOf
  <2>2. \A m \in Mutexes : Holder(m) = NULL
    BY DEF Init, Holder
  <2> QED BY <2>1, <2>2 DEF Monitor!MonitorInit, LifeOf, AsleepOf, TimedOf
<1>2. ASSUME IInv, [Next]_vars
      PROVE  [Monitor!MonitorNext]_(Monitor!monitorVars)
  <2>1. CASE LockResume \/ CondResume \/ \E m \in Mutexes : Lock(m)
    <3>1. PICK m \in Mutexes : LockStep(m)
      <4>1. current \in Fibers
        BY <1>2 DEF IInv, TypeOK
      <4> QED BY <1>2, <2>1, <4>1, FrameOf DEF LockResume, CondResume, Lock, Calls, IInv
    <3> QED BY <1>2, <2>1, <3>1, LockMaps DEF LockResume, CondResume, Lock, Calls
  <2>2. CASE Shim
    BY <1>2, <2>1, <2>2, SchedulerMaps, QuietSteps, ThreadMaps DEF Shim
  <2>3. CASE Calling
    BY <1>2, <2>1, <2>3, QuietSteps, WakingMaps, SleepOnMaps, ThreadMaps, Zenon DEF Calling
  <2>4. CASE Tick \/ BeginCall \/ UNCHANGED vars
    BY <1>2, <2>4, QuietSteps, BeginMaps
  <2> QED BY <1>2, <2>2, <2>3, <2>4 DEF Next
<1> QED BY <1>1, <1>2, ShimInvariant, PTL DEF Spec, KeepsMonitor, Monitor!MonitorSpec

\* A wait times out only if it is a timed wait on a condition variable whose
\* time has come: the deadline is gone before the mutex is waited for.
THEOREM DeadlinesBelongToTheirWait == Spec => OnlyTimedWaitsExpire
<1>1. ASSUME IInv, [Next]_vars, NEW f \in Fibers, ~wokeByTimeout[f], wokeByTimeout'[f]
      PROVE  call[f].op = "timed" /\ waitOn[f] \in Conds /\ now >= deadline[f]
  <2>1. Expire(Due)
    BY <1>1 DEF Next, Shim, Calling, Pick, IdleWake, IdleAbort, SleepResume, NapEnds, LockResume,
       CondResume, JoinResume, OnceResume, Sleep, Lock, LockTwice, Unlock, MutexInit, MutexDestroy,
       CondWait, CondTimedWait, SleepOn, Signal, Create, Exit, Join, Detach, Once, InitDone,
       Tick, BeginCall, LockStep, pf_wake_waiters_on, table, vars, IInv, TypeOK
  <2>2. f \in Due
    BY <1>1, <2>1 DEF Expire
  <2>3. state[f] = "blocked" /\ deadline[f] # NULL /\ now >= deadline[f] /\ call[f].op = "timed"
    BY <1>1, <2>2 DEF Due, Armed, IInv, WaitsAgree
  <2> QED BY <1>1, <2>3, FrameOf DEF IInv, BlockedForAReason
<1>2. ASSUME IInv, [Next]_vars
      PROVE  [\A f \in Fibers : ~wokeByTimeout[f] /\ wokeByTimeout'[f] =>
                call[f].op = "timed" /\ waitOn[f] \in Conds /\ now >= deadline[f]]_vars
  BY <1>1, <1>2
<1> QED BY <1>2, ShimInvariant, PTL DEF Spec, OnlyTimedWaitsExpire
=============================================================================
