---------------------------- MODULE PthreadFiber -----------------------------
(***************************************************************************)
(* The pthread shim of the single-threaded core (pthread_fiber.c): every    *)
(* "thread" of FFmpeg is a fiber, one fiber runs at a time, and control     *)
(* passes on only where a pthread call blocks. A call is one action up to   *)
(* the point where it asks the scheduler for another fiber; the rest of it  *)
(* is a Resume action, taken when the scheduler comes back to the fiber.    *)
(*                                                                         *)
(* Fiber 0 is g_main and fibers 1 .. PFIBER_MAX are g_table, the scheduler's *)
(* linear numbering. Callers are C code that uses the API as POSIX allows,  *)
(* except that a fiber may lock a mutex it already holds, which the shim    *)
(* checks for. A command may end at any point of any fiber's code: FFmpeg   *)
(* leaves by exit(), and a trap or an abort() also returns to runCommand,   *)
(* which lets the next command start on the same memory.                    *)
(***************************************************************************)
EXTENDS Integers, FiniteSets

CONSTANTS
  PFIBER_MAX,   \* fibers the table has room for
  Mutexes,      \* mutexes in static memory: they outlive a command
  Conds,        \* condition variables
  Onces,        \* pthread_once controls, static too
  NULL,
  MaxEpoch,     \* bound: g_epoch when the last command runs
  MaxNow        \* bound: the latest reading of the clock

ASSUME FiberAssumption ==
  /\ PFIBER_MAX \in Nat /\ MaxEpoch \in Nat \ {0} /\ MaxNow \in Nat
  /\ NULL \notin Mutexes \cup Conds \cup Onces /\ NULL \notin Int
  /\ Mutexes \cap Conds = {} /\ Mutexes \cap Onces = {} /\ Conds \cap Onces = {}

Main    == 0
Table   == 1 .. PFIBER_MAX
Fibers  == {Main} \cup Table
Objects == Mutexes \cup Conds \cup Onces
Times   == 0 .. MaxNow

VARIABLES
  \* pfiber_t, field by field
  state, detached, joinWaiter, waitOn,
  deadline,        \* deadline_ms, or NULL without has_deadline
  wokeByTimeout,
  \* the C stack of each fiber
  call,            \* the pthread call it is in: see Frame
  initializing,    \* the pthread_once routine it is in
  current,      \* g_current
  epoch,        \* g_epoch
  phase,        \* where the one running stack is: see Phases
  now,          \* pf_now_ms()
  \* the memory behind mutexes and once controls
  mutexEpoch, owner, once,
  \* what the callers know: mutexes they hold, threads they have yet to join
  held, joinable

table  == <<state, detached, joinWaiter, waitOn, deadline, wokeByTimeout>>
stacks == <<call, initializing>>
memory == <<mutexEpoch, owner, once>>
caller == <<held, joinable>>
vars   == <<table, stacks, current, epoch, phase, now, memory, caller>>

States == {"free", "runnable", "blocked", "done"}
Ops    == {"user", "lock", "cond", "timed", "join", "once", "yield", "sleep", "exit"}

\* A call: what it is for, the mutex to take back, the time to sleep until.
Frame(o, x, m, t) == [op |-> o, arg |-> x, relock |-> m, until |-> t]
Frames == [op : Ops, arg : Objects \cup Fibers \cup {NULL}, relock : Mutexes \cup {NULL},
           until : Times]
User == Frame("user", NULL, NULL, 0)

\* In the current fiber's code; in pfiber_pick; in pf_idle_wait, called by
\* pfiber_pick or by usleep; before the first command; after an abort().
Phases == {"run", "pick", "idle", "nap", "unstarted", "deadlocked", "selflocked"}
Over   == {"unstarted", "deadlocked", "selflocked"}

Init ==
  /\ state = [f \in Fibers |-> "free"]
  /\ detached = [f \in Fibers |-> FALSE]
  /\ joinWaiter = [f \in Fibers |-> NULL]
  /\ waitOn = [f \in Fibers |-> NULL]
  /\ deadline = [f \in Fibers |-> NULL]
  /\ wokeByTimeout = [f \in Fibers |-> FALSE]
  /\ call = [f \in Fibers |-> User]
  /\ initializing = [f \in Fibers |-> NULL]
  /\ current = Main /\ epoch = 1 /\ phase = "unstarted" /\ now = 0
  /\ mutexEpoch = [m \in Mutexes |-> 0]
  /\ owner = [m \in Mutexes |-> NULL]
  /\ once = [o \in Onces |-> "new"]
  /\ held = [f \in Fibers |-> {}]
  /\ joinable = {}

\* Mutant: the block behind a mutex is kept whatever its epoch.
HolderAnyEpoch(m) == owner[m]

\* Epoch 0 is the mutex whose slot is NULL. A block of another epoch is
\* replaced by a fresh one before anything looks at its owner.
Holder(m) == IF mutexEpoch[m] = epoch THEN owner[m] ELSE NULL

\* The current fiber runs its own code, or comes back to a call it was in.
Calls(o) == phase = "run" /\ call[current].op = o
Enter(o, x, m, t) == call' = [call EXCEPT ![current] = Frame(o, x, m, t)]
Return == call' = [call EXCEPT ![current] = User]

-----------------------------------------------------------------------------
(* The scheduler. *)

Armed == {f \in Fibers : state[f] = "blocked" /\ deadline[f] # NULL}
Due   == {f \in Armed : now >= deadline[f]}

\* The timed waiters in S stop waiting.
Expire(S) ==
  /\ waitOn' = [f \in Fibers |-> IF f \in S THEN NULL ELSE waitOn[f]]
  /\ deadline' = [f \in Fibers |-> IF f \in S THEN NULL ELSE deadline[f]]
  /\ wokeByTimeout' = [f \in Fibers |-> f \in S \/ wokeByTimeout[f]]
  /\ UNCHANGED <<detached, joinWaiter>>

\* Finished, detached fibers, except the one whose stack is in use.
Reapable == {f \in Table \ {current} : state[f] = "done" /\ detached[f]}

\* How far after the current fiber the round-robin looks at f.
Distance(f) ==
  IF f > current THEN f - current ELSE f - current + PFIBER_MAX + 1

\* Mutant: the search starts at g_main every time.
NextFromMain(S) == CHOOSE f \in S : \A g \in S : f <= g

NextOf(S) == CHOOSE f \in S : \A g \in S : Distance(f) <= Distance(g)

\* One pass of pfiber_pick.
Pick ==
  /\ phase = "pick"
  /\ Expire(Due)
  /\ state' = [f \in Fibers |-> IF f \in Reapable THEN "free"
                                ELSE IF f \in Due THEN "runnable" ELSE state[f]]
  /\ LET others == {f \in Fibers \ {current} : state'[f] = "runnable"}
     IN \/ /\ others # {}
           /\ current' = NextOf(others) /\ phase' = "run"
        \/ /\ others = {}
           /\ phase' = IF state'[current] = "runnable" THEN "run" ELSE "idle"
           /\ UNCHANGED current
  /\ UNCHANGED <<stacks, epoch, now, memory, caller>>

\* pf_idle_wait(0): somebody's deadline comes due ...
IdleWake ==
  /\ phase = "idle" /\ Due # {}
  /\ Expire(Due)
  /\ state' = [f \in Fibers |-> IF f \in Due THEN "runnable" ELSE state[f]]
  /\ phase' = "pick"
  /\ UNCHANGED <<stacks, current, epoch, now, memory, caller>>

\* Mutant: a deadline that has just come due is no longer a pending one.
IdleAbortOnExpiry ==
  /\ phase = "idle" /\ Armed \subseteq Due
  /\ phase' = "deadlocked"
  /\ UNCHANGED <<table, stacks, current, epoch, now, memory, caller>>

\* Mutant: the idle loop spins on whether or not anything can end it.
IdleSpins == phase = "idle" /\ UNCHANGED vars

\* ... or nobody has one, and abort() ends the command.
IdleAbort ==
  /\ phase = "idle"
  /\ Armed = {}
  /\ phase' = "deadlocked"
  /\ UNCHANGED <<table, stacks, current, epoch, now, memory, caller>>

Tick ==
  /\ now < MaxNow
  /\ now' = now + 1
  /\ UNCHANGED <<table, stacks, current, epoch, phase, memory, caller>>

-----------------------------------------------------------------------------
(* Sleeping: the caller stays runnable. *)

Sleep(t) ==
  /\ Calls("user") /\ t > now
  /\ Enter("yield", NULL, NULL, t)
  /\ phase' = "pick"
  /\ UNCHANGED <<table, initializing, current, epoch, now, memory, caller>>

\* The others have had their turn: spin for what is left of the time.
SleepResume ==
  /\ Calls("yield")
  /\ IF now < call[current].until
       THEN Enter("sleep", NULL, NULL, call[current].until) /\ phase' = "nap"
       ELSE Return /\ UNCHANGED phase
  /\ UNCHANGED <<table, initializing, current, epoch, now, memory, caller>>

\* pf_idle_wait(deadline) returns when a timed waiter wakes or at the deadline.
NapEnds ==
  /\ phase = "nap"
  /\ Due # {} \/ now >= call[current].until
  /\ Expire(Due)
  /\ state' = [f \in Fibers |-> IF f \in Due THEN "runnable" ELSE state[f]]
  /\ IF now < call[current].until
       THEN Enter("yield", NULL, NULL, call[current].until) /\ phase' = "pick"
       ELSE Return /\ phase' = "run"
  /\ UNCHANGED <<initializing, current, epoch, now, memory, caller>>

-----------------------------------------------------------------------------
(* Mutexes and condition variables. *)

\* The fibers asleep on an object, and the table once they are woken.
Sleepers(x) == {f \in Fibers : state[f] = "blocked" /\ waitOn[f] = x}

Woken(x) == [f \in Fibers |-> IF f \in Sleepers(x) THEN "runnable" ELSE state[f]]
Cleared(x) == [f \in Fibers |-> IF f \in Sleepers(x) THEN NULL ELSE waitOn[f]]

pf_wake_waiters_on(x) ==
  /\ state' = Woken(x)
  /\ waitOn' = Cleared(x)
  /\ UNCHANGED <<detached, joinWaiter, deadline, wokeByTimeout>>

\* The current fiber takes m, now or after the wait for its holder.
Take(m) ==
  /\ Holder(m) = NULL
  /\ mutexEpoch' = [mutexEpoch EXCEPT ![m] = epoch]
  /\ owner' = [owner EXCEPT ![m] = current]
  /\ held' = [held EXCEPT ![current] = @ \cup {m}]
  /\ Return
  /\ state' = [state EXCEPT ![current] = "runnable"]
  /\ waitOn' = [waitOn EXCEPT ![current] = NULL]
  /\ UNCHANGED <<once, phase>>

WaitFor(m) ==
  /\ Holder(m) \notin {NULL, current}
  /\ Enter("lock", m, NULL, 0)
  /\ state' = [state EXCEPT ![current] = "blocked"]
  /\ waitOn' = [waitOn EXCEPT ![current] = m]
  /\ phase' = "pick"
  /\ UNCHANGED <<memory, held>>

LockStep(m) ==
  /\ Take(m) \/ WaitFor(m)
  /\ UNCHANGED <<detached, joinWaiter, wokeByTimeout, initializing, current, epoch, now,
                 joinable>>

\* pthread_mutex_lock; a trylock is a lock that finds the mutex free.
Lock(m) == Calls("user") /\ LockStep(m) /\ UNCHANGED deadline

\* Mutant: the wait is an `if', and the mutex is not looked at again after it.
LockResumeOnce ==
  /\ Calls("lock")
  /\ LET m == call[current].arg
     IN /\ owner' = [owner EXCEPT ![m] = current]
        /\ held' = [held EXCEPT ![current] = @ \cup {m}]
        /\ state' = [state EXCEPT ![current] = "runnable"]
        /\ waitOn' = [waitOn EXCEPT ![current] = NULL]
  /\ Return
  /\ UNCHANGED <<detached, joinWaiter, deadline, wokeByTimeout, initializing, current,
                 epoch, phase, now, mutexEpoch, once, joinable>>

LockResume == Calls("lock") /\ LockStep(call[current].arg) /\ UNCHANGED deadline

\* The lock is not recursive: abort().
LockTwice(m) ==
  /\ Calls("user") /\ Holder(m) = current
  /\ phase' = "selflocked"
  /\ UNCHANGED <<table, stacks, current, epoch, now, memory, caller>>

Drop(m) ==
  /\ m \in held[current]
  /\ mutexEpoch' = [mutexEpoch EXCEPT ![m] = epoch]
  /\ owner' = [owner EXCEPT ![m] = NULL]
  /\ held' = [held EXCEPT ![current] = @ \ {m}]

\* Mutant: nobody is told that the mutex is free.
UnlockSilently(m) ==
  /\ Calls("user") /\ Drop(m)
  /\ UNCHANGED <<table, stacks, current, epoch, phase, now, once, joinable>>

Unlock(m) ==
  /\ Calls("user") /\ Drop(m)
  /\ pf_wake_waiters_on(m)
  /\ UNCHANGED <<stacks, current, epoch, phase, now, once, joinable>>

\* Nobody uses m any more, or not yet: the block behind it is freed, or made.
Unused(m) ==
  /\ Holder(m) = NULL
  /\ \A f \in Fibers : m \notin {call[f].arg, call[f].relock}

MutexInit(m) ==
  /\ Calls("user") /\ Unused(m)
  /\ mutexEpoch' = [mutexEpoch EXCEPT ![m] = epoch]
  /\ owner' = [owner EXCEPT ![m] = NULL]
  /\ UNCHANGED <<table, stacks, current, epoch, phase, now, once, caller>>

MutexDestroy(m) ==
  /\ Calls("user") /\ Unused(m)
  /\ mutexEpoch' = [mutexEpoch EXCEPT ![m] = 0]
  /\ owner' = [owner EXCEPT ![m] = NULL]
  /\ UNCHANGED <<table, stacks, current, epoch, phase, now, once, caller>>

\* The first half of both waits: unlock m, then sleep on c.
SleepOn(c, m, how) ==
  /\ Calls("user") /\ Drop(m)
  /\ state' = [Woken(m) EXCEPT ![current] = "blocked"]
  /\ waitOn' = [Cleared(m) EXCEPT ![current] = c]
  /\ Enter(how, c, m, 0)
  /\ phase' = "pick"
  /\ UNCHANGED <<detached, joinWaiter, initializing, current, epoch, now,
                 once, joinable>>

CondWait(c, m) ==
  /\ SleepOn(c, m, "cond")
  /\ UNCHANGED <<deadline, wokeByTimeout>>

CondTimedWait(c, m, t) ==
  /\ SleepOn(c, m, "timed")
  /\ deadline' = [deadline EXCEPT ![current] = t]
  /\ wokeByTimeout' = [wokeByTimeout EXCEPT ![current] = FALSE]

\* Mutant: the deadline stays armed while the mutex is waited for.
CondResumeArmed ==
  /\ Calls("cond") \/ Calls("timed")
  /\ waitOn[current] # call[current].arg
  /\ LockStep(call[current].relock)
  /\ UNCHANGED deadline

\* The second half: the deadline is disarmed, and the mutex locked again.
CondResume ==
  /\ Calls("cond") \/ Calls("timed")
  /\ waitOn[current] # call[current].arg
  /\ deadline' = IF Calls("timed") THEN [deadline EXCEPT ![current] = NULL] ELSE deadline
  /\ LockStep(call[current].relock)

\* pthread_cond_signal and pthread_cond_broadcast.
Signal(c) ==
  /\ Calls("user")
  /\ pf_wake_waiters_on(c)
  /\ UNCHANGED <<stacks, current, epoch, phase, now, memory, caller>>

-----------------------------------------------------------------------------
(* Threads. *)

FreeSlots == {f \in Table : state[f] = "free"}

\* pthread_create takes the first free slot; the new fiber waits for its turn.
Create ==
  /\ Calls("user") /\ FreeSlots # {}
  /\ LET f == CHOOSE g \in FreeSlots : \A h \in FreeSlots : g <= h
     IN /\ state' = [state EXCEPT ![f] = "runnable"]
        /\ detached' = [detached EXCEPT ![f] = FALSE]
        /\ joinWaiter' = [joinWaiter EXCEPT ![f] = NULL]
        /\ waitOn' = [waitOn EXCEPT ![f] = NULL]
        /\ deadline' = [deadline EXCEPT ![f] = NULL]
        /\ wokeByTimeout' = [wokeByTimeout EXCEPT ![f] = FALSE]
        /\ call' = [call EXCEPT ![f] = User]
        /\ joinable' = joinable \cup {f}
  /\ UNCHANGED <<initializing, current, epoch, phase, now, memory, held>>

\* pfiber_trampoline, after start_routine has returned. The fiber keeps
\* running the scheduler until somebody else is picked.
Exit ==
  /\ Calls("user") /\ current # Main
  /\ held[current] = {} /\ initializing[current] = NULL
  /\ state' = [f \in Fibers |-> IF f = current THEN "done"
                                ELSE IF f = joinWaiter[current] THEN "runnable"
                                ELSE state[f]]
  /\ joinWaiter' = [joinWaiter EXCEPT ![current] = NULL]
  /\ Enter("exit", NULL, NULL, 0)
  /\ phase' = "pick"
  /\ UNCHANGED <<detached, waitOn, deadline, wokeByTimeout, initializing, current, epoch,
                 now, memory, caller>>

\* pthread_join returns: the joiner frees the slot.
Reap(f) ==
  /\ state' = [state EXCEPT ![f] = "free", ![current] = "runnable"]
  /\ Return
  /\ UNCHANGED phase

Join(f) ==
  /\ Calls("user") /\ f \in joinable \ {current}
  /\ joinWaiter' = [joinWaiter EXCEPT ![f] = current]
  /\ joinable' = joinable \ {f}
  /\ \/ state[f] = "done" /\ Reap(f)
     \/ /\ state[f] # "done"
        /\ state' = [state EXCEPT ![current] = "blocked"]
        /\ Enter("join", f, NULL, 0)
        /\ phase' = "pick"
  /\ UNCHANGED <<detached, waitOn, deadline, wokeByTimeout, initializing, current, epoch,
                 now, memory, held>>

JoinResume ==
  /\ Calls("join")
  /\ LET f == call[current].arg
     IN \/ state[f] = "done" /\ Reap(f)
        \/ state[f] # "done" /\ phase' = "pick" /\ UNCHANGED <<state, call>>
  /\ UNCHANGED <<detached, joinWaiter, waitOn, deadline, wokeByTimeout, initializing,
                 current, epoch, now, memory, caller>>

\* A fiber may detach itself.
Detach(f) ==
  /\ Calls("user") /\ f \in joinable
  /\ detached' = [detached EXCEPT ![f] = TRUE]
  /\ state' = [state EXCEPT ![f] = IF @ = "done" THEN "free" ELSE @]
  /\ joinable' = joinable \ {f}
  /\ UNCHANGED <<joinWaiter, waitOn, deadline, wokeByTimeout, stacks,
                 current, epoch, phase, now, memory, held>>

-----------------------------------------------------------------------------
(* pthread_once. Routines do not call pthread_once themselves. *)

\* The routine is called, and runs as the fiber's own code until InitDone.
RunInitializer(o) ==
  /\ once[o] = "new"
  /\ once' = [once EXCEPT ![o] = "running"]
  /\ initializing' = [initializing EXCEPT ![current] = o]
  /\ Return
  /\ UNCHANGED <<state, waitOn, phase>>

Once(o) ==
  /\ Calls("user") /\ initializing[current] = NULL
  /\ \/ RunInitializer(o)
     \/ /\ once[o] = "running"
        /\ waitOn' = [waitOn EXCEPT ![current] = o]
        /\ state' = [state EXCEPT ![current] = "blocked"]
        /\ Enter("once", o, NULL, 0)
        /\ phase' = "pick"
        /\ UNCHANGED <<once, initializing>>
  /\ UNCHANGED <<detached, joinWaiter, deadline, wokeByTimeout, current, epoch, now, mutexEpoch, owner, caller>>

OnceResume ==
  /\ Calls("once")
  /\ LET o == call[current].arg
     IN \/ RunInitializer(o)
        \/ /\ once[o] = "running" /\ phase' = "pick"
           /\ UNCHANGED <<state, waitOn, call, once, initializing>>
        \/ /\ once[o] = "done"
           /\ Return
           /\ UNCHANGED <<state, waitOn, phase, once, initializing>>
  /\ UNCHANGED <<detached, joinWaiter, deadline, wokeByTimeout, current, epoch, now, mutexEpoch, owner, caller>>

InitDone ==
  /\ Calls("user") /\ initializing[current] # NULL
  /\ once' = [once EXCEPT ![initializing[current]] = "done"]
  /\ pf_wake_waiters_on(initializing[current])
  /\ initializing' = [initializing EXCEPT ![current] = NULL]
  /\ UNCHANGED <<call, current, epoch, phase, now, mutexEpoch, owner, caller>>

-----------------------------------------------------------------------------
(* Commands. *)

\* pfiber_begin_call. The command before is over: it called exit(), trapped in
\* some fiber's code, or was aborted, and runCommand caught that. The table is
\* cleared; mutexes and once controls are not.
BeginCall ==
  /\ phase \in Over \/ Calls("user")
  /\ epoch < MaxEpoch
  /\ epoch' = epoch + 1
  /\ state' = [f \in Fibers |-> IF f = Main THEN "runnable" ELSE "free"]
  /\ detached' = [f \in Fibers |-> FALSE]
  /\ joinWaiter' = [f \in Fibers |-> NULL]
  /\ waitOn' = [f \in Fibers |-> NULL]
  /\ deadline' = [f \in Fibers |-> NULL]
  /\ wokeByTimeout' = [f \in Fibers |-> FALSE]
  /\ call' = [f \in Fibers |-> User]
  /\ initializing' = [f \in Fibers |-> NULL]
  /\ held' = [f \in Fibers |-> {}]
  /\ joinable' = {}
  /\ current' = Main /\ phase' = "run"
  /\ UNCHANGED <<now, memory>>

\* What the shim does on its own, once a call is made.
Shim ==
  \/ Pick \/ IdleWake \/ IdleAbort \/ SleepResume \/ NapEnds
  \/ LockResume \/ CondResume \/ JoinResume \/ OnceResume

\* What the running fiber's code may do.
Calling ==
  \/ \E t \in Times : Sleep(t)
  \/ \E m \in Mutexes : Lock(m) \/ LockTwice(m) \/ Unlock(m) \/ MutexInit(m) \/ MutexDestroy(m)
  \/ \E c \in Conds, m \in Mutexes : CondWait(c, m)
  \/ \E c \in Conds, m \in Mutexes, t \in Times : CondTimedWait(c, m, t)
  \/ \E c \in Conds : Signal(c)
  \/ Create \/ Exit
  \/ \E f \in Table : Join(f) \/ Detach(f)
  \/ \E o \in Onces : Once(o)
  \/ InitDone

Next == Shim \/ Calling \/ Tick \/ BeginCall

Spec == Init /\ [][Next]_vars

\* The shim runs on, and the clock with it. How long a fiber computes before
\* it calls is its own affair.
FairSpec == Spec /\ WF_vars(Shim) /\ WF_vars(Tick)

-----------------------------------------------------------------------------
(* The invariants. *)

\* Each variable stays in its range.
TypeOK ==
  /\ state \in [Fibers -> States]
  /\ detached \in [Fibers -> BOOLEAN]
  /\ joinWaiter \in [Fibers -> Fibers \cup {NULL}]
  /\ waitOn \in [Fibers -> Objects \cup {NULL}]
  /\ deadline \in [Fibers -> Times \cup {NULL}]
  /\ wokeByTimeout \in [Fibers -> BOOLEAN]
  /\ call \in [Fibers -> Frames]
  /\ initializing \in [Fibers -> Onces \cup {NULL}]
  /\ current \in Fibers /\ epoch \in 1 .. MaxEpoch /\ phase \in Phases /\ now \in Times
  /\ mutexEpoch \in [Mutexes -> 0 .. MaxEpoch]
  /\ owner \in [Mutexes -> Fibers \cup {NULL}]
  /\ once \in [Onces -> {"new", "running", "done"}]
  /\ held \in [Fibers -> SUBSET Mutexes]
  /\ joinable \in SUBSET Table

\* A caller holds a mutex exactly when the shim says so: two fibers are never
\* inside one lock, whichever way each came by it, and the owner an earlier
\* command left in static memory is nobody's.
HoldersAgree ==
  \A m \in Mutexes, f \in Fibers : m \in held[f] <=> Holder(m) = f

\* A fiber the scheduler passes over is one that its call cannot serve yet: a
\* mutex another fiber holds, a condition no one signalled, a thread that has
\* not finished, a routine that has not. No wakeup is lost on the way to sleep.
BlockedForAReason ==
  \A f \in Fibers : state[f] = "blocked" =>
    \/ call[f].op = "lock" /\ waitOn[f] = call[f].arg /\ Holder(call[f].arg) \in Fibers \ {f}
    \/ call[f].op = "cond" /\ waitOn[f] = call[f].arg
    \/ call[f].op = "timed" /\ waitOn[f] = call[f].arg /\ deadline[f] # NULL
    \/ call[f].op = "join" /\ state[call[f].arg] \in {"runnable", "blocked"}
                           /\ joinWaiter[call[f].arg] = f
    \/ call[f].op = "once" /\ waitOn[f] = call[f].arg /\ once[call[f].arg] = "running"

\* Whether a fiber could run on, told from the calls alone: what it asked for
\* is there, or will be at a known time.
CanProceed(f) ==
  \/ call[f].op \in {"user", "yield", "sleep", "timed"}
  \/ call[f].op = "lock" /\ Holder(call[f].arg) = NULL
  \/ call[f].op = "cond" /\ waitOn[f] # call[f].arg
  \/ call[f].op = "join" /\ state[call[f].arg] = "done"
  \/ call[f].op = "once" /\ once[call[f].arg] # "running"

Live(f) == state[f] \in {"runnable", "blocked"}
Stuck   == phase \notin Over /\ \A f \in Fibers : Live(f) => ~CanProceed(f)

\* The shim gives a command up only when no fiber of it could ever run again.
AbortOnlyWhenStuck ==
  phase = "deadlocked" => \A f \in Fibers : Live(f) => ~CanProceed(f)

\* A slot is not free, and so not handed to another thread, while its stack is
\* in use or somebody has yet to join the thread in it.
SlotsKept ==
  /\ phase \notin Over => state[current] # "free"
  /\ \A f \in joinable : state[f] # "free"
  /\ \A f \in Fibers : call[f].op = "join" /\ Live(f) => state[call[f].arg] # "free"

\* One fiber at a time is inside a pthread_once routine.
OneInitializer ==
  \A f, g \in Fibers : initializing[f] # NULL =>
    /\ once[initializing[f]] = "running"
    /\ initializing[g] = initializing[f] => f = g

\* What is one fiber's is no other's: a mutex, a pthread_once routine, the slot
\* of a thread that runs or has yet to be joined.
Exclusive == HoldersAgree /\ OneInitializer /\ SlotsKept

\* Only a wait on a condition variable times out, and only when its time has
\* come: a deadline is not left armed for a later wait of the same fiber.
OnlyTimedWaitsExpire ==
  [][\A f \in Fibers : ~wokeByTimeout[f] /\ wokeByTimeout'[f] =>
       call[f].op = "timed" /\ waitOn[f] \in Conds /\ now >= deadline[f]]_vars

\* The fiber in pthread_once waits for a routine that is still running.
OnceWaitsForAnInitializer ==
  \A f \in Fibers : call[f].op = "once" /\ state[f] = "blocked" =>
    \E g \in Fibers : initializing[g] = call[f].arg

\* The table is full only of threads that are alive, or that somebody joins.
FullMeansAlive ==
  Calls("user") /\ FreeSlots = {} => Reapable = {}

-----------------------------------------------------------------------------
(* The invariant the proofs use. *)

\* No block is of a later epoch, and a call is for the kind of thing it takes.
FramesAgree ==
  /\ \A m \in Mutexes : mutexEpoch[m] <= epoch
  /\ \A f \in Fibers :
       /\ call[f].op = "lock" => call[f].arg \in Mutexes
       /\ call[f].op \in {"cond", "timed"} => call[f].arg \in Conds /\ call[f].relock \in Mutexes
       /\ call[f].op = "join" => call[f].arg \in Table \ {f}
       /\ call[f].op = "once" => call[f].arg \in Onces

\* Only a blocked fiber waits on an object, and only a timed wait is armed.
WaitsAgree ==
  \A f \in Fibers :
    /\ state[f] = "runnable" \/ call[f].op = "join" => waitOn[f] = NULL
    /\ deadline[f] # NULL => call[f].op = "timed"

\* A thread has one joiner, who knows it by a handle nobody else has.
JoinersAgree ==
  /\ \A f \in joinable : ~detached[f]
  /\ \A f \in Fibers : call[f].op = "join" /\ Live(f) =>
       /\ call[f].arg \notin joinable /\ ~detached[call[f].arg]
       /\ \A g \in Fibers \ {f} : call[g].op = "join" /\ Live(g) => call[g].arg # call[f].arg
  /\ \A f \in Fibers : Live(f) /\ joinWaiter[f] # NULL =>
       /\ Live(joinWaiter[f])
       /\ call[joinWaiter[f]].op = "join" /\ call[joinWaiter[f]].arg = f

\* The fiber whose code runs is runnable, and nobody is in pf_idle_wait(0).
RunningFiber ==
  /\ phase \in {"run", "nap"} => state[current] = "runnable"
  /\ phase = "nap" => call[current].op = "sleep"
  /\ phase = "idle" => \A f \in Fibers : state[f] # "runnable"

IInv ==
  /\ TypeOK /\ FramesAgree /\ HoldersAgree /\ BlockedForAReason /\ WaitsAgree
  /\ JoinersAgree /\ RunningFiber /\ SlotsKept /\ OneInitializer /\ AbortOnlyWhenStuck

-----------------------------------------------------------------------------
(* What must eventually happen. *)

Switching == []<>(phase = "pick")

\* As long as calls keep blocking, every runnable fiber gets its turn.
RunnableRuns ==
  Switching => \A f \in Fibers :
    state[f] = "runnable" ~> (current = f \/ phase \in Over)

\* As long as calls keep blocking, a timed wait returns, to its caller or to
\* the wait for its mutex, whatever the other fibers do.
TimedWaitsEnd ==
  Switching => \A f \in Fibers : call[f].op = "timed" ~> (call[f].op # "timed" \/ phase \in Over)

\* No fiber starves, ready or in a wait that has a time.
NoStarvation == RunnableRuns /\ TimedWaitsEnd

\* A command that can never go on says so instead of hanging.
DeadlockFailsLoudly == Stuck ~> phase \in Over

-----------------------------------------------------------------------------
(* What the calls promise. *)

Monitor == INSTANCE ThreadMonitor WITH
  Threads <- Fibers, First <- Main, Locks <- Mutexes, Queues <- Conds, Nobody <- NULL,
  life   <- [f \in Fibers |-> IF state[f] = "free" THEN "none"
                              ELSE IF state[f] = "done" THEN "finished" ELSE "live"],
  holder <- [m \in Mutexes |-> Holder(m)],
  asleep <- [f \in Fibers |-> IF state[f] = "blocked" /\ call[f].op \in {"cond", "timed"}
                              THEN waitOn[f] ELSE NULL],
  timed  <- [f \in Fibers |-> state[f] = "blocked" /\ call[f].op = "timed"]

\* The shim implements the monitor, with one fiber running at a time.
KeepsMonitor == Monitor!MonitorSpec
=============================================================================
