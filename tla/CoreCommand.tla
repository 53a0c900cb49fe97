----------------------------- MODULE CoreCommand ------------------------------
(***************************************************************************)
(* The commands of one core, as bind.js runs them for whoever calls exec()  *)
(* or ffprobe(). On the JSPI core a thread of pthread_fiber.c is a suspended *)
(* wasm stack: it gives way by queueing a microtask that starts or wakes the *)
(* next one. All stacks share one global, the C stack pointer, which neither *)
(* a throw nor a suspension puts back. On the other cores a command is one  *)
(* synchronous call, whose threads (PthreadFiber) do not appear here.        *)
(*                                                                           *)
(* A microtask, or what a stack does between two of its switches, is a step. *)
(* The application may call between any two: a superset of its microtasks,   *)
(* and of its logger and progress callbacks.                                 *)
(***************************************************************************)
EXTENDS Integers, Sequences, FiniteSets, SequencesExt

CONSTANTS
  Builds,        \* the kinds of core there are to choose from
  Fibers,        \* the slots of g_table
  Main,          \* g_main
  CallerResets,  \* the caller calls reset() after a command, as worker.ts does
  MaxArgs,       \* bound: strings in an argv
  MaxDepth,      \* bound: C frames on a stack
  MaxCommands    \* bound: commands

ASSUME CommandAssumption ==
  /\ Builds \subseteq {"jspi", "sync"} /\ CallerResets \in BOOLEAN /\ Main \notin Fibers
  /\ IsFiniteSet(Fibers)
  /\ MaxArgs \in Nat /\ MaxDepth \in Nat /\ MaxCommands \in Nat

Stacks == Fibers \cup {Main}
Base   == <<Main, 0>>  \* the stack pointer of an idle module
NoCode == -1

\* A stack of the command that was the n-th: a slot is reused by later ones.
StackOf(s, n) == [slot |-> s, of |-> n]
Nobody        == StackOf(Main, 0)

VARIABLES
  build,      \* the kind of core this is
  running,    \* bind.js: a command runs
  argv,       \* the blocks argvPtr leads to that are not freed
  lost,       \* the blocks of stringsToPtr() calls that threw
  saved,      \* what runCommand's stackSave() returned
  sp,         \* the C stack pointer
  ret,        \* Module.ret
  rejecter,   \* Module.pfiberFail: the command it rejects
  epoch,      \* g_epoch: the commands begun
  state,      \* of each fiber
  started,    \* its stack has been entered
  current,    \* g_current
  resolvers,  \* pfiberResolvers: slot -> the stack to wake, and its saved sp
  tasks,      \* the microtasks bind.js and the engine have queued
  on,         \* the wasm stack that is executing
  frames,     \* the C frames there are on each stack
  code,       \* the exit code this command has stored
  outcome     \* what the last exec() came to

call   == <<running, argv, lost, saved, rejecter>>
fiber  == <<epoch, state, started, current>>
switch == <<resolvers, tasks>>
vars   == <<build, call, fiber, switch, sp, ret, on, frames, code, outcome>>

Jspi == build = "jspi"

Init ==
  /\ build \in Builds
  /\ running = FALSE /\ argv = 0 /\ lost = 0 /\ saved = Base /\ sp = Base
  /\ ret = NoCode /\ rejecter = 0 /\ epoch = 0
  /\ state = [s \in Stacks |-> "free"] /\ started = [s \in Stacks |-> FALSE]
  /\ current = Main /\ resolvers = << >> /\ tasks = << >>
  /\ on = Nobody /\ frames = [s \in Stacks |-> 0]
  /\ code = NoCode /\ outcome = "none"

Pointers == Stacks \X (0 .. MaxDepth)
StackIds == [slot : Stacks, of : 0 .. MaxCommands]
Tasks    == [do : {"start", "wake", "restore", "resume"}, id : StackIds, sp : Pointers]
            \cup [do : {"settle", "fail"}, how : {"returned", "aborted", "trapped"}]

TypeOK ==
  /\ build \in Builds
  /\ running \in BOOLEAN /\ argv \in 0 .. MaxArgs + 1 /\ lost \in Nat
  /\ saved \in Pointers /\ sp \in Pointers /\ ret \in {NoCode, 0, 1}
  /\ rejecter \in 0 .. MaxCommands /\ epoch \in 0 .. MaxCommands
  /\ state \in [Stacks -> {"free", "runnable", "blocked", "done"}]
  /\ started \in [Stacks -> BOOLEAN] /\ current \in Stacks
  /\ DOMAIN resolvers \subseteq Stacks
  /\ tasks \in Seq(Tasks) /\ on \in StackIds
  /\ frames \in [Stacks -> 0 .. MaxDepth] /\ code \in {NoCode, 0, 1}

Executing == on # Nobody

-----------------------------------------------------------------------------
(* runCommand().                                                            *)

\* Mutants: the stack pointer stays where the command left it; argv leaks.
LeaveStack == running' = FALSE /\ argv' = 0 /\ sp' = sp
\* The clean-up frees argv, if there is one, and restores the stack pointer.
CleanUp == running' = FALSE /\ argv' = 0 /\ sp' = saved

\* Mutant: fibers of the command before keep their entries.
KeepTable ==
  /\ epoch' = epoch + 1 /\ current' = Main
  /\ state' = [state EXCEPT ![Main] = "runnable"]
  /\ started' = [started EXCEPT ![Main] = TRUE]

\* pfiber_reset(), through pfiber_begin_call().
BeginCall ==
  /\ epoch' = epoch + 1 /\ current' = Main
  /\ state' = [s \in Stacks |-> IF s = Main THEN "runnable" ELSE "free"]
  /\ started' = [s \in Stacks |-> s = Main]

\* A second command is refused: the first may be suspended, or calling back.
MayRun == ~running /\ (CallerResets => ret = NoCode)

\* exec() or ffprobe() with a command line of n strings.
Exec(n) ==
  /\ MayRun /\ epoch < MaxCommands /\ n <= MaxArgs
  /\ running' = TRUE /\ argv' = n + 1 /\ saved' = sp
  /\ BeginCall
  /\ on' = StackOf(Main, epoch') /\ frames' = [s \in Stacks |-> 0]
  /\ code' = NoCode /\ outcome' = "none"
  /\ UNCHANGED <<lost, rejecter, switch, sp, ret>>

\* stringsToPtr() throws after k blocks, which argvPtr does not lead to. The
\* abort of an allocator out of memory is ignored as the end of a command is.
FailToStart(k) ==
  /\ MayRun /\ lost + k <= MaxArgs
  /\ lost' = lost + k
  /\ code' = NoCode /\ outcome' = "aborted"
  /\ UNCHANGED <<running, argv, saved, rejecter, fiber, switch, sp, ret, on, frames>>

\* On the st core pfiber_begin_call() may abort, for want of memory.
BeginFails ==
  /\ MayRun /\ ~Jspi /\ epoch < MaxCommands
  /\ BeginCall
  /\ code' = NoCode /\ outcome' = "aborted"
  /\ UNCHANGED <<call, switch, sp, ret, on, frames>>

\* worker.ts, and a careful caller, call reset() when a command is over.
Reset ==
  /\ CallerResets /\ ~running /\ ret # NoCode
  /\ ret' = NoCode /\ outcome' = "none"
  /\ UNCHANGED <<call, fiber, switch, sp, on, frames, code>>

-----------------------------------------------------------------------------
(* What the executing stack does.                                           *)

\* It calls and returns: its frames and the stack pointer move together.
Frame ==
  /\ Executing
  /\ \E d \in 0 .. MaxDepth :
       /\ frames' = [frames EXCEPT ![on.slot] = d]
       /\ sp' = <<sp[1], sp[2] + d - frames[on.slot]>>
  /\ UNCHANGED <<call, fiber, switch, ret, on, code, outcome>>

\* pthread_create(), on the JSPI core: the first free entry is as good as any.
Create(f) ==
  /\ Jspi /\ Executing /\ state[f] = "free"
  /\ state' = [state EXCEPT ![f] = "runnable"]
  /\ started' = [started EXCEPT ![f] = FALSE]
  /\ frames' = [frames EXCEPT ![f] = 0]
  /\ UNCHANGED <<call, epoch, current, switch, sp, ret, on, code, outcome>>

\* A mutex or condition it releases wakes another, or a join frees an entry.
Release(f) ==
  /\ Jspi /\ Executing /\ f # on.slot
  /\ \/ state[f] = "blocked" /\ state' = [state EXCEPT ![f] = "runnable"]
     \/ state[f] = "done" /\ state' = [state EXCEPT ![f] = "free"]
  /\ UNCHANGED <<call, epoch, started, current, switch, sp, ret, on, frames, code, outcome>>

\* pfiber_enter_next(): start the stack of a new fiber on its own C stack, or
\* wake it. pfiberRun() queues that.
RunNext(next) ==
  [do |-> IF started[next] THEN "wake" ELSE "start",
   id |-> StackOf(next, epoch), sp |-> <<next, 0>>]

\* runCommand makes its second promise when the call first returns to it.
Returned == rejecter' = IF on.slot = Main THEN epoch ELSE rejecter

\* pfiber_reschedule() from a fiber that blocks or gives way: pfiberSwitch()
\* saves the stack pointer and the stack suspends. When pfiber_pick() finds no
\* other runnable it waits for a deadline, which Release stands for.
Switch(next, blocks) ==
  /\ Jspi /\ Executing /\ next # on.slot /\ state[next] = "runnable"
  /\ state' = [state EXCEPT ![on.slot] = IF blocks THEN "blocked" ELSE "runnable"]
  /\ current' = next
  /\ started' = [started EXCEPT ![next] = TRUE]
  /\ resolvers' = [s \in DOMAIN resolvers \cup {on.slot} |->
                     IF s = on.slot THEN [id |-> on, sp |-> sp] ELSE resolvers[s]]
  /\ tasks' = Append(tasks, RunNext(next))
  /\ Returned
  /\ on' = Nobody
  /\ UNCHANGED <<running, argv, lost, saved, epoch, sp, ret, frames, code, outcome>>

\* pfiber_trampoline(): a thread's routine has returned and its promise ends.
Finish(next) ==
  /\ Jspi /\ Executing /\ on.slot # Main /\ state[next] = "runnable" /\ next # on.slot
  /\ state' = [state EXCEPT ![on.slot] = "done"]
  /\ current' = next
  /\ started' = [started EXCEPT ![next] = TRUE]
  /\ tasks' = Append(tasks, RunNext(next))
  /\ on' = Nobody
  /\ UNCHANGED <<call, epoch, resolvers, sp, ret, frames, code, outcome>>

\* Mutant: the code is returned and not stored.
ReturnOnly(c) == ret' = ret /\ code' = c

\* ffmpeg() or ffprobe() stores its code; wasm_exit() does, then aborts.
SetRet(c) == ret' = c /\ code' = c

\* The main stack is left: the call's own promise settles, or on the other
\* cores the call is over at once, and runCommand cleans up.
LeaveMain(how) ==
  /\ on' = Nobody
  /\ IF Jspi THEN /\ tasks' = Append(tasks, [do |-> "settle", how |-> how])
                  /\ Returned
                  /\ UNCHANGED <<running, argv, saved, lost, sp, outcome>>
             ELSE /\ CleanUp /\ outcome' = how
                  /\ UNCHANGED <<saved, lost, rejecter, tasks>>

Return ==
  /\ Executing /\ on.slot = Main
  /\ \E c \in {0, 1} : SetRet(c)
  /\ LeaveMain("returned")
  /\ UNCHANGED <<fiber, resolvers, frames>>

\* abort(), with or without wasm_exit() before it, or a trap, in any thread. A
\* thread that throws rejects the promise of its pfiber_enter().
Throw ==
  /\ Executing
  /\ \E how \in {"aborted", "trapped"} :
       /\ \/ UNCHANGED <<ret, code>>
          \/ how = "aborted" /\ \E c \in {0, 1} : SetRet(c)
       /\ IF on.slot = Main THEN LeaveMain(how)
          ELSE /\ tasks' = Append(tasks, [do |-> "fail", how |-> how])
               /\ on' = Nobody /\ UNCHANGED <<call, sp, outcome>>
  /\ UNCHANGED <<fiber, resolvers, frames>>

-----------------------------------------------------------------------------
(* Microtasks: the first in the queue, when no stack executes.              *)

Task(do) == ~Executing /\ tasks # << >> /\ Head(tasks).do = do

\* pfiberRun() puts a new stack on top of its own C stack.
StartOnTop(t) == sp' = t.sp

\* Its callback for a new fiber, whose pfiber_enter() runs at once.
RunStart ==
  /\ Task("start")
  /\ StartOnTop(Head(tasks))
  /\ on' = Head(tasks).id
  /\ frames' = [frames EXCEPT ![on'.slot] = 0]
  /\ tasks' = Tail(tasks)
  /\ UNCHANGED <<call, fiber, resolvers, ret, code, outcome>>

\* Its callback for a suspended one: resolve the promise it awaits. It would
\* throw, in a microtask no one watches, if there were none.
RunWake ==
  /\ Task("wake")
  /\ LET s == Head(tasks).id.slot
     IN tasks' = Tail(tasks) \o
          (IF s \in DOMAIN resolvers
           THEN <<[do |-> "restore", id |-> resolvers[s].id, sp |-> resolvers[s].sp]>>
           ELSE << >>)
  /\ UNCHANGED <<call, fiber, resolvers, sp, ret, on, frames, code, outcome>>

\* Mutant: a stack resumes with the stack pointer of the one before it.
RestoreNothing(t) == sp' = sp

RestoreStack(t) == sp' = t.sp

\* pfiberSwitch() goes on after its await.
RunRestore ==
  /\ Task("restore")
  /\ LET t == Head(tasks)
     IN /\ resolvers' = [s \in DOMAIN resolvers \ {t.id.slot} |-> resolvers[s]]
        /\ RestoreStack(t)
        /\ tasks' = Append(Tail(tasks), [t EXCEPT !.do = "resume"])
  /\ UNCHANGED <<call, fiber, ret, on, frames, code, outcome>>

\* The engine resumes the stack that waited for it.
RunResume ==
  /\ Task("resume")
  /\ on' = Head(tasks).id
  /\ tasks' = Tail(tasks)
  /\ UNCHANGED <<call, fiber, resolvers, sp, ret, frames, code, outcome>>

\* Mutant: what a thread throws is only reported.
ReportOnly(t) == << >>

\* pfiberFail() rejects the promise runCommand races with the call's.
FailCommand(t) == IF rejecter = epoch THEN <<[t EXCEPT !.do = "settle"]>> ELSE << >>

RunFail ==
  /\ Task("fail")
  /\ tasks' = Tail(tasks) \o FailCommand(Head(tasks))
  /\ UNCHANGED <<call, fiber, resolvers, sp, ret, on, frames, code, outcome>>

\* The race is over: clean up, and return Module.ret or pass the trap on.
RunSettle ==
  /\ Task("settle")
  /\ CleanUp
  /\ outcome' = Head(tasks).how
  /\ tasks' = Tail(tasks)
  /\ UNCHANGED <<lost, saved, rejecter, fiber, resolvers, ret, on, frames, code>>

Microtask == RunStart \/ RunWake \/ RunRestore \/ RunResume \/ RunFail \/ RunSettle

Next ==
  /\ \/ \E n \in 0 .. MaxArgs : Exec(n) \/ FailToStart(n)
     \/ BeginFails \/ Reset \/ Frame \/ Return \/ Throw \/ Microtask
     \/ \E s \in Stacks :
          \/ s # Main /\ Create(s)
          \/ Release(s) \/ Finish(s)
          \/ \E blocks \in BOOLEAN : Switch(s, blocks)
  /\ UNCHANGED build

Spec == Init /\ [][Next]_vars

\* The engine runs its microtasks; no command is assumed to end.
FairSpec == Spec /\ WF_vars(Microtask /\ UNCHANGED build)

-----------------------------------------------------------------------------
(* Properties.                                                              *)

\* Whichever stack executes, the stack pointer is its own, at its own depth;
\* an idle module is where it started, whatever threw (bind.js:97, :110).
StackPointerIsOwn ==
  /\ Executing => sp = <<on.slot, frames[on.slot]>>
  /\ ~running => sp = Base

\* The command line is there while any stack of its command may read it, and
\* freed when it is over (bind.js:106).
ArgvWhileRunning == running <=> argv > 0

\* A suspended stack of an earlier command never runs again, also when its
\* fiber's slot has been used since, and only g_current's stack executes.
NoStaleStack ==
  Executing => running /\ on = StackOf(current, epoch)

\* A fiber that is woken waits with a resolver, and that of this command.
WakesAWaiter ==
  \A i \in DOMAIN tasks : tasks[i].do = "wake" =>
    /\ tasks[i].id.slot \in DOMAIN resolvers
    /\ resolvers[tasks[i].id.slot].id = tasks[i].id

\* While a command runs control is in exactly one place: the executing stack,
\* or one queued task. None means it hangs, two that stacks interleave.
OneControl ==
  running => Len(tasks) = (IF Executing THEN 0 ELSE 1)

\* Of all the stacks a core has had, the one that executes or is about to is the
\* current fiber's of the running command, which still has its arguments.
ControlAgrees ==
  TypeOK /\ ArgvWhileRunning /\ NoStaleStack /\ WakesAWaiter /\ OneControl

\* exec() comes to the code its own command stored, or to -1 if it stored none
\* (types/index.d.ts:149: `return code of the ffmpeg exec').
ExitCodeIsOwn == outcome \in {"returned", "aborted"} => ret = code

\* However a command's stacks end, by returning or throwing, the call settles:
\* a thread that throws must not leave exec() pending for ever.
EndSettles ==
  (\E i \in DOMAIN tasks : tasks[i].do \in {"settle", "fail"}) ~> ~running

\* A fiber that was picked gets to execute.
PickedRuns ==
  \A s \in Stacks :
    (running /\ current = s) ~> (~running \/ current # s \/ (Executing /\ on.slot = s))

\* A command never hangs between two stacks.
ControlMovesOn == EndSettles /\ PickedRuns

=============================================================================
