-------------------------- MODULE CoreCommand_proofs --------------------------
(***************************************************************************)
(* What CoreCommand promises of the stacks of a core, for any number of      *)
(* threads, commands, strings and frames, and ToolGlobals of its globals.    *)
(***************************************************************************)
EXTENDS CoreCommand, TLAPS

USE CommandAssumption DEF CommandAssumption

Hows == {"returned", "aborted", "trapped"}

\* The stack that executes, or will when the task that is queued has run.
Mine == StackOf(current, epoch)

\* The stack pointer of stack s.
Depth(s) == <<s, frames[s]>>

\* Stack s is suspended in pfiberSwitch(), which knows its stack pointer.
Waits(s) ==
  s \in DOMAIN resolvers /\ resolvers[s] = [id |-> StackOf(s, epoch), sp |-> Depth(s)]

Step(do, p) == [do |-> do, id |-> Mine, sp |-> p]
End(do, how) == [do |-> do, how |-> how]

\* The one task there is while no stack executes.
Due(t) ==
  \/ t = Step("start", <<current, 0>>)
  \/ t = Step("wake", <<current, 0>>) /\ Waits(current)
  \/ t = Step("restore", Depth(current))
  \/ t = Step("resume", Depth(current)) /\ sp = Depth(current)
  \/ \E how \in Hows : t = End("settle", how)
  \/ rejecter = epoch /\ \E how \in Hows : t = End("fail", how)

\* Control is with the current fiber's stack, or with the task that leads to it
\* or away from it.
HasControl ==
  \/ on = Mine /\ tasks = << >> /\ sp = Depth(current)
  \/ Jspi /\ on = Nobody /\ \E t \in Tasks : tasks = <<t>> /\ Due(t)

\* Every other fiber that has started, and not finished, is suspended.
OthersWait ==
  \A s \in Stacks \ {current} :
    started[s] /\ state[s] \in {"runnable", "blocked"} => Waits(s)

AtWork ==
  /\ argv > 0 /\ saved = Base /\ epoch > 0 /\ state[current] = "runnable"
  /\ HasControl /\ OthersWait
  /\ current # Main => Jspi /\ rejecter = epoch

AtRest == argv = 0 /\ tasks = << >> /\ on = Nobody /\ sp = Base

IInv == TypeOK /\ (running => AtWork) /\ (~running => AtRest)

-----------------------------------------------------------------------------

LEMMA NotNobody == ASSUME TypeOK, epoch > 0 PROVE Mine # Nobody
BY DEF TypeOK, Mine, Nobody, StackOf

LEMMA MineIsStack == ASSUME TypeOK PROVE Mine \in StackIds /\ Nobody \in StackIds
BY DEF TypeOK, Mine, Nobody, StackOf, StackIds, Stacks

LEMMA OneTask ==
  ASSUME NEW t \in Tasks
  PROVE  /\ <<t>> # << >> /\ Head(<<t>>) = t /\ Tail(<<t>>) = << >> /\ Len(<<t>>) = 1
         /\ Append(<< >>, t) = <<t>> /\ <<t>> \in Seq(Tasks)
         /\ << >> \o <<t>> = <<t>> /\ Append(Tail(<<t>>), t) = <<t>>
  OBVIOUS

LEMMA StepIsTask ==
  ASSUME TypeOK, NEW do \in {"start", "wake", "restore", "resume"}, NEW p \in Pointers
  PROVE  Step(do, p) \in Tasks
BY DEF TypeOK, Step, Mine, StackOf, StackIds, Tasks

LEMMA EndIsTask ==
  ASSUME NEW do \in {"settle", "fail"}, NEW how \in Hows
  PROVE  End(do, how) \in Tasks
BY DEF End, Hows, Tasks

\* While a stack executes it is the current one's, and nothing is queued.
LEMMA Executes ==
  ASSUME IInv, Executing
  PROVE  /\ running /\ AtWork /\ on = Mine /\ on.slot = current /\ tasks = << >>
         /\ sp = Depth(current) /\ current \in Stacks
BY NotNobody DEF IInv, AtRest, AtWork, HasControl, Executing, Mine, StackOf, TypeOK

\* A task is found only while a command runs, and alone.
LEMMA Found ==
  ASSUME IInv, NEW do, Task(do)
  PROVE  /\ running /\ AtWork /\ Jspi /\ on = Nobody /\ Due(Head(tasks)) /\ Head(tasks) \in Tasks
         /\ Tail(tasks) = << >> /\ Head(tasks).do = do
<1>1. running /\ AtWork
  BY DEF IInv, AtRest, Task
<1>2. PICK t \in Tasks : Jspi /\ on = Nobody /\ tasks = <<t>> /\ Due(t)
  BY <1>1, NotNobody DEF AtWork, HasControl, Task, Executing, IInv
<1> QED BY <1>1, <1>2, OneTask DEF Task

LEMMA InitInv == Init => IInv
<1> SUFFICES ASSUME Init PROVE IInv
  OBVIOUS
<1>1. TypeOK
  <2>1. Main \in Stacks /\ Base \in Pointers /\ Nobody \in StackIds
    BY DEF Pointers, Base, Stacks, StackIds, Nobody, StackOf
  <2>2. DOMAIN resolvers \subseteq Stacks /\ tasks \in Seq(Tasks)
    BY DEF Init
  <2>3. /\ state \in [Stacks -> {"free", "runnable", "blocked", "done"}]
        /\ started \in [Stacks -> BOOLEAN] /\ frames \in [Stacks -> 0 .. MaxDepth]
    BY DEF Init
  <2>4. 0 \in 0 .. MaxArgs + 1 /\ 0 \in 0 .. MaxCommands
    OBVIOUS
  <2>5. argv \in 0 .. MaxArgs + 1 /\ rejecter \in 0 .. MaxCommands /\ epoch \in 0 .. MaxCommands
    BY <2>4 DEF Init
  <2> QED BY <2>1, <2>2, <2>3, <2>5 DEF Init, TypeOK
<1>2. AtRest /\ ~running
  BY DEF Init, AtRest
<1> QED BY <1>1, <1>2 DEF IInv

-----------------------------------------------------------------------------
(* runCommand().                                                            *)

LEMMA ExecInv == ASSUME IInv, NEW n \in 0 .. MaxArgs, Exec(n), UNCHANGED build PROVE IInv'
<1> USE DEF Exec, BeginCall
<1>1. AtRest /\ ~running /\ TypeOK
  BY DEF IInv, MayRun
<1>2. TypeOK'
  BY <1>1 DEF TypeOK, Stacks, StackIds, StackOf, Pointers, NoCode, switch, MayRun
<1>3. AtWork'
  <2>1. (argv > 0 /\ saved = Base /\ epoch > 0 /\ current = Main)'
    BY <1>1 DEF TypeOK, AtRest
  <2>2. HasControl'
    <3>1. on' = Mine' /\ tasks' = << >>
      BY <1>1 DEF Mine, AtRest, switch
    <3>2. sp' = Depth(current)'
      BY <1>1 DEF AtRest, Base, Depth, Stacks
    <3> QED BY <3>1, <3>2 DEF HasControl
  <2>3. OthersWait' /\ state'[Main] = "runnable"
    BY DEF OthersWait, Stacks
  <2> QED BY <2>1, <2>2, <2>3 DEF AtWork
<1> QED BY <1>2, <1>3 DEF IInv

\* A command that does not start leaves the core at rest.
LEMMA NotStarted ==
  ASSUME IInv, ~running, UNCHANGED <<running, argv, saved, rejecter, switch, sp, on, frames, build>>, TypeOK'
  PROVE  IInv'
BY DEF IInv, AtRest, switch

LEMMA IdleInv ==
  ASSUME IInv, (\E n \in 0 .. MaxArgs : FailToStart(n)) \/ BeginFails \/ Reset, UNCHANGED build
  PROVE  IInv'
<1>1. ~running /\ UNCHANGED <<running, argv, saved, rejecter, switch, sp, on, frames, build>>
  BY DEF FailToStart, BeginFails, Reset, MayRun, call
<1>2. TypeOK'
  <2> USE DEF IInv, TypeOK, switch, call, NoCode, MayRun
  <2>1. CASE \E n \in 0 .. MaxArgs : FailToStart(n)
    BY <2>1 DEF FailToStart, fiber
  <2>2. CASE BeginFails
    BY <2>2 DEF BeginFails, BeginCall, Stacks
  <2>3. CASE Reset
    BY <2>3 DEF Reset, fiber
  <2> QED BY <2>1, <2>2, <2>3
<1> QED BY <1>1, <1>2, NotStarted

-----------------------------------------------------------------------------
(* The executing stack.                                                     *)

LEMMA FrameInv == ASSUME IInv, Frame, UNCHANGED build PROVE IInv'
<1>1. running /\ AtWork /\ on = Mine /\ on.slot = current /\ tasks = << >> /\ sp = Depth(current)
      /\ current \in Stacks /\ TypeOK
  BY Executes DEF Frame, IInv
<1>2. PICK d \in 0 .. MaxDepth :
        /\ frames' = [frames EXCEPT ![current] = d]
        /\ sp' = <<sp[1], sp[2] + d - frames[current]>>
  BY <1>1 DEF Frame
<1>3. sp' = <<current, d>> /\ frames[current] \in 0 .. MaxDepth
  <2>1. frames[current] \in 0 .. MaxDepth /\ sp[1] = current /\ sp[2] = frames[current]
    BY <1>1 DEF TypeOK, Depth
  <2>2. frames[current] + d - frames[current] = d
    BY <2>1
  <2> QED BY <1>2, <2>1, <2>2
<1>4. TypeOK'
  BY <1>1, <1>2, <1>3 DEF Frame, TypeOK, fiber, switch, call, Pointers
<1>5. AtWork'
  <2>1. sp' = Depth(current)' /\ on' = Mine' /\ tasks' = << >> /\ current' = current
    BY <1>1, <1>2, <1>3 DEF Frame, Depth, fiber, switch, Mine, TypeOK
  <2>2. OthersWait'
    BY <1>1, <1>2 DEF Frame, AtWork, OthersWait, Waits, Depth, fiber, switch, TypeOK
  <2> QED BY <1>1, <2>1, <2>2 DEF AtWork, HasControl, Frame, fiber, call, Jspi
<1> QED BY <1>1, <1>4, <1>5 DEF IInv, Frame, call

\* Another fiber's entry changes, without the stack of one that has started.
LEMMA CreateInv == ASSUME IInv, NEW f \in Fibers, Create(f), UNCHANGED build PROVE IInv'
<1>1. running /\ AtWork /\ on = Mine /\ tasks = << >> /\ sp = Depth(current)
      /\ current \in Stacks /\ TypeOK
  BY Executes DEF Create, IInv
<1>2. TypeOK'
  BY <1>1 DEF Create, TypeOK, switch, call, Stacks
<1>3. f # current /\ f \in Stacks
  BY <1>1 DEF Create, AtWork, Stacks
<1>4. HasControl'
  BY <1>1, <1>3 DEF Create, HasControl, Depth, Mine, switch, TypeOK
<1>5. OthersWait'
  <2> SUFFICES ASSUME NEW s \in Stacks \ {current}, started'[s], state'[s] \in {"runnable", "blocked"}
               PROVE  Waits(s)'
    BY DEF OthersWait, Create
  <2>1. s # f /\ started[s] /\ state[s] \in {"runnable", "blocked"}
    BY <1>1, <1>3 DEF Create, TypeOK
  <2>2. Waits(s)
    BY <1>1, <2>1 DEF AtWork, OthersWait
  <2> QED BY <1>1, <1>3, <2>1, <2>2 DEF Waits, Depth, Create, switch, TypeOK
<1>6. AtWork'
  BY <1>1, <1>3, <1>4, <1>5 DEF AtWork, Create, call, Jspi, TypeOK
<1> QED BY <1>1, <1>2, <1>6 DEF IInv, Create, call

LEMMA ReleaseInv == ASSUME IInv, NEW f \in Stacks, Release(f), UNCHANGED build PROVE IInv'
<1>1. running /\ AtWork /\ on = Mine /\ on.slot = current /\ tasks = << >> /\ sp = Depth(current)
      /\ current \in Stacks /\ TypeOK
  BY Executes DEF Release, IInv
<1>2. /\ f # current /\ state' \in [Stacks -> {"free", "runnable", "blocked", "done"}]
      /\ \A s \in Stacks \ {f} : state'[s] = state[s]
      /\ state'[f] \in {"runnable", "blocked"} => state[f] \in {"runnable", "blocked"}
  BY <1>1 DEF Release, TypeOK
<1>3. TypeOK'
  BY <1>1, <1>2 DEF Release, TypeOK, switch, call
<1>4. HasControl'
  BY <1>1 DEF Release, HasControl, Depth, Mine, switch
<1>5. OthersWait'
  <2> SUFFICES ASSUME NEW s \in Stacks \ {current}, started[s], state'[s] \in {"runnable", "blocked"}
               PROVE  Waits(s)'
    BY DEF OthersWait, Release
  <2>1. Waits(s)
    BY <1>1, <1>2 DEF AtWork, OthersWait
  <2> QED BY <2>1 DEF Waits, Depth, Release, switch
<1>6. AtWork'
  BY <1>1, <1>2, <1>4, <1>5 DEF AtWork, Release, call, Jspi
<1> QED BY <1>1, <1>3, <1>6 DEF IInv, Release, call

\* What pfiberRun() queues leads to the stack of the fiber that was picked.
LEMMA NextIsDue ==
  ASSUME TypeOK, NEW next \in Stacks, NEW t, t = RunNext(next),
         current' = next, epoch' = epoch, started[next] => Waits(next)'
  PROVE  t \in Tasks /\ Due(t)'
<1>1. /\ StackOf(next, epoch) \in StackIds /\ <<next, 0>> \in Pointers
      /\ Mine' = StackOf(next, epoch)
  BY DEF TypeOK, StackOf, StackIds, Pointers, Mine
<1>2. CASE started[next]
  <2>1. t = [do |-> "wake", id |-> StackOf(next, epoch), sp |-> <<next, 0>>]
    BY <1>2 DEF RunNext
  <2> QED BY <1>1, <1>2, <2>1 DEF Due, Step, Tasks
<1>3. CASE ~started[next]
  <2>1. t = [do |-> "start", id |-> StackOf(next, epoch), sp |-> <<next, 0>>]
    BY <1>3 DEF RunNext
  <2> QED BY <1>1, <2>1 DEF Due, Step, Tasks
<1> QED BY <1>2, <1>3

LEMMA SwitchInv ==
  ASSUME IInv, NEW next \in Stacks, NEW blocks \in BOOLEAN, Switch(next, blocks), UNCHANGED build
  PROVE  IInv'
<1>1. running /\ AtWork /\ on = Mine /\ on.slot = current /\ tasks = << >> /\ sp = Depth(current)
      /\ current \in Stacks /\ TypeOK /\ next # current
  BY Executes DEF Switch, IInv
<1>2. /\ resolvers' = [s \in DOMAIN resolvers \cup {current} |->
                         IF s = current THEN [id |-> on, sp |-> sp] ELSE resolvers[s]]
      /\ state' \in [Stacks -> {"free", "runnable", "blocked", "done"}]
      /\ \A s \in Stacks \ {current} : state'[s] = state[s]
      /\ epoch' = epoch /\ frames' = frames /\ on' = Nobody /\ current' = next
  BY <1>1 DEF Switch, TypeOK
<1>3. \A s \in Stacks : s = current \/ Waits(s) => Waits(s)'
  <2> SUFFICES ASSUME NEW s \in Stacks, s = current \/ Waits(s) PROVE Waits(s)'
    OBVIOUS
  <2>1. s \in DOMAIN resolvers'
    BY <1>2 DEF Waits
  <2>2. CASE s = current
    BY <1>1, <1>2, <2>1, <2>2 DEF Waits, Depth, Mine
  <2>3. CASE s # current
    BY <1>2, <2>1, <2>3 DEF Waits, Depth
  <2> QED BY <2>2, <2>3
<1>4. started[next] => Waits(next)'
  BY <1>1, <1>3 DEF AtWork, OthersWait, Switch
<1>5. PICK t \in Tasks : tasks' = <<t>> /\ Due(t)'
  BY <1>1, <1>2, <1>4, NextIsDue, OneTask DEF Switch
<1>6. rejecter' \in 0 .. MaxCommands /\ rejecter' = epoch
  BY <1>1 DEF Switch, Returned, TypeOK, AtWork
<1>7. TypeOK'
  <2>1. on' \in StackIds /\ tasks' \in Seq(Tasks) /\ DOMAIN resolvers' \subseteq Stacks
    BY <1>1, <1>2, <1>5, OneTask DEF TypeOK, Nobody, StackOf, StackIds, Stacks
  <2>2. started' \in [Stacks -> BOOLEAN]
    BY <1>1 DEF Switch, TypeOK
  <2> QED BY <1>1, <1>2, <1>6, <2>1, <2>2 DEF Switch, TypeOK
<1>8. HasControl'
  BY <1>2, <1>5 DEF HasControl, Switch, Jspi, Nobody, Tasks
<1>9. OthersWait'
  <2> SUFFICES ASSUME NEW s \in Stacks \ {next}, started'[s], state'[s] \in {"runnable", "blocked"}
               PROVE  Waits(s)'
    BY <1>2 DEF OthersWait
  <2>1. CASE s = current
    BY <1>3, <2>1
  <2>2. CASE s # current
    BY <1>1, <1>2, <1>3, <2>2 DEF AtWork, OthersWait, Switch, TypeOK
  <2> QED BY <2>1, <2>2
<1>10. AtWork'
  BY <1>1, <1>2, <1>6, <1>8, <1>9 DEF AtWork, Switch, Jspi
<1> QED BY <1>1, <1>7, <1>10 DEF IInv, Switch

LEMMA FinishInv == ASSUME IInv, NEW next \in Stacks, Finish(next), UNCHANGED build PROVE IInv'
<1>1. running /\ AtWork /\ on = Mine /\ on.slot = current /\ tasks = << >>
      /\ current \in Stacks /\ TypeOK /\ next # current /\ current # Main
  BY Executes DEF Finish, IInv
<1>2. /\ state' = [state EXCEPT ![current] = "done"] /\ current' = next
      /\ UNCHANGED <<resolvers, epoch, frames>>
  BY <1>1 DEF Finish
<1>3. \A s \in Stacks : Waits(s) => Waits(s)'
  BY <1>2 DEF Waits, Depth
<1>4. PICK t \in Tasks : tasks' = <<t>> /\ Due(t)'
  BY <1>1, <1>2, <1>3, NextIsDue, OneTask DEF Finish, AtWork, OthersWait
<1>5. TypeOK'
  <2>1. on' \in StackIds /\ tasks' \in Seq(Tasks)
    BY <1>1, <1>4, OneTask DEF Finish, TypeOK, Nobody, StackOf, StackIds, Stacks
  <2> QED BY <1>1, <1>2, <2>1 DEF Finish, TypeOK, call
<1>6. HasControl'
  BY <1>1, <1>4 DEF HasControl, Finish, AtWork, Jspi
<1>7. OthersWait'
  BY <1>1, <1>2, <1>3 DEF OthersWait, AtWork, Finish, TypeOK
<1>8. AtWork'
  BY <1>1, <1>2, <1>6, <1>7 DEF AtWork, Finish, call, Jspi, TypeOK
<1> QED BY <1>1, <1>5, <1>8 DEF IInv, Finish, call

\* A stack has ended: a task that settles the command is queued, or there is no
\* promise and runCommand has cleaned up.
LEMMA EndDue ==
  ASSUME TypeOK, AtWork, Jspi, NEW t \in Tasks, Due(t)', UNCHANGED <<build, running, argv, saved, fiber, resolvers, frames>>,
         tasks' = <<t>>, on' = Nobody, rejecter' = rejecter \/ rejecter' = epoch
  PROVE  AtWork'
<1>1. HasControl'
  BY DEF HasControl, Jspi, Nobody, Tasks
<1>2. OthersWait'
  BY DEF AtWork, OthersWait, Waits, Depth, fiber
<1> QED BY <1>1, <1>2 DEF AtWork, fiber, Jspi

LEMMA LeaveInv ==
  ASSUME IInv, Executing, on.slot = Main, NEW how \in Hows, LeaveMain(how),
         UNCHANGED <<build, fiber, resolvers, frames>>, ret' \in {NoCode, 0, 1}, code' \in {NoCode, 0, 1}
  PROVE  IInv'
<1>1. running /\ AtWork /\ on = Mine /\ on.slot = current /\ tasks = << >> /\ TypeOK
  BY Executes DEF IInv
<1>2. CASE Jspi
  <2>1. tasks' = <<End("settle", how)>> /\ End("settle", how) \in Tasks
    BY <1>1, <1>2, OneTask, EndIsTask DEF LeaveMain, End
  <2>2. PICK t \in Tasks : t = End("settle", how)
    BY <2>1
  <2>3. Due(t)'
    BY <2>2 DEF Due, End
  <2>4. AtWork'
    BY <1>1, <1>2, <2>1, <2>2, <2>3, EndDue DEF LeaveMain, Returned
  <2>5. TypeOK'
    BY <1>1, <1>2, <2>1, OneTask
       DEF LeaveMain, Returned, TypeOK, fiber, Nobody, StackOf, StackIds, Stacks
  <2> QED BY <1>1, <1>2, <2>4, <2>5 DEF IInv, LeaveMain
<1>3. CASE ~Jspi
  <2>1. AtRest' /\ ~running'
    BY <1>1, <1>3 DEF LeaveMain, CleanUp, AtRest, AtWork
  <2>2. TypeOK'
    <3>1. on' \in StackIds /\ argv' \in 0 .. MaxArgs + 1 /\ sp' \in Pointers
      BY <1>1, <1>3, MineIsStack DEF LeaveMain, CleanUp, TypeOK
    <3>2. UNCHANGED <<saved, lost, rejecter, tasks>> /\ running' = FALSE
      BY <1>3 DEF LeaveMain, CleanUp
    <3> QED BY <1>1, <3>1, <3>2 DEF TypeOK, fiber
  <2> QED BY <2>1, <2>2 DEF IInv
<1> QED BY <1>2, <1>3

LEMMA ReturnInv == ASSUME IInv, Return, UNCHANGED build PROVE IInv'
BY LeaveInv DEF Return, SetRet, Hows

LEMMA ThrowInv == ASSUME IInv, Throw, UNCHANGED build PROVE IInv'
<1>1. PICK how \in {"aborted", "trapped"} :
        /\ UNCHANGED <<ret, code>> \/ \E c \in {0, 1} : SetRet(c)
        /\ IF on.slot = Main THEN LeaveMain(how)
           ELSE /\ tasks' = Append(tasks, [do |-> "fail", how |-> how])
                /\ on' = Nobody /\ UNCHANGED <<call, sp, outcome>>
  BY DEF Throw
<1>2. running /\ AtWork /\ on.slot = current /\ tasks = << >> /\ TypeOK
  BY Executes DEF IInv, Throw
<1>3. ret' \in {NoCode, 0, 1} /\ code' \in {NoCode, 0, 1} /\ UNCHANGED <<fiber, resolvers, frames>>
  BY <1>1, <1>2 DEF SetRet, TypeOK, Throw
<1>4. CASE on.slot = Main
  BY <1>1, <1>3, <1>4, LeaveInv DEF Throw, Hows
<1>5. CASE on.slot # Main
  <2>1. PICK t \in Tasks : t = End("fail", how)
    BY EndIsTask DEF Hows
  <2>2. tasks' = <<t>> /\ on' = Nobody /\ UNCHANGED <<call, sp>>
    BY <1>1, <1>2, <1>5, <2>1, OneTask DEF End
  <2>3. Due(t)' /\ Jspi
    BY <1>2, <1>3, <1>5, <2>1, <2>2 DEF Due, End, AtWork, call, fiber, Hows
  <2>4. AtWork'
    BY <1>2, <1>3, <2>2, <2>3, EndDue DEF call
  <2>5. TypeOK'
    BY <1>2, <1>3, <2>2, OneTask DEF TypeOK, call, fiber, Nobody, StackOf, StackIds, Stacks
  <2> QED BY <1>2, <2>2, <2>4, <2>5 DEF IInv, call
<1> QED BY <1>4, <1>5

-----------------------------------------------------------------------------
(* Microtasks.                                                              *)

\* The microtasks that change no fiber, nor what the command holds.
LEMMA TaskKeeps ==
  ASSUME IInv, running, HasControl',
         \A s \in Stacks \ {current} : Waits(s) => Waits(s)',
         UNCHANGED <<build, call, fiber, ret, code, outcome>>,
         DOMAIN resolvers' \subseteq Stacks, tasks' \in Seq(Tasks), sp' \in Pointers,
         on' \in StackIds, frames' \in [Stacks -> 0 .. MaxDepth]
  PROVE  IInv'
<1>1. TypeOK'
  BY DEF IInv, TypeOK, call, fiber
<1>2. OthersWait'
  BY DEF IInv, AtWork, OthersWait, fiber
<1>3. AtWork'
  BY <1>2 DEF IInv, AtWork, call, fiber, Jspi
<1> QED BY <1>1, <1>3 DEF IInv, call

LEMMA RunStartInv == ASSUME IInv, RunStart, UNCHANGED build PROVE IInv'
<1>1. /\ running /\ TypeOK /\ Due(Head(tasks)) /\ Tail(tasks) = << >>
      /\ Head(tasks).do = "start"
  BY Found DEF RunStart, IInv
<1>2. Head(tasks) = Step("start", <<current, 0>>)
  BY <1>1 DEF Due, Step, End
<1>3. /\ sp' = <<current, 0>> /\ on' = Mine /\ on'.slot = current /\ tasks' = << >>
      /\ frames' = [frames EXCEPT ![current] = 0] /\ current \in Stacks /\ current' = current
      /\ Mine' = Mine
  <2>1. Head(tasks).sp = <<current, 0>> /\ Head(tasks).id = Mine /\ Mine.slot = current
    BY <1>2 DEF Step, Mine, StackOf
  <2>2. sp' = Head(tasks).sp /\ on' = Head(tasks).id /\ tasks' = Tail(tasks)
        /\ frames' = [frames EXCEPT ![on'.slot] = 0]
    BY DEF RunStart, StartOnTop
  <2>3. current' = current /\ Mine' = Mine /\ current \in Stacks
    BY <1>1 DEF RunStart, fiber, Mine, TypeOK
  <2> QED BY <1>1, <2>1, <2>2, <2>3
<1>4. HasControl'
  BY <1>1, <1>3 DEF HasControl, Depth, TypeOK
<1>5. \A s \in Stacks \ {current} : Waits(s) => Waits(s)'
  BY <1>1, <1>3 DEF Waits, Depth, RunStart, fiber, TypeOK
<1>6. sp' \in Pointers /\ frames' \in [Stacks -> 0 .. MaxDepth]
  BY <1>1, <1>3 DEF TypeOK, Pointers
<1>7. on' \in StackIds /\ DOMAIN resolvers' \subseteq Stacks
  BY <1>1, <1>3, MineIsStack DEF TypeOK, RunStart
<1>8. tasks' \in Seq(Tasks)
  BY <1>3
<1> QED BY <1>1, <1>4, <1>5, <1>6, <1>7, <1>8, TaskKeeps DEF RunStart

\* A task is followed by another.
LEMMA FollowedBy ==
  ASSUME IInv, running, Jspi, on = Nobody, NEW t \in Tasks, Due(t)', tasks' = <<t>>,
         \A s \in Stacks \ {current} : Waits(s) => Waits(s)',
         UNCHANGED <<build, call, fiber, ret, code, outcome, on, frames>>,
         DOMAIN resolvers' \subseteq Stacks, sp' \in Pointers
  PROVE  IInv'
<1>1. HasControl'
  BY DEF HasControl, Jspi, Nobody, Tasks
<1>2. TypeOK /\ tasks' \in Seq(Tasks)
  BY OneTask DEF IInv
<1> QED BY <1>1, <1>2, TaskKeeps DEF TypeOK

LEMMA RunWakeInv == ASSUME IInv, RunWake, UNCHANGED build PROVE IInv'
<1>1. /\ running /\ Jspi /\ on = Nobody /\ TypeOK /\ Due(Head(tasks)) /\ Tail(tasks) = << >>
      /\ Head(tasks).do = "wake"
  BY Found DEF RunWake, IInv
<1>2. Head(tasks) = Step("wake", <<current, 0>>) /\ Waits(current)
  BY <1>1 DEF Due, Step, End
<1>3. Depth(current) \in Pointers
  BY <1>1 DEF TypeOK, Depth, Pointers
<1>4. PICK t \in Tasks : t = Step("restore", Depth(current))
  BY <1>1, <1>3, StepIsTask
<1>5. Head(tasks).id.slot = current
  BY <1>2 DEF Step, Mine, StackOf
<1>6. tasks' = << >> \o <<[do |-> "restore", id |-> resolvers[current].id, sp |-> resolvers[current].sp]>>
  BY <1>1, <1>2, <1>5 DEF RunWake, Waits
<1>7. t = [do |-> "restore", id |-> resolvers[current].id, sp |-> resolvers[current].sp]
  BY <1>2, <1>4 DEF Waits, Step, Mine
<1>8. tasks' = <<t>>
  BY <1>6, <1>7, OneTask
<1>9. Due(t)'
  BY <1>4 DEF Due, Step, Depth, Mine, RunWake, fiber
<1>10. \A s \in Stacks \ {current} : Waits(s) => Waits(s)'
  BY DEF Waits, Depth, RunWake, fiber
<1> QED BY <1>1, <1>8, <1>9, <1>10, FollowedBy DEF RunWake, TypeOK

LEMMA RunRestoreInv == ASSUME IInv, RunRestore, UNCHANGED build PROVE IInv'
<1>1. /\ running /\ Jspi /\ on = Nobody /\ TypeOK /\ Due(Head(tasks)) /\ Tail(tasks) = << >>
      /\ Head(tasks).do = "restore"
  BY Found DEF RunRestore, IInv
<1>2. Head(tasks) = Step("restore", Depth(current))
  BY <1>1 DEF Due, Step, End
<1>3. Depth(current) \in Pointers
  BY <1>1 DEF TypeOK, Depth, Pointers
<1>4. PICK t \in Tasks : t = Step("resume", Depth(current))
  BY <1>1, <1>3, StepIsTask
<1>5. Head(tasks).id.slot = current /\ Head(tasks).sp = Depth(current)
      /\ [Head(tasks) EXCEPT !.do = "resume"] = t
  BY <1>2, <1>4 DEF Step, Mine, StackOf
<1>6. /\ tasks' = <<t>> /\ sp' = Depth(current)
      /\ resolvers' = [s \in DOMAIN resolvers \ {current} |-> resolvers[s]]
  BY <1>1, <1>5, OneTask DEF RunRestore, RestoreStack
<1>7. Due(t)'
  BY <1>4, <1>6 DEF Due, Step, Depth, Mine, RunRestore, fiber
<1>8. \A s \in Stacks \ {current} : Waits(s) => Waits(s)'
  BY <1>6 DEF Waits, Depth, RunRestore, fiber
<1> QED BY <1>1, <1>3, <1>6, <1>7, <1>8, FollowedBy DEF RunRestore, TypeOK

LEMMA RunResumeInv == ASSUME IInv, RunResume, UNCHANGED build PROVE IInv'
<1>1. /\ running /\ TypeOK /\ Due(Head(tasks)) /\ Tail(tasks) = << >> /\ Head(tasks).do = "resume"
  BY Found DEF RunResume, IInv
<1>2. Head(tasks) = Step("resume", Depth(current)) /\ sp = Depth(current)
  BY <1>1 DEF Due, Step, End
<1>3. HasControl'
  BY <1>1, <1>2 DEF RunResume, HasControl, Step, Mine, Depth, fiber
<1>4. \A s \in Stacks \ {current} : Waits(s) => Waits(s)'
  BY DEF Waits, Depth, RunResume, fiber
<1>5. on' = Mine /\ tasks' = << >>
  BY <1>1, <1>2 DEF RunResume, Step
<1>6. on' \in StackIds
  BY <1>1, <1>5, MineIsStack
<1>7. tasks' \in Seq(Tasks)
  BY <1>5
<1> QED BY <1>1, <1>3, <1>4, <1>6, <1>7, TaskKeeps DEF RunResume, TypeOK

LEMMA RunFailInv == ASSUME IInv, RunFail, UNCHANGED build PROVE IInv'
<1>1. /\ running /\ Jspi /\ on = Nobody /\ TypeOK /\ Due(Head(tasks)) /\ Tail(tasks) = << >>
      /\ Head(tasks).do = "fail"
  BY Found DEF RunFail, IInv
<1>2. rejecter = epoch /\ \E how \in Hows : Head(tasks) = End("fail", how)
  BY <1>1 DEF Due, Step, End
<1>3. PICK how \in Hows : Head(tasks) = End("fail", how)
  BY <1>2
<1>4. PICK t \in Tasks : t = End("settle", how)
  BY EndIsTask
<1>5. [Head(tasks) EXCEPT !.do = "settle"] = t
  BY <1>3, <1>4 DEF End
<1>6. tasks' = <<t>>
  BY <1>1, <1>2, <1>5, OneTask DEF RunFail, FailCommand
<1>7. Due(t)'
  BY <1>4 DEF Due, End
<1>8. \A s \in Stacks \ {current} : Waits(s) => Waits(s)'
  BY DEF Waits, Depth, RunFail, fiber
<1> QED BY <1>1, <1>6, <1>7, <1>8, FollowedBy DEF RunFail, TypeOK

LEMMA RunSettleInv == ASSUME IInv, RunSettle, UNCHANGED build PROVE IInv'
<1>1. running /\ AtWork /\ on = Nobody /\ TypeOK /\ Tail(tasks) = << >>
  BY Found DEF RunSettle, IInv
<1>2. AtRest' /\ ~running'
  BY <1>1 DEF RunSettle, CleanUp, AtRest, AtWork, Base, Nobody
<1>3. TypeOK'
  <2>1. running' = FALSE /\ argv' = 0 /\ sp' = saved /\ tasks' = << >>
    BY <1>1 DEF RunSettle, CleanUp
  <2>2. argv' \in 0 .. MaxArgs + 1 /\ sp' \in Pointers
    BY <1>1, <2>1 DEF TypeOK
  <2>3. tasks' \in Seq(Tasks)
    BY <2>1
  <2> QED BY <1>1, <2>1, <2>2, <2>3 DEF RunSettle, TypeOK, fiber
<1> QED BY <1>2, <1>3 DEF IInv

-----------------------------------------------------------------------------

LEMMA NextInv == IInv /\ [Next]_vars => IInv'
<1> SUFFICES ASSUME IInv, [Next]_vars PROVE IInv'
  OBVIOUS
<1>1. CASE UNCHANGED vars
  BY <1>1 DEF vars, call, fiber, switch, IInv, TypeOK, AtWork, AtRest, HasControl, OthersWait,
              Waits, Depth, Due, Step, End, Mine, Jspi
<1>2. CASE Next
  <2> USE <1>2
  <2>1. UNCHANGED build
    BY DEF Next
  <2>2. CASE \E n \in 0 .. MaxArgs : Exec(n) \/ FailToStart(n)
    BY <2>1, <2>2, ExecInv, IdleInv
  <2>3. CASE BeginFails \/ Reset \/ Frame \/ Return \/ Throw
    BY <2>1, <2>3, IdleInv, FrameInv, ReturnInv, ThrowInv
  <2>4. CASE Microtask
    BY <2>1, <2>4, RunStartInv, RunWakeInv, RunRestoreInv, RunResumeInv, RunFailInv, RunSettleInv
       DEF Microtask
  <2>5. CASE \E s \in Stacks : (s # Main /\ Create(s)) \/ Release(s) \/ Finish(s)
                               \/ \E blocks \in BOOLEAN : Switch(s, blocks)
    BY <2>1, <2>5, CreateInv, ReleaseInv, FinishInv, SwitchInv DEF Stacks
  <2> QED BY <2>2, <2>3, <2>4, <2>5 DEF Next
<1> QED BY <1>1, <1>2

LEMMA Inductive == Spec => []IInv
  BY InitInv, NextInv, PTL DEF Spec

\* However deep a stack is when it throws or suspends, the one that executes has
\* its own stack pointer, and an idle module is where it started.
THEOREM StackPointerCorrect == Spec => []StackPointerIsOwn
<1>1. IInv => StackPointerIsOwn
  BY Executes DEF IInv, AtRest, StackPointerIsOwn, Depth
<1> QED BY <1>1, Inductive, PTL

\* While a command runs control is in one place, a stack of its own current fiber
\* or the task that leads there: no stack of an earlier command ever runs, though
\* its slot has been used since, and the command neither hangs nor forks.
THEOREM ControlCorrect == Spec => []ControlAgrees
<1>1. IInv => ControlAgrees
  <2> SUFFICES ASSUME IInv PROVE ControlAgrees
    OBVIOUS
  <2>1. TypeOK /\ ArgvWhileRunning
    BY DEF IInv, AtWork, AtRest, ArgvWhileRunning, TypeOK
  <2>2. NoStaleStack
    BY Executes DEF NoStaleStack, Mine
  <2>3. WakesAWaiter /\ OneControl
    <3>1. CASE ~running
      BY <3>1 DEF IInv, AtRest, WakesAWaiter, OneControl
    <3>2. CASE Executing
      BY <3>2, Executes DEF WakesAWaiter, OneControl
    <3>3. CASE running /\ ~Executing
      <4>1. PICK t \in Tasks : tasks = <<t>> /\ Due(t)
        BY <3>3, NotNobody DEF IInv, AtWork, HasControl, Executing
      <4>2. t.do = "wake" => t = Step("wake", <<current, 0>>) /\ Waits(current)
        BY <4>1 DEF Due, Step, End
      <4>3. WakesAWaiter
        BY <4>1, <4>2 DEF WakesAWaiter, Waits, Step, Mine, StackOf
      <4> QED BY <3>3, <4>1, <4>3, OneTask DEF OneControl
    <3> QED BY <3>1, <3>2, <3>3
  <2> QED BY <2>1, <2>2, <2>3 DEF ControlAgrees
<1> QED BY <1>1, Inductive, PTL

\* What exec() comes to is what its own command has stored.
CodeKept ==
  /\ running \/ outcome \in Hows => ret = code
  /\ ~running /\ outcome = "none" => ret = NoCode

\* A caller that calls reset() after each command, as worker.ts does, gets the
\* exit code of that command, and never one an earlier command left.
THEOREM ExitCodeCorrect == ASSUME CallerResets PROVE Spec => []ExitCodeIsOwn
<1>1. Init => CodeKept
  BY DEF Init, CodeKept, Hows
<1>2. CodeKept /\ IInv /\ [Next]_vars => CodeKept'
  <2> SUFFICES ASSUME CodeKept, IInv, [Next]_vars PROVE CodeKept'
    OBVIOUS
  <2>1. CASE UNCHANGED vars
    BY <2>1 DEF CodeKept, vars, call
  <2>2. CASE \E n \in 0 .. MaxArgs : Exec(n) \/ FailToStart(n)
    BY <2>2 DEF CodeKept, Exec, FailToStart, MayRun
  <2>3. CASE BeginFails \/ Reset
    BY <2>3 DEF CodeKept, BeginFails, Reset, MayRun, call, Hows
  <2>4. CASE Frame
    BY <2>4 DEF CodeKept, Frame, call
  <2>5. CASE Return
    BY <2>5, Executes DEF CodeKept, Return, SetRet, LeaveMain, CleanUp
  <2>6. CASE Throw
    <3>1. ret = code
      BY <2>6, Executes DEF CodeKept, Throw
    <3>2. ret' = code'
      BY <2>6, <3>1 DEF Throw, SetRet
    <3>3. running' \/ outcome' # "none"
      BY <2>6, Executes DEF Throw, LeaveMain, CleanUp, call
    <3> QED BY <3>2, <3>3 DEF CodeKept
  <2>7. CASE RunStart \/ RunWake \/ RunRestore \/ RunResume \/ RunFail
    <3>1. UNCHANGED <<call, ret, code, outcome>>
      BY <2>7 DEF RunStart, RunWake, RunRestore, RunResume, RunFail
    <3> QED BY <3>1 DEF CodeKept, call
  <2>8. CASE RunSettle
    <3>1. Due(Head(tasks)) /\ Head(tasks).do = "settle" /\ running
      BY <2>8, Found DEF RunSettle
    <3>2. Head(tasks).how \in Hows
      BY <3>1 DEF Due, Step, End
    <3> QED BY <2>8, <3>1, <3>2 DEF CodeKept, RunSettle, Hows
  <2>9. CASE \E s \in Stacks : (s # Main /\ Create(s)) \/ Release(s) \/ Finish(s)
                               \/ \E blocks \in BOOLEAN : Switch(s, blocks)
    BY <2>9 DEF CodeKept, Create, Release, Finish, Switch, call
  <2> QED BY <2>1, <2>2, <2>3, <2>4, <2>5, <2>6, <2>7, <2>8, <2>9 DEF Next, Microtask
<1>3. CodeKept => ExitCodeIsOwn
  BY DEF CodeKept, Hows, ExitCodeIsOwn
<1> QED BY <1>1, <1>2, <1>3, Inductive, PTL DEF Spec

-----------------------------------------------------------------------------
(* What the commands of one core leave each other in the globals of ffmpeg   *)
(* and ffprobe, for any number of calls.                                     *)

VARIABLES past, program, reported, value  \* of ToolGlobals

Globals == INSTANCE ToolGlobals

LEMMA GlobalsInit == Globals!Init => Globals!TypeOK /\ \A g \in Globals!Names : value[g] = Globals!Declared
<1> SUFFICES ASSUME Globals!Init PROVE Globals!TypeOK /\ \A g \in Globals!Names : value[g] = Globals!Declared
  OBVIOUS
<1>1. past \in Seq(Globals!PastCall) /\ program \in Globals!Programs \cup {"none"} /\ reported \in BOOLEAN
  <2>1. << >> \in Seq(Globals!PastCall)
    OBVIOUS
  <2> QED BY <2>1 DEF Globals!Init
<1>2. value \in [Globals!Names -> Nat] /\ \A g \in Globals!Names : value[g] = Globals!Declared
  BY DEF Globals!Init, Globals!Declared
<1> QED BY <1>1, <1>2 DEF Globals!TypeOK

\* Every variable has its type, for any number of calls.
THEOREM GlobalsTyped == Globals!Spec => []Globals!TypeOK
<1>1. Globals!Init => Globals!TypeOK
  BY GlobalsInit
<1>2. Globals!TypeOK /\ [Globals!Next]_(Globals!vars) => Globals!TypeOK'
  <2> SUFFICES ASSUME Globals!TypeOK, [Globals!Next]_(Globals!vars) PROVE Globals!TypeOK'
    OBVIOUS
  <2> USE DEF Globals!TypeOK
  <2>1. ASSUME NEW p \in Globals!Programs, Globals!Start(p) PROVE Globals!TypeOK'
    BY <2>1 DEF Globals!Start, Globals!Cleared, Globals!Declared
  <2>2. ASSUME NEW g \in Globals!Names, Globals!Set(g) PROVE Globals!TypeOK'
    BY <2>2 DEF Globals!Set, Globals!This
  <2>3. CASE Globals!LastReport
    BY <2>3 DEF Globals!LastReport, Globals!Cleared, Globals!Declared
  <2>4. ASSUME NEW end \in {"returned", "aborted"}, Globals!Over(end)
        PROVE  past' \in Seq(Globals!PastCall) /\ program' = "none" /\ reported' \in BOOLEAN
    <3>1. [program |-> program, end |-> end, reported |-> reported] \in Globals!PastCall
      BY <2>4 DEF Globals!Over, Globals!PastCall
    <3> QED BY <2>4, <3>1 DEF Globals!Over
  <2>5. CASE Globals!Return
    BY <2>4, <2>5 DEF Globals!Return, Globals!Cleared, Globals!Declared
  <2>6. CASE Globals!Abort
    BY <2>4, <2>6 DEF Globals!Abort
  <2>7. CASE UNCHANGED Globals!vars
    BY <2>7 DEF Globals!vars
  <2> QED BY <2>1, <2>2, <2>3, <2>5, <2>6, <2>7 DEF Globals!Next
<1> QED BY <1>1, <1>2, PTL DEF Globals!Spec

\* What call c did not undo, if g still has the value of an earlier one.
Spared(c, g) ==
  /\ c.end = "returned" => g \notin Globals!CleanedUp(c.program)
  /\ g = Globals!Progress => ~c.reported

\* A global that is not as declared was set by the call that runs, and is no
\* file of -progress it has closed; or by one that is over, it is none that the call
\* that runs has reset, and no call since has undone it.
SetBy(g) ==
  value[g] # Globals!Declared =>
    /\ value[g] \in 1 .. Globals!This
    /\ g = Globals!Progress /\ program # "none" => ~reported
    /\ value[g] = Globals!This => program # "none" /\ g \in Globals!Uses(program)
    /\ value[g] # Globals!This =>
         /\ g \in Globals!Uses(past[value[g]].program)
         /\ \A n \in value[g] .. Len(past) : Spared(past[n], g)
         /\ program # "none" => g \notin Globals!Reset(program)

AllSetBy == Globals!TypeOK /\ \A g \in Globals!Names : SetBy(g)

\* Globals that are reset while g keeps its value change nothing for g.
LEMMA StillSetBy ==
  ASSUME AllSetBy, NEW g \in Globals!Names, value'[g] = value[g], UNCHANGED <<past, program>>,
         g = Globals!Progress => reported' = reported
  PROVE  SetBy(g)'
<1>1. SetBy(g)
  BY DEF AllSetBy
<1> QED BY <1>1 DEF SetBy, Spared, Globals!This, Globals!Declared

\* The call that runs joins the calls that are over.
LEMMA OverSetBy ==
  ASSUME AllSetBy, NEW g \in Globals!Names, NEW end \in {"returned", "aborted"}, Globals!Over(end),
         value'[g] = value[g], end = "returned" => g \notin Globals!CleanedUp(program)
  PROVE  SetBy(g)'
<1> DEFINE last == [program |-> program, end |-> end, reported |-> reported]
<1>1. SetBy(g) /\ past \in Seq(Globals!PastCall) /\ value[g] \in Nat
  BY DEF AllSetBy, Globals!TypeOK
<1>2. past' = Append(past, last) /\ program # "none" /\ program' = "none"
  BY DEF Globals!Over
<1>3. last \in Globals!PastCall
  BY <1>2 DEF AllSetBy, Globals!TypeOK, Globals!PastCall
<1>4. Len(past') = Len(past) + 1 /\ past'[Len(past) + 1] = last
      /\ \A n \in 1 .. Len(past) : past'[n] = past[n]
  BY <1>1, <1>2, <1>3
<1> HIDE DEF last
<1> SUFFICES ASSUME value[g] # Globals!Declared PROVE SetBy(g)'
  BY DEF SetBy, Globals!Declared
<1>5. Globals!This = Len(past) + 1 /\ Globals!This' = Len(past) + 2 /\ Len(past) \in Nat
  BY <1>1, <1>4 DEF Globals!This
<1>6. value[g] \in 1 .. Len(past) + 1
  BY <1>1, <1>5 DEF SetBy
<1>7. Spared(last, g)
  BY <1>1, <1>2 DEF SetBy, Spared, last
<1>8. g \in Globals!Uses(past'[value[g]].program)
  <2>1. CASE value[g] = Len(past) + 1
    BY <1>1, <1>4, <1>5, <2>1 DEF SetBy, last
  <2>2. CASE value[g] # Len(past) + 1
    BY <1>1, <1>4, <1>5, <1>6, <2>2 DEF SetBy
  <2> QED BY <2>1, <2>2
<1>9. ASSUME NEW n \in value[g] .. Len(past) + 1 PROVE Spared(past'[n], g)
  <2>1. CASE n = Len(past) + 1
    BY <1>4, <1>7, <2>1
  <2>2. CASE n # Len(past) + 1
    <3>1. n \in value[g] .. Len(past) /\ n \in 1 .. Len(past) /\ value[g] # Globals!This
      BY <1>5, <1>6, <2>2
    <3> QED BY <1>1, <1>4, <3>1 DEF SetBy
  <2> QED BY <2>1, <2>2
<1>10. \A n \in value[g] .. Len(past) + 1 : Spared(past[n], g)'
  BY <1>9 DEF Spared
<1> QED BY <1>2, <1>4, <1>5, <1>6, <1>8, <1>10 DEF SetBy

LEMMA StepSetBy ==
  ASSUME AllSetBy, [Globals!Next]_(Globals!vars), NEW g \in Globals!Names PROVE SetBy(g)'
<1>1. SetBy(g) /\ value \in [Globals!Names -> Nat] /\ past \in Seq(Globals!PastCall)
  BY DEF AllSetBy, Globals!TypeOK
<1>2. value'[g] = Globals!Declared => SetBy(g)'
  BY DEF SetBy, Globals!Declared
<1>3. ASSUME NEW p \in Globals!Programs, Globals!Start(p) PROVE SetBy(g)'
  <2>1. program = "none" /\ program' = p /\ p # "none" /\ past' = past /\ reported' = FALSE
    BY <1>3 DEF Globals!Start, Globals!Programs
  <2>2. CASE g \in Globals!Reset(p)
    BY <1>1, <1>2, <1>3, <2>2 DEF Globals!Start, Globals!Cleared
  <2>3. CASE g \notin Globals!Reset(p)
    <3>1. value'[g] = value[g]
      BY <1>1, <1>3, <2>3 DEF Globals!Start, Globals!Cleared
    <3> QED BY <1>1, <2>1, <2>3, <3>1 DEF SetBy, Spared, Globals!This, Globals!Declared
  <2> QED BY <2>2, <2>3
<1>4. ASSUME NEW h \in Globals!Names, Globals!Set(h) PROVE SetBy(g)'
  <2>1. CASE g = h
    <3>1. value'[g] = Globals!This /\ UNCHANGED <<past, program, reported>>
      BY <1>1, <1>4, <2>1 DEF Globals!Set
    <3>2. program # "none" /\ g \in Globals!Uses(program) /\ (g = Globals!Progress => ~reported)
      BY <1>4, <2>1 DEF Globals!Set
    <3>3. Globals!This' = Globals!This /\ Globals!This \in 1 .. Globals!This
      BY <1>1, <3>1 DEF Globals!This
    <3> QED BY <3>1, <3>2, <3>3 DEF SetBy
  <2>2. CASE g # h
    <3>1. value'[g] = value[g] /\ UNCHANGED <<past, program, reported>>
      BY <1>1, <1>4, <2>2 DEF Globals!Set
    <3> QED BY <3>1, StillSetBy
  <2> QED BY <2>1, <2>2
<1>5. CASE Globals!LastReport
  <2>1. CASE g = Globals!Progress
    BY <1>1, <1>2, <1>5, <2>1 DEF Globals!LastReport, Globals!Cleared
  <2>2. CASE g # Globals!Progress
    <3>1. value'[g] = value[g] /\ UNCHANGED <<past, program>>
      BY <1>1, <1>5, <2>2 DEF Globals!LastReport, Globals!Cleared
    <3> QED BY <2>2, <3>1, StillSetBy
  <2> QED BY <2>1, <2>2
<1>6. CASE Globals!Return
  <2>1. CASE g \in Globals!CleanedUp(program)
    BY <1>1, <1>2, <1>6, <2>1 DEF Globals!Return, Globals!Cleared
  <2>2. CASE g \notin Globals!CleanedUp(program)
    <3>1. value'[g] = value[g] /\ Globals!Over("returned")
      BY <1>1, <1>6, <2>2 DEF Globals!Return, Globals!Cleared
    <3> QED BY <2>2, <3>1, OverSetBy
  <2> QED BY <2>1, <2>2
<1>7. CASE Globals!Abort
  BY <1>7, OverSetBy DEF Globals!Abort
<1>8. CASE UNCHANGED Globals!vars
  BY <1>8, StillSetBy DEF Globals!vars
<1> QED BY <1>3, <1>4, <1>5, <1>6, <1>7, <1>8 DEF Globals!Next

\* What ffmpeg() uses and does not reset is nothing ffprobe() resets; and what
\* ffprobe() uses and does not reset are the dictionaries.
LEMMA NotReset ==
  /\ \A g \in Globals!Uses("ffmpeg") \ Globals!Reset("ffmpeg") :
       /\ g \in Globals!Statics \cup {Globals!Progress} \cup Globals!Pointers \cup Globals!Dictionaries
       /\ g \in Globals!Uses("ffprobe") => g \in Globals!Dictionaries
  /\ Globals!Uses("ffprobe") \ Globals!Reset("ffprobe") \subseteq Globals!Dictionaries
<1>1. ASSUME NEW g \in Globals!Statics \cup {Globals!Progress} \cup Globals!Pointers
      PROVE  g \notin Globals!ProbeReset
  BY DEF Globals!Statics, Globals!Progress, Globals!Pointers, Globals!ProbeReset, Globals!SharedReset
<1> QED BY <1>1 DEF Globals!Uses, Globals!Reset

\* However the calls before it ended, and however many there were, all that a
\* call finds of them is what print_report() left (when it last reported, and the file
\* of -progress, if none of them came to its last report since it was opened), and
\* what the calls that were aborted did not clean up: fftools-wasm.patch's
\* resets, with ffmpeg_cleanup() and uninit_opts(), see to the rest.
THEOREM LeftoversAreExplained == Globals!Spec => []Globals!LeftoversExplained
<1>1. Globals!Init => AllSetBy
  BY GlobalsInit DEF AllSetBy, SetBy
<1>2. AllSetBy /\ [Globals!Next]_(Globals!vars) => \A g \in Globals!Names : SetBy(g)'
  BY StepSetBy
<1>3. AllSetBy /\ Globals!TypeOK' /\ [Globals!Next]_(Globals!vars) => AllSetBy'
  <2> SUFFICES ASSUME AllSetBy, Globals!TypeOK', [Globals!Next]_(Globals!vars) PROVE AllSetBy'
    OBVIOUS
  <2>1. \A g \in Globals!Names : SetBy(g)'
    BY <1>2
  <2> QED BY <2>1 DEF AllSetBy, Globals!Names, Globals!Uses
<1>4. AllSetBy => Globals!LeftoversExplained
  <2> SUFFICES ASSUME AllSetBy, NEW g \in Globals!Names, Globals!FindsLeft(g)
               PROVE  /\ value[g] \in 1 .. Len(past)
                      /\ g \in Globals!Statics \cup {Globals!Progress} \cup Globals!Pointers \cup Globals!Dictionaries
                      /\ g \notin Globals!Dictionaries => program = "ffmpeg" /\ Globals!Left(g).program = "ffmpeg"
                      /\ g = Globals!Progress => \A c \in Globals!Since(g) : ~c.reported
                      /\ g \in Globals!Pointers =>
                           \A c \in Globals!Since(g) : c.program = "ffmpeg" => c.end = "aborted"
                      /\ g \in Globals!Dictionaries => \A c \in Globals!Since(g) : c.end = "aborted"
    BY DEF Globals!LeftoversExplained
  <2>1. past \in Seq(Globals!PastCall) /\ program \in Globals!Programs /\ g \in Globals!Uses(program)
        /\ value[g] # Globals!Declared /\ value[g] # Globals!This /\ SetBy(g)
    BY DEF AllSetBy, Globals!TypeOK, Globals!FindsLeft
  <2>2. value[g] \in 1 .. Len(past) /\ Len(past) \in Nat
    BY <2>1 DEF SetBy, Globals!This
  <2>3. g \in Globals!Uses(program) \ Globals!Reset(program)
    BY <2>1 DEF SetBy, Globals!Programs
  <2>4. /\ g \in Globals!Statics \cup {Globals!Progress} \cup Globals!Pointers \cup Globals!Dictionaries
        /\ g \notin Globals!Dictionaries => program = "ffmpeg"
    BY <2>1, <2>3, NotReset DEF Globals!Programs
  <2>5. past[value[g]].program \in Globals!Programs /\ g \in Globals!Uses(past[value[g]].program)
    <3>1. past[value[g]] \in Globals!PastCall
      BY <2>1, <2>2
    <3> QED BY <2>1, <3>1 DEF SetBy, Globals!PastCall
  <2>6. g \notin Globals!Dictionaries => Globals!Left(g).program = "ffmpeg"
    BY <2>3, <2>4, <2>5, NotReset DEF Globals!Left, Globals!Programs
  <2>7. ASSUME NEW c \in Globals!Since(g)
        PROVE  Spared(c, g) /\ c.program \in Globals!Programs /\ c.end \in {"returned", "aborted"}
    <3>1. PICK n \in value[g] .. Len(past) : c = past[n]
      BY DEF Globals!Since
    <3>2. n \in 1 .. Len(past)
      BY <2>2, <3>1
    <3>3. c \in Globals!PastCall
      BY <2>1, <3>1, <3>2
    <3> QED BY <2>1, <3>1, <3>3 DEF SetBy, Globals!PastCall
  <2>8. \A c \in Globals!Since(g) : g = Globals!Progress => ~c.reported
    BY <2>7 DEF Spared
  <2>9. \A c \in Globals!Since(g) : g \in Globals!CleanedUp(c.program) => c.end = "aborted"
    BY <2>7 DEF Spared
  <2>10. /\ g \in Globals!Dictionaries => \A c \in Globals!Since(g) : c.end = "aborted"
         /\ g \in Globals!Pointers => \A c \in Globals!Since(g) : c.program = "ffmpeg" => c.end = "aborted"
    BY <2>9 DEF Globals!CleanedUp
  <2> QED BY <2>2, <2>4, <2>6, <2>8, <2>10
<1> QED BY <1>1, <1>3, <1>4, GlobalsTyped, PTL DEF Globals!Spec
==============================================================================
