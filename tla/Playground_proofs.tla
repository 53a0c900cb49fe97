-------------------------- MODULE Playground_proofs ---------------------------
(***************************************************************************)
(* What the playground shows, for any number of overlapping load() calls    *)
(* and handlers: at rest the workspace is there, on a loaded core, with the  *)
(* files of that core, and the log is that of the commands that ran.         *)
(***************************************************************************)
EXTENDS Playground, FiniteSetTheorems, TLAPS

USE PlaygroundAssumption

\* The operation a handler calls before it lists.
Op(kind) == IF kind \in {"upload", "samples"} THEN "write" ELSE kind

Runs == {t \in Tasks : tasks[t].kind = "run"}

Exited(u) == \E k \in DOMAIN logs : At(k, u, "exit")

\* A call of one of the handlers, which waits for it.
FitsIn(c, ts) ==
  /\ c.task \in DOMAIN ts /\ (c.op = "write" => c.name # None)
  /\ c.op = "list" => c.dir = ts[c.task].path
  /\ \/ ts[c.task].step = "list" /\ c.op = "list"
     \/ ts[c.task].step = "call" /\ c.op = Op(ts[c.task].kind)

CallsIn(cs, ts) ==
  /\ \A i, k \in DOMAIN cs : i # k => cs[i].task # cs[k].task
  /\ \A i \in DOMAIN cs : FitsIn(cs[i], ts)

\* The loop over the files leaves when it has none left; a command logs one line.
TodoFits(k) ==
  /\ k.step = "fetch" => k.todo # << >> /\ k.kind \in {"upload", "samples"}
  /\ k.kind = "run" => k.todo \in {<< >>, <<"output">>}

\* A handler waits for one call at a time, and there is a core for it.
CallsFit ==
  /\ calls # << >> => loaded
  /\ CallsIn(calls, tasks)
  /\ \A t \in Tasks : TodoFits(tasks[t])

\* The worker is that of the load() that came to create one last, unless its core
\* has trapped, and it is loaded when that is done; there is no download view with
\* nothing under way.
LoadsFit ==
  /\ \A l \in Loads :
       /\ loads[l].step = "create" => l = worker
       /\ worker = 0 /\ trapped = 0 => loads[l].step \in {"js", "wasm", "failed"}
  /\ worker # 0 => loads[worker].step \in {"create", "done", "failed"} /\ trapped = 0
  /\ trapped # 0 => loads[trapped].step = "done"
  /\ loaded <=> worker # 0 /\ loads[worker].step = "done"
  /\ state = "LOADING" => \E l \in Loads : Unsettled(l) \/ loads[l].step = "failed"

\* The bounds of the model, which the types rest on.
Bounded ==
  /\ Len(loads) \in 1 .. MaxLoads
  /\ Len(tasks) <= MaxTasks + mount
  /\ mount <= 1 + Cardinality({l \in Loads : loads[l].step = "done"})

\* Once the handlers of a mount that changed the files last are done, in the
\* directories there are, the list is that of a directory of the core.
Fresh ==
  state = "LOADED" /\ loaded /\ changer = mount
      /\ (\A t \in Tasks : tasks[t].mount = mount =>
            tasks[t].step = "done" /\ Exists(tasks[t].path))
    => shown.names = Files(shown.dir)

\* A run listens until it has reported its exit code.
LogsFit ==
  /\ \A u \in listeners : u \in Runs /\ ~Exited(u)
  /\ \A t \in Runs : Mounted(t) /\ tasks[t].step = "call" =>
       /\ t \in listeners
       /\ tasks[t].todo = << >> => \E i \in DOMAIN logs : At(i, t, "line")
  /\ \A k \in DOMAIN logs :
       /\ logs[k].run \in Runs
       /\ logs[k].what = "line" => tasks[logs[k].run].todo = << >>
       /\ logs[k].what = "exit" => tasks[logs[k].run].step \in {"list", "done"}

IInv == TypeOK /\ CallsFit /\ LoadsFit /\ Bounded /\ Fresh /\ LogsFit /\ LogsTell /\ NoEcho
-----------------------------------------------------------------------------
(* Sequences.                                                               *)

LEMMA SeqEdit ==
  ASSUME NEW S, NEW s \in Seq(S), NEW n \in DOMAIN s, NEW e \in S
  PROVE  [s EXCEPT ![n] = e] \in Seq(S)
OBVIOUS

LEMMA SeqAdd ==
  ASSUME NEW S, NEW s \in Seq(S), NEW e \in S
  PROVE  /\ Append(s, e) \in Seq(S) /\ Len(Append(s, e)) = Len(s) + 1
         /\ DOMAIN Append(s, e) = DOMAIN s \cup {Len(s) + 1} /\ Len(s) + 1 \notin DOMAIN s
         /\ \A n \in DOMAIN s : Append(s, e)[n] = s[n]
         /\ Append(s, e)[Len(s) + 1] = e
OBVIOUS

LEMMA SeqRest ==
  ASSUME NEW S, NEW s \in Seq(S), s # << >>
  PROVE  /\ Tail(s) \in Seq(S) /\ Head(s) = s[1] /\ 1 \in DOMAIN s /\ Head(s) \in S
         /\ \A n \in DOMAIN Tail(s) : n + 1 \in DOMAIN s /\ n + 1 # 1 /\ Tail(s)[n] = s[n + 1]
OBVIOUS

LEMMA SeqWider ==
  ASSUME NEW S, NEW R, S \subseteq R, NEW s \in Seq(S)
  PROVE  s \in Seq(R)
<1>1. s = [n \in 1 .. Len(s) |-> s[n]] /\ Len(s) \in Nat /\ \A n \in 1 .. Len(s) : s[n] \in R
  OBVIOUS
<1> QED BY <1>1

-----------------------------------------------------------------------------
(* What a step does to the handlers.                                        *)

\* Handler t comes to a step, with a list of files still to do.
Moves(t, step, todo) ==
  /\ DOMAIN tasks' = DOMAIN tasks
  /\ \A u \in Tasks :
       /\ tasks'[u].kind = tasks[u].kind /\ tasks'[u].mount = tasks[u].mount
       /\ tasks'[u].path = tasks[u].path
       /\ tasks'[u].step = IF u = t THEN step ELSE tasks[u].step
       /\ tasks'[u].todo = IF u = t THEN todo ELSE tasks[u].todo

\* One more handler.
Adds(k) ==
  /\ DOMAIN tasks' = DOMAIN tasks \cup {Len(tasks) + 1} /\ Len(tasks) + 1 \notin DOMAIN tasks
  /\ \A u \in Tasks : tasks'[u] = tasks[u]
  /\ tasks'[Len(tasks) + 1] = k

Steps == {"fetch", "call", "list", "done", "rejected"}

LEMMA TaskFields ==
  ASSUME TypeOK, NEW t \in Tasks
  PROVE  /\ tasks[t] \in TaskType /\ tasks[t].kind \in Things \cup {"samples"}
         /\ tasks[t].mount \in 1 .. mount /\ tasks[t].path \in Dirs /\ tasks[t].todo \in Seq(Names)
         /\ tasks[t].step \in Steps
<1>1. tasks \in Seq(TaskType)
  BY DEF TypeOK
<1>2. tasks[t] \in TaskType
  BY <1>1 DEF Tasks
<1> QED BY <1>2 DEF TaskType, Steps

LEMMA TaskMoves ==
  ASSUME TypeOK, NEW t \in Tasks, NEW step \in Steps, NEW todo \in Seq(Names), mount' = mount,
         tasks' = [tasks EXCEPT ![t] = [tasks[t] EXCEPT !.step = step, !.todo = todo]]
  PROVE  Moves(t, step, todo) /\ tasks' \in Seq(TaskType')
<1> DEFINE k == [tasks[t] EXCEPT !.step = step, !.todo = todo]
<1>1. tasks[t] \in TaskType /\ t \in DOMAIN tasks
  BY TaskFields DEF Tasks
<1>2. /\ k \in TaskType /\ k.kind = tasks[t].kind /\ k.mount = tasks[t].mount /\ k.path = tasks[t].path
      /\ k.step = step /\ k.todo = todo
  BY <1>1 DEF TaskType, Steps
<1>3. TaskType' = TaskType
  BY DEF TaskType
<1>4. tasks \in Seq(TaskType)
  BY DEF TypeOK
<1> HIDE DEF k
<1>5. tasks' = [tasks EXCEPT ![t] = k]
  BY DEF k
<1>6. tasks' \in Seq(TaskType')
  BY <1>1, <1>2, <1>3, <1>4, <1>5, SeqEdit
<1>7. DOMAIN tasks' = DOMAIN tasks /\ \A u \in Tasks : tasks'[u] = IF u = t THEN k ELSE tasks[u]
  BY <1>1, <1>5 DEF Tasks
<1> QED BY <1>2, <1>6, <1>7 DEF Moves

\* The two forms in which the actions write it.
LEMMA TaskSteps ==
  ASSUME TypeOK, NEW t \in Tasks, NEW step \in Steps, mount' = mount,
         tasks' = [tasks EXCEPT ![t].step = step]
  PROVE  Moves(t, step, tasks[t].todo) /\ tasks' \in Seq(TaskType')
<1>1. tasks[t] \in TaskType /\ tasks[t].todo \in Seq(Names)
  BY TaskFields
<1>2. [tasks[t] EXCEPT !.step = step] = [tasks[t] EXCEPT !.step = step, !.todo = tasks[t].todo]
  BY <1>1 DEF TaskType
<1>3. tasks' = [tasks EXCEPT ![t] = [tasks[t] EXCEPT !.step = step, !.todo = tasks[t].todo]]
  BY <1>2
<1> QED BY <1>1, <1>3, TaskMoves

LEMMA TaskAdds ==
  ASSUME TypeOK, NEW k \in TaskType', mount' \in Nat, mount <= mount', tasks' = Append(tasks, k)
  PROVE  Adds(k) /\ tasks' \in Seq(TaskType') /\ Len(tasks') = Len(tasks) + 1
<1>1. TaskType \subseteq TaskType'
  <2>1. 1 .. mount \subseteq 1 .. mount'
    BY DEF TypeOK
  <2> QED BY <2>1 DEF TaskType
<1>2. tasks \in Seq(TaskType)
  BY DEF TypeOK
<1>3. tasks \in Seq(TaskType')
  BY <1>1, <1>2, SeqWider
<1> HIDE DEF TaskType
<1> QED BY <1>3, SeqAdd DEF Adds, Tasks

\* A handler that is to do something, or nothing, more.
LEMMA TaskTyped ==
  ASSUME NEW m \in Nat, NEW kind \in Things \cup {"samples"}, NEW n \in 1 .. m, NEW dir \in Dirs,
         NEW todo \in Seq(Names), NEW step \in Steps
  PROVE  Task(kind, n, dir, todo, step)
           \in [kind : Things \cup {"samples"}, mount : 1 .. m, path : Dirs, todo : Seq(Names), step : Steps]
BY DEF Task

-----------------------------------------------------------------------------
(* Answers.                                                                 *)

\* The first call, and who made it.
LEMMA Served ==
  ASSUME TypeOK, CallsFit, NEW t, NEW op, Serve(t, op)
  PROVE  /\ t \in Tasks /\ loaded /\ calls \in Seq(CallType) /\ calls # << >> /\ 1 \in DOMAIN calls
         /\ Head(calls) = calls[1] /\ Head(calls) \in CallType
         /\ Head(calls).task = t /\ Head(calls).op = op
         /\ op = "list" => tasks[t].step = "list" /\ Head(calls).dir = tasks[t].path
         /\ op # "list" => tasks[t].step = "call" /\ op = Op(tasks[t].kind)
<1>1. calls \in Seq(CallType) /\ calls # << >> /\ Head(calls).task = t /\ Head(calls).op = op
  BY DEF TypeOK, Serve
<1>2. Head(calls) = calls[1] /\ 1 \in DOMAIN calls /\ Head(calls) \in CallType
  <2> HIDE DEF CallType
  <2> QED BY <1>1, SeqRest
<1>3. /\ calls[1].task \in Tasks
      /\ calls[1].op = "list" => calls[1].dir = tasks[calls[1].task].path
      /\ \/ tasks[calls[1].task].step = "list" /\ calls[1].op = "list"
         \/ tasks[calls[1].task].step = "call" /\ calls[1].op = Op(tasks[calls[1].task].kind)
  BY <1>2 DEF CallsFit, CallsIn, FitsIn, Tasks
<1>4. tasks[t].kind \in Things \cup {"samples"}
  BY <1>1, <1>2, <1>3, TaskFields
<1>5. Op(tasks[t].kind) # "list"
  BY <1>4 DEF Op, Things
<1> QED BY <1>1, <1>2, <1>3, <1>5 DEF CallsFit

\* What an answer to a call of handler t does, whatever was called.
Answered(t, step) ==
  /\ calls # << >> /\ t \in Tasks /\ Head(calls).task = t
  /\ step \in {"list", "done", "rejected", "fetch"}
  /\ IF step = "done" THEN tasks[t].step = "list"
     ELSE tasks[t].step = "call" /\ Head(calls).op = Op(tasks[t].kind)
  /\ step = "fetch" => tasks[t].todo # << >> /\ Head(calls).op = "write"
  /\ Moves(t, step, tasks[t].todo) /\ tasks' \in Seq(TaskType') /\ samplesLoading' \in BOOLEAN
  /\ calls' = IF step = "list" THEN Append(Tail(calls), Call(t, "list", tasks[t].path, None))
              ELSE Tail(calls)
  /\ UNCHANGED <<page, worker, loaded, trapped>>

LEMMA GoesOn ==
  ASSUME TypeOK, NEW t \in Tasks, NEW step \in Steps, UNCHANGED page, Goes(t, step)
  PROVE  /\ Moves(t, step, tasks[t].todo) /\ tasks' \in Seq(TaskType')
         /\ samplesLoading' \in BOOLEAN
<1>1. tasks' = [tasks EXCEPT ![t].step = step] /\ mount' = mount
  BY DEF Goes, page
<1>2. samplesLoading' \in BOOLEAN
  BY DEF Goes
<1> QED BY <1>1, <1>2, TaskSteps

LEMMA Refreshes ==
  ASSUME TypeOK, CallsFit, NEW t, NEW op, Serve(t, op), op # "list", UNCHANGED <<page, worker, loaded, trapped>>,
         ThenRefresh(t, Tail(calls))
  PROVE  Answered(t, "list")
<1>1. /\ t \in Tasks /\ loaded /\ calls # << >> /\ Head(calls).task = t /\ Head(calls).op = op
      /\ tasks[t].step = "call" /\ op = Op(tasks[t].kind)
  BY Served
<1>2. /\ calls' = Append(Tail(calls), Call(t, "list", tasks[t].path, None))
      /\ Goes(t, "list")
  BY <1>1 DEF ThenRefresh
<1> QED BY <1>1, <1>2, GoesOn DEF Answered, Steps

LEMMA Leaves ==
  ASSUME TypeOK, CallsFit, NEW t, NEW op, Serve(t, op), UNCHANGED <<page, worker, loaded, trapped>>,
         NEW step \in {"done", "rejected", "fetch"}, Goes(t, step), calls' = Tail(calls),
         step = "done" <=> op = "list", step = "fetch" => op = "write" /\ tasks[t].todo # << >>
  PROVE  Answered(t, step)
<1>1. /\ t \in Tasks /\ loaded /\ calls # << >> /\ Head(calls).task = t /\ Head(calls).op = op
      /\ op = "list" => tasks[t].step = "list"
      /\ op # "list" => tasks[t].step = "call" /\ op = Op(tasks[t].kind)
  BY Served
<1> QED BY <1>1, GoesOn DEF Answered, Steps

\* The actions that answer a call, one by one.
LEMMA WriteAnswered ==
  ASSUME TypeOK, CallsFit, NEW t, AnswerWrite(t)
  PROVE  Answered(t, "list")
BY Refreshes DEF AnswerWrite

LEMMA WriteMoreAnswered ==
  ASSUME TypeOK, CallsFit, NEW t, AnswerWriteMore(t)
  PROVE  Answered(t, "fetch")
BY Leaves DEF AnswerWriteMore

LEMMA ChangeAnswered ==
  ASSUME TypeOK, CallsFit, NEW t, AnswerChange(t)
  PROVE  Answered(t, "list") \/ (Answered(t, "rejected") /\ UNCHANGED <<files, changer>>)
<1>1. UNCHANGED <<page, worker, loaded, trapped>>
  BY DEF AnswerChange
<1>2. PICK op \in {"delete", "rename"} : Serve(t, op)
  BY DEF AnswerChange
<1>3. \/ ThenRefresh(t, Tail(calls))
      \/ calls' = Tail(calls) /\ Goes(t, "rejected") /\ UNCHANGED <<files, changer>>
  BY DEF AnswerChange
<1> QED BY <1>1, <1>2, <1>3, Refreshes, Leaves

LEMMA ListAnswered ==
  ASSUME TypeOK, CallsFit, NEW t, AnswerList(t)
  PROVE  Answered(t, "done")
BY Leaves DEF AnswerList

LEMMA RunAnswered ==
  ASSUME TypeOK, CallsFit, NEW t, AnswerRun(t)
  PROVE  Answered(t, "list")
BY Refreshes DEF AnswerRun, AfterRun

LEMMA MissingAnswered ==
  ASSUME TypeOK, CallsFit, NEW t, AnswerMissing(t)
  PROVE  Answered(t, "rejected") \/ (Answered(t, "done") /\ ~Exists(tasks[t].path))
<1>1. CASE Serve(t, "list") /\ Goes(t, "done")
  <2>1. ~Exists(tasks[t].path)
    BY <1>1, Served DEF AnswerMissing
  <2> QED BY <1>1, <2>1, Leaves DEF AnswerMissing
<1>2. CASE Serve(t, "write") /\ Goes(t, "rejected")
  BY <1>2, Leaves DEF AnswerMissing
<1> QED BY <1>1, <1>2 DEF AnswerMissing

\* terminate() rejects what is called, and refreshDir() swallows it.
LEMMA RejectedTasks ==
  ASSUME TypeOK, CallsFit, RejectAll, UNCHANGED mount
  PROVE  /\ tasks' \in Seq(TaskType') /\ DOMAIN tasks' = DOMAIN tasks /\ samplesLoading' \in BOOLEAN
         /\ \A t \in Tasks :
              /\ tasks'[t].kind = tasks[t].kind /\ tasks'[t].mount = tasks[t].mount
              /\ tasks'[t].path = tasks[t].path /\ tasks'[t].todo = tasks[t].todo
              /\ \/ tasks'[t].step = tasks[t].step
                 \/ tasks[t].step = "list" /\ tasks'[t].step = "done"
                 \/ tasks[t].step = "call" /\ tasks'[t].step = "rejected"
<1>1. tasks \in Seq(TaskType) /\ TaskType' = TaskType
  BY DEF TypeOK, TaskType
<1>2. Tasks = 1 .. Len(tasks) /\ Len(tasks) \in Nat /\ DOMAIN tasks = 1 .. Len(tasks)
  <2> HIDE DEF TaskType
  <2> QED BY <1>1 DEF Tasks
<1>3. tasks' = [t \in Tasks |->
         IF t \notin Waiting THEN tasks[t]
         ELSE [tasks[t] EXCEPT !.step = IF @ = "list" THEN "done" ELSE "rejected"]]
  BY DEF RejectAll
<1>4. ASSUME NEW t \in Tasks
      PROVE  /\ tasks'[t] \in TaskType
             /\ tasks'[t].kind = tasks[t].kind /\ tasks'[t].mount = tasks[t].mount
             /\ tasks'[t].path = tasks[t].path /\ tasks'[t].todo = tasks[t].todo
             /\ \/ tasks'[t].step = tasks[t].step
                \/ tasks[t].step = "list" /\ tasks'[t].step = "done"
                \/ tasks[t].step = "call" /\ tasks'[t].step = "rejected"
  <2>1. tasks[t] \in TaskType
    BY TaskFields
  <2>2. CASE t \notin Waiting
    BY <1>3, <2>1, <2>2
  <2>3. CASE t \in Waiting
    <3>1. tasks'[t] = [tasks[t] EXCEPT !.step = IF tasks[t].step = "list" THEN "done" ELSE "rejected"]
      BY <1>3, <2>3
    <3>2. tasks[t].step \in {"list", "call"}
      BY <2>3 DEF Waiting, CallsFit, CallsIn, FitsIn
    <3> QED BY <2>1, <3>1, <3>2 DEF TaskType
  <2> QED BY <2>2, <2>3
<1>5. tasks' = [t \in 1 .. Len(tasks) |-> tasks'[t]]
  BY <1>2, <1>3
<1> HIDE DEF TaskType
<1>6. tasks' \in Seq(TaskType') /\ DOMAIN tasks' = DOMAIN tasks
  BY <1>1, <1>2, <1>4, <1>5
<1>7. samplesLoading' \in BOOLEAN
  BY DEF RejectAll
<1> QED BY <1>4, <1>6, <1>7

\* A line of a run takes it off what the run has to say.
LEMMA LineMoves ==
  ASSUME TypeOK, CallsFit, NEW t, Line(t)
  PROVE  /\ t \in Runs /\ tasks[t].step = "call" /\ tasks[t].todo = <<"output">>
         /\ Moves(t, "call", << >>) /\ tasks' \in Seq(TaskType')
<1>1. t \in Tasks /\ tasks[t].step = "call" /\ Op(tasks[t].kind) = "run"
  BY Served DEF Line
<1>2. tasks[t].kind = "run"
  BY <1>1 DEF Op
<1>3. t \in Runs /\ tasks[t].todo = <<"output">>
  BY <1>1, <1>2 DEF Runs, CallsFit, TodoFits, Line
<1>4. tasks' = [tasks EXCEPT ![t] = [tasks[t] EXCEPT !.step = "call", !.todo = << >>]]
  <2>1. tasks' = [tasks EXCEPT ![t] = [tasks[t] EXCEPT !.todo = Tail(tasks[t].todo)]]
    BY DEF Line
  <2>2. Tail(tasks[t].todo) = << >>
    BY <1>3
  <2>3. [tasks[t] EXCEPT !.todo = << >>] = [tasks[t] EXCEPT !.step = "call", !.todo = << >>]
    <3>1. tasks[t] \in TaskType
      BY <1>1, TaskFields
    <3> QED BY <1>1, <3>1 DEF TaskType
  <2> QED BY <2>1, <2>2, <2>3
<1>5. mount' = mount /\ << >> \in Seq(Names) /\ "call" \in Steps
  BY DEF Line, page, Steps
<1> QED BY <1>1, <1>3, <1>4, <1>5, TaskMoves

\* An answer, a line of the log or the end of the worker.
LEMMA AnswerForms ==
  ASSUME TypeOK, CallsFit, NEW t, Answer(t)
  PROVE  RunTraps(t) \/ Line(t) \/ \E step : Answered(t, step)
BY WriteAnswered, WriteMoreAnswered, ChangeAnswered, ListAnswered, MissingAnswered, RunAnswered DEF Answer

-----------------------------------------------------------------------------
(* New calls and new handlers.                                              *)

\* Handler t, which has the next file, writes it, if there is a core.
Writes(t) ==
  /\ loaded /\ tasks[t].step = "fetch"
  /\ Moves(t, "call", Tail(tasks[t].todo)) /\ tasks' \in Seq(TaskType')
  /\ \E dir \in Dirs, name \in Names : calls' = Append(calls, Call(t, "write", dir, name))
  /\ UNCHANGED samplesLoading

LEMMA FetchMoves ==
  ASSUME TypeOK, CallsFit, NEW t \in Tasks, Fetched(t)
  PROVE  \/ Writes(t)
         \/ /\ tasks[t].step = "fetch" /\ Moves(t, "rejected", tasks[t].todo)
            /\ tasks' \in Seq(TaskType') /\ samplesLoading' \in BOOLEAN /\ UNCHANGED calls
<1>1. tasks[t].step = "fetch" /\ UNCHANGED page /\ mount' = mount
  BY DEF Fetched, page
<1>2. CASE Goes(t, "rejected") /\ UNCHANGED calls
  BY <1>1, <1>2, GoesOn DEF Steps
<1>3. CASE ~(Goes(t, "rejected") /\ UNCHANGED calls)
  <2> DEFINE dir == IF tasks[t].kind = "samples" THEN 0 ELSE tasks[t].path
  <2>1. /\ loaded /\ UNCHANGED samplesLoading
        /\ calls' = Append(calls, Call(t, "write", dir, Head(tasks[t].todo)))
        /\ tasks' = [tasks EXCEPT ![t].step = "call", ![t].todo = Tail(@)]
    BY <1>3 DEF Fetched
  <2>2. tasks[t] \in TaskType /\ tasks[t].todo \in Seq(Names) /\ tasks[t].todo # << >> /\ tasks[t].path \in Dirs
    BY <1>1, TaskFields DEF CallsFit, TodoFits
  <2>3. Head(tasks[t].todo) \in Names /\ Tail(tasks[t].todo) \in Seq(Names) /\ dir \in Dirs
    <3>1. Head(tasks[t].todo) \in Names /\ Tail(tasks[t].todo) \in Seq(Names)
      BY <2>2, SeqRest
    <3>2. dir \in Dirs
      BY <2>2 DEF Dirs
    <3> QED BY <3>1, <3>2
  <2>4. tasks' = [tasks EXCEPT ![t] = [tasks[t] EXCEPT !.step = "call", !.todo = Tail(tasks[t].todo)]]
    <3>1. t \in DOMAIN tasks
      BY DEF Tasks
    <3> QED BY <2>1, <2>2, <3>1 DEF TaskType
  <2>5. Moves(t, "call", Tail(tasks[t].todo)) /\ tasks' \in Seq(TaskType')
    BY <1>1, <2>3, <2>4, TaskMoves DEF Steps
  <2> QED BY <1>1, <2>1, <2>3, <2>5 DEF Writes
<1> QED BY <1>2, <1>3

\* The user starts handler k, which has files to fetch, makes a call, or is
\* over if there is no core for it. A command listens before it is sent.
Begins(k) ==
  /\ state = "LOADED" /\ Len(tasks) < MaxTasks /\ k.mount = mount /\ k \in TaskType
  /\ Adds(k) /\ tasks' \in Seq(TaskType') /\ Len(tasks') = Len(tasks) + 1
  /\ \/ k.step = "fetch" /\ k.kind \in {"upload", "samples"} /\ k.todo # << >> /\ UNCHANGED calls
     \/ k.step \in {"rejected", "done"} /\ ~loaded /\ UNCHANGED calls
     \/ /\ k.step \in {"call", "list"} /\ loaded
        /\ \E c \in CallType :
             /\ c.task = Len(tasks) + 1
             /\ c.op = (IF k.step = "list" THEN "list" ELSE Op(k.kind)) /\ c.op # "write"
             /\ c.op = "list" => c.dir = k.path
             /\ calls' = Append(calls, c)
  /\ k.kind = "run" => k.todo = <<"output">> /\ k.step \in {"call", "rejected"}
  /\ listeners' = IF k.kind = "run" THEN listeners \cup {Len(tasks) + 1} ELSE listeners
  /\ UNCHANGED <<page, worker, loaded, trapped, files, changer, shown, logs>>
  /\ samplesLoading' \in BOOLEAN /\ path' \in Dirs /\ dialog' \in Names \cup {None, "new"}

\* A call of a new handler.
LEMMA CallTyped ==
  ASSUME TypeOK, Len(tasks) < MaxTasks,
         NEW op \in {"write", "delete", "rename", "list", "run"}, NEW dir \in Dirs, NEW name \in Names \cup {None}
  PROVE  /\ Call(Len(tasks) + 1, op, dir, name) \in CallType
         /\ Call(Len(tasks) + 1, op, dir, name).task = Len(tasks) + 1
         /\ Call(Len(tasks) + 1, op, dir, name).op = op
         /\ Call(Len(tasks) + 1, op, dir, name).dir = dir
<1>1. Len(tasks) \in Nat
  <2>1. tasks \in Seq(TaskType)
    BY DEF TypeOK
  <2> QED BY <2>1
<1>2. Len(tasks) + 1 \in 1 .. MaxTasks + MaxLoads + 1
  BY <1>1
<1> QED BY <1>2 DEF Call, CallType

LEMMA StartBegins ==
  ASSUME TypeOK, state = "LOADED", Len(tasks) < MaxTasks,
         UNCHANGED <<page, worker, loaded, trapped, files, changer, shown, logs>>,
         NEW kind \in {"delete", "rename", "run"}, NEW todo \in Seq(Names), NEW dir \in Dirs,
         NEW name \in Names \cup {None}, Starts(kind, todo, kind, dir, name),
         kind = "run" => todo = <<"output">>,
         listeners' = IF kind = "run" THEN listeners \cup {Len(tasks) + 1} ELSE listeners,
         samplesLoading' \in BOOLEAN, path' \in Dirs, dialog' \in Names \cup {None, "new"}
  PROVE  \E k : Begins(k)
<1> DEFINE k == Task(kind, mount, dir, todo, IF loaded THEN "call" ELSE "rejected")
<1>1. /\ k.kind = kind /\ k.mount = mount /\ k.todo = todo
      /\ k.step = IF loaded THEN "call" ELSE "rejected"
  BY DEF Task
<1>2. mount \in Nat /\ mount \in 1 .. mount /\ mount' = mount /\ loaded \in BOOLEAN
  BY DEF TypeOK, page
<1>3. k \in TaskType
  <2>1. (IF loaded THEN "call" ELSE "rejected") \in Steps /\ kind \in Things \cup {"samples"}
    BY DEF Steps, Things
  <2>2. k \in [kind : Things \cup {"samples"}, mount : 1 .. mount, path : Dirs, todo : Seq(Names), step : Steps]
    BY <1>2, <2>1, TaskTyped
  <2> QED BY <2>2 DEF TaskType, Steps
<1>4. TaskType' = TaskType
  BY <1>2 DEF TaskType
<1>5. tasks' = Append(tasks, k)
  BY DEF Starts
<1> HIDE DEF k
<1>6. Adds(k) /\ tasks' \in Seq(TaskType') /\ Len(tasks') = Len(tasks) + 1
  BY <1>2, <1>3, <1>4, <1>5, TaskAdds
<1>7. CASE loaded
  <2> DEFINE c == Call(Len(tasks) + 1, kind, dir, name)
  <2>1. c \in CallType /\ c.task = Len(tasks) + 1 /\ c.op = kind
    BY CallTyped
  <2>2. calls' = Append(calls, c)
    BY <1>7 DEF Starts
  <2>3. kind = Op(kind)
    BY DEF Op
  <2> HIDE DEF c
  <2> QED BY <1>1, <1>3, <1>6, <1>7, <2>1, <2>2, <2>3 DEF Begins
<1>8. CASE ~loaded
  <2>1. UNCHANGED calls
    BY <1>8 DEF Starts
  <2> QED BY <1>1, <1>3, <1>6, <1>8, <2>1 DEF Begins
<1> QED BY <1>7, <1>8

LEMMA RefreshBegins ==
  ASSUME TypeOK, state = "LOADED", Len(tasks) < MaxTasks,
         UNCHANGED <<page, worker, loaded, trapped, files, changer, shown, logs>>,
         NEW kind \in {"dir", "refresh", "rename"}, NEW dir \in Dirs, StartsRefresh(kind, dir),
         samplesLoading' \in BOOLEAN, path' \in Dirs, dialog' \in Names \cup {None, "new"}, UNCHANGED listeners
  PROVE  \E k : Begins(k)
<1> DEFINE k == Task(kind, mount, dir, << >>, IF loaded THEN "list" ELSE "done")
<1>1. k.kind = kind /\ k.mount = mount /\ k.path = dir /\ k.step = IF loaded THEN "list" ELSE "done"
  BY DEF Task
<1>2. mount \in Nat /\ mount \in 1 .. mount /\ mount' = mount /\ loaded \in BOOLEAN
  BY DEF TypeOK, page
<1>3. k \in TaskType
  <2>1. (IF loaded THEN "list" ELSE "done") \in Steps /\ kind \in Things \cup {"samples"} /\ << >> \in Seq(Names)
    BY DEF Steps, Things
  <2>2. k \in [kind : Things \cup {"samples"}, mount : 1 .. mount, path : Dirs, todo : Seq(Names), step : Steps]
    BY <1>2, <2>1, TaskTyped
  <2> QED BY <2>2 DEF TaskType, Steps
<1>4. TaskType' = TaskType
  BY <1>2 DEF TaskType
<1>5. tasks' = Append(tasks, k)
  BY DEF StartsRefresh
<1> HIDE DEF k
<1>6. Adds(k) /\ tasks' \in Seq(TaskType') /\ Len(tasks') = Len(tasks) + 1
  BY <1>2, <1>3, <1>4, <1>5, TaskAdds
<1>7. CASE loaded
  <2> DEFINE c == Call(Len(tasks) + 1, "list", dir, None)
  <2>1. c \in CallType /\ c.task = Len(tasks) + 1 /\ c.op = "list" /\ c.dir = dir
    BY CallTyped
  <2>2. calls' = Append(calls, c)
    BY <1>7 DEF StartsRefresh
  <2> HIDE DEF c
  <2> QED BY <1>1, <1>3, <1>6, <1>7, <2>1, <2>2 DEF Begins
<1>8. CASE ~loaded
  <2>1. UNCHANGED calls
    BY <1>8 DEF StartsRefresh
  <2> QED BY <1>1, <1>3, <1>6, <1>8, <2>1 DEF Begins
<1> QED BY <1>7, <1>8

LEMMA FetchBegins ==
  ASSUME TypeOK, state = "LOADED", Len(tasks) < MaxTasks,
         UNCHANGED <<page, worker, loaded, trapped, files, changer, shown, logs>>,
         NEW kind \in {"upload", "samples"}, NEW todo \in Seq(Names), todo # << >>,
         tasks' = Append(tasks, Task(kind, mount, path, todo, "fetch")),
         samplesLoading' \in BOOLEAN, UNCHANGED <<calls, path, dialog, listeners>>
  PROVE  \E k : Begins(k)
<1> DEFINE k == Task(kind, mount, path, todo, "fetch")
<1>1. k.kind = kind /\ k.mount = mount /\ k.step = "fetch" /\ k.todo = todo
  BY DEF Task
<1>2. mount \in Nat /\ mount \in 1 .. mount /\ mount' = mount /\ path \in Dirs
      /\ dialog \in Names \cup {None, "new"}
  BY DEF TypeOK, page
<1>3. k \in TaskType
  <2>1. "fetch" \in Steps /\ kind \in Things \cup {"samples"}
    BY DEF Steps, Things
  <2>2. k \in [kind : Things \cup {"samples"}, mount : 1 .. mount, path : Dirs, todo : Seq(Names), step : Steps]
    BY <1>2, <2>1, TaskTyped
  <2> QED BY <2>2 DEF TaskType, Steps
<1>4. TaskType' = TaskType
  BY <1>2 DEF TaskType
<1> HIDE DEF k
<1>5. tasks' = Append(tasks, k)
  BY DEF k
<1>6. Adds(k) /\ tasks' \in Seq(TaskType') /\ Len(tasks') = Len(tasks) + 1
  BY <1>2, <1>3, <1>4, <1>5, TaskAdds
<1> QED BY <1>1, <1>2, <1>3, <1>6 DEF Begins

\* Dialogs come and go without a handler.
Dialogs ==
  /\ dialog' \in Names \cup {None, "new"}
  /\ UNCHANGED <<page, worker, loaded, trapped, files, changer, shown, logs, calls, path, samplesLoading, tasks, listeners>>

LEMMA UserSteps ==
  ASSUME TypeOK, User
  PROVE  SwitchCore \/ (\E k : Begins(k)) \/ Dialogs
<1>1. path \in Dirs /\ samplesLoading \in BOOLEAN /\ shown.names \subseteq Names
      /\ <<"own", "sample">> \in Seq(Names) /\ <<"own", "sample">> # << >>
      /\ <<"sample">> \in Seq(Names) /\ <<"sample">> # << >>
      /\ <<"output">> \in Seq(Names) /\ << >> \in Seq(Names)
      /\ dialog \in Names \cup {None, "new"}
  BY DEF TypeOK, Names
<1>2. CASE Upload
  BY <1>1, <1>2, FetchBegins DEF Upload, MayClick, ObjectElse
<1>3. CASE SamplesAgain
  BY <1>1, <1>3, FetchBegins DEF SamplesAgain, Samples, MayClick, ObjectElse
<1>4. CASE Rename
  <2>1. dialog \in Names
    BY <1>4 DEF Rename
  <2>2. CASE Starts("rename", << >>, "rename", path, dialog) /\ UNCHANGED dialog
    BY <1>1, <1>4, <2>1, <2>2, StartBegins DEF Rename, ObjectElse
  <2>3. CASE StartsRefresh("rename", path) /\ dialog' = None
    BY <1>1, <1>4, <2>3, RefreshBegins DEF Rename, ObjectElse
  <2> QED BY <1>4, <2>2, <2>3 DEF Rename
<1>5. CASE Refresh
  BY <1>1, <1>5, RefreshBegins DEF Refresh, MayClick, ObjectElse
<1>6. CASE Run
  BY <1>1, <1>6, StartBegins DEF Run, MayClick, ObjectElse
<1>7. ASSUME NEW n \in Names, Delete(n) PROVE \E k : Begins(k)
  BY <1>1, <1>7, StartBegins DEF Delete, MayClick, ObjectElse
<1>8. ASSUME NEW name \in {"..", "tmp"}, ClickDir(name) PROVE \E k : Begins(k)
  <2>1. path' = NextPath(path, name) /\ StartsRefresh("dir", path')
    BY <1>8 DEF ClickDir
  <2>2. path' \in Dirs
    BY <1>1, <2>1 DEF NextPath, Dirs
  <2> QED BY <1>1, <1>8, <2>1, <2>2, RefreshBegins DEF ClickDir, MayClick, ObjectElse
<1>9. ASSUME NEW n \in Names, OpenRename(n) PROVE Dialogs
  BY <1>9 DEF OpenRename, Dialogs, ObjectElse
<1>10. CASE OpenFolder \/ CreateFolder \/ CloseDialog
  BY <1>10 DEF OpenFolder, CreateFolder, CloseDialog, Dialogs, ObjectElse
<1> QED BY <1>2, <1>3, <1>4, <1>5, <1>6, <1>7, <1>8, <1>9, <1>10 DEF User

-----------------------------------------------------------------------------
(* load() calls.                                                            *)

LoadSteps == {"js", "wasm", "create", "done", "failed", "terminated"}

LEMMA LoadFields ==
  ASSUME TypeOK
  PROVE  /\ loads \in Seq(LoadType) /\ Len(loads) \in Nat /\ Loads = 1 .. Len(loads)
         /\ \A l \in Loads : loads[l] \in LoadType /\ loads[l].step \in LoadSteps
<1>1. loads \in Seq(LoadType)
  BY DEF TypeOK
<1>2. Loads = 1 .. Len(loads) /\ Len(loads) \in Nat /\ \A l \in Loads : loads[l] \in LoadType
  <2> HIDE DEF LoadType
  <2> QED BY <1>1 DEF Loads
<1> QED BY <1>1, <1>2 DEF LoadType, LoadSteps

\* load() number l comes to a step, and the others stay or are terminated.
LoadMoves(l, step) ==
  /\ loads' \in Seq(LoadType) /\ Len(loads') = Len(loads) /\ DOMAIN loads' = DOMAIN loads
  /\ loads'[l].step = step
  /\ \A k \in Loads \ {l} :
       \/ loads'[k].step = loads[k].step
       \/ loads[k].step = "create" /\ loads'[k].step = "terminated"

LEMMA OneLoadMoves ==
  ASSUME TypeOK, NEW l \in Loads, NEW step \in LoadSteps, loads' = [loads EXCEPT ![l].step = step]
  PROVE  LoadMoves(l, step) /\ \A k \in Loads \ {l} : loads'[k] = loads[k]
<1> DEFINE e == [loads[l] EXCEPT !.step = step]
<1>1. loads \in Seq(LoadType) /\ loads[l] \in LoadType /\ l \in DOMAIN loads
  BY LoadFields DEF Loads
<1>2. e \in LoadType /\ e.step = step
  BY <1>1 DEF LoadType, LoadSteps
<1>3. loads' = [loads EXCEPT ![l] = e]
  OBVIOUS
<1> HIDE DEF e, LoadType
<1>4. loads' \in Seq(LoadType)
  BY <1>1, <1>2, <1>3, SeqEdit
<1>5. /\ DOMAIN loads' = DOMAIN loads /\ loads'[l] = e
      /\ \A k \in Loads \ {l} : loads'[k] = loads[k]
  BY <1>1, <1>3 DEF Loads
<1>6. Len(loads') = Len(loads)
  BY <1>1, <1>3
<1> QED BY <1>2, <1>4, <1>5, <1>6 DEF LoadMoves

LEMMA WasmLoads ==
  ASSUME TypeOK, NEW l \in Loads, GotWasm(l)
  PROVE  /\ loads[l].step = "wasm" /\ LoadMoves(l, "create")
         /\ \A k \in Loads \ {l} : loads'[k].step # "create"
<1>1. loads' = Superseded(l) /\ loads[l].step = "wasm"
  BY DEF GotWasm
<1>2. /\ loads \in Seq(LoadType) /\ Len(loads) \in Nat /\ Loads = 1 .. Len(loads)
      /\ \A k \in Loads : loads[k] \in LoadType
  BY LoadFields
<1>3. \A k \in Loads :
        /\ loads'[k] \in LoadType
        /\ loads'[k].step = IF k = l THEN "create"
                            ELSE IF loads[k].step = "create" THEN "terminated" ELSE loads[k].step
  <2> SUFFICES ASSUME NEW k \in Loads
               PROVE  /\ loads'[k] \in LoadType
                      /\ loads'[k].step = IF k = l THEN "create"
                                          ELSE IF loads[k].step = "create" THEN "terminated" ELSE loads[k].step
    OBVIOUS
  <2>1. loads'[k] = IF k = l THEN [loads[k] EXCEPT !.step = "create"]
                    ELSE IF loads[k].step = "create" THEN [loads[k] EXCEPT !.step = "terminated"] ELSE loads[k]
    BY <1>1 DEF Superseded
  <2>2. loads[k] \in LoadType
    BY <1>2
  <2> QED BY <2>1, <2>2 DEF LoadType
<1>4. DOMAIN loads' = 1 .. Len(loads) /\ loads' = [k \in 1 .. Len(loads) |-> loads'[k]]
  BY <1>1, <1>2 DEF Superseded
<1> HIDE DEF LoadType
<1>5. loads' \in Seq(LoadType) /\ Len(loads') = Len(loads)
  BY <1>2, <1>3, <1>4
<1>6. \A k \in Loads \ {l} :
        /\ loads'[k].step # "create"
        /\ \/ loads'[k].step = loads[k].step
           \/ loads[k].step = "create" /\ loads'[k].step = "terminated"
  BY <1>3
<1> QED BY <1>1, <1>2, <1>3, <1>4, <1>5, <1>6 DEF LoadMoves, Loads

\* The switch makes one more.
LEMMA SwitchLoads ==
  ASSUME TypeOK, SwitchCore
  PROVE  /\ loads' \in Seq(LoadType) /\ Len(loads') = Len(loads) + 1 /\ Len(loads') <= MaxLoads
         /\ DOMAIN loads' = DOMAIN loads \cup {Len(loads) + 1} /\ Len(loads) + 1 \notin DOMAIN loads
         /\ \A l \in Loads : loads'[l] = loads[l]
         /\ loads'[Len(loads) + 1].step = "js"
<1>1. loads' = Append(loads, LoadCall(~isCoreMT)) /\ Len(loads) < MaxLoads
  BY DEF SwitchCore
<1>2. LoadCall(~isCoreMT) \in LoadType /\ LoadCall(~isCoreMT).step = "js"
  BY DEF LoadCall, LoadType, TypeOK
<1>3. loads \in Seq(LoadType) /\ Len(loads) \in Nat
  BY LoadFields
<1> HIDE DEF LoadType
<1> QED BY <1>1, <1>2, <1>3, SeqAdd DEF Loads

\* Nothing else has to do with load() calls.
LEMMA OtherWorks ==
  ASSUME TypeOK, CallsFit
  PROVE  /\ \A t \in Tasks : Fetched(t) \/ Answer(t) =>
              /\ UNCHANGED page
              /\ RunTraps(t) \/ UNCHANGED <<page, worker, loaded, trapped>>
         /\ User => SwitchCore \/ UNCHANGED <<page, worker, loaded, trapped>>
<1>1. ASSUME NEW t \in Tasks, Fetched(t) \/ Answer(t)
      PROVE  UNCHANGED page /\ (RunTraps(t) \/ UNCHANGED <<page, worker, loaded, trapped>>)
  <2>1. CASE RunTraps(t)
    BY <2>1 DEF RunTraps
  <2>2. CASE ~RunTraps(t)
    BY <1>1, <2>2 DEF Fetched, Answer, AnswerWrite, AnswerWriteMore, AnswerChange, AnswerList, AnswerMissing,
                      Line, AnswerRun, object
  <2> QED BY <2>1, <2>2
<1>2. ASSUME User PROVE SwitchCore \/ UNCHANGED <<page, worker, loaded, trapped>>
  <2>1. CASE \E k : Begins(k)
    BY <2>1 DEF Begins
  <2>2. CASE Dialogs
    BY <2>2 DEF Dialogs
  <2> QED BY <1>2, <2>1, <2>2, UserSteps
<1> QED BY <1>1, <1>2

LEMMA LoadsStep == ASSUME IInv, [Next]_vars PROVE LoadsFit'
<1>1. TypeOK /\ CallsFit /\ LoadsFit
  BY DEF IInv
<1>2. worker \in Loads \cup {0} /\ trapped \in Loads \cup {0} /\ loaded \in BOOLEAN /\ Loads \subseteq Nat \ {0} /\ state \in {"LOADING", "LOADED"}
      /\ \A l \in Loads : loads[l].step \in LoadSteps
  BY <1>1, LoadFields DEF TypeOK
<1>3. ASSUME UNCHANGED <<page, worker, loaded, trapped>> PROVE LoadsFit'
  BY <1>1, <1>3 DEF LoadsFit, page, Loads, Unsettled
<1>4. ASSUME NEW l \in Loads, GotJS(l) PROVE LoadsFit'
  <2>1. /\ loads[l].step = "js" /\ LoadMoves(l, "wasm") /\ \A k \in Loads \ {l} : loads'[k] = loads[k]
        /\ UNCHANGED <<state, worker, loaded, trapped>>
    BY <1>1, <1>4, OneLoadMoves DEF GotJS, LoadSteps, object
  <2>2. Loads' = Loads /\ loads'[l].step = "wasm"
    BY <2>1 DEF LoadMoves, Loads
  <2> QED BY <1>1, <1>2, <2>1, <2>2 DEF LoadsFit, Unsettled
<1>5. ASSUME NEW l \in Loads, LoadFails(l) PROVE LoadsFit'
  <2>1. /\ loads[l].step \in {"js", "wasm", "create"}
        /\ LoadMoves(l, "failed") /\ \A k \in Loads \ {l} : loads'[k] = loads[k]
        /\ UNCHANGED <<state, worker, loaded, trapped>>
    BY <1>1, <1>5, OneLoadMoves DEF LoadFails, LoadSteps, object
  <2>2. Loads' = Loads /\ loads'[l].step = "failed"
    BY <2>1 DEF LoadMoves, Loads
  <2> QED BY <1>1, <1>2, <2>1, <2>2 DEF LoadsFit, Unsettled
<1>6. ASSUME NEW l \in Loads, GotWasm(l) PROVE LoadsFit'
  <2>1. /\ LoadMoves(l, "create") /\ \A k \in Loads \ {l} : loads'[k].step # "create"
        /\ worker' = l /\ loaded' = FALSE /\ trapped' = 0
    BY <1>1, <1>6, WasmLoads DEF GotWasm, RejectAll
  <2>2. Loads' = Loads /\ loads'[l].step = "create"
    BY <2>1 DEF LoadMoves, Loads
  <2> QED BY <1>2, <2>1, <2>2 DEF LoadsFit, Unsettled
<1>7. ASSUME NEW l \in Loads, Loaded(l) PROVE LoadsFit'
  <2>1. /\ loads[l].step = "create"
        /\ LoadMoves(l, "done") /\ \A k \in Loads \ {l} : loads'[k] = loads[k]
        /\ loaded' = TRUE /\ state' = "LOADED" /\ worker' = worker /\ trapped' = trapped
    BY <1>1, <1>7, OneLoadMoves DEF Loaded, LoadSteps, Shows
  <2>2. Loads' = Loads /\ loads'[l].step = "done" /\ worker = l
    BY <1>1, <2>1 DEF LoadMoves, Loads, LoadsFit
  <2> QED BY <1>1, <1>2, <2>1, <2>2 DEF LoadsFit
<1>8. CASE SwitchCore
  <2>1. UNCHANGED <<worker, loaded, trapped>>
    BY <1>8 DEF SwitchCore, object
  <2>2. /\ Loads' = Loads \cup {Len(loads) + 1} /\ Len(loads) + 1 \notin Loads
        /\ \A l \in Loads : loads'[l] = loads[l]
        /\ loads'[Len(loads) + 1].step = "js" /\ Len(loads) + 1 # 0
    BY <1>1, <1>8, SwitchLoads, LoadFields DEF Loads
  <2> QED BY <1>1, <1>2, <2>1, <2>2 DEF LoadsFit, Unsettled
<1>9. CASE UNCHANGED vars
  BY <1>3, <1>9 DEF vars, object
<1>10. ASSUME NEW t \in Tasks, RunTraps(t) PROVE LoadsFit'
  <2>1. UNCHANGED page /\ worker' = 0 /\ trapped' = worker /\ loaded' = FALSE /\ loaded
    BY <1>1, <1>10, Served DEF RunTraps, RejectAll
  <2>2. worker # 0 /\ loads[worker].step = "done" /\ \A l \in Loads : loads[l].step # "create"
    BY <1>1, <2>1 DEF LoadsFit
  <2> QED BY <1>1, <2>1, <2>2 DEF LoadsFit, page, Loads, Unsettled
<1> QED
  BY <1>1, <1>3, <1>4, <1>5, <1>6, <1>7, <1>8, <1>9, <1>10, OtherWorks DEF Next, Works, Loading

-----------------------------------------------------------------------------
(* The bounds.                                                              *)

Done == {l \in Loads : loads[l].step = "done"}

LEMMA PartOfInterval ==
  ASSUME NEW n \in Nat, NEW S \in SUBSET (1 .. n)
  PROVE  IsFiniteSet(S) /\ Cardinality(S) \in Nat /\ Cardinality(S) <= n
<1>1. IsFiniteSet(1 .. n) /\ Cardinality(1 .. n) = n
  <2>1. 1 \in Int /\ n \in Int
    OBVIOUS
  <2>2. IsFiniteSet(1 .. n) /\ Cardinality(1 .. n) = IF 1 > n THEN 0 ELSE n - 1 + 1
    BY <2>1, FS_Interval, Zenon
  <2> QED BY <2>2
<1>2. IsFiniteSet(S) /\ Cardinality(S) <= Cardinality(1 .. n)
  BY <1>1, FS_Subset
<1> QED BY <1>1, <1>2, FS_CardinalityType

LEMMA DoneCounted ==
  ASSUME TypeOK
  PROVE  IsFiniteSet(Done) /\ Cardinality(Done) \in Nat /\ Cardinality(Done) <= Len(loads)
<1>1. Loads = 1 .. Len(loads) /\ Len(loads) \in Nat
  BY LoadFields
<1>2. Done \in SUBSET (1 .. Len(loads))
  BY <1>1 DEF Done
<1> QED BY <1>1, <1>2, PartOfInterval

\* A workspace that is mounted anew loads the samples.
LEMMA LoadedTasks ==
  ASSUME TypeOK, NEW l \in Loads, Loaded(l)
  PROVE  \/ state = "LOADED" /\ UNCHANGED <<mount, view, tasks>>
         \/ /\ state = "LOADING" /\ mount' = mount + 1 /\ path' = 0 /\ shown' = [dir |-> Nowhere, names |-> {}]
            /\ samplesLoading' = TRUE /\ dialog' = None /\ logs' = << >>
            /\ Adds(Samples(mount + 1, 0)) /\ tasks' \in Seq(TaskType') /\ Len(tasks') = Len(tasks) + 1
            /\ Samples(mount + 1, 0).mount = mount + 1 /\ Samples(mount + 1, 0).step = "fetch"
            /\ Samples(mount + 1, 0).kind = "samples" /\ Samples(mount + 1, 0).todo = <<"sample">>
<1>1. CASE state = "LOADED"
  BY <1>1 DEF Loaded, Shows
<1>2. CASE state # "LOADED"
  <2> DEFINE k == Samples(mount + 1, 0)
  <2>1. /\ state = "LOADING" /\ mount' = mount + 1 /\ path' = 0 /\ shown' = [dir |-> Nowhere, names |-> {}]
        /\ samplesLoading' = TRUE /\ dialog' = None /\ logs' = << >> /\ tasks' = Append(tasks, k)
    BY <1>2 DEF Loaded, Shows, TypeOK
  <2>2. k.mount = mount + 1 /\ k.step = "fetch" /\ k.kind = "samples" /\ k.todo = <<"sample">>
    BY DEF Samples, Task
  <2>3. mount' \in Nat /\ mount + 1 \in 1 .. mount' /\ mount <= mount'
    BY <2>1 DEF TypeOK
  <2>4. k \in TaskType'
    <3>1. "fetch" \in Steps /\ "samples" \in Things \cup {"samples"} /\ <<"sample">> \in Seq(Names) /\ 0 \in Dirs
      BY DEF Steps, Names, Dirs
    <3>2. k \in [kind : Things \cup {"samples"}, mount : 1 .. mount', path : Dirs, todo : Seq(Names), step : Steps]
      BY <2>3, <3>1, TaskTyped DEF Samples
    <3> QED BY <3>2 DEF TaskType, Steps
  <2> HIDE DEF k
  <2>5. Adds(k) /\ tasks' \in Seq(TaskType') /\ Len(tasks') = Len(tasks) + 1
    BY <2>1, <2>3, <2>4, TaskAdds
  <2> QED BY <2>1, <2>2, <2>5 DEF k
<1> QED BY <1>1, <1>2

LEMMA TasksCounted ==
  ASSUME TypeOK
  PROVE  Len(tasks) \in Nat /\ Tasks = 1 .. Len(tasks) /\ tasks \in Seq(TaskType)
<1>1. tasks \in Seq(TaskType)
  BY DEF TypeOK
<1> HIDE DEF TaskType
<1> QED BY <1>1 DEF Tasks

\* As long as the page works by itself.
LEMMA WorksKeepTasks ==
  ASSUME TypeOK, CallsFit, NEW t \in Tasks, Fetched(t) \/ Answer(t)
  PROVE  tasks' \in Seq(TaskType') /\ DOMAIN tasks' = DOMAIN tasks
<1>1. CASE Fetched(t)
  BY <1>1, FetchMoves DEF Writes, Moves
<1>2. CASE Line(t)
  BY <1>2, LineMoves DEF Moves
<1>3. ASSUME NEW step, Answered(t, step) PROVE tasks' \in Seq(TaskType') /\ DOMAIN tasks' = DOMAIN tasks
  BY <1>3 DEF Answered, Moves
<1>4. CASE RunTraps(t)
  BY <1>4, RejectedTasks DEF RunTraps, page
<1> QED BY <1>1, <1>2, <1>3, <1>4, AnswerForms

LEMMA SameDomain ==
  ASSUME NEW S, NEW R, NEW s \in Seq(S), NEW r \in Seq(R), DOMAIN r = DOMAIN s
  PROVE  Len(r) = Len(s)
OBVIOUS

LEMMA BoundedStep == ASSUME IInv, [Next]_vars PROVE Bounded'
<1>1. TypeOK /\ CallsFit /\ LoadsFit /\ Bounded
  BY DEF IInv
<1>2. /\ Len(tasks) \in Nat /\ tasks \in Seq(TaskType) /\ mount \in Nat /\ Cardinality(Done) \in Nat
      /\ Len(loads) \in 1 .. MaxLoads /\ Len(tasks) <= MaxTasks + mount /\ mount <= 1 + Cardinality(Done)
  BY <1>1, TasksCounted, DoneCounted DEF TypeOK, Bounded, Done
<1> HIDE DEF TaskType, LoadType
<1>3. SUFFICES /\ Len(loads') \in 1 .. MaxLoads /\ Len(tasks') <= MaxTasks + mount'
               /\ mount' <= 1 + Cardinality(Done')
  BY DEF Bounded, Done
<1>4. ASSUME UNCHANGED page, Len(tasks') = Len(tasks) \/ Len(tasks') <= MaxTasks
      PROVE  /\ Len(loads') \in 1 .. MaxLoads /\ Len(tasks') <= MaxTasks + mount'
             /\ mount' <= 1 + Cardinality(Done')
  <2>1. Done' = Done /\ loads' = loads /\ mount' = mount
    BY <1>4 DEF page, Done, Loads
  <2> QED BY <1>2, <1>4, <2>1
<1>5. ASSUME NEW t \in Tasks, Fetched(t) \/ Answer(t) PROVE UNCHANGED page /\ Len(tasks') = Len(tasks)
  BY <1>1, <1>2, <1>5, OtherWorks, WorksKeepTasks, SameDomain
<1>6. ASSUME NEW k, Begins(k) PROVE UNCHANGED page /\ Len(tasks') <= MaxTasks
  BY <1>2, <1>6 DEF Begins
<1>7. CASE Dialogs
  BY <1>4, <1>7 DEF Dialogs
<1>8. ASSUME NEW l \in Loads, GotJS(l) \/ LoadFails(l) \/ GotWasm(l)
      PROVE  /\ Len(loads') \in 1 .. MaxLoads /\ Len(tasks') <= MaxTasks + mount'
             /\ mount' <= 1 + Cardinality(Done')
  <2>1. mount' = mount /\ Len(tasks') = Len(tasks)
    <3>1. CASE GotJS(l) \/ LoadFails(l)
      BY <3>1 DEF GotJS, LoadFails
    <3>2. CASE GotWasm(l)
      <4>1. tasks' \in Seq(TaskType') /\ DOMAIN tasks' = DOMAIN tasks
        BY <1>1, <3>2, RejectedTasks DEF GotWasm
      <4> QED BY <1>2, <3>2, <4>1, SameDomain DEF GotWasm
    <3> QED BY <1>8, <3>1, <3>2
  <2>2. /\ loads[l].step \in {"js", "wasm", "create"}
        /\ \E step \in {"wasm", "failed", "create"} : LoadMoves(l, step)
    BY <1>1, <1>8, OneLoadMoves, WasmLoads DEF GotJS, LoadFails, LoadSteps
  <2>3. Done' = Done
    BY <2>2 DEF Done, LoadMoves, Loads
  <2>4. Len(loads') = Len(loads)
    BY <2>2 DEF LoadMoves
  <2> QED BY <1>2, <2>1, <2>3, <2>4
<1>9. ASSUME NEW l \in Loads, Loaded(l)
      PROVE  /\ Len(loads') \in 1 .. MaxLoads /\ Len(tasks') <= MaxTasks + mount'
             /\ mount' <= 1 + Cardinality(Done')
  <2>1. /\ loads[l].step = "create" /\ LoadMoves(l, "done")
        /\ \A k \in Loads \ {l} : loads'[k] = loads[k]
    BY <1>1, <1>9, OneLoadMoves DEF Loaded, LoadSteps
  <2>2. Done' = Done \cup {l} /\ l \notin Done
    BY <2>1 DEF Done, LoadMoves, Loads
  <2>3. Cardinality(Done') = Cardinality(Done) + 1
    BY <1>1, <2>2, DoneCounted, FS_AddElement
  <2>4. Len(loads') = Len(loads)
    BY <2>1 DEF LoadMoves
  <2>5. \/ mount' = mount /\ Len(tasks') = Len(tasks)
        \/ mount' = mount + 1 /\ Len(tasks') = Len(tasks) + 1
    BY <1>1, <1>9, LoadedTasks
  <2> QED BY <1>2, <2>3, <2>4, <2>5
<1>10. CASE SwitchCore
  <2>1. mount' = mount /\ tasks' = tasks
    BY <1>10 DEF SwitchCore
  <2>2. /\ DOMAIN loads' = DOMAIN loads \cup {Len(loads) + 1} /\ Len(loads') = Len(loads) + 1
        /\ \A l \in Loads : loads'[l] = loads[l]
        /\ loads'[Len(loads) + 1].step = "js" /\ Len(loads') <= MaxLoads
    BY <1>1, <1>10, SwitchLoads
  <2>3. Done' = Done
    BY <2>2 DEF Done, Loads
  <2> QED BY <1>2, <2>1, <2>2, <2>3
<1>11. CASE UNCHANGED vars
  BY <1>4, <1>11 DEF vars
<1> QED
  BY <1>1, <1>4, <1>5, <1>6, <1>7, <1>8, <1>9, <1>10, <1>11, UserSteps DEF Next, Works, Loading

-----------------------------------------------------------------------------
(* Types.                                                                   *)

PageTyped ==
  /\ state \in {"LOADING", "LOADED"} /\ isCoreMT \in BOOLEAN /\ loads \in Seq(LoadType)
  /\ {worker, trapped} \subseteq Loads \cup {0} /\ loaded \in BOOLEAN /\ mount \in 1 .. MaxLoads + 1

LEMMA PageStep == ASSUME IInv, [Next]_vars PROVE PageTyped'
<1>1. TypeOK /\ CallsFit /\ LoadsFit
  BY DEF IInv
<1>2. PageTyped
  BY <1>1 DEF TypeOK, PageTyped
<1> HIDE DEF LoadType
<1>3. ASSUME UNCHANGED <<page, worker, loaded, trapped>> PROVE PageTyped'
  BY <1>2, <1>3 DEF PageTyped, page, Loads
<1>4. ASSUME NEW l \in Loads, GotJS(l) \/ LoadFails(l) \/ GotWasm(l) PROVE PageTyped'
  <2>1. \E step : LoadMoves(l, step)
    BY <1>1, <1>4, OneLoadMoves, WasmLoads DEF GotJS, LoadFails, LoadSteps
  <2>2. UNCHANGED <<state, isCoreMT, mount>> /\ worker' \in {worker, l} /\ loaded' \in {loaded, FALSE}
        /\ trapped' \in {trapped, 0}
    BY <1>4 DEF GotJS, LoadFails, GotWasm, RejectAll, object
  <2> QED BY <1>2, <2>1, <2>2 DEF PageTyped, LoadMoves, Loads
<1>5. ASSUME NEW l \in Loads, Loaded(l) PROVE PageTyped'
  <2>1. LoadMoves(l, "done")
    BY <1>1, <1>5, OneLoadMoves DEF Loaded, LoadSteps
  <2>2. state' = "LOADED" /\ loaded' = TRUE /\ UNCHANGED <<isCoreMT, worker, trapped>>
    BY <1>5 DEF Loaded, Shows
  <2>3. mount' \in 1 .. MaxLoads + 1
    <3>1. mount' \in {mount, mount + 1} /\ mount \in Nat \ {0}
      <4>1. mount \in Nat \ {0}
        BY <1>2 DEF PageTyped
      <4>2. mount' \in {mount, mount + 1}
        BY <1>1, <1>5, LoadedTasks
      <4> QED BY <4>1, <4>2
    <3>2. Len(loads') \in 1 .. MaxLoads /\ mount' <= 1 + Cardinality({l2 \in Loads' : loads'[l2].step = "done"})
      BY BoundedStep DEF Bounded
    <3>3. {l2 \in Loads' : loads'[l2].step = "done"} \in SUBSET (1 .. Len(loads'))
      BY <2>1 DEF LoadMoves, Loads
    <3>4. /\ Cardinality({l2 \in Loads' : loads'[l2].step = "done"}) \in Nat
          /\ Cardinality({l2 \in Loads' : loads'[l2].step = "done"}) <= Len(loads')
      BY <3>2, <3>3, PartOfInterval
    <3> QED BY <3>1, <3>2, <3>4
  <2> QED BY <1>2, <2>1, <2>2, <2>3 DEF PageTyped, LoadMoves, Loads
<1>6. CASE SwitchCore
  BY <1>1, <1>2, <1>6, SwitchLoads DEF SwitchCore, object, PageTyped, Loads
<1>7. CASE UNCHANGED vars
  BY <1>3, <1>7 DEF vars, object
<1>8. ASSUME NEW t \in Tasks, RunTraps(t) PROVE PageTyped'
  BY <1>2, <1>8 DEF RunTraps, RejectAll, PageTyped, page, Loads
<1> QED
  BY <1>1, <1>3, <1>4, <1>5, <1>6, <1>7, <1>8, OtherWorks DEF Next, Works, Loading

LEMMA TasksStep == ASSUME IInv, [Next]_vars PROVE tasks' \in Seq(TaskType')
<1>1. TypeOK /\ CallsFit
  BY DEF IInv
<1>2. ASSUME UNCHANGED <<tasks, mount>> PROVE tasks' \in Seq(TaskType')
  <2>1. TaskType' = TaskType
    BY <1>2 DEF TaskType
  <2> QED BY <1>1, <1>2, <2>1 DEF TypeOK
<1> HIDE DEF TaskType
<1>3. ASSUME NEW l \in Loads, Loading(l) PROVE tasks' \in Seq(TaskType')
  BY <1>1, <1>2, <1>3, RejectedTasks, LoadedTasks DEF Loading, GotJS, GotWasm, LoadFails
<1>4. SwitchCore \/ Dialogs \/ UNCHANGED vars => UNCHANGED <<tasks, mount>>
  BY DEF SwitchCore, Dialogs, vars, page
<1>5. (\E k : Begins(k)) => tasks' \in Seq(TaskType')
  BY DEF Begins
<1> QED
  BY <1>1, <1>2, <1>3, <1>4, <1>5, WorksKeepTasks, UserSteps DEF Next, Works

\* A call of a handler there is.
LEMMA CallMade ==
  ASSUME TypeOK, Bounded, NEW t \in Tasks, NEW op \in {"write", "list"}, NEW dir \in Dirs,
         NEW name \in Names \cup {None}
  PROVE  Call(t, op, dir, name) \in CallType
<1>1. t \in 1 .. MaxTasks + MaxLoads + 1
  BY TasksCounted DEF TypeOK, Bounded
<1> QED BY <1>1 DEF Call, CallType

LEMMA CallsTyped == ASSUME IInv, [Next]_vars PROVE calls' \in Seq(CallType)
<1>1. TypeOK /\ CallsFit /\ Bounded /\ calls \in Seq(CallType)
  BY DEF IInv, TypeOK
<1>2. ASSUME NEW t \in Tasks, NEW op \in {"write", "list"}, NEW dir \in Dirs, NEW name \in Names \cup {None}
      PROVE  Call(t, op, dir, name) \in CallType
  BY <1>1, CallMade
<1>3. \A t \in Tasks : tasks[t].path \in Dirs
  BY <1>1, TaskFields
<1> HIDE DEF CallType
<1>4. ASSUME NEW t \in Tasks, NEW step, Answered(t, step) PROVE calls' \in Seq(CallType)
  <2>1. Tail(calls) \in Seq(CallType)
    BY <1>1, <1>4, SeqRest DEF Answered
  <2>2. Call(t, "list", tasks[t].path, None) \in CallType
    BY <1>2, <1>3
  <2> QED BY <1>4, <2>1, <2>2, SeqAdd DEF Answered
<1>5. ASSUME NEW t \in Tasks, Fetched(t) PROVE calls' \in Seq(CallType)
  <2>1. CASE Writes(t)
    BY <1>1, <1>2, <2>1, SeqAdd DEF Writes
  <2>2. CASE UNCHANGED calls
    BY <1>1, <2>2
  <2> QED BY <1>1, <1>5, <2>1, <2>2, FetchMoves
<1>6. ASSUME NEW t \in Tasks, Answer(t) PROVE calls' \in Seq(CallType)
  <2>1. CASE Line(t)
    BY <1>1, <2>1 DEF Line, object
  <2>2. CASE RunTraps(t)
    <3>1. calls' = << >> /\ << >> \in Seq(CallType)
      BY <2>2 DEF RunTraps, RejectAll
    <3> QED BY <3>1
  <2> QED BY <1>1, <1>4, <1>6, <2>1, <2>2, AnswerForms
<1>7. ASSUME NEW k, Begins(k) PROVE calls' \in Seq(CallType)
  <2>1. CASE UNCHANGED calls
    BY <1>1, <2>1
  <2>2. CASE \E c \in CallType : calls' = Append(calls, c)
    BY <1>1, <2>2, SeqAdd
  <2> QED BY <1>7, <2>1, <2>2 DEF Begins
<1>8. ASSUME NEW l \in Loads, Loading(l) PROVE calls' \in Seq(CallType)
  <2>1. calls' \in {calls, << >>}
    BY <1>8 DEF Loading, GotJS, GotWasm, RejectAll, Loaded, LoadFails, object
  <2>2. << >> \in Seq(CallType)
    OBVIOUS
  <2>3. CASE calls' = << >>
    BY <2>2, <2>3
  <2>4. CASE calls' = calls
    BY <1>1, <2>4
  <2> QED BY <2>1, <2>3, <2>4
<1>9. SwitchCore \/ Dialogs \/ UNCHANGED vars => UNCHANGED calls
  BY DEF SwitchCore, Dialogs, vars, object
<1>10. CASE Works
  BY <1>5, <1>6, <1>8, <1>10 DEF Works
<1>11. CASE User \/ UNCHANGED vars
  <2>1. CASE \E k : Begins(k)
    BY <1>7, <2>1
  <2>2. CASE SwitchCore \/ Dialogs \/ UNCHANGED vars
    <3>1. calls' = calls
      BY <1>9, <2>2
    <3> QED BY <1>1, <3>1
  <2> QED BY <1>1, <1>11, <2>1, <2>2, UserSteps, Zenon
<1> QED BY <1>10, <1>11 DEF Next

FilesTyped == files \subseteq Dirs \X Names /\ changer \in 0 .. mount

LEMMA FilesStep == ASSUME IInv, [Next]_vars PROVE FilesTyped'
<1>1. TypeOK /\ CallsFit
  BY DEF IInv
<1>2. files \subseteq Dirs \X Names /\ changer \in 0 .. mount /\ mount \in Nat
  BY <1>1 DEF TypeOK
<1>3. ASSUME UNCHANGED <<files, changer, mount>> PROVE FilesTyped'
  BY <1>2, <1>3 DEF FilesTyped
<1>4. ASSUME NEW t \in Tasks, AnswerWrite(t) \/ AnswerWriteMore(t) PROVE FilesTyped'
  <2>1. Serve(t, "write") /\ files' = files \cup {<<Head(calls).dir, Head(calls).name>>}
        /\ changer' = tasks[t].mount /\ UNCHANGED mount
    BY <1>4 DEF AnswerWrite, AnswerWriteMore, page
  <2>2. Head(calls) \in CallType /\ Head(calls).name # None
    BY <1>1, <2>1, Served DEF CallsFit, CallsIn, FitsIn
  <2>3. <<Head(calls).dir, Head(calls).name>> \in Dirs \X Names
    BY <2>2 DEF CallType
  <2> QED BY <1>1, <1>2, <2>1, <2>3, TaskFields DEF FilesTyped
<1>5. ASSUME NEW t \in Tasks, AnswerChange(t) PROVE FilesTyped'
  <2>1. CASE UNCHANGED <<files, changer>>
    BY <1>3, <1>5, <2>1 DEF AnswerChange, page
  <2>2. CASE ~UNCHANGED <<files, changer>>
    <3>1. PICK added \in {{<<Head(calls).dir, "renamed">>}, {}} :
            files' = (files \ {<<Head(calls).dir, Head(calls).name>>}) \cup added
      BY <1>5, <2>2 DEF AnswerChange
    <3>2. changer' = tasks[t].mount /\ UNCHANGED mount
      BY <1>5, <2>2 DEF AnswerChange, page
    <3>3. Head(calls) \in CallType
      BY <1>1, <1>5, Served DEF AnswerChange
    <3>4. <<Head(calls).dir, "renamed">> \in Dirs \X Names
      BY <3>3 DEF CallType, Names
    <3> QED BY <1>1, <1>2, <3>1, <3>2, <3>4, TaskFields DEF FilesTyped
  <2> QED BY <2>1, <2>2
<1>6. ASSUME NEW t \in Tasks, AnswerRun(t) PROVE FilesTyped'
  <2>1. files' \in {files, files \cup {<<0, "output">>}} /\ changer' \in {changer, tasks[t].mount} /\ UNCHANGED mount
    BY <1>6 DEF AnswerRun, page
  <2>2. <<0, "output">> \in Dirs \X Names
    BY DEF Dirs, Names
  <2> QED BY <1>1, <1>2, <2>1, <2>2, TaskFields DEF FilesTyped
<1>7. ASSUME NEW t \in Tasks, AnswerList(t) \/ AnswerMissing(t) \/ Line(t) \/ RunTraps(t) \/ Fetched(t)
      PROVE  FilesTyped'
  BY <1>3, <1>7 DEF AnswerList, AnswerMissing, Line, RunTraps, Fetched, page, object
<1>8. ASSUME NEW l \in Loads, Loading(l) PROVE FilesTyped'
  <2>1. CASE Loaded(l)
    <3>1. files' = {} /\ changer' = 0 /\ mount' \in {mount, mount + 1}
      BY <1>1, <2>1, LoadedTasks DEF Loaded
    <3> QED BY <1>2, <3>1 DEF FilesTyped
  <2>2. CASE ~Loaded(l)
    BY <1>3, <1>8, <2>2 DEF Loading, GotJS, GotWasm, LoadFails, object
  <2> QED BY <2>1, <2>2
<1>9. SwitchCore \/ Dialogs \/ (\E k : Begins(k)) \/ UNCHANGED vars => UNCHANGED <<files, changer, mount>>
  BY DEF SwitchCore, Dialogs, Begins, vars, object, page
<1> QED
  BY <1>1, <1>3, <1>4, <1>5, <1>6, <1>7, <1>8, <1>9, UserSteps DEF Next, Works, Answer

ViewTyped ==
  /\ path \in Dirs /\ shown \in [dir : Dirs \cup {Nowhere}, names : SUBSET Names]
  /\ samplesLoading \in BOOLEAN /\ dialog \in Names \cup {None, "new"}

LEMMA ViewStep == ASSUME IInv, [Next]_vars PROVE ViewTyped'
<1>1. TypeOK /\ CallsFit
  BY DEF IInv
<1>2. ViewTyped
  BY <1>1 DEF TypeOK, ViewTyped
<1>3. ASSUME UNCHANGED <<path, shown, dialog>>, samplesLoading' \in BOOLEAN PROVE ViewTyped'
  BY <1>2, <1>3 DEF ViewTyped
<1>4. ASSUME NEW t \in Tasks, NEW step, Answered(t, step) PROVE samplesLoading' \in BOOLEAN
  BY <1>4 DEF Answered
<1>5. ASSUME NEW t \in Tasks, AnswerWrite(t) \/ AnswerWriteMore(t) \/ AnswerMissing(t) \/ AnswerRun(t) \/ RunTraps(t)
      PROVE  ViewTyped'
  <2>1. UNCHANGED <<path, shown, dialog>>
    BY <1>5 DEF AnswerWrite, AnswerWriteMore, AnswerMissing, AnswerRun, RunTraps
  <2>2. samplesLoading' \in BOOLEAN
    BY <1>1, <1>4, <1>5, WriteAnswered, WriteMoreAnswered, MissingAnswered, RunAnswered DEF RunTraps, RejectAll
  <2> QED BY <1>3, <2>1, <2>2
<1>6. ASSUME NEW t \in Tasks, AnswerChange(t) PROVE ViewTyped'
  <2>1. UNCHANGED <<path, shown>> /\ dialog' \in {dialog, None}
    BY <1>6 DEF AnswerChange
  <2>2. samplesLoading' \in BOOLEAN
    BY <1>1, <1>4, <1>6, ChangeAnswered
  <2> QED BY <1>2, <2>1, <2>2 DEF ViewTyped
<1>7. ASSUME NEW t \in Tasks, AnswerList(t) PROVE ViewTyped'
  <2>1. shown' \in {shown, [dir |-> Head(calls).dir, names |-> Listing(Head(calls).dir)]} /\ UNCHANGED <<path, dialog>>
    BY <1>7 DEF AnswerList
  <2>2. Head(calls) \in CallType
    BY <1>1, <1>7, Served DEF AnswerList
  <2>3. Head(calls).dir \in Dirs
    BY <2>2 DEF CallType
  <2>4. Listing(Head(calls).dir) \subseteq Names
    BY <1>1 DEF Listing, Files, TypeOK
  <2>5. samplesLoading' \in BOOLEAN
    BY <1>1, <1>4, <1>7, ListAnswered
  <2> QED BY <1>2, <2>1, <2>3, <2>4, <2>5 DEF ViewTyped
<1>8. ASSUME NEW t \in Tasks, Line(t) \/ Fetched(t) PROVE ViewTyped'
  <2>1. UNCHANGED <<path, shown, dialog>>
    BY <1>8 DEF Line, Fetched
  <2>2. samplesLoading' \in BOOLEAN
    BY <1>1, <1>2, <1>8, FetchMoves DEF Line, Writes, ViewTyped
  <2> QED BY <1>3, <2>1, <2>2
<1>9. ASSUME NEW l \in Loads, Loading(l) PROVE ViewTyped'
  <2>1. CASE Loaded(l)
    <3>1. CASE UNCHANGED view
      BY <1>2, <3>1 DEF ViewTyped, view
    <3>2. CASE ~UNCHANGED view
      <4>1. /\ path' = 0 /\ shown' = [dir |-> Nowhere, names |-> {}]
            /\ samplesLoading' = TRUE /\ dialog' = None
        BY <1>1, <2>1, <3>2, LoadedTasks
      <4>2. 0 \in Dirs /\ [dir |-> Nowhere, names |-> {}] \in [dir : Dirs \cup {Nowhere}, names : SUBSET Names]
        BY DEF Dirs
      <4> QED BY <4>1, <4>2 DEF ViewTyped
    <3> QED BY <3>1, <3>2
  <2>2. CASE GotWasm(l)
    BY <1>3, <2>2 DEF GotWasm, RejectAll
  <2>3. CASE GotJS(l) \/ LoadFails(l)
    BY <1>2, <2>3 DEF GotJS, LoadFails, view, ViewTyped
  <2> QED BY <1>9, <2>1, <2>2, <2>3 DEF Loading
<1>10. ASSUME NEW k, Begins(k) PROVE ViewTyped'
  BY <1>2, <1>10 DEF Begins, ViewTyped
<1>11. CASE Dialogs
  BY <1>2, <1>11 DEF Dialogs, ViewTyped
<1>12. CASE SwitchCore \/ UNCHANGED vars
  BY <1>2, <1>12 DEF SwitchCore, vars, view, ViewTyped
<1> QED
  BY <1>1, <1>5, <1>6, <1>7, <1>8, <1>9, <1>10, <1>11, <1>12, UserSteps DEF Next, Works, Answer

-----------------------------------------------------------------------------
(* The log.                                                                 *)

LEMMA ConstantBehind ==
  ASSUME NEW S, NEW s \in Seq(S), NEW e \in S, NEW n \in Nat, NEW b, b = [i \in 1 .. n |-> e]
  PROVE  /\ s \o b \in Seq(S) /\ Len(s) \in Nat /\ DOMAIN s = 1 .. Len(s)
         /\ DOMAIN (s \o b) = 1 .. Len(s) + n
         /\ \A i \in 1 .. Len(s) : (s \o b)[i] = s[i]
         /\ \A i \in Len(s) + 1 .. Len(s) + n : (s \o b)[i] = e
<1>1. b \in Seq(S) /\ Len(b) = n /\ \A i \in 1 .. n : b[i] = e
  OBVIOUS
<1>2. /\ s \o b \in Seq(S) /\ Len(s \o b) = Len(s) + n /\ Len(s) \in Nat
      /\ \A i \in 1 .. Len(s) : (s \o b)[i] = s[i]
      /\ \A i \in Len(s) + 1 .. Len(s) + n : (s \o b)[i] = b[i - Len(s)] /\ i - Len(s) \in 1 .. n
  BY <1>1
<1>3. \A i \in Len(s) + 1 .. Len(s) + n : (s \o b)[i] = e
  BY <1>1, <1>2
<1>4. DOMAIN (s \o b) = 1 .. Len(s) + n /\ DOMAIN s = 1 .. Len(s)
  BY <1>2
<1> QED BY <1>2, <1>3, <1>4

LogType == [run : Tasks, what : {"line", "exit"}]

\* The log grows by n times what run t says.
LogGrows(t, what, n) ==
  /\ n \in Nat /\ Len(logs) \in Nat /\ DOMAIN logs = 1 .. Len(logs)
  /\ logs' \in Seq(LogType) /\ DOMAIN logs' = 1 .. Len(logs) + n
  /\ \A i \in 1 .. Len(logs) : logs'[i] = logs[i]
  /\ \A i \in Len(logs) + 1 .. Len(logs) + n : logs'[i] = [run |-> t, what |-> what]

Heard == {u \in listeners : Mounted(u)}

LEMMA HeardCounted ==
  ASSUME TypeOK
  PROVE  IsFiniteSet(Heard) /\ Cardinality(Heard) \in Nat
<1>1. Heard \in SUBSET (1 .. Len(tasks)) /\ Len(tasks) \in Nat
  BY TasksCounted DEF TypeOK, Heard
<1> QED BY <1>1, PartOfInterval

LEMMA LineGrows ==
  ASSUME TypeOK, NEW t \in Tasks, Line(t)
  PROVE  LogGrows(t, "line", Cardinality(Heard))
<1> DEFINE e == [run |-> t, what |-> "line"]
<1>1. logs \in Seq(LogType) /\ e \in LogType /\ Cardinality(Heard) \in Nat
  BY HeardCounted DEF TypeOK, LogType
<1>2. logs' = logs \o [i \in 1 .. Cardinality(Heard) |-> e]
  BY DEF Line, Logged, Heard
<1> HIDE DEF e, LogType
<1>3. LogGrows(t, "line", Cardinality(Heard)) <=>
        /\ Cardinality(Heard) \in Nat /\ Len(logs) \in Nat /\ DOMAIN logs = 1 .. Len(logs)
        /\ logs' \in Seq(LogType) /\ DOMAIN logs' = 1 .. Len(logs) + Cardinality(Heard)
        /\ \A i \in 1 .. Len(logs) : logs'[i] = logs[i]
        /\ \A i \in Len(logs) + 1 .. Len(logs) + Cardinality(Heard) : logs'[i] = e
  BY DEF LogGrows, e
<1> DEFINE b == [i \in 1 .. Cardinality(Heard) |-> e]
<1>4. b = [i \in 1 .. Cardinality(Heard) |-> e]
  OBVIOUS
<1> HIDE DEF b
<1>5. /\ logs \o b \in Seq(LogType)
      /\ Len(logs) \in Nat /\ DOMAIN logs = 1 .. Len(logs)
      /\ DOMAIN (logs \o b) = 1 .. Len(logs) + Cardinality(Heard)
      /\ \A i \in 1 .. Len(logs) : (logs \o b)[i] = logs[i]
      /\ \A i \in Len(logs) + 1 .. Len(logs) + Cardinality(Heard) : (logs \o b)[i] = e
  BY <1>1, <1>4, ConstantBehind
<1>6. logs' = logs \o b
  BY <1>2, <1>4
<1> QED BY <1>1, <1>3, <1>5, <1>6

LEMMA ExitGrows ==
  ASSUME TypeOK, NEW t \in Tasks, AnswerRun(t)
  PROVE  IF Mounted(t) THEN LogGrows(t, "exit", 1) ELSE UNCHANGED logs
<1> DEFINE e == [run |-> t, what |-> "exit"]
<1>1. logs \in Seq(LogType) /\ e \in LogType
  BY DEF TypeOK, LogType
<1>2. logs' = IF Mounted(t) THEN Append(logs, e) ELSE logs
  BY DEF AnswerRun
<1> HIDE DEF e, LogType
<1>3. CASE Mounted(t)
  <2>1. /\ Len(logs) \in Nat /\ DOMAIN logs = 1 .. Len(logs)
        /\ logs' \in Seq(LogType) /\ DOMAIN logs' = 1 .. Len(logs) + 1
        /\ \A i \in 1 .. Len(logs) : logs'[i] = logs[i]
        /\ logs'[Len(logs) + 1] = e
    BY <1>1, <1>2, <1>3
  <2>2. \A i \in Len(logs) + 1 .. Len(logs) + 1 : logs'[i] = e
    BY <2>1
  <2> QED BY <1>3, <2>1, <2>2 DEF LogGrows, e
<1> QED BY <1>2, <1>3

LEMMA LogStep == ASSUME IInv, [Next]_vars PROVE logs' \in Seq(LogType') /\ listeners' \subseteq Tasks'
<1>1. TypeOK /\ CallsFit /\ logs \in Seq(LogType) /\ listeners \subseteq Tasks
  BY DEF IInv, TypeOK, LogType
<1>2. ASSUME NEW s \in Seq(LogType), Tasks \subseteq Tasks' PROVE s \in Seq(LogType')
  <2>1. LogType \subseteq LogType'
    BY <1>2 DEF LogType
  <2> QED BY <2>1, SeqWider
<1> HIDE DEF LogType
<1>3. ASSUME NEW t \in Tasks, Fetched(t) \/ Answer(t) PROVE logs' \in Seq(LogType') /\ listeners' \subseteq Tasks'
  <2>1. Tasks' = Tasks
    BY <1>1, <1>3, WorksKeepTasks DEF Tasks
  <2>2. logs' \in Seq(LogType)
    <3>1. CASE Line(t)
      BY <1>1, <3>1, LineGrows DEF LogGrows
    <3>2. CASE AnswerRun(t)
      BY <1>1, <3>2, ExitGrows DEF LogGrows
    <3>3. CASE ~Line(t) /\ ~AnswerRun(t)
      <4>1. logs' = logs
        BY <1>3, <3>3 DEF Fetched, Answer, AnswerWrite, AnswerWriteMore, AnswerChange, AnswerList,
                               AnswerMissing, RunTraps
      <4> QED BY <1>1, <4>1
    <3> QED BY <3>1, <3>2, <3>3
  <2>3. listeners' \subseteq listeners
    BY <1>3 DEF Fetched, Answer, AnswerWrite, AnswerWriteMore, AnswerChange, AnswerList, AnswerMissing,
                Line, AnswerRun, RunTraps, Unlistens
  <2> QED BY <1>1, <1>2, <2>1, <2>2, <2>3
<1>4. ASSUME NEW k, Begins(k) PROVE logs' \in Seq(LogType') /\ listeners' \subseteq Tasks'
  <2>1. /\ Tasks' = Tasks \cup {Len(tasks) + 1} /\ logs' = logs
        /\ listeners' \subseteq listeners \cup {Len(tasks) + 1}
    BY <1>4 DEF Begins, Adds, Tasks
  <2> QED BY <1>1, <1>2, <2>1
<1>5. ASSUME UNCHANGED <<logs, listeners>>, Tasks \subseteq Tasks'
      PROVE  logs' \in Seq(LogType') /\ listeners' \subseteq Tasks'
  BY <1>1, <1>2, <1>5
<1>6. ASSUME NEW l \in Loads, Loading(l) PROVE logs' \in Seq(LogType') /\ listeners' \subseteq Tasks'
  <2>1. CASE GotJS(l) \/ LoadFails(l)
    BY <1>5, <2>1 DEF GotJS, LoadFails, view, Tasks
  <2>2. CASE GotWasm(l)
    <3>1. Tasks' = Tasks
      BY <1>1, <2>2, RejectedTasks DEF GotWasm, Tasks
    <3> QED BY <1>5, <2>2, <3>1 DEF GotWasm
  <2>3. CASE Loaded(l)
    <3>1. CASE UNCHANGED <<mount, view, tasks>>
      BY <1>5, <2>3, <3>1 DEF Loaded, view, Tasks
    <3>2. CASE ~UNCHANGED <<mount, view, tasks>>
      <4>1. logs' = << >> /\ Adds(Samples(mount + 1, 0)) /\ listeners' = listeners
        BY <1>1, <2>3, <3>2, LoadedTasks DEF Loaded
      <4>2. << >> \in Seq(LogType') /\ Tasks \subseteq Tasks'
        BY <4>1 DEF Adds, Tasks
      <4> QED BY <1>1, <4>1, <4>2
    <3> QED BY <3>1, <3>2
  <2> QED BY <1>6, <2>1, <2>2, <2>3 DEF Loading
<1>7. CASE SwitchCore \/ Dialogs \/ UNCHANGED vars
  BY <1>5, <1>7 DEF SwitchCore, Dialogs, vars, view, Tasks
<1>8. CASE Works
  BY <1>3, <1>6, <1>8 DEF Works
<1>9. CASE User \/ UNCHANGED vars
  <2>1. CASE \E k : Begins(k)
    BY <1>4, <2>1
  <2> QED BY <1>1, <1>7, <1>9, <2>1, UserSteps
<1> QED BY <1>8, <1>9 DEF Next

LEMMA TypeStep == ASSUME IInv, [Next]_vars PROVE TypeOK'
BY PageStep, TasksStep, CallsTyped, FilesStep, ViewStep, LogStep
   DEF TypeOK, PageTyped, FilesTyped, ViewTyped, LogType

-----------------------------------------------------------------------------
(* Calls.                                                                   *)

LEMMA OneMoreCall ==
  ASSUME NEW cs \in Seq(CallType), NEW c \in CallType, NEW ts, CallsIn(cs, ts), FitsIn(c, ts),
         \A i \in DOMAIN cs : cs[i].task # c.task
  PROVE  CallsIn(Append(cs, c), ts)
<1> HIDE DEF CallType
<1>1. /\ DOMAIN Append(cs, c) = DOMAIN cs \cup {Len(cs) + 1} /\ Append(cs, c)[Len(cs) + 1] = c
      /\ \A i \in DOMAIN cs : Append(cs, c)[i] = cs[i]
  BY SeqAdd
<1> QED BY <1>1 DEF CallsIn

\* A call fits as long as its handler stays where it is.
LEMMA StillFits ==
  ASSUME NEW cs, NEW ts, NEW rs, CallsIn(cs, ts), DOMAIN ts \subseteq DOMAIN rs,
         \A i \in DOMAIN cs : LET t == cs[i].task IN
           t \in DOMAIN ts => /\ rs[t].step = ts[t].step /\ rs[t].kind = ts[t].kind
                              /\ rs[t].path = ts[t].path
  PROVE  CallsIn(cs, rs)
BY DEF CallsIn, FitsIn

LEMMA AnsweredFits ==
  ASSUME TypeOK, CallsFit, NEW t, NEW step, Answered(t, step)
  PROVE  CallsFit'
<1> DEFINE cs == Tail(calls)
<1>1. /\ calls # << >> /\ t \in Tasks /\ Head(calls).task = t /\ loaded
      /\ step \in {"list", "done", "rejected", "fetch"}
      /\ step = "fetch" => tasks[t].todo # << >> /\ Head(calls).op = "write" /\ Head(calls).op = Op(tasks[t].kind)
      /\ Moves(t, step, tasks[t].todo) /\ loaded' = loaded
      /\ calls' = IF step = "list" THEN Append(cs, Call(t, "list", tasks[t].path, None)) ELSE cs
  BY DEF Answered, CallsFit
<1>2. calls \in Seq(CallType) /\ CallsIn(calls, tasks)
  BY DEF TypeOK, CallsFit
<1>3. /\ cs \in Seq(CallType) /\ 1 \in DOMAIN calls /\ Head(calls) = calls[1]
      /\ \A n \in DOMAIN cs : n + 1 \in DOMAIN calls /\ n + 1 # 1 /\ cs[n] = calls[n + 1] /\ n \in Nat
  <2> HIDE DEF CallType
  <2>1. /\ cs \in Seq(CallType) /\ 1 \in DOMAIN calls /\ Head(calls) = calls[1]
        /\ \A n \in DOMAIN cs : n + 1 \in DOMAIN calls /\ n + 1 # 1 /\ cs[n] = calls[n + 1]
    BY <1>1, <1>2, SeqRest
  <2>2. \A n \in DOMAIN cs : n \in Nat
    BY <2>1
  <2> QED BY <2>1, <2>2
<1> HIDE DEF cs
<1>4. CallsIn(cs, tasks) /\ \A n \in DOMAIN cs : cs[n].task # t
  <2>1. \A n, m \in DOMAIN cs : n # m => n + 1 # m + 1
    BY <1>3
  <2> QED BY <1>1, <1>2, <1>3, <2>1 DEF CallsIn
<1>5. CallsIn(cs, tasks')
  <2>1. \A i \in DOMAIN cs : cs[i].task \in DOMAIN tasks =>
          /\ tasks'[cs[i].task].step = tasks[cs[i].task].step
          /\ tasks'[cs[i].task].kind = tasks[cs[i].task].kind
          /\ tasks'[cs[i].task].path = tasks[cs[i].task].path
    BY <1>1, <1>4 DEF Moves, Tasks
  <2>2. DOMAIN tasks \subseteq DOMAIN tasks'
    BY <1>1 DEF Moves
  <2> QED BY <1>4, <2>1, <2>2, StillFits
<1>6. CallsIn(calls', tasks')
  <2>1. CASE step # "list"
    BY <1>1, <1>5, <2>1
  <2>2. CASE step = "list"
    <3> DEFINE c == Call(t, "list", tasks[t].path, None)
    <3>1. c \in CallType /\ c.task = t /\ c.op = "list" /\ c.dir = tasks[t].path
      <4>1. calls[1] \in CallType /\ calls[1].task = t
        <5> HIDE DEF CallType
        <5> QED BY <1>1, <1>2, <1>3
      <4>2. tasks[t].path \in Dirs
        BY <1>1, TaskFields
      <4> QED BY <4>1, <4>2 DEF Call, CallType
    <3>2. tasks'[t].step = "list" /\ tasks'[t].path = tasks[t].path /\ t \in DOMAIN tasks'
      BY <1>1, <2>2 DEF Moves, Tasks
    <3> HIDE DEF c
    <3>3. FitsIn(c, tasks')
      BY <3>1, <3>2 DEF FitsIn
    <3>4. CallsIn(Append(cs, c), tasks')
      <4> HIDE DEF CallType
      <4> QED BY <1>3, <1>4, <1>5, <3>1, <3>3, OneMoreCall
    <3> QED BY <1>1, <2>2, <3>4 DEF c
  <2> QED BY <2>1, <2>2
<1>7. \A u \in Tasks' : TodoFits(tasks'[u])
  <2>1. tasks[t].kind \in Things \cup {"samples"} /\ Tasks' = Tasks
    BY <1>1, TaskFields DEF Moves, Tasks
  <2>2. step = "fetch" => tasks[t].kind \in {"upload", "samples"}
    BY <1>1, <2>1 DEF Op, Things
  <2> QED BY <1>1, <2>1, <2>2 DEF Moves, CallsFit, TodoFits
<1> QED BY <1>1, <1>6, <1>7 DEF CallsFit

LEMMA LineFits ==
  ASSUME TypeOK, CallsFit, NEW t, Line(t)
  PROVE  CallsFit'
<1>1. t \in Tasks /\ tasks[t].kind = "run" /\ tasks[t].step = "call" /\ Moves(t, "call", << >>)
      /\ calls' = calls /\ loaded' = loaded
  BY LineMoves DEF Line, object, Runs
<1>2. CallsIn(calls, tasks')
  <2>1. \A u \in DOMAIN tasks : /\ tasks'[u].step = tasks[u].step /\ tasks'[u].kind = tasks[u].kind
                                /\ tasks'[u].path = tasks[u].path
    BY <1>1 DEF Moves, Tasks
  <2>2. DOMAIN tasks \subseteq DOMAIN tasks'
    BY <1>1 DEF Moves
  <2> QED BY <2>1, <2>2, StillFits DEF CallsFit
<1>3. \A u \in Tasks' : TodoFits(tasks'[u])
  BY <1>1 DEF Moves, CallsFit, TodoFits, Tasks
<1> QED BY <1>1, <1>2, <1>3 DEF CallsFit

LEMMA FetchFits ==
  ASSUME TypeOK, CallsFit, Bounded, NEW t \in Tasks, Fetched(t)
  PROVE  CallsFit'
<1>1. tasks[t].step = "fetch" /\ loaded' = loaded /\ tasks[t].kind \in {"upload", "samples"}
  BY DEF Fetched, CallsFit, TodoFits
<1>2. \A i \in DOMAIN calls : calls[i].task # t
  BY <1>1 DEF CallsFit, CallsIn, FitsIn
<1>3. ASSUME NEW step \in {"call", "rejected"}, NEW todo, Moves(t, step, todo)
      PROVE  CallsIn(calls, tasks') /\ \A u \in Tasks' : TodoFits(tasks'[u])
  <2>1. \A u \in DOMAIN tasks \ {t} :
          /\ tasks'[u].step = tasks[u].step /\ tasks'[u].kind = tasks[u].kind
          /\ tasks'[u].path = tasks[u].path
    BY <1>3 DEF Moves, Tasks
  <2>2. DOMAIN tasks \subseteq DOMAIN tasks'
    BY <1>3 DEF Moves
  <2>3. CallsIn(calls, tasks')
    BY <1>2, <2>1, <2>2, StillFits DEF CallsFit
  <2>4. \A u \in Tasks' : TodoFits(tasks'[u])
    BY <1>1, <1>3 DEF Moves, CallsFit, TodoFits, Tasks
  <2> QED BY <2>3, <2>4
<1>4. CASE Writes(t)
  <2>1. PICK dir \in Dirs, name \in Names : calls' = Append(calls, Call(t, "write", dir, name))
    BY <1>4 DEF Writes
  <2> DEFINE c == Call(t, "write", dir, name)
  <2>2. loaded /\ Moves(t, "call", Tail(tasks[t].todo))
    BY <1>4 DEF Writes
  <2>3. c.task = t /\ c.op = "write" /\ c.name # None
    BY DEF Call, Names, None
  <2>4. tasks'[t].step = "call" /\ tasks'[t].kind = tasks[t].kind /\ t \in DOMAIN tasks'
    BY <2>2 DEF Moves, Tasks
  <2> HIDE DEF c
  <2>5. FitsIn(c, tasks')
    BY <1>1, <2>3, <2>4 DEF FitsIn, Op
  <2>6. calls \in Seq(CallType)
    BY DEF TypeOK
  <2>7. CallsIn(calls, tasks') /\ \A u \in Tasks' : TodoFits(tasks'[u])
    BY <1>3, <2>2
  <2>8. c \in CallType
    BY CallMade DEF c
  <2>9. CallsIn(Append(calls, c), tasks')
    <3> HIDE DEF CallType
    <3> QED BY <1>2, <2>3, <2>5, <2>6, <2>7, <2>8, OneMoreCall
  <2> QED BY <1>1, <2>1, <2>2, <2>7, <2>9 DEF CallsFit, c
<1>5. CASE ~Writes(t)
  <2>1. Moves(t, "rejected", tasks[t].todo) /\ UNCHANGED calls
    BY <1>5, FetchMoves
  <2>2. CallsIn(calls, tasks') /\ \A u \in Tasks' : TodoFits(tasks'[u])
    BY <1>3, <2>1
  <2> QED BY <1>1, <2>1, <2>2 DEF CallsFit
<1> QED BY <1>4, <1>5

LEMMA BeginsFits ==
  ASSUME TypeOK, CallsFit, NEW k, Begins(k)
  PROVE  CallsFit'
<1> DEFINE t == Len(tasks) + 1
<1>1. /\ DOMAIN tasks' = DOMAIN tasks \cup {t} /\ t \notin DOMAIN tasks
      /\ \A u \in Tasks : tasks'[u] = tasks[u]
      /\ tasks'[t] = k /\ loaded' = loaded
  BY DEF Begins, Adds
<1>2. TodoFits(k)
  BY DEF Begins, TodoFits
<1>3. \A u \in Tasks' : TodoFits(tasks'[u])
  BY <1>1, <1>2 DEF CallsFit, Tasks
<1>4. CallsIn(calls, tasks') /\ \A i \in DOMAIN calls : calls[i].task # t
  <2>1. CallsIn(calls, tasks')
    BY <1>1, StillFits DEF CallsFit, Tasks
  <2> QED BY <1>1, <2>1 DEF CallsFit, CallsIn, FitsIn
<1>5. CASE UNCHANGED calls
  BY <1>1, <1>3, <1>4, <1>5 DEF CallsFit
<1>6. CASE ~UNCHANGED calls
  <2>1. PICK c \in CallType :
          /\ c.task = t /\ c.op = (IF k.step = "list" THEN "list" ELSE Op(k.kind)) /\ c.op # "write"
          /\ c.op = "list" => c.dir = k.path
          /\ calls' = Append(calls, c)
    BY <1>6 DEF Begins
  <2>2. k.step \in {"call", "list"} /\ loaded
    BY <1>6 DEF Begins
  <2> HIDE DEF CallType, t
  <2>3. FitsIn(c, tasks')
    BY <1>1, <2>1, <2>2 DEF FitsIn
  <2>4. calls \in Seq(CallType)
    BY DEF TypeOK
  <2>5. CallsIn(calls', tasks')
    BY <1>4, <2>1, <2>3, <2>4, OneMoreCall
  <2> QED BY <1>1, <1>3, <2>2, <2>5 DEF CallsFit
<1> QED BY <1>5, <1>6

LEMMA RejectedFits ==
  ASSUME TypeOK, CallsFit, RejectAll, UNCHANGED mount
  PROVE  CallsFit'
<1>1. calls' = << >> /\ CallsIn(<< >>, tasks')
  BY DEF RejectAll, CallsIn
<1>2. \A u \in Tasks' : TodoFits(tasks'[u])
  BY RejectedTasks DEF CallsFit, TodoFits, Tasks
<1> QED BY <1>1, <1>2 DEF CallsFit

LEMMA LoadingFits ==
  ASSUME TypeOK, CallsFit, NEW l \in Loads, Loading(l)
  PROVE  CallsFit'
<1>1. CASE GotJS(l) \/ LoadFails(l)
  BY <1>1 DEF GotJS, LoadFails, object, CallsFit, Tasks
<1>2. CASE GotWasm(l)
  BY <1>2, RejectedFits DEF GotWasm
<1>3. CASE Loaded(l)
  <2>1. loaded' = TRUE /\ calls' = calls
    BY <1>3 DEF Loaded
  <2>2. CASE UNCHANGED tasks
    BY <2>1, <2>2 DEF CallsFit, Tasks
  <2>3. CASE Adds(Samples(mount + 1, 0))
    <3> DEFINE k == Samples(mount + 1, 0)
    <3>1. k.step = "fetch" /\ k.kind = "samples" /\ k.todo = <<"sample">>
      BY DEF Samples, Task
    <3> HIDE DEF k
    <3>2. TodoFits(k)
      BY <3>1 DEF TodoFits
    <3>3. /\ DOMAIN tasks \subseteq DOMAIN tasks' /\ \A u \in Tasks : tasks'[u] = tasks[u]
          /\ \A u \in DOMAIN tasks' : u \in Tasks \/ tasks'[u] = k
      BY <2>3 DEF Adds, k, Tasks
    <3>4. CallsIn(calls, tasks')
      BY <3>3, StillFits DEF CallsFit, Tasks
    <3>5. \A u \in Tasks' : TodoFits(tasks'[u])
      BY <3>2, <3>3 DEF CallsFit, Tasks
    <3> QED BY <2>1, <3>4, <3>5 DEF CallsFit
  <2> QED BY <1>3, <2>2, <2>3, LoadedTasks
<1> QED BY <1>1, <1>2, <1>3 DEF Loading

LEMMA CallsStep == ASSUME IInv, [Next]_vars PROVE CallsFit'
<1>1. TypeOK /\ CallsFit /\ Bounded
  BY DEF IInv
<1>2. ASSUME NEW t \in Tasks, Answer(t) PROVE CallsFit'
  <2>1. CASE RunTraps(t)
    BY <1>1, <2>1, RejectedFits DEF RunTraps, page
  <2> QED BY <1>1, <1>2, <2>1, AnswerForms, LineFits, AnsweredFits
<1>3. CASE SwitchCore \/ Dialogs \/ UNCHANGED vars
  BY <1>1, <1>3 DEF SwitchCore, Dialogs, vars, object, CallsFit, Tasks
<1> QED
  BY <1>1, <1>2, <1>3, FetchFits, BeginsFits, LoadingFits, UserSteps DEF Next, Works

-----------------------------------------------------------------------------
(* The list.                                                                *)

\* The handlers of this mount are done, in the directories there are.
WellDone == \A u \in Tasks : tasks[u].mount = mount => tasks[u].step = "done" /\ Exists(tasks[u].path)

\* A step after which they are not, or which leaves alone all that Fresh speaks of.
LEMMA FreshMoves ==
  ASSUME TypeOK, Fresh, NEW t \in Tasks, NEW step, NEW todo, Moves(t, step, todo),
         step # "done" \/ ~Exists(tasks[t].path), UNCHANGED <<state, mount, loaded, shown>>,
         UNCHANGED <<files, changer>> \/ changer' = tasks[t].mount
  PROVE  Fresh'
<1>1. SUFFICES ASSUME changer' = mount, state = "LOADED", loaded, WellDone'
               PROVE  shown.names = Files(shown.dir)'
  BY DEF Fresh, WellDone
<1>2. tasks[t].mount # mount
  BY <1>1 DEF WellDone, Moves, Tasks
<1>3. UNCHANGED <<files, changer>>
  BY <1>1, <1>2
<1>4. WellDone
  BY <1>1, <1>2 DEF WellDone, Moves, Tasks
<1> QED BY <1>1, <1>3, <1>4 DEF Fresh, Files, WellDone

LEMMA ListFresh ==
  ASSUME TypeOK, CallsFit, Fresh, NEW t, AnswerList(t)
  PROVE  Fresh'
<1>1. /\ UNCHANGED <<state, mount, loaded, files, changer>>
      /\ shown' = IF Mounted(t) THEN [dir |-> Head(calls).dir, names |-> Listing(Head(calls).dir)] ELSE shown
  BY DEF AnswerList, page
<1>2. t \in Tasks /\ Moves(t, "done", tasks[t].todo)
  BY ListAnswered DEF Answered
<1>3. CASE Mounted(t)
  BY <1>1, <1>3 DEF Fresh, Listing, Files
<1>4. CASE ~Mounted(t)
  <2>1. SUFFICES ASSUME changer = mount, state = "LOADED", loaded, WellDone'
                 PROVE  shown.names = Files(shown.dir)
    BY <1>1, <1>4 DEF Fresh, Files, WellDone
  <2>2. WellDone
    BY <1>1, <1>2, <1>4, <2>1 DEF WellDone, Moves, Tasks, Mounted
  <2> QED BY <2>1, <2>2 DEF Fresh, WellDone
<1> QED BY <1>3, <1>4

LEMMA AnswerFresh ==
  ASSUME TypeOK, CallsFit, Fresh, NEW t, Answer(t)
  PROVE  Fresh'
<1>1. ASSUME NEW step, Answered(t, step), step # "done" \/ ~Exists(tasks[t].path), UNCHANGED shown,
             UNCHANGED <<files, changer>> \/ changer' = tasks[t].mount
      PROVE  Fresh'
  <2>1. t \in Tasks /\ Moves(t, step, tasks[t].todo) /\ UNCHANGED <<state, mount, loaded>>
    BY <1>1 DEF Answered, page
  <2> QED BY <1>1, <2>1, FreshMoves
<1>2. CASE AnswerWrite(t)
  BY <1>1, <1>2, WriteAnswered DEF AnswerWrite
<1>3. CASE AnswerWriteMore(t)
  BY <1>1, <1>3, WriteMoreAnswered DEF AnswerWriteMore
<1>4. CASE AnswerChange(t)
  BY <1>1, <1>4, ChangeAnswered DEF AnswerChange
<1>5. CASE AnswerRun(t)
  <2>1. UNCHANGED shown /\ (UNCHANGED <<files, changer>> \/ changer' = tasks[t].mount)
    BY <1>5 DEF AnswerRun
  <2> QED BY <1>1, <1>5, <2>1, RunAnswered
<1>6. CASE RunTraps(t)
  BY <1>6 DEF RunTraps, RejectAll, Fresh
<1>7. CASE Line(t)
  <2>1. t \in Tasks /\ Moves(t, "call", << >>)
    BY <1>7, LineMoves DEF Runs
  <2>2. UNCHANGED <<state, mount, loaded, shown, files, changer>>
    BY <1>7 DEF Line, page, object
  <2> QED BY <2>1, <2>2, FreshMoves
<1>8. CASE AnswerMissing(t)
  BY <1>1, <1>8, MissingAnswered DEF AnswerMissing
<1> QED BY <1>2, <1>3, <1>4, <1>5, <1>6, <1>7, <1>8, ListFresh DEF Answer

LEMMA FreshStep == ASSUME IInv, [Next]_vars PROVE Fresh'
<1>1. TypeOK /\ CallsFit /\ Fresh
  BY DEF IInv
<1>2. ASSUME NEW t \in Tasks, Fetched(t) PROVE Fresh'
  <2>1. UNCHANGED <<state, mount, loaded, shown, files, changer>>
    BY <1>2 DEF Fetched, page
  <2>2. \/ Moves(t, "call", Tail(tasks[t].todo)) \/ Moves(t, "rejected", tasks[t].todo)
    BY <1>1, <1>2, FetchMoves DEF Writes
  <2> QED BY <1>1, <2>1, <2>2, FreshMoves
<1>3. ASSUME NEW k, Begins(k) PROVE Fresh'
  <2>1. /\ UNCHANGED <<state, mount, loaded, shown, files, changer>> /\ k.mount = mount
        /\ k.step = "done" => ~loaded
        /\ Tasks' = Tasks \cup {Len(tasks) + 1} /\ tasks'[Len(tasks) + 1] = k
    BY <1>3 DEF Begins, Adds, page, Tasks
  <2> QED BY <2>1 DEF Fresh
<1>4. ASSUME NEW l \in Loads, Loading(l) PROVE Fresh'
  <2>1. CASE GotJS(l) \/ LoadFails(l)
    BY <1>1, <2>1 DEF GotJS, LoadFails, object, view, Fresh, Files, Tasks
  <2>2. CASE GotWasm(l)
    BY <2>2 DEF GotWasm, RejectAll, Fresh
  <2>3. CASE Loaded(l)
    <3>1. changer' = 0 /\ mount' \in {mount, mount + 1} /\ mount \in Nat \ {0}
      <4>1. mount \in Nat \ {0}
        BY <1>1 DEF TypeOK
      <4> QED BY <1>1, <2>3, <4>1, LoadedTasks DEF Loaded
    <3> QED BY <3>1 DEF Fresh
  <2> QED BY <1>4, <2>1, <2>2, <2>3 DEF Loading
<1>5. CASE SwitchCore
  BY <1>5 DEF SwitchCore, Fresh
<1>6. CASE Dialogs \/ UNCHANGED vars
  BY <1>1, <1>6 DEF Dialogs, vars, page, object, view, Fresh, Files, Tasks
<1> QED
  BY <1>1, <1>2, <1>3, <1>4, <1>5, <1>6, AnswerFresh, UserSteps DEF Next, Works

-----------------------------------------------------------------------------
(* What a step does to the log.                                             *)

SameHandlers ==
  /\ DOMAIN tasks' = DOMAIN tasks
  /\ \A u \in Tasks : tasks'[u].kind = tasks[u].kind /\ tasks'[u].mount = tasks[u].mount

\* Nothing is logged: runs go on after their list, or are rejected.
Silent ==
  /\ SameHandlers /\ UNCHANGED <<mount, logs, listeners>> /\ state' \in {state, "LOADING"}
  /\ \A u \in Runs :
       /\ tasks'[u].todo = tasks[u].todo
       /\ \/ tasks'[u].step = tasks[u].step
          \/ tasks[u].step = "list" /\ tasks'[u].step = "done"
          \/ tasks[u].step = "call" /\ tasks'[u].step = "rejected"

\* Run t logs a line, which is heard by those who listen.
Logs(t) ==
  /\ t \in Runs /\ tasks[t].step = "call" /\ tasks[t].todo = <<"output">> /\ Moves(t, "call", << >>)
  /\ LogGrows(t, "line", Cardinality(Heard)) /\ UNCHANGED <<state, mount, listeners>>

\* Run t comes to its exit code.
Ends(t) ==
  /\ t \in Runs /\ tasks[t].step = "call" /\ tasks[t].todo = << >> /\ Moves(t, "list", << >>)
  /\ IF Mounted(t) THEN LogGrows(t, "exit", 1) ELSE UNCHANGED logs
  /\ listeners' = listeners \ {t} /\ UNCHANGED <<state, mount>>

\* A workspace is mounted with an empty log.
Mounts ==
  /\ mount' = mount + 1 /\ logs' = << >> /\ UNCHANGED listeners
  /\ \E k : Adds(k) /\ k.kind = "samples"

LEMMA AnswerLogs ==
  ASSUME TypeOK, CallsFit, NEW t, Answer(t)
  PROVE  Silent \/ Logs(t) \/ Ends(t)
<1>1. ASSUME NEW step, Answered(t, step), UNCHANGED <<logs, listeners>>,
             t \in Runs => step \in {"done", "rejected"}
      PROVE  Silent
  <2>1. /\ t \in Tasks /\ Moves(t, step, tasks[t].todo) /\ UNCHANGED <<state, mount>>
        /\ IF step = "done" THEN tasks[t].step = "list" ELSE tasks[t].step = "call"
    BY <1>1 DEF Answered, page
  <2> QED BY <1>1, <2>1 DEF Silent, SameHandlers, Moves, Runs
<1>2. ASSUME NEW step, Answered(t, step), step # "done", Head(calls).op \in {"write", "delete", "rename"}
      PROVE  t \notin Runs
  BY <1>2 DEF Answered, Runs, Op
<1>3. CASE AnswerWrite(t)
  <2>1. Head(calls).op = "write" /\ UNCHANGED <<logs, listeners>> /\ Answered(t, "list")
    BY <1>3, WriteAnswered DEF AnswerWrite, Serve
  <2> QED BY <1>1, <1>2, <2>1
<1>4. CASE AnswerWriteMore(t)
  <2>1. Head(calls).op = "write" /\ UNCHANGED <<logs, listeners>> /\ Answered(t, "fetch")
    BY <1>4, WriteMoreAnswered DEF AnswerWriteMore, Serve
  <2> QED BY <1>1, <1>2, <2>1
<1>5. CASE AnswerChange(t)
  <2>1. Head(calls).op \in {"delete", "rename"} /\ UNCHANGED <<logs, listeners>>
    BY <1>5 DEF AnswerChange, Serve
  <2>2. \E step \in {"list", "rejected"} : Answered(t, step)
    BY <1>5, ChangeAnswered
  <2> QED BY <1>1, <1>2, <2>1, <2>2
<1>6. CASE AnswerList(t)
  BY <1>1, <1>6, ListAnswered DEF AnswerList
<1>7. CASE RunTraps(t)
  BY <1>7, RejectedTasks DEF RunTraps, page, Silent, SameHandlers, Runs
<1>8. CASE Line(t)
  <2>1. UNCHANGED <<state, mount, listeners>> /\ t \in Tasks
    BY <1>8, LineMoves DEF Line, page, Runs
  <2> QED BY <1>8, <2>1, LineMoves, LineGrows DEF Logs
<1>9. CASE AnswerRun(t)
  <2>1. /\ t \in Tasks /\ tasks[t].step = "call" /\ Moves(t, "list", tasks[t].todo)
        /\ Op(tasks[t].kind) = "run" /\ UNCHANGED <<state, mount>>
    BY <1>9, RunAnswered DEF Answered, AnswerRun, Serve, page
  <2>2. t \in Runs /\ tasks[t].todo = << >> /\ listeners' = listeners \ {t}
    BY <1>9, <2>1 DEF AnswerRun, Unlistens, Runs, Op
  <2> QED BY <1>9, <2>1, <2>2, ExitGrows DEF Ends
<1>10. CASE AnswerMissing(t)
  BY <1>1, <1>10, MissingAnswered DEF AnswerMissing
<1> QED BY <1>3, <1>4, <1>5, <1>6, <1>7, <1>8, <1>9, <1>10 DEF Answer

LEMMA LogForms ==
  ASSUME IInv, [Next]_vars
  PROVE  Silent \/ (\E t : Logs(t) \/ Ends(t)) \/ (\E k : Begins(k)) \/ Mounts
<1>1. TypeOK /\ CallsFit
  BY DEF IInv
<1>2. ASSUME UNCHANGED <<tasks, mount, logs, listeners>>, state' \in {state, "LOADING"} PROVE Silent
  BY <1>2 DEF Silent, SameHandlers, Runs
<1>3. ASSUME NEW t \in Tasks, Fetched(t) PROVE Silent
  <2>1. UNCHANGED <<state, mount, logs, listeners>> /\ t \notin Runs
    BY <1>1, <1>3 DEF Fetched, page, CallsFit, TodoFits, Runs
  <2>2. \E step, todo : Moves(t, step, todo)
    BY <1>1, <1>3, FetchMoves DEF Writes
  <2> QED BY <2>1, <2>2 DEF Silent, SameHandlers, Moves, Runs
<1>4. ASSUME NEW l \in Loads, Loading(l) PROVE Silent \/ Mounts
  <2>1. CASE GotJS(l) \/ LoadFails(l)
    BY <1>2, <2>1 DEF GotJS, LoadFails, view
  <2>2. CASE GotWasm(l)
    <3>1. UNCHANGED <<state, mount, logs, listeners>>
      BY <2>2 DEF GotWasm
    <3> QED BY <1>1, <2>2, <3>1, RejectedTasks DEF GotWasm, Silent, SameHandlers, Runs
  <2>3. CASE Loaded(l)
    <3>1. UNCHANGED listeners /\ state' = "LOADED"
      BY <2>3 DEF Loaded, Shows
    <3>2. CASE state = "LOADED" /\ UNCHANGED <<mount, view, tasks>>
      BY <1>2, <3>1, <3>2 DEF view
    <3> QED BY <1>1, <2>3, <3>1, <3>2, LoadedTasks DEF Mounts
  <2> QED BY <1>4, <2>1, <2>2, <2>3 DEF Loading
<1>5. CASE SwitchCore
  BY <1>2, <1>5 DEF SwitchCore, view
<1>6. CASE Dialogs \/ UNCHANGED vars
  BY <1>2, <1>6 DEF Dialogs, vars, page, view
<1> QED
  BY <1>1, <1>3, <1>4, <1>5, <1>6, AnswerLogs, UserSteps DEF Next, Works

\* The lines there are stay, and what comes is a line or the exit code of t.
LEMMA GrownLog ==
  ASSUME NEW t, NEW what, NEW n, LogGrows(t, what, n)
  PROVE  /\ DOMAIN logs \subseteq DOMAIN logs' /\ DOMAIN logs \subseteq Nat /\ DOMAIN logs' \subseteq Nat
         /\ \A i \in DOMAIN logs : logs'[i] = logs[i]
         /\ \A i \in DOMAIN logs' \ DOMAIN logs :
              logs'[i] = [run |-> t, what |-> what] /\ \A k \in DOMAIN logs : k < i
BY DEF LogGrows

LEMMA SameMoves ==
  ASSUME NEW t, NEW step, NEW todo, Moves(t, step, todo)
  PROVE  SameHandlers /\ Tasks' = Tasks /\ Runs' = Runs
BY DEF Moves, SameHandlers, Tasks, Runs

LEMMA LogsFitStep == ASSUME IInv, [Next]_vars PROVE LogsFit'
<1>1. TypeOK /\ LogsFit /\ logs \in Seq(LogType)
  BY DEF IInv, TypeOK, LogType
<1>2. CASE Silent
  <2>1. Runs' = Runs /\ Tasks' = Tasks
    BY <1>2 DEF Silent, SameHandlers, Runs, Tasks
  <2>2. \A u \in Runs : Mounted(u)' => Mounted(u)
    BY <1>2 DEF Silent, SameHandlers, Mounted, Runs
  <2>3. \A u : Exited(u)' <=> Exited(u)
    BY <1>2 DEF Silent, Exited, At
  <2> QED BY <1>1, <1>2, <2>1, <2>2, <2>3 DEF LogsFit, Silent, At
<1>3. ASSUME NEW t, Logs(t) PROVE LogsFit'
  <2> DEFINE n == Cardinality(Heard)
  <2>1. /\ t \in Runs /\ tasks[t].step = "call" /\ Moves(t, "call", << >>)
        /\ UNCHANGED <<state, mount, listeners>> /\ LogGrows(t, "line", n)
    BY <1>3 DEF Logs
  <2>2. Runs' = Runs /\ Tasks' = Tasks /\ \A u \in Tasks : Mounted(u)' <=> Mounted(u)
    <3>1. SameHandlers /\ Tasks' = Tasks /\ Runs' = Runs
      BY <2>1, SameMoves
    <3> QED BY <2>1, <3>1 DEF SameHandlers, Mounted
  <2>3. /\ DOMAIN logs \subseteq DOMAIN logs' /\ \A i \in DOMAIN logs : logs'[i] = logs[i]
        /\ \A i \in DOMAIN logs' \ DOMAIN logs : logs'[i] = [run |-> t, what |-> "line"]
    BY <2>1, GrownLog
  <2>4. \A u \in Tasks : Exited(u)' <=> Exited(u)
    BY <2>3 DEF Exited, At
  <2>5. Mounted(t) => t \in listeners /\ \E i \in DOMAIN logs' : logs'[i] = [run |-> t, what |-> "line"]
    <3>1. SUFFICES ASSUME Mounted(t) PROVE t \in listeners /\ n # 0
      BY <2>1 DEF LogGrows
    <3>2. t \in Heard
      BY <1>1, <2>1, <3>1 DEF LogsFit, Heard
    <3> QED BY <1>1, <3>2, HeardCounted, FS_EmptySet DEF Heard
  <2> HIDE DEF n
  <2>6. \A u \in listeners' : u \in Runs' /\ ~Exited(u)'
    BY <1>1, <2>1, <2>2, <2>4 DEF LogsFit, Runs
  <2>7. \A u \in Runs' : Mounted(u)' /\ tasks'[u].step = "call" =>
          /\ u \in listeners'
          /\ tasks'[u].todo = << >> => \E i \in DOMAIN logs' : At(i, u, "line")'
    <3>1. ASSUME NEW u \in Runs, u # t, Mounted(u), tasks'[u].step = "call"
          PROVE  /\ u \in listeners
                 /\ tasks'[u].todo = << >> => \E i \in DOMAIN logs' : logs'[i] = [run |-> u, what |-> "line"]
      BY <1>1, <2>1, <2>3, <3>1 DEF LogsFit, Moves, Runs, At
    <3> QED BY <2>1, <2>2, <2>5, <3>1 DEF At, Runs
  <2>8. \A k \in DOMAIN logs' :
          /\ logs'[k].run \in Runs'
          /\ logs'[k].what = "line" => tasks'[logs'[k].run].todo = << >>
          /\ logs'[k].what = "exit" => tasks'[logs'[k].run].step \in {"list", "done"}
    <3>1. ASSUME NEW k \in DOMAIN logs
          PROVE  /\ logs'[k].run \in Runs'
                 /\ logs'[k].what = "line" => tasks'[logs'[k].run].todo = << >>
                 /\ logs'[k].what = "exit" => tasks'[logs'[k].run].step \in {"list", "done"}
      BY <1>1, <2>1, <2>2, <2>3 DEF LogsFit, Moves, Runs
    <3>2. ASSUME NEW k \in DOMAIN logs' \ DOMAIN logs
          PROVE  /\ logs'[k].run \in Runs'
                 /\ tasks'[logs'[k].run].todo = << >> /\ logs'[k].what = "line"
      BY <2>1, <2>2, <2>3 DEF Moves, Runs
    <3> QED BY <3>1, <3>2
  <2> QED BY <2>6, <2>7, <2>8 DEF LogsFit
<1>4. ASSUME NEW t, Ends(t) PROVE LogsFit'
  <2>1. /\ t \in Runs /\ tasks[t].step = "call" /\ Moves(t, "list", << >>)
        /\ UNCHANGED <<state, mount>> /\ listeners' = listeners \ {t}
    BY <1>4 DEF Ends
  <2>2. Runs' = Runs /\ Tasks' = Tasks /\ \A u \in Tasks : Mounted(u)' <=> Mounted(u)
    <3>1. SameHandlers /\ Tasks' = Tasks /\ Runs' = Runs
      BY <2>1, SameMoves
    <3> QED BY <2>1, <3>1 DEF SameHandlers, Mounted
  <2>3. /\ DOMAIN logs \subseteq DOMAIN logs' /\ \A i \in DOMAIN logs : logs'[i] = logs[i]
        /\ \A i \in DOMAIN logs' \ DOMAIN logs : logs'[i] = [run |-> t, what |-> "exit"]
    BY <1>4, GrownLog DEF Ends
  <2>4. \A u \in Tasks \ {t} : Exited(u)' <=> Exited(u)
    BY <2>3 DEF Exited, At
  <2>5. \A u \in listeners' : u \in Runs' /\ ~Exited(u)'
    BY <1>1, <2>1, <2>2, <2>4 DEF LogsFit, Runs
  <2>6. \A u \in Runs' : Mounted(u)' /\ tasks'[u].step = "call" =>
          /\ u \in listeners'
          /\ tasks'[u].todo = << >> => \E i \in DOMAIN logs' : At(i, u, "line")'
    <3>1. ASSUME NEW u \in Runs, u # t, Mounted(u), tasks'[u].step = "call"
          PROVE  /\ u \in listeners
                 /\ tasks'[u].todo = << >> => \E i \in DOMAIN logs' : logs'[i] = [run |-> u, what |-> "line"]
      BY <1>1, <2>1, <2>3, <3>1 DEF LogsFit, Moves, Runs, At
    <3>2. tasks'[t].step = "list"
      BY <2>1 DEF Moves, Runs
    <3> QED BY <2>1, <2>2, <3>1, <3>2 DEF At, Runs
  <2>7. \A k \in DOMAIN logs' :
          /\ logs'[k].run \in Runs'
          /\ logs'[k].what = "line" => tasks'[logs'[k].run].todo = << >>
          /\ logs'[k].what = "exit" => tasks'[logs'[k].run].step \in {"list", "done"}
    <3>1. ASSUME NEW k \in DOMAIN logs
          PROVE  /\ logs'[k].run \in Runs'
                 /\ logs'[k].what = "line" => tasks'[logs'[k].run].todo = << >>
                 /\ logs'[k].what = "exit" => tasks'[logs'[k].run].step \in {"list", "done"}
      BY <1>1, <2>1, <2>2, <2>3 DEF LogsFit, Moves, Runs
    <3>2. ASSUME NEW k \in DOMAIN logs' \ DOMAIN logs
          PROVE  /\ logs'[k].run \in Runs' /\ logs'[k].what = "exit"
                 /\ tasks'[logs'[k].run].step = "list"
      BY <2>1, <2>2, <2>3 DEF Moves, Runs
    <3> QED BY <3>1, <3>2
  <2> QED BY <2>5, <2>6, <2>7 DEF LogsFit
<1>5. ASSUME NEW k, Begins(k) PROVE LogsFit'
  <2> DEFINE t == Len(tasks) + 1
  <2>1. /\ DOMAIN tasks' = DOMAIN tasks \cup {t} /\ t \notin DOMAIN tasks
        /\ \A u \in Tasks : tasks'[u] = tasks[u]
        /\ tasks'[t] = k /\ UNCHANGED <<state, mount, logs>>
        /\ k.kind = "run" => k.todo = <<"output">>
        /\ listeners' = IF k.kind = "run" THEN listeners \cup {t} ELSE listeners
    BY <1>5 DEF Begins, Adds, page
  <2> HIDE DEF t
  <2>2. Runs' = Runs \cup (IF k.kind = "run" THEN {t} ELSE {})
    BY <2>1 DEF Runs, Tasks
  <2>3. \A u \in Tasks : (Mounted(u)' <=> Mounted(u))
    BY <2>1 DEF Mounted
  <2>4. \A u : Exited(u)' <=> Exited(u)
    BY <2>1 DEF Exited, At
  <2>5. ~Exited(t)
    BY <1>1, <2>1 DEF LogsFit, Exited, At, Runs, Tasks
  <2>6. \A u \in listeners' : u \in Runs' /\ ~Exited(u)'
    BY <1>1, <2>1, <2>2, <2>4, <2>5 DEF LogsFit
  <2>7. \A u \in Runs' : Mounted(u)' /\ tasks'[u].step = "call" =>
          /\ u \in listeners'
          /\ tasks'[u].todo = << >> => \E i \in DOMAIN logs' : At(i, u, "line")'
    <3>1. ASSUME NEW u \in Runs, Mounted(u), tasks'[u].step = "call"
          PROVE  /\ u \in listeners'
                 /\ tasks'[u].todo = << >> => \E i \in DOMAIN logs' : At(i, u, "line")'
      BY <1>1, <2>1, <3>1 DEF LogsFit, Runs, At
    <3> QED BY <2>1, <2>2, <2>3, <3>1 DEF Runs
  <2>8. \A i \in DOMAIN logs' :
          /\ logs'[i].run \in Runs'
          /\ logs'[i].what = "line" => tasks'[logs'[i].run].todo = << >>
          /\ logs'[i].what = "exit" => tasks'[logs'[i].run].step \in {"list", "done"}
    BY <1>1, <2>1, <2>2 DEF LogsFit, Runs
  <2> QED BY <2>6, <2>7, <2>8 DEF LogsFit
<1>6. CASE Mounts
  <2>1. PICK k : Adds(k) /\ k.kind = "samples"
    BY <1>6 DEF Mounts
  <2>2. /\ mount' = mount + 1 /\ logs' = << >> /\ listeners' = listeners /\ DOMAIN << >> = {}
        /\ mount \in Nat /\ \A u \in Tasks : tasks[u].mount \in 1 .. mount
    BY <1>1, <1>6, TaskFields DEF Mounts, TypeOK
  <2>3. Runs' = Runs /\ \A u \in Runs : tasks'[u] = tasks[u]
    BY <2>1 DEF Adds, Runs, Tasks
  <2>4. \A u \in Runs : ~Mounted(u)'
    BY <2>2, <2>3 DEF Mounted, Runs
  <2>5. \A u : ~Exited(u)'
    BY <2>2 DEF Exited
  <2> QED BY <1>1, <2>2, <2>3, <2>4, <2>5 DEF LogsFit
<1> QED BY <1>2, <1>3, <1>4, <1>5, <1>6, LogForms

LEMMA LogsTellStep == ASSUME IInv, [Next]_vars PROVE LogsTell'
<1>1. TypeOK /\ LogsFit /\ LogsTell
  BY DEF IInv
<1>2. ASSUME NEW u \in Runs, Mounted(u), tasks[u].step \in {"list", "done"},
             NEW t, NEW what, NEW n, LogGrows(t, what, n), what = "exit" => t # u
      PROVE  \E i, j \in DOMAIN logs' :
               /\ i < j /\ At(i, u, "line")' /\ At(j, u, "exit")'
               /\ \A k \in DOMAIN logs' : At(k, u, "exit")' => k = j
  <2>1. PICK i, j \in DOMAIN logs :
          /\ i < j /\ logs[i] = [run |-> u, what |-> "line"] /\ logs[j] = [run |-> u, what |-> "exit"]
          /\ \A k \in DOMAIN logs : logs[k] = [run |-> u, what |-> "exit"] => k = j
    BY <1>1, <1>2 DEF LogsTell, Runs, At
  <2>2. /\ DOMAIN logs \subseteq DOMAIN logs' /\ \A k \in DOMAIN logs : logs'[k] = logs[k]
        /\ \A k \in DOMAIN logs' \ DOMAIN logs : logs'[k] = [run |-> t, what |-> what]
    BY <1>2, GrownLog
  <2>3. [run |-> t, what |-> what] # [run |-> u, what |-> "exit"]
    <3>1. what # "exit" \/ t # u
      BY <1>2
    <3>2. /\ [run |-> t, what |-> what].run = t /\ [run |-> t, what |-> what].what = what
          /\ [run |-> u, what |-> "exit"].run = u /\ [run |-> u, what |-> "exit"].what = "exit"
      OBVIOUS
    <3> QED BY <3>1, <3>2
  <2>4. \A k \in DOMAIN logs' : logs'[k] = [run |-> u, what |-> "exit"] => k = j
    BY <2>1, <2>2, <2>3
  <2> QED BY <2>1, <2>2, <2>4 DEF At
<1>3. CASE Silent
  <2>1. Tasks' = Tasks /\ \A u \in Tasks : tasks'[u].kind = tasks[u].kind /\ (Mounted(u)' => Mounted(u))
    BY <1>3 DEF Silent, SameHandlers, Tasks, Mounted
  <2>2. \A u \in Runs : tasks'[u].step \in {"list", "done"} => tasks[u].step \in {"list", "done"}
    BY <1>3 DEF Silent
  <2>3. \A u \in Tasks : tasks'[u].kind = "run" => u \in Runs
    BY <2>1 DEF Runs
  <2>4. logs' = logs
    BY <1>3 DEF Silent
  <2> QED BY <1>1, <2>1, <2>2, <2>3, <2>4 DEF LogsTell, At
<1>4. ASSUME NEW t, Logs(t) PROVE LogsTell'
  <2>1. /\ t \in Runs /\ Moves(t, "call", << >>) /\ LogGrows(t, "line", Cardinality(Heard))
        /\ UNCHANGED <<state, mount>>
    BY <1>4 DEF Logs
  <2>2. SUFFICES ASSUME NEW u \in Tasks', tasks'[u].kind = "run", Mounted(u)',
                        tasks'[u].step \in {"list", "done"}
                 PROVE  \E i, j \in DOMAIN logs' :
                          /\ i < j /\ At(i, u, "line")' /\ At(j, u, "exit")'
                          /\ \A k \in DOMAIN logs' : At(k, u, "exit")' => k = j
    BY DEF LogsTell
  <2>3. u \in Runs /\ Mounted(u) /\ tasks[u].step \in {"list", "done"}
    BY <2>1, <2>2 DEF Moves, Runs, Tasks, Mounted
  <2> QED BY <1>2, <2>1, <2>3
<1>5. ASSUME NEW t, Ends(t) PROVE LogsTell'
  <2>1. /\ t \in Runs /\ Moves(t, "list", << >>) /\ UNCHANGED <<state, mount>>
        /\ tasks[t].step = "call" /\ tasks[t].todo = << >>
        /\ IF Mounted(t) THEN LogGrows(t, "exit", 1) ELSE UNCHANGED logs
    BY <1>5 DEF Ends
  <2>2. SUFFICES ASSUME NEW u \in Tasks', tasks'[u].kind = "run", Mounted(u)',
                        tasks'[u].step \in {"list", "done"}
                 PROVE  \E i, j \in DOMAIN logs' :
                          /\ i < j /\ At(i, u, "line")' /\ At(j, u, "exit")'
                          /\ \A k \in DOMAIN logs' : At(k, u, "exit")' => k = j
    BY DEF LogsTell
  <2>3. u \in Runs /\ Mounted(u) /\ (u # t => tasks[u].step \in {"list", "done"})
    BY <2>1, <2>2 DEF Moves, Runs, Tasks, Mounted
  <2>4. CASE u # t
    <3>1. CASE Mounted(t)
      BY <1>2, <2>1, <2>3, <2>4, <3>1
    <3>2. CASE ~Mounted(t)
      BY <1>1, <2>1, <2>3, <2>4, <3>2 DEF LogsTell, Runs, At
    <3> QED BY <3>1, <3>2
  <2>5. CASE u = t
    <3>1. LogGrows(t, "exit", 1)
      BY <2>1, <2>3, <2>5
    <3>2. t \in listeners /\ ~Exited(t) /\ \E i \in DOMAIN logs : At(i, t, "line")
      BY <1>1, <2>1, <2>3, <2>5 DEF LogsFit
    <3>3. PICK i \in DOMAIN logs : logs[i] = [run |-> t, what |-> "line"]
      BY <3>2 DEF At
    <3> DEFINE j == Len(logs) + 1
    <3>4. /\ j \in DOMAIN logs' /\ i \in DOMAIN logs' /\ i < j
          /\ logs'[j] = [run |-> t, what |-> "exit"] /\ logs'[i] = logs[i]
          /\ \A k \in DOMAIN logs' : k = j \/ (k \in DOMAIN logs /\ logs'[k] = logs[k])
      BY <3>1, <3>3 DEF LogGrows
    <3> HIDE DEF j
    <3>5. \A k \in DOMAIN logs' : logs'[k] = [run |-> t, what |-> "exit"] => k = j
      BY <3>2, <3>4 DEF Exited, At
    <3> QED BY <2>5, <3>3, <3>4, <3>5 DEF At
  <2> QED BY <2>4, <2>5
<1>6. ASSUME NEW k, Begins(k) PROVE LogsTell'
  <2> DEFINE t == Len(tasks) + 1
  <2>1. /\ DOMAIN tasks' = DOMAIN tasks \cup {t} /\ t \notin DOMAIN tasks
        /\ \A u \in Tasks : tasks'[u] = tasks[u]
        /\ tasks'[t] = k /\ UNCHANGED <<state, mount, logs>>
        /\ k.kind = "run" => k.step \in {"call", "rejected"}
    BY <1>6 DEF Begins, Adds, page
  <2> HIDE DEF t
  <2>2. ASSUME NEW u \in Tasks', tasks'[u].kind = "run", tasks'[u].step \in {"list", "done"}
        PROVE  u \in Tasks /\ tasks'[u] = tasks[u]
    BY <2>1, <2>2 DEF Tasks
  <2> QED BY <1>1, <2>1, <2>2 DEF LogsTell, At, Mounted
<1>7. CASE Mounts
  <2>1. PICK k : Adds(k) /\ k.kind = "samples"
    BY <1>7 DEF Mounts
  <2>2. /\ mount' = mount + 1 /\ mount \in Nat /\ \A u \in Tasks : tasks[u].mount \in 1 .. mount
    BY <1>1, <1>7, TaskFields DEF Mounts, TypeOK
  <2>3. \A u \in Tasks' : tasks'[u].kind = "run" => u \in Tasks /\ tasks'[u] = tasks[u]
    BY <2>1 DEF Adds, Tasks
  <2>4. \A u \in Tasks' : tasks'[u].kind = "run" => ~Mounted(u)'
    BY <2>2, <2>3 DEF Mounted
  <2> QED BY <2>4 DEF LogsTell
<1> QED BY <1>3, <1>4, <1>5, <1>6, <1>7, LogForms

-----------------------------------------------------------------------------
(* Lines and those who hear them.                                           *)

Copies(i) == {k \in DOMAIN logs : logs[k] = logs[i]}

Open(i) == {u \in Tasks : /\ tasks[u].kind = "run" /\ tasks[u].mount = mount
                          /\ \A k \in 1 .. i : ~At(k, u, "exit")}

LEMMA NoEchoIs ==
  NoEcho <=> \A i \in DOMAIN logs : logs[i].what = "line" => Cardinality(Copies(i)) <= Cardinality(Open(i))
BY DEF NoEcho, Copies, Open

LEMMA PlacesFinite ==
  ASSUME NEW R, NEW s \in Seq(R), NEW S, S \subseteq DOMAIN s
  PROVE  IsFiniteSet(S) /\ Cardinality(S) \in Nat
<1>1. S \in SUBSET (1 .. Len(s)) /\ Len(s) \in Nat
  OBVIOUS
<1> QED BY <1>1, PartOfInterval

\* No fewer are to hear a line than before, and no more than there are handlers.
LEMMA OpenGrows ==
  ASSUME tasks' \in Seq(TaskType'), NEW i, NEW S, S \subseteq Open(i)'
  PROVE  Cardinality(S) <= Cardinality(Open(i)') /\ Cardinality(Open(i)') \in Nat /\ Cardinality(S) \in Nat
<1> DEFINE after == Open(i)'
<1>1. after \subseteq DOMAIN tasks'
  BY DEF Open, Tasks
<1> HIDE DEF after, TaskType
<1>2. IsFiniteSet(after) /\ Cardinality(after) \in Nat
  BY <1>1, PlacesFinite
<1>3. S \subseteq after
  BY DEF after
<1>4. Cardinality(S) <= Cardinality(after) /\ IsFiniteSet(S)
  BY <1>2, <1>3, FS_Subset
<1> QED BY <1>2, <1>4, FS_CardinalityType DEF after

\* A line keeps its copies, and those who are to hear it.
LEMMA SameEcho ==
  ASSUME TypeOK, tasks' \in Seq(TaskType'), NoEcho, NEW i \in DOMAIN logs, logs[i].what = "line",
         Copies(i)' = Copies(i), Open(i) \subseteq Open(i)'
  PROVE  Cardinality(Copies(i)') <= Cardinality(Open(i)')
<1>1. Cardinality(Copies(i)) <= Cardinality(Open(i))
  BY NoEchoIs
<1>2. Cardinality(Copies(i)) \in Nat
  <2>1. logs \in Seq(LogType) /\ Copies(i) \subseteq DOMAIN logs
    BY DEF TypeOK, LogType, Copies
  <2> QED BY <2>1, PlacesFinite
<1>3. /\ Cardinality(Open(i)) <= Cardinality(Open(i)') /\ Cardinality(Open(i)') \in Nat
      /\ Cardinality(Open(i)) \in Nat
  BY OpenGrows
<1> QED BY <1>1, <1>2, <1>3

LEMMA NoEchoStep == ASSUME IInv, [Next]_vars PROVE NoEcho'
<1>1. TypeOK /\ LogsFit /\ NoEcho /\ logs \in Seq(LogType)
  BY DEF IInv, TypeOK, LogType
<1>2. tasks' \in Seq(TaskType')
  BY TasksStep
<1>3. SUFFICES ASSUME NEW i \in DOMAIN logs', logs'[i].what = "line"
               PROVE  Cardinality(Copies(i)') <= Cardinality(Open(i)')
  BY DEF NoEcho, Copies, Open
<1>4. CASE Silent
  <2>1. logs' = logs /\ mount' = mount /\ SameHandlers
    BY <1>4 DEF Silent
  <2>2. Copies(i)' = Copies(i)
    BY <2>1 DEF Copies
  <2>3. Open(i) \subseteq Open(i)'
    BY <2>1 DEF Open, SameHandlers, At, Tasks
  <2> QED BY <1>1, <1>2, <1>3, <2>1, <2>2, <2>3, SameEcho
<1>5. ASSUME NEW t, Logs(t) PROVE Cardinality(Copies(i)') <= Cardinality(Open(i)')
  <2> DEFINE n == Cardinality(Heard)
  <2>1. /\ t \in Runs /\ tasks[t].todo = <<"output">> /\ Moves(t, "call", << >>)
        /\ mount' = mount /\ LogGrows(t, "line", n)
    BY <1>5 DEF Logs
  <2>2. /\ n \in Nat /\ Len(logs) \in Nat /\ DOMAIN logs = 1 .. Len(logs) /\ DOMAIN logs' = 1 .. Len(logs) + n
        /\ \A k \in 1 .. Len(logs) : logs'[k] = logs[k]
        /\ \A k \in Len(logs) + 1 .. Len(logs) + n : logs'[k] = [run |-> t, what |-> "line"]
    BY <2>1 DEF LogGrows
  <2>3. SameHandlers
    BY <2>1, SameMoves
  <2> HIDE DEF n
  <2>4. \A k \in DOMAIN logs : logs[k] # [run |-> t, what |-> "line"]
    BY <1>1, <2>1 DEF LogsFit
  <2>5. \A u \in Tasks, k \in DOMAIN logs' :
          logs'[k] = [run |-> u, what |-> "exit"] => k \in DOMAIN logs /\ logs[k] = [run |-> u, what |-> "exit"]
    <3>1. \A u : [run |-> t, what |-> "line"] # [run |-> u, what |-> "exit"]
      OBVIOUS
    <3> QED BY <2>2, <3>1
  <2>6. CASE i \in DOMAIN logs
    <3>1. logs'[i] = logs[i] /\ 1 .. i \subseteq DOMAIN logs /\ DOMAIN logs \subseteq DOMAIN logs'
      BY <2>2, <2>6
    <3>2. Copies(i)' = Copies(i)
      BY <2>2, <2>4, <2>6 DEF Copies
    <3>3. Open(i) \subseteq Open(i)'
      BY <2>1, <2>3, <2>5, <3>1 DEF Open, SameHandlers, At, Tasks
    <3> QED BY <1>1, <1>2, <1>3, <2>6, <3>1, <3>2, <3>3, SameEcho
  <2>7. CASE i \notin DOMAIN logs
    <3> DEFINE news == Len(logs) + 1 .. Len(logs) + n
               copies == Copies(i)'
    <3>1. copies \subseteq news
      BY <2>2, <2>4, <2>7 DEF Copies
    <3>2. IsFiniteSet(news) /\ Cardinality(news) = n
      <4> DEFINE a == Len(logs) + 1
                 z == Len(logs) + n
      <4>1. a \in Int /\ z \in Int /\ (a > z => n = 0) /\ z - a + 1 = n
        BY <2>2
      <4> HIDE DEF a, z
      <4>2. IsFiniteSet(a .. z) /\ Cardinality(a .. z) = IF a > z THEN 0 ELSE z - a + 1
        BY <4>1, FS_Interval, Zenon
      <4>3. IsFiniteSet(a .. z) /\ Cardinality(a .. z) = n
        BY <4>1, <4>2
      <4> QED BY <4>3 DEF a, z
    <3> HIDE DEF news, copies
    <3>3. IsFiniteSet(copies) /\ Cardinality(copies) <= n
      BY <3>1, <3>2, FS_Subset
    <3>4. Cardinality(copies) \in Nat
      BY <3>3, FS_CardinalityType
    <3>5. Heard \subseteq Open(i)'
      <4>1. SUFFICES ASSUME NEW u \in Heard PROVE u \in Open(i)'
        OBVIOUS
      <4>2. u \in Tasks /\ tasks[u].kind = "run" /\ tasks[u].mount = mount /\ ~Exited(u)
        BY <1>1, <4>1 DEF Heard, LogsFit, Runs, Mounted
      <4>3. 1 .. i \subseteq DOMAIN logs'
        BY <1>3, <2>2
      <4>4. \A k \in 1 .. i : ~(logs'[k] = [run |-> u, what |-> "exit"])
        BY <2>5, <4>2, <4>3 DEF Exited, At
      <4> QED BY <2>1, <2>3, <4>2, <4>4 DEF Open, SameHandlers, At, Tasks
    <3>6. n <= Cardinality(Open(i)') /\ Cardinality(Open(i)') \in Nat
      BY <1>2, <3>5, OpenGrows DEF n
    <3> QED BY <2>2, <3>3, <3>4, <3>6 DEF copies
  <2> QED BY <2>6, <2>7
<1>6. ASSUME NEW t, Ends(t) PROVE Cardinality(Copies(i)') <= Cardinality(Open(i)')
  <2>1. /\ Moves(t, "list", << >>) /\ mount' = mount
        /\ IF Mounted(t) THEN LogGrows(t, "exit", 1) ELSE UNCHANGED logs
    BY <1>6 DEF Ends
  <2>2. SameHandlers
    BY <2>1, SameMoves
  <2>3. /\ DOMAIN logs = 1 .. Len(logs) /\ Len(logs) \in Nat
        /\ \A k \in DOMAIN logs : logs'[k] = logs[k] /\ k \in DOMAIN logs'
        /\ \A k \in DOMAIN logs' \ DOMAIN logs : logs'[k] = [run |-> t, what |-> "exit"]
    <3>1. DOMAIN logs = 1 .. Len(logs) /\ Len(logs) \in Nat
      BY <1>1
    <3> QED BY <2>1, <3>1, GrownLog
  <2>4. i \in DOMAIN logs /\ logs'[i] = logs[i] /\ 1 .. i \subseteq DOMAIN logs
    <3>1. i \in DOMAIN logs
      BY <1>3, <2>3
    <3> QED BY <2>3, <3>1
  <2>5. Copies(i)' = Copies(i)
    <3>1. \A k \in DOMAIN logs' \ DOMAIN logs : logs'[k] # logs[i]
      BY <1>3, <2>3, <2>4
    <3> QED BY <2>3, <2>4, <3>1 DEF Copies
  <2>6. Open(i) \subseteq Open(i)'
    BY <2>1, <2>2, <2>3, <2>4 DEF Open, SameHandlers, At, Tasks
  <2> QED BY <1>1, <1>2, <1>3, <2>4, <2>5, <2>6, SameEcho
<1>7. ASSUME NEW k, Begins(k) PROVE Cardinality(Copies(i)') <= Cardinality(Open(i)')
  <2>1. /\ Adds(k) /\ mount' = mount /\ logs' = logs
    BY <1>7 DEF Begins, page
  <2>2. Copies(i)' = Copies(i)
    BY <2>1 DEF Copies
  <2>3. Open(i) \subseteq Open(i)'
    BY <2>1 DEF Open, Adds, At, Tasks
  <2> QED BY <1>1, <1>2, <1>3, <2>1, <2>2, <2>3, SameEcho
<1>8. CASE Mounts
  <2>1. logs' = << >> /\ DOMAIN << >> = {}
    BY <1>8 DEF Mounts
  <2> QED BY <1>3, <2>1
<1> QED BY <1>4, <1>5, <1>6, <1>7, <1>8, LogForms

-----------------------------------------------------------------------------

LEMMA InitInv == Init => IInv
<1> SUFFICES ASSUME Init PROVE IInv
  OBVIOUS
<1> DEFINE k == Samples(1, 0)
           l == LoadCall(FALSE)
<1>1. /\ k.kind = "samples" /\ k.mount = 1 /\ k.todo = <<"sample">> /\ k.step = "fetch" /\ k.path = 0
      /\ l.step = "js"
  BY DEF Samples, Task, LoadCall
<1>2. /\ loads = <<l>> /\ tasks = <<k>> /\ Loads = {1} /\ Tasks = {1} /\ loads[1] = l /\ tasks[1] = k
      /\ Len(loads) = 1 /\ Len(tasks) = 1
  BY DEF Init, Loads, Tasks
<1>3. k \in TaskType /\ l \in LoadType
  <2>1. mount = 1 /\ <<"sample">> \in Seq(Names) /\ "fetch" \in Steps /\ 0 \in Dirs
        /\ "samples" \in Things \cup {"samples"} /\ 1 \in Nat /\ 1 \in 1 .. 1
    BY DEF Init, Names, Steps, Dirs
  <2>2. k \in [kind : Things \cup {"samples"}, mount : 1 .. 1, path : Dirs, todo : Seq(Names), step : Steps]
    BY <2>1, TaskTyped DEF Samples
  <2>3. l \in LoadType
    BY DEF LoadCall, LoadType
  <2> QED BY <2>1, <2>2, <2>3 DEF TaskType, Steps
<1> HIDE DEF k, l
<1>4. TypeOK
  <2>1. loads \in Seq(LoadType) /\ tasks \in Seq(TaskType)
    <3> HIDE DEF LoadType, TaskType
    <3> QED BY <1>2, <1>3
  <2>2. /\ state \in {"LOADING", "LOADED"} /\ isCoreMT \in BOOLEAN /\ {worker, trapped} \subseteq Loads \cup {0}
        /\ loaded \in BOOLEAN /\ files \subseteq Dirs \X Names /\ path \in Dirs
        /\ shown \in [dir : Dirs \cup {Nowhere}, names : SUBSET Names] /\ samplesLoading \in BOOLEAN
        /\ dialog \in Names \cup {None, "new"} /\ listeners \subseteq Tasks
    BY DEF Init, Dirs
  <2>3. changer \in 0 .. mount /\ mount \in 1 .. MaxLoads + 1
    BY DEF Init
  <2>4. calls = << >> /\ logs = << >> /\ << >> \in Seq(CallType)
        /\ << >> \in Seq([run : Tasks, what : {"line", "exit"}])
    BY DEF Init
  <2>5. calls \in Seq(CallType)
    BY <2>4
  <2>6. logs \in Seq([run : Tasks, what : {"line", "exit"}])
    BY <2>4
  <2> QED BY <2>1, <2>2, <2>3, <2>5, <2>6 DEF TypeOK
<1>5. calls = << >> /\ logs = << >> /\ DOMAIN << >> = {} /\ listeners = {} /\ Runs = {}
  BY <1>1, <1>2 DEF Init, Runs
<1>6. CallsFit
  BY <1>1, <1>2, <1>5 DEF CallsFit, CallsIn, TodoFits
<1>7. LoadsFit
  BY <1>1, <1>2 DEF Init, LoadsFit, Unsettled
<1>8. Bounded
  <2>1. Cardinality(Done) \in Nat
    BY <1>4, DoneCounted
  <2>2. mount = 1
    BY DEF Init
  <2> QED BY <1>2, <2>1, <2>2 DEF Bounded, Done
<1>9. Fresh /\ LogsTell /\ NoEcho /\ LogsFit
  BY <1>5 DEF Init, Fresh, LogsTell, NoEcho, LogsFit, Runs
<1> QED BY <1>4, <1>6, <1>7, <1>8, <1>9 DEF IInv

LEMMA Inductive == Spec => []IInv
<1>1. IInv /\ [Next]_vars => IInv'
  BY TypeStep, CallsStep, LoadsStep, BoundedStep, FreshStep, LogsFitStep, LogsTellStep, NoEchoStep DEF IInv
<1> QED BY <1>1, InitInv, PTL DEF Spec

\* However load() calls overlap, a page that comes to rest with none of them
\* failed has a workspace, on the core that came last, or on none if that very core
\* has trapped; and its list agrees with the core if the handlers of this workspace
\* went well, in the directories there are, and changed its files last.
THEOREM RestShowsAll == Spec => []ShowsAtRest
<1>1. IInv => ShowsAtRest
  <2> SUFFICES ASSUME IInv PROVE ShowsAtRest
    OBVIOUS
  <2>1. TypeOK /\ LoadsFit /\ Fresh /\ Bounded
    BY DEF IInv
  <2>2. UsableAtRest
    <3>1. SUFFICES ASSUME Rest, \A l \in Loads : loads[l].step # "failed"
                   PROVE  /\ state = "LOADED"
                          /\ \E l \in Loads : /\ loads[l].step = "done"
                                              /\ \/ worker = l /\ loaded
                                                 \/ worker = 0 /\ ~loaded /\ trapped = l
      BY DEF UsableAtRest
    <3>2. state = "LOADED"
      BY <2>1, <3>1 DEF LoadsFit, Rest, TypeOK
    <3>3. 1 \in Loads /\ {worker, trapped} \subseteq Loads \cup {0} /\ 0 \notin Loads
      BY <2>1, LoadFields DEF Bounded, TypeOK
    <3>4. worker # 0 \/ trapped # 0
      BY <2>1, <3>1, <3>3 DEF LoadsFit, Rest, Unsettled
    <3>5. CASE worker # 0
      <4>1. worker \in Loads /\ loads[worker].step = "done" /\ loaded
        BY <2>1, <3>1, <3>3, <3>5 DEF LoadsFit, Rest, Unsettled
      <4> QED BY <3>2, <4>1
    <3>6. CASE worker = 0
      <4>1. trapped \in Loads /\ loads[trapped].step = "done" /\ ~loaded
        BY <2>1, <3>3, <3>4, <3>6 DEF LoadsFit
      <4> QED BY <3>2, <3>6, <4>1
    <3> QED BY <3>5, <3>6
  <2>3. FreshAtRest
    BY <2>1 DEF FreshAtRest, Fresh, Listing
  <2> QED BY <2>2, <2>3 DEF ShowsAtRest
<1> QED BY <1>1, Inductive, PTL

\* A run of the present workspace that came to its exit code says so once, below
\* its line, and a line is there at most once for each run that could show it.
THEOREM LogsAreTrue == Spec => []LogsAgree
<1>1. IInv => LogsAgree
  BY DEF IInv, LogsAgree
<1> QED BY <1>1, Inductive, PTL
=============================================================================
