# A TLA+ verification of ffmpeg.wasm

ffmpeg.wasm runs FFmpeg, compiled to WebAssembly, in a worker thread. An
application holds an `FFmpeg` object; every method posts a request to the
object's worker and returns a promise; the worker loads the core, runs commands
and file operations on it and posts replies, errors and events back. This
directory models that protocol, the helpers and downloads around it, the core
and the cooperative threads below it, and the programs the repository tests,
measures and shows it with. TLC checks the models on small instances; TLAPS
proves the invariants that matter most for all.

## 1. Inventory

Paths are below `src/` of the repository.

| Part | Source | State it keeps | Operations | Modules |
|---|---|---|---|---|
| FFmpeg class | `packages/ffmpeg/src/classes.ts` | `#worker`, `#resolves`, `#rejects`, `loaded`, event callbacks, the id counter of `utils.ts` | `load`, `exec`, `ffprobe`, `terminate`, file system calls, `on`/`off`; handlers `onmessage`, `onerror`; abort listeners | `FFmpegClass`, `FFmpegSystem` |
| Node.js adapter | `packages/ffmpeg/src/node.mts` | the `worker_threads` worker, `#terminated` | `postMessage`, `terminate`, the `message`, `error` and `exit` listeners | `FFmpegClass` |
| Worker thread | `packages/ffmpeg/src/worker.ts`, `worker-node-entry.mts` | `ffmpeg`, `loading`, `lastCommand` | one message handler; `load`/`doLoad`; `queueCommand`; file operations | `FFmpegWorker`, `FFmpegSystem` |
| Helpers | `packages/ffmpeg/src/helpers.ts` | a job counter, one directory and one log tail per job | `probe`, `transcode`, `extractFrames` | `HelperJobs` |
| Utilities | `packages/util/src/index.ts` | the chunks of a download | `fetchFile`, `toBlobURL`, `downloadWithProgress`, `importScript` | `Download` |
| Core bindings | `src/bind/ffmpeg/bind.js` | `timeoutMs`, `abortFlag`, `running`, `ret`, the C stack pointer, suspended stacks of the JSPI core | `exec`, `ffprobe`, `reset`, `setTimeout`, `setAbortFlag`, `pfiberRun`, `pfiberSwitch` | `CoreCommand`, `FFmpegWorker` |
| Patches to fftools | `build/patches/n9/fftools-wasm.patch` | the global variables of both programs | `ffmpeg()`, `ffprobe()`, their resets, the loop that polls `Module.timeout` | `ToolGlobals`, `FFmpegWorker` |
| Cooperative pthreads | `src/pthread-fiber/pthread_fiber.c` | tables of fibers, mutexes and condition variables; the running fiber | `pthread_*`, `usleep`, the scheduler, the reset between commands | `PthreadFiber`, `CoreCommand` |
| FATE runner, benchmark | `scripts/fate/run.mjs`, `scripts/bench/run.mjs` | a manifest, results, temporary files, a timer and a child process | one child per test or sample, watchdogs, reports | `FateRun`, `BenchRun` |
| Playground | `apps/website/src/components/Playground/` | what is shown, the downloads and handlers under way | switching cores, uploads, renames, deletes, runs | `Playground` |
| Build, manifests, other scripts, examples | `build/`, `Dockerfile`, `packages/core*/`, `scripts/`, `apps/` | | | not modelled |

How they interact. The object and its worker share two message ports, the
shared abort flag of an `exec()` that was given a signal, and error events.
Under Node.js the adapter stands between them. The helpers and the playground
use the object's public methods, and so share its listeners, its worker and its
file system. The worker calls the core through `bind.js`, which runs one C
function per command. FFmpeg's threads are fibers of the pthread shim, all in
one wasm thread; on the JSPI core each is a wasm stack that suspends on a
promise `bind.js` resolves.

The repository's JSPI core switches stacks in microtasks, so its worker gets no
message while a command runs, as on the Asyncify core. `worker.ts` is written for
more: a command may be a promise that outlasts the turn, and a request may come
meanwhile (`worker.ts:154`). With `Jspi` true the protocol model lets it
come at any moment of a command, which is a superset of what either core does.

What is hard. Messages and events of a worker that was terminated, arriving
after the next one exists; promises that must settle whatever fails; several
`load()` calls in flight; commands queued while one is suspended; an abort
racing the end of its command; a trap that must settle the calls queued behind
it. Helpers that clean up a directory in which their own aborted command is
still to run. Downloads that end early, or whose progress callback throws. Below
them, stacks that share one stack pointer which nothing unwinds; fibers that hand
control to each other inside every blocking pthread call, timed waits that race
a signal, threads that finish under their joiner; and static mutexes, once
controls and globals that outlive a command which ended in the middle of them.
Around them, children that hang and watchdogs that kill them. `PROJECT.json`
lists each hazard at its line.

What makes each part correct.

* The class: an answer settles the call it is for, on the worker it was posted
  to, once; no call is lost; a worker is given up only for a reason; `loaded`
  means there is a core.
* The worker: one command at a time and in order, stopped only for its own
  reasons, its events before its reply, one core.
* The helpers: what is returned was written by the job's own command, whole and
  in order; nothing of a job is left behind, in the file system or among the
  listeners; its input stays until its command is over.
* `downloadWithProgress`: what it reports adds up to what it returns, and what
  it returns is the body.
* The core: one stack executes at a time, on its own stack pointer, and never a
  stack of an earlier command; however a command's stacks end, `exec()` settles
  with the command's own code. What a command can find in its globals of those
  before it is known, whichever way they ended.
* The pthread shim: mutual exclusion, no lost wakeup, timeouts that belong to
  their wait, an abort only on a real deadlock, slots not reused too early, a
  turn for every runnable fiber.
* The runners: a test passes only if a child ran that test and said so; the
  report is complete; nothing of a child is left beside the next.
* The playground: when nothing is under way, what is shown is what there is.

## 2. Modules

| Module | Models |
|---|---|
| `FFmpegMessages` | requests and messages (`const.ts`, `types.ts`), the state both sides share: message ports, error events, the thread behind a worker, the abort flags |
| `FFmpegClass` | `classes.ts` and `node.mts` |
| `FFmpegWorker` | `worker.ts`, `worker-node-entry.mts`, and from `bind.js` how a command is started, stopped and ended |
| `FFmpegSystem` | the two composed, with the application; properties; fairness |
| `CallLedger` | what an object promises its application: sessions, and calls that settle once in their session. `FFmpegSystem` implements it (`KeepsLedger`) |
| `HelperJobs` | `helpers.ts`: concurrent jobs on one object, composed with the worker and the file system they use |
| `JobLease` | what helpers promise of their directories. `HelperJobs` implements it (`KeepsLease`) |
| `Download` | `packages/util`: a call of `fetchFile`, `toBlobURL` or `downloadWithProgress` and the response it reads |
| `CoreCommand` | `bind.js`'s `runCommand` and the stack switches, with what `pthread_fiber.c` does on the JSPI core |
| `ToolGlobals` | `fftools-wasm.patch`: globals, resets and clean-ups |
| `PthreadFiber` | `pthread_fiber.c`: the scheduler, every pthread call that changes its state, the reset between commands |
| `ThreadMonitor` | what pthread calls promise their callers, with no scheduler. `PthreadFiber` implements it (`KeepsMonitor`) |
| `FateRun`, `BenchRun` | the FATE runner and the benchmark, each with its child processes |
| `Watchdog` | what both promise of the programs they start. Both implement it (`KeepsWatch`) |
| `Playground` | `Playground/index.tsx` and `Workspace/` |
| `MC...` | the values TLC uses |
| `..._proofs` | theorems |

How they fit together. `FFmpegSystem` composes the object with its workers, and
sees a command as something that ends, is stopped, or throws. `HelperJobs` and
`Playground` start from what that composition guarantees, a worker that answers
each request once and in order, and model what is done with it. `CoreCommand`
is the inside of a command, which sees a pthread call as a switch to another
stack; `PthreadFiber` is the inside of the pthread calls, which sees a switch as
done. `ToolGlobals` is what the commands of one core leave each other.

### The protocol

An action is one turn of an event loop, with the microtasks it leaves behind:
JavaScript runs nothing else in between. `Next` interleaves the application's
loop with that of every worker.

* `worker`, `loaded`, `resolves`, `rejects`, `nextID` are the fields of the
  class and the counter of `getMessageID`. `promise` is what the application
  sees of each call. `sent`, `sentTo`, `signalOf`, `sawLoaded`, `aborted` and
  `crashed` remember what the properties speak of. `uncaught` records that
  `this.#resolves[id](data)` was evaluated on a missing callback.
* `#send` is `Send`; `load()` is `Load`, `exec()`, `ffprobe()` and the twelve
  file system methods are `Exec`, `Probe`, `FileOp`, all through `Call`. A call
  without a worker rejects at once and changes nothing, so it is not an action.
* An `AbortController` is a signal that fires once (`Abort`). Its listeners act
  while a call is pending. A call made with a signal that has already fired is
  not aborted, as in the code, whose listener never runs.
* `onmessage` is `DeliverReply`, `DeliverError`, `DeliverTrap`, `DeliverEvent`
  and `DeliverStray`; `onerror` is `DeliverFailure`; `IgnoreFailure` is the
  adapter's `#terminated` guard.
* `terminate()` on a browser's `Worker` discards what the worker has posted and
  ends the thread. `worker_threads` lets the thread finish the turn it is in
  and delivers what it posted, and then its exit (`DropWorker`, `Exit`). Both
  are external to the repository and modelled from how `node.mts` uses them.
* In the worker, `slot` and `loads` are `loading` and the calls that await it;
  `queue` is the chain of `lastCommand`; `core[g]` is the module state of the
  core. `core[g].active` is a set so that two commands at once can be told from
  one. `Idle` says when the thread receives a message.
* A command ends by itself (`Complete`), because it was told to (`Stop`) or by
  throwing (`Throw`). An `abort()` inside FFmpeg counts as an end
  (`ignoreAbort`), a trap does not. Only `EXEC` polls for a stop.
* A LOAD that fails during the core's start-up may fail with a `RuntimeError`
  too, which `onmessage` takes for a trap.

Abstractions. A file operation is one request that succeeds or fails at once.
Core and wasm URLs, their fallbacks and their errors are one choice between
success and failure. A command line is its type, whether it was given a timeout,
and whether it ends by itself. A timeout may fire at any moment. A thread dies
by itself only while its script starts, or at any time under Node.js, where the
C library's `exit()` takes it down; it never exits with code 0, which the
adapter would not report.

### The helpers

A job goes from one `await` of `helpers.ts` to the next; `job[j].at` names the
call it awaits.

* `Start` is a call of a helper, `Reject` one that is refused for its arguments;
  `InputRead` and `InputFails` end `readInput`. `EnterDir` is `withJob` from
  there: it takes the number of `nextJob` and asks for the directory.
* `DirCreated`, `FileWritten`, `CommandDone`, `OutputRead`, `FramesListed` and
  `FrameRead` go on after the replies; `CallFails` after one that is an error.
  `Abort` fires the job's signal, and with it rejects the call it awaits. The
  helper rejects with what that call did, except `probe()` while it reads its
  output: it catches that, and fails for want of one (`Rejection`).
  All leave through `Leave`, which takes the listeners off and starts
  `removeDir`, whose calls are `CleanUp`.
* The worker has `inbox` and `outbox`, serves in order and nothing while a command
  runs (`Free`). What it had been asked before an abort it still does. A command
  writes its files one by one (`WriteOutput`), whole only if it ends well.
* `LoseWorker` is `terminate()` or a trap between any two steps, `LoadAgain` a new
  worker, with an empty file system.

Abstractions: of a command line only the helper it is of is kept, of a file who
wrote it and whether all of it is there, of a log line whose command it is of.

### Downloads

`Start` routes a call by its input (`Route`), `Respond` is a response of any
declared length, compressed or not, with a reader or without. `Arrive` lets the
network bring a chunk, end or break the body. The loop reads by `ReadChunk` and
ends by `ReadEnd` or `ReadFails`; each may find the progress callback throwing.
`Buffer` is `arrayBuffer()`, of the fallback too. Bytes are numbered, so that
one that is lost, doubled or overwritten shows.

### The core

* `running`, `argv`, `saved`, `ret`, `rejecter` are the variables of `bind.js`;
  `sp` is the one C stack pointer, a pair of a stack and a depth; `resolvers` is
  `pfiberResolvers`; `tasks` the microtasks. `state`, `started`, `current` and
  `epoch` are `pthread_fiber.c`'s. `on` is the stack the engine executes; a stack
  is named by its slot and its command, since slots are reused.
* `Exec` runs to the first instruction of the command; `FailToStart` and
  `BeginFails` do not get there. `Frame` is compiled code that calls and returns.
  `Create`, `Release`, `Switch` and `Finish` are the pthread calls of a fiber;
  which fiber is next is any that may be, `PthreadFiber` has the rule.
* `Return` and `Throw` end a stack: the main one settles the call, another
  rejects through `pfiberFail`. `RunStart` ... `RunSettle` are the microtasks.
* `build` chooses between the JSPI core and a synchronous one, where a command
  is one call without microtasks.

### The pthread shim

* Fiber 0 is `g_main`, fibers 1 to `PFIBER_MAX` are `g_table`: the numbering
  `pfiber_pick` searches in. `state`, `detached`, `joinWaiter`, `waitOn` and
  `wokeByTimeout` are fields of `pfiber_t`; `deadline` is `deadline_ms`, or
  `NULL` when `has_deadline` is 0. `current` is `g_current`, `epoch` `g_epoch`.
* `mutexEpoch` and `owner` are the block behind a mutex; epoch 0 is a mutex
  whose slot is still null. `once` is the value of a `pthread_once_t`.
* `call` stands for the C stack: the pthread call a fiber is in and what it
  needs when it comes back. `phase` says where the one running stack is: in the
  fiber's own code, in `pfiber_pick`, in `pf_idle_wait`, or after an `abort()`.
* A call is one action as far as the place where it asks the scheduler for
  another fiber (`Lock`, `CondWait`, `Join` ...), and a `...Resume` action from
  there, taken when the scheduler picks the fiber again. `Pick` is one pass of
  `pfiber_pick`. The clock moves between actions, not within one, and does not
  go back.
* The callers are C code: they unlock what they hold, join or detach a thread
  once, destroy a mutex nobody uses. They may lock a mutex twice, which the shim
  checks. `held`, `joinable` and `initializing` are what they know.
* `BeginCall` is `pfiber_begin_call`. A command may end at any point of any
  fiber's code: by `exit()`, by a trap, by `abort()`. Mutexes and once controls
  are static and keep what it left in them; the table does not.

Abstractions. Memory never runs out. The stall reports change nothing and are
left out, and so are the bounds check on asyncify stacks and the swap itself.
`pthread_create` on a full table returns `EAGAIN` and changes nothing, so it is
not an action. A trylock that fails is no action either, and one that succeeds
is a `Lock` of a free mutex. Routines of `pthread_once` do not call
`pthread_once`. A condition variable has no state but its waiters.

### The globals of ffmpeg and ffprobe

The globals are those the patch names: in the three resets, in the comment about
pointer-valued options, and in the code of `print_report()` and of ffprobe around
its changes. The value of one is the number of the call that set it last, and
`past` is how each call ended. `Start` is the resets at the top of `ffmpeg()` and
`ffprobe()`, `Set` anything a command does with a global it uses, `LastReport`
the end of `transcode()`, where `print_report()` closes the file of `-progress`,
`Return` the clean-up, `Abort` an end that skips it. What is left out are globals
the patch does not mention, and those of FFmpeg's libraries, which options like
`-cpuflags` set. The code of the clean-ups is not in the repository:
`CleanedUp` is what the patch says and shows of them.

### The runners

`FateRun` has the parent (`Begin`, `Skip`, `Spawn`, `Take`, `Report`), the child
from its start to its exit, and the events that end a test: the timer
(`Fire`, `Kill`), `SpawnError` and `OnExit`. The child may hang, crash or be
killed at any of its steps, half-way through its result file included. Tests are
filtered, and need files that may not be there. `BenchRun` has a group of up to
three processes per sample, whose watchdog kills the group. With `Orphans` node may
die in `execFileSync()`: ffmpeg then lives on, in the group until time exits, and
after that as a stray that nothing kills.

### The playground

`loads` are the calls of `load()` and the download or call each awaits, `tasks`
the handlers and samples under way, each with the path of the render it was made
in. A click starts a handler; `Fetched` and `Answer` take it to its next `await`.
The `FFmpeg` object answers its calls in turn. `RejectAll` is its `#terminate()`:
a second `load()` of the page calls it, and so does the object itself when a run
traps (`RunTraps`), which leaves it without a worker and `loaded` false. A path is
its depth, and `tmp` stands for every directory of a new core. `ClickDir` follows
a name of the list from the path, so that a click on a list that is stale goes to
a directory that is not there: `AnswerMissing` is what its calls come to.

## 3. Runs

| Run | What it shows | Instance |
|---|---|---|
| `lifecycle_node` | no lost call, no mixed-up workers, no innocent worker taken down, when stale messages and exit events do arrive; the ledger is kept; every call settles; an aborted command leaves the core | Node.js, no command a promise; 3 calls, 2 workers, 1 signal; fairness |
| `commands` | one command at a time and in order, stopped only for its own reasons, answered once behind its events; no stray reply; `loaded` and the answers of `load()` are true | browser, commands are promises; 4 calls, 2 workers, 1 signal, 1 event per command |
| `stale_load` | violation: `LoadedMeansCore` under Node.js | 2 calls, 1 worker |
| `helper_jobs` | nothing of a job is left, its input is in place, what it returns is its own and whole, listeners come off; the lease is kept | two jobs of different helpers, 1 event and 1 file per command, 1 lost worker |
| `helper_live` | frames come in order and all of them; every job settles | two `extractFrames`, up to 2 frames, 1 lost worker; fairness |
| `download` | what is returned is the body, progress adds up, the fallback has a cause, every call settles | up to 4 bytes in chunks of any size; fairness |
| `download_short` | violation: `CompleteOrRejected` | the same |
| `core` | the executing stack has its own stack pointer; one stack, of the running command; the exit code is the command's; it always ends up somewhere | both kinds of core; 3 commands, 2 threads, 1 string, frames one deep; fairness for liveness |
| `fibers_calls` | mutual exclusion, kept slots and one initializer at a time, no lost wakeup, no needless abort, no wrong timeout, through commands that end anywhere; the monitor is kept | `g_main` and 2 fibers, 1 mutex, 1 condition variable, 1 once control, 2 commands, 2 clock readings |
| `fibers_live` | runnable fibers run, timed waits end, a deadlock is reported instead of hanging | the same without once controls, 1 command; fairness |
| `fate` | the report is complete and true, no file and no child is left, the run ends | 3 tests, filtered and skipped in every way; fairness |
| `playground` | at rest the page shows what there is; the log is that of the runs; neither the download view nor a button stays for good | 2 loads, 4 handlers; fairness |

Bounds. `MaxCalls` and `MaxWorkers` limit how many calls are made and how many
workers `load()` creates; `MaxEvents` the events of a command; `Menu` the kinds
of call the application makes. Two workers are the least with which a stale
worker can meet a new one; three calls the least that put a load before it, a
load after it and a call that can be mixed up; four the least with which a
command runs, one is queued and one is not yet received, after a load. One
signal shared by several calls covers more than a signal each: every call it was
not given to is a call it must not touch.

Two jobs are the least with which one can disturb another, `MaxLosses` 1 loses
the worker between any two steps of both, and two frames have an order. A body
of four bytes has every cut into chunks in which one is first, last, between and
larger than another. Three commands and two threads let a slot be reused by a
later command, twice, while a suspended stack of an earlier one is left; a frame
one deep tells a stack pointer that is not restored. Three tests leave two in a
row when one is skipped or filtered out. Two loads are the least that overlap; of
four handlers one is the samples' that each mount starts.

For the shim, `PFIBER_MAX` is the size of the table, 48 in the code: two fibers
besides `g_main` are the least for a round-robin whose order matters, a waiter
and a signaller while a third runs, or a joiner of a thread another has detached
from. The first command runs in epoch 2, so `MaxEpoch` 2 is one command and 3
is two: the second meets the mutexes and once controls the first left behind.
`MaxNow` bounds the clock: a deadline can be due or ahead.

Deadlock is not checked where the actors may simply have used up their calls,
jobs, commands or tests. That a command of the shim does not stop otherwise is
what `AbortOnlyWhenStuck` and `DeadlockFailsLoudly` say.

Fairness.

* Protocol: event loops run (`Deliver`, `Receive`, `Boot`, `Exit`); a download of
  a core succeeds or fails (`LoadSettles`); a command whose command line ends
  by itself does end, and an `ffmpeg` that runs reaches the loop which polls
  (`Complete`, `Stop`). Nothing obliges the application to call, abort or
  terminate, a thread to die, a command to trap. `EveryCallSettles` excepts
  exactly the case the code cannot help: a command that does not end and that
  nobody stops occupies the worker for good (`Endless`).
* Helpers: messages are delivered, the worker serves, commands end, a read of
  the input succeeds or fails.
* Downloads: the server answers and its body ends or breaks. The latter is strong
  fairness, of an end that chunks may put off, but not for ever.
* Core: the engine runs its microtasks. A stack owes nothing.
* Shim: its code runs on once it is entered (`Shim`), and the clock advances
  (`Tick`). A fiber's own code may compute for ever, and since fibers are
  cooperative nobody else runs then: the scheduler's promises are conditional on
  `Switching`, that blocking calls keep being made.
* FATE: the parent's code runs, timers fire, SIGKILL kills. Children owe nothing.
* Playground: downloads end, the object answers. The user owes nothing.

Calls, jobs and tests settle once, so "again and again none is under way" says
of each of a bounded number that it settles; that form needs one temporal formula
where one per call would be the product of all.

### Divergences

Where the code does not do what a comment, a type or a document says. The first
two are runs of the project; the others have a configuration here too, with
which TLC shows the violation.

* Under Node.js a terminated worker's LOAD reply still reaches `onmessage`
  (`node.mts:36` lacks the guard of lines 40 and 59). `loaded` is then true with
  no worker, and `this.#resolves[id]` is undefined. Run `stale_load`. In the
  browser the property holds, which is proved.
* `downloadWithProgress` throws its own `ERROR_INCOMPLETED_DOWNLOAD`
  (`index.ts:172`) when the body it has read to the end is shorter than its
  `Content-Length`, catches it (`:190`) and returns the fallback's copy of the
  same short body as complete. Run `download_short`; `CompleteOrRejected` leaves
  out what never comes by that line, a response without a reader and a callback
  that throws.
* `ffprobe()` documents a timeout (`classes.ts:351`) that nothing polls, as
  `usage.md:485` does say. `probe_timeout.cfg` of `MCFFmpegSystem`.
* A command that ends inside a `pthread_once` routine leaves
  `PF_ONCE_RUNNING` in the static control, and `pfiber_reset` does not undo it.
  In the next command `pthread_once` waits for an initializer that no longer
  exists, against the comment at `pthread_fiber.c:854`. `once_abandoned.cfg` of
  `MCPthreadFiber`. Mutexes have an epoch against just this.
* A detached thread that has finished keeps its slot until somebody else passes
  through `pfiber_pick`. `pthread_create` can fail for a full table, with a
  message that all fibers are in use (`:760`), when fewer than `PFIBER_MAX`
  (`:42`) are alive. `table_full.cfg` of `MCPthreadFiber`.
* `withLogTail` collects `the last few log lines of run` (`helpers.ts:161`), and
  those of any other job on the object. `helper_tail.cfg` of `MCHelperJobs`.
* A helper's signal `rejects the helper's promise when aborted`
  (`types/index.d.ts:200`), but not if it fires while a Blob or a file is read or
  between two calls. `helper_signal.cfg`. And `probe()` rejects with its own
  `Error`, not with the signal's reason, if it fires while the output is read:
  `helpers.ts:219` catches both that and the loss of the worker (`Rejection` of
  `HelperJobs`).
* The same line says that `the running ffmpeg command is not interrupted`;
  where `SharedArrayBuffer` is available `exec()` stops it.
  `helper_interrupt.cfg`.
* `runCommand` returns `Module.ret`, which a command that aborts before it stores
  one does not set: without a `reset()`, which `worker.ts` always calls, a caller
  of the core gets
  the code of the command before. `core_ret.cfg` of `CoreCommand`.
* `fftools-wasm.patch:342` says that the pointer-valued options are freed by
  `ffmpeg_cleanup()` already, which a call that aborts never reaches: the next
  `ffmpeg()` finds them, and either program the dictionaries of options, until
  a call comes to its end. `LeftoversAreExplained` of `CoreCommand_proofs`.
* `fftools-wasm.patch:254` says that the globals are put back to their startup
  values before each call. `last_time` and `first_report` of `print_report()`
  are not, so that every `ffmpeg()` after the first that reported its progress
  reports at other times than a process would; nor is `progress_avio`, so that
  a call with `-progress` which fails before its last report leaves the next
  `ffmpeg()` reporting to that file. The same theorem names both.
* Of the playground, four things its page says are stated at the end of
  `Playground` and do not hold: the samples are there on the first Run
  (`SamplesThere`: an earlier `load()` may be terminated under them), the switch
  shows the core in use (`SwitchShowsCore`: the last download to end wins), the
  list is that of the path (`PathIsShown`: listings arrive out of order), and
  "Create" creates a folder (`CreateCreates`: `onDirCreate(name)` returns a
  handler nobody calls). `UsableAtRest` names a fifth case: a run that traps leaves
  the workspace on the page without a core, and only the switch loads another.

## 4. Proofs

### The protocol

`FFmpegSystem_proofs` proves, for every number of calls, workers, signals and
events, every menu, both platforms and both kinds of core:

* `TypeCorrect`: `Spec => []TypeOK`.
* `BookkeepingCorrect`: `Spec => []Bookkeeping`.
* `AnswersOwnCallsCorrect`: `Spec => []AnswersOwnCalls`.
* `FailureHitsOwnCallsCorrect`: `Spec => []FailureHitsOwnCalls`.
* `WorkerLossCorrect`: `Spec => WorkerLossHasCause`.
* `Refinement`: `Spec => KeepsLedger`, that is, the system implements
  `CallLedger`.

The assumptions are those the modules name: the constants have their types and
`NoSignal` is no signal. The argument rests on one inductive invariant, `IInv`
in `FFmpegSystem`. None of its parts is inductive alone. That a worker answers
its own calls needs that a new id is fresh (`FreshIDs`). That an ending settles
the right calls needs that the callbacks kept are the present worker's
(`CallbacksOfWorker`), hence, with `AnswersOwnCalls`, that an answer which finds
its callback comes from the present worker. That a stale exit event is ignored
needs to know of every worker no longer in use that it is marked terminated
(`KnownWorkers`). Requests are followed by `InFlight`, the calls a worker still
has to answer: the lemmas `WorkerStepInFlight` and `DeliverInFlight` show that
no step of a worker or of the event loop adds to it, `SendInFlight` that `#send`
adds only the new id, to the worker it posts to.

The second part of the module follows the calls:

* `NothingLostCorrect`: `Spec => []NothingLost`.
* `RepliesAgreeCorrect`: `Spec => []RepliesAgree`.
* `OneCommandInOrderCorrect`: `Spec => []OneCommandInOrder`.
* `StoppedByOwnSignalCorrect`: `Spec => []StoppedByOwnSignal`.
* `OneFirstLoadCorrect`: `Spec => []OneFirstLoad`.
* `NoStrayReplyCorrect` and `LoadsAgreeCorrect`: with `~OnNode`,
  `Spec => []NoStrayReply` and `Spec => []LoadsAgree`. Under Node.js they do not
  hold, as `stale_load` shows.

Its argument has two halves. First, what a step does to the calls is put in a
few forms: the `Effect` of a worker's step (it answers at once, waits for the
core, the load settles, a command starts, is queued, tells, ends, or nothing) and
the `ClassEffect` of the application's (a call is made, a signal fires, a message
is heard or passed over, the worker is given up). The lemmas `WorkerEffect` and
their like take each action of the model there once. Then each part of the
invariant is shown to survive each form. `CallsInv` joins `IInv` with, for every
worker: `InOrder`, ids rise along the way from the port to the core, which holds
one command at most and refuses all before it is loaded; `OneAnswer`, an answered
call is nowhere else and its events are ahead of the answer; `StopsAgree`, the
timeout and the flag in the core are those of the command in it; `LoadsTold`, a
call told `first` precedes all others. `BrowserInv` adds that nothing is heard of
a worker that was given up (`OnlyPresentWorker`) and that a call made while
`loaded` was true finds the core (`LoadedFindsCore`).

### The pthread shim

`PthreadFiber_proofs` proves, for every table size, every set of mutexes,
condition variables and once controls, and every number of commands and clock
readings:

* `ShimTypes`: `Spec => []TypeOK`.
* `MutualExclusion`: `Spec => []Exclusive`.
* `NoLostWakeup`: `Spec => []BlockedForAReason`.
* `AbortsAreDeadlocks`: `Spec => []AbortOnlyWhenStuck`.
* `DeadlinesBelongToTheirWait`: `Spec => OnlyTimedWaitsExpire`.
* `ShimKeepsMonitor`: `Spec => KeepsMonitor`, that is, the shim implements
  `ThreadMonitor`.

Its assumption is `FiberAssumption`: the bounds are naturals and the kinds of
object are disjoint, as addresses are. Its inductive invariant `IInv`
(`ShimInvariant`) joins these properties with four more. `FramesAgree`: no block
is of a future epoch, so that one reset is enough to make a mutex nobody's.
`WaitsAgree`: a runnable fiber waits on nothing and only a timed wait is armed,
without which a deadline left behind could end a wait for a mutex.
`JoinersAgree`: a thread has at most one joiner, who is woken when it finishes.
`RunningFiber`: the fiber whose code runs is runnable, and `pf_idle_wait` is
entered only when no fiber is. That an abort is a deadlock follows from the last
one and `NoLostWakeup`. `NextOfIsOne`, that the circular search finds a runnable
fiber when there is one, rests on the well-ordering of the naturals.

### The helpers

`HelperJobs_proofs` proves, for every number of jobs, every menu, length of a tail
and number of files, events and lost workers:

* `DirectoriesRemoved`: `Spec => []NothingLeft`.
* `InputStays`: `Spec => []InputInPlace`.
* `OutcomesAreOwn`: `Spec => []OwnOutcome`.
* `AllFramesInOrder`: `Spec => []FramesInOrder`.
* `ListenersAreOwn`: with `OwnListeners`, `Spec => []ListenersAgree`. `off()`
  removes every registration of a function, so that two jobs given the same one
  do disturb each other; what the property says of the log listeners needs no
  such hypothesis and is part of the invariant.
* `Refinement`: `Spec => KeepsLease`, that is, the helpers implement `JobLease`.

The assumption is `HelperAssumption`, the types of the constants. The inductive
invariant `IInv` has three layers. `InOrder` follows the calls under way: every
request in the inbox, the command in the core and every reply in the outbox is
either its job's present call, or one the job gave up when its signal fired, and
then the listing that starts the clean-up is behind it (`CleansAfter`). At most
one of each is under way (`OneCall`), which is why an answer can be taken for
that of the present call. `OwnDirs` and `FilesAgree` say whose directory and
whose file is whose, and that names are not used twice. `Stage` says of each job
what its next request will find (`Requested`), what its command has found and
done (`Commanded`), what the reply under way says of the directory (`Answered`),
and how far reading, ending and removing have come. The removal of a directory
succeeds because the listing it works through is the directory's content until
the last file is gone, and nothing but the job's own requests can change that.
A step of one job leaves the `Stage` of the others alone (`StageKept`), and a
request that was given up does no harm, because the clean-up behind it finds what
it left. `FramesSorted` shows that the numbers a command gives its frames, put in
order, are 1 to n: nothing is skipped. With a worker lost all of it holds
of nothing.

### Downloads

`Download_proofs` proves, for bodies of any length in chunks of any size, in a
browser and under Node.js:

* `WholeBody`: `Spec => []BodyReturned`.
* `ProgressCounts`: `Spec => []ProgressAgrees`.
* `FallbackJustified`: `Spec => []FallbackHasCause`.

The bytes of a sequence of chunks are a recursive function. `BytesAppend` says
what one more chunk adds, and `PrefixSize` that the first chunks are no more than
all; both unroll the function and rest on the well-ordering of the naturals. In
the invariant, what the loop has read are the first chunks of the stream
(`Streams`), the last event counts them (`Stage`), and a loop given up over the
length was given up after the stream's end, so that the reason does not go
away (`Caused`).

### The core

`CoreCommand_proofs` proves, for both kinds of core, every set of thread slots and
every bound on strings, frames and commands:

* `StackPointerCorrect`: `Spec => []StackPointerIsOwn`.
* `ControlCorrect`: `Spec => []ControlAgrees`.
* `ExitCodeCorrect`: with `CallerResets`, `Spec => []ExitCodeIsOwn`. Without it the
  property fails, as `core.cfg` with that constant FALSE (`core_ret.cfg`) shows.

Its inductive invariant is `IInv`: `AtRest` when no command runs, `AtWork` when one
does. `AtWork` says where control is (`HasControl`): the current fiber's stack
executes and no task is queued, or the other way round, and then the task is one
that is `Due`. Whether a task is due depends on the stack pointer it carries and on
the stack it wakes being suspended, so the rest of the invariant is that every
other fiber that has started and not ended is (`OthersWait`), with the depth it
had when it gave way. That a thread which throws ends the command needs that no
other fiber becomes current before the command's own call has returned its
promise (`rejecter = epoch`). The exit code needs `CodeKept`, which holds
across commands only if the caller's reset precedes the next one.

### The FATE runner

`FateRun_proofs` proves, for every manifest of tests, whatever they need
and whatever `FATE_ONLY` leaves of them:

* `BooksAreStraight`: `Spec => []Accounted`.
* `ReportTellsTheTruth`: `Spec => ReportIsTrue`.
* `RunnerKeepsWatch`: `Spec => KeepsWatch`, that is, the runner implements
  `Watchdog`.

In the invariant, `Books` says that the results are those of the tests before the
present one and that a child would read the manifest its parent reads, and
`OneChild` that a child exists only while its parent waits for it, took the test
the parent is at, and leaves no file behind. `Told` follows a verdict from the
child to the result file and from there to the promise. That the timer's kill and
the child's own exit cannot both settle a test needs that a promise is settled
only when the child is gone.

### The playground

`Playground_proofs` proves, for every number of `load()` calls and handlers and
every menu:

* `RestShowsAll`: `Spec => []ShowsAtRest`.
* `LogsAreTrue`: `Spec => []LogsAgree`, the types of all variables included.

The assumption is `PlaygroundAssumption`, the types of the constants. `ShowsAtRest`
says nothing of a page that still works, so the invariant says what is so before.
`LoadsFit`: the only `load()` that can wait for its core is the one whose worker
the object has, the core that trapped last had been loaded and none came to create
one since (`trapped` is set back then), and the download view is shown only while a
`load()` is under way or if one failed. `Fresh`: once the handlers of a mount are
done, none of them in a directory that is not there, the list is that of its
directory, if that mount changed the files last. It is kept because every handler
that changes a file goes on to list, or is rejected, before it is done, and the
object answers in turn. That needs to know whose call is answered (`CallsFit`): a
handler has one call at most, of its kind or of the list of its own path. For the log, `LogsFit`
joins listeners, runs and lines: a run of the present mount that has not reported
its exit code listens, and so its one line is there before its exit code. The lines
of one event are as many as those who listen (`Heard`), who are among the runs that
may show it (`Open`); no later step takes one of these away, as an exit code below a
line does not count against it. The lemma `LogForms` takes each action there once.
`Bounded` ties the model's bounds on mounts and handlers to the `load()` calls that
were done.

### Globals and runners

`ToolGlobals` and `BenchRun` have no run: what they say is proved for every
number of calls, or of cases and samples. The theorems about `ToolGlobals` are at
the end of `CoreCommand_proofs`.

* `LeftoversAreExplained`: if a call finds in a global what call n left there,
  the global is one of four kinds, and the history says why. The dictionaries of
  options: n and every call since were aborted. Only an `ffmpeg()` finds others, of
  an `ffmpeg()`: pointer-valued options if n and every `ffmpeg()` since were aborted;
  the file of `-progress` if none since n came to its last report; the
  statics of `print_report()` whatever happened. Nothing else survives, past an abort
  either. Dropping a name from a reset breaks the proof where it asks that what is
  used and not reset is of these kinds (`NotReset`). The invariant, `SetBy`, says
  of a value what the calls since it was set did not do. `GlobalsTyped` is the
  type invariant.
* `ReportsAreComplete`, `NothingStaysPending`, `GoodSamplesAreMeasured`: every
  case has all its samples; no timer or statistics file outlives a sample; a
  sample counts only if it ended by itself with 0. `BenchKeepsWatch`: without
  `Orphans` the benchmark implements `Watchdog`. The invariant follows the process
  group (`GroupOfSample`): node lives only under time, and without `Orphans`
  ffmpeg only under node, so that the exit of time is the end of all of them. A
  node that dies before its ffmpeg leaves it running beside the next sample; the
  other three theorems hold then too.

### Only model-checked

The liveness properties, which are beyond the prover: `EveryCallSettles` and
`AbortFreesWorker`, `NoStarvation` and `DeadlockFailsLoudly`, `JobsSettle`,
`Settles`, `ControlMovesOn`, `RunEnds`, and `PageComesBack`. Every other property of a
passing run is stated by a theorem above.

## 5. Not modelled, and why

* `postMessage` throwing for a value that cannot be cloned: the promise rejects,
  no callback has been registered, and only the id is used up.
* A worker's exit with code 0 under Node.js: nothing in the worker entry exits so,
  and the calls pending on it would not settle.
* `load()` of `FFmpegNode` putting the adapter in place of the global `Worker`:
  it is one synchronous turn (`node.mts:101`), so that nothing interleaves.
* Descriptors of `open`, `read`, `write` and `close`, mounts, and everything else
  that is the state of the core's file system alone.
* `importScript`, which waits for `load` and would wait for ever for a script that
  fails to; the HTTP status of responses, which no function of `packages/util`
  looks at.
* Numbers of a command line, such as the count below 1 that `extractFrames` takes
  and rounds down to no frame.
* The epoch's wrap after four billion commands; stall reports; bounds checks on
  asyncify stacks; the progress value.
* The patch's changes to the scheduler of fftools: the code it patches is not in
  the repository.
* Build scripts, manifests, type declarations beyond those the models use, the
  example applications and the rest of the website, which have no behaviour to
  explore; the scripts that compare two files or drive a browser in a straight
  line.
