---------------------------- MODULE FFmpegWorker -----------------------------
(***************************************************************************)
(* The worker threads of an FFmpeg object: worker.ts in a browser and its   *)
(* mirror worker-node-entry.mts under Node.js, each with the core it loads  *)
(* (bind.js). Every request is answered by exactly one message.             *)
(*                                                                          *)
(* Every action is one turn of a worker's event loop with its microtasks: a *)
(* request received, a core loaded or not, a step of the running command.   *)
(***************************************************************************)
EXTENDS FFmpegMessages

CONSTANTS
  Jspi,      \* a command may be a Promise, which leaves the thread free
  MaxEvents  \* bound: LOG and PROGRESS events of one command

ASSUME WorkerAssumption == Jspi \in BOOLEAN /\ MaxEvents \in Nat

NoCall == 0

VARIABLES
  slot,       \* `loading': empty, a load in flight, or a core in place
  loads,      \* the load() calls awaiting it, the one that started it first
  queue,      \* the commands queueCommand has chained after the running one
  core,       \* the core's module state, see CoreStates
  crashed     \* workers whose thread has died by itself

workerVars == <<slot, loads, queue, core, crashed>>

\* active: the commands the core is running; timeoutMs: it is not NO_TIMEOUT;
\* abortFlag: the call whose flag the core polls, or NoCall; events: how many
\* the running command has posted.
CoreStates ==
  [active : SUBSET Requests, timeoutMs : BOOLEAN, abortFlag : Ids \cup {NoCall},
   events : 0 .. MaxEvents]
NewCore == [active |-> {}, timeoutMs |-> FALSE, abortFlag |-> NoCall, events |-> 0]

WorkerInit ==
  /\ slot = [g \in Workers |-> "empty"]
  /\ loads = [g \in Workers |-> << >>]
  /\ queue = [g \in Workers |-> << >>]
  /\ core = [g \in Workers |-> NewCore]
  /\ crashed = {}

WorkerTypeOK ==
  /\ slot \in [Workers -> {"empty", "loading", "done"}]
  /\ loads \in [Workers -> Seq(Ids)]
  /\ queue \in [Workers -> Seq(Requests)]
  /\ core \in [Workers -> CoreStates]
  /\ crashed \subseteq Workers

-----------------------------------------------------------------------------
(* The thread.                                                              *)

\* A thread told to stop may still finish what it is doing.
Alive(g) == alive[g] \in {"running", "stopping"}

\* A command that is no Promise occupies the thread until it returns.
Idle(g) == Alive(g) /\ (Jspi \/ core[g].active = {})

Boot(g) ==
  /\ alive[g] = "starting"
  /\ alive' = [alive EXCEPT ![g] = "running"]
  /\ UNCHANGED <<workerVars, inbox, outbox, failed, flags>>

\* The script does not load or, under Node.js, an error nothing catches or the
\* C library's exit() takes the thread down; the object gets an event.
Die(g) ==
  /\ alive[g] = "starting" \/ (OnNode /\ alive[g] = "running")
  /\ alive' = [alive EXCEPT ![g] = "ended"]
  /\ failed' = [failed EXCEPT ![g] = TRUE]
  /\ crashed' = crashed \cup {g}
  /\ UNCHANGED <<slot, loads, queue, core, inbox, outbox, flags>>

\* Node.js: a terminated thread is gone, and that too is reported as an exit.
Exit(g) ==
  /\ alive[g] = "stopping"
  /\ alive' = [alive EXCEPT ![g] = "ended"]
  /\ failed' = [failed EXCEPT ![g] = TRUE]
  /\ UNCHANGED <<workerVars, inbox, outbox, flags>>

-----------------------------------------------------------------------------
(* self.onmessage.                                                          *)

Reply(type, id, data) == [type |-> type, id |-> id, data |-> data]

\* Mutant: the `return' after the ERROR message is missing.
FailureWithoutReturn(id, error) ==
  <<Reply("ERROR", id, error), Reply("FS", id, "done")>>

Failure(id, error) == <<Reply("ERROR", id, error)>>

Post(g, msgs) == outbox' = [outbox EXCEPT ![g] = @ \o msgs]

Receives(g, type) ==
  /\ Idle(g)
  /\ inbox[g] # << >> /\ Head(inbox[g]).type \in type
  /\ inbox' = [inbox EXCEPT ![g] = Tail(@)]

Request(g) == Head(inbox[g])

\* Mutant: a load() on a core in place starts another doLoad().
StartLoadTwice(g) ==
  /\ Receives(g, {"LOAD"})
  /\ slot[g] # "loading"
  /\ slot' = [slot EXCEPT ![g] = "loading"]
  /\ loads' = [loads EXCEPT ![g] = <<Request(g).id>>]
  /\ UNCHANGED <<queue, core, crashed, outbox, failed, alive, flags>>

\* load(): the first call starts doLoad(), later ones wait for it.
StartLoad(g) ==
  /\ Receives(g, {"LOAD"})
  /\ slot[g] = "empty"
  /\ slot' = [slot EXCEPT ![g] = "loading"]
  /\ loads' = [loads EXCEPT ![g] = <<Request(g).id>>]
  /\ UNCHANGED <<queue, core, crashed, outbox, failed, alive, flags>>

JoinLoad(g) ==
  /\ Receives(g, {"LOAD"})
  /\ slot[g] = "loading"
  /\ loads' = [loads EXCEPT ![g] = Append(@, Request(g).id)]
  /\ UNCHANGED <<slot, queue, core, crashed, outbox, failed, alive, flags>>

LoadAgain(g) ==
  /\ Receives(g, {"LOAD"})
  /\ slot[g] = "done"
  /\ Post(g, <<Reply("LOAD", Request(g).id, "again")>>)
  /\ UNCHANGED <<workerVars, failed, alive, flags>>

\* doLoad() settles, and with it every load() that awaits it. A failure clears
\* the slot. An abort of the core's start-up is a RuntimeError too.
LoadSucceeds(g) ==
  /\ Idle(g) /\ slot[g] = "loading"
  /\ slot' = [slot EXCEPT ![g] = "done"]
  /\ loads' = [loads EXCEPT ![g] = << >>]
  /\ Post(g, [i \in 1 .. Len(loads[g]) |->
                Reply("LOAD", loads[g][i], IF i = 1 THEN "first" ELSE "again")])
  /\ UNCHANGED <<queue, core, crashed, inbox, failed, alive, flags>>

\* Mutant: only the call that started a failed load is told.
LoadFailsForFirst(g, error) ==
  /\ Idle(g) /\ slot[g] = "loading"
  /\ slot' = [slot EXCEPT ![g] = "empty"]
  /\ loads' = [loads EXCEPT ![g] = << >>]
  /\ Post(g, <<Reply("ERROR", Head(loads[g]), error)>>)
  /\ UNCHANGED <<queue, core, crashed, inbox, failed, alive, flags>>

LoadFails(g, error) ==
  /\ Idle(g) /\ slot[g] = "loading"
  /\ slot' = [slot EXCEPT ![g] = "empty"]
  /\ loads' = [loads EXCEPT ![g] = << >>]
  /\ Post(g, [i \in 1 .. Len(loads[g]) |-> Reply("ERROR", loads[g][i], error)])
  /\ UNCHANGED <<queue, core, crashed, inbox, failed, alive, flags>>

\* Any other request before there is a core.
Refuse(g) ==
  /\ Receives(g, Types \ {"LOAD"})
  /\ slot[g] # "done"
  /\ Post(g, Failure(Request(g).id, "notLoaded"))
  /\ UNCHANGED <<workerVars, failed, alive, flags>>

ServeFileOp(g) ==
  /\ Receives(g, {"FS"})
  /\ slot[g] = "done"
  /\ \/ Post(g, <<Reply("FS", Request(g).id, "done")>>)
     \/ Post(g, Failure(Request(g).id, "failed"))
  /\ UNCHANGED <<workerVars, failed, alive, flags>>

-----------------------------------------------------------------------------
(* exec() and ffprobe(): a chain of promises runs the commands one by one.  *)

\* setTimeout(), setAbortFlag() if the call has a flag, and the core's exec().
Started(c, m) ==
  [active |-> c.active \cup {m}, timeoutMs |-> m.timed, events |-> 0,
   abortFlag |-> IF m.flagged THEN m.id ELSE c.abortFlag]

\* Mutant: reset() leaves the abort flag in the core.
ResetKeepsFlag(c, m) ==
  [active |-> c.active \ {m}, timeoutMs |-> FALSE, events |-> 0,
   abortFlag |-> c.abortFlag]

\* Mutant: the worker replies without waiting for the command.
ResetWhileRunning(c, m) ==
  [active |-> c.active, timeoutMs |-> FALSE, events |-> 0, abortFlag |-> NoCall]

\* The command has returned or thrown, and reset() is called.
Reset(c, m) ==
  [active |-> c.active \ {m}, timeoutMs |-> FALSE, events |-> 0,
   abortFlag |-> NoCall]

\* Mutant: the getter of Module.timeout without the abort flag.
TimedOut(g) == core[g].timeoutMs

\* Module.timeout as the transcode loop polls it: the command is to stop.
StopRequested(g) ==
  core[g].timeoutMs \/ core[g].abortFlag \in flags

\* Mutant: a command starts when it is received, without queueCommand.
NothingAhead(g) == FALSE

CommandsAhead(g) == core[g].active # {} \/ queue[g] # << >>

ReceiveCommand(g) ==
  /\ Receives(g, Commands)
  /\ slot[g] = "done"
  /\ \/ /\ ~CommandsAhead(g)
        /\ core' = [core EXCEPT ![g] = Started(@, Request(g))]
        /\ UNCHANGED queue
     \/ /\ CommandsAhead(g)
        /\ queue' = [queue EXCEPT ![g] = Append(@, Request(g))]
        /\ UNCHANGED core
  /\ UNCHANGED <<slot, loads, crashed, outbox, failed, alive, flags>>

\* A command writes a line to the log or reports progress.
Emit(g, m) ==
  /\ Alive(g) /\ m \in core[g].active
  /\ core[g].events < MaxEvents
  /\ core' = [core EXCEPT ![g].events = @ + 1]
  /\ Post(g, <<Reply("LOG", m.id, "done")>>)
  /\ UNCHANGED <<slot, loads, queue, crashed, inbox, failed, alive, flags>>

\* A command ends: its reply is posted, and the next of the chain starts.
Finish(g, m, answer) ==
  /\ Alive(g) /\ m \in core[g].active
  /\ Post(g, answer)
  /\ core' = [core EXCEPT ![g] = IF queue[g] = << >> THEN Reset(@, m)
                                 ELSE Started(Reset(@, m), Head(queue[g]))]
  /\ queue' = [queue EXCEPT ![g] = IF @ = << >> THEN @ ELSE Tail(@)]
  /\ UNCHANGED <<slot, loads, crashed, inbox, failed, alive, flags>>

\* It runs to its end. An abort() inside FFmpeg ends here too: ignoreAbort.
Complete(g, m) == m.ends /\ Finish(g, m, <<Reply(m.type, m.id, "done")>>)

\* Only the loop of ffmpeg polls; ffprobe has none.
Stop(g, m) ==
  /\ m.type = "EXEC" /\ StopRequested(g)
  /\ Finish(g, m, <<Reply(m.type, m.id, "stopped")>>)

\* It throws: a trap, or an exception that is not an abort.
Throw(g, m) ==
  \E error \in {"failed", "trap"} : Finish(g, m, Failure(m.id, error))

-----------------------------------------------------------------------------
LoadSettles(g) ==
  LoadSucceeds(g) \/ \E error \in {"failed", "trap"} : LoadFails(g, error)

Receive(g) ==
  \/ StartLoad(g) \/ JoinLoad(g) \/ LoadAgain(g) \/ Refuse(g)
  \/ ServeFileOp(g) \/ ReceiveCommand(g)

RunCommand(g) ==
  \E m \in core[g].active : Emit(g, m) \/ Complete(g, m) \/ Stop(g, m) \/ Throw(g, m)

WorkerStep(g) ==
  \/ Boot(g) \/ Die(g) \/ Exit(g)
  \/ Receive(g) \/ LoadSettles(g) \/ RunCommand(g)
=============================================================================
