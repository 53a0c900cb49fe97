---------------------------- MODULE FFmpegSystem -----------------------------
(***************************************************************************)
(* An application, its FFmpeg object and the worker threads it creates and  *)
(* loses, composed: classes.ts and node.mts on one side of the messages,    *)
(* worker.ts or worker-node-entry.mts and bind.js on the other.             *)
(***************************************************************************)
EXTENDS FFmpegClass, FFmpegWorker

CONSTANT Menu  \* the calls this application makes; the rest is up to TLC

\* A call as the application writes it: `ends' says whether its command line
\* ends by itself or, like a live input, goes on until it is stopped.
Calls == [type : Types, timed : BOOLEAN, ends : BOOLEAN,
          signal : Signals \cup {NoSignal}]

ASSUME SystemAssumption == Menu \subseteq Calls

vars == <<classVars, linkVars, workerVars>>

Init == ClassInit /\ LinkInit /\ WorkerInit

\* The application may call any method at any time.
Application ==
  \/ \E c \in Menu :
       \/ c.type = "LOAD" /\ Load(c.signal)
       \/ c.type = "EXEC" /\ Exec(c.timed, c.ends, c.signal)
       \/ c.type = "FFPROBE" /\ Probe(c.timed, c.ends, c.signal)
       \/ c.type = "FS" /\ FileOp(c.signal)
  \/ \E s \in Signals : Abort(s)
  \/ Terminate

Next ==
  \/ (Application \/ \E g \in Workers : Deliver(g)) /\ UNCHANGED workerVars
  \/ (\E g \in Workers : WorkerStep(g)) /\ UNCHANGED classVars

\* The event loops run, the core's files arrive or fail to, a command line that
\* ends does so, and a running ffmpeg reaches the loop that polls for a stop.
\* Nothing makes the application call, abort or terminate, or a thread die.
Fairness ==
  \A g \in Workers :
    /\ WF_vars(Deliver(g) /\ UNCHANGED workerVars)
    /\ WF_vars(Boot(g) /\ UNCHANGED classVars)
    /\ WF_vars(Exit(g) /\ UNCHANGED classVars)
    /\ WF_vars(Receive(g) /\ UNCHANGED classVars)
    /\ WF_vars(LoadSettles(g) /\ UNCHANGED classVars)
    /\ WF_vars((\E m \in core[g].active : Complete(g, m) \/ Stop(g, m)) /\ UNCHANGED classVars)

Spec     == Init /\ [][Next]_vars
FairSpec == Spec /\ Fairness

-----------------------------------------------------------------------------
(* Where a request is. *)

InSeq(s) == {s[i] : i \in DOMAIN s}

\* The calls worker g has not answered yet, by where they are.
Unreceived(g) == {m.id : m \in InSeq(inbox[g])}
Loading(g)    == InSeq(loads[g])
Queued(g)     == {m.id : m \in InSeq(queue[g])}
Executing(g)  == {m.id : m \in core[g].active}
Answered(g)   == {m.id : m \in {n \in InSeq(outbox[g]) : n.type # "LOG"}}

InFlight(g) ==
  Unreceived(g) \cup Loading(g) \cup Queued(g) \cup Executing(g) \cup Answered(g)

-----------------------------------------------------------------------------
(* Type correctness. *)

\* Every variable has its type: classes.ts's fields, the messages in transit,
\* and the state of each worker and its core.
TypeOK == LinkTypeOK /\ ClassTypeOK /\ WorkerTypeOK

(* Safety. *)

\* #resolves and #rejects always have the same keys, every pending call has
\* its entry in them, and both are empty once the worker is gone: no reply can
\* find a missing callback and no call is left behind by #terminate or onerror.
Bookkeeping ==
  /\ resolves = rejects
  /\ \A id \in Ids : Pending(id) => id \in rejects
  /\ worker = NoWorker => rejects = {}

\* A call waiting for an answer was posted to the worker there is now, and is
\* somewhere on its way through that worker, or the worker is known to be dead.
NothingLost ==
  \A id \in rejects :
    /\ sentTo[id] = worker
    /\ id \in InFlight(worker) \/ failed[worker]

\* A request is in one place only, so it is answered at most once: the load
\* slot, the command queue and the replies never hold the same call twice.
AnsweredOnce ==
  \A g \in Workers :
    /\ \A i, j \in DOMAIN outbox[g] :
         i # j /\ outbox[g][i].type # "LOG" /\ outbox[g][j].type # "LOG"
           => outbox[g][i].id # outbox[g][j].id
    /\ Answered(g) \cap (Unreceived(g) \cup Loading(g) \cup Queued(g) \cup Executing(g)) = {}

\* A worker answers only the calls posted to it, even when messages of a
\* worker that was terminated arrive after load() has created another: the ids
\* of getMessageID are never reused, so a stale reply finds no callback.
AnswersOwnCalls ==
  \A g \in Workers : \A id \in InFlight(g) : sentTo[id] = g

\* The core runs one command at a time, and in the order of the calls: what is
\* queued behind the running command, or has not been received, came later.
OneCommandInOrder ==
  \A g \in Workers : \A m \in core[g].active :
    /\ core[g].active = {m}
    /\ \A id \in Queued(g) : id > m.id
    /\ \A n \in InSeq(inbox[g]) : n.id > m.id

\* Whatever stops a command is its own: a command stopped before its end had a
\* timeout, or its own signal had aborted. A flag left in the core by an
\* earlier call would stop the next one.
StoppedByOwnSignal ==
  \A g \in Workers : \A r \in InSeq(outbox[g]) :
    r.data = "stopped" =>
      \/ sent[r.id].timed
      \/ r.id \in flags /\ signalOf[r.id] \in aborted

\* load() creates one core per worker: of all calls answered by a worker one
\* at most is told `first', and a call is told otherwise only after it.
OneFirstLoad ==
  \A i, j \in Ids : sentTo[i] = sentTo[j] =>
    /\ promise[i] = "first" /\ promise[j] = "first" => i = j
    /\ promise[i] = "again" /\ promise[j] = "first" => j < i

\* When a command's promise has settled with an answer, every log line and
\* progress event of the command has been delivered.
EventsBeforeReply ==
  \A g \in Workers : \A r \in InSeq(outbox[g]) :
    r.type = "LOG" => promise[r.id] \notin Values \cup Errors

\* Only the failure of its own worker rejects a call with ERROR_WORKER: the
\* exit event of a worker that was terminated does not reach the next worker.
FailureHitsOwnCalls ==
  \A id \in Ids : promise[id] = "workerError" => sentTo[id] \in crashed

\* `loaded' tells the truth: there is a worker and its core is in place.
LoadedMeansCore ==
  loaded => worker # NoWorker /\ slot[worker] = "done"

\* A call made while `loaded' was true is not refused for want of a core.
LoadedCallsAreServed ==
  \A id \in sawLoaded : promise[id] # "notLoaded"

\* No message handler throws: every reply finds its callbacks.
NoStrayReply == ~uncaught

\* The replies of a worker: one to each call, behind all that the call's command
\* had to tell.
RepliesAgree == AnsweredOnce /\ EventsBeforeReply

\* `loaded' and the answers to load() agree with the cores there are, so that a
\* caller can go by them.
LoadsAgree == LoadedMeansCore /\ LoadedCallsAreServed /\ OneFirstLoad

-----------------------------------------------------------------------------
(* The invariant the proofs use.                                            *)

\* A number getMessageID has not handed out has never been posted.
FreshIDs ==
  \A id \in Ids : id >= nextID =>
    sentTo[id] = NoWorker /\ promise[id] = "unsent" /\ id \notin rejects

\* The callbacks kept are those of the present worker's calls.
CallbacksOfWorker == \A id \in rejects : sentTo[id] = worker

\* A worker that load() has replaced or terminate() stopped is known as such,
\* and the error event of a browser's Worker is its last sign of life.
KnownWorkers ==
  /\ worker <= workers
  /\ \A g \in Workers :
       /\ g > workers => alive[g] = "none" /\ ~failed[g] /\ g \notin terminated
       /\ g <= workers /\ g # worker => g \in terminated
       /\ alive[g] \in {"starting", "running"} => g = worker
       /\ alive[g] = "stopping" => OnNode /\ g \in terminated
       /\ g = worker => g \notin terminated
       /\ failed[g] => g \in crashed \/ g \in terminated
       /\ failed[g] /\ g # worker => OnNode

\* Bookkeeping and AnswersOwnCalls with what they rest on: together they are
\* preserved by every step, which none of them is alone.
IInv ==
  /\ TypeOK
  /\ Bookkeeping
  /\ FreshIDs
  /\ AnswersOwnCalls
  /\ CallbacksOfWorker
  /\ KnownWorkers
  /\ FailureHitsOwnCalls

-----------------------------------------------------------------------------
(* Steps. *)

\* A worker that works is given up only by terminate() or a trap: onerror of
\* another worker never takes it down.
WorkerLossHasCause ==
  [][worker # NoWorker /\ worker' = NoWorker =>
       Terminate \/ worker \in crashed \/ (\E g \in Workers : DeliverTrap(g) /\ g = worker)]_vars

-----------------------------------------------------------------------------
(* Liveness. *)

\* The thread of a worker is inside the command of a call, or has it suspended.
Busy(g, id) == Alive(g) /\ id \in Executing(g)

\* A command that neither ends by itself nor has been asked to stop.
Endless == \E g \in Workers, id \in Ids :
  Busy(g, id) /\ ~sent[id].ends /\ id \notin flags

\* Every call settles, whatever is terminated, crashes or fails to load, unless
\* a command that nobody stops occupies the worker for good. (A settled call
\* stays settled, so this says it of each of the MaxCalls calls.)
EveryCallSettles == ([]<>(\A id \in Ids : ~Pending(id))) \/ <>[]Endless

\* An aborted exec() leaves the core, even if its command would never end. (It
\* does not come back, so this says it of each.)
AbortFreesWorker ==
  []<>(\A g \in Workers, id \in Ids : ~(Busy(g, id) /\ id \in flags))

\* ffprobe()'s timeout stops its command, as its documentation has it.
ProbeTimeoutStops ==
  \A id \in Ids, g \in Workers :
    (Busy(g, id) /\ sent[id].type = "FFPROBE" /\ sent[id].timed) ~> ~Busy(g, id)

-----------------------------------------------------------------------------
(* What the object promises its application. *)

CallOutcomes == INSTANCE CallLedger WITH
  MaxSessions <- MaxWorkers, Answers <- Values \cup Errors,
  Losses <- {"terminated", "crashed", "workerError"},
  session <- worker, sessions <- workers, made <- nextID - 1,
  owner <- sentTo, signal <- signalOf, fired <- aborted, outcome <- promise

\* The system implements the ledger of calls: a call settles once, in its own
\* session, by an answer, its own signal, or the end of the session.
KeepsLedger == CallOutcomes!Ledger
=============================================================================
