----------------------------- MODULE FFmpegClass -----------------------------
(***************************************************************************)
(* The application's side of ffmpeg.wasm: one FFmpeg object (classes.ts),   *)
(* the callbacks it keeps for the requests it has posted, and the Worker    *)
(* object it posts them to, which is the browser's or, under Node.js, the   *)
(* NodeWorkerAdapter of node.mts.                                           *)
(*                                                                          *)
(* Every action is one turn of the application's event loop: a call of a    *)
(* public method, the abort of a signal, or the delivery of one message or  *)
(* error event of a worker, with the microtasks it leaves behind.           *)
(***************************************************************************)
EXTENDS FFmpegMessages

CONSTANTS
  Signals,   \* AbortSignals the application passes to its calls
  NoSignal,  \* the call has no signal
  CanShare   \* SharedArrayBuffer is available to exec()

ASSUME ClassAssumption == NoSignal \notin Signals /\ CanShare \in BOOLEAN

\* How a call that no reply has settled ends.
Endings  == {"aborted", "terminated", "crashed", "workerError"}
Outcomes == {"unsent", "pending"} \cup Values \cup Errors \cup Endings

NoRequest ==
  [id |-> 0, type |-> "FS", timed |-> FALSE, flagged |-> FALSE, ends |-> TRUE]

VARIABLES
  worker,      \* #worker
  workers,     \* how many Worker objects have been created
  loaded,      \* the public `loaded' field
  resolves,    \* the keys of #resolves
  rejects,     \* the keys of #rejects
  nextID,      \* the module-wide counter behind getMessageID
  promise,     \* what the application sees of each call
  sent,        \* the request each call posted
  sentTo,      \* the worker it was posted to
  signalOf,    \* the signal it was given
  sawLoaded,   \* calls made while `loaded' was true
  aborted,     \* signals that have fired
  uncaught,    \* a message handler has thrown a TypeError
  terminated   \* NodeWorkerAdapter's #terminated, by worker

callVars  == <<resolves, rejects, nextID, promise, sent, sentTo, signalOf,
               sawLoaded>>
classVars == <<worker, workers, loaded, callVars, aborted, uncaught,
               terminated>>

ClassInit ==
  /\ worker = NoWorker /\ workers = 0 /\ loaded = FALSE
  /\ resolves = {} /\ rejects = {} /\ nextID = 1
  /\ promise = [id \in Ids |-> "unsent"]
  /\ sent = [id \in Ids |-> NoRequest]
  /\ sentTo = [id \in Ids |-> NoWorker]
  /\ signalOf = [id \in Ids |-> NoSignal]
  /\ sawLoaded = {}
  /\ aborted = {} /\ uncaught = FALSE /\ terminated = {}

ClassTypeOK ==
  /\ worker \in Workers \cup {NoWorker}
  /\ workers \in 0 .. MaxWorkers
  /\ loaded \in BOOLEAN
  /\ resolves \subseteq Ids /\ rejects \subseteq Ids
  /\ nextID \in 1 .. MaxCalls + 1
  /\ promise \in [Ids -> Outcomes]
  /\ sent \in [Ids -> Requests \cup {NoRequest}]
  /\ sentTo \in [Ids -> Workers \cup {NoWorker}]
  /\ signalOf \in [Ids -> Signals \cup {NoSignal}]
  /\ sawLoaded \subseteq Ids
  /\ aborted \subseteq Signals
  /\ uncaught \in BOOLEAN
  /\ terminated \subseteq Workers

-----------------------------------------------------------------------------
(* Settling. A promise settles once; #resolves and #rejects keep an entry   *)
(* until a reply or an ending removes it, even if the call was aborted.     *)

Pending(id) == promise[id] = "pending"

Settle(ids, outcome) ==
  promise' = [id \in Ids |->
                IF id \in ids /\ Pending(id) THEN outcome ELSE promise[id]]

Forget(id) ==
  /\ resolves' = resolves \ {id}
  /\ rejects' = rejects \ {id}

(* this.#worker.terminate(); this.#worker = null. The browser empties the   *)
(* port the worker's messages wait in and drops what the thread still       *)
(* posts. Node.js stops the thread a little later, and what it has posted   *)
(* is still delivered. `box' and `events' are what is left undelivered.     *)
DropWorker(box, events) ==
  /\ worker' = NoWorker
  /\ terminated' = terminated \cup ({worker} \ {NoWorker})
  /\ alive' = [g \in Workers |->
                 IF g # worker \/ alive[g] = "ended" THEN alive[g]
                 ELSE IF OnNode THEN "stopping" ELSE "ended"]
  /\ outbox' = [g \in Workers |->
                  IF g = worker /\ ~OnNode THEN << >> ELSE box[g]]
  /\ failed' = [g \in Workers |-> events[g] /\ (g # worker \/ OnNode)]

-----------------------------------------------------------------------------
(* Public methods.                                                          *)

\* Mutant: every worker counts its messages from one.
MessageIDPerWorker == IF worker = NoWorker THEN 1 ELSE nextID

\* The counter is the module's, so no two messages share an id, whichever
\* worker they go to.
getMessageID == nextID

\* #send, with its abort listeners: they act while the call is pending.
Send(g, type, timed, ends, sig) ==
  /\ nextID \in Ids
  /\ nextID' = nextID + 1
  /\ LET id == getMessageID
         m  == [id |-> id, type |-> type, timed |-> timed, ends |-> ends,
                flagged |-> type = "EXEC" /\ sig # NoSignal /\ CanShare]
     IN  /\ inbox' = [inbox EXCEPT ![g] = Append(@, m)]
         /\ sent' = [sent EXCEPT ![id] = m]
         /\ promise' = [promise EXCEPT ![id] = "pending"]
         /\ sentTo' = [sentTo EXCEPT ![id] = g]
         /\ signalOf' = [signalOf EXCEPT ![id] = sig]
         /\ sawLoaded' = IF loaded THEN sawLoaded \cup {id} ELSE sawLoaded
         /\ resolves' = resolves \cup {id}
         /\ rejects' = rejects \cup {id}

\* load(): creates the worker if there is none, then sends LOAD to it.
Load(sig) ==
  /\ \/ /\ worker = NoWorker
        /\ workers < MaxWorkers
        /\ workers' = workers + 1
        /\ worker' = workers + 1
        /\ alive' = [alive EXCEPT ![workers + 1] = "starting"]
     \/ /\ worker # NoWorker
        /\ UNCHANGED <<worker, workers, alive>>
  /\ Send(worker', "LOAD", FALSE, TRUE, sig)
  /\ UNCHANGED <<loaded, aborted, uncaught, terminated, outbox, failed, flags>>

\* exec(), ffprobe() and the file system calls. Without a worker they reject
\* on the spot and change nothing.
Call(type, timed, ends, sig) ==
  /\ worker # NoWorker
  /\ Send(worker, type, timed, ends, sig)
  /\ UNCHANGED <<worker, workers, loaded, aborted, uncaught, terminated,
                 outbox, failed, alive, flags>>

Exec(timed, ends, sig)  == Call("EXEC", timed, ends, sig)
Probe(timed, ends, sig) == Call("FFPROBE", timed, ends, sig)
FileOp(sig)             == Call("FS", FALSE, TRUE, sig)

\* AbortController.abort(): each listening call rejects, and exec()'s `stop'
\* raises the flag it shares with the core.
Abort(s) ==
  LET hit == {id \in Ids : Pending(id) /\ signalOf[id] = s} IN
  /\ s \notin aborted
  /\ aborted' = aborted \cup {s}
  /\ Settle(hit, "aborted")
  /\ flags' = flags \cup {id \in hit : sent[id].flagged}
  /\ UNCHANGED <<worker, workers, loaded, resolves, rejects, nextID, sent,
                 sentTo, signalOf, sawLoaded, uncaught, terminated, inbox,
                 outbox, failed, alive>>

LoadedAfterTerminate == loaded /\ worker = NoWorker

\* #terminate(error), on `terminate()' or on a trap in the reply `box' lacks.
RejectAllAndDrop(box, outcome) ==
  /\ promise' = [id \in Ids |-> IF id \in rejects /\ Pending(id)
                                  THEN outcome[id] ELSE promise[id]]
  /\ rejects' = {}
  /\ resolves' = resolves \ rejects
  /\ DropWorker(box, failed)
  /\ loaded' = LoadedAfterTerminate
  /\ UNCHANGED <<workers, nextID, sent, sentTo, signalOf, sawLoaded, aborted,
                 uncaught, inbox, flags>>

Terminate == RejectAllAndDrop(outbox, [id \in Ids |-> "terminated"])

-----------------------------------------------------------------------------
(* onmessage and onerror. They are the same functions for every worker of   *)
(* the object, so a message of a stopped worker acts on the current state.  *)

Front(g)  == Head(outbox[g])
Popped(g) == [outbox EXCEPT ![g] = Tail(@)]

DeliverReply(g) ==
  /\ outbox[g] # << >> /\ Front(g).type \in Types
  /\ Front(g).id \in resolves
  /\ loaded' = (loaded \/ Front(g).type = "LOAD")
  /\ Settle({Front(g).id}, Front(g).data)
  /\ Forget(Front(g).id)
  /\ outbox' = Popped(g)
  /\ UNCHANGED <<worker, workers, nextID, sent, sentTo, signalOf, sawLoaded,
                 aborted, uncaught, terminated, inbox, failed, alive, flags>>

DeliverError(g) ==
  /\ outbox[g] # << >> /\ Front(g).type = "ERROR"
  /\ Front(g).id \in rejects
  /\ Front(g).data # "trap"
  /\ Settle({Front(g).id}, Front(g).data)
  /\ Forget(Front(g).id)
  /\ outbox' = Popped(g)
  /\ UNCHANGED <<worker, workers, loaded, nextID, sent, sentTo, signalOf,
                 sawLoaded, aborted, uncaught, terminated, inbox, failed,
                 alive, flags>>

\* A RuntimeError: the call gets it, and #terminate(ERROR_CRASHED) the rest.
DeliverTrap(g) ==
  /\ outbox[g] # << >> /\ Front(g).type = "ERROR"
  /\ Front(g).id \in rejects
  /\ Front(g).data = "trap"
  /\ RejectAllAndDrop(Popped(g),
       [id \in Ids |-> IF id = Front(g).id THEN "trap" ELSE "crashed"])

\* A message whose callbacks are gone: this.#resolves[id](data) throws a
\* TypeError, for a LOAD after `loaded' has been set.
DeliverStray(g) ==
  /\ outbox[g] # << >>
  /\ \/ Front(g).type \in Types /\ Front(g).id \notin resolves
     \/ Front(g).type = "ERROR" /\ Front(g).id \notin rejects
  /\ loaded' = (loaded \/ Front(g).type = "LOAD")
  /\ uncaught' = TRUE
  /\ outbox' = Popped(g)
  /\ UNCHANGED <<worker, workers, callVars, aborted, terminated, inbox, failed,
                 alive, flags>>

DeliverEvent(g) ==
  /\ outbox[g] # << >> /\ Front(g).type = "LOG"
  /\ outbox' = Popped(g)
  /\ UNCHANGED <<classVars, inbox, failed, alive, flags>>

\* Mutant: onerror rejects what is in #rejects after it has emptied it.
NoCopy == {}

\* onerror's copy of #rejects, taken before it empties it.
CopiedRejects == rejects

\* Mutant: NodeWorkerAdapter without its #terminated guard.
NeverExpected(g) == FALSE

\* The adapter does not pass on the events of a worker it has terminated.
Expected(g) == OnNode /\ g \in terminated

\* onerror.
DeliverFailure(g) ==
  /\ failed[g]
  /\ ~Expected(g)
  /\ Settle(CopiedRejects, "workerError")
  /\ rejects' = {} /\ resolves' = {}
  /\ DropWorker(outbox, [failed EXCEPT ![g] = FALSE])
  /\ loaded' = FALSE
  /\ UNCHANGED <<workers, nextID, sent, sentTo, signalOf, sawLoaded, aborted,
                 uncaught, inbox, flags>>

IgnoreFailure(g) ==
  /\ failed[g]
  /\ Expected(g)
  /\ failed' = [failed EXCEPT ![g] = FALSE]
  /\ UNCHANGED <<classVars, inbox, outbox, alive, flags>>

\* What the event loop does by itself with a worker's messages and events.
Deliver(g) ==
  \/ DeliverReply(g) \/ DeliverError(g) \/ DeliverTrap(g) \/ DeliverStray(g)
  \/ DeliverEvent(g) \/ DeliverFailure(g) \/ IgnoreFailure(g)
=============================================================================
