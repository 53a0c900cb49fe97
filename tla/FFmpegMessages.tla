--------------------------- MODULE FFmpegMessages ----------------------------
(***************************************************************************)
(* What passes between an FFmpeg object and its worker threads: the message *)
(* types of const.ts, the requests and replies of types.ts, and the state   *)
(* the two sides share.                                                     *)
(***************************************************************************)
EXTENDS Integers, Sequences

CONSTANTS
  MaxCalls,    \* bound: calls the application makes, numbered by getMessageID
  MaxWorkers,  \* bound: workers load() creates
  OnNode       \* the Worker is node.mts's adapter, not the browser's

ASSUME MessagesAssumption ==
  MaxCalls \in Nat /\ MaxWorkers \in Nat /\ OnNode \in BOOLEAN

Ids      == 1 .. MaxCalls
Workers  == 1 .. MaxWorkers
NoWorker == 0

\* The message types that matter to the protocol; FS stands for every
\* operation the worker answers from the file system at once.
Types    == {"LOAD", "EXEC", "FFPROBE", "FS"}
Commands == {"EXEC", "FFPROBE"}

\* What a worker's answer carries.
Values == {"first", "again", "done", "stopped"}
Errors == {"failed", "trap", "notLoaded"}

\* A request. `timed': a timeout was given. `flagged': it carries an abort flag.
\* `ends': the command line ends by itself (an endless input does not).
Requests ==
  [id : Ids, type : Types, timed : BOOLEAN, flagged : BOOLEAN, ends : BOOLEAN]

\* A worker's message: a reply, an ERROR, or a LOG/PROGRESS event. An event
\* has no id in the code; here it names the command that emitted it.
Messages ==
  [type : Types \cup {"ERROR", "LOG"}, id : Ids, data : Values \cup Errors]

\* A worker's thread: not created, started but its script not yet run, serving,
\* told to stop (Node.js only), gone.
ThreadStates == {"none", "starting", "running", "stopping", "ended"}

VARIABLES
  inbox,   \* requests posted and not yet received, per worker
  outbox,  \* messages posted and not yet delivered, per worker
  failed,  \* an error or exit event is on its way, per worker
  alive,   \* the thread's state, per worker
  flags    \* the calls whose shared abort flag is set

linkVars == <<inbox, outbox, failed, alive, flags>>

LinkInit ==
  /\ inbox = [g \in Workers |-> << >>]
  /\ outbox = [g \in Workers |-> << >>]
  /\ failed = [g \in Workers |-> FALSE]
  /\ alive = [g \in Workers |-> "none"]
  /\ flags = {}

LinkTypeOK ==
  /\ inbox \in [Workers -> Seq(Requests)]
  /\ outbox \in [Workers -> Seq(Messages)]
  /\ failed \in [Workers -> BOOLEAN]
  /\ alive \in [Workers -> ThreadStates]
  /\ flags \subseteq Ids
=============================================================================
