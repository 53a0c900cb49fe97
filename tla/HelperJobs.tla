----------------------------- MODULE HelperJobs ------------------------------
(***************************************************************************)
(* The helpers probe(), transcode() and extractFrames() of helpers.ts: jobs *)
(* that run concurrently on one FFmpeg object. Each copies its input into a *)
(* directory of its own, runs one command there, reads the output back and  *)
(* removes the directory.                                                   *)
(*                                                                          *)
(* An action of a job is one turn of the application's event loop: the job  *)
(* goes from one `await' to the next. The worker is seen through its        *)
(* mailbox: it serves one request at a time, and a command keeps it busy.   *)
(***************************************************************************)
EXTENDS Naturals, Sequences, FiniteSets, SequencesExt

CONSTANTS
  Jobs,        \* the calls of the three helpers
  Menu,        \* the pairs of a helper and a kind of input they may be
  OnProgress,  \* the progress listener each transcode() is given
  LogTail,     \* LOG_TAIL_LINES
  CanStop,     \* SharedArrayBuffer is available to exec()
  MaxEvents,   \* bound: LOG and PROGRESS events of one command
  MaxFiles,    \* bound: files a command of each job writes
  MaxLosses    \* bound: workers terminated or crashed

Kinds   == {"probe", "transcode", "frames"}
Sources == {"bytes", "file", "url"}

ASSUME HelperAssumption ==
  /\ Menu \subseteq Kinds \X Sources /\ CanStop \in BOOLEAN
  /\ {LogTail, MaxEvents, MaxLosses} \subseteq Nat /\ MaxFiles \in [Jobs -> Nat]

\* What a job awaits: its input, a call of the worker, or nothing.
RunCalls   == {"createDir", "writeFile", "command", "readFile", "listDir", "readFrame"}
CleanCalls == {"rmList", "rmFile", "rmDir"}
Calls      == RunCalls \cup CleanCalls
Steps      == {"idle", "input", "done"} \cup Calls
Outcomes   == {"none", "result", "failed", "aborted", "lost", "invalid"}
Results    == {"ok", "failed", "stopped", "error"}
Input      == 0     \* the name of the input; a command's files are numbered

VARIABLES
  job,        \* each job: its step, its outcome and the locals of its closure
  abortedAt,  \* the step at which the signal of a job fired, or "never"
  tails,      \* the log listeners: each job's `tail', by the lines' commands
  logging,    \* #logEventCallbacks, by job
  progress,   \* #progressEventCallbacks
  nextJob,
  worker,     \* there is a worker with a core
  losses,     \* how many workers have been lost
  inbox,      \* requests posted to the worker
  outbox,     \* replies and events not yet delivered
  dirs, files,\* the core's file system
  running,    \* the command in the core
  stops       \* jobs whose exec() has its abort flag set

jobVars    == <<job, abortedAt, tails, logging, progress, nextJob>>
serverVars == <<worker, losses, dirs, files, running, stops>>
closure    == <<abortedAt, tails, nextJob, serverVars>>  \* what few replies touch
vars       == <<jobVars, inbox, outbox, serverVars>>

NewJob == [at |-> "idle", kind |-> "probe", source |-> "bytes", dir |-> 0,
           outcome |-> "none", todo |-> << >>, got |-> << >>]
NoCommand == [busy |-> FALSE]

Init ==
  /\ job = [j \in Jobs |-> NewJob] /\ abortedAt = [j \in Jobs |-> "never"]
  /\ tails = [j \in Jobs |-> << >>] /\ logging = {} /\ progress = {}
  /\ nextJob = 0
  /\ worker = TRUE /\ losses = 0
  /\ inbox = << >> /\ outbox = << >> /\ dirs = {} /\ files = {}
  /\ running = NoCommand /\ stops = {}

\* Files of a directory are known by their number; 0 is the input.
File == [dir : Nat, name : Nat, by : Jobs, whole : BOOLEAN]
Request == [job : Jobs, op : Calls, name : Nat]
Message == [job : Jobs, op : Calls \cup {"log", "progress"}, result : Results,
            files : Seq(File)]

TypeOK ==
  /\ job \in [Jobs -> [at : Steps, kind : Kinds, source : Sources, dir : Nat,
                       outcome : Outcomes, todo : Seq(File), got : Seq(File)]]
  /\ abortedAt \in [Jobs -> Steps \cup {"never"}]
  /\ tails \in [Jobs -> Seq(Jobs)] /\ \A j \in Jobs : Len(tails[j]) <= LogTail
  /\ logging \subseteq Jobs /\ progress \subseteq {OnProgress[j] : j \in Jobs}
  /\ nextJob \in Nat /\ worker \in BOOLEAN /\ losses \in 0 .. MaxLosses
  /\ inbox \in Seq(Request) /\ outbox \in Seq(Message)
  /\ dirs \subseteq Nat /\ files \subseteq File
  /\ running \in {NoCommand} \cup
       [busy : {TRUE}, job : Jobs, wrote : Nat, events : 0 .. MaxEvents]
  /\ stops \subseteq Jobs

At(j, step) == job[j].at = step
OnlyJob(j, r) == job' = [job EXCEPT ![j] = r]

-----------------------------------------------------------------------------
(* Steps of a job.                                                          *)

Ask(j, r, op, name) ==
  /\ OnlyJob(j, [r EXCEPT !.at = op])
  /\ inbox' = Append(inbox, [job |-> j, op |-> op, name |-> name])

\* off(). The same function may be registered more than once, and off() removes
\* every registration of it: a set says all there is to say.
Unlisten(cb) == progress \ {cb}

\* Mutant: the listener is removed only if `run' returns.
LeaveListening(j, outcome) ==
  /\ Ask(j, [job[j] EXCEPT !.outcome = outcome, !.todo = << >>], "rmList", Input)
  /\ logging' = IF outcome = "result" THEN logging \ {j} ELSE logging
  /\ progress' = IF At(j, "command") /\ job[j].kind = "transcode"
                 THEN Unlisten(OnProgress[j]) ELSE progress

\* `run' returns or throws: the `finally' blocks of the helper, withLogTail and
\* withJob. removeDir() starts by listing the directory.
Leave(j, outcome) ==
  /\ Ask(j, [job[j] EXCEPT !.outcome = outcome, !.todo = << >>], "rmList", Input)
  /\ logging' = logging \ {j}
  /\ progress' = IF At(j, "command") /\ job[j].kind = "transcode"
                 THEN Unlisten(OnProgress[j]) ELSE progress

\* What a helper rejects with when a call of its does: probe() catches what its
\* readFile() rejects with, and fails for want of an output.
Rejection(kind, call, reason) ==
  IF kind = "probe" /\ call = "readFile" THEN "failed" ELSE reason

\* An option is out of range, or the signal has aborted before the call.
Reject(j) ==
  /\ At(j, "idle")
  /\ \E o \in {"invalid", "aborted"} :
       /\ o = "aborted" => abortedAt[j] # "never"
       /\ OnlyJob(j, [job[j] EXCEPT !.at = "done", !.outcome = o])
  /\ UNCHANGED <<logging, progress, inbox, outbox, closure>>

\* Mutant: directories are numbered by the jobs that are running.
CountRunning(j, r) ==
  /\ nextJob' = Cardinality({k \in Jobs \ {j} : job[k].at \notin {"idle", "done"}})
  /\ LET named == [r EXCEPT !.dir = nextJob']
     IN  IF worker THEN Ask(j, named, "createDir", Input)
         ELSE /\ OnlyJob(j, [named EXCEPT !.at = "done", !.outcome = "lost"])
              /\ UNCHANGED inbox

\* withJob once it has the input: the directory's name is taken and made.
\* Without a worker the call rejects, and so does the clean-up.
EnterDir(j, r) ==
  /\ nextJob' = nextJob + 1
  /\ LET named == [r EXCEPT !.dir = nextJob]
     IN  IF worker THEN Ask(j, named, "createDir", Input)
         ELSE /\ OnlyJob(j, [named EXCEPT !.at = "done", !.outcome = "lost"])
              /\ UNCHANGED inbox

Start(j, kind, source) ==
  /\ At(j, "idle") /\ abortedAt[j] = "never"
  /\ LET r == [job[j] EXCEPT !.kind = kind, !.source = source]
     IN  IF source = "bytes" THEN EnterDir(j, r)
         ELSE OnlyJob(j, [r EXCEPT !.at = "input"]) /\ UNCHANGED <<nextJob, inbox>>
  /\ UNCHANGED <<abortedAt, tails, logging, progress, outbox, serverVars>>

\* readInput() settles: a Blob, a file or a response has been read, or not.
InputRead(j) ==
  /\ At(j, "input") /\ EnterDir(j, job[j])
  /\ UNCHANGED <<abortedAt, tails, logging, progress, outbox, serverVars>>

InputFails(j) ==
  /\ At(j, "input")
  /\ OnlyJob(j, [job[j] EXCEPT !.at = "done", !.outcome = "failed"])
  /\ UNCHANGED <<logging, progress, inbox, outbox, closure>>

\* The signal aborts. A fetch and the call in flight reject; nothing else
\* looks at the signal, and removeDir() has no signal. exec()'s listener sets
\* the flag the core polls.
Abort(j) ==
  /\ abortedAt[j] = "never" /\ job[j].at # "done"
  /\ abortedAt' = [abortedAt EXCEPT ![j] = job[j].at]
  /\ stops' = IF CanStop /\ At(j, "command") /\ job[j].kind # "probe"
              THEN stops \cup {j} ELSE stops
  /\ \/ job[j].at \in RunCalls /\ Leave(j, Rejection(job[j].kind, job[j].at, "aborted"))
     \/ /\ At(j, "input") /\ job[j].source = "url"
        /\ OnlyJob(j, [job[j] EXCEPT !.at = "done", !.outcome = "aborted"])
        /\ UNCHANGED <<logging, progress, inbox>>
     \/ /\ job[j].at \notin RunCalls /\ ~(At(j, "input") /\ job[j].source = "url")
        /\ UNCHANGED <<job, logging, progress, inbox>>
  /\ UNCHANGED <<tails, nextJob, worker, losses, outbox, dirs, files, running>>

-----------------------------------------------------------------------------
(* Messages of the worker. A reply settles the call its job awaits, if the  *)
(* job still awaits it.                                                     *)

Incoming == Head(outbox)
Deliver == outbox # << >> /\ outbox' = Tail(outbox)
Replied(j, op, results) ==
  /\ Deliver
  /\ Incoming.job = j /\ Incoming.op = op /\ Incoming.result \in results
  /\ At(j, op)

\* The last LOG_TAIL_LINES lines, of whatever command.
Pushed(t, line) ==
  IF Len(t) = LogTail THEN Tail(Append(t, line)) ELSE Append(t, line)

DeliverLog ==
  /\ Deliver /\ Incoming.op = "log"
  /\ tails' = [j \in Jobs |-> IF j \in logging THEN Pushed(tails[j], Incoming.job)
                              ELSE tails[j]]
  /\ UNCHANGED <<job, abortedAt, logging, progress, nextJob, inbox, serverVars>>

\* Progress events run the application's listeners; the reply of a call that
\* has been aborted settles nothing.
DeliverNothing ==
  /\ Deliver
  /\ Incoming.op # "log" /\ ~At(Incoming.job, Incoming.op)
  /\ UNCHANGED <<inbox, jobVars, serverVars>>

DirCreated(j) ==
  /\ Replied(j, "createDir", {"ok"})
  /\ Ask(j, job[j], "writeFile", Input)
  /\ UNCHANGED <<logging, progress, closure>>

\* The input is in place: listen, and run the command.
FileWritten(j) ==
  /\ Replied(j, "writeFile", {"ok"})
  /\ logging' = logging \cup {j}
  /\ progress' = IF job[j].kind = "transcode" THEN progress \cup {OnProgress[j]}
                 ELSE progress
  /\ Ask(j, job[j], "command", Input)
  /\ UNCHANGED closure

\* Mutant: the exit code of a transcode is not looked at.
AnyExitCode(j) == {"ok", "failed", "stopped"}

\* probe() judges by the output and not by the exit code.
GoodExit(j) == IF job[j].kind = "probe" THEN {"ok", "failed", "stopped"} ELSE {"ok"}

\* The command has ended. Its output is read back, or listed first.
CommandDone(j) ==
  /\ Replied(j, "command", GoodExit(j))
  /\ progress' = IF job[j].kind = "transcode" THEN Unlisten(OnProgress[j]) ELSE progress
  /\ IF job[j].kind = "frames" THEN Ask(j, job[j], "listDir", Input)
     ELSE Ask(j, job[j], "readFile", 1)
  /\ UNCHANGED <<logging, closure>>

\* A call rejects, or a command ends with an exit code other than 0.
CallFails(j) ==
  /\ \E op \in RunCalls :
       Replied(j, op, IF op = "command" THEN Results \ GoodExit(j) ELSE {"error"})
  /\ Leave(j, "failed")
  /\ UNCHANGED closure

\* The output has been read. What ffprobe wrote must parse.
OutputRead(j) ==
  /\ Replied(j, "readFile", {"ok"})
  /\ LET f == Head(Incoming.files)
         usable == job[j].kind = "transcode" \/ f.whole
     IN  /\ Ask(j, [job[j] EXCEPT !.got = IF usable THEN <<f>> ELSE @,
                                  !.outcome = IF usable THEN "result" ELSE "failed"],
                "rmList", Input)
         /\ logging' = logging \ {j}
  /\ UNCHANGED <<progress, closure>>

\* Mutant: the frames are read in the order of the directory.
UnsortedFrames(names) == SelectSeq(names, LAMBDA f : f.name # Input)

\* listDir()'s entries that are frames, by their number.
Frames(names) ==
  CHOOSE s \in SetToSeqs({f \in Range(names) : f.name # Input}) :
    \A i, k \in DOMAIN s : i < k => s[i].name < s[k].name

\* The next frame is read, or all of them are returned.
ReadFrames(j, todo, got) ==
  IF todo # << >>
  THEN /\ Ask(j, [job[j] EXCEPT !.todo = Tail(todo), !.got = got], "readFrame",
              Head(todo).name)
       /\ UNCHANGED logging
  ELSE /\ Ask(j, [job[j] EXCEPT !.todo = << >>, !.got = got, !.outcome = "result"],
              "rmList", Input)
       /\ logging' = logging \ {j}

FramesListed(j) ==
  /\ Replied(j, "listDir", {"ok"})
  /\ ReadFrames(j, Frames(Incoming.files), << >>)
  /\ UNCHANGED <<progress, closure>>

FrameRead(j) ==
  /\ Replied(j, "readFrame", {"ok"})
  /\ ReadFrames(j, job[j].todo, Append(job[j].got, Head(Incoming.files)))
  /\ UNCHANGED <<progress, closure>>

\* Mutant: the files are left, as if rmdir removed them.
RemoveDirOnly(j, todo) == Ask(j, [job[j] EXCEPT !.todo = << >>], "rmDir", Input)

\* removeDir(): the files one by one, then the directory; any failure ends it.
RemoveNext(j, todo) ==
  IF todo = << >> THEN Ask(j, [job[j] EXCEPT !.todo = << >>], "rmDir", Input)
  ELSE Ask(j, [job[j] EXCEPT !.todo = Tail(todo)], "rmFile", Head(todo).name)

CleanUp(j) ==
  /\ \/ Replied(j, "rmList", {"ok"}) /\ RemoveNext(j, Incoming.files)
     \/ Replied(j, "rmFile", {"ok"}) /\ RemoveNext(j, job[j].todo)
     \/ /\ \/ Replied(j, "rmDir", {"ok"})
           \/ \E op \in CleanCalls : Replied(j, op, {"error"})
        /\ OnlyJob(j, [job[j] EXCEPT !.at = "done", !.todo = << >>])
        /\ UNCHANGED inbox
  /\ UNCHANGED <<logging, progress, closure>>

-----------------------------------------------------------------------------
(* The worker and its core.                                                 *)

Dir(j) == job[j].dir
FilesIn(d) == {f \in files : f.dir = d}
Answer(r, result, fs) ==
  outbox' = Append(outbox, [job |-> r.job, op |-> r.op, result |-> result, files |-> fs])

\* Mutant: file operations are served while a command runs.
AnyTime == TRUE

Free == ~running.busy

Receive(op) ==
  /\ worker /\ Free /\ inbox # << >>
  /\ Head(inbox).op \in op /\ inbox' = Tail(inbox)
Taken == Head(inbox)

ServeCreateDir ==
  /\ Receive({"createDir"})
  /\ LET d == Dir(Taken.job)
     IN  IF d \in dirs THEN Answer(Taken, "error", << >>) /\ UNCHANGED dirs
         ELSE Answer(Taken, "ok", << >>) /\ dirs' = dirs \cup {d}
  /\ UNCHANGED <<worker, losses, files, running, stops, jobVars>>

\* A write may run out of memory, and then leaves the file it has opened.
ServeWriteFile ==
  /\ Receive({"writeFile"})
  /\ Dir(Taken.job) \in dirs
  /\ files' = files \cup
       {[dir |-> Dir(Taken.job), name |-> Input, by |-> Taken.job, whole |-> TRUE]}
  /\ \E result \in {"ok", "error"} : Answer(Taken, result, << >>)
  /\ UNCHANGED <<worker, losses, dirs, running, stops, jobVars>>

ServeRead ==
  /\ Receive({"readFile", "readFrame"})
  /\ LET found == {f \in FilesIn(Dir(Taken.job)) : f.name = Taken.name}
     IN  \/ \E f \in found : Answer(Taken, "ok", <<f>>)
         \/ found = {} /\ Answer(Taken, "error", << >>)
  /\ UNCHANGED <<jobVars, serverVars>>

\* The order of a directory's entries is the file system's.
ServeList ==
  /\ Receive({"listDir", "rmList"})
  /\ LET d == Dir(Taken.job)
     IN  IF d \in dirs
         THEN \E s \in SetToSeqs(FilesIn(d)) : Answer(Taken, "ok", s)
         ELSE Answer(Taken, "error", << >>)
  /\ UNCHANGED <<jobVars, serverVars>>

ServeRemove ==
  /\ Receive({"rmFile", "rmDir"})
  /\ LET d == Dir(Taken.job)
         found == {f \in FilesIn(d) : f.name = Taken.name}
     IN  \/ /\ Taken.op = "rmFile" /\ files' = files \ found /\ UNCHANGED dirs
            /\ Answer(Taken, IF found = {} THEN "error" ELSE "ok", << >>)
         \/ /\ Taken.op = "rmDir" /\ UNCHANGED files
            /\ LET empty == d \in dirs /\ FilesIn(d) = {}
               IN  /\ dirs' = IF empty THEN dirs \ {d} ELSE dirs
                   /\ Answer(Taken, IF empty THEN "ok" ELSE "error", << >>)
  /\ UNCHANGED <<worker, losses, running, stops, jobVars>>

StartCommand ==
  /\ Receive({"command"})
  /\ running' = [busy |-> TRUE, job |-> Taken.job, wrote |-> 0, events |-> 0]
  /\ UNCHANGED <<worker, losses, outbox, dirs, files, stops, jobVars>>

\* The command logs a line or, if it is ffmpeg, reports progress.
Emit ==
  /\ running.busy /\ running.events < MaxEvents
  /\ running' = [running EXCEPT !.events = @ + 1]
  /\ \E event \in {"log", "progress"} :
       /\ event = "progress" => job[running.job].kind # "probe"
       /\ Answer([job |-> running.job, op |-> event], "ok", << >>)
  /\ UNCHANGED <<worker, losses, inbox, dirs, files, stops, jobVars>>

\* It opens its next output file: only extractFrames() has more than one.
WriteOutput ==
  /\ running.busy /\ running.wrote < MaxFiles[running.job]
  /\ running.wrote = 0 \/ job[running.job].kind = "frames"
  /\ Dir(running.job) \in dirs
  /\ running' = [running EXCEPT !.wrote = @ + 1]
  /\ files' = files \cup {[dir |-> Dir(running.job), name |-> running.wrote + 1,
                           by |-> running.job, whole |-> FALSE]}
  /\ UNCHANGED <<worker, losses, inbox, outbox, dirs, stops, jobVars>>

\* It ends. Its output is complete if it ends well; ffprobe's exit code says
\* nothing about that. A timeout or the abort flag stops it with exit code 1.
EndCommand(result) ==
  /\ running.busy
  /\ result = "stopped" => running.job \in stops
  /\ \E whole \in BOOLEAN :
       /\ job[running.job].kind # "probe" => whole = (result = "ok")
       /\ files' = {IF f.dir = Dir(running.job) /\ f.name # Input
                    THEN [f EXCEPT !.whole = whole] ELSE f : f \in files}
  /\ Answer([job |-> running.job, op |-> "command"], result, << >>)
  /\ running' = NoCommand
  /\ UNCHANGED <<worker, losses, inbox, dirs, stops, jobVars>>

\* Mutant: terminate() leaves the calls in flight without an answer.
LoseQuietly ==
  /\ worker /\ losses < MaxLosses
  /\ worker' = FALSE /\ losses' = losses + 1
  /\ inbox' = << >> /\ outbox' = << >> /\ dirs' = {} /\ files' = {}
  /\ running' = NoCommand /\ stops' = {}
  /\ UNCHANGED jobVars

\* terminate(), or a trap in the core: every call in flight rejects, those of
\* the clean-up that follows too, and the file system is gone.
LoseWorker ==
  /\ worker /\ losses < MaxLosses
  /\ worker' = FALSE /\ losses' = losses + 1
  /\ job' = [j \in Jobs |->
       IF job[j].at \notin Calls THEN job[j]
       ELSE [job[j] EXCEPT !.at = "done", !.todo = << >>,
               !.outcome = IF @ = "none" THEN Rejection(job[j].kind, job[j].at, "lost")
                           ELSE @]]
  /\ logging' = {}
  /\ progress' = {}
  /\ inbox' = << >> /\ outbox' = << >> /\ dirs' = {} /\ files' = {}
  /\ running' = NoCommand /\ stops' = {}
  /\ UNCHANGED <<abortedAt, tails, nextJob>>

\* load() on a new worker.
LoadAgain ==
  /\ ~worker /\ worker' = TRUE
  /\ UNCHANGED <<losses, inbox, outbox, dirs, files, running, stops, jobVars>>

-----------------------------------------------------------------------------
Reply(j) ==
  \/ DirCreated(j) \/ FileWritten(j) \/ CommandDone(j) \/ CallFails(j)
  \/ OutputRead(j) \/ FramesListed(j) \/ FrameRead(j) \/ CleanUp(j)
DeliverMessage == DeliverLog \/ DeliverNothing \/ \E j \in Jobs : Reply(j)

Serve ==
  \/ ServeCreateDir \/ ServeWriteFile \/ ServeRead \/ ServeList \/ ServeRemove
  \/ StartCommand
End == \E result \in Results : EndCommand(result)

Next ==
  \/ \E j \in Jobs :
       \/ Reject(j) \/ InputRead(j) \/ InputFails(j) \/ Abort(j)
       \/ \E m \in Menu : Start(j, m[1], m[2])
  \/ DeliverMessage \/ Serve \/ Emit \/ WriteOutput \/ End
  \/ LoseWorker \/ LoadAgain

Spec == Init /\ [][Next]_vars

\* Messages are delivered, the worker takes requests, and commands end.
FairSpec ==
  /\ Spec
  /\ WF_vars(DeliverMessage) /\ WF_vars(Serve) /\ WF_vars(End)
  /\ \A j \in Jobs : WF_vars(InputRead(j) \/ InputFails(j))

-----------------------------------------------------------------------------
(* Properties.                                                              *)

InFlight(j) == job[j].at \in Calls

\* removeDir(): once a job has settled nothing of it is left in the worker's
\* file system, whatever failed or was aborted on the way.
NothingLeft ==
  /\ \A d \in dirs : \E j \in Jobs : InFlight(j) /\ Dir(j) = d
  /\ \A f \in files : f.dir \in dirs

\* A command finds its input, and the directory for its output, until it ends:
\* neither its own job's clean-up nor another job takes them away.
InputInPlace ==
  running.busy =>
    /\ Dir(running.job) \in dirs
    /\ \E f \in files : f.dir = Dir(running.job) /\ f.name = Input /\ f.by = running.job

\* What a helper returns was written by its own command, and written whole.
OwnResult ==
  \A j \in Jobs : job[j].outcome = "result" =>
    \A i \in DOMAIN job[j].got : job[j].got[i].by = j /\ job[j].got[i].whole

\* extractFrames() returns every frame, in order.
FramesInOrder ==
  \A j \in Jobs : job[j].outcome = "result" /\ job[j].kind = "frames" =>
    /\ \A i \in DOMAIN job[j].got : job[j].got[i].name = i
    /\ At(j, "rmList") => Len(job[j].got) = Cardinality(FilesIn(Dir(j)) \ {f \in files : f.name = Input})

\* A job listens exactly from its input's arrival to its last reply, however
\* it ends: a listener left behind would grow a tail for ever.
ListensWhileRunning ==
  /\ logging = {j \in Jobs : job[j].at \in {"command", "readFile", "listDir", "readFrame"}}
  /\ \A cb \in progress : \E j \in Jobs :
       At(j, "command") /\ job[j].kind = "transcode" /\ OnProgress[j] = cb

\* A transcode with a listener of its own hears its progress to the end.
ProgressHeard ==
  \A j \in Jobs : At(j, "command") /\ job[j].kind = "transcode" =>
    OnProgress[j] \in progress

\* The listeners of the object are those of its jobs, whoever else comes or goes.
ListenersAgree == TypeOK /\ ListensWhileRunning /\ ProgressHeard

\* A job aborted during a call of the worker rejects, although the worker still
\* answers the call, and with the signal's reason, unless that call is the one
\* probe() reads its output with.
AbortRejects ==
  \A j \in Jobs : abortedAt[j] \in RunCalls =>
    /\ job[j].outcome \in {"aborted", "failed"}
    /\ job[j].outcome = "failed" <=> job[j].kind = "probe" /\ abortedAt[j] = "readFile"

\* A job comes to what its own command and its own signal did.
OwnOutcome == OwnResult /\ AbortRejects

\* Every job settles, if commands end. (A job is called once, so that there is
\* again and again a moment without one under way says it of each.)
JobsSettle == []<>(\A j \in Jobs : job[j].at \in {"idle", "done"})

Lease == INSTANCE JobLease WITH
  phase <- [j \in Jobs |-> IF job[j].at \in {"idle", "input"} THEN "waiting"
                           ELSE IF InFlight(j) THEN "holding" ELSE "settled"],
  number <- [j \in Jobs |-> Dir(j)], issued <- nextJob, held <- dirs

\* The jobs implement the leases of JobLease.
KeepsLease == Lease!LeaseSpec

\* helpers.ts:161: the tail holds `the last few log lines of `run''.
TailIsOwn ==
  \A j \in Jobs : job[j].outcome = "failed" => Range(tails[j]) \subseteq {j}

\* types/index.d.ts:200: the signal `Rejects the helper's promise when aborted'.
AbortedNeverReturns ==
  \A j \in Jobs : abortedAt[j] \in RunCalls \cup {"input"} => job[j].outcome # "result"

\* types/index.d.ts:200: `The running ffmpeg command is not interrupted'.
NotInterrupted == \A i \in DOMAIN outbox : outbox[i].result # "stopped"
=============================================================================
