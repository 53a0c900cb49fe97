------------------------------- MODULE FateRun --------------------------------
(***************************************************************************)
(* scripts/fate/run.mjs: the parent takes the tests of a manifest in turn   *)
(* and runs each in a child process of its own, the same script with         *)
(* --index. The child leaves its result in a file and the stall reports of   *)
(* pthread_fiber.c in another. A watchdog timer of the parent kills a child  *)
(* that goes on for too long, wherever it hangs.                             *)
(***************************************************************************)
EXTENDS Integers, Sequences, SequencesExt, FiniteSetsExt

CONSTANT Manifest  \* the tests of the manifest file, in order

ASSUME ManifestAssumption == Manifest \in Seq(STRING)

Tests    == Range(Manifest)
NoFilter == {}

\* What a test needs to run: one of the files that generateInputs() makes, or
\* what is not there, a sample, a reference, or a core it is known to work on.
Needs == {"nothing", "input", "missing"}

VARIABLES
  only,       \* the tests FATE_ONLY matches, or NoFilter
  needs,      \* of each test
  generated,  \* generateInputs() has made its files
  main,       \* where the parent's main() is
  narrowed,   \* the tests of the manifest in memory
  index,      \* the test it is at
  results,    \* of the tests so far
  child,      \* where the child is, and the test it took
  verdict,    \* what the child's run came to
  stalled,    \* the child has reported a stall
  files,      \* the temporary files and directories there are
  written,    \* the contents of the result file
  timer,      \* the watchdog: "off", "armed" or "fired"
  promise     \* what runIndexWithWatchdog() resolved with

setup  == <<only, needs, generated>>
parent == <<main, narrowed, index, results>>
vars   == <<setup, parent, child, verdict, stalled, files, written, timer, promise>>

Verdict(t, status) == [test |-> t, status |-> status]
Unwritten == Verdict("", "unwritten")
Result(status, stall) == [status |-> status, stall |-> stall]
Pending == Result("pending", FALSE)
NoChild == [at |-> "none", test |-> ""]

Init ==
  /\ only \in SUBSET Tests /\ needs \in [Tests -> Needs]
  /\ generated = FALSE
  /\ main = "start" /\ narrowed = Manifest /\ index = 0 /\ results = << >>
  /\ child = NoChild /\ verdict = Unwritten /\ stalled = FALSE
  /\ files = {} /\ written = Unwritten /\ timer = "off" /\ promise = Pending

Running == {"boot", "exec", "hang", "done", "writing", "exiting"}
Statuses == {"pass", "fail", "skip"}

TypeOK ==
  /\ only \subseteq Tests /\ needs \in [Tests -> Needs] /\ generated \in BOOLEAN
  /\ main \in {"start", "loop", "child", "report", "end"}
  /\ narrowed \in Seq(Tests) /\ index \in 0 .. Len(Manifest) + 1
  /\ results \in Seq([name : Tests, status : Statuses, stall : BOOLEAN])
  /\ child \in [at : Running \cup {"none", "zombie"}, test : Tests \cup {""}]
  /\ {verdict, written} \subseteq
       [test : Tests \cup {""}, status : {"unwritten", "pass", "fail", "half"}]
  /\ stalled \in BOOLEAN
  /\ files \subseteq {"narrowed", "generated", "result", "stall"}
  /\ timer \in {"off", "armed", "fired"}
  /\ promise \in [status : Statuses \cup {"pending"}, stall : BOOLEAN]

-----------------------------------------------------------------------------
(* main().                                                                  *)

\* The tests of the manifest that are in S, in order: filter().
Kept(S) ==
  LET kept == {i \in DOMAIN Manifest : Manifest[i] \in S}
  IN {[n \in DOMAIN at |-> Manifest[at[n]]] :
        at \in {a \in SetToSeqs(kept) : \A m, n \in DOMAIN a : m < n => a[m] < a[n]}}

\* The parent narrows the manifest by FATE_ONLY, in memory and in a file for
\* its children. (It throws at once if FATE_ONLY is set and matches nothing:
\* NoFilter is FATE_ONLY not being set.) Generating may fail, with a warning.
Begin ==
  /\ main = "start"
  /\ generated' \in BOOLEAN
  /\ narrowed' \in IF only = NoFilter THEN {Manifest} ELSE Kept(only)
  /\ files' = {"generated"} \cup (IF only = NoFilter THEN {} ELSE {"narrowed"})
  /\ main' = (IF narrowed' = << >> THEN "report" ELSE "loop") /\ index' = 1
  /\ UNCHANGED <<only, needs, results, child, verdict, stalled, written, timer, promise>>

\* Mutant: children read the manifest the parent was given.
FirstManifest == Manifest

\* The manifest a child reads: by path, the narrowed one if there is one.
ChildManifest == IF "narrowed" \in files THEN narrowed ELSE Manifest

Skipped(t) == needs[t] = "missing" \/ (needs[t] = "input" /\ ~generated)

Record(t, r) == Append(results, [name |-> t, status |-> r.status, stall |-> r.stall])

\* preflight() spares a test that can only be skipped its child.
Skip ==
  /\ main = "loop" /\ index <= Len(narrowed) /\ Skipped(narrowed[index])
  /\ results' = Record(narrowed[index], Result("skip", FALSE))
  /\ index' = index + 1
  /\ main' = IF index' > Len(narrowed) THEN "report" ELSE "loop"
  /\ UNCHANGED <<setup, narrowed, child, verdict, stalled, files, written, timer, promise>>

\* runIndexWithWatchdog(): spawn the child, detached, and arm the timer. A
\* process that could not be started has "error" for its only event.
Spawn ==
  /\ main = "loop" /\ index <= Len(narrowed) /\ ~Skipped(narrowed[index])
  /\ main' = "child" /\ timer' = "armed" /\ promise' = Pending
  /\ verdict' = Unwritten /\ written' = Unwritten /\ stalled' = FALSE
  /\ \E ok \in BOOLEAN :
       child' = IF ok THEN [at |-> "boot", test |-> ChildManifest[index]] ELSE NoChild
  /\ UNCHANGED <<setup, narrowed, index, results, files>>

\* The promise resolves: record the result, and go on to the next test.
Take ==
  /\ main = "child" /\ promise # Pending
  /\ results' = Record(narrowed[index], promise)
  /\ index' = index + 1
  /\ main' = IF index' > Len(narrowed) THEN "report" ELSE "loop"
  /\ promise' = Pending
  /\ UNCHANGED <<setup, narrowed, child, verdict, stalled, files, written, timer>>

\* The report is written, or cannot be; either way the directories are removed.
Report ==
  /\ main = "report"
  /\ main' = "end"
  /\ files' = files \ {"narrowed", "generated"}
  /\ UNCHANGED <<setup, narrowed, index, results, child, verdict, stalled, written, timer, promise>>

-----------------------------------------------------------------------------
(* runChild() and runExec().                                                *)

ChildKeeps == UNCHANGED <<setup, parent, timer, promise>>

\* The core is created and the inputs written to it; any of it may throw, or
\* not come back. A child whose promise rejects exits without a result.
Boot ==
  /\ child.at = "boot"
  /\ \E at \in {"exec", "hang", "zombie"} : child' = [child EXCEPT !.at = at]
  /\ UNCHANGED <<verdict, stalled, files, written>> /\ ChildKeeps

\* The core's logger appends a stall report to the file as it arrives.
ReportStall ==
  /\ child.at \in {"exec", "hang"} /\ ~stalled
  /\ stalled' = TRUE /\ files' = files \cup {"stall"}
  /\ UNCHANGED <<child, verdict, written>> /\ ChildKeeps

\* exec() returns a code or throws, and the output is compared; the core may
\* abort the process, or never come back.
Compare ==
  /\ child.at = "exec"
  /\ \/ /\ child' = [child EXCEPT !.at = "done"]
        /\ \E status \in {"pass", "fail"} : verdict' = Verdict(child.test, status)
     \/ /\ \E at \in {"hang", "zombie"} : child' = [child EXCEPT !.at = at]
        /\ UNCHANGED verdict
  /\ UNCHANGED <<stalled, files, written>> /\ ChildKeeps

\* writeFileSync(): the file is there before all of it is.
StartWriting ==
  /\ child.at = "done"
  /\ child' = [child EXCEPT !.at = "writing"]
  /\ files' = files \cup {"result"} /\ written' = Verdict(child.test, "half")
  /\ UNCHANGED <<verdict, stalled>> /\ ChildKeeps

WriteResult ==
  /\ child.at = "writing"
  /\ child' = [child EXCEPT !.at = "exiting"] /\ written' = verdict
  /\ UNCHANGED <<verdict, stalled, files>> /\ ChildKeeps

\* The process ends when its event loop is empty, which it may never be.
Exit ==
  /\ child.at \in {"writing", "exiting"}
  /\ \/ child' = [child EXCEPT !.at = "zombie"]
     \/ child.at = "exiting" /\ child' = [child EXCEPT !.at = "hang"]
  /\ UNCHANGED <<verdict, stalled, files, written>> /\ ChildKeeps

Child == Boot \/ ReportStall \/ Compare \/ StartWriting \/ WriteResult \/ Exit

-----------------------------------------------------------------------------
(* The watchdog.                                                            *)

\* Mutant: the job is over when its child has been told to die.
ResolveAtOnce ==
  /\ promise' = Result("fail", stalled)
  /\ files' = files \ {"result", "stall"}

\* What the timer does beside the kill: nothing, "exit" will follow.
AwaitExit == UNCHANGED <<promise, files>>

\* Mutant: the timer is the child's own.
ChildTimer == timer = "armed" /\ child.at \notin {"exec", "hang"}

Due == timer = "armed"

\* The timer fires and the process group is sent SIGKILL; the child may have
\* ended by itself meanwhile, its "exit" still to come.
Fire ==
  /\ main = "child" /\ Due /\ promise = Pending
  /\ timer' = "fired"
  /\ AwaitExit
  /\ UNCHANGED <<setup, parent, child, verdict, stalled, written>>

\* The signal reaches the child wherever it is.
Kill ==
  /\ timer = "fired" /\ child.at \in Running
  /\ child' = [child EXCEPT !.at = "zombie"]
  /\ UNCHANGED <<setup, parent, verdict, stalled, files, written, timer, promise>>

\* "error": there is no child.
SpawnError ==
  /\ main = "child" /\ child.at = "none" /\ promise = Pending
  /\ timer' = "off" /\ promise' = Result("fail", FALSE)
  /\ UNCHANGED <<setup, parent, child, verdict, stalled, files, written>>

\* What the files say: a timeout and a result that does not parse are failures,
\* and a failure carries the stall reports.
ReadResult ==
  IF timer = "fired" \/ "result" \notin files THEN Result("fail", "stall" \in files)
  ELSE Result(IF written.status = "half" THEN "fail" ELSE written.status,
              written.status # "pass" /\ "stall" \in files)

\* Mutant: the files of a run that timed out stay.
RemoveRead == files \ (IF timer = "fired" THEN {} ELSE {"result", "stall"})

RemoveFiles == files \ {"result", "stall"}

\* "exit": the child is gone and reaped.
OnExit ==
  /\ main = "child" /\ child.at = "zombie" /\ promise = Pending
  /\ timer' = IF timer = "fired" THEN "fired" ELSE "off"
  /\ promise' = ReadResult
  /\ files' = RemoveFiles
  /\ child' = NoChild
  /\ UNCHANGED <<setup, parent, verdict, stalled, written>>

Parent == Begin \/ Skip \/ Spawn \/ Take \/ Report
Events == Fire \/ Kill \/ SpawnError \/ OnExit

Next == Parent \/ Child \/ Events

Spec == Init /\ [][Next]_vars

\* The parent's code runs, its timer fires and SIGKILL kills. Nothing is assumed
\* of a child.
FairSpec == Spec /\ WF_vars(Parent) /\ WF_vars(Events)

-----------------------------------------------------------------------------
(* Properties.                                                              *)

\* A test passes only if a child ran that test, by its index in the manifest it
\* read, and its whole result said so.
PassIsEarned ==
  [][\A r \in {results'[i] : i \in DOMAIN results' \ DOMAIN results} :
       r.status = "pass" => verdict = Verdict(r.name, "pass")]_vars

\* The report has every test of the narrowed manifest once, in order, the
\* skipped ones included: the summary adds up.
EachTestOnce ==
  /\ Len(results) <= Len(narrowed)
  /\ \A i \in DOMAIN results : results[i].name = narrowed[i]
  /\ main \in {"report", "end"} => Len(results) = Len(narrowed)

\* A test that failed after its child reported a stall says so, above all when
\* the child had to be killed (run.mjs:138: `the evidence has to survive').
StallsSurvive ==
  [][\A r \in {results'[i] : i \in DOMAIN results' \ DOMAIN results} :
       r.status = "fail" /\ stalled => r.stall]_vars

\* What the report says of a test is what its child did.
ReportIsTrue == PassIsEarned /\ StallsSurvive

\* Nothing of a run is left on disk, whatever its children came to.
TempFilesRemoved ==
  /\ main \in {"loop", "report"} => files \cap {"result", "stall"} = {}
  /\ main = "end" => files = {}

\* The runner's books are straight, on disk and in the report.
Accounted == TypeOK /\ EachTestOnce /\ TempFilesRemoved

\* The run ends, although any of its children may hang anywhere.
RunEnds == <>(main = "end")

Guard == INSTANCE Watchdog WITH
  job   <- IF main = "child" /\ promise = Pending THEN "started" ELSE "idle",
  alive <- IF child.at \in Running THEN {"child"} ELSE {}

\* The runner is a Watchdog: no child is left when the next test starts.
KeepsWatch == Guard!Spec
=============================================================================
