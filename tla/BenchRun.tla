------------------------------- MODULE BenchRun -------------------------------
(***************************************************************************)
(* scripts/bench/run.mjs: the parent measures each case several times. A    *)
(* sample is a fresh child, time, which forks node, this script with --one,  *)
(* which runs the core itself or, natively, forks ffmpeg. They are one        *)
(* process group, which a watchdog timer of the parent kills. A node that      *)
(* dies while it waits for ffmpeg takes nothing down with it.                  *)
(***************************************************************************)
EXTENDS Integers, Sequences

CONSTANTS
  Native,     \* --native: the samples run ffmpeg itself
  Orphans,    \* whether node may die while its ffmpeg lives
  Downloads,  \* for each case, whether its input is downloaded
  Runs,       \* --runs
  Walls       \* the wall-clock times a sample may have

\* What the command line and the list of cases can be.
BenchAssumption ==
  /\ Downloads \in Seq(BOOLEAN) /\ Downloads # << >>
  /\ Runs \in Nat /\ Walls \subseteq Nat /\ Orphans \in BOOLEAN

Null == -1
Sample(ok, wall) == [ok |-> ok, wall |-> wall]
Results == [ok : BOOLEAN, wall : Walls \cup {Null}]
Pending == Sample(FALSE, -2)

VARIABLES
  main,     \* where the parent's main() is
  case,     \* the case it is at
  input,    \* its input is there
  run,      \* how many samples of it have been started and awaited
  samples,  \* for each case so far, those taken
  group,    \* the processes of the sample's group that are alive
  strays,   \* whether a process of an earlier sample is alive
  ended,    \* how node has ended, then time: "no", "zero" or "failed"
  stats,    \* the wall-clock time in time's file, if it has written it
  timer,    \* the watchdog: "off", "armed" or "fired"
  promise   \* what runUnderTime() resolved with

parent == <<main, case, input, run, samples>>
child  == <<group, strays, ended, stats>>
vars   == <<parent, child, timer, promise>>

Cases     == DOMAIN Downloads
Processes == {"time", "node", "ffmpeg"}

Init ==
  /\ main = "loop" /\ case = 1 /\ input = FALSE /\ run = 0 /\ samples = [c \in Cases |-> << >>]
  /\ group = {} /\ strays = FALSE /\ ended = "no" /\ stats = Null
  /\ timer = "off" /\ promise = Pending

TypeOK ==
  /\ main \in {"loop", "sample", "report", "end", "failed"}
  /\ case \in Cases /\ input \in BOOLEAN /\ run \in 0 .. Runs
  /\ samples \in [Cases -> Seq(Results)]
  /\ group \subseteq Processes /\ strays \in BOOLEAN /\ ended \in {"no", "zero", "failed"}
  /\ stats \in Walls \cup {Null} /\ timer \in {"off", "armed", "fired"}
  /\ promise \in Results \cup {Pending}

-----------------------------------------------------------------------------
(* bench().                                                                 *)

\* downloadInput(): a bad status, a wrong hash or its timeout ends the run, but
\* not without removing the directory.
Prepare ==
  /\ main = "loop" /\ ~input
  /\ \/ input' = TRUE /\ main' = main
     \/ Downloads[case] /\ main' = "failed" /\ input' = input
  /\ UNCHANGED <<case, run, samples, child, timer, promise>>

\* runUnderTime(): spawn time, detached, in a group of its own.
Spawn ==
  /\ main = "loop" /\ input /\ run < Runs
  /\ main' = "sample" /\ timer' = "armed" /\ promise' = Pending
  /\ group' \in {{"time"}, {}} /\ ended' = "no" /\ stats' = Null
  /\ UNCHANGED <<case, input, run, samples, strays>>

Take ==
  /\ main = "sample" /\ promise # Pending
  /\ main' = "loop" /\ promise' = Pending /\ run' = run + 1
  /\ samples' = [samples EXCEPT ![case] = Append(@, promise)]
  /\ UNCHANGED <<case, input, child, timer>>

NextCase ==
  /\ main = "loop" /\ input /\ run = Runs
  /\ IF case = Len(Downloads) THEN main' = "report" /\ UNCHANGED <<case, input, run>>
     ELSE case' = case + 1 /\ input' = FALSE /\ run' = 0 /\ UNCHANGED main
  /\ UNCHANGED <<samples, child, timer, promise>>

Report ==
  /\ main = "report" /\ main' = "end"
  /\ UNCHANGED <<case, input, run, samples, child, timer, promise>>

-----------------------------------------------------------------------------
(* time, node and ffmpeg.                                                   *)

ChildKeeps == UNCHANGED <<parent, timer, promise>>

\* time forks node, and for a native sample node forks ffmpeg and waits for it.
Fork ==
  /\ \/ group = {"time"} /\ ended = "no" /\ group' = {"time", "node"}
     \/ Native /\ group = {"time", "node"} /\ group' = Processes
  /\ UNCHANGED <<strays, ended, stats>> /\ ChildKeeps

\* runOne() ends, after its ffmpeg: node exits with 0 only if the command came to 0.
NodeEnds ==
  /\ "node" \in group
  /\ group' = group \ {"node", "ffmpeg"} /\ ended' \in {"zero", "failed"}
  /\ UNCHANGED <<strays, stats>> /\ ChildKeeps

\* node dies in execFileSync(), and leaves ffmpeg to itself.
NodeDies ==
  /\ Orphans /\ {"node", "ffmpeg"} \subseteq group
  /\ group' = group \ {"node"} /\ ended' = "failed"
  /\ UNCHANGED <<strays, stats>> /\ ChildKeeps

OrphanEnds ==
  /\ \/ "ffmpeg" \in group /\ "node" \notin group
        /\ group' = group \ {"ffmpeg"} /\ UNCHANGED strays
     \/ strays /\ strays' = FALSE /\ UNCHANGED group
  /\ UNCHANGED <<ended, stats>> /\ ChildKeeps

\* time waits for node alone; it writes its statistics, of a run that failed as
\* well, and exits with the code of node.
TimeEnds ==
  /\ "time" \in group /\ "node" \notin group /\ ended # "no"
  /\ group' = group \ {"time"} /\ stats' \in Walls
  /\ UNCHANGED <<strays, ended>> /\ ChildKeeps

Sampled == Fork \/ NodeEnds \/ NodeDies \/ OrphanEnds \/ TimeEnds

-----------------------------------------------------------------------------
(* The watchdog.                                                            *)

Fire ==
  /\ main = "sample" /\ timer = "armed"
  /\ timer' = "fired"
  /\ UNCHANGED <<parent, child, promise>>

\* kill(-pid, "SIGKILL"), and with it what there is of the group.
Kill ==
  /\ timer = "fired" /\ group # {}
  /\ group' = {} /\ ended' = "failed"
  /\ UNCHANGED <<parent, strays, stats, timer, promise>>

Good == timer # "fired" /\ ended = "zero"

\* finish(), at the "error" of a child that could not be spawned or the "exit"
\* of time. The statistics file is read, if it is there, and removed. Whatever is
\* left of the group is on its own from here.
OnExit ==
  /\ main = "sample" /\ promise = Pending /\ "time" \notin group
  /\ timer' = "off"
  /\ promise' = Sample(Good, stats)
  /\ stats' = Null
  /\ strays' = (strays \/ group # {}) /\ group' = {}
  /\ UNCHANGED <<parent, ended>>

Parent == Prepare \/ Spawn \/ Take \/ NextCase \/ Report
Events == Fire \/ Kill \/ OnExit

Next == Parent \/ Sampled \/ Events

Spec == Init /\ [][Next]_vars

\* A sample is good only if node ended by itself with 0, and then it has been
\* measured: a late answer to the watchdog is no answer.
GoodIsMeasured ==
  [][promise = Pending /\ promise'.ok =>
       timer # "fired" /\ ended = "zero" /\ promise'.wall # Null]_vars

\* Every case of a report has all its samples, the failed ones too.
AllSamples == main \in {"report", "end"} => \A c \in Cases : Len(samples[c]) = Runs

\* Between samples no timer is armed that could kill the next group early, and
\* no statistics file is left.
NothingPending == main # "sample" => timer = "off" /\ stats = Null

Guard == INSTANCE Watchdog WITH
  job   <- IF main = "sample" /\ promise = Pending THEN "started" ELSE "idle",
  alive <- IF strays THEN group \cup {"stray"} ELSE group

\* The benchmark is a Watchdog: nothing a sample forked lives on beside the next
\* one, taking its time and memory. A node that dies before its ffmpeg breaks
\* that, so it needs ~Orphans: finish() comes at the exit of time, and with it the
\* watchdog goes.
KeepsWatch == Guard!Spec
=============================================================================
