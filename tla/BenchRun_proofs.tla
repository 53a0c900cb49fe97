---------------------------- MODULE BenchRun_proofs ----------------------------
(***************************************************************************)
(* What BenchRun promises, for every list of cases, number of runs and      *)
(* wall-clock time.                                                          *)
(***************************************************************************)
EXTENDS BenchRun, TLAPS

\* A sample is under way: its promise has not resolved.
Sampling == main = "sample" /\ promise = Pending

\* Processes live only during a sample, time as long as node, and unless there are
\* orphans node as long as ffmpeg.
GroupOfSample ==
  /\ "node" \in group => "time" \in group
  /\ ~Sampling => group = {} /\ timer = "off" /\ stats = Null
  /\ Sampling /\ "time" \notin group /\ ended = "zero" => stats # Null
  /\ ~Orphans => ~strays /\ group \in {{}, {"time"}, {"time", "node"}, Processes}

\* The cases before the present one have all their samples, the later ones none.
SamplesSoFar ==
  /\ \A c \in Cases : Len(samples[c]) = IF c < case THEN Runs ELSE IF c = case THEN run ELSE 0
  /\ main \in {"report", "end"} => case = Len(Downloads) /\ run = Runs
  /\ main = "sample" => run < Runs

IInv == TypeOK /\ GroupOfSample /\ SamplesSoFar

-----------------------------------------------------------------------------

LEMMA CasesByIndex ==
  ASSUME BenchAssumption
  PROVE  Len(Downloads) \in Nat \ {0} /\ Cases = 1 .. Len(Downloads)
BY DEF BenchAssumption, Cases

\* What the end of a case does to the counters.
LEMMA CaseEnds ==
  ASSUME BenchAssumption, TypeOK, NextCase
  PROVE  /\ case \in 1 .. Len(Downloads) /\ case' \in 1 .. Len(Downloads)
         /\ run = Runs /\ run' \in 0 .. Runs /\ input' \in BOOLEAN /\ main' \in {"loop", "report"}
         /\ \/ case = Len(Downloads) /\ case' = case /\ run' = run
            \/ case' = case + 1 /\ run' = 0 /\ main' = "loop"
<1>1. case \in 1 .. Len(Downloads) /\ Len(Downloads) \in Nat /\ Runs \in Nat /\ input \in BOOLEAN
  BY CasesByIndex DEF TypeOK, BenchAssumption
<1>2. CASE case = Len(Downloads)
  BY <1>1, <1>2 DEF NextCase
<1>3. CASE case # Len(Downloads)
  <2>1. case' = case + 1 /\ run' = 0 /\ run = Runs /\ input' = FALSE /\ main' = "loop"
    BY <1>3 DEF NextCase
  <2>2. case + 1 \in 1 .. Len(Downloads) /\ 0 \in 0 .. Runs
    BY <1>1, <1>3
  <2>3. QED
    BY <1>1, <2>1, <2>2
<1>4. QED
  BY <1>2, <1>3

LEMMA InitInv == ASSUME BenchAssumption PROVE Init => IInv
<1> SUFFICES ASSUME Init PROVE IInv
  OBVIOUS
<1> USE DEF Init, Cases, Null
<1>1. 1 \in 1 .. Len(Downloads) /\ DOMAIN Downloads = 1 .. Len(Downloads)
  BY CasesByIndex DEF Cases
<1>2. TypeOK
  <2>1. samples \in [Cases -> Seq(Results)]
    OBVIOUS
  <2>2. 0 \in 0 .. Runs
    BY DEF BenchAssumption
  <2>3. QED
    BY <1>1, <2>1, <2>2 DEF TypeOK
<1>3. GroupOfSample
  BY DEF GroupOfSample, Sampling
<1>4. SamplesSoFar
  BY <1>1 DEF SamplesSoFar
<1>5. QED
  BY <1>2, <1>3, <1>4 DEF IInv

\* Every variable keeps its type.
LEMMA TypeStep == ASSUME BenchAssumption, TypeOK, SamplesSoFar, [Next]_vars PROVE TypeOK'
<1> USE DEF TypeOK, BenchAssumption
<1>1. CASE Prepare
  BY <1>1 DEF Prepare, child
<1>2. CASE Spawn
  BY <1>2 DEF Spawn, Processes
<1>3. CASE Take
  <2>1. run' \in 0 .. Runs
    BY <1>3 DEF Take, SamplesSoFar
  <2>2. promise \in Results
    BY <1>3 DEF Take
  <2>3. samples' \in [Cases -> Seq(Results)]
    BY <1>3, <2>2 DEF Take
  <2>4. QED
    BY <1>3, <2>1, <2>3 DEF Take, child
<1>4. CASE NextCase
  <2>1. case' \in Cases /\ run' \in 0 .. Runs /\ input' \in BOOLEAN /\ main' \in {"loop", "report"}
    BY <1>4, CaseEnds, CasesByIndex
  <2>2. QED
    BY <1>4, <2>1 DEF NextCase, child
<1>5. CASE Report
  BY <1>5 DEF Report, child
<1>6. CASE Fork
  BY <1>6 DEF Fork, ChildKeeps, parent, Processes
<1>7. CASE NodeEnds \/ NodeDies \/ OrphanEnds
  BY <1>7 DEF NodeEnds, NodeDies, OrphanEnds, ChildKeeps, parent, Processes
<1>8. CASE TimeEnds
  BY <1>8 DEF TimeEnds, ChildKeeps, parent
<1>9. CASE Fire
  BY <1>9 DEF Fire, parent, child
<1>10. CASE Kill
  BY <1>10 DEF Kill, parent
<1>11. CASE OnExit
  <2>1. promise' \in Results
    BY <1>11 DEF OnExit, Sample, Good, Results
  <2>2. strays' \in BOOLEAN /\ group' \in SUBSET Processes
    BY <1>11 DEF OnExit
  <2>3. QED
    BY <1>11, <2>1, <2>2 DEF OnExit, parent
<1>12. CASE UNCHANGED vars
  BY <1>12 DEF vars, parent, child
<1>13. QED
  BY <1>1, <1>2, <1>3, <1>4, <1>5, <1>6, <1>7, <1>8, <1>9, <1>10, <1>11, <1>12
     DEF Next, Parent, Sampled, Events

\* What finish() resolves with is not the promise's pending value.
LEMMA Resolved == \A w : w # -2 => \A b : Sample(b, w) # Pending
BY DEF Sample, Pending

\* Processes, timer and statistics file stay those of one sample.
LEMMA GroupStep ==
  ASSUME BenchAssumption, TypeOK, GroupOfSample, [Next]_vars PROVE GroupOfSample'
<1> USE DEF GroupOfSample, Sampling, Null
<1>1. CASE Prepare
  BY <1>1 DEF Prepare, child
<1>2. CASE Spawn
  BY <1>2 DEF Spawn
<1>3. CASE Take
  BY <1>3 DEF Take, child
<1>4. CASE NextCase
  BY <1>4 DEF NextCase, child
<1>5. CASE Report
  BY <1>5 DEF Report, child
<1>6. CASE Fork
  BY <1>6 DEF Fork, ChildKeeps, parent, Processes
<1>7. CASE NodeEnds \/ NodeDies \/ OrphanEnds
  <2>1. /\ Sampling' = Sampling /\ UNCHANGED <<stats, timer>> /\ group' \subseteq group
        /\ "time" \in group' <=> "time" \in group
        /\ ended' = "zero" => ended = "zero" \/ NodeEnds
        /\ "node" \in group' => "node" \in group
    BY <1>7 DEF NodeEnds, NodeDies, OrphanEnds, ChildKeeps, parent
  <2>2. ~Sampling => group' = {}
    BY <1>7 DEF NodeEnds, NodeDies, OrphanEnds
  <2>3. NodeEnds => Sampling
    BY DEF NodeEnds
  <2>4. ~Orphans => ~strays' /\ group' \in {{}, {"time"}, {"time", "node"}, Processes}
    BY <1>7 DEF NodeEnds, NodeDies, OrphanEnds, Processes
  <2> QED BY <2>1, <2>2, <2>3, <2>4 DEF NodeEnds
<1>8. CASE TimeEnds
  BY <1>8 DEF TimeEnds, ChildKeeps, parent, BenchAssumption, Processes
<1>9. CASE Fire
  BY <1>9 DEF Fire, parent, child, Sample, Pending
<1>10. CASE Kill
  BY <1>10 DEF Kill, parent
<1>11. CASE OnExit
  <2>1. stats # -2
    BY DEF TypeOK, BenchAssumption
  <2>2. promise' # Pending
    BY <1>11, <2>1, Resolved DEF OnExit
  <2>3. ~Orphans => group = {}
    BY <1>11 DEF OnExit, Processes
  <2>4. group' = {} /\ timer' = "off" /\ stats' = Null
    BY <1>11 DEF OnExit
  <2>5. ~Orphans => ~strays'
    BY <1>11, <2>3 DEF OnExit
  <2>6. QED
    BY <2>2, <2>4, <2>5
<1>12. CASE UNCHANGED vars
  BY <1>12 DEF vars, parent, child
<1>13. QED
  BY <1>1, <1>2, <1>3, <1>4, <1>5, <1>6, <1>7, <1>8, <1>9, <1>10, <1>11, <1>12
     DEF Next, Parent, Sampled, Events

\* Samples are only ever added to the present case, one for each run.
LEMMA SamplesStep ==
  ASSUME BenchAssumption, TypeOK, SamplesSoFar, [Next]_vars PROVE SamplesSoFar'
<1> USE DEF SamplesSoFar
<1>1. CASE Prepare
  BY <1>1 DEF Prepare
<1>2. CASE Spawn
  BY <1>2 DEF Spawn
<1>3. CASE Take
  <2>1. ASSUME NEW c \in Cases PROVE Len(samples'[c]) = IF c = case THEN Len(samples[c]) + 1 ELSE Len(samples[c])
    <3>1. promise \in Results /\ samples[case] \in Seq(Results) /\ samples[c] \in Seq(Results)
      BY <1>3 DEF Take, TypeOK
    <3>2. samples'[c] = IF c = case THEN Append(samples[case], promise) ELSE samples[c]
      BY <1>3 DEF Take, TypeOK
    <3>3. QED
      BY <3>1, <3>2
  <2>2. QED
    BY <1>3, <2>1, CasesByIndex DEF Take, TypeOK, BenchAssumption
<1>4. CASE NextCase
  <2>1. samples' = samples
    BY <1>4 DEF NextCase
  <2>2. ASSUME NEW c \in Cases
        PROVE Len(samples'[c]) = IF c < case' THEN Runs ELSE IF c = case' THEN run' ELSE 0
    BY <1>4, <2>1, CaseEnds, CasesByIndex
  <2>3. QED
    BY <1>4, <2>2, CaseEnds
<1>5. CASE Report
  BY <1>5 DEF Report
<1>6. CASE Sampled
  BY <1>6 DEF Sampled, Fork, NodeEnds, NodeDies, OrphanEnds, TimeEnds, ChildKeeps, parent
<1>7. CASE Events
  BY <1>7 DEF Events, Fire, Kill, OnExit, parent
<1>8. CASE UNCHANGED vars
  BY <1>8 DEF vars, parent
<1>9. QED
  BY <1>1, <1>2, <1>3, <1>4, <1>5, <1>6, <1>7, <1>8 DEF Next, Parent

LEMMA Inductive == ASSUME BenchAssumption PROVE Spec => []IInv
<1>1. Init => IInv
  BY InitInv
<1>2. IInv /\ [Next]_vars => IInv'
  BY TypeStep, GroupStep, SamplesStep DEF IInv
<1>3. QED
  BY <1>1, <1>2, PTL DEF Spec

-----------------------------------------------------------------------------

\* Every case of a report has all its samples, the failed ones too.
THEOREM ReportsAreComplete == ASSUME BenchAssumption PROVE Spec => []AllSamples
<1>1. IInv => AllSamples
  BY DEF IInv, TypeOK, SamplesSoFar, AllSamples, Cases, BenchAssumption
<1>2. QED
  BY <1>1, Inductive, PTL

\* No timer is armed and no statistics file is left between two samples.
THEOREM NothingStaysPending == ASSUME BenchAssumption PROVE Spec => []NothingPending
<1>1. IInv => NothingPending
  BY DEF IInv, GroupOfSample, Sampling, NothingPending
<1>2. QED
  BY <1>1, Inductive, PTL

\* A sample counts as good only if it ended by itself with 0, before the
\* watchdog, and then there is a measurement of it.
THEOREM GoodSamplesAreMeasured == ASSUME BenchAssumption PROVE Spec => GoodIsMeasured
<1> DEFINE Measured == promise = Pending /\ promise'.ok =>
             timer # "fired" /\ ended = "zero" /\ promise'.wall # Null
<1>1. IInv /\ [Next]_vars => [Measured]_vars
  <2> SUFFICES ASSUME IInv, Next, promise = Pending, promise'.ok PROVE Measured
    BY DEF vars, Pending, Sample
  <2>1. ~Pending.ok
    BY DEF Pending, Sample
  <2>2. OnExit
    BY <2>1 DEF Next, Parent, Sampled, Events, Prepare, Spawn, Take, NextCase, Report, Fork,
                NodeEnds, NodeDies, OrphanEnds, TimeEnds, ChildKeeps, Fire, Kill
  <2>3. "time" \notin group
    BY <2>2 DEF OnExit
  <2>4. promise'.ok = Good /\ promise'.wall = stats
    BY <2>2 DEF OnExit, Sample
  <2>5. QED
    BY <2>2, <2>3, <2>4 DEF OnExit, Good, IInv, GroupOfSample, Sampling
<1>2. QED
  BY <1>1, Inductive, PTL DEF Spec, GoodIsMeasured

\* If node does not die before its ffmpeg, nothing a sample started is left when
\* the next one starts: the benchmark implements Watchdog.
THEOREM BenchKeepsWatch == ASSUME BenchAssumption, ~Orphans PROVE Spec => KeepsWatch
<1> DEFINE job == IF main = "sample" /\ promise = Pending THEN "started" ELSE "idle"
           alive == IF strays THEN group \cup {"stray"} ELSE group
<1>1. Init => Guard!Init
  BY DEF Init, Guard!Init
<1>2. IInv /\ IInv' /\ [Next]_vars => [Guard!Next]_<<job, alive>>
  <2> SUFFICES ASSUME IInv, IInv', [Next]_vars PROVE Guard!Next \/ UNCHANGED <<job, alive>>
    OBVIOUS
  <2> USE DEF IInv, GroupOfSample, Sampling
  <2>1. CASE Prepare \/ Take \/ NextCase \/ Report
    BY <2>1 DEF Prepare, Take, NextCase, Report, child
  <2>2. CASE Spawn
    BY <2>2 DEF Spawn, Guard!Next, Guard!Start
  <2>3. CASE Fork
    BY <2>3 DEF Fork, ChildKeeps, parent, Processes, Guard!Next, Guard!Fork
  <2>4. CASE NodeEnds \/ NodeDies \/ OrphanEnds \/ TimeEnds
    <3>1. group' \subseteq group /\ UNCHANGED <<main, promise>>
      BY <2>4 DEF NodeEnds, NodeDies, OrphanEnds, TimeEnds, ChildKeeps, parent, Processes
    <3>2. QED
      BY <3>1 DEF Guard!Next, Guard!Die
  <2>5. CASE Fire
    BY <2>5 DEF Fire, parent, child
  <2>6. CASE Kill
    BY <2>6 DEF Kill, parent, Guard!Next, Guard!Die
  <2>7. CASE OnExit
    <3>1. stats # -2
      BY DEF TypeOK, BenchAssumption, Null
    <3>2. promise' # Pending
      BY <2>7, <3>1, Resolved DEF OnExit
    <3>3. group = {}
      BY <2>7 DEF OnExit, Processes
    <3>4. QED
      BY <2>7, <3>2, <3>3 DEF OnExit, parent, Guard!Next, Guard!Finish
  <2>8. CASE UNCHANGED vars
    BY <2>8 DEF vars, parent, child
  <2>9. QED
    BY <2>1, <2>2, <2>3, <2>4, <2>5, <2>6, <2>7, <2>8 DEF Next, Parent, Sampled, Events
<1>3. QED
  BY <1>1, <1>2, Inductive, PTL DEF Spec, KeepsWatch, Guard!Spec
=============================================================================
