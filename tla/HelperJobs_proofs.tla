------------------------- MODULE HelperJobs_proofs -------------------------
(***************************************************************************)
(* What the helpers promise of their directories, results and listeners, for *)
(* any number of jobs, files, events and lost workers.                       *)
(***************************************************************************)
EXTENDS HelperJobs, FiniteSetTheorems, TLAPS

Asked == Range(inbox)
Told  == Range(outbox)

\* Job j cleans up after an abort: what it called before may still be served.
GaveUp(j) == At(j, "rmList") /\ job[j].outcome \in {"aborted", "failed"}

\* A job whose signal fired during a call has rejected as that call makes it.
Obeys(r, call) ==
  call \in RunCalls => r.outcome = Rejection(r.kind, call, "aborted")

\* The first request of the clean-up of job j comes after the i-th in the inbox.
CleansAfter(i, j) ==
  \E k \in DOMAIN inbox : i < k /\ inbox[k].job = j /\ inbox[k].op = "rmList"

\* A request is its job's present call, or was aborted and precedes the clean-up.
RequestsInOrder ==
  \A i \in DOMAIN inbox, j \in Jobs : inbox[i].job = j =>
    \/ At(j, inbox[i].op)
    \/ inbox[i].op \in RunCalls /\ GaveUp(j) /\ CleansAfter(i, j)

CommandInOrder ==
  \A j \in Jobs : running.busy /\ running.job = j =>
    At(j, "command") \/ (GaveUp(j) /\ CleansAfter(0, j))

RepliesInOrder ==
  \A m \in Told, j \in Jobs : m.job = j /\ m.op \in Calls =>
    At(j, m.op) \/ (m.op \in RunCalls /\ job[j].at \in CleanCalls \cup {"done"})

\* Two messages for calls of one job that cannot be under way together.
Clash(j, op, m) == m.job = j /\ (m.op = op \/ (m.op \in RunCalls /\ op \in RunCalls))

OneEach(q) ==
  \A i, k \in DOMAIN q : i # k /\ q[i].op \in Calls => ~Clash(q[i].job, q[i].op, q[k])

\* A job has one call under way, and after an abort that of the clean-up too.
OneCall ==
  /\ OneEach(inbox) /\ OneEach(outbox)
  /\ \A r \in Asked, m \in Told : ~Clash(r.job, r.op, m)
  /\ running.busy => \A m \in Asked \cup Told : ~Clash(running.job, "command", m)

InOrder == RequestsInOrder /\ CommandInOrder /\ RepliesInOrder /\ OneCall

\* Jobs in flight have directories of their own, all numbered so far.
OwnDirs ==
  /\ \A j \in Jobs : InFlight(j) => Dir(j) < nextJob
  /\ \A j, k \in Jobs : InFlight(j) /\ InFlight(k) /\ Dir(j) = Dir(k) => j = k

\* Every file is in the directory of the job in flight that wrote it, under a
\* name of its own.
FilesAgree ==
  /\ NothingLeft /\ IsFiniteSet(files)
  /\ \A f \in files : \A j \in Jobs : InFlight(j) /\ Dir(j) = f.dir => f.by = j
  /\ \A f, g \in files : f.dir = g.dir /\ f.name = g.name => f = g

\* What is in the directory of job j.
Own(j)     == FilesIn(Dir(j))
OutputsOf(j) == {f \in Own(j) : f.name # Input}
InputOf(j) == [dir |-> Dir(j), name |-> Input, by |-> j, whole |-> TRUE]
Fresh(j)   == Dir(j) \in dirs /\ Own(j) = {}
Ready(j)   == Dir(j) \in dirs /\ Own(j) = {InputOf(j)}

\* The files of job j are the input and the outputs 1 to n.
Numbered(j, n) ==
  /\ \A f \in Own(j) : f.name <= n
  /\ \A i \in 0 .. n : \E f \in Own(j) : f.name = i

\* The command of job j has ended well.
Written(j) ==
  /\ Dir(j) \in dirs
  /\ \E n \in Nat : Numbered(j, n)
  /\ job[j].kind # "probe" => \A f \in Own(j) : f.whole

Distinct(s) == \A i, k \in DOMAIN s : i # k => s[i] # s[k]

\* What a request of job j will find.
Requested(j) ==
  \A r \in Asked : r.job = j =>
    /\ r.op = "createDir" => Dir(j) \notin dirs
    /\ r.op = "writeFile" => Fresh(j)
    /\ r.op = "command" => Ready(j)
    /\ r.op = "readFrame" => r.name = Len(job[j].got) + 1
    /\ r.op = "rmFile" => \E f \in Own(j) :
         f.name = r.name /\ f \notin Range(job[j].todo) /\ Own(j) = {f} \cup Range(job[j].todo)
    /\ r.op = "rmDir" => Own(j) = {}

\* What the command of job j has found and done.
Commanded(j) ==
  running.busy /\ running.job = j =>
    Dir(j) \in dirs /\ InputOf(j) \in files /\ Numbered(j, running.wrote)

\* What message m says, if it is the reply that job j awaits.
Says(j, m) ==
  /\ m.op = "createDir" /\ m.result = "ok" => Fresh(j)
  /\ m.op = "writeFile" /\ m.result = "ok" => Ready(j)
  /\ m.op = "command" /\ m.result \in GoodExit(j) => Written(j)
  /\ m.op = "readFile" /\ m.result = "ok" => \E f \in Own(j) : m.files = <<f>>
  /\ m.op = "listDir" /\ m.result = "ok" => Range(m.files) = Own(j)
  /\ m.op = "readFrame" /\ m.result = "ok" =>
       \E f \in Own(j) : m.files = <<f>> /\ f.name = Len(job[j].got) + 1
  /\ m.op = "rmList" =>
       IF m.result = "ok" THEN Range(m.files) = Own(j) /\ Distinct(m.files)
       ELSE m.result = "error" /\ Dir(j) \notin dirs
  /\ m.op = "rmFile" => m.result = "ok" /\ Own(j) = Range(job[j].todo)
  /\ m.op = "rmDir" => Dir(j) \notin dirs
Answered(j) == \A m \in Told : m.job = j /\ At(j, m.op) => Says(j, m)

\* The first n frames.
GotFrames(j) ==
  \A i \in DOMAIN job[j].got : job[j].got[i].name = i
GotOwn(j) ==
  \A i \in DOMAIN job[j].got : job[j].got[i].by = j /\ job[j].got[i].whole

\* How far job j has come.
Reading(j) ==
  /\ job[j].at \in {"readFile", "listDir", "readFrame"} =>
       Written(j) /\ (job[j].kind = "frames" <=> ~At(j, "readFile"))
  /\ At(j, "readFrame") =>
       /\ GotFrames(j) /\ GotOwn(j)
       /\ Numbered(j, Len(job[j].got) + 1 + Len(job[j].todo))
       /\ \A i \in DOMAIN job[j].todo : job[j].todo[i].name = Len(job[j].got) + 1 + i
  /\ At(j, "rmFile") => Distinct(job[j].todo)

Ended(j) ==
  /\ job[j].outcome = "result" =>
       /\ job[j].at \in CleanCalls \cup {"done"} /\ GotOwn(j)
       /\ job[j].kind = "frames" => GotFrames(j)
       /\ job[j].kind = "frames" /\ At(j, "rmList") => Numbered(j, Len(job[j].got))
  /\ job[j].at \in {"idle", "input"} \cup RunCalls => job[j].outcome = "none"
  /\ Obeys(job[j], abortedAt[j])
  /\ abortedAt[j] \in RunCalls => job[j].at \in CleanCalls \cup {"done"}

Stage(j) == Requested(j) /\ Commanded(j) /\ Answered(j) /\ Reading(j) /\ Ended(j)

IInv ==
  /\ TypeOK /\ ListensWhileRunning
  /\ InOrder /\ OwnDirs /\ FilesAgree
  /\ \A j \in Jobs : Stage(j)

USE HelperAssumption DEF HelperAssumption

-----------------------------------------------------------------------------
(* Queues.                                                                  *)

LEMMA RangeAppend ==
  ASSUME NEW S, NEW s \in Seq(S), NEW e \in S
  PROVE  Range(Append(s, e)) = Range(s) \cup {e}
<1>1. DOMAIN Append(s, e) = DOMAIN s \cup {Len(s) + 1}
  OBVIOUS
<1>2. \A i \in DOMAIN s : Append(s, e)[i] = s[i]
  OBVIOUS
<1>3. Append(s, e)[Len(s) + 1] = e
  OBVIOUS
<1> QED BY <1>1, <1>2, <1>3 DEF Range

\* The rest of a queue, whose elements have moved up by one.
LEMMA TailMoves ==
  ASSUME NEW S, NEW s \in Seq(S), s # << >>
  PROVE  /\ Head(s) \in S /\ Tail(s) \in Seq(S) /\ Len(s) > 0
         /\ DOMAIN Tail(s) = 1 .. Len(s) - 1
         /\ 1 \in DOMAIN s /\ Head(s) = s[1]
         /\ \A i \in DOMAIN Tail(s) : i + 1 \in DOMAIN s /\ Tail(s)[i] = s[i + 1]
OBVIOUS

LEMMA RangeTail ==
  ASSUME NEW S, NEW s \in Seq(S), s # << >>
  PROVE  Range(s) = Range(Tail(s)) \cup {Head(s)}
<1>1. \A i \in DOMAIN s : i = 1 \/ i - 1 \in DOMAIN Tail(s)
  BY TailMoves
<1>2. \A i \in DOMAIN s : i # 1 => s[i] = Tail(s)[i - 1]
  BY <1>1, TailMoves
<1>3. Range(s) \subseteq Range(Tail(s)) \cup {Head(s)}
  BY <1>1, <1>2, TailMoves DEF Range
<1>4. Range(Tail(s)) \cup {Head(s)} \subseteq Range(s)
  BY TailMoves DEF Range
<1> QED BY <1>3, <1>4

LEMMA RangeType ==
  ASSUME NEW S, NEW s \in Seq(S) PROVE Range(s) \subseteq S
BY DEF Range

LEMMA RangeEmpty == Range(<< >>) = {}
BY DEF Range

-----------------------------------------------------------------------------
(* Types.                                                                   *)

JobRecord == [at : Steps, kind : Kinds, source : Sources, dir : Nat,
              outcome : Outcomes, todo : Seq(File), got : Seq(File)]

LEMMA InitType == Init => TypeOK
<1> SUFFICES ASSUME Init PROVE TypeOK
  OBVIOUS
<1>1. NewJob \in JobRecord
  BY DEF NewJob, JobRecord, Steps, Kinds, Sources, Outcomes
<1>2. job \in [Jobs -> JobRecord]
  BY <1>1 DEF Init
<1>3. tails \in [Jobs -> Seq(Jobs)] /\ \A j \in Jobs : Len(tails[j]) <= LogTail
  BY DEF Init
<1>4. /\ abortedAt \in [Jobs -> Steps \cup {"never"}] /\ inbox \in Seq(Request)
      /\ outbox \in Seq(Message)
  BY DEF Init
<1> QED BY <1>2, <1>3, <1>4 DEF Init, TypeOK, JobRecord

\* A job that asks, from a record that differs in a few locals.
LEMMA AskType ==
  ASSUME TypeOK, NEW j \in Jobs, NEW r \in JobRecord, NEW op \in Calls, NEW n \in Nat,
         Ask(j, r, op, n)
  PROVE  job' \in [Jobs -> JobRecord] /\ inbox' \in Seq(Request)
<1>1. [r EXCEPT !.at = op] \in JobRecord
  BY DEF JobRecord, Steps
<1>2. [job |-> j, op |-> op, name |-> n] \in Request
  BY DEF Request
<1> QED BY <1>1, <1>2 DEF TypeOK, Ask, OnlyJob, JobRecord

\* A record with new locals is a record.
LEMMA RecordType ==
  ASSUME NEW r \in JobRecord
  PROVE  /\ << >> \in Seq(File)
         /\ \A t \in Seq(File) :
              /\ [r EXCEPT !.todo = t] \in JobRecord
              /\ [r EXCEPT !.at = "done", !.todo = t] \in JobRecord
         /\ \A o \in Outcomes : [r EXCEPT !.at = "done", !.outcome = o] \in JobRecord
         /\ \A o \in Outcomes, t \in Seq(File) : [r EXCEPT !.outcome = o, !.todo = t] \in JobRecord
         /\ \A t \in Seq(File), g \in Seq(File) : [r EXCEPT !.todo = t, !.got = g] \in JobRecord
         /\ \A o \in Outcomes, g \in Seq(File) : [r EXCEPT !.got = g, !.outcome = o] \in JobRecord
         /\ \A o \in Outcomes, t \in Seq(File), g \in Seq(File) :
              [r EXCEPT !.todo = t, !.got = g, !.outcome = o] \in JobRecord
<1>1. "done" \in Steps
  BY DEF Steps
<1>2. << >> \in Seq(File)
  OBVIOUS
<1> QED BY <1>1, <1>2 DEF JobRecord

LEMMA FileQueue ==
  ASSUME NEW q \in Seq(File), q # << >>
  PROVE  Head(q) \in File /\ Head(q).name \in Nat /\ Tail(q) \in Seq(File)
<1>1. Head(q) \in File /\ Tail(q) \in Seq(File)
  OBVIOUS
<1> QED BY <1>1 DEF File

LEMMA JobType ==
  ASSUME TypeOK, NEW j \in Jobs
  PROVE  job[j] \in JobRecord /\ job \in [Jobs -> JobRecord]
BY DEF TypeOK, JobRecord


LEMMA LeastOf ==
  ASSUME NEW D \in SUBSET Nat, D # {}
  PROVE  \E n \in D : \A k \in D : n <= k
<1>1. PICK n \in D : \A k \in D : <<k, n>> \notin OpToRel(<, Nat)
  BY NatLessThanWellFounded, WFMin, Zenon
<1>2. \A k \in D : ~(k < n)
  BY <1>1 DEF OpToRel
<1> QED BY <1>2

\* Numbers from 1 to n that increase are the numbers from 1 to n.
LEMMA Increasing ==
  ASSUME NEW n \in Nat, NEW c \in [1 .. n -> 1 .. n],
         \A i, k \in 1 .. n : i < k => c[i] < c[k]
  PROVE  \A i \in 1 .. n : c[i] = i
<1>1. \A i \in 1 .. n : c[i] >= i
  <2> SUFFICES ASSUME \E i \in 1 .. n : c[i] < i PROVE FALSE
    OBVIOUS
  <2> DEFINE D == {i \in 1 .. n : c[i] < i}
  <2>1. D \in SUBSET Nat /\ D # {}
    OBVIOUS
  <2>2. PICK i \in D : \A k \in D : i <= k
    <3> HIDE DEF D
    <3> QED BY <2>1, LeastOf
  <2>3. i - 1 \in 1 .. n
    BY <2>2
  <2>4. i - 1 \notin D
    BY <2>2
  <2>5. c[i - 1] >= i - 1 /\ c[i - 1] < c[i] /\ c[i] < i
    BY <2>2, <2>3, <2>4
  <2> QED BY <2>2, <2>3, <2>5
<1>2. \A i \in 1 .. n : c[i] <= i
  <2> SUFFICES ASSUME \E i \in 1 .. n : c[i] > i PROVE FALSE
    OBVIOUS
  <2> DEFINE D == {i \in 0 .. n : i # n /\ c[n - i] > n - i}
  <2>1. D \in SUBSET Nat
    OBVIOUS
  <2>2. D # {}
    <3>1. PICK i \in 1 .. n : c[i] > i
      OBVIOUS
    <3>2. n - i \in D
      BY <3>1
    <3> QED BY <3>2
  <2>3. PICK k \in D : \A i \in D : k <= i
    <3> HIDE DEF D
    <3> QED BY <2>1, <2>2, LeastOf
  <2> DEFINE i == n - k
  <2>4. i \in 1 .. n /\ c[i] > i /\ c[i] \in 1 .. n
    BY <2>3
  <2>5. i + 1 \in 1 .. n
    BY <2>4
  <2>6. k - 1 \notin D /\ k - 1 \in 0 .. n /\ n - (k - 1) = i + 1
    <3>1. k \in Nat /\ k <= n /\ k >= 1
      BY <2>3, <2>5
    <3>2. k - 1 < k
      BY <3>1
    <3> HIDE DEF D
    <3> QED BY <2>3, <3>1, <3>2 DEF i
  <2>7. c[i + 1] <= i + 1
    BY <2>5, <2>6
  <2> QED BY <2>4, <2>5, <2>7
<1> QED BY <1>1, <1>2

\* The outputs 1 to n of a job, by their numbers.
LEMMA Outputs ==
  ASSUME FilesAgree, NEW j \in Jobs, NEW n \in Nat, Numbered(j, n), \A f \in Own(j) : f.name \in Nat
  PROVE  /\ Cardinality(OutputsOf(j)) = n /\ \A f \in OutputsOf(j) : f \in Own(j) /\ f.name \in 1 .. n
         /\ \E s \in [1 .. n -> OutputsOf(j)] : \A i \in 1 .. n : s[i].name = i
<1> DEFINE S == OutputsOf(j)
           s == [i \in 1 .. n |-> CHOOSE f \in Own(j) : f.name = i]
<1>1. \A i \in 1 .. n : s[i] \in Own(j) /\ s[i].name = i
  BY DEF Numbered
<1>2. \A f, g \in Own(j) : f.name = g.name => f = g
  BY DEF FilesAgree, Own, FilesIn
<1>3. \A f \in S : f \in Own(j) /\ f.name \in 1 .. n
  BY DEF Numbered, Input, OutputsOf
<1>4. \A f \in S : f = s[f.name]
  BY <1>1, <1>2, <1>3
<1>5. s \in [1 .. n -> S]
  BY <1>1 DEF Input, OutputsOf
<1>6. s \in Bijection(1 .. n, S)
  <2> HIDE DEF s, S
  <2>1. \A a, b \in 1 .. n : s[a] = s[b] => a = b
    BY <1>1
  <2> QED BY <1>3, <1>4, <1>5, <2>1 DEF Bijection, Injection, Surjection, IsInjective
<1>7. Cardinality(S) = n
  <2> HIDE DEF s, S
  <2> QED BY <1>6, FS_CountingElements DEF ExistsBijection
<1> HIDE DEF s
<1> QED BY <1>1, <1>3, <1>5, <1>7

\* The frames of a job whose command ended well, in the order of their numbers.
LEMMA FramesSorted ==
  ASSUME FilesAgree, NEW j \in Jobs, NEW n \in Nat, Numbered(j, n), \A f \in Own(j) : f.name \in Nat,
         NEW names, Range(names) = Own(j)
  PROVE  Frames(names) \in [1 .. n -> Own(j)] /\ \A i \in 1 .. n : Frames(names)[i].name = i
<1> DEFINE S == OutputsOf(j)
<1>1. {f \in Range(names) : f.name # Input} = S
  BY DEF OutputsOf
<1>2. Cardinality(S) = n /\ \A f \in S : f \in Own(j) /\ f.name \in 1 .. n
  BY Outputs
<1>3. PICK s \in [1 .. n -> S] : \A i \in 1 .. n : s[i].name = i
  BY Outputs
<1>4. s \in SetToSeqs(S) /\ \A i, k \in DOMAIN s : i < k => s[i].name < s[k].name
  <2> HIDE DEF S
  <2>1. DOMAIN s = 1 .. n
    OBVIOUS
  <2> QED BY <1>2, <1>3, <2>1 DEF SetToSeqs
<1> DEFINE t == Frames(names)
<1>5. t \in SetToSeqs(S) /\ \A i, k \in DOMAIN t : i < k => t[i].name < t[k].name
  BY <1>1, <1>4 DEF Frames
<1> HIDE DEF S, t
<1>6. t \in [1 .. n -> S]
  BY <1>2, <1>5 DEF SetToSeqs
<1>7. \A i \in 1 .. n : t[i] \in Own(j) /\ t[i].name \in 1 .. n
  BY <1>2, <1>6
<1> DEFINE c == [i \in 1 .. n |-> t[i].name]
<1>8. \A i \in 1 .. n : c[i] = i
  <2>1. c \in [1 .. n -> 1 .. n]
    BY <1>7
  <2>2. \A i, k \in 1 .. n : i < k => c[i] < c[k]
    BY <1>5, <1>6
  <2> HIDE DEF c
  <2> QED BY <2>1, <2>2, Increasing
<1> QED BY <1>6, <1>7, <1>8 DEF t

LEMMA UpTo ==
  ASSUME NEW n \in Nat
  PROVE  IsFiniteSet(1 .. n) /\ Cardinality(1 .. n) = n
<1>1. n \in Int /\ 1 \in Int
  OBVIOUS
<1>2. IsFiniteSet(1 .. n) /\ Cardinality(1 .. n) = IF 1 > n THEN 0 ELSE n - 1 + 1
  BY <1>1, FS_Interval, Zenon
<1> QED BY <1>2

\* A directory's entries, in any order, are all of its files.
LEMMA Listed ==
  ASSUME IsFiniteSet(files), NEW d, NEW s \in SetToSeqs(FilesIn(d))
  PROVE  Range(s) = FilesIn(d) /\ Distinct(s) /\ s \in Seq(FilesIn(d))
<1> DEFINE S == FilesIn(d)
           n == Cardinality(S)
<1>1. IsFiniteSet(S) /\ n \in Nat
  BY FS_Subset, FS_CardinalityType DEF FilesIn
<1>2. s \in [1 .. n -> S] /\ \A i, k \in 1 .. n : i # k => s[i] # s[k]
  BY DEF SetToSeqs
<1> HIDE DEF S, n
<1>3. s \in Injection(1 .. n, S)
  BY <1>2 DEF Injection, IsInjective
<1>4. IsFiniteSet(1 .. n) /\ Cardinality(1 .. n) = n
  BY <1>1, UpTo
<1>5. s \in Surjection(1 .. n, S)
  BY <1>1, <1>3, <1>4, FS_Injection DEF n
<1> QED BY <1>1, <1>2, <1>5 DEF Surjection, Range, Distinct, S

LEMMA JobKeepsType ==
  ASSUME TypeOK, job' \in [Jobs -> JobRecord], inbox' \in Seq(Request), outbox' \in Seq(Message),
         logging' \subseteq Jobs, progress' \subseteq {OnProgress[j] : j \in Jobs}, nextJob' \in Nat,
         UNCHANGED <<abortedAt, tails, serverVars>>
  PROVE  TypeOK'
BY DEF TypeOK, JobRecord, serverVars

\* A message is taken from the outbox.
LEMMA Delivered ==
  ASSUME TypeOK, Deliver
  PROVE  /\ Incoming \in Message /\ outbox' \in Seq(Message) /\ outbox' = Tail(outbox)
         /\ Told = Told' \cup {Incoming}
<1>1. outbox \in Seq(Message) /\ outbox # << >> /\ outbox' = Tail(outbox)
  BY DEF TypeOK, Deliver
<1>2. Range(outbox) = Range(Tail(outbox)) \cup {Head(outbox)}
  BY <1>1, RangeTail
<1> QED BY <1>1, <1>2, TailMoves DEF Told, Incoming

LEMMA LeaveType ==
  ASSUME TypeOK, NEW j \in Jobs, NEW o \in Outcomes, Leave(j, o)
  PROVE  /\ job' \in [Jobs -> JobRecord] /\ inbox' \in Seq(Request)
         /\ logging' \subseteq Jobs /\ progress' \subseteq progress
<1>1. [job[j] EXCEPT !.outcome = o, !.todo = << >>] \in JobRecord
  BY JobType, RecordType
<1>2. "rmList" \in Calls /\ Input \in Nat
  BY DEF Calls, CleanCalls, Input
<1> QED BY <1>1, <1>2, AskType DEF Leave, TypeOK, Unlisten

LEMMA EnterType ==
  ASSUME TypeOK, NEW j \in Jobs, NEW r \in JobRecord, EnterDir(j, r)
  PROVE  job' \in [Jobs -> JobRecord] /\ inbox' \in Seq(Request) /\ nextJob' \in Nat
<1>1. nextJob \in Nat /\ nextJob' = nextJob + 1
  BY DEF EnterDir, TypeOK
<1> DEFINE named == [r EXCEPT !.dir = nextJob]
<1>2. named \in JobRecord
  BY <1>1 DEF JobRecord
<1>3. "createDir" \in Calls /\ Input \in Nat
  BY DEF Calls, RunCalls, Input
<1>4. CASE worker
  <2>1. Ask(j, named, "createDir", Input)
    BY <1>4 DEF EnterDir
  <2> HIDE DEF named
  <2> QED BY <1>1, <1>2, <1>3, <2>1, AskType
<1>5. CASE ~worker
  <2>1. [named EXCEPT !.at = "done", !.outcome = "lost"] \in JobRecord
    <3> HIDE DEF named
    <3> QED BY <1>2, RecordType DEF Outcomes
  <2>2. OnlyJob(j, [named EXCEPT !.at = "done", !.outcome = "lost"]) /\ UNCHANGED inbox
    BY <1>5 DEF EnterDir
  <2>3. job' \in [Jobs -> JobRecord]
    <3> DEFINE settled == [named EXCEPT !.at = "done", !.outcome = "lost"]
    <3>1. settled \in JobRecord /\ OnlyJob(j, settled)
      BY <2>1, <2>2
    <3> HIDE DEF settled
    <3> QED BY <3>1, JobType DEF OnlyJob
  <2> QED BY <1>1, <2>2, <2>3 DEF TypeOK
<1> QED BY <1>4, <1>5

\* A job that settles without a call.
LEMMA DoneType ==
  ASSUME TypeOK, NEW j \in Jobs, NEW o \in Outcomes,
         OnlyJob(j, [job[j] EXCEPT !.at = "done", !.outcome = o])
  PROVE  job' \in [Jobs -> JobRecord]
BY DEF TypeOK, OnlyJob, JobRecord, Steps

LEMMA StartTypes ==
  ASSUME TypeOK, NEW j \in Jobs,
         Reject(j) \/ InputRead(j) \/ InputFails(j) \/ \E m \in Menu : Start(j, m[1], m[2])
  PROVE  TypeOK'
<1>1. CASE Reject(j) \/ InputFails(j)
  <2>1. /\ \E o \in Outcomes : OnlyJob(j, [job[j] EXCEPT !.at = "done", !.outcome = o])
        /\ UNCHANGED <<logging, progress, inbox, outbox, closure>>
    BY <1>1 DEF Reject, InputFails, Outcomes
  <2>2. job' \in [Jobs -> JobRecord]
    BY <2>1, DoneType
  <2> QED BY <2>1, <2>2 DEF TypeOK, closure, serverVars, JobRecord
<1>2. CASE InputRead(j)
  <2>1. job' \in [Jobs -> JobRecord] /\ inbox' \in Seq(Request) /\ nextJob' \in Nat
    BY <1>2, EnterType, JobType DEF InputRead
  <2> QED BY <1>2, <2>1, JobKeepsType DEF InputRead, TypeOK
<1>3. CASE \E m \in Menu : Start(j, m[1], m[2])
  <2>1. PICK kind \in Kinds, source \in Sources : Start(j, kind, source)
    BY <1>3
  <2> DEFINE r == [job[j] EXCEPT !.kind = kind, !.source = source]
  <2>2. r \in JobRecord
    BY JobType DEF JobRecord
  <2>3. job' \in [Jobs -> JobRecord] /\ inbox' \in Seq(Request) /\ nextJob' \in Nat
    <3>1. CASE source = "bytes"
      <4>1. EnterDir(j, r)
        BY <2>1, <3>1 DEF Start
      <4> HIDE DEF r
      <4> QED BY <2>2, <4>1, EnterType
    <3>2. CASE source # "bytes"
      <4>1. OnlyJob(j, [r EXCEPT !.at = "input"]) /\ UNCHANGED <<nextJob, inbox>>
        BY <2>1, <3>2 DEF Start
      <4>2. [r EXCEPT !.at = "input"] \in JobRecord
        BY <2>2 DEF JobRecord, Steps
      <4> QED BY <4>1, <4>2 DEF OnlyJob, TypeOK, JobRecord
    <3> QED BY <3>1, <3>2
  <2> QED BY <2>1, <2>3, JobKeepsType DEF Start, TypeOK
<1> QED BY <1>1, <1>2, <1>3

LEMMA AbortType == ASSUME TypeOK, NEW j \in Jobs, Abort(j) PROVE TypeOK'
<1>1. /\ job' \in [Jobs -> JobRecord] /\ inbox' \in Seq(Request)
      /\ logging' \subseteq Jobs /\ progress' \subseteq progress
  <2> DEFINE why == Rejection(job[j].kind, job[j].at, "aborted")
  <2>1. "aborted" \in Outcomes /\ why \in Outcomes
    BY DEF Outcomes, Rejection
  <2>2. CASE Leave(j, why)
    <3> HIDE DEF why
    <3> QED BY <2>1, <2>2, LeaveType
  <2>3. CASE OnlyJob(j, [job[j] EXCEPT !.at = "done", !.outcome = "aborted"]) /\ UNCHANGED <<logging, progress, inbox>>
    BY <2>1, <2>3, DoneType DEF TypeOK
  <2>4. CASE UNCHANGED <<job, logging, progress, inbox>>
    BY <2>4 DEF TypeOK, JobRecord
  <2> QED BY <2>2, <2>3, <2>4 DEF Abort
<1>2. abortedAt' \in [Jobs -> Steps \cup {"never"}] /\ stops' \subseteq Jobs
  <2>1. job[j].at \in Steps
    BY DEF TypeOK
  <2> QED BY <2>1 DEF Abort, TypeOK
<1>3. UNCHANGED <<tails, nextJob, worker, losses, outbox, dirs, files, running>>
  BY DEF Abort
<1> QED BY <1>1, <1>2, <1>3 DEF TypeOK, JobRecord

\* A reply that makes its job ask again.
LEMMA AskedType ==
  ASSUME TypeOK, Deliver, NEW j \in Jobs, NEW r \in JobRecord, NEW op \in Calls, NEW n \in Nat,
         Ask(j, r, op, n), logging' \subseteq Jobs, progress' \subseteq {OnProgress[k] : k \in Jobs},
         UNCHANGED closure
  PROVE  TypeOK'
BY AskType, Delivered, JobKeepsType DEF closure, TypeOK

LEMMA ReadFramesType ==
  ASSUME TypeOK, Deliver, NEW j \in Jobs, NEW todo \in Seq(File), NEW got \in Seq(File),
         ReadFrames(j, todo, got), UNCHANGED <<progress, closure>>
  PROVE  TypeOK'
<1>1. CASE todo # << >>
  <2>1. [job[j] EXCEPT !.todo = Tail(todo), !.got = got] \in JobRecord
    BY <1>1, JobType, RecordType, FileQueue
  <2>2. Head(todo).name \in Nat
    BY <1>1, FileQueue
  <2> QED BY <1>1, <2>1, <2>2, AskedType DEF ReadFrames, Calls, RunCalls, TypeOK
<1>2. CASE todo = << >>
  <2>1. [job[j] EXCEPT !.todo = << >>, !.got = got, !.outcome = "result"] \in JobRecord
    BY JobType, RecordType DEF Outcomes
  <2> QED BY <1>2, <2>1, AskedType DEF ReadFrames, Calls, CleanCalls, TypeOK, Input
<1> QED BY <1>1, <1>2

LEMMA RemoveNextType ==
  ASSUME TypeOK, Deliver, NEW j \in Jobs, NEW todo \in Seq(File),
         RemoveNext(j, todo), UNCHANGED <<logging, progress, closure>>
  PROVE  TypeOK'
<1>1. CASE todo # << >>
  <2>1. [job[j] EXCEPT !.todo = Tail(todo)] \in JobRecord
    BY <1>1, JobType, RecordType, FileQueue
  <2>2. Head(todo).name \in Nat
    BY <1>1, FileQueue
  <2> QED BY <1>1, <2>1, <2>2, AskedType DEF RemoveNext, Calls, CleanCalls, TypeOK
<1>2. CASE todo = << >>
  <2>1. [job[j] EXCEPT !.todo = << >>] \in JobRecord
    BY JobType, RecordType
  <2> QED BY <1>2, <2>1, AskedType DEF RemoveNext, Calls, CleanCalls, TypeOK, Input
<1> QED BY <1>1, <1>2

\* A message that a job awaits, or an event.
LEMMA IncomingType ==
  ASSUME TypeOK, Deliver
  PROVE  /\ Incoming.job \in Jobs /\ Incoming.op \in Calls \cup {"log", "progress"}
         /\ Incoming.result \in Results /\ Incoming.files \in Seq(File)
         /\ Incoming.files # << >> => Head(Incoming.files) \in File
<1>1. Incoming \in Message
  BY Delivered
<1>2. Incoming.files \in Seq(File)
  BY <1>1 DEF Message
<1> QED BY <1>1, <1>2, FileQueue DEF Message

LEMMA ReplyType ==
  ASSUME TypeOK, NEW j \in Jobs,
         DirCreated(j) \/ FileWritten(j) \/ CommandDone(j) \/ CallFails(j)
  PROVE  TypeOK'
<1>1. job[j] \in JobRecord /\ Deliver
  BY JobType DEF DirCreated, FileWritten, CommandDone, CallFails, Replied
<1>2. Input \in Nat /\ 1 \in Nat /\ logging \subseteq Jobs /\ progress \subseteq {OnProgress[k] : k \in Jobs}
  BY DEF Input, TypeOK
<1>3. CASE DirCreated(j)
  <2>1. "writeFile" \in Calls
    BY DEF Calls, RunCalls
  <2>2. Ask(j, job[j], "writeFile", Input) /\ UNCHANGED <<logging, progress, closure>>
    BY <1>3 DEF DirCreated
  <2> QED BY <1>1, <1>2, <2>1, <2>2, AskedType
<1>4. CASE FileWritten(j)
  <2>1. "command" \in Calls
    BY DEF Calls, RunCalls
  <2>2. /\ Ask(j, job[j], "command", Input) /\ UNCHANGED closure
        /\ logging' \subseteq Jobs /\ progress' \subseteq {OnProgress[k] : k \in Jobs}
    BY <1>2, <1>4 DEF FileWritten
  <2> QED BY <1>1, <1>2, <2>1, <2>2, AskedType
<1>5. CASE CommandDone(j)
  <2>1. "listDir" \in Calls /\ "readFile" \in Calls
    BY DEF Calls, RunCalls
  <2>2. /\ Ask(j, job[j], "listDir", Input) \/ Ask(j, job[j], "readFile", 1)
        /\ UNCHANGED closure
        /\ logging' \subseteq Jobs /\ progress' \subseteq {OnProgress[k] : k \in Jobs}
    BY <1>2, <1>5 DEF CommandDone, Unlisten
  <2> QED BY <1>1, <1>2, <2>1, <2>2, AskedType
<1>6. CASE CallFails(j)
  <2>1. Leave(j, "failed") /\ UNCHANGED closure
    BY <1>6 DEF CallFails
  <2>2. "failed" \in Outcomes
    BY DEF Outcomes
  <2>3. outbox' \in Seq(Message)
    BY <1>1, Delivered
  <2> QED BY <1>2, <2>1, <2>2, <2>3, LeaveType, JobKeepsType DEF closure, TypeOK
<1> QED BY <1>3, <1>4, <1>5, <1>6

\* The reply that job j awaits is one of the messages, and says what it says.
LEMMA Heard ==
  ASSUME TypeOK, NEW j \in Jobs, Answered(j), NEW op, NEW results, Replied(j, op, results)
  PROVE  /\ Deliver /\ Incoming \in Told /\ Incoming.job = j /\ Incoming.op = op /\ At(j, op)
         /\ Incoming.result \in results /\ Says(j, Incoming)
<1>1. Deliver /\ Incoming.job = j /\ Incoming.op = op /\ At(j, op) /\ Incoming.result \in results
  BY DEF Replied
<1>2. Incoming \in Told
  BY <1>1, Delivered
<1> QED BY <1>1, <1>2 DEF Answered

LEMMA OutputType ==
  ASSUME TypeOK, NEW j \in Jobs, Answered(j), OutputRead(j)
  PROVE  TypeOK'
<1>1. Replied(j, "readFile", {"ok"}) /\ UNCHANGED <<progress, closure>>
  BY DEF OutputRead
<1>2. PICK f \in Own(j) : Incoming.files = <<f>>
  BY <1>1, Heard DEF Says
<1>3. f \in File /\ Head(Incoming.files) = f /\ <<f>> \in Seq(File)
  BY <1>2 DEF Own, FilesIn, TypeOK
<1> DEFINE usable == job[j].kind = "transcode" \/ f.whole
           g == IF usable THEN <<f>> ELSE job[j].got
           o == IF usable THEN "result" ELSE "failed"
           r == [job[j] EXCEPT !.got = g, !.outcome = o]
<1>4. Ask(j, r, "rmList", Input) /\ logging' = logging \ {j}
  BY <1>3 DEF OutputRead
<1>5. r \in JobRecord
  <2>1. g \in Seq(File) /\ o \in Outcomes
    BY <1>3 DEF Outcomes, TypeOK
  <2> HIDE DEF g, o
  <2> QED BY <2>1, JobType, RecordType
<1>6. Deliver /\ "rmList" \in Calls /\ Input \in Nat /\ logging' \subseteq Jobs
  BY <1>1, <1>4 DEF Replied, Calls, CleanCalls, Input, TypeOK
<1>7. progress' \subseteq {OnProgress[k] : k \in Jobs}
  BY <1>1 DEF TypeOK
<1> HIDE DEF r
<1> QED BY <1>1, <1>4, <1>5, <1>6, <1>7, AskedType

\* The frames of a listed directory are the outputs, and every one.
LEMMA FramesFound ==
  ASSUME TypeOK, FilesAgree, NEW j \in Jobs, NEW n \in Nat, Numbered(j, n), NEW names, Range(names) = Own(j)
  PROVE  /\ Frames(names) \in Seq(File) /\ Len(Frames(names)) = n
         /\ \A i \in 1 .. n : Frames(names)[i] \in Own(j) /\ Frames(names)[i].name = i
<1>1. Own(j) \subseteq File
  BY DEF Own, FilesIn, TypeOK
<1>2. \A f \in Own(j) : f.name \in Nat
  BY <1>1 DEF File
<1>3. Frames(names) \in [1 .. n -> Own(j)] /\ \A i \in 1 .. n : Frames(names)[i].name = i
  BY <1>2, FramesSorted
<1>4. Frames(names) \in Seq(File)
  BY <1>1, <1>3
<1> QED BY <1>3, <1>4

LEMMA FramesType ==
  ASSUME TypeOK, FilesAgree, NEW j \in Jobs, Answered(j), Reading(j), FramesListed(j) \/ FrameRead(j)
  PROVE  TypeOK'
<1>1. CASE FramesListed(j)
  <2>1. Replied(j, "listDir", {"ok"}) /\ UNCHANGED <<progress, closure>>
    BY <1>1 DEF FramesListed
  <2>2. Range(Incoming.files) = Own(j) /\ Deliver /\ At(j, "listDir")
    BY <2>1, Heard DEF Says
  <2>3. PICK n \in Nat : Numbered(j, n)
    BY <2>2 DEF Reading, Written, At
  <2>4. Frames(Incoming.files) \in Seq(File)
    BY <2>2, <2>3, FramesFound
  <2>5. << >> \in Seq(File) /\ ReadFrames(j, Frames(Incoming.files), << >>)
    BY <1>1 DEF FramesListed
  <2> QED BY <2>1, <2>2, <2>4, <2>5, ReadFramesType
<1>2. CASE FrameRead(j)
  <2>1. Replied(j, "readFrame", {"ok"}) /\ UNCHANGED <<progress, closure>>
    BY <1>2 DEF FrameRead
  <2>2. PICK f \in Own(j) : Incoming.files = <<f>>
    BY <2>1, Heard DEF Says
  <2>3. Deliver /\ Head(Incoming.files) \in File
    BY <2>1, <2>2 DEF Own, FilesIn, TypeOK, Replied
  <2>4. job[j].todo \in Seq(File) /\ job[j].got \in Seq(File)
    BY DEF TypeOK
  <2>5. Append(job[j].got, Head(Incoming.files)) \in Seq(File)
    BY <2>3, <2>4
  <2>6. ReadFrames(j, job[j].todo, Append(job[j].got, Head(Incoming.files)))
    BY <1>2 DEF FrameRead
  <2> QED BY <2>1, <2>3, <2>4, <2>5, <2>6, ReadFramesType
<1> QED BY <1>1, <1>2

LEMMA CleanUpType == ASSUME TypeOK, NEW j \in Jobs, CleanUp(j) PROVE TypeOK'
<1>1. Deliver /\ UNCHANGED <<logging, progress, closure>>
  BY DEF CleanUp, Replied
<1>2. Incoming.files \in Seq(File) /\ job[j].todo \in Seq(File)
  BY <1>1, IncomingType DEF TypeOK
<1>3. CASE RemoveNext(j, Incoming.files)
  BY <1>1, <1>2, <1>3, RemoveNextType
<1>4. CASE RemoveNext(j, job[j].todo)
  BY <1>1, <1>2, <1>4, RemoveNextType
<1>5. CASE OnlyJob(j, [job[j] EXCEPT !.at = "done", !.todo = << >>]) /\ UNCHANGED inbox
  <2> DEFINE r == [job[j] EXCEPT !.at = "done", !.todo = << >>]
  <2>1. r \in JobRecord /\ OnlyJob(j, r)
    BY <1>5, JobType, RecordType
  <2> HIDE DEF r
  <2>2. job' \in [Jobs -> JobRecord]
    BY <2>1, JobType DEF OnlyJob
  <2>3. outbox' \in Seq(Message)
    BY <1>1, Delivered
  <2> QED BY <1>1, <1>5, <2>2, <2>3, JobKeepsType DEF closure, TypeOK
<1> QED BY <1>3, <1>4, <1>5 DEF CleanUp

LEMMA PushedType ==
  ASSUME NEW t \in Seq(Jobs), Len(t) <= LogTail, NEW line \in Jobs
  PROVE  Pushed(t, line) \in Seq(Jobs) /\ Len(Pushed(t, line)) <= LogTail
<1> DEFINE a == Append(t, line)
<1>1. a \in Seq(Jobs) /\ Len(a) = Len(t) + 1
  OBVIOUS
<1>2. a # << >>
  <2>1. Len(a) > 0
    BY <1>1
  <2> HIDE DEF a
  <2> QED BY <1>1, <2>1
<1> HIDE DEF a
<1>3. Tail(a) \in Seq(Jobs) /\ Len(Tail(a)) = Len(t)
  BY <1>1, <1>2
<1>4. LogTail \in Nat
  OBVIOUS
<1> QED BY <1>1, <1>3, <1>4 DEF Pushed, a

LEMMA EventType ==
  ASSUME TypeOK, DeliverLog \/ DeliverNothing
  PROVE  TypeOK'
<1>1. outbox' \in Seq(Message) /\ Incoming.job \in Jobs
  BY Delivered, IncomingType DEF DeliverLog, DeliverNothing
<1>2. CASE DeliverLog
  <2>1. \A j \in Jobs : tails[j] \in Seq(Jobs) /\ Len(tails[j]) <= LogTail
    BY DEF TypeOK
  <2>2. \A j \in Jobs : tails'[j] \in Seq(Jobs) /\ Len(tails'[j]) <= LogTail
    BY <1>1, <1>2, <2>1, PushedType DEF DeliverLog
  <2>3. tails' \in [Jobs -> Seq(Jobs)]
    BY <1>2, <2>2 DEF DeliverLog
  <2>4. UNCHANGED <<job, abortedAt, logging, progress, nextJob, inbox, serverVars>>
    BY <1>2 DEF DeliverLog
  <2> QED BY <1>1, <2>2, <2>3, <2>4 DEF TypeOK, serverVars
<1>3. CASE DeliverNothing
  BY <1>1, <1>3 DEF DeliverNothing, TypeOK, jobVars, serverVars
<1> QED BY <1>2, <1>3

\* A request is taken from the inbox.
LEMMA Received ==
  ASSUME TypeOK, NEW op, Receive(op)
  PROVE  /\ Taken \in Request /\ Taken.job \in Jobs /\ Taken.op \in Calls /\ Taken.op \in op
         /\ Taken \in Asked /\ inbox' = Tail(inbox) /\ inbox' \in Seq(Request)
         /\ inbox # << >> /\ Asked = Asked' \cup {Taken} /\ ~running.busy /\ worker
<1>1. inbox \in Seq(Request) /\ inbox # << >> /\ inbox' = Tail(inbox)
  BY DEF TypeOK, Receive
<1>2. Range(inbox) = Range(Tail(inbox)) \cup {Head(inbox)}
  BY <1>1, RangeTail
<1>3. Taken \in Request /\ inbox' \in Seq(Request)
  BY <1>1, TailMoves DEF Taken
<1> QED BY <1>1, <1>2, <1>3 DEF Asked, Taken, Receive, Free, Request

LEMMA AnswerType ==
  ASSUME TypeOK, NEW r, r.job \in Jobs, r.op \in Calls \cup {"log", "progress"},
         NEW result \in Results, NEW fs \in Seq(File), Answer(r, result, fs)
  PROVE  /\ outbox' \in Seq(Message)
         /\ Told' = Told \cup {[job |-> r.job, op |-> r.op, result |-> result, files |-> fs]}
<1> DEFINE m == [job |-> r.job, op |-> r.op, result |-> result, files |-> fs]
<1>1. m \in Message
  BY DEF Message
<1>2. outbox \in Seq(Message) /\ outbox' = Append(outbox, m)
  BY DEF TypeOK, Answer
<1> HIDE DEF m
<1>3. outbox' \in Seq(Message)
  BY <1>1, <1>2
<1>4. Range(Append(outbox, m)) = Range(outbox) \cup {m}
  BY <1>1, <1>2, RangeAppend
<1>5. Told' = Told \cup {m}
  BY <1>2, <1>4 DEF Told
<1> QED BY <1>3, <1>5 DEF m

\* The worker has served a request.
LEMMA ServerKeepsType ==
  ASSUME TypeOK, inbox' \in Seq(Request), outbox' \in Seq(Message), dirs' \subseteq Nat, files' \subseteq File,
         running' \in {NoCommand} \cup [busy : {TRUE}, job : Jobs, wrote : Nat, events : 0 .. MaxEvents],
         UNCHANGED <<worker, losses, stops, jobVars>>
  PROVE  TypeOK'
BY DEF TypeOK, jobVars

LEMMA ListedType ==
  ASSUME TypeOK, IsFiniteSet(files), NEW d, NEW s \in SetToSeqs(FilesIn(d))
  PROVE  s \in Seq(File) /\ Range(s) = FilesIn(d) /\ Distinct(s)
<1>1. FilesIn(d) \subseteq File
  BY DEF FilesIn, TypeOK
<1>2. s \in Seq(FilesIn(d))
  BY Listed
<1>3. s \in Seq(File)
  <2> DEFINE S == FilesIn(d)
  <2>1. s \in Seq(S) /\ S \subseteq File
    BY <1>1, <1>2
  <2> HIDE DEF S
  <2> QED BY <2>1
<1> QED BY <1>3, Listed

LEMMA ServeType ==
  ASSUME TypeOK, IsFiniteSet(files), Serve
  PROVE  TypeOK'
<1>1. /\ job \in [Jobs -> JobRecord] /\ << >> \in Seq(File) /\ {"ok", "error"} \subseteq Results
      /\ dirs \subseteq Nat /\ files \subseteq File
      /\ outbox \in Seq(Message)
      /\ running \in {NoCommand} \cup [busy : {TRUE}, job : Jobs, wrote : Nat, events : 0 .. MaxEvents]
  <2>1. /\ job \in [Jobs -> JobRecord] /\ dirs \subseteq Nat /\ files \subseteq File
        /\ outbox \in Seq(Message)
    BY DEF TypeOK, JobRecord
  <2>2. running \in {NoCommand} \cup [busy : {TRUE}, job : Jobs, wrote : Nat, events : 0 .. MaxEvents]
    BY Zenon DEF TypeOK
  <2>3. << >> \in Seq(File) /\ {"ok", "error"} \subseteq Results
    BY DEF Results
  <2> QED BY <2>1, <2>2, <2>3, Zenon
<1>2. \A j \in Jobs : Dir(j) \in Nat
  BY <1>1 DEF JobRecord, Dir
<1>3. CASE ServeCreateDir
  <2>1. Receive({"createDir"}) /\ UNCHANGED <<worker, losses, files, running, stops, jobVars>>
    BY <1>3 DEF ServeCreateDir
  <2>2. PICK result \in {"ok", "error"} : Answer(Taken, result, << >>)
    BY <1>3 DEF ServeCreateDir
  <2>3. outbox' \in Seq(Message) /\ inbox' \in Seq(Request) /\ Taken.job \in Jobs
    BY <1>1, <2>1, <2>2, Received, AnswerType
  <2>4. dirs' \subseteq Nat
    BY <1>1, <1>2, <1>3, <2>3 DEF ServeCreateDir
  <2> QED BY <1>1, <2>1, <2>3, <2>4, ServerKeepsType
<1>4. CASE ServeWriteFile
  <2>1. Receive({"writeFile"}) /\ UNCHANGED <<worker, losses, dirs, running, stops, jobVars>>
    BY <1>4 DEF ServeWriteFile
  <2>2. PICK result \in {"ok", "error"} : Answer(Taken, result, << >>)
    BY <1>4 DEF ServeWriteFile
  <2>3. outbox' \in Seq(Message) /\ inbox' \in Seq(Request) /\ Taken.job \in Jobs
    BY <1>1, <2>1, <2>2, Received, AnswerType
  <2>4. files' \subseteq File
    <3>1. [dir |-> Dir(Taken.job), name |-> Input, by |-> Taken.job, whole |-> TRUE] \in File
      BY <1>2, <2>3 DEF File, Input
    <3> QED BY <1>1, <1>4, <3>1 DEF ServeWriteFile
  <2> QED BY <1>1, <2>1, <2>3, <2>4, ServerKeepsType
<1>5. CASE ServeRead
  <2>1. Receive({"readFile", "readFrame"}) /\ UNCHANGED <<jobVars, serverVars>>
    BY <1>5 DEF ServeRead
  <2>2. PICK result \in {"ok", "error"}, fs \in Seq(File) : Answer(Taken, result, fs)
    <3>1. CASE \E f \in FilesIn(Dir(Taken.job)) : Answer(Taken, "ok", <<f>>)
      <4>1. PICK f \in File : Answer(Taken, "ok", <<f>>)
        BY <1>1, <3>1 DEF FilesIn
      <4>2. <<f>> \in Seq(File)
        OBVIOUS
      <4> QED BY <4>1, <4>2
    <3>2. CASE Answer(Taken, "error", << >>)
      BY <1>1, <3>2
    <3> QED BY <1>5, <3>1, <3>2 DEF ServeRead
  <2>3. outbox' \in Seq(Message) /\ inbox' \in Seq(Request)
    BY <1>1, <2>1, <2>2, Received, AnswerType
  <2> QED BY <1>1, <2>1, <2>3, ServerKeepsType DEF serverVars
<1>6. CASE ServeList
  <2>1. Receive({"listDir", "rmList"}) /\ UNCHANGED <<jobVars, serverVars>>
    BY <1>6 DEF ServeList
  <2>2. PICK result \in {"ok", "error"}, fs \in Seq(File) : Answer(Taken, result, fs)
    BY <1>1, <1>6, ListedType DEF ServeList
  <2>3. outbox' \in Seq(Message) /\ inbox' \in Seq(Request)
    BY <1>1, <2>1, <2>2, Received, AnswerType
  <2> QED BY <1>1, <2>1, <2>3, ServerKeepsType DEF serverVars
<1>7. CASE ServeRemove
  <2>1. Receive({"rmFile", "rmDir"}) /\ UNCHANGED <<worker, losses, running, stops, jobVars>>
    BY <1>7 DEF ServeRemove
  <2>2. PICK result \in {"ok", "error"} : Answer(Taken, result, << >>)
    BY <1>7 DEF ServeRemove
  <2>3. outbox' \in Seq(Message) /\ inbox' \in Seq(Request)
    BY <1>1, <2>1, <2>2, Received, AnswerType
  <2>4. files' \subseteq files /\ dirs' \subseteq dirs
    BY <1>7 DEF ServeRemove
  <2> QED BY <1>1, <2>1, <2>3, <2>4, ServerKeepsType
<1>8. CASE StartCommand
  <2>1. Receive({"command"}) /\ UNCHANGED <<worker, losses, outbox, dirs, files, stops, jobVars>>
    BY <1>8 DEF StartCommand
  <2>2. inbox' \in Seq(Request) /\ Taken.job \in Jobs
    BY <2>1, Received
  <2>3. running' \in [busy : {TRUE}, job : Jobs, wrote : Nat, events : 0 .. MaxEvents]
    BY <1>8, <2>2 DEF StartCommand
  <2> QED BY <1>1, <2>1, <2>2, <2>3, ServerKeepsType
<1> QED BY <1>3, <1>4, <1>5, <1>6, <1>7, <1>8 DEF Serve

\* The command under way.
LEMMA Runs ==
  ASSUME TypeOK, running.busy
  PROVE  /\ running \in [busy : {TRUE}, job : Jobs, wrote : Nat, events : 0 .. MaxEvents]
         /\ running.job \in Jobs /\ running.wrote \in Nat /\ Dir(running.job) \in Nat
<1>1. running \in [busy : {TRUE}, job : Jobs, wrote : Nat, events : 0 .. MaxEvents]
  <2>1. running \in {NoCommand} \cup [busy : {TRUE}, job : Jobs, wrote : Nat, events : 0 .. MaxEvents]
    BY Zenon DEF TypeOK
  <2>2. running # NoCommand
    BY DEF NoCommand
  <2> QED BY <2>1, <2>2
<1> QED BY <1>1 DEF TypeOK, Dir

LEMMA CommandType ==
  ASSUME TypeOK, Emit \/ WriteOutput \/ End
  PROVE  TypeOK'
<1>1. /\ << >> \in Seq(File) /\ "ok" \in Results
      /\ inbox \in Seq(Request) /\ outbox \in Seq(Message) /\ dirs \subseteq Nat /\ files \subseteq File
  BY DEF TypeOK, Results
<1>2. /\ running.busy /\ running \in [busy : {TRUE}, job : Jobs, wrote : Nat, events : 0 .. MaxEvents]
      /\ running.job \in Jobs /\ running.wrote \in Nat /\ Dir(running.job) \in Nat
  BY Runs DEF Emit, WriteOutput, End, EndCommand
<1>3. CASE Emit
  <2>1. PICK event \in {"log", "progress"} : Answer([job |-> running.job, op |-> event], "ok", << >>)
    BY <1>3 DEF Emit
  <2>2. outbox' \in Seq(Message)
    <3> DEFINE r == [job |-> running.job, op |-> event]
    <3>1. r.job \in Jobs /\ r.op \in Calls \cup {"log", "progress"} /\ Answer(r, "ok", << >>)
      BY <1>2, <2>1
    <3> HIDE DEF r
    <3> QED BY <1>1, <3>1, AnswerType
  <2>3. running' \in [busy : {TRUE}, job : Jobs, wrote : Nat, events : 0 .. MaxEvents]
    <3>1. running.events \in 0 .. MaxEvents /\ running.events < MaxEvents
      BY <1>2, <1>3 DEF Emit
    <3>2. running.events + 1 \in 0 .. MaxEvents
      BY <3>1
    <3> QED BY <1>2, <1>3, <3>2 DEF Emit
  <2> QED BY <1>1, <1>3, <2>2, <2>3, ServerKeepsType DEF Emit
<1>4. CASE WriteOutput
  <2>1. running' \in [busy : {TRUE}, job : Jobs, wrote : Nat, events : 0 .. MaxEvents]
    <3>1. running.wrote + 1 \in Nat
      BY <1>2
    <3> QED BY <1>2, <1>4, <3>1 DEF WriteOutput
  <2>2. files' \subseteq File
    <3>1. [dir |-> Dir(running.job), name |-> running.wrote + 1, by |-> running.job,
           whole |-> FALSE] \in File
      BY <1>2 DEF File
    <3> QED BY <1>1, <1>4, <3>1 DEF WriteOutput
  <2> QED BY <1>1, <1>4, <2>1, <2>2, ServerKeepsType DEF WriteOutput
<1>5. CASE End
  <2>1. PICK result \in Results : EndCommand(result)
    BY <1>5 DEF End
  <2>2. outbox' \in Seq(Message)
    <3> DEFINE r == [job |-> running.job, op |-> "command"]
    <3>1. r.job \in Jobs /\ r.op \in Calls \cup {"log", "progress"} /\ Answer(r, result, << >>)
      BY <1>2, <2>1 DEF EndCommand, Calls, RunCalls
    <3> HIDE DEF r
    <3> QED BY <1>1, <3>1, AnswerType
  <2>3. PICK whole \in BOOLEAN :
          files' = {IF f.dir = Dir(running.job) /\ f.name # Input
                    THEN [f EXCEPT !.whole = whole] ELSE f : f \in files}
    BY <2>1 DEF EndCommand
  <2>4. \A f \in File : [f EXCEPT !.whole = whole] \in File
    BY DEF File
  <2>5. files' \subseteq File
    BY <1>1, <2>3, <2>4
  <2> QED BY <1>1, <2>1, <2>2, <2>5, ServerKeepsType DEF EndCommand
<1> QED BY <1>3, <1>4, <1>5

LEMMA LossType ==
  ASSUME TypeOK, LoseWorker \/ LoadAgain
  PROVE  TypeOK'
<1>1. CASE LoseWorker
  <2>1. \A j \in Jobs :
          [job[j] EXCEPT !.at = "done", !.todo = << >>,
             !.outcome = IF @ = "none" THEN Rejection(job[j].kind, job[j].at, "lost") ELSE @] \in JobRecord
    <3> TAKE j \in Jobs
    <3> DEFINE o == IF job[j].outcome = "none" THEN Rejection(job[j].kind, job[j].at, "lost")
                    ELSE job[j].outcome
    <3>1. o \in Outcomes /\ "done" \in Steps
      BY DEF TypeOK, Outcomes, Steps, Rejection
    <3>2. << >> \in Seq(File) /\ job[j] \in JobRecord
      BY JobType
    <3>3. [job[j] EXCEPT !.at = "done", !.todo = << >>, !.outcome = o] \in JobRecord
      <4> HIDE DEF o
      <4> QED BY <3>1, <3>2 DEF JobRecord
    <3> QED BY <3>3
  <2>2. job' \in [Jobs -> JobRecord]
    BY <1>1, <2>1, JobType DEF LoseWorker
  <2>3. inbox' \in Seq(Request) /\ outbox' \in Seq(Message)
    <3>1. << >> \in Seq(Request) /\ << >> \in Seq(Message)
      OBVIOUS
    <3> QED BY <1>1, <3>1 DEF LoseWorker
  <2>4. losses' \in 0 .. MaxLosses
    <3>1. losses \in 0 .. MaxLosses /\ losses < MaxLosses /\ losses' = losses + 1
      BY <1>1 DEF LoseWorker, TypeOK
    <3>2. MaxLosses \in Nat
      OBVIOUS
    <3> QED BY <3>1, <3>2
  <2> QED BY <1>1, <2>2, <2>3, <2>4 DEF LoseWorker, TypeOK, JobRecord
<1>2. CASE LoadAgain
  BY <1>2 DEF LoadAgain, TypeOK, jobVars
<1> QED BY <1>1, <1>2

-----------------------------------------------------------------------------
(* The calls under way.                                                     *)

LEMMA CallSets ==
  /\ RunCalls \subseteq Calls /\ CleanCalls \subseteq Calls /\ RunCalls \cap CleanCalls = {}
  /\ Calls \subseteq Steps /\ "rmList" \in CleanCalls /\ "command" \in RunCalls
  /\ {"idle", "input", "done"} \cap Calls = {} /\ {"log", "progress"} \cap Steps = {}
BY DEF Calls, RunCalls, CleanCalls, Steps

LEMMA AskedOps ==
  ASSUME TypeOK
  PROVE  /\ \A r \in Asked : r \in Request /\ r.job \in Jobs /\ r.op \in Calls
         /\ \A m \in Told : m \in Message /\ m.job \in Jobs /\ m.op \in Calls \cup {"log", "progress"}
         /\ \A i \in DOMAIN inbox : inbox[i] \in Asked
<1>1. inbox \in Seq(Request) /\ outbox \in Seq(Message)
  BY DEF TypeOK
<1>2. Asked \subseteq Request /\ Told \subseteq Message
  BY <1>1, RangeType DEF Asked, Told
<1>3. \A i \in DOMAIN inbox : inbox[i] \in Asked
  BY DEF Asked, Range
<1> QED BY <1>2, <1>3 DEF Request, Message

LEMMA ClashBoth ==
  ASSUME NEW r, NEW m PROVE Clash(r.job, r.op, m) <=> Clash(m.job, m.op, r)
BY DEF Clash

LEMMA EachAppend ==
  ASSUME NEW S, NEW q \in Seq(S), NEW e \in S, OneEach(q),
         \A m \in Range(q) : m.op \in Calls => ~Clash(m.job, m.op, e)
  PROVE  OneEach(Append(q, e))
<1>1. DOMAIN Append(q, e) = DOMAIN q \cup {Len(q) + 1} /\ Append(q, e)[Len(q) + 1] = e
  OBVIOUS
<1>2. \A i \in DOMAIN q : Append(q, e)[i] = q[i] /\ q[i] \in Range(q)
  BY DEF Range
<1>3. \A m \in Range(q) : e.op \in Calls => ~Clash(e.job, e.op, m)
  BY CallSets DEF Clash
<1> QED BY <1>1, <1>2, <1>3 DEF OneEach

LEMMA EachTail ==
  ASSUME NEW S, NEW q \in Seq(S), q # << >>, OneEach(q)
  PROVE  /\ OneEach(Tail(q))
         /\ \A m \in Range(Tail(q)) : Head(q).op \in Calls => ~Clash(Head(q).job, Head(q).op, m)
<1>1. \A i, k \in DOMAIN Tail(q) : i # k => i + 1 # k + 1
  BY TailMoves
<1>2. OneEach(Tail(q))
  BY <1>1, TailMoves DEF OneEach
<1>3. \A k \in DOMAIN Tail(q) : k + 1 # 1
  BY TailMoves
<1>4. \A k \in DOMAIN Tail(q) : Head(q).op \in Calls => ~Clash(Head(q).job, Head(q).op, Tail(q)[k])
  BY <1>3, TailMoves DEF OneEach
<1> QED BY <1>2, <1>4 DEF Range

\* A reply that is awaited is all there is of its job's calls.
LEMMA Awaited ==
  ASSUME TypeOK, InOrder, NEW m \in Told, NEW j \in Jobs, m.job = j, m.op \in Calls, At(j, m.op)
  PROVE  /\ \A r \in Asked : r.job # j
         /\ ~(running.busy /\ running.job = j)
<1>1. \A i : CleansAfter(i, j) => \E r \in Asked : r.job = j /\ r.op = "rmList"
  BY AskedOps DEF CleansAfter
<1>2. GaveUp(j) => m.op = "rmList"
  BY DEF GaveUp, At
<1>3. \A r \in Asked : r.job = j => r.op # m.op
  BY DEF InOrder, OneCall, Clash
<1>4. \A i : ~(GaveUp(j) /\ CleansAfter(i, j))
  BY <1>1, <1>2, <1>3
<1>5. \A i \in DOMAIN inbox : inbox[i].job # j
  BY <1>3, <1>4, AskedOps DEF InOrder, RequestsInOrder, At
<1>6. running.busy /\ running.job = j => m.op # "command"
  BY DEF InOrder, OneCall, Clash
<1>7. ~(running.busy /\ running.job = j)
  BY <1>4, <1>6 DEF InOrder, CommandInOrder, At
<1> QED BY <1>5, <1>7 DEF Asked, Range

\* A job without a call has nothing under way but late replies.
LEMMA Quiet ==
  ASSUME TypeOK, InOrder, NEW j \in Jobs, ~InFlight(j)
  PROVE  /\ \A r \in Asked : r.job # j
         /\ ~(running.busy /\ running.job = j)
         /\ \A m \in Told : m.job = j /\ m.op \in Calls => m.op \in RunCalls /\ At(j, "done")
<1>1. ~GaveUp(j) /\ \A m \in Calls : ~At(j, m)
  BY CallSets DEF GaveUp, At, InFlight
<1>2. \A i \in DOMAIN inbox : inbox[i].job # j
  BY <1>1, AskedOps DEF InOrder, RequestsInOrder
<1>3. ~(running.busy /\ running.job = j)
  BY <1>1, CallSets DEF InOrder, CommandInOrder
<1>4. \A m \in Told : m.job = j /\ m.op \in Calls => m.op \in RunCalls /\ At(j, "done")
  BY <1>1, CallSets DEF InOrder, RepliesInOrder, At, InFlight
<1> QED BY <1>2, <1>3, <1>4 DEF Asked, Range

\* Messages are only taken from the outbox.
Heeded == outbox' \in Seq(Message) /\ Told' \subseteq Told /\ OneEach(outbox')

LEMMA DeliverHeeds ==
  ASSUME TypeOK, InOrder, Deliver
  PROVE  /\ Heeded
         /\ \A m \in Told' : Incoming.op \in Calls => ~Clash(Incoming.job, Incoming.op, m)
<1>1. outbox \in Seq(Message) /\ outbox # << >> /\ outbox' = Tail(outbox) /\ OneEach(outbox)
  BY DEF TypeOK, Deliver, InOrder, OneCall
<1>2. OneEach(Tail(outbox)) /\ \A m \in Range(Tail(outbox)) : Incoming.op \in Calls => ~Clash(Incoming.job, Incoming.op, m)
  BY <1>1, EachTail DEF Incoming
<1> QED BY <1>1, <1>2, Delivered DEF Heeded, Told

LEMMA StaysHeeds ==
  ASSUME TypeOK, InOrder, UNCHANGED outbox
  PROVE  Heeded
BY DEF Heeded, TypeOK, Told, InOrder, OneCall

\* Job j changes and no other; the core goes on as before.
Acts(j) ==
  /\ \A k \in Jobs \ {j} : job'[k] = job[k]
  /\ UNCHANGED running

\* A job that has nothing under way but late replies asks.
LEMMA AsksInOrder ==
  ASSUME TypeOK, TypeOK', InOrder, Heeded, NEW j \in Jobs, Acts(j), NEW req \in Request, req.job = j,
         inbox' = Append(inbox, req), job'[j].at = req.op,
         \A r \in Asked : r.job # j, ~(running.busy /\ running.job = j),
         \A m \in Told' : m.job = j /\ m.op \in Calls => m.op \in RunCalls /\ req.op \in CleanCalls
  PROVE  InOrder' /\ Asked' = Asked \cup {req}
<1>1. inbox \in Seq(Request) /\ req.op \in Calls
  BY DEF TypeOK, Request
<1>2. DOMAIN inbox' = DOMAIN inbox \cup {Len(inbox) + 1} /\ inbox'[Len(inbox) + 1] = req
  BY <1>1
<1>3. \A i \in DOMAIN inbox : inbox'[i] = inbox[i] /\ inbox[i] \in Asked /\ inbox[i].job \in Jobs \ {j}
  BY <1>1, AskedOps
<1>4. Range(Append(inbox, req)) = Range(inbox) \cup {req}
  BY <1>1, RangeAppend
<1>5. Asked' = Asked \cup {req}
  BY <1>4 DEF Asked
<1>6. \A i, k : CleansAfter(i, k) => CleansAfter(i, k)'
  BY <1>2, <1>3 DEF CleansAfter
<1>7. \A k \in Jobs \ {j} : (GaveUp(k) => GaveUp(k)') /\ \A op : At(k, op) => At(k, op)'
  BY DEF GaveUp, At, Acts
<1>8. RequestsInOrder'
  <2>1. \A i \in DOMAIN inbox, k \in Jobs : inbox[i].job = k =>
          \/ job'[k].at = inbox[i].op
          \/ inbox[i].op \in RunCalls /\ GaveUp(k)' /\ CleansAfter(i, k)'
    BY <1>3, <1>6, <1>7 DEF InOrder, RequestsInOrder, At
  <2> QED BY <1>2, <1>3, <2>1 DEF RequestsInOrder, At
<1>9. CommandInOrder'
  BY <1>6, <1>7 DEF InOrder, CommandInOrder, Acts
<1>10. RepliesInOrder'
  <2>1. \A m \in Told', k \in Jobs \ {j} : m.job = k /\ m.op \in Calls =>
          job'[k].at = m.op \/ (m.op \in RunCalls /\ job'[k].at \in CleanCalls \cup {"done"})
    BY DEF InOrder, RepliesInOrder, Heeded, Acts, At
  <2> QED BY <2>1 DEF RepliesInOrder, At
<1>11. OneCall'
  <2>1. OneEach(inbox)'
    <3>1. \A r \in Range(inbox) : ~Clash(r.job, r.op, req)
      BY DEF Asked, Clash
    <3>2. OneEach(Append(inbox, req))
      BY <1>1, <3>1, EachAppend DEF InOrder, OneCall
    <3> QED BY <3>2 DEF OneEach
  <2>2. \A r \in Asked', m \in Told' : ~Clash(r.job, r.op, m)
    <3>1. \A r \in Asked, m \in Told' : ~Clash(r.job, r.op, m)
      BY DEF InOrder, OneCall, Heeded
    <3>2. \A m \in Told' : ~Clash(j, req.op, m)
      BY <1>1, CallSets DEF Clash
    <3> QED BY <1>5, <3>1, <3>2
  <2>3. running.busy => \A m \in Asked' \cup Told' : ~Clash(running.job, "command", m)
    BY <1>5 DEF InOrder, OneCall, Heeded, Clash
  <2>4. OneEach(outbox)'
    BY DEF Heeded, OneEach
  <2> QED BY <2>1, <2>2, <2>3, <2>4 DEF OneCall, Acts
<1> QED BY <1>5, <1>8, <1>9, <1>10, <1>11 DEF InOrder

\* A job that has nothing under way but late replies settles, or reads its input.
LEMMA RestsInOrder ==
  ASSUME TypeOK, InOrder, Heeded, NEW j \in Jobs, Acts(j), UNCHANGED inbox,
         \A r \in Asked : r.job # j, ~(running.busy /\ running.job = j),
         \A m \in Told' : m.job = j /\ m.op \in Calls => m.op \in RunCalls /\ job'[j].at = "done"
  PROVE  InOrder' /\ Asked' = Asked
<1>1. \A i, k : CleansAfter(i, k) => CleansAfter(i, k)'
  BY DEF CleansAfter
<1>2. \A k \in Jobs \ {j} : (GaveUp(k) => GaveUp(k)') /\ \A op : At(k, op) => At(k, op)'
  BY DEF GaveUp, At, Acts
<1>3. RequestsInOrder'
  <2>1. \A i \in DOMAIN inbox : inbox[i].job # j
    BY AskedOps
  <2> QED BY <1>1, <1>2, <2>1 DEF InOrder, RequestsInOrder
<1>4. CommandInOrder'
  BY <1>1, <1>2 DEF InOrder, CommandInOrder, Acts
<1>5. RepliesInOrder'
  <2>1. \A m \in Told', k \in Jobs \ {j} : m.job = k /\ m.op \in Calls =>
          job'[k].at = m.op \/ (m.op \in RunCalls /\ job'[k].at \in CleanCalls \cup {"done"})
    BY DEF InOrder, RepliesInOrder, Heeded, Acts, At
  <2> QED BY <2>1 DEF RepliesInOrder, At
<1>6. OneCall'
  <2>1. OneEach(inbox)' /\ OneEach(outbox)' /\ Asked' = Asked
    BY DEF InOrder, OneCall, OneEach, Heeded, Asked
  <2> QED BY <2>1 DEF InOrder, OneCall, Heeded, Acts
<1> QED BY <1>3, <1>4, <1>5, <1>6 DEF InOrder, Asked

\* Nothing changes for the jobs, but messages may have been taken.
LEMMA StaysInOrder ==
  ASSUME TypeOK, InOrder, Heeded, UNCHANGED <<job, inbox, running>>
  PROVE  InOrder' /\ Asked' = Asked
<1>1. RequestsInOrder' /\ CommandInOrder' /\ Asked' = Asked
  BY DEF InOrder, RequestsInOrder, CommandInOrder, CleansAfter, GaveUp, At, Asked
<1>2. RepliesInOrder'
  BY DEF InOrder, RepliesInOrder, Heeded, At
<1>3. OneEach(inbox)' /\ OneEach(outbox)'
  BY DEF InOrder, OneCall, OneEach, Heeded
<1> QED BY <1>1, <1>2, <1>3 DEF InOrder, OneCall, Heeded

\* A job gives up its call: the clean-up's first request comes behind it.
LEMMA GivesUpInOrder ==
  ASSUME TypeOK, TypeOK', InOrder, UNCHANGED outbox, NEW j \in Jobs, Acts(j), NEW req \in Request,
         req.job = j, req.op = "rmList", inbox' = Append(inbox, req),
         job[j].at \in RunCalls, job'[j].at = "rmList", job'[j].outcome \in {"aborted", "failed"}
  PROVE  InOrder' /\ Asked' = Asked \cup {req} /\ \A r \in Asked : r.job = j => r.op \in RunCalls
<1>1. inbox \in Seq(Request) /\ req.op \in Calls
  BY DEF TypeOK, Request
<1>2. /\ DOMAIN inbox' = DOMAIN inbox \cup {Len(inbox) + 1} /\ inbox'[Len(inbox) + 1] = req
      /\ \A i \in DOMAIN inbox \cup {0} : i < Len(inbox) + 1
  BY <1>1
<1>3. \A i \in DOMAIN inbox : inbox'[i] = inbox[i] /\ inbox[i] \in Asked /\ inbox[i].job \in Jobs
  BY <1>1, AskedOps
<1>4. Range(Append(inbox, req)) = Range(inbox) \cup {req}
  BY <1>1, RangeAppend
<1>5. Asked' = Asked \cup {req}
  BY <1>4 DEF Asked
<1>6. \A i, k : CleansAfter(i, k) => CleansAfter(i, k)'
  BY <1>2, <1>3 DEF CleansAfter
<1>7. \A i \in DOMAIN inbox \cup {0} : CleansAfter(i, j)'
  BY <1>2 DEF CleansAfter
<1>8. GaveUp(j)' /\ ~GaveUp(j) /\ \A op : At(j, op) => op \in RunCalls
  BY CallSets DEF GaveUp, At
<1>9. \A k \in Jobs \ {j} : (GaveUp(k) => GaveUp(k)') /\ \A op : At(k, op) => At(k, op)'
  BY DEF GaveUp, At, Acts
<1>10. \A i \in DOMAIN inbox : inbox[i].job = j => inbox[i].op \in RunCalls
  BY <1>3, <1>8 DEF InOrder, RequestsInOrder
<1>11. \A m \in Told : m.job = j /\ m.op \in Calls => m.op \in RunCalls
  BY <1>8 DEF InOrder, RepliesInOrder
<1>12. RequestsInOrder'
  <2>1. \A i \in DOMAIN inbox, k \in Jobs : inbox[i].job = k =>
          \/ At(k, inbox[i].op)'
          \/ inbox[i].op \in RunCalls /\ GaveUp(k)' /\ CleansAfter(i, k)'
    <3> SUFFICES ASSUME NEW i \in DOMAIN inbox, NEW k \in Jobs, inbox[i].job = k
        PROVE  \/ job'[k].at = inbox[i].op
               \/ inbox[i].op \in RunCalls /\ GaveUp(k)' /\ CleansAfter(i, k)'
      BY DEF At
    <3>1. CASE k = j
      BY <1>7, <1>8, <1>10, <3>1
    <3>2. CASE k # j
      BY <1>6, <1>9, <3>2 DEF InOrder, RequestsInOrder, At
    <3> QED BY <3>1, <3>2
  <2> QED BY <1>2, <1>3, <2>1 DEF RequestsInOrder, At
<1>13. CommandInOrder'
  BY <1>6, <1>7, <1>8, <1>9 DEF InOrder, CommandInOrder, Acts
<1>14. RepliesInOrder'
  <2>1. \A m \in Told, k \in Jobs : m.job = k /\ m.op \in Calls =>
          job'[k].at = m.op \/ (m.op \in RunCalls /\ job'[k].at \in CleanCalls \cup {"done"})
    BY <1>11, CallSets DEF InOrder, RepliesInOrder, Acts, At
  <2> QED BY <2>1 DEF RepliesInOrder, At, Told
<1>15. OneCall'
  <2>1. OneEach(inbox)'
    <3>1. \A r \in Range(inbox) : ~Clash(r.job, r.op, req)
      BY <1>3, <1>10, CallSets DEF Asked, Range, Clash
    <3>2. OneEach(Append(inbox, req))
      BY <1>1, <3>1, EachAppend DEF InOrder, OneCall
    <3> QED BY <3>2 DEF OneEach
  <2>2. \A m \in Told : ~Clash(j, "rmList", m)
    BY <1>11, CallSets DEF Clash
  <2>3. running.busy => \A m \in Asked' \cup Told' : ~Clash(running.job, "command", m)
    BY <1>5, CallSets DEF InOrder, OneCall, Clash, Told
  <2> QED BY <1>5, <2>1, <2>2, <2>3 DEF InOrder, OneCall, OneEach, Told, Acts
<1> QED BY <1>5, <1>10, <1>12, <1>13, <1>14, <1>15 DEF InOrder, Asked, Range

\* The request that the worker takes: its job awaits it, or has given it up.
LEMMA TakenInOrder ==
  ASSUME TypeOK, InOrder, NEW ops, Receive(ops), NEW j \in Jobs, Taken.job = j
  PROVE  /\ InFlight(j)
         /\ \A r \in Asked' : ~Clash(j, Taken.op, r)
         /\ \A m \in Told : ~Clash(j, Taken.op, m) /\ (m.job = j => ~At(j, m.op))
         /\ \/ At(j, Taken.op) /\ \A r \in Asked' : r.job # j
            \/ /\ Taken.op \in RunCalls /\ GaveUp(j) /\ CleansAfter(1, j)
               /\ \A r \in Asked' : r.job = j => r.op = "rmList"
<1>1. /\ Taken \in Asked /\ Taken.op \in Calls /\ Asked = Asked' \cup {Taken}
      /\ inbox \in Seq(Request) /\ inbox # << >> /\ inbox' = Tail(inbox)
  BY Received DEF TypeOK
<1>2. 1 \in DOMAIN inbox /\ inbox[1] = Taken
  BY <1>1, TailMoves DEF Taken
<1>3. \A r \in Asked' : ~Clash(j, Taken.op, r)
  <2>1. \A r \in Range(Tail(inbox)) : ~Clash(Taken.job, Taken.op, r)
    BY <1>1, EachTail DEF Taken, InOrder, OneCall
  <2> QED BY <1>1, <2>1 DEF Asked
<1>4. \A m \in Told : ~Clash(j, Taken.op, m)
  BY <1>1 DEF InOrder, OneCall
<1>5. \/ At(j, Taken.op)
      \/ Taken.op \in RunCalls /\ GaveUp(j) /\ CleansAfter(1, j)
  BY <1>2 DEF InOrder, RequestsInOrder
<1>6. InFlight(j)
  BY <1>1, <1>5, CallSets DEF At, InFlight, GaveUp
<1>7. \A m \in Told : m.job = j => ~At(j, m.op)
  BY <1>1, <1>6, Awaited DEF InFlight, At
<1>8. CASE At(j, Taken.op)
  <2>1. \A i \in DOMAIN inbox' : inbox'[i].job # j
    <3> SUFFICES ASSUME NEW i \in DOMAIN inbox', inbox'[i].job = j PROVE FALSE
      OBVIOUS
    <3>1. i + 1 \in DOMAIN inbox /\ inbox'[i] = inbox[i + 1] /\ inbox'[i] \in Asked'
      BY <1>1, TailMoves DEF Asked, Range
    <3>2. inbox[i + 1].op # Taken.op
      BY <1>3, <3>1 DEF Clash
    <3>3. GaveUp(j) /\ CleansAfter(i + 1, j)
      BY <1>8, <3>1, <3>2 DEF InOrder, RequestsInOrder, At
    <3>4. PICK n \in DOMAIN inbox : i + 1 < n /\ inbox[n].job = j /\ inbox[n].op = Taken.op
      BY <1>8, <3>3 DEF CleansAfter, GaveUp, At
    <3>5. n # 1
      BY <3>1, <3>4, <1>1, TailMoves
    <3> QED BY <1>1, <1>2, <3>4, <3>5 DEF InOrder, OneCall, OneEach, Clash
  <2> QED BY <1>3, <1>4, <1>6, <1>7, <1>8, <2>1 DEF Asked, Range
<1>9. CASE Taken.op \in RunCalls /\ GaveUp(j) /\ CleansAfter(1, j)
  <2>1. \A r \in Asked' : r.job = j => r.op \notin RunCalls
    BY <1>3, <1>9 DEF Clash
  <2>2. \A i \in DOMAIN inbox : inbox[i] \in Asked' /\ inbox[i].job = j => inbox[i].op = "rmList"
    BY <1>9, <2>1 DEF InOrder, RequestsInOrder, GaveUp, At
  <2>3. \A r \in Asked' : r.job = j => r.op = "rmList"
    BY <1>1, <2>2 DEF Asked, Range
  <2> QED BY <1>3, <1>4, <1>6, <1>7, <1>9, <2>3
<1> QED BY <1>5, <1>8, <1>9

LEMMA InboxMoves ==
  ASSUME TypeOK, inbox # << >>, inbox' = Tail(inbox)
  PROVE  /\ \A i \in DOMAIN inbox' : i + 1 \in DOMAIN inbox /\ inbox'[i] = inbox[i + 1]
         /\ \A i \in Nat : \A k : CleansAfter(i + 1, k) => CleansAfter(i, k)'
<1>1. inbox \in Seq(Request)
  BY DEF TypeOK
<1>2. \A i \in DOMAIN inbox' : i + 1 \in DOMAIN inbox /\ inbox'[i] = inbox[i + 1]
  BY <1>1, TailMoves
<1>3. ASSUME NEW i \in Nat, NEW k, CleansAfter(i + 1, k)
      PROVE  CleansAfter(i, k)'
  <2>1. PICK n \in DOMAIN inbox : i + 1 < n /\ inbox[n].job = k /\ inbox[n].op = "rmList"
    BY <1>3 DEF CleansAfter
  <2>2. n - 1 \in DOMAIN inbox' /\ inbox'[n - 1] = inbox[n] /\ i < n - 1
    BY <1>1, <2>1, TailMoves
  <2> QED BY <2>1, <2>2 DEF CleansAfter
<1> QED BY <1>2, <1>3

LEMMA TailInOrder ==
  ASSUME TypeOK, InOrder, inbox # << >>, inbox' = Tail(inbox), UNCHANGED job
  PROVE  RequestsInOrder'
<1>1. inbox \in Seq(Request)
  BY DEF TypeOK
<1>2. SUFFICES ASSUME NEW i \in DOMAIN inbox', NEW j \in Jobs, inbox'[i].job = j
      PROVE  \/ job[j].at = inbox'[i].op
             \/ inbox'[i].op \in RunCalls /\ GaveUp(j) /\ CleansAfter(i, j)'
  BY DEF RequestsInOrder, At, GaveUp
<1>3. i \in Nat /\ i + 1 \in DOMAIN inbox /\ inbox'[i] = inbox[i + 1]
  BY <1>1, InboxMoves, TailMoves
<1>4. CleansAfter(i + 1, j) => CleansAfter(i, j)'
  BY <1>3, InboxMoves
<1> QED BY <1>2, <1>3, <1>4 DEF InOrder, RequestsInOrder, At

\* A message of the worker that clashes with nothing.
LEMMA SaysInOrder ==
  ASSUME TypeOK, InOrder, NEW m \in Message, outbox' = Append(outbox, m), UNCHANGED job,
         RequestsInOrder', CommandInOrder', OneEach(inbox'), Asked' \subseteq Asked,
         running'.busy => running.busy /\ running'.job = running.job,
         m.op \in Calls => \/ At(m.job, m.op)
                           \/ m.op \in RunCalls /\ job[m.job].at \in CleanCalls,
         \A r \in Asked' \cup Told : r.op \in Calls => ~Clash(r.job, r.op, m),
         running'.busy => ~Clash(running.job, "command", m)
  PROVE  InOrder' /\ Told' = Told \cup {m}
<1>1. outbox \in Seq(Message)
  BY DEF TypeOK
<1>2. Range(Append(outbox, m)) = Range(outbox) \cup {m}
  BY <1>1, RangeAppend
<1>3. Told' = Told \cup {m}
  BY <1>2 DEF Told
<1>4. RepliesInOrder'
  BY <1>3 DEF InOrder, RepliesInOrder, At
<1>5. OneEach(outbox)'
  <2>1. OneEach(Append(outbox, m))
    BY <1>1, EachAppend DEF InOrder, OneCall, Told
  <2> QED BY <2>1 DEF OneEach
<1>6. OneEach(inbox)'
  BY DEF OneEach
<1>7. OneCall'
  <2>1. \A r \in Asked', k \in Told' : ~Clash(r.job, r.op, k)
    BY <1>3, AskedOps DEF InOrder, OneCall
  <2>2. running'.busy => \A k \in Asked' \cup Told' : ~Clash(running'.job, "command", k)
    BY <1>3 DEF InOrder, OneCall
  <2> QED BY <1>5, <1>6, <2>1, <2>2 DEF OneCall
<1> QED BY <1>3, <1>4, <1>7 DEF InOrder

LEMMA ServesInOrder ==
  ASSUME TypeOK, InOrder, NEW ops, Receive(ops), NEW result \in Results, NEW fs \in Seq(File),
         Answer(Taken, result, fs), UNCHANGED <<job, running>>
  PROVE  /\ InOrder'
         /\ Told' = Told \cup {[job |-> Taken.job, op |-> Taken.op, result |-> result, files |-> fs]}
<1> DEFINE m == [job |-> Taken.job, op |-> Taken.op, result |-> result, files |-> fs]
<1>1. /\ Taken \in Asked /\ Taken.job \in Jobs /\ Taken.op \in Calls /\ Asked = Asked' \cup {Taken}
      /\ inbox \in Seq(Request) /\ inbox # << >> /\ inbox' = Tail(inbox) /\ ~running.busy
  BY Received DEF TypeOK
<1>2. m \in Message /\ outbox' = Append(outbox, m)
  BY <1>1 DEF Message, Answer
<1>3. RequestsInOrder'
  BY <1>1, TailInOrder
<1>4. CommandInOrder'
  BY <1>1 DEF CommandInOrder
<1>5. OneEach(inbox')
  BY <1>1, EachTail DEF InOrder, OneCall
<1>6. PICK j \in Jobs : Taken.job = j
  BY <1>1
<1>7. /\ \A r \in Asked' : ~Clash(j, Taken.op, r)
      /\ \A r \in Told : ~Clash(j, Taken.op, r)
      /\ At(j, Taken.op) \/ (Taken.op \in RunCalls /\ GaveUp(j))
  BY <1>6, TakenInOrder
<1>8. At(j, m.op) \/ (m.op \in RunCalls /\ job[j].at \in CleanCalls)
  BY <1>7, CallSets DEF GaveUp, At
<1>9. \A r \in Asked' \cup Told : r.op \in Calls => ~Clash(r.job, r.op, m)
  BY <1>6, <1>7 DEF Clash
<1>10. m.job = j
  BY <1>6
<1> HIDE DEF m
<1>11. InOrder' /\ Told' = Told \cup {m}
  BY <1>1, <1>2, <1>3, <1>4, <1>5, <1>8, <1>9, <1>10, SaysInOrder
<1> QED BY <1>11 DEF m

LEMMA StartsInOrder ==
  ASSUME TypeOK, InOrder, StartCommand
  PROVE  InOrder'
<1>1. /\ Receive({"command"}) /\ UNCHANGED <<job, outbox>>
      /\ running' = [busy |-> TRUE, job |-> Taken.job, wrote |-> 0, events |-> 0]
  BY DEF StartCommand, jobVars
<1>2. /\ Taken.job \in Jobs /\ Taken.op = "command" /\ Asked = Asked' \cup {Taken}
      /\ inbox \in Seq(Request) /\ inbox # << >> /\ inbox' = Tail(inbox)
  BY <1>1, Received DEF TypeOK
<1>3. PICK j \in Jobs : Taken.job = j
  BY <1>2
<1>4. /\ \A r \in Asked' : ~Clash(j, "command", r)
      /\ \A r \in Told : ~Clash(j, "command", r)
      /\ At(j, "command") \/ (GaveUp(j) /\ CleansAfter(1, j))
  BY <1>1, <1>2, <1>3, TakenInOrder
<1>5. RequestsInOrder'
  BY <1>1, <1>2, TailInOrder
<1>6. CommandInOrder'
  <2>1. CleansAfter(0 + 1, j) => CleansAfter(0, j)'
    BY <1>2, InboxMoves
  <2>2. CleansAfter(1, j) => CleansAfter(0, j)'
    BY <2>1
  <2> QED BY <1>1, <1>3, <1>4, <2>2 DEF CommandInOrder, GaveUp, At
<1>7. RepliesInOrder'
  BY <1>1 DEF InOrder, RepliesInOrder, Told, At
<1>8. OneCall'
  <2>1. OneEach(inbox')
    BY <1>2, EachTail DEF InOrder, OneCall
  <2> QED BY <1>1, <1>2, <1>3, <1>4, <2>1 DEF InOrder, OneCall, OneEach, Told
<1> QED BY <1>5, <1>6, <1>7, <1>8 DEF InOrder

LEMMA CommandSpeaks ==
  ASSUME TypeOK, InOrder, running.busy, NEW op \in {"log", "progress", "command"}, NEW result \in Results,
         Answer([job |-> running.job, op |-> op], result, << >>), UNCHANGED <<job, inbox>>,
         running'.busy => running'.job = running.job /\ op # "command"
  PROVE  /\ InOrder'
         /\ Told' = Told \cup {[job |-> running.job, op |-> op, result |-> result, files |-> << >>]}
<1> DEFINE m == [job |-> running.job, op |-> op, result |-> result, files |-> << >>]
<1>1. running.job \in Jobs
  BY Runs
<1>2. m \in Message /\ outbox' = Append(outbox, m)
  <2>1. << >> \in Seq(File) /\ "command" \in Calls
    BY CallSets
  <2> QED BY <1>1, <2>1 DEF Message, Answer
<1>3. RequestsInOrder' /\ CommandInOrder' /\ OneEach(inbox') /\ Asked' = Asked
  BY DEF InOrder, RequestsInOrder, CommandInOrder, OneCall, Asked, GaveUp, At, CleansAfter
<1>4. op \in Calls => op = "command"
  BY CallSets
<1>5. At(running.job, "command") \/ GaveUp(running.job)
  BY <1>1 DEF InOrder, CommandInOrder
<1>6. \A r \in Asked' \cup Told : r.op \in Calls => ~Clash(r.job, r.op, m)
  BY <1>3, <1>4, CallSets DEF InOrder, OneCall, Clash
<1>7. op # "command" => ~Clash(running.job, "command", m)
  BY <1>4, CallSets DEF Clash
<1>8. m.op \in Calls => At(m.job, m.op) \/ (m.op \in RunCalls /\ job[m.job].at \in CleanCalls)
  BY <1>4, <1>5, CallSets DEF GaveUp, At
<1> HIDE DEF m
<1>9. InOrder' /\ Told' = Told \cup {m}
  BY <1>2, <1>3, <1>6, <1>7, <1>8, SaysInOrder
<1> QED BY <1>9 DEF m

-----------------------------------------------------------------------------
(* The directories and what is in them.                                     *)

\* Nothing happens to job j, nor to what is in its directory.
Apart(j) ==
  /\ job'[j] = job[j] /\ abortedAt'[j] = abortedAt[j]
  /\ \A r \in Asked' : r.job = j => r \in Asked
  /\ \A m \in Told' : m.job = j /\ m.op \in Calls => m \in Told
  /\ running'.busy /\ running'.job = j =>
       running.busy /\ running.job = j /\ running'.wrote = running.wrote

Untouched(j) == Own(j)' = Own(j) /\ (Dir(j) \in dirs' <=> Dir(j) \in dirs)

LEMMA SameDirectory ==
  ASSUME NEW j \in Jobs, job'[j] = job[j], Untouched(j)
  PROVE  /\ Dir(j)' = Dir(j) /\ InputOf(j)' = InputOf(j)
         /\ Fresh(j)' <=> Fresh(j)
         /\ Ready(j)' <=> Ready(j)
         /\ \A n : Numbered(j, n)' <=> Numbered(j, n)
         /\ Written(j)' <=> Written(j)
         /\ \A m : Says(j, m)' <=> Says(j, m)
         /\ InputOf(j) \in files' <=> InputOf(j) \in files
<1>1. Dir(j)' = Dir(j) /\ InputOf(j)' = InputOf(j)
  BY DEF Dir, InputOf
<1>2. Own(j)' = Own(j) /\ (Dir(j)' \in dirs' <=> Dir(j) \in dirs)
  BY <1>1 DEF Untouched
<1>3. Fresh(j)' <=> Fresh(j)
  BY <1>2 DEF Fresh
<1>4. Ready(j)' <=> Ready(j)
  BY <1>1, <1>2 DEF Ready
<1>5. \A n : Numbered(j, n)' <=> Numbered(j, n)
  BY <1>2 DEF Numbered
<1>6. Written(j)' <=> Written(j)
  BY <1>2, <1>5 DEF Written
<1>7. \A m : Says(j, m)' <=> Says(j, m)
  BY <1>2, <1>3, <1>4, <1>6 DEF Says, GoodExit
<1>8. InputOf(j) \in files' <=> InputOf(j) \in files
  <2>1. InputOf(j) \in files <=> InputOf(j) \in Own(j)
    BY DEF InputOf, Own, FilesIn
  <2>2. InputOf(j)' \in files' <=> InputOf(j)' \in Own(j)'
    BY DEF InputOf, Own, FilesIn
  <2> QED BY <1>1, <1>2, <2>1, <2>2
<1> QED BY <1>1, <1>3, <1>4, <1>5, <1>6, <1>7, <1>8

LEMMA ToldAwaited ==
  ASSUME TypeOK, TypeOK', NEW j \in Jobs, NEW m \in Told', At(j, m.op)
  PROVE  m.op \in Calls /\ InFlight(j)
<1>1. outbox' \in Seq(Message)
  BY DEF TypeOK
<1>2. Range(outbox') \subseteq Message
  BY <1>1, RangeType
<1>3. m.op \in Calls \cup {"log", "progress"}
  BY <1>2 DEF Told, Message
<1>4. m.op \in Steps
  BY DEF TypeOK, At
<1> QED BY <1>3, <1>4, CallSets DEF At, InFlight

LEMMA StageKept ==
  ASSUME TypeOK, TypeOK', InOrder, NEW j \in Jobs, Stage(j), Apart(j), InFlight(j) => Untouched(j)
  PROVE  Stage(j)'
<1>1. job'[j] = job[j] /\ abortedAt'[j] = abortedAt[j] /\ \A op : At(j, op)' <=> At(j, op)
  BY DEF Apart, At
<1>2. \A m \in Told' : m.job = j /\ At(j, m.op) => m \in Told /\ m.op \in Calls /\ InFlight(j)
  BY ToldAwaited DEF Apart
<1>3. CASE InFlight(j)
  <2>1. /\ Dir(j)' = Dir(j) /\ InputOf(j)' = InputOf(j)
        /\ Fresh(j)' <=> Fresh(j)
        /\ Ready(j)' <=> Ready(j)
        /\ \A n : Numbered(j, n)' <=> Numbered(j, n)
        /\ Written(j)' <=> Written(j)
        /\ \A m : Says(j, m)' <=> Says(j, m)
        /\ InputOf(j) \in files' <=> InputOf(j) \in files
    BY <1>1, <1>3, SameDirectory
  <2>2. Own(j)' = Own(j) /\ (Dir(j) \in dirs' <=> Dir(j) \in dirs)
    BY <1>3 DEF Untouched
  <2>3. Requested(j)'
    BY <1>1, <2>1, <2>2 DEF Stage, Requested, Apart
  <2>4. Commanded(j)'
    BY <1>1, <2>1, <2>2 DEF Stage, Commanded, Apart
  <2>5. Answered(j)'
    BY <1>1, <1>2, <2>1 DEF Stage, Answered
  <2>6. Reading(j)'
    BY <1>1, <2>1 DEF Stage, Reading, GotFrames, GotOwn
  <2>7. Ended(j)'
    BY <1>1, <2>1 DEF Stage, Ended, GotFrames, GotOwn
  <2> QED BY <2>3, <2>4, <2>5, <2>6, <2>7 DEF Stage
<1>4. CASE ~InFlight(j)
  <2>1. (\A r \in Asked' : r.job # j) /\ ~(running'.busy /\ running'.job = j)
    BY <1>4, Quiet DEF Apart
  <2>2. Requested(j)' /\ Commanded(j)'
    BY <2>1 DEF Requested, Commanded
  <2>3. Answered(j)'
    BY <1>1, <1>2, <1>4 DEF Answered
  <2>4. job[j].at \notin Calls
    BY <1>4 DEF InFlight
  <2>5. \A op \in {"readFile", "listDir", "readFrame", "rmFile", "rmList"} : op \in Calls
    BY DEF Calls, RunCalls, CleanCalls
  <2>6. Reading(j)'
    BY <1>1, <2>4, <2>5 DEF Reading, At
  <2>7. Ended(j)'
    BY <1>1, <2>4, <2>5 DEF Stage, Ended, GotFrames, GotOwn, At
  <2> QED BY <2>2, <2>3, <2>6, <2>7 DEF Stage
<1> QED BY <1>3, <1>4

\* A turn of job j leaves the others where they are.
LEMMA OthersKept ==
  ASSUME IInv, TypeOK', NEW j \in Jobs, Acts(j), UNCHANGED <<dirs, files>>,
         \A k \in Jobs \ {j} : abortedAt'[k] = abortedAt[k],
         \A r \in Asked' : r.job # j => r \in Asked, Told' \subseteq Told
  PROVE  \A k \in Jobs \ {j} : Stage(k)'
<1> SUFFICES ASSUME NEW k \in Jobs \ {j} PROVE Stage(k)'
  OBVIOUS
<1>1. job'[k] = job[k] /\ Apart(k)
  BY DEF Acts, Apart
<1>2. Untouched(k)
  BY <1>1 DEF Untouched, Own, FilesIn, Dir
<1> QED BY <1>1, <1>2, StageKept DEF IInv

\* How a turn of job j may change its hold on its directory.
Holds(j) ==
  \/ InFlight(j) /\ InFlight(j)' /\ Dir(j)' = Dir(j) /\ UNCHANGED nextJob
  \/ InFlight(j) /\ ~InFlight(j)' /\ Dir(j) \notin dirs /\ UNCHANGED nextJob
  \/ ~InFlight(j) /\ ~InFlight(j)' /\ nextJob' \in {nextJob, nextJob + 1}
  \/ ~InFlight(j) /\ InFlight(j)' /\ Dir(j)' = nextJob /\ nextJob' = nextJob + 1

LEMMA TurnOfHolder ==
  ASSUME IInv, TypeOK', NEW j \in Jobs, Acts(j), Holds(j), UNCHANGED <<dirs, files>>
  PROVE  OwnDirs' /\ FilesAgree'
<1>1. nextJob \in Nat /\ nextJob' \in Nat /\ nextJob' >= nextJob
  <2>1. nextJob \in Nat
    BY DEF IInv, TypeOK
  <2> QED BY <2>1 DEF Holds
<1>2. \A k \in Jobs \ {j} : (InFlight(k)' <=> InFlight(k)) /\ Dir(k)' = Dir(k)
  BY DEF Acts, InFlight, Dir
<1>3. \A k \in Jobs : InFlight(k) => Dir(k) < nextJob /\ Dir(k) \in Nat
  BY DEF IInv, OwnDirs, TypeOK, Dir
<1>4. \A k \in Jobs : InFlight(k)' => Dir(k)' < nextJob'
  BY <1>1, <1>2, <1>3 DEF Holds
<1>5. \A k \in Jobs \ {j} : InFlight(k)' /\ InFlight(j)' => Dir(k)' # Dir(j)'
  BY <1>1, <1>2, <1>3 DEF Holds, IInv, OwnDirs
<1>6. OwnDirs'
  BY <1>2, <1>4, <1>5 DEF OwnDirs, IInv
<1>7. NothingLeft'
  <2>1. \A d \in dirs : \E k \in Jobs : InFlight(k)' /\ Dir(k)' = d
    <3> SUFFICES ASSUME NEW d \in dirs PROVE \E k \in Jobs : InFlight(k)' /\ Dir(k)' = d
      OBVIOUS
    <3>1. PICK k \in Jobs : InFlight(k) /\ Dir(k) = d
      BY DEF IInv, FilesAgree, NothingLeft
    <3> QED BY <1>2, <3>1 DEF Holds
  <2> QED BY <2>1 DEF IInv, FilesAgree, NothingLeft
<1>8. \A f \in files : \A k \in Jobs : InFlight(k)' /\ Dir(k)' = f.dir => f.by = k
  <2> SUFFICES ASSUME NEW f \in files, NEW k \in Jobs, InFlight(k)', Dir(k)' = f.dir PROVE f.by = k
    OBVIOUS
  <2>1. PICK i \in Jobs : InFlight(i) /\ Dir(i) = f.dir
    BY DEF IInv, FilesAgree, NothingLeft
  <2>2. f.dir < nextJob
    BY <1>3, <2>1
  <2>3. InFlight(k) /\ Dir(k) = f.dir
    BY <1>1, <1>2, <1>3, <2>1, <2>2 DEF Holds
  <2> QED BY <2>3 DEF IInv, FilesAgree
<1> QED BY <1>6, <1>7, <1>8 DEF IInv, FilesAgree

\* A reply makes its job ask for one thing more.
LEMMA ReplyAsks ==
  ASSUME IInv, TypeOK', NEW j \in Jobs, NEW op \in Calls, NEW results, Replied(j, op, results),
         NEW r, NEW next \in Calls, NEW n \in Nat, Ask(j, r, next, n), r \in JobRecord, r.dir = Dir(j),
         op \in CleanCalls => next \in CleanCalls, UNCHANGED closure
  PROVE  /\ job' = [job EXCEPT ![j] = [r EXCEPT !.at = next]] /\ At(j, next)'
         /\ InOrder' /\ OwnDirs' /\ FilesAgree' /\ \A k \in Jobs \ {j} : Stage(k)'
         /\ \A q \in Asked' : q.job = j => q = [job |-> j, op |-> next, name |-> n]
         /\ Commanded(j)' /\ Answered(j)' /\ Own(j)' = Own(j) /\ Dir(j)' = Dir(j)
         /\ UNCHANGED <<files, dirs, running, abortedAt>>
<1> DEFINE q == [job |-> j, op |-> next, name |-> n]
<1>1. q \in Request /\ q.job = j /\ q.op = next /\ inbox' = Append(inbox, q)
  BY DEF Request, Ask
<1>2. /\ job' = [job EXCEPT ![j] = [r EXCEPT !.at = next]]
      /\ UNCHANGED <<files, dirs, running, abortedAt, nextJob>>
  BY DEF Ask, OnlyJob, closure, serverVars
<1>3. job'[j] = [r EXCEPT !.at = next] /\ \A k \in Jobs \ {j} : job'[k] = job[k]
  BY <1>2, JobType DEF IInv
<1>4. Acts(j) /\ job'[j].at = next /\ job'[j].dir = Dir(j)
  BY <1>2, <1>3 DEF Acts, JobRecord
<1>5. Deliver /\ Incoming \in Told /\ Incoming.job = j /\ Incoming.op = op /\ At(j, op)
  BY Heard DEF IInv, Stage
<1>6. (\A m \in Asked : m.job # j) /\ ~(running.busy /\ running.job = j)
  BY <1>5, Awaited DEF IInv
<1>7. Heeded /\ \A m \in Told' : ~Clash(j, op, m)
  BY <1>5, DeliverHeeds DEF IInv
<1>8. \A m \in Told' : m.job = j /\ m.op \in Calls => m.op \in RunCalls /\ op \in CleanCalls
  <2>1. \A m \in Told' : m.job = j /\ m.op \in Calls => m.op # op /\ m.op \in RunCalls
    BY <1>5, <1>7 DEF Clash, IInv, InOrder, RepliesInOrder, Heeded, At
  <2> QED BY <1>7, <2>1 DEF Clash, Calls
<1>9. InOrder' /\ Asked' = Asked \cup {q}
  <2> HIDE DEF q
  <2> QED BY <1>1, <1>4, <1>6, <1>7, <1>8, AsksInOrder DEF IInv
<1>10. Holds(j)
  BY <1>2, <1>4, <1>5 DEF Holds, InFlight, At, Dir
<1>11. OwnDirs' /\ FilesAgree'
  BY <1>2, <1>4, <1>10, TurnOfHolder
<1>12. \A k \in Jobs \ {j} : Stage(k)'
  <2>1. Told' \subseteq Told
    BY <1>7 DEF Heeded
  <2> QED BY <1>2, <1>4, <1>9, <2>1, OthersKept
<1>13. \A m \in Asked' : m.job = j => m = q
  BY <1>6, <1>9
<1>14. Commanded(j)'
  BY <1>2, <1>6 DEF Commanded
<1>15. Answered(j)'
  <2>1. \A m \in Told' : ~(m.job = j /\ m.op = next)
    BY <1>8, CallSets
  <2> QED BY <1>4, <2>1 DEF Answered, At
<1>16. Own(j)' = Own(j) /\ Dir(j)' = Dir(j) /\ At(j, next)'
  BY <1>2, <1>4 DEF Own, FilesIn, Dir, At
<1> QED BY <1>2, <1>9, <1>11, <1>12, <1>13, <1>14, <1>15, <1>16

Listening == {"command", "readFile", "listDir", "readFrame"}

\* Job j turns to another call, and its listeners with it.
LEMMA TurnListens ==
  ASSUME IInv, NEW j \in Jobs, Acts(j), job' \in [Jobs -> JobRecord],
         logging' = IF job'[j].at \in Listening THEN logging \cup {j} ELSE logging \ {j},
         \A cb \in progress' :
           \/ At(j, "command")' /\ job'[j].kind = "transcode" /\ OnProgress[j] = cb
           \/ cb \in progress /\ ~(At(j, "command") /\ job[j].kind = "transcode" /\ OnProgress[j] = cb)
  PROVE  ListensWhileRunning'
<1>1. logging = {k \in Jobs : job[k].at \in Listening}
  BY DEF IInv, ListensWhileRunning, Listening
<1>2. logging' = {k \in Jobs : job'[k].at \in Listening}
  BY <1>1 DEF Acts
<1>3. \A cb \in progress' : \E k \in Jobs :
        At(k, "command")' /\ job'[k].kind = "transcode" /\ OnProgress[k] = cb
  <2> SUFFICES ASSUME NEW cb \in progress', cb \in progress,
                 ~(At(j, "command") /\ job[j].kind = "transcode" /\ OnProgress[j] = cb)
      PROVE  \E k \in Jobs : At(k, "command")' /\ job'[k].kind = "transcode" /\ OnProgress[k] = cb
    OBVIOUS
  <2>1. PICK k \in Jobs : At(k, "command") /\ job[k].kind = "transcode" /\ OnProgress[k] = cb
    BY DEF IInv, ListensWhileRunning
  <2> QED BY <2>1 DEF Acts, At
<1> QED BY <1>2, <1>3 DEF ListensWhileRunning, Listening

\* Until its run has an outcome, a job has none and has not been aborted.
LEMMA Undecided ==
  ASSUME IInv, NEW j \in Jobs, job[j].at \in RunCalls
  PROVE  job[j].outcome = "none" /\ abortedAt[j] \notin RunCalls
BY CallSets DEF IInv, Stage, Ended

LEMMA RunAsks ==
  ASSUME IInv, TypeOK', NEW j \in Jobs, NEW op \in RunCalls, NEW next \in RunCalls \ {"readFrame"},
         NEW results, NEW n \in Nat, Replied(j, op, results), Ask(j, job[j], next, n),
         UNCHANGED closure,
         \/ op = "createDir" /\ next = "writeFile" /\ results = {"ok"} /\ UNCHANGED <<logging, progress>>
         \/ /\ op = "writeFile" /\ next = "command" /\ results = {"ok"} /\ logging' = logging \cup {j}
            /\ progress' = IF job[j].kind = "transcode" THEN progress \cup {OnProgress[j]} ELSE progress
         \/ /\ op = "command" /\ results = GoodExit(j) /\ UNCHANGED logging
            /\ next = IF job[j].kind = "frames" THEN "listDir" ELSE "readFile"
            /\ progress' = IF job[j].kind = "transcode" THEN Unlisten(OnProgress[j]) ELSE progress
  PROVE  IInv'
<1>1. job[j] \in JobRecord /\ job[j].dir = Dir(j) /\ job' \in [Jobs -> JobRecord]
  BY JobType DEF IInv, Dir, TypeOK, JobRecord
<1>2. op \in Calls /\ next \in Calls /\ op \notin CleanCalls
  BY CallSets
<1>3. /\ job' = [job EXCEPT ![j] = [job[j] EXCEPT !.at = next]]
      /\ At(j, next)' /\ InOrder' /\ OwnDirs' /\ FilesAgree' /\ \A k \in Jobs \ {j} : Stage(k)'
      /\ \A q \in Asked' : q.job = j => q = [job |-> j, op |-> next, name |-> n]
      /\ Commanded(j)' /\ Answered(j)' /\ Own(j)' = Own(j) /\ Dir(j)' = Dir(j)
      /\ UNCHANGED <<files, dirs, running, abortedAt>>
  BY <1>1, <1>2, ReplyAsks
<1>4. Incoming.op = op /\ Incoming.result \in results /\ Says(j, Incoming) /\ At(j, op)
  BY Heard DEF IInv, Stage
<1>5. job'[j] = [job[j] EXCEPT !.at = next] /\ \A k \in Jobs \ {j} : job'[k] = job[k]
  BY <1>1, <1>3, JobType DEF IInv
<1>6. /\ job'[j].at = next /\ job'[j].kind = job[j].kind /\ job'[j].outcome = "none"
      /\ abortedAt'[j] \notin RunCalls
  BY <1>1, <1>2, <1>3, <1>4, <1>5, Undecided DEF JobRecord, At
<1>7. Requested(j)'
  <2>1. op = "createDir" => Fresh(j)'
    BY <1>3, <1>4 DEF Says, Fresh
  <2>2. op = "writeFile" => Ready(j)'
    <3>1. InputOf(j)' = InputOf(j)
      BY <1>3 DEF InputOf
    <3> QED BY <1>3, <1>4, <3>1 DEF Says, Ready
  <2> QED BY <1>3, <2>1, <2>2 DEF Requested
<1>8. Reading(j)'
  <2>1. op = "command" => Written(j)'
    BY <1>3, <1>4, <1>6 DEF Says, Written, Numbered
  <2> QED BY <1>6, <2>1 DEF Reading, At
<1>9. Ended(j)'
  BY <1>6 DEF Ended, Obeys
<1>10. ListensWhileRunning'
  <2>1. Acts(j)
    BY <1>3, <1>5 DEF Acts
  <2>2. logging = {k \in Jobs : job[k].at \in Listening}
    BY DEF IInv, ListensWhileRunning, Listening
  <2>3. logging' = IF job'[j].at \in Listening THEN logging \cup {j} ELSE logging \ {j}
    BY <1>4, <1>6, <2>2 DEF Listening, At
  <2>4. \A cb \in progress' :
           \/ At(j, "command")' /\ job'[j].kind = "transcode" /\ OnProgress[j] = cb
           \/ cb \in progress /\ ~(At(j, "command") /\ job[j].kind = "transcode" /\ OnProgress[j] = cb)
    BY <1>4, <1>6 DEF At, Unlisten
  <2> QED BY <1>1, <2>1, <2>3, <2>4, TurnListens
<1> QED BY <1>3, <1>7, <1>8, <1>9, <1>10 DEF IInv, Stage

LEMMA RunReplies ==
  ASSUME IInv, TypeOK', NEW j \in Jobs, DirCreated(j) \/ FileWritten(j) \/ CommandDone(j)
  PROVE  IInv'
<1>1. /\ {"createDir", "writeFile", "command"} \subseteq RunCalls
      /\ {"writeFile", "command", "readFile", "listDir"} \subseteq RunCalls \ {"readFrame"}
      /\ Input \in Nat /\ 1 \in Nat
  BY DEF RunCalls, Input
<1>2. CASE DirCreated(j)
  <2>1. /\ Replied(j, "createDir", {"ok"}) /\ Ask(j, job[j], "writeFile", Input)
        /\ UNCHANGED closure /\ UNCHANGED <<logging, progress>>
    BY <1>2 DEF DirCreated
  <2> QED BY <1>1, <2>1, RunAsks
<1>3. CASE FileWritten(j)
  <2>1. /\ Replied(j, "writeFile", {"ok"}) /\ Ask(j, job[j], "command", Input)
        /\ UNCHANGED closure /\ logging' = logging \cup {j}
        /\ progress' = IF job[j].kind = "transcode" THEN progress \cup {OnProgress[j]} ELSE progress
    BY <1>3 DEF FileWritten
  <2> QED BY <1>1, <2>1, RunAsks
<1>4. CASE CommandDone(j)
  <2>1. /\ Replied(j, "command", GoodExit(j)) /\ UNCHANGED closure /\ UNCHANGED logging
        /\ progress' = IF job[j].kind = "transcode" THEN Unlisten(OnProgress[j]) ELSE progress
    BY <1>4 DEF CommandDone
  <2>2. CASE job[j].kind = "frames"
    <3>1. Ask(j, job[j], "listDir", Input)
      BY <1>4, <2>2 DEF CommandDone
    <3> QED BY <1>1, <2>1, <2>2, <3>1, RunAsks
  <2>3. CASE job[j].kind # "frames"
    <3>1. Ask(j, job[j], "readFile", 1)
      BY <1>4, <2>3 DEF CommandDone
    <3> QED BY <1>1, <2>1, <2>3, <3>1, RunAsks
  <2> QED BY <2>2, <2>3
<1> QED BY <1>2, <1>3, <1>4

\* A reply brings the run of job j to its outcome, and the clean-up begins.
LEMMA EndsRun ==
  ASSUME IInv, TypeOK', NEW j \in Jobs, NEW op \in RunCalls, NEW results, Replied(j, op, results),
         NEW r \in JobRecord, r.dir = Dir(j), r.kind = job[j].kind, r.outcome \in {"failed", "result"},
         r.outcome = "result" => \A i \in DOMAIN r.got : r.got[i].by = j /\ r.got[i].whole,
         r.outcome = "result" /\ r.kind = "frames" =>
           (\A i \in DOMAIN r.got : r.got[i].name = i) /\ Numbered(j, Len(r.got)),
         Ask(j, r, "rmList", Input), UNCHANGED closure, logging' = logging \ {j},
         progress' = IF At(j, "command") /\ job[j].kind = "transcode"
                     THEN Unlisten(OnProgress[j]) ELSE progress
  PROVE  IInv'
<1>1. /\ job' \in [Jobs -> JobRecord] /\ job \in [Jobs -> JobRecord] /\ op \in Calls /\ op \notin CleanCalls
      /\ "rmList" \in Calls /\ "rmList" \in CleanCalls /\ "rmList" \notin RunCalls /\ Input \in Nat
  BY JobType, CallSets DEF IInv, TypeOK, JobRecord, Input
<1>2. /\ job' = [job EXCEPT ![j] = [r EXCEPT !.at = "rmList"]]
      /\ At(j, "rmList")' /\ InOrder' /\ OwnDirs' /\ FilesAgree' /\ \A k \in Jobs \ {j} : Stage(k)'
      /\ \A q \in Asked' : q.job = j => q = [job |-> j, op |-> "rmList", name |-> Input]
      /\ Commanded(j)' /\ Answered(j)' /\ Own(j)' = Own(j) /\ Dir(j)' = Dir(j)
      /\ UNCHANGED <<files, dirs, running, abortedAt>>
  BY <1>1, ReplyAsks
<1>3. At(j, op)
  BY DEF Replied
<1>4. job'[j] = [r EXCEPT !.at = "rmList"] /\ \A k \in Jobs \ {j} : job'[k] = job[k]
  BY <1>1, <1>2
<1>5. /\ job'[j].at = "rmList" /\ job'[j].kind = r.kind /\ job'[j].outcome = r.outcome
      /\ job'[j].got = r.got
  BY <1>4 DEF JobRecord
<1>6. abortedAt'[j] \notin RunCalls
  BY <1>2, <1>3, Undecided DEF At
<1>7. Requested(j)'
  BY <1>2 DEF Requested
<1>8. Reading(j)'
  BY <1>5 DEF Reading, At
<1>9. \A n : Numbered(j, n)' <=> Numbered(j, n)
  BY <1>2 DEF Numbered
<1>10. Ended(j)'
  BY <1>1, <1>5, <1>6, <1>9, CallSets DEF Ended, Obeys, GotOwn, GotFrames, At
<1>11. ListensWhileRunning'
  <2>1. Acts(j) /\ logging' = IF job'[j].at \in Listening THEN logging \cup {j} ELSE logging \ {j}
    BY <1>2, <1>4, <1>5 DEF Acts, Listening
  <2>2. \A cb \in progress' :
           cb \in progress /\ ~(At(j, "command") /\ job[j].kind = "transcode" /\ OnProgress[j] = cb)
    BY DEF Unlisten
  <2> QED BY <1>1, <2>1, <2>2, TurnListens
<1> QED BY <1>2, <1>7, <1>8, <1>10, <1>11 DEF IInv, Stage

LEMMA RunFails ==
  ASSUME IInv, TypeOK', NEW j \in Jobs, CallFails(j)
  PROVE  IInv'
<1>0. PICK op \in RunCalls : \E results : Replied(j, op, results)
  BY DEF CallFails
<1>1. PICK results : Replied(j, op, results)
  BY <1>0
<1> DEFINE r == [job[j] EXCEPT !.outcome = "failed", !.todo = << >>]
<1>2. job[j] \in JobRecord /\ job[j].dir = Dir(j)
  BY JobType DEF IInv, Dir
<1>3. r \in JobRecord
  BY <1>2, RecordType DEF Outcomes
<1>4. r.dir = Dir(j) /\ r.kind = job[j].kind /\ r.outcome = "failed"
  BY <1>2 DEF JobRecord
<1>5. /\ Ask(j, r, "rmList", Input) /\ UNCHANGED closure /\ logging' = logging \ {j}
      /\ progress' = IF At(j, "command") /\ job[j].kind = "transcode"
                     THEN Unlisten(OnProgress[j]) ELSE progress
  BY DEF CallFails, Leave
<1> HIDE DEF r
<1> QED BY <1>1, <1>3, <1>4, <1>5, EndsRun

\* What is in the directory of a job in flight is its own.
LEMMA OwnFiles ==
  ASSUME IInv, NEW j \in Jobs, InFlight(j), NEW f \in Own(j)
  PROVE  f.by = j /\ f \in File
BY DEF IInv, FilesAgree, Own, FilesIn, TypeOK

LEMMA OutputReturns ==
  ASSUME IInv, TypeOK', NEW j \in Jobs, OutputRead(j)
  PROVE  IInv'
<1>1. Replied(j, "readFile", {"ok"}) /\ UNCHANGED <<progress, closure>> /\ "readFile" \in RunCalls
  BY DEF OutputRead, RunCalls
<1>2. At(j, "readFile") /\ InFlight(j)
  BY <1>1, CallSets DEF Replied, InFlight, At
<1>3. PICK f \in Own(j) : Incoming.files = <<f>>
  BY <1>1, Heard DEF IInv, Stage, Says
<1>4. f \in File /\ f.by = j /\ Head(Incoming.files) = f /\ <<f>> \in Seq(File)
  BY <1>2, <1>3, OwnFiles
<1>5. Written(j) /\ job[j].kind # "frames"
  BY <1>2 DEF IInv, Stage, Reading, At
<1> DEFINE usable == job[j].kind = "transcode" \/ f.whole
           g == IF usable THEN <<f>> ELSE job[j].got
           o == IF usable THEN "result" ELSE "failed"
           r == [job[j] EXCEPT !.got = g, !.outcome = o]
<1>6. Ask(j, r, "rmList", Input) /\ logging' = logging \ {j}
  BY <1>4 DEF OutputRead
<1>7. job[j] \in JobRecord /\ g \in Seq(File) /\ o \in Outcomes /\ o \in {"failed", "result"}
  BY <1>4, JobType DEF Outcomes, TypeOK, IInv
<1>8. o = "result" => \A i \in DOMAIN g : g[i].by = j /\ g[i].whole
  <2>1. usable => f.whole
    BY <1>5 DEF Written
  <2>2. DOMAIN <<f>> = {1} /\ <<f>>[1] = f
    OBVIOUS
  <2> QED BY <1>4, <2>1, <2>2
<1> HIDE DEF g, o
<1>9. r \in JobRecord /\ r.dir = Dir(j) /\ r.kind = job[j].kind /\ r.outcome = o /\ r.got = g
  <2>1. r \in JobRecord
    BY <1>7, RecordType
  <2> QED BY <1>7, <2>1 DEF JobRecord, Dir
<1>10. progress' = IF At(j, "command") /\ job[j].kind = "transcode"
                   THEN Unlisten(OnProgress[j]) ELSE progress
  BY <1>1, <1>2 DEF At
<1> HIDE DEF r
<1> QED BY <1>1, <1>5, <1>6, <1>7, <1>8, <1>9, <1>10, EndsRun

\* The next frame is read, or all are returned.
LEMMA FramesGoOn ==
  ASSUME IInv, TypeOK', NEW j \in Jobs, NEW op \in {"listDir", "readFrame"}, NEW results,
         Replied(j, op, results), NEW todo \in Seq(File), NEW got \in Seq(File),
         ReadFrames(j, todo, got), UNCHANGED <<progress, closure>>,
         \A i \in DOMAIN got : got[i].name = i /\ got[i].by = j /\ got[i].whole,
         Numbered(j, Len(got) + Len(todo)),
         \A i \in DOMAIN todo : todo[i].name = Len(got) + i
  PROVE  IInv'
<1>1. job[j] \in JobRecord /\ job' \in [Jobs -> JobRecord] /\ At(j, op) /\ op \in RunCalls /\ Input \in Nat
  BY JobType DEF IInv, TypeOK, JobRecord, Replied, RunCalls, Input
<1>2. Written(j) /\ job[j].kind = "frames"
  BY <1>1 DEF IInv, Stage, Reading, At
<1>3. Len(got) \in Nat /\ Len(todo) \in Nat
  OBVIOUS
<1>4. CASE todo # << >>
  <2> DEFINE r == [job[j] EXCEPT !.todo = Tail(todo), !.got = got]
             n == Head(todo).name
  <2>1. /\ Tail(todo) \in Seq(File) /\ n \in Nat /\ Len(todo) > 0
        /\ DOMAIN Tail(todo) = 1 .. Len(todo) - 1 /\ 1 \in DOMAIN todo /\ Head(todo) = todo[1]
        /\ \A i \in DOMAIN Tail(todo) : i + 1 \in DOMAIN todo /\ Tail(todo)[i] = todo[i + 1]
    BY <1>4, TailMoves, FileQueue
  <2>2. n = Len(got) + 1
    BY <2>1
  <2>3. Len(Tail(todo)) = Len(todo) - 1
    BY <1>4
  <2>4. \A i \in DOMAIN Tail(todo) : Tail(todo)[i].name = Len(got) + 1 + i
    BY <1>3, <2>1
  <2>5. Ask(j, r, "readFrame", n) /\ UNCHANGED <<logging, progress, closure>>
    BY <1>4 DEF ReadFrames
  <2>6. r \in JobRecord
    BY <1>1, <2>1, RecordType
  <2>7. /\ r.dir = Dir(j) /\ r.kind = "frames" /\ r.todo = Tail(todo) /\ r.got = got
        /\ r.outcome = job[j].outcome
    BY <1>1, <1>2, <2>1 DEF JobRecord, Dir
  <2> HIDE DEF r, n
  <2>8. "readFrame" \in Calls /\ op \in Calls /\ op \notin CleanCalls
    BY <1>1, CallSets DEF Calls, RunCalls
  <2>9. /\ job' = [job EXCEPT ![j] = [r EXCEPT !.at = "readFrame"]]
        /\ At(j, "readFrame")' /\ InOrder' /\ OwnDirs' /\ FilesAgree' /\ \A k \in Jobs \ {j} : Stage(k)'
        /\ \A q \in Asked' : q.job = j => q = [job |-> j, op |-> "readFrame", name |-> n]
        /\ Commanded(j)' /\ Answered(j)' /\ Own(j)' = Own(j) /\ Dir(j)' = Dir(j)
        /\ UNCHANGED <<files, dirs, running, abortedAt>>
    BY <2>1, <2>5, <2>6, <2>7, <2>8, ReplyAsks
  <2>10. job'[j] = [r EXCEPT !.at = "readFrame"] /\ \A k \in Jobs \ {j} : job'[k] = job[k]
    BY <2>9, JobType DEF IInv
  <2>11. /\ job'[j].at = "readFrame" /\ job'[j].kind = "frames" /\ job'[j].todo = Tail(todo)
         /\ job'[j].got = got /\ job'[j].outcome = "none" /\ abortedAt'[j] \notin RunCalls
    BY <1>1, <2>6, <2>7, <2>9, <2>10, Undecided DEF JobRecord, At
  <2>12. Requested(j)'
    BY <2>2, <2>9, <2>11 DEF Requested
  <2>13. Reading(j)'
    <3>1. Written(j)'
      BY <1>2, <2>9, <2>11 DEF Written, Numbered
    <3>2. Numbered(j, Len(got) + 1 + Len(Tail(todo)))'
      <4>1. Len(got) + 1 + Len(Tail(todo)) = Len(got) + Len(todo)
        <5>1. \A a, b \in Nat : a + 1 + (b - 1) = a + b
          OBVIOUS
        <5>2. Len(got) + 1 + (Len(todo) - 1) = Len(got) + Len(todo)
          BY <1>3, <5>1
        <5> QED BY <2>3, <5>2
      <4>2. \A m : Numbered(j, m)' <=> Numbered(j, m)
        BY <2>9 DEF Numbered
      <4> QED BY <4>1, <4>2
    <3> QED BY <2>4, <2>11, <3>1, <3>2 DEF Reading, At, GotFrames, GotOwn
  <2>14. Ended(j)'
    BY <2>11 DEF Ended, Obeys
  <2>15. ListensWhileRunning'
    <3>1. Acts(j)
      BY <2>9, <2>10 DEF Acts
    <3>2. job[j].at \in Listening /\ job'[j].at \in Listening /\ ~At(j, "command")
      BY <1>1, <2>11 DEF At, Listening
    <3>3. j \in logging
      BY <3>2 DEF IInv, ListensWhileRunning, Listening
    <3> QED BY <1>1, <2>5, <3>1, <3>2, <3>3, TurnListens
  <2> QED BY <2>9, <2>12, <2>13, <2>14, <2>15 DEF IInv, Stage
<1>5. CASE todo = << >>
  <2> DEFINE r == [job[j] EXCEPT !.todo = << >>, !.got = got, !.outcome = "result"]
  <2>1. Ask(j, r, "rmList", Input) /\ logging' = logging \ {j} /\ UNCHANGED closure
    BY <1>5 DEF ReadFrames
  <2>2. r \in JobRecord
    BY <1>1, RecordType DEF Outcomes
  <2>3. r.dir = Dir(j) /\ r.kind = job[j].kind /\ r.outcome = "result" /\ r.got = got
    BY <1>1 DEF JobRecord, Dir
  <2>4. Numbered(j, Len(got))
    BY <1>3, <1>5
  <2>5. progress' = IF At(j, "command") /\ job[j].kind = "transcode"
                    THEN Unlisten(OnProgress[j]) ELSE progress
    BY <1>2
  <2> HIDE DEF r
  <2> QED BY <1>1, <2>1, <2>2, <2>3, <2>4, <2>5, EndsRun
<1> QED BY <1>4, <1>5

LEMMA FramesReturn ==
  ASSUME IInv, TypeOK', NEW j \in Jobs, FramesListed(j) \/ FrameRead(j)
  PROVE  IInv'
<1>1. CASE FramesListed(j)
  <2>1. Replied(j, "listDir", {"ok"}) /\ UNCHANGED <<progress, closure>>
    BY <1>1 DEF FramesListed
  <2>2. Range(Incoming.files) = Own(j) /\ At(j, "listDir")
    BY <2>1, Heard DEF Says, IInv, Stage
  <2>3. PICK n \in Nat : Numbered(j, n)
    BY <2>2 DEF Reading, Written, At, IInv, Stage
  <2> DEFINE todo == Frames(Incoming.files)
  <2>4. todo \in Seq(File) /\ Len(todo) = n /\ \A i \in 1 .. n : todo[i].name = i
    BY <2>2, <2>3, FramesFound DEF IInv
  <2>5. << >> \in Seq(File) /\ ReadFrames(j, todo, << >>)
    BY <1>1 DEF FramesListed
  <2> HIDE DEF todo
  <2>6. Numbered(j, Len(<< >>) + Len(todo)) /\ \A i \in DOMAIN todo : todo[i].name = Len(<< >>) + i
    BY <2>3, <2>4
  <2>7. \A i \in DOMAIN << >> : FALSE
    OBVIOUS
  <2> DEFINE got == << >>
  <2>8. /\ got \in Seq(File) /\ ReadFrames(j, todo, got)
        /\ \A i \in DOMAIN got : got[i].name = i /\ got[i].by = j /\ got[i].whole
        /\ Numbered(j, Len(got) + Len(todo)) /\ \A i \in DOMAIN todo : todo[i].name = Len(got) + i
    BY <2>5, <2>6, <2>7
  <2> HIDE DEF got
  <2>9. "listDir" \in {"listDir", "readFrame"} /\ todo \in Seq(File) /\ UNCHANGED <<progress, closure>>
    BY <2>1, <2>4
  <2>10. Replied(j, "listDir", {"ok"})
    BY <2>1
  <2> QED BY <2>8, <2>9, <2>10, FramesGoOn
<1>2. CASE FrameRead(j)
  <2>1. Replied(j, "readFrame", {"ok"}) /\ UNCHANGED <<progress, closure>>
    BY <1>2 DEF FrameRead
  <2>2. At(j, "readFrame") /\ InFlight(j) /\ job[j].todo \in Seq(File) /\ job[j].got \in Seq(File)
    BY <2>1 DEF Replied, At, InFlight, Calls, RunCalls, IInv, TypeOK
  <2>3. PICK f \in Own(j) : Incoming.files = <<f>> /\ f.name = Len(job[j].got) + 1
    BY <2>1, Heard DEF Says, IInv, Stage
  <2>4. /\ Written(j) /\ job[j].kind = "frames" /\ GotFrames(j) /\ GotOwn(j)
        /\ Numbered(j, Len(job[j].got) + 1 + Len(job[j].todo))
        /\ \A i \in DOMAIN job[j].todo : job[j].todo[i].name = Len(job[j].got) + 1 + i
    BY <2>2 DEF IInv, Stage, Reading, At
  <2>5. f \in File /\ f.by = j /\ f.whole /\ Head(Incoming.files) = f
    BY <2>2, <2>3, <2>4, OwnFiles DEF Written
  <2> DEFINE got == Append(job[j].got, f)
             todo == job[j].todo
  <2>6. /\ got \in Seq(File) /\ Len(got) = Len(job[j].got) + 1
        /\ DOMAIN got = DOMAIN job[j].got \cup {Len(job[j].got) + 1}
        /\ got[Len(job[j].got) + 1] = f /\ \A i \in DOMAIN job[j].got : got[i] = job[j].got[i]
    BY <2>2, <2>5
  <2>7. ReadFrames(j, todo, got)
    BY <1>2, <2>5 DEF FrameRead
  <2> HIDE DEF got
  <2>8. \A i \in DOMAIN got : got[i].name = i /\ got[i].by = j /\ got[i].whole
    BY <2>3, <2>4, <2>5, <2>6 DEF GotFrames, GotOwn
  <2>9. Numbered(j, Len(got) + Len(todo)) /\ \A i \in DOMAIN todo : todo[i].name = Len(got) + i
    BY <2>4, <2>6
  <2> QED BY <2>1, <2>2, <2>6, <2>7, <2>8, <2>9, FramesGoOn
<1> QED BY <1>1, <1>2

\* A request of the clean-up is answered, and the next one is sent.
LEMMA CleansOn ==
  ASSUME IInv, TypeOK', NEW j \in Jobs, NEW op \in {"rmList", "rmFile"}, NEW results,
         Replied(j, op, results), NEW todo \in Seq(File), Own(j) = Range(todo), Distinct(todo),
         RemoveNext(j, todo), UNCHANGED <<logging, progress, closure>>
  PROVE  IInv'
<1>1. /\ job[j] \in JobRecord /\ job \in [Jobs -> JobRecord] /\ job' \in [Jobs -> JobRecord]
      /\ At(j, op) /\ op \in CleanCalls /\ op \in Calls /\ Input \in Nat
  BY JobType, CallSets DEF IInv, TypeOK, JobRecord, Replied, CleanCalls, Input
<1> DEFINE next == IF todo = << >> THEN "rmDir" ELSE "rmFile"
           rest == IF todo = << >> THEN << >> ELSE Tail(todo)
           n == IF todo = << >> THEN Input ELSE Head(todo).name
           r == [job[j] EXCEPT !.todo = rest]
<1>2. Ask(j, r, next, n) /\ UNCHANGED <<logging, progress, closure>>
  BY DEF RemoveNext
<1>3. next \in {"rmDir", "rmFile"} /\ next \in CleanCalls /\ next \in Calls /\ next \notin Listening
  BY CallSets DEF CleanCalls, Listening
<1>4. rest \in Seq(File) /\ n \in Nat
  BY <1>1, FileQueue
<1>5. next = "rmDir" => Own(j) = {}
  BY RangeEmpty
<1>6. next = "rmFile" =>
        /\ \E f \in Own(j) : f.name = n /\ f \notin Range(rest) /\ Own(j) = {f} \cup Range(rest)
        /\ Distinct(rest)
  <2> SUFFICES ASSUME todo # << >>
      PROVE  /\ \E f \in Own(j) : f.name = Head(todo).name /\ f \notin Range(Tail(todo)) /\ Own(j) = {f} \cup Range(Tail(todo))
             /\ Distinct(Tail(todo))
    OBVIOUS
  <2>1. Own(j) = {Head(todo)} \cup Range(Tail(todo))
    BY RangeTail
  <2>2. \A i \in DOMAIN Tail(todo) : i + 1 # 1
    BY TailMoves
  <2>3. \A i \in DOMAIN Tail(todo) : Tail(todo)[i] # Head(todo)
    BY <2>2, TailMoves DEF Distinct
  <2>4. \A i, k \in DOMAIN Tail(todo) : i # k => i + 1 # k + 1
    BY TailMoves
  <2>5. Distinct(Tail(todo))
    BY <2>4, TailMoves DEF Distinct
  <2>6. Head(todo) \notin Range(Tail(todo))
    BY <2>3 DEF Range
  <2> QED BY <2>1, <2>5, <2>6
<1> HIDE DEF next, rest, n
<1>7. r \in JobRecord
  BY <1>1, <1>4, RecordType
<1>8. /\ r.dir = Dir(j) /\ r.kind = job[j].kind /\ r.outcome = job[j].outcome /\ r.todo = rest
      /\ r.got = job[j].got
  BY <1>1 DEF JobRecord, Dir
<1> HIDE DEF r
<1>9. /\ job' = [job EXCEPT ![j] = [r EXCEPT !.at = next]]
      /\ At(j, next)' /\ InOrder' /\ OwnDirs' /\ FilesAgree' /\ \A k \in Jobs \ {j} : Stage(k)'
      /\ \A q \in Asked' : q.job = j => q = [job |-> j, op |-> next, name |-> n]
      /\ Commanded(j)' /\ Answered(j)' /\ Own(j)' = Own(j) /\ Dir(j)' = Dir(j)
      /\ UNCHANGED <<files, dirs, running, abortedAt>>
  BY <1>1, <1>2, <1>3, <1>4, <1>7, <1>8, ReplyAsks
<1>10. job'[j] = [r EXCEPT !.at = next] /\ \A k \in Jobs \ {j} : job'[k] = job[k]
  BY <1>1, <1>9
<1>11. /\ job'[j].at = next /\ job'[j].kind = job[j].kind /\ job'[j].outcome = job[j].outcome
       /\ job'[j].todo = rest /\ job'[j].got = job[j].got
  BY <1>7, <1>8, <1>10 DEF JobRecord
<1>12. Requested(j)'
  BY <1>3, <1>5, <1>6, <1>9, <1>11 DEF Requested
<1>13. Reading(j)'
  BY <1>3, <1>6, <1>11 DEF Reading, At
<1>14. Ended(j)'
  BY <1>1, <1>3, <1>9, <1>11, CallSets DEF IInv, Stage, Ended, Obeys, GotOwn, GotFrames, At
<1>15. ListensWhileRunning'
  <2>1. Acts(j) /\ job[j].at \notin Listening
    BY <1>1, <1>9, <1>10 DEF Acts, Listening, At
  <2>2. j \notin logging
    BY <2>1 DEF IInv, ListensWhileRunning, Listening
  <2>3. ~At(j, "command")
    BY <2>1 DEF At, Listening
  <2> QED BY <1>1, <1>2, <1>3, <1>11, <2>1, <2>2, <2>3, TurnListens
<1> QED BY <1>9, <1>12, <1>13, <1>14, <1>15 DEF IInv, Stage

\* A job settles or reads its input; it has no call under way then.
LEMMA Rests ==
  ASSUME IInv, TypeOK', NEW j \in Jobs, NEW r \in JobRecord, OnlyJob(j, r), r.at \in {"input", "done"},
         Heeded, \A q \in Asked : q.job # j, ~(running.busy /\ running.job = j),
         \A m \in Told' : m.job = j /\ m.op \in Calls => m.op \in RunCalls /\ r.at = "done",
         InFlight(j) => Dir(j) \notin dirs, ~At(j, "command"), job[j].at \notin Listening,
         Obeys(r, abortedAt'[j]),
         r.outcome = "result" => job[j].outcome = "result" /\ r.got = job[j].got /\ r.kind = job[j].kind,
         r.at = "input" => r.outcome = "none",
         abortedAt'[j] \in RunCalls => r.at = "done",
         \A k \in Jobs \ {j} : abortedAt'[k] = abortedAt[k],
         nextJob' \in {nextJob, nextJob + 1}, InFlight(j) => UNCHANGED nextJob,
         UNCHANGED <<inbox, dirs, files, running, logging, progress>>
  PROVE  IInv'
<1>1. job' \in [Jobs -> JobRecord] /\ job \in [Jobs -> JobRecord]
  BY JobType DEF IInv, TypeOK, JobRecord
<1>2. job'[j] = r /\ \A k \in Jobs \ {j} : job'[k] = job[k]
  BY <1>1 DEF OnlyJob
<1>3. Acts(j) /\ r.at \notin Calls /\ r.at \notin CleanCalls /\ r.at \notin RunCalls
  BY <1>2, CallSets DEF Acts
<1>4. InOrder' /\ Asked' = Asked
  BY <1>2, <1>3, RestsInOrder DEF IInv
<1>5. OwnDirs' /\ FilesAgree'
  <2>1. nextJob \in Nat
    BY DEF IInv, TypeOK
  <2>2. Holds(j)
    BY <1>2, <1>3 DEF Holds, InFlight
  <2> QED BY <1>3, <2>2, TurnOfHolder
<1>6. \A k \in Jobs \ {j} : Stage(k)'
  BY <1>3, <1>4, OthersKept DEF Heeded
<1>7. Requested(j)' /\ Commanded(j)'
  BY <1>4 DEF Requested, Commanded
<1>8. Answered(j)'
  <2>1. \A m \in Told' : ~(m.job = j /\ At(j, m.op)')
    <3> SUFFICES ASSUME NEW m \in Told', m.job = j, m.op = r.at PROVE FALSE
      BY <1>2 DEF At
    <3>1. m \in Told
      BY DEF Heeded
    <3>2. m.op \in Calls \cup {"log", "progress"}
      BY <3>1, AskedOps DEF IInv
    <3> QED BY <1>3, <3>2
  <2> QED BY <2>1 DEF Answered
<1>9. Reading(j)'
  BY <1>2 DEF Reading, At
<1>10. Ended(j)'
  BY <1>2, <1>3 DEF IInv, Stage, Ended, GotOwn, GotFrames, At
<1>11. ListensWhileRunning'
  <2>1. j \notin logging /\ job'[j].at \notin Listening
    BY <1>2 DEF IInv, ListensWhileRunning, Listening
  <2> QED BY <1>1, <1>3, <2>1, TurnListens
<1> QED BY <1>4, <1>5, <1>6, <1>7, <1>8, <1>9, <1>10, <1>11 DEF IInv, Stage

LEMMA CleanUpKeeps ==
  ASSUME IInv, TypeOK', NEW j \in Jobs, CleanUp(j)
  PROVE  IInv'
<1>1. UNCHANGED <<logging, progress, closure>>
  BY DEF CleanUp
<1>2. CASE Replied(j, "rmList", {"ok"}) /\ RemoveNext(j, Incoming.files)
  <2>1. Deliver /\ Incoming.result = "ok" /\ Incoming.op = "rmList" /\ Says(j, Incoming)
    BY <1>2, Heard DEF IInv, Stage
  <2>2. Incoming.files \in Seq(File) /\ Own(j) = Range(Incoming.files) /\ Distinct(Incoming.files)
    BY <2>1, IncomingType DEF Says, IInv
  <2>3. Replied(j, "rmList", {"ok"}) /\ RemoveNext(j, Incoming.files)
    BY <1>2
  <2> QED BY <1>1, <2>2, <2>3, CleansOn
<1>3. CASE Replied(j, "rmFile", {"ok"}) /\ RemoveNext(j, job[j].todo)
  <2>1. Replied(j, "rmFile", {"ok"}) /\ RemoveNext(j, job[j].todo)
    BY <1>3
  <2>2. Incoming.op = "rmFile" /\ Says(j, Incoming) /\ At(j, "rmFile")
    BY <2>1, Heard DEF IInv, Stage
  <2>3. job[j].todo \in Seq(File) /\ Own(j) = Range(job[j].todo) /\ Distinct(job[j].todo)
    BY <2>2 DEF Says, IInv, Stage, Reading, TypeOK
  <2> QED BY <1>1, <2>1, <2>3, CleansOn
<1>4. CASE /\ Replied(j, "rmDir", {"ok"}) \/ \E op \in CleanCalls : Replied(j, op, {"error"})
           /\ OnlyJob(j, [job[j] EXCEPT !.at = "done", !.todo = << >>]) /\ UNCHANGED inbox
  <2>1. PICK op \in CleanCalls : Replied(j, op, {"error"}) \/ (op = "rmDir" /\ Replied(j, op, {"ok"}))
    BY <1>4 DEF CleanCalls
  <2>2. /\ Deliver /\ Incoming \in Told /\ Incoming.job = j /\ Incoming.op = op /\ At(j, op)
        /\ Incoming.result = "error" \/ (op = "rmDir" /\ Says(j, Incoming))
    BY <2>1, Heard DEF IInv, Stage
  <2>3. Dir(j) \notin dirs
    <3>1. Says(j, Incoming)
      BY <2>1, Heard DEF IInv, Stage
    <3> QED BY <2>1, <2>2, <3>1 DEF Says, CleanCalls, Replied
  <2>4. op \in Calls /\ op \notin RunCalls /\ op \notin Listening
    BY CallSets DEF CleanCalls, Listening
  <2>5. (\A q \in Asked : q.job # j) /\ ~(running.busy /\ running.job = j)
    BY <2>2, <2>4, Awaited DEF IInv
  <2>6. Heeded /\ \A m \in Told' : ~Clash(j, op, m)
    BY <2>2, <2>4, DeliverHeeds DEF IInv
  <2>7. \A m \in Told' : m.job = j /\ m.op \in Calls => m.op \in RunCalls
    BY <2>2, <2>6 DEF Clash, IInv, InOrder, RepliesInOrder, Heeded, At
  <2> DEFINE r == [job[j] EXCEPT !.at = "done", !.todo = << >>]
  <2>8. job[j] \in JobRecord /\ OnlyJob(j, r) /\ UNCHANGED inbox
    BY <1>4, JobType DEF IInv
  <2>9. r \in JobRecord
    BY <2>8, RecordType
  <2>10. r.at = "done" /\ r.kind = job[j].kind /\ r.got = job[j].got /\ r.outcome = job[j].outcome
    BY <2>8 DEF JobRecord
  <2> HIDE DEF r
  <2>11. Obeys(r, abortedAt'[j])
    BY <1>1, <2>10 DEF closure, IInv, Stage, Ended, Obeys
  <2>12. /\ UNCHANGED <<inbox, dirs, files, running, logging, progress, nextJob, abortedAt>>
         /\ ~At(j, "command") /\ job[j].at \notin Listening
    BY <1>1, <2>2, <2>4, <2>8 DEF closure, serverVars, At, Listening
  <2> QED BY <2>3, <2>5, <2>6, <2>7, <2>8, <2>9, <2>10, <2>11, <2>12, Rests
<1> QED BY <1>2, <1>3, <1>4 DEF CleanUp

\* A job that has no call yet, or none any more.
LEMMA AtRest ==
  ASSUME IInv, NEW j \in Jobs, At(j, "idle") \/ At(j, "input")
  PROVE  /\ ~InFlight(j) /\ (\A q \in Asked : q.job # j) /\ ~(running.busy /\ running.job = j)
         /\ \A m \in Told : ~(m.job = j /\ m.op \in Calls)
         /\ job[j].outcome = "none" /\ abortedAt[j] \notin RunCalls
         /\ ~At(j, "command") /\ job[j].at \notin Listening
<1>1. ~InFlight(j) /\ ~At(j, "done") /\ ~At(j, "command") /\ job[j].at \notin Listening
  BY CallSets DEF At, InFlight, Listening
<1>2. job[j].at \notin CleanCalls \cup {"done"}
  BY <1>1, CallSets DEF InFlight, At
<1>3. job[j].outcome = "none" /\ abortedAt[j] \notin RunCalls
  BY <1>1, <1>2 DEF IInv, Stage, Ended, At
<1> QED BY <1>1, <1>3, Quiet DEF IInv

\* Job j takes the next number and asks for its directory.
LEMMA Enters ==
  ASSUME IInv, TypeOK', NEW j \in Jobs, At(j, "idle") \/ At(j, "input"),
         NEW r \in JobRecord, EnterDir(j, r), r.outcome = "none",
         UNCHANGED <<abortedAt, tails, logging, progress, outbox, serverVars>>
  PROVE  IInv'
<1>1. /\ ~InFlight(j) /\ (\A q \in Asked : q.job # j) /\ ~(running.busy /\ running.job = j)
      /\ \A m \in Told : ~(m.job = j /\ m.op \in Calls)
      /\ job[j].outcome = "none" /\ abortedAt[j] \notin RunCalls
      /\ ~At(j, "command") /\ job[j].at \notin Listening
  BY AtRest
<1>2. /\ UNCHANGED <<dirs, files, running, worker>> /\ nextJob \in Nat /\ nextJob' = nextJob + 1
      /\ job' \in [Jobs -> JobRecord] /\ job \in [Jobs -> JobRecord]
  BY JobType DEF EnterDir, IInv, TypeOK, JobRecord, serverVars
<1>3. Heeded /\ Told' = Told
  BY StaysHeeds DEF IInv, Told
<1> DEFINE named == [r EXCEPT !.dir = nextJob]
<1>4. /\ named \in JobRecord /\ named.dir = nextJob /\ named.outcome = "none"
  BY <1>2 DEF JobRecord
<1>5. CASE worker
  <2>1. Ask(j, named, "createDir", Input)
    BY <1>5 DEF EnterDir
  <2> HIDE DEF named
  <2> DEFINE q == [job |-> j, op |-> "createDir", name |-> Input]
  <2>2. q \in Request /\ q.job = j /\ q.op = "createDir" /\ inbox' = Append(inbox, q)
    BY <2>1 DEF Ask, Request, Calls, RunCalls, Input
  <2>3. job'[j] = [named EXCEPT !.at = "createDir"] /\ \A k \in Jobs \ {j} : job'[k] = job[k]
    BY <1>2, <2>1 DEF Ask, OnlyJob
  <2>4. job'[j].at = "createDir" /\ job'[j].dir = nextJob /\ job'[j].outcome = "none" /\ Acts(j)
    BY <1>2, <1>4, <2>3 DEF Acts, JobRecord
  <2>5. InOrder' /\ Asked' = Asked \cup {q}
    <3> HIDE DEF q
    <3> QED BY <1>1, <1>3, <2>2, <2>4, AsksInOrder DEF IInv
  <2>6. OwnDirs' /\ FilesAgree'
    <3>1. Holds(j)
      BY <1>1, <1>2, <2>4 DEF Holds, InFlight, Dir, Calls, RunCalls
    <3> QED BY <1>2, <2>4, <3>1, TurnOfHolder
  <2>7. \A k \in Jobs \ {j} : Stage(k)'
    BY <1>2, <1>3, <2>2, <2>4, <2>5, OthersKept
  <2>8. Requested(j)'
    <3>1. nextJob \notin dirs
      BY <1>2 DEF IInv, FilesAgree, NothingLeft, OwnDirs
    <3>2. Dir(j)' \notin dirs'
      BY <1>2, <2>4, <3>1 DEF Dir
    <3> QED BY <1>1, <2>5, <3>2 DEF Requested
  <2>9. Commanded(j)' /\ Answered(j)'
    <3>1. \A m \in Told' : ~(m.job = j /\ m.op = "createDir")
      BY <1>1, <1>3 DEF Calls, RunCalls
    <3> QED BY <1>1, <1>2, <2>4, <3>1 DEF Commanded, Answered, At
  <2>10. Reading(j)' /\ Ended(j)'
    BY <1>1, <2>4 DEF Reading, Ended, Obeys, At
  <2>11. ListensWhileRunning'
    <3>1. j \notin logging /\ job'[j].at \notin Listening
      BY <1>1, <2>4 DEF IInv, ListensWhileRunning, Listening
    <3> QED BY <1>1, <1>2, <2>4, <3>1, TurnListens
  <2> QED BY <2>5, <2>6, <2>7, <2>8, <2>9, <2>10, <2>11 DEF IInv, Stage
<1>6. CASE ~worker
  <2> DEFINE s == [named EXCEPT !.at = "done", !.outcome = "lost"]
  <2>1. OnlyJob(j, s) /\ UNCHANGED inbox
    BY <1>6 DEF EnterDir
  <2>2. s \in JobRecord /\ s.at = "done" /\ s.outcome = "lost"
    <3> HIDE DEF named
    <3>1. s \in JobRecord
      BY <1>4, RecordType DEF Outcomes
    <3> QED BY <1>4, <3>1 DEF JobRecord
  <2> HIDE DEF s, named
  <2>3. Obeys(s, abortedAt'[j])
    BY <1>1 DEF Obeys
  <2> QED BY <1>1, <1>2, <1>3, <2>1, <2>2, <2>3, Rests
<1> QED BY <1>5, <1>6

LEMMA StartKeeps ==
  ASSUME IInv, TypeOK', NEW j \in Jobs,
         Reject(j) \/ InputRead(j) \/ InputFails(j) \/ \E m \in Menu : Start(j, m[1], m[2])
  PROVE  IInv'
<1>1. job[j] \in JobRecord /\ (At(j, "idle") \/ At(j, "input"))
  BY JobType DEF IInv, Reject, InputRead, InputFails, Start
<1>2. /\ ~InFlight(j) /\ (\A q \in Asked : q.job # j) /\ ~(running.busy /\ running.job = j)
      /\ \A m \in Told : ~(m.job = j /\ m.op \in Calls)
      /\ job[j].outcome = "none" /\ abortedAt[j] \notin RunCalls
      /\ ~At(j, "command") /\ job[j].at \notin Listening
  BY <1>1, AtRest
<1>3. Heeded /\ Told' = Told
  BY StaysHeeds DEF IInv, Told, Reject, InputRead, InputFails, Start
<1>4. CASE Reject(j) \/ InputFails(j)
  <2>1. PICK o \in {"invalid", "aborted", "failed"} :
          OnlyJob(j, [job[j] EXCEPT !.at = "done", !.outcome = o])
    BY <1>4 DEF Reject, InputFails
  <2> DEFINE r == [job[j] EXCEPT !.at = "done", !.outcome = o]
  <2>2. r \in JobRecord /\ r.at = "done" /\ r.outcome = o
    <3>1. r \in JobRecord
      BY <1>1, RecordType DEF Outcomes
    <3> QED BY <1>1, <3>1 DEF JobRecord
  <2>3. OnlyJob(j, r)
    BY <2>1
  <2>4. UNCHANGED <<inbox, dirs, files, running, logging, progress, nextJob, abortedAt>>
    BY <1>4 DEF Reject, InputFails, closure, serverVars
  <2> HIDE DEF r
  <2>5. Obeys(r, abortedAt'[j])
    BY <1>2, <2>4 DEF Obeys
  <2> QED BY <1>2, <1>3, <2>2, <2>3, <2>4, <2>5, Rests
<1>5. CASE InputRead(j)
  BY <1>1, <1>2, <1>5, Enters DEF InputRead
<1>6. CASE \E m \in Menu : Start(j, m[1], m[2])
  <2>1. PICK kind \in Kinds, source \in Sources : Start(j, kind, source)
    BY <1>6
  <2> DEFINE r == [job[j] EXCEPT !.kind = kind, !.source = source]
  <2>2. r \in JobRecord /\ r.outcome = "none"
    BY <1>1, <1>2 DEF JobRecord
  <2>3. UNCHANGED <<abortedAt, tails, logging, progress, outbox, serverVars>>
    BY <2>1 DEF Start
  <2>4. CASE source = "bytes"
    <3>1. EnterDir(j, r)
      BY <2>1, <2>4 DEF Start
    <3> HIDE DEF r
    <3> QED BY <1>1, <2>2, <2>3, <3>1, Enters
  <2>5. CASE source # "bytes"
    <3> DEFINE s == [r EXCEPT !.at = "input"]
    <3>1. OnlyJob(j, s) /\ UNCHANGED <<nextJob, inbox>>
      BY <2>1, <2>5 DEF Start
    <3>2. s \in JobRecord /\ s.at = "input" /\ s.outcome = "none"
      <4> HIDE DEF r
      <4> QED BY <2>2 DEF JobRecord, Steps
    <3>3. UNCHANGED <<inbox, dirs, files, running, logging, progress, nextJob, abortedAt>>
      BY <2>3, <3>1 DEF serverVars
    <3> HIDE DEF r, s
    <3>4. Obeys(s, abortedAt'[j])
      BY <1>2, <3>3 DEF Obeys
    <3> QED BY <1>2, <1>3, <3>1, <3>2, <3>3, <3>4, Rests
  <2> QED BY <2>4, <2>5
<1> QED BY <1>4, <1>5, <1>6

\* The signal of a job whose call is in flight: it leaves that call behind.
LEMMA GivesUp ==
  ASSUME IInv, TypeOK', NEW j \in Jobs, Abort(j), job[j].at \in RunCalls
  PROVE  IInv'
<1> DEFINE why == Rejection(job[j].kind, job[j].at, "aborted")
<1>1. /\ Leave(j, why) /\ UNCHANGED <<nextJob, outbox, dirs, files, running>>
      /\ \A k \in Jobs \ {j} : abortedAt'[k] = abortedAt[k]
      /\ job[j] \in JobRecord /\ job \in [Jobs -> JobRecord] /\ job' \in [Jobs -> JobRecord]
  <2>1. job[j] \in JobRecord /\ job \in [Jobs -> JobRecord] /\ job' \in [Jobs -> JobRecord]
    BY JobType DEF IInv, TypeOK, JobRecord
  <2>2. job[j].at # "input"
    BY CallSets
  <2> QED BY <2>1, <2>2 DEF Abort, At, IInv, TypeOK
<1> DEFINE r == [job[j] EXCEPT !.outcome = why, !.todo = << >>]
           q == [job |-> j, op |-> "rmList", name |-> Input]
<1>2. job'[j] = [r EXCEPT !.at = "rmList"] /\ \A k \in Jobs \ {j} : job'[k] = job[k]
  BY <1>1 DEF Leave, Ask, OnlyJob
<1>3. r \in JobRecord /\ why \in {"aborted", "failed"}
  BY <1>1, RecordType DEF Outcomes, Rejection
<1>4. r.dir = Dir(j) /\ r.outcome = why /\ r.got = job[j].got /\ r.kind = job[j].kind
  BY <1>1 DEF JobRecord, Dir
<1>5. q \in Request /\ q.job = j /\ q.op = "rmList" /\ inbox' = Append(inbox, q)
  BY <1>1, CallSets DEF Leave, Ask, Request, Input
<1> HIDE DEF r
<1>6. /\ job'[j].at = "rmList" /\ job'[j].outcome = why /\ job'[j].got = job[j].got
      /\ job'[j].dir = Dir(j) /\ job'[j].kind = job[j].kind
  BY <1>2, <1>3, <1>4 DEF JobRecord
<1>7. Acts(j)
  BY <1>1, <1>2 DEF Acts
<1>8. InOrder' /\ Asked' = Asked \cup {q} /\ \A p \in Asked : p.job = j => p.op \in RunCalls
  <2> HIDE DEF q
  <2> HIDE DEF why
  <2> QED BY <1>1, <1>3, <1>5, <1>6, <1>7, GivesUpInOrder DEF IInv
<1>9. OwnDirs' /\ FilesAgree'
  <2>1. Holds(j)
    BY <1>1, <1>6, CallSets DEF Holds, InFlight, Dir
  <2> QED BY <1>1, <1>7, <2>1, TurnOfHolder
<1>10. \A k \in Jobs \ {j} : Stage(k)'
  <2>1. Told' \subseteq Told
    BY <1>1 DEF Told
  <2> QED BY <1>1, <1>5, <1>7, <1>8, <2>1, OthersKept
<1>11. /\ Own(j)' = Own(j) /\ Dir(j)' = Dir(j) /\ InputOf(j)' = InputOf(j)
       /\ \A n : Numbered(j, n)' <=> Numbered(j, n)
  BY <1>1, <1>6 DEF Own, FilesIn, Dir, InputOf, Numbered
<1>12. Requested(j)'
  <2>1. (Fresh(j)' <=> Fresh(j)) /\ (Ready(j)' <=> Ready(j))
    BY <1>1, <1>11 DEF Fresh, Ready
  <2>2. \A p \in Asked' : p.job = j => p.op = "rmList" \/ (p \in Asked /\ p.op \in RunCalls)
    BY <1>5, <1>8
  <2>3. {"rmList", "rmFile", "rmDir"} \cap RunCalls = {}
    BY CallSets DEF CleanCalls
  <2> QED BY <1>1, <1>6, <1>11, <2>1, <2>2, <2>3 DEF IInv, Stage, Requested
<1>13. Commanded(j)'
  BY <1>1, <1>11 DEF IInv, Stage, Commanded
<1>14. Answered(j)'
  <2>1. \A m \in Told : ~(m.job = j /\ m.op = "rmList")
    BY CallSets DEF IInv, InOrder, RepliesInOrder, At
  <2> QED BY <1>1, <1>6, <2>1 DEF Answered, At, Told
<1>15. Reading(j)' /\ Ended(j)'
  <2>1. abortedAt'[j] = job[j].at
    BY DEF Abort, IInv, TypeOK
  <2>2. Obeys(job'[j], abortedAt'[j])
    BY <1>6, <2>1 DEF Obeys
  <2> HIDE DEF why
  <2> QED BY <1>3, <1>6, <2>2, CallSets DEF Reading, Ended, At
<1>16. ListensWhileRunning'
  <2>1. /\ job'[j].at \notin Listening /\ logging' = logging \ {j}
        /\ progress' = IF At(j, "command") /\ job[j].kind = "transcode"
                       THEN Unlisten(OnProgress[j]) ELSE progress
    BY <1>1, <1>6 DEF Listening, Leave
  <2> QED BY <1>1, <1>7, <2>1, TurnListens DEF Unlisten
<1> QED BY <1>8, <1>9, <1>10, <1>12, <1>13, <1>14, <1>15, <1>16 DEF IInv, Stage

\* The signal of a job that does not look at it.
LEMMA SignalIgnored ==
  ASSUME IInv, TypeOK', NEW j \in Jobs, job[j].at \notin RunCalls, abortedAt'[j] = job[j].at,
         \A k \in Jobs \ {j} : abortedAt'[k] = abortedAt[k],
         UNCHANGED <<job, logging, progress, inbox, nextJob, outbox, dirs, files, running>>
  PROVE  IInv'
<1>1. Acts(j) /\ Heeded
  BY StaysHeeds DEF Acts, IInv
<1>2. InOrder' /\ Asked' = Asked /\ Told' = Told
  BY <1>1, StaysInOrder DEF IInv, Told
<1>3. OwnDirs' /\ FilesAgree'
  BY DEF IInv, OwnDirs, FilesAgree, NothingLeft, InFlight, Dir
<1>4. \A k \in Jobs \ {j} : Stage(k)'
  BY <1>1, <1>2, OthersKept
<1>5. Untouched(j) /\ job'[j] = job[j]
  BY DEF Untouched, Own, FilesIn, Dir
<1>6. /\ Dir(j)' = Dir(j) /\ InputOf(j)' = InputOf(j)
      /\ Fresh(j)' <=> Fresh(j)
      /\ Ready(j)' <=> Ready(j)
      /\ \A n : Numbered(j, n)' <=> Numbered(j, n)
      /\ Written(j)' <=> Written(j)
      /\ \A m : Says(j, m)' <=> Says(j, m)
      /\ InputOf(j) \in files' <=> InputOf(j) \in files
      /\ Own(j)' = Own(j)
  BY <1>5, SameDirectory DEF Untouched
<1>7. Requested(j)'
  BY <1>2, <1>5, <1>6 DEF IInv, Stage, Requested
<1>8. Commanded(j)'
  BY <1>6 DEF IInv, Stage, Commanded
<1>9. Answered(j)'
  BY <1>2, <1>5, <1>6 DEF IInv, Stage, Answered, At
<1>10. Reading(j)'
  BY <1>5, <1>6 DEF IInv, Stage, Reading, GotFrames, GotOwn, At
<1>11. Ended(j)'
  BY <1>5, <1>6 DEF IInv, Stage, Ended, Obeys, GotFrames, GotOwn, At
<1>12. ListensWhileRunning'
  BY DEF IInv, ListensWhileRunning, At
<1> QED BY <1>2, <1>3, <1>4, <1>7, <1>8, <1>9, <1>10, <1>11, <1>12 DEF IInv, Stage

LEMMA AbortKeeps ==
  ASSUME IInv, TypeOK', NEW j \in Jobs, Abort(j)
  PROVE  IInv'
<1>1. /\ abortedAt'[j] = job[j].at /\ \A k \in Jobs \ {j} : abortedAt'[k] = abortedAt[k]
      /\ UNCHANGED <<nextJob, outbox, dirs, files, running>>
  BY DEF Abort, IInv, TypeOK
<1>2. CASE job[j].at \in RunCalls
  BY <1>2, GivesUp
<1>3. CASE At(j, "input") /\ job[j].source = "url"
  <2> DEFINE r == [job[j] EXCEPT !.at = "done", !.outcome = "aborted"]
  <2>1. OnlyJob(j, r) /\ UNCHANGED <<logging, progress, inbox>> /\ "input" \notin RunCalls
    BY <1>3, CallSets DEF Abort, At
  <2>2. job[j] \in JobRecord /\ r \in JobRecord
    BY JobType, RecordType DEF IInv, Outcomes
  <2>3. r.at = "done" /\ r.outcome = "aborted"
    BY <2>2 DEF JobRecord
  <2> HIDE DEF r
  <2>4. /\ ~InFlight(j) /\ (\A q \in Asked : q.job # j) /\ ~(running.busy /\ running.job = j)
        /\ \A m \in Told : ~(m.job = j /\ m.op \in Calls)
        /\ ~At(j, "command") /\ job[j].at \notin Listening
    BY <1>3, AtRest
  <2>5. Heeded /\ Told' = Told
    BY <1>1, StaysHeeds DEF IInv, Told
  <2>6. Obeys(r, abortedAt'[j])
    BY <1>1, <1>3, CallSets DEF Obeys, At
  <2> QED BY <1>1, <2>1, <2>2, <2>3, <2>4, <2>5, <2>6, Rests
<1>4. CASE job[j].at \notin RunCalls /\ ~(At(j, "input") /\ job[j].source = "url")
  <2>1. UNCHANGED <<job, logging, progress, inbox>>
    BY <1>4 DEF Abort
  <2> QED BY <1>1, <1>4, <2>1, SignalIgnored
<1> QED BY <1>2, <1>3, <1>4

\* An event, or a reply that nobody awaits.
LEMMA EventKeeps ==
  ASSUME IInv, TypeOK', DeliverLog \/ DeliverNothing
  PROVE  IInv'
<1>1. Deliver /\ UNCHANGED <<job, abortedAt, logging, progress, nextJob, inbox, dirs, files, running>>
  BY DEF DeliverLog, DeliverNothing, jobVars, serverVars
<1>2. Heeded
  BY <1>1, DeliverHeeds DEF IInv
<1>3. InOrder' /\ Asked' = Asked
  BY <1>1, <1>2, StaysInOrder DEF IInv
<1>4. OwnDirs' /\ FilesAgree'
  BY <1>1 DEF IInv, OwnDirs, FilesAgree, NothingLeft, InFlight, Dir
<1>5. \A j \in Jobs : Apart(j) /\ Untouched(j)
  BY <1>1, <1>2, <1>3 DEF Apart, Untouched, Own, FilesIn, Dir, Heeded
<1>6. \A j \in Jobs : Stage(j)'
  BY <1>5, StageKept DEF IInv
<1>7. ListensWhileRunning'
  BY <1>1 DEF IInv, ListensWhileRunning, At
<1> QED BY <1>3, <1>4, <1>6, <1>7 DEF IInv

-----------------------------------------------------------------------------
(* The worker.                                                              *)

\* Only the directory of job j is changed.
OnlyDirOf(j) ==
  \A d \in Nat \ {Dir(j)} : FilesIn(d)' = FilesIn(d) /\ (d \in dirs' <=> d \in dirs)

LEMMA OthersUntouched ==
  ASSUME IInv, NEW j \in Jobs, InFlight(j), UNCHANGED job, OnlyDirOf(j)
  PROVE  \A k \in Jobs \ {j} : InFlight(k) => Untouched(k)
<1> SUFFICES ASSUME NEW k \in Jobs \ {j}, InFlight(k) PROVE Untouched(k)
  OBVIOUS
<1>1. Dir(k) \in Nat \ {Dir(j)} /\ Dir(k)' = Dir(k)
  BY DEF IInv, OwnDirs, TypeOK, Dir
<1>2. PICK d \in Nat \ {Dir(j)} : d = Dir(k) /\ d = Dir(k)'
  BY <1>1
<1>3. {f \in files' : f.dir = d} = {f \in files : f.dir = d} /\ (d \in dirs' <=> d \in dirs)
  BY DEF OnlyDirOf, FilesIn
<1> QED BY <1>2, <1>3 DEF Untouched, Own, FilesIn

\* A request of job j is served, as Says has it if the job awaits the answer.
LEMMA Serves ==
  ASSUME IInv, TypeOK', NEW ops, Receive(ops), NEW j \in Jobs, Taken.job = j,
         NEW result \in Results, NEW fs \in Seq(File), Answer(Taken, result, fs),
         UNCHANGED <<jobVars, running>>, OnlyDirOf(j), FilesAgree',
         Taken.op \in {"createDir", "writeFile", "rmFile", "rmDir"} \/ UNCHANGED <<dirs, files>>,
         NEW m, m = [job |-> j, op |-> Taken.op, result |-> result, files |-> fs],
         At(j, Taken.op) => Says(j, m)'
  PROVE  IInv'
<1>1. UNCHANGED <<job, abortedAt, logging, progress, nextJob>>
  BY DEF jobVars
<1>2. /\ InFlight(j)
      /\ \A k \in Told : k.job = j => ~At(j, k.op)
      /\ \/ At(j, Taken.op) /\ \A r \in Asked' : r.job # j
         \/ GaveUp(j) /\ \A r \in Asked' : r.job = j => r.op = "rmList"
  BY TakenInOrder DEF IInv
<1>3. Asked' \subseteq Asked /\ ~running.busy
  BY Received DEF IInv
<1>4. InOrder' /\ Told' = Told \cup {m}
  BY <1>1, ServesInOrder DEF IInv
<1>5. OwnDirs' /\ ListensWhileRunning'
  BY <1>1 DEF IInv, OwnDirs, ListensWhileRunning, InFlight, Dir, At
<1>6. \A k \in Jobs \ {j} : Stage(k)'
  <2>1. \A k \in Jobs \ {j} : Apart(k)
    BY <1>1, <1>3, <1>4 DEF Apart
  <2>2. \A k \in Jobs \ {j} : InFlight(k) => Untouched(k)
    BY <1>1, <1>2, OthersUntouched
  <2> QED BY <2>1, <2>2, StageKept DEF IInv
<1>7. Requested(j)' /\ Commanded(j)'
  BY <1>2, <1>3 DEF Requested, Commanded
<1>8. Answered(j)'
  BY <1>1, <1>2, <1>4 DEF Answered, At
<1>9. job[j].at \in {"readFile", "listDir", "readFrame", "rmList"} => GaveUp(j) \/ Untouched(j)
  BY <1>1, <1>2 DEF At, Untouched, Own, FilesIn, Dir
<1>10. Untouched(j) => (Written(j)' <=> Written(j)) /\ \A n : Numbered(j, n)' <=> Numbered(j, n)
  BY <1>1, SameDirectory
<1>11. Reading(j)'
  <2>1. job[j].at \in {"readFile", "listDir", "readFrame"} => Untouched(j)
    BY <1>9 DEF GaveUp, At
  <2> QED BY <1>1, <1>10, <2>1 DEF IInv, Stage, Reading, GotFrames, GotOwn, At
<1>12. Ended(j)'
  <2>1. job[j].outcome = "result" /\ At(j, "rmList") => Untouched(j)
    BY <1>9 DEF GaveUp, At
  <2> QED BY <1>1, <1>10, <2>1 DEF IInv, Stage, Ended, GotFrames, GotOwn, At
<1> QED BY <1>4, <1>5, <1>6, <1>7, <1>8, <1>11, <1>12 DEF IInv, Stage

LEMMA SameFiles ==
  ASSUME NEW j \in Jobs, UNCHANGED <<dirs, files>>
  PROVE  OnlyDirOf(j) /\ (IInv /\ UNCHANGED job => FilesAgree')
BY DEF OnlyDirOf, FilesIn, IInv, FilesAgree, NothingLeft, InFlight, Dir

LEMMA CreateDirServed ==
  ASSUME IInv, TypeOK', ServeCreateDir
  PROVE  IInv'
<1>1. Receive({"createDir"}) /\ UNCHANGED <<jobVars, running, files, job>>
  BY DEF ServeCreateDir, jobVars
<1>2. PICK j \in Jobs : Taken.job = j /\ Taken.op = "createDir" /\ Taken \in Asked
  BY <1>1, Received DEF IInv
<1>3. InFlight(j) /\ Dir(j) \in Nat
  BY <1>1, <1>2, TakenInOrder DEF IInv, TypeOK, Dir
<1>4. Dir(j) \notin dirs
  BY <1>2 DEF IInv, Stage, Requested
<1>5. Answer(Taken, "ok", << >>) /\ dirs' = dirs \cup {Dir(j)}
  BY <1>2, <1>4 DEF ServeCreateDir
<1>6. OnlyDirOf(j)
  BY <1>1, <1>5 DEF OnlyDirOf, FilesIn
<1>7. FilesAgree'
  BY <1>1, <1>3, <1>5 DEF IInv, FilesAgree, NothingLeft, InFlight, Dir
<1> DEFINE m == [job |-> j, op |-> Taken.op, result |-> "ok", files |-> << >>]
<1>8. Fresh(j)'
  BY <1>1, <1>4, <1>5 DEF Fresh, Own, FilesIn, Dir, IInv, FilesAgree, NothingLeft
<1>9. m.op = "createDir"
  BY <1>2
<1>10. PICK k : k = m
  OBVIOUS
<1>11. Says(j, k)'
  BY <1>8, <1>9, <1>10 DEF Says
<1>12. "ok" \in Results /\ << >> \in Seq(File)
  BY DEF Results
<1> QED BY <1>1, <1>2, <1>5, <1>6, <1>7, <1>10, <1>11, <1>12, Serves

LEMMA WriteFileServed ==
  ASSUME IInv, TypeOK', ServeWriteFile
  PROVE  IInv'
<1>1. Receive({"writeFile"}) /\ UNCHANGED <<jobVars, running, dirs, job>>
  BY DEF ServeWriteFile, jobVars
<1>2. PICK j \in Jobs : Taken.job = j /\ Taken.op = "writeFile" /\ Taken \in Asked
  BY <1>1, Received DEF IInv
<1>3. InFlight(j) /\ Dir(j) \in Nat
  BY <1>1, <1>2, TakenInOrder DEF IInv, TypeOK, Dir
<1>4. Fresh(j)
  BY <1>2 DEF IInv, Stage, Requested
<1>5. PICK result \in {"ok", "error"} : Answer(Taken, result, << >>)
  BY DEF ServeWriteFile
<1>6. files' = files \cup {InputOf(j)} /\ InputOf(j).dir = Dir(j) /\ InputOf(j).by = j
  BY <1>2 DEF ServeWriteFile, InputOf
<1>7. OnlyDirOf(j)
  BY <1>1, <1>6 DEF OnlyDirOf, FilesIn
<1>8. FilesAgree'
  <2>1. IsFiniteSet(files')
    BY <1>6, FS_AddElement DEF IInv, FilesAgree
  <2>2. NothingLeft'
    BY <1>1, <1>4, <1>6 DEF IInv, FilesAgree, NothingLeft, Fresh, InFlight, Dir
  <2>3. \A f \in files' : \A k \in Jobs : InFlight(k) /\ Dir(k) = f.dir => f.by = k
    BY <1>3, <1>6 DEF IInv, FilesAgree, OwnDirs
  <2>4. \A f \in files : f.dir # Dir(j)
    BY <1>4 DEF Fresh, Own, FilesIn
  <2>5. \A f, g \in files' : f.dir = g.dir /\ f.name = g.name => f = g
    BY <1>6, <2>4 DEF IInv, FilesAgree
  <2> QED BY <1>1, <2>1, <2>2, <2>3, <2>5 DEF FilesAgree, InFlight, Dir
<1> DEFINE m == [job |-> j, op |-> Taken.op, result |-> result, files |-> << >>]
<1>9. Ready(j)'
  <2>1. Dir(j)' = Dir(j) /\ InputOf(j)' = InputOf(j)
    BY <1>1 DEF Dir, InputOf
  <2>2. Own(j)' = {InputOf(j)}
    BY <1>4, <1>6, <2>1 DEF Fresh, Own, FilesIn
  <2> QED BY <1>1, <1>4, <2>1, <2>2 DEF Ready, Fresh
<1>10. PICK k : k = m
  OBVIOUS
<1>11. Says(j, k)'
  <2>1. k.op = "writeFile"
    BY <1>2, <1>10
  <2> QED BY <1>9, <2>1 DEF Says
<1>12. result \in Results /\ << >> \in Seq(File)
  BY DEF Results
<1> QED BY <1>1, <1>2, <1>5, <1>7, <1>8, <1>10, <1>11, <1>12, Serves

LEMMA ReadServed ==
  ASSUME IInv, TypeOK', ServeRead
  PROVE  IInv'
<1>1. Receive({"readFile", "readFrame"}) /\ UNCHANGED <<jobVars, running, dirs, files, job>>
  BY DEF ServeRead, jobVars, serverVars
<1>2. PICK j \in Jobs : Taken.job = j /\ Taken.op \in {"readFile", "readFrame"} /\ Taken \in Asked
  BY <1>1, Received DEF IInv
<1>3. OnlyDirOf(j) /\ FilesAgree' /\ Own(j)' = Own(j)
  BY <1>1, SameFiles DEF Own, FilesIn, Dir
<1>4. CASE \E f \in Own(j) : f.name = Taken.name /\ Answer(Taken, "ok", <<f>>)
  <2>1. PICK f \in Own(j) : f.name = Taken.name /\ Answer(Taken, "ok", <<f>>)
    BY <1>4
  <2> DEFINE m == [job |-> j, op |-> Taken.op, result |-> "ok", files |-> <<f>>]
  <2>2. PICK k : k = m
    OBVIOUS
  <2>3. Says(j, k)'
    <3>1. k.op \in {"readFile", "readFrame"} /\ k.files = <<f>>
      BY <1>2, <2>2
    <3>2. k.op = "readFrame" => f.name = Len(job[j].got) + 1
      BY <1>2, <2>1, <2>2 DEF IInv, Stage, Requested
    <3> QED BY <1>1, <1>3, <3>1, <3>2 DEF Says
  <2>4. "ok" \in Results /\ <<f>> \in Seq(File)
    BY DEF Results, Own, FilesIn, IInv, TypeOK
  <2> QED BY <1>1, <1>2, <1>3, <2>1, <2>2, <2>3, <2>4, Serves
<1>5. CASE Answer(Taken, "error", << >>)
  <2> DEFINE m == [job |-> j, op |-> Taken.op, result |-> "error", files |-> << >>]
  <2>1. PICK k : k = m
    OBVIOUS
  <2>2. Says(j, k)'
    <3>1. k.op \in {"readFile", "readFrame"} /\ k.result = "error"
      BY <1>2, <2>1
    <3> QED BY <3>1 DEF Says
  <2>3. "error" \in Results /\ << >> \in Seq(File)
    BY DEF Results
  <2> QED BY <1>1, <1>2, <1>3, <1>5, <2>1, <2>2, <2>3, Serves
<1> QED BY <1>2, <1>4, <1>5 DEF ServeRead, Own

LEMMA ListServed ==
  ASSUME IInv, TypeOK', ServeList
  PROVE  IInv'
<1>1. Receive({"listDir", "rmList"}) /\ UNCHANGED <<jobVars, running, dirs, files, job>>
  BY DEF ServeList, jobVars, serverVars
<1>2. PICK j \in Jobs : Taken.job = j /\ Taken.op \in {"listDir", "rmList"} /\ Taken \in Asked
  BY <1>1, Received DEF IInv
<1>3. OnlyDirOf(j) /\ FilesAgree' /\ Own(j)' = Own(j) /\ Dir(j)' = Dir(j)
  BY <1>1, SameFiles DEF Own, FilesIn, Dir
<1>4. CASE Dir(j) \in dirs
  <2>1. PICK s \in SetToSeqs(FilesIn(Dir(j))) : Answer(Taken, "ok", s)
    BY <1>2, <1>4 DEF ServeList
  <2>2. s \in Seq(File) /\ Range(s) = Own(j) /\ Distinct(s)
    BY <2>1, ListedType DEF IInv, FilesAgree, Own
  <2> DEFINE m == [job |-> j, op |-> Taken.op, result |-> "ok", files |-> s]
  <2>3. PICK k : k = m
    OBVIOUS
  <2>4. Says(j, k)'
    <3>1. k.op \in {"listDir", "rmList"} /\ k.files = s /\ k.result = "ok"
      BY <1>2, <2>3
    <3> QED BY <1>3, <2>2, <3>1 DEF Says
  <2>5. "ok" \in Results
    BY DEF Results
  <2> QED BY <1>1, <1>2, <1>3, <2>1, <2>2, <2>3, <2>4, <2>5, Serves
<1>5. CASE Dir(j) \notin dirs
  <2>1. Answer(Taken, "error", << >>)
    BY <1>2, <1>5 DEF ServeList
  <2> DEFINE m == [job |-> j, op |-> Taken.op, result |-> "error", files |-> << >>]
  <2>2. PICK k : k = m
    OBVIOUS
  <2>3. Says(j, k)'
    <3>1. k.op \in {"listDir", "rmList"} /\ k.result = "error"
      BY <1>2, <2>2
    <3> QED BY <1>1, <1>3, <1>5, <3>1 DEF Says
  <2>4. "error" \in Results /\ << >> \in Seq(File)
    BY DEF Results
  <2> QED BY <1>1, <1>2, <1>3, <2>1, <2>2, <2>3, <2>4, Serves
<1> QED BY <1>4, <1>5

LEMMA RemoveServed ==
  ASSUME IInv, TypeOK', ServeRemove
  PROVE  IInv'
<1>1. Receive({"rmFile", "rmDir"}) /\ UNCHANGED <<jobVars, running, job>>
  BY DEF ServeRemove, jobVars
<1>2. PICK j \in Jobs : Taken.job = j /\ Taken.op \in {"rmFile", "rmDir"} /\ Taken \in Asked
  BY <1>1, Received DEF IInv
<1>3. Dir(j)' = Dir(j) /\ Dir(j) \in Nat
  BY <1>1 DEF Dir, IInv, TypeOK
<1>4. {"ok", "error"} \subseteq Results /\ << >> \in Seq(File)
  BY DEF Results
<1>5. CASE Taken.op = "rmFile"
  <2>1. PICK f \in Own(j) : /\ f.name = Taken.name /\ f \notin Range(job[j].todo)
                            /\ Own(j) = {f} \cup Range(job[j].todo)
    BY <1>2, <1>5 DEF IInv, Stage, Requested
  <2>2. {g \in FilesIn(Dir(j)) : g.name = Taken.name} = {f}
    BY <2>1 DEF IInv, FilesAgree, Own, FilesIn
  <2>3. files' = files \ {f} /\ UNCHANGED dirs /\ Answer(Taken, "ok", << >>)
    BY <1>2, <1>5, <2>2 DEF ServeRemove
  <2>4. OnlyDirOf(j)
    BY <2>1, <2>3 DEF OnlyDirOf, Own, FilesIn
  <2>5. FilesAgree'
    <3>1. IsFiniteSet(files')
      BY <2>3, FS_Subset DEF IInv, FilesAgree
    <3> QED BY <1>1, <2>3, <3>1 DEF IInv, FilesAgree, NothingLeft, InFlight, Dir
  <2>6. Own(j)' = Range(job[j].todo)
    BY <1>3, <2>1, <2>3 DEF Own, FilesIn
  <2> DEFINE m == [job |-> j, op |-> Taken.op, result |-> "ok", files |-> << >>]
  <2>7. PICK k : k = m
    OBVIOUS
  <2>8. Says(j, k)'
    <3>1. k.op = "rmFile" /\ k.result = "ok"
      BY <1>5, <2>7
    <3> QED BY <1>1, <2>6, <3>1 DEF Says
  <2> QED BY <1>1, <1>2, <1>4, <2>3, <2>4, <2>5, <2>7, <2>8, Serves
<1>6. CASE Taken.op = "rmDir"
  <2>1. FilesIn(Dir(j)) = {}
    BY <1>2, <1>6 DEF IInv, Stage, Requested, Own
  <2>2. /\ UNCHANGED files /\ dirs' = dirs \ {Dir(j)}
        /\ Answer(Taken, IF Dir(j) \in dirs THEN "ok" ELSE "error", << >>)
    BY <1>2, <1>6, <2>1 DEF ServeRemove
  <2>3. OnlyDirOf(j)
    BY <2>2 DEF OnlyDirOf, FilesIn
  <2>4. FilesAgree'
    <3>1. \A f \in files : f.dir # Dir(j)
      BY <2>1 DEF FilesIn
    <3> QED BY <1>1, <2>2, <3>1 DEF IInv, FilesAgree, NothingLeft, InFlight, Dir
  <2> DEFINE result == IF Dir(j) \in dirs THEN "ok" ELSE "error"
             m == [job |-> j, op |-> Taken.op, result |-> result, files |-> << >>]
  <2>5. PICK k : k = m
    OBVIOUS
  <2>6. Says(j, k)'
    <3>1. k.op = "rmDir"
      BY <1>6, <2>5
    <3> QED BY <1>3, <2>2, <3>1 DEF Says
  <2>7. result \in Results /\ Answer(Taken, result, << >>)
    BY <1>4, <2>2
  <2> HIDE DEF result
  <2> QED BY <1>1, <1>2, <1>4, <2>2, <2>3, <2>4, <2>5, <2>6, <2>7, Serves
<1> QED BY <1>2, <1>5, <1>6

LEMMA CommandStarts ==
  ASSUME IInv, TypeOK', StartCommand
  PROVE  IInv'
<1>1. /\ Receive({"command"}) /\ running' = [busy |-> TRUE, job |-> Taken.job, wrote |-> 0, events |-> 0]
      /\ UNCHANGED <<job, abortedAt, logging, progress, nextJob, outbox, dirs, files>>
  BY DEF StartCommand, jobVars
<1>2. PICK j \in Jobs : Taken.job = j /\ Taken.op = "command" /\ Taken \in Asked
  BY <1>1, Received DEF IInv
<1>3. Asked' \subseteq Asked /\ Told' = Told
  BY <1>1, Received DEF IInv, Told
<1>4. /\ \A k \in Told : k.job = j => ~At(j, k.op)
      /\ \A r \in Asked' : r.job = j => r.op = "rmList"
  BY <1>1, <1>2, TakenInOrder DEF IInv
<1>5. InOrder'
  BY StartsInOrder DEF IInv
<1>6. OwnDirs' /\ FilesAgree' /\ ListensWhileRunning'
  BY <1>1 DEF IInv, OwnDirs, FilesAgree, NothingLeft, ListensWhileRunning, InFlight, Dir, At
<1>7. \A k \in Jobs : Untouched(k) /\ job'[k] = job[k]
  BY <1>1 DEF Untouched, Own, FilesIn, Dir
<1>8. \A k \in Jobs \ {j} : Stage(k)'
  <2>1. \A k \in Jobs \ {j} : Apart(k)
    BY <1>1, <1>2, <1>3 DEF Apart
  <2> QED BY <1>7, <2>1, StageKept DEF IInv
<1>9. /\ Own(j)' = Own(j) /\ (Written(j)' <=> Written(j)) /\ InputOf(j)' = InputOf(j) /\ Dir(j)' = Dir(j)
      /\ \A n : Numbered(j, n)' <=> Numbered(j, n)
  BY <1>7, SameDirectory DEF Untouched
<1>10. Requested(j)' /\ Answered(j)'
  BY <1>1, <1>3, <1>4 DEF Requested, Answered, At
<1>11. Commanded(j)'
  <2>1. Dir(j) \in dirs /\ Own(j) = {InputOf(j)}
    BY <1>2 DEF IInv, Stage, Requested, Ready
  <2>2. Numbered(j, 0)
    BY <2>1 DEF Numbered, InputOf, Input
  <2>3. running'.wrote = 0 /\ InputOf(j) \in files
    BY <1>1, <2>1 DEF Own, FilesIn
  <2> QED BY <1>1, <1>9, <2>1, <2>2, <2>3 DEF Commanded
<1>12. Reading(j)'
  BY <1>1, <1>9 DEF IInv, Stage, Reading, GotFrames, GotOwn, At
<1>13. Ended(j)'
  BY <1>1, <1>9 DEF IInv, Stage, Ended, GotFrames, GotOwn, At
<1> QED BY <1>5, <1>6, <1>8, <1>10, <1>11, <1>12, <1>13 DEF IInv, Stage

\* The command under way: its job awaits it, or has given it up.
LEMMA CommandAlone ==
  ASSUME IInv, running.busy
  PROVE  \E j \in Jobs :
           /\ running.job = j /\ InFlight(j) /\ Dir(j) \in Nat
           /\ At(j, "command") \/ GaveUp(j)
           /\ \A r \in Asked : r.job = j => r.op = "rmList"
           /\ \A m \in Told : m.job = j => ~At(j, m.op)
           /\ Dir(j) \in dirs /\ InputOf(j) \in files /\ Numbered(j, running.wrote)
           /\ running.wrote \in Nat
<1>1. PICK j \in Jobs : running.job = j
  BY Runs DEF IInv
<1>2. At(j, "command") \/ GaveUp(j)
  BY <1>1 DEF IInv, InOrder, CommandInOrder
<1>3. InFlight(j)
  BY <1>2, CallSets DEF At, InFlight, GaveUp
<1>4. \A m \in Asked \cup Told : ~Clash(j, "command", m)
  BY <1>1 DEF IInv, InOrder, OneCall
<1>5. \A i \in DOMAIN inbox : inbox[i].job = j => inbox[i].op = "rmList"
  <2>1. \A i \in DOMAIN inbox : inbox[i].job = j => inbox[i].op \notin RunCalls
    BY <1>4, AskedOps, CallSets DEF Clash, IInv
  <2>2. \A i \in DOMAIN inbox : inbox[i].job = j => At(j, inbox[i].op)
    BY <2>1 DEF IInv, InOrder, RequestsInOrder
  <2> QED BY <1>2, <2>1, <2>2, CallSets DEF At, GaveUp
<1>6. \A m \in Told : m.job = j => ~At(j, m.op)
  BY <1>1, <1>3, Awaited DEF IInv, InFlight, At
<1>7. Dir(j) \in dirs /\ InputOf(j) \in files /\ Numbered(j, running.wrote)
  BY <1>1 DEF IInv, Stage, Commanded
<1>8. running.wrote \in Nat /\ Dir(j) \in Nat
  BY <1>1, Runs DEF IInv
<1> QED BY <1>1, <1>2, <1>3, <1>5, <1>6, <1>7, <1>8 DEF Asked, Range

LEMMA EmitKeeps ==
  ASSUME IInv, TypeOK', Emit
  PROVE  IInv'
<1>1. /\ running.busy /\ UNCHANGED <<job, abortedAt, logging, progress, nextJob, inbox, dirs, files>>
      /\ running' = [running EXCEPT !.events = @ + 1]
  BY DEF Emit, jobVars
<1>2. running'.busy /\ running'.job = running.job /\ running'.wrote = running.wrote
  BY <1>1, Runs DEF IInv
<1>3. PICK event \in {"log", "progress"} : Answer([job |-> running.job, op |-> event], "ok", << >>)
  BY DEF Emit
<1>4. InOrder' /\ \A m \in Told' : m \in Told \/ m.op = event
  <2>1. "ok" \in Results /\ event \in {"log", "progress", "command"} /\ event # "command"
    BY DEF Results
  <2> QED BY <1>1, <1>2, <1>3, <2>1, CommandSpeaks DEF IInv
<1>5. OwnDirs' /\ FilesAgree' /\ ListensWhileRunning'
  BY <1>1 DEF IInv, OwnDirs, FilesAgree, NothingLeft, ListensWhileRunning, InFlight, Dir, At
<1>6. \A k \in Jobs : Apart(k) /\ Untouched(k)
  <2>1. event \notin Calls /\ Asked' = Asked
    BY <1>1, CallSets DEF Asked
  <2> QED BY <1>1, <1>2, <1>4, <2>1 DEF Apart, Untouched, Own, FilesIn, Dir
<1>7. \A k \in Jobs : Stage(k)'
  BY <1>6, StageKept DEF IInv
<1> QED BY <1>4, <1>5, <1>7 DEF IInv

\* What the command of job j does leaves the job where it is.
LEMMA CommandActs ==
  ASSUME IInv, TypeOK', NEW j \in Jobs, InFlight(j), At(j, "command") \/ GaveUp(j),
         running.busy, running.job = j,
         \A r \in Asked : r.job = j => r.op = "rmList",
         \A m \in Told : m.job = j => ~At(j, m.op),
         OnlyDirOf(j), InOrder', FilesAgree', Commanded(j)',
         running'.busy => running'.job = j,
         \A m \in Told' : m \in Told \/ (m.job = j /\ At(j, m.op) => Says(j, m)'),
         \A m \in Told' : m \in Told \/ m.job = j,
         UNCHANGED <<job, abortedAt, logging, progress, nextJob, inbox>>
  PROVE  IInv'
<1>1. OwnDirs' /\ ListensWhileRunning' /\ Asked' = Asked
  BY DEF IInv, OwnDirs, ListensWhileRunning, InFlight, Dir, At, Asked
<1>2. \A k \in Jobs \ {j} : Stage(k)'
  <2>1. \A k \in Jobs \ {j} : Apart(k)
    BY <1>1 DEF Apart
  <2> QED BY <2>1, OthersUntouched, StageKept DEF IInv
<1>3. Requested(j)'
  BY <1>1 DEF Requested
<1>4. Answered(j)'
  <2> SUFFICES ASSUME NEW m \in Told', m.job = j, At(j, m.op) PROVE Says(j, m)'
    BY DEF Answered, At
  <2> QED OBVIOUS
<1>5. job[j].at \in {"command", "rmList"} /\ job[j].outcome # "result"
  <2>1. "command" \in RunCalls
    BY CallSets
  <2> QED BY <2>1 DEF IInv, Stage, Ended, At, GaveUp
<1>6. Reading(j)'
  BY <1>5 DEF Reading, At
<1>7. Ended(j)'
  BY <1>5 DEF IInv, Stage, Ended, At
<1> QED BY <1>1, <1>2, <1>3, <1>4, <1>6, <1>7 DEF IInv, Stage

LEMMA OutputKeeps ==
  ASSUME IInv, TypeOK', WriteOutput
  PROVE  IInv'
<1>1. /\ running.busy /\ UNCHANGED <<job, abortedAt, logging, progress, nextJob, inbox, outbox, dirs>>
      /\ running' = [running EXCEPT !.wrote = @ + 1]
  BY DEF WriteOutput, jobVars
<1>2. PICK j \in Jobs :
        /\ running.job = j /\ InFlight(j) /\ Dir(j) \in Nat
        /\ At(j, "command") \/ GaveUp(j)
        /\ \A r \in Asked : r.job = j => r.op = "rmList"
        /\ \A m \in Told : m.job = j => ~At(j, m.op)
        /\ Dir(j) \in dirs /\ InputOf(j) \in files /\ Numbered(j, running.wrote)
        /\ running.wrote \in Nat
  BY <1>1, CommandAlone
<1>3. running'.busy /\ running'.job = j /\ running'.wrote = running.wrote + 1
  BY <1>1, <1>2, Runs DEF IInv
<1> DEFINE f == [dir |-> Dir(j), name |-> running.wrote + 1, by |-> j, whole |-> FALSE]
<1>4. files' = files \cup {f} /\ f.dir = Dir(j) /\ f.by = j /\ f.name = running.wrote + 1
  BY <1>2 DEF WriteOutput
<1> HIDE DEF f
<1>5. OnlyDirOf(j)
  BY <1>1, <1>4 DEF OnlyDirOf, FilesIn
<1>6. FilesAgree'
  <2>1. IsFiniteSet(files')
    BY <1>4, FS_AddElement DEF IInv, FilesAgree
  <2>2. NothingLeft'
    BY <1>1, <1>2, <1>4 DEF IInv, FilesAgree, NothingLeft, InFlight, Dir
  <2>3. \A g \in files' : \A k \in Jobs : InFlight(k) /\ Dir(k) = g.dir => g.by = k
    BY <1>2, <1>4 DEF IInv, FilesAgree, OwnDirs
  <2>4. \A g \in files : g.dir = Dir(j) => g.name <= running.wrote /\ g.name \in Nat
    BY <1>2 DEF Numbered, Own, FilesIn, IInv, TypeOK, File
  <2>5. \A g \in files : g.dir = Dir(j) => g.name # f.name
    BY <1>2, <1>4, <2>4
  <2>6. \A g, h \in files' : g.dir = h.dir /\ g.name = h.name => g = h
    BY <1>4, <2>5 DEF IInv, FilesAgree
  <2> QED BY <1>1, <2>1, <2>2, <2>3, <2>6 DEF FilesAgree, InFlight, Dir
<1>7. Commanded(j)'
  <2>1. Own(j)' = Own(j) \cup {f} /\ Dir(j)' = Dir(j) /\ InputOf(j)' = InputOf(j)
    BY <1>1, <1>4 DEF Own, FilesIn, Dir, InputOf
  <2>2. \A g \in Own(j) : g.name \in Nat
    BY DEF Own, FilesIn, IInv, TypeOK, File
  <2>3. PICK w \in Nat : w = running.wrote
    BY <1>2
  <2>4. Numbered(j, w) /\ f.name = w + 1
    BY <1>2, <1>4, <2>3
  <2>5. \A g \in Own(j)' : g.name <= w + 1
    BY <2>1, <2>2, <2>3, <2>4 DEF Numbered
  <2>6. \A i \in 0 .. w + 1 : \E g \in Own(j)' : g.name = i
    <3> SUFFICES ASSUME NEW i \in 0 .. w + 1 PROVE \E g \in Own(j)' : g.name = i
      OBVIOUS
    <3>1. CASE i = w + 1
      BY <2>1, <2>4, <3>1
    <3>2. CASE i \in 0 .. w
      BY <2>1, <2>4, <3>2 DEF Numbered
    <3> QED BY <3>1, <3>2
  <2>7. Numbered(j, w + 1)'
    BY <2>5, <2>6 DEF Numbered
  <2>8. running'.wrote = w + 1 /\ Dir(j)' \in dirs' /\ InputOf(j)' \in files'
    BY <1>1, <1>2, <1>3, <1>4, <2>1, <2>3
  <2>9. Numbered(j, running.wrote)'
    BY <2>7, <2>8
  <2> QED BY <2>8, <2>9 DEF Commanded
<1>8. InOrder' /\ Told' = Told
  BY <1>1, <1>3, <1>2 DEF IInv, InOrder, RequestsInOrder, CommandInOrder, RepliesInOrder, OneCall, OneEach,
     Told, Asked, CleansAfter, GaveUp, At
<1> QED BY <1>1, <1>2, <1>3, <1>5, <1>6, <1>7, <1>8, CommandActs

LEMMA EndKeeps ==
  ASSUME IInv, TypeOK', End
  PROVE  IInv'
<1>1. PICK result \in Results : EndCommand(result)
  BY DEF End
<1>2. /\ running.busy /\ UNCHANGED <<job, abortedAt, logging, progress, nextJob, inbox, dirs>>
      /\ running' = NoCommand /\ ~running'.busy
      /\ Answer([job |-> running.job, op |-> "command"], result, << >>)
  BY <1>1 DEF EndCommand, jobVars, NoCommand
<1>3. PICK j \in Jobs :
        /\ running.job = j /\ InFlight(j) /\ Dir(j) \in Nat
        /\ At(j, "command") \/ GaveUp(j)
        /\ \A r \in Asked : r.job = j => r.op = "rmList"
        /\ \A m \in Told : m.job = j => ~At(j, m.op)
        /\ Dir(j) \in dirs /\ InputOf(j) \in files /\ Numbered(j, running.wrote)
        /\ running.wrote \in Nat
  BY <1>2, CommandAlone
<1>4. PICK whole \in BOOLEAN :
        /\ job[j].kind # "probe" => whole = (result = "ok")
        /\ files' = {IF f.dir = Dir(j) /\ f.name # Input
                     THEN [f EXCEPT !.whole = whole] ELSE f : f \in files}
  <2>1. PICK whole \in BOOLEAN :
          /\ job[running.job].kind # "probe" => whole = (result = "ok")
          /\ files' = {IF f.dir = Dir(running.job) /\ f.name # Input
                       THEN [f EXCEPT !.whole = whole] ELSE f : f \in files}
    BY <1>1, Zenon DEF EndCommand
  <2>2. running.job = j
    BY <1>3
  <2> QED BY <2>1, <2>2
<1> DEFINE After == [f \in files |-> IF f.dir = Dir(j) /\ f.name # Input
                                     THEN [f EXCEPT !.whole = whole] ELSE f]
<1>5. files \subseteq File
  BY DEF IInv, TypeOK
<1>6. \A f \in files : /\ After[f].dir = f.dir /\ After[f].name = f.name /\ After[f].by = f.by
                       /\ f.dir # Dir(j) => After[f] = f
                       /\ f.dir = Dir(j) /\ f.name # Input => After[f].whole = whole
                       /\ f.name = Input => After[f] = f
  BY <1>5 DEF File
<1>7. files' = {After[f] : f \in files} /\ DOMAIN After = files
  BY <1>4
<1> HIDE DEF After
<1>8. OnlyDirOf(j)
  <2>1. \A d \in Nat \ {Dir(j)} : {f \in files' : f.dir = d} = {f \in files : f.dir = d}
    BY <1>6, <1>7
  <2> QED BY <1>2, <2>1 DEF OnlyDirOf, FilesIn
<1>9. FilesAgree'
  <2>1. IsFiniteSet(files')
    <3>1. After \in Surjection(files, files')
      <4>1. After \in [files -> files']
        <5>1. After = [f \in files |-> After[f]]
          BY <1>7 DEF After
        <5> QED BY <1>7, <5>1
      <4> QED BY <1>7, <4>1 DEF Surjection
    <3> QED BY <3>1, FS_Surjection DEF IInv, FilesAgree
  <2>2. NothingLeft'
    BY <1>2, <1>6, <1>7 DEF IInv, FilesAgree, NothingLeft, InFlight, Dir
  <2>3. \A f \in files' : \A k \in Jobs : InFlight(k) /\ Dir(k) = f.dir => f.by = k
    BY <1>6, <1>7 DEF IInv, FilesAgree
  <2>4. \A f, g \in files' : f.dir = g.dir /\ f.name = g.name => f = g
    BY <1>6, <1>7 DEF IInv, FilesAgree
  <2> QED BY <1>2, <2>1, <2>2, <2>3, <2>4 DEF FilesAgree, InFlight, Dir
<1>10. Commanded(j)'
  BY <1>2 DEF Commanded
<1>11. /\ InOrder'
       /\ Told' = Told \cup {[job |-> j, op |-> "command", result |-> result, files |-> << >>]}
  <2>1. "command" \in {"log", "progress", "command"}
    OBVIOUS
  <2> QED BY <1>2, <1>3, <2>1, CommandSpeaks DEF IInv
<1> DEFINE m == [job |-> j, op |-> "command", result |-> result, files |-> << >>]
<1>12. At(j, "command") => Says(j, m)'
  <2>1. Own(j)' = {After[f] : f \in Own(j)} /\ Dir(j)' = Dir(j)
    BY <1>2, <1>6, <1>7 DEF Own, FilesIn, Dir
  <2>2. PICK w \in Nat : w = running.wrote
    BY <1>3
  <2>3. Own(j) \subseteq files
    BY DEF Own, FilesIn
  <2>4. Numbered(j, w)'
    BY <1>3, <1>6, <2>1, <2>2, <2>3 DEF Numbered
  <2>5. result \in GoodExit(j) /\ job[j].kind # "probe" => \A f \in Own(j)' : f.whole
    <3> SUFFICES ASSUME result \in GoodExit(j), job[j].kind # "probe", NEW f \in Own(j)
        PROVE After[f].whole
      BY <2>1
    <3>1. whole = TRUE
      BY <1>4 DEF GoodExit
    <3>2. f.name = Input => f = InputOf(j)
      BY <1>3, <2>3 DEF IInv, FilesAgree, InputOf, Own, FilesIn
    <3>3. f \in files /\ f.dir = Dir(j)
      BY DEF Own, FilesIn
    <3>4. CASE f.name = Input
      <4>1. After[f] = InputOf(j) /\ InputOf(j).whole = TRUE
        BY <1>6, <3>2, <3>3, <3>4 DEF InputOf
      <4> QED BY <4>1
    <3>5. CASE f.name # Input
      <4>1. After[f].whole = whole
        BY <1>6, <3>3, <3>5
      <4> QED BY <3>1, <4>1
    <3> QED BY <3>4, <3>5
  <2>6. result \in GoodExit(j) => Written(j)'
    BY <1>2, <1>3, <2>1, <2>4, <2>5 DEF Written
  <2>7. GoodExit(j)' = GoodExit(j)
    BY <1>2 DEF GoodExit
  <2> QED BY <2>6, <2>7 DEF Says
<1>13. m.job = j /\ m.op = "command"
  OBVIOUS
<1> HIDE DEF m
<1>14. Told' = Told \cup {m}
  BY <1>11 DEF m
<1> QED BY <1>2, <1>3, <1>8, <1>9, <1>10, <1>11, <1>12, <1>13, <1>14, CommandActs

LEMMA LossKeeps ==
  ASSUME IInv, TypeOK', LoseWorker
  PROVE  IInv'
<1>1. /\ inbox' = << >> /\ outbox' = << >> /\ dirs' = {} /\ files' = {} /\ ~running'.busy
      /\ UNCHANGED <<abortedAt, nextJob>> /\ logging' = {} /\ progress' = {}
  BY DEF LoseWorker, NoCommand
<1>2. Asked' = {} /\ Told' = {}
  BY <1>1, RangeEmpty DEF Asked, Told
<1>3. \A j \in Jobs : /\ job'[j].at \notin Calls
                      /\ job[j].at \notin Calls => job'[j] = job[j]
                      /\ job[j].at \in Calls =>
                           /\ job'[j].at = "done" /\ job'[j].got = job[j].got
                           /\ job'[j].kind = job[j].kind
                           /\ job'[j].outcome = IF job[j].outcome = "none"
                                                THEN Rejection(job[j].kind, job[j].at, "lost")
                                                ELSE job[j].outcome
  <2> TAKE j \in Jobs
  <2>1. job[j] \in JobRecord
    BY JobType DEF IInv
  <2>2. job[j].at \notin Calls => job'[j] = job[j]
    BY DEF LoseWorker
  <2>3. job[j].at \in Calls =>
          job'[j] = [job[j] EXCEPT !.at = "done", !.todo = << >>,
                       !.outcome = IF job[j].outcome = "none"
                                   THEN Rejection(job[j].kind, job[j].at, "lost") ELSE job[j].outcome]
    BY DEF LoseWorker
  <2> QED BY <2>1, <2>2, <2>3, CallSets DEF JobRecord
<1>4. InOrder'
  BY <1>1, <1>2 DEF InOrder, RequestsInOrder, CommandInOrder, RepliesInOrder, OneCall, OneEach
<1>5. OwnDirs' /\ FilesAgree'
  <2>1. IsFiniteSet({})
    BY FS_EmptySet
  <2> QED BY <1>1, <1>3, <2>1 DEF OwnDirs, FilesAgree, NothingLeft, InFlight
<1>6. Listening \subseteq Calls /\ {"readFile", "listDir", "readFrame", "rmFile", "rmList"} \subseteq Calls
  BY DEF Listening, Calls, RunCalls, CleanCalls
<1>7. ListensWhileRunning'
  BY <1>1, <1>3, <1>6 DEF ListensWhileRunning, Listening
<1>8. \A j \in Jobs : Stage(j)'
  <2> TAKE j \in Jobs
  <2>1. Requested(j)' /\ Commanded(j)' /\ Answered(j)'
    BY <1>1, <1>2 DEF Requested, Commanded, Answered
  <2>2. Reading(j)'
    BY <1>3, <1>6 DEF Reading, At
  <2>3. Ended(j)'
    <3>1. job[j].outcome = "result" => GotOwn(j) /\ (job[j].kind = "frames" => GotFrames(j))
      BY DEF IInv, Stage, Ended
    <3>2. job'[j].outcome = "result" => GotOwn(j)' /\ (job'[j].kind = "frames" => GotFrames(j)')
      BY <1>3, <3>1 DEF GotOwn, GotFrames, Rejection
    <3>3. job'[j].at \notin RunCalls
      BY <1>3, CallSets
    <3>4. CASE job[j].at \in Calls
      <4>1. job'[j].at = "done" /\ Obeys(job'[j], abortedAt[j])
        BY <1>3, <3>4 DEF IInv, Stage, Ended, Obeys, Rejection
      <4> QED BY <1>1, <3>2, <4>1, CallSets DEF Ended, At
    <3>5. CASE job[j].at \notin Calls
      <4>1. job'[j] = job[j] /\ job[j].at # "rmList"
        BY <1>3, <1>6, <3>5
      <4> QED BY <1>1, <3>2, <4>1 DEF IInv, Stage, Ended, At
    <3> QED BY <3>4, <3>5
  <2> QED BY <2>1, <2>2, <2>3 DEF Stage
<1> QED BY <1>4, <1>5, <1>7, <1>8 DEF IInv

LEMMA LoadKeeps ==
  ASSUME IInv, TypeOK', LoadAgain
  PROVE  IInv'
<1>1. UNCHANGED <<job, abortedAt, logging, progress, nextJob, inbox, outbox, dirs, files, running>>
  BY DEF LoadAgain, jobVars
<1>2. Heeded
  BY <1>1, StaysHeeds DEF IInv
<1>3. InOrder' /\ Asked' = Asked
  BY <1>1, <1>2, StaysInOrder DEF IInv
<1>4. OwnDirs' /\ FilesAgree' /\ ListensWhileRunning'
  BY <1>1 DEF IInv, OwnDirs, FilesAgree, NothingLeft, ListensWhileRunning, InFlight, Dir, At
<1>5. \A j \in Jobs : Apart(j) /\ Untouched(j)
  BY <1>1, <1>2, <1>3 DEF Apart, Untouched, Own, FilesIn, Dir, Heeded
<1> QED BY <1>3, <1>4, <1>5, StageKept DEF IInv

-----------------------------------------------------------------------------
(* The invariant.                                                           *)

LEMMA InitHolds == Init => IInv
<1> SUFFICES ASSUME Init PROVE IInv
  OBVIOUS
<1>1. TypeOK
  BY InitType
<1>2. /\ inbox = << >> /\ outbox = << >> /\ Asked = {} /\ Told = {} /\ dirs = {} /\ files = {}
      /\ ~running.busy
  BY RangeEmpty DEF Init, Asked, Told, NoCommand
<1>3. \A j \in Jobs : /\ job[j].at = "idle" /\ job[j].outcome = "none" /\ abortedAt[j] = "never"
                      /\ ~InFlight(j)
  BY CallSets DEF Init, NewJob, InFlight
<1>4. /\ "never" \notin RunCalls
      /\ "idle" \notin Listening \cup {"readFrame", "rmFile"}
  BY DEF RunCalls, Listening
<1>5. ListensWhileRunning
  BY <1>3, <1>4 DEF Init, ListensWhileRunning, Listening
<1>6. InOrder
  BY <1>2 DEF InOrder, RequestsInOrder, CommandInOrder, RepliesInOrder, OneCall, OneEach
<1>7. OwnDirs /\ FilesAgree
  BY <1>2, <1>3, FS_EmptySet DEF OwnDirs, FilesAgree, NothingLeft
<1>8. \A j \in Jobs : Stage(j)
  BY <1>2, <1>3, <1>4 DEF Stage, Requested, Commanded, Answered, Reading, Ended, Obeys, At, Listening
<1> QED BY <1>1, <1>5, <1>6, <1>7, <1>8 DEF IInv

LEMMA TurnKeeps ==
  ASSUME IInv, NEW j \in Jobs,
         \/ Reject(j) \/ InputRead(j) \/ InputFails(j) \/ Abort(j)
         \/ \E m \in Menu : Start(j, m[1], m[2])
  PROVE  IInv'
<1>1. TypeOK
  BY DEF IInv
<1>2. CASE Abort(j)
  BY <1>1, <1>2, AbortType, AbortKeeps
<1>3. CASE Reject(j) \/ InputRead(j) \/ InputFails(j) \/ \E m \in Menu : Start(j, m[1], m[2])
  <2>1. TypeOK'
    BY <1>1, <1>3, StartTypes
  <2> QED BY <1>3, <2>1, StartKeeps
<1> QED BY <1>2, <1>3

LEMMA MessageKeeps ==
  ASSUME IInv, DeliverMessage
  PROVE  IInv'
<1>1. TypeOK /\ FilesAgree /\ \A j \in Jobs : Answered(j) /\ Reading(j)
  BY DEF IInv, Stage
<1>2. CASE DeliverLog \/ DeliverNothing
  BY <1>1, <1>2, EventType, EventKeeps
<1>3. ASSUME NEW j \in Jobs, Reply(j) PROVE IInv'
  <2>1. CASE DirCreated(j) \/ FileWritten(j) \/ CommandDone(j)
    <3>1. TypeOK'
      BY <1>1, <2>1, ReplyType
    <3> QED BY <2>1, <3>1, RunReplies
  <2>2. CASE CallFails(j)
    <3>1. TypeOK'
      BY <1>1, <2>2, ReplyType
    <3> QED BY <2>2, <3>1, RunFails
  <2>3. CASE OutputRead(j)
    <3>1. TypeOK'
      BY <1>1, <2>3, OutputType
    <3> QED BY <2>3, <3>1, OutputReturns
  <2>4. CASE FramesListed(j) \/ FrameRead(j)
    <3>1. TypeOK'
      BY <1>1, <2>4, FramesType
    <3> QED BY <2>4, <3>1, FramesReturn
  <2>5. CASE CleanUp(j)
    <3>1. TypeOK'
      BY <1>1, <2>5, CleanUpType
    <3> QED BY <2>5, <3>1, CleanUpKeeps
  <2> QED BY <1>3, <2>1, <2>2, <2>3, <2>4, <2>5 DEF Reply
<1> QED BY <1>2, <1>3 DEF DeliverMessage

LEMMA WorkerKeeps ==
  ASSUME IInv, Serve \/ Emit \/ WriteOutput \/ End \/ LoseWorker \/ LoadAgain
  PROVE  IInv'
<1>1. TypeOK /\ IsFiniteSet(files)
  BY DEF IInv, FilesAgree
<1>2. CASE Serve
  <2>1. TypeOK'
    BY <1>1, <1>2, ServeType
  <2> QED BY <1>2, <2>1, CreateDirServed, WriteFileServed, ReadServed, ListServed, RemoveServed,
             CommandStarts DEF Serve
<1>3. CASE Emit \/ WriteOutput \/ End
  <2>1. TypeOK'
    BY <1>1, <1>3, CommandType
  <2> QED BY <1>3, <2>1, EmitKeeps, OutputKeeps, EndKeeps
<1>4. CASE LoseWorker \/ LoadAgain
  <2>1. TypeOK'
    BY <1>1, <1>4, LossType
  <2> QED BY <1>4, <2>1, LossKeeps, LoadKeeps
<1> QED BY <1>2, <1>3, <1>4

LEMMA IdleKeeps ==
  ASSUME IInv, UNCHANGED vars
  PROVE  IInv'
<1>1. UNCHANGED <<job, abortedAt, tails, logging, progress, nextJob, inbox, outbox, worker, losses,
                  dirs, files, running, stops>>
  BY DEF vars, jobVars, serverVars
<1>2. TypeOK'
  BY <1>1 DEF IInv, TypeOK
<1>3. Heeded
  BY <1>1, StaysHeeds DEF IInv
<1>4. InOrder' /\ Asked' = Asked
  BY <1>1, <1>3, StaysInOrder DEF IInv
<1>5. OwnDirs' /\ FilesAgree' /\ ListensWhileRunning'
  BY <1>1 DEF IInv, OwnDirs, FilesAgree, NothingLeft, ListensWhileRunning, InFlight, Dir, At
<1>6. \A j \in Jobs : Apart(j) /\ Untouched(j)
  BY <1>1, <1>3, <1>4 DEF Apart, Untouched, Own, FilesIn, Dir, Heeded
<1> QED BY <1>2, <1>4, <1>5, <1>6, StageKept DEF IInv

LEMMA NextKeeps == IInv /\ [Next]_vars => IInv'
<1> SUFFICES ASSUME IInv, [Next]_vars PROVE IInv'
  OBVIOUS
<1> QED BY TurnKeeps, MessageKeeps, WorkerKeeps, IdleKeeps DEF Next

LEMMA Always == Spec => []IInv
BY InitHolds, NextKeeps, PTL DEF Spec

-----------------------------------------------------------------------------
(* The theorems.                                                            *)

\* removeDir() and the numbering of withJob(): a directory exists only while its
\* job is in flight, and every file is in one.
THEOREM DirectoriesRemoved == Spec => []NothingLeft
<1>1. IInv => NothingLeft
  BY DEF IInv, FilesAgree
<1> QED BY <1>1, Always, PTL

\* withJob(): a command finds its own input and directory for as long as it runs.
THEOREM InputStays == Spec => []InputInPlace
<1>1. ASSUME IInv PROVE InputInPlace
  <2> SUFFICES ASSUME running.busy
      PROVE  /\ Dir(running.job) \in dirs
             /\ \E f \in files : f.dir = Dir(running.job) /\ f.name = Input /\ f.by = running.job
    BY DEF InputInPlace
  <2>1. PICK j \in Jobs : running.job = j /\ Dir(j) \in dirs /\ InputOf(j) \in files
    BY <1>1, CommandAlone
  <2> QED BY <2>1 DEF InputOf
<1> QED BY <1>1, Always, PTL

\* What probe(), transcode() and extractFrames() return is what their own command
\* wrote, complete; a call aborted in flight rejects with that.
THEOREM OutcomesAreOwn == Spec => []OwnOutcome
<1>1. ASSUME IInv PROVE OwnOutcome
  BY <1>1 DEF IInv, Stage, Ended, GotOwn, Obeys, Rejection, OwnOutcome, OwnResult, AbortRejects
<1> QED BY <1>1, Always, PTL

\* extractFrames() returns its frames in order, none left out.
THEOREM AllFramesInOrder == Spec => []FramesInOrder
<1>1. ASSUME IInv PROVE FramesInOrder
  <2> SUFFICES ASSUME NEW j \in Jobs, job[j].outcome = "result", job[j].kind = "frames"
      PROVE  /\ \A i \in DOMAIN job[j].got : job[j].got[i].name = i
             /\ At(j, "rmList") => Len(job[j].got) =
                  Cardinality(FilesIn(Dir(j)) \ {f \in files : f.name = Input})
    BY DEF FramesInOrder
  <2>1. GotFrames(j) /\ (At(j, "rmList") => Numbered(j, Len(job[j].got)))
    BY <1>1 DEF IInv, Stage, Ended
  <2>2. FilesIn(Dir(j)) \ {f \in files : f.name = Input} = OutputsOf(j)
    BY DEF OutputsOf, Own, FilesIn
  <2>3. FilesAgree /\ Len(job[j].got) \in Nat /\ \A f \in Own(j) : f.name \in Nat
    BY <1>1, JobType DEF IInv, FilesAgree, TypeOK, JobRecord, File, Own, FilesIn
  <2>4. At(j, "rmList") => Cardinality(OutputsOf(j)) = Len(job[j].got)
    BY <2>1, <2>3, Outputs
  <2> QED BY <2>1, <2>2, <2>4 DEF GotFrames
<1> QED BY <1>1, Always, PTL

-----------------------------------------------------------------------------
(* The progress listeners, if each transcode has one of its own: on() adds  *)
(* a function twice, but off() removes every registration of it.            *)

OwnListeners == \A j, k \in Jobs : OnProgress[j] = OnProgress[k] => j = k

\* Job j turns to something other than a command: no other job is disturbed.
LEMMA OthersHear ==
  ASSUME OwnListeners, ProgressHeard, NEW j \in Jobs, job'[j].at # "command",
         \A k \in Jobs \ {j} : job'[k] = job[k], progress \ {OnProgress[j]} \subseteq progress'
  PROVE  ProgressHeard'
BY DEF ProgressHeard, OwnListeners, At

LEMMA AskTurns ==
  ASSUME TypeOK, TypeOK', NEW j \in Jobs, NEW r, NEW op, NEW n, Ask(j, r, op, n)
  PROVE  /\ job'[j] = [r EXCEPT !.at = op] /\ job'[j].at = op
         /\ \A k \in Jobs \ {j} : job'[k] = job[k]
<1>1. job \in [Jobs -> JobRecord] /\ job'[j] \in JobRecord
  BY DEF TypeOK, JobRecord
<1>2. job'[j] = [r EXCEPT !.at = op] /\ \A k \in Jobs \ {j} : job'[k] = job[k]
  BY <1>1 DEF Ask, OnlyJob
<1>3. "at" \in DOMAIN job'[j]
  BY <1>1 DEF JobRecord
<1> QED BY <1>2, <1>3

LEMMA AloneTurns ==
  ASSUME TypeOK, NEW j \in Jobs, NEW r, OnlyJob(j, r)
  PROVE  job'[j] = r /\ \A k \in Jobs \ {j} : job'[k] = job[k]
BY DEF TypeOK, OnlyJob

\* A job that settles.
LEMMA DoneTurns ==
  ASSUME TypeOK, NEW j \in Jobs, NEW r \in JobRecord, NEW o,
         \/ OnlyJob(j, [r EXCEPT !.at = "done", !.outcome = o])
         \/ OnlyJob(j, [r EXCEPT !.at = "done", !.todo = o])
  PROVE  job'[j].at = "done" /\ \A k \in Jobs \ {j} : job'[k] = job[k]
<1>1. /\ job'[j] \in {[r EXCEPT !.at = "done", !.outcome = o], [r EXCEPT !.at = "done", !.todo = o]}
      /\ \A k \in Jobs \ {j} : job'[k] = job[k]
  BY DEF TypeOK, OnlyJob
<1>2. [r EXCEPT !.at = "done", !.outcome = o].at = "done"
  BY DEF JobRecord
<1>3. [r EXCEPT !.at = "done", !.todo = o].at = "done"
  BY DEF JobRecord
<1> QED BY <1>1, <1>2, <1>3

LEMMA LeaveHears ==
  ASSUME OwnListeners, IInv, TypeOK', ProgressHeard, NEW j \in Jobs, NEW o, Leave(j, o)
  PROVE  ProgressHeard'
<1>1. progress \ {OnProgress[j]} \subseteq progress'
  BY DEF Leave, Unlisten
<1>2. job'[j].at = "rmList" /\ \A k \in Jobs \ {j} : job'[k] = job[k]
  <2> DEFINE r == [job[j] EXCEPT !.outcome = o, !.todo = << >>]
  <2>1. TypeOK /\ Ask(j, r, "rmList", Input)
    BY DEF Leave, IInv
  <2> HIDE DEF r
  <2> QED BY <2>1, AskTurns
<1> QED BY <1>1, <1>2, OthersHear

LEMMA TurnHears ==
  ASSUME OwnListeners, IInv, TypeOK', ProgressHeard, NEW j \in Jobs,
         \/ Reject(j) \/ InputRead(j) \/ InputFails(j) \/ Abort(j)
         \/ \E m \in Menu : Start(j, m[1], m[2])
  PROVE  ProgressHeard'
<1>1. TypeOK /\ job[j] \in JobRecord /\ job'[j] \in JobRecord
  BY JobType DEF IInv, TypeOK, JobRecord
<1>2. CASE Abort(j) /\ job[j].at \in RunCalls
  <2>1. Leave(j, Rejection(job[j].kind, job[j].at, "aborted"))
    BY <1>2 DEF Abort, RunCalls, At
  <2> QED BY <2>1, LeaveHears
<1>3. CASE Abort(j) /\ job[j].at \notin RunCalls
  <2>1. UNCHANGED progress
    BY <1>3 DEF Abort
  <2>2. job[j].at # "command"
    BY <1>3 DEF RunCalls
  <2>3. CASE OnlyJob(j, [job[j] EXCEPT !.at = "done", !.outcome = "aborted"])
    <3>1. job'[j].at = "done" /\ \A k \in Jobs \ {j} : job'[k] = job[k]
      BY <1>1, <2>3, DoneTurns
    <3> QED BY <2>1, <3>1, OthersHear
  <2>4. CASE job' = job
    BY <2>1, <2>2, <2>4, OthersHear
  <2> QED BY <1>3, <2>3, <2>4 DEF Abort
<1>4. CASE Reject(j) \/ InputFails(j)
  <2>1. PICK o : OnlyJob(j, [job[j] EXCEPT !.at = "done", !.outcome = o])
    BY <1>4 DEF Reject, InputFails
  <2>2. job'[j].at = "done" /\ \A k \in Jobs \ {j} : job'[k] = job[k]
    BY <1>1, <2>1, DoneTurns
  <2>3. UNCHANGED progress
    BY <1>4 DEF Reject, InputFails
  <2> QED BY <2>2, <2>3, OthersHear
<1>5. ASSUME NEW r \in JobRecord, EnterDir(j, r), UNCHANGED progress PROVE ProgressHeard'
  <2> DEFINE named == [r EXCEPT !.dir = nextJob]
  <2>1. named \in JobRecord
    BY DEF JobRecord, IInv, TypeOK
  <2>2. \/ Ask(j, named, "createDir", Input)
        \/ OnlyJob(j, [named EXCEPT !.at = "done", !.outcome = "lost"])
    BY <1>5 DEF EnterDir
  <2> HIDE DEF named
  <2>3. CASE Ask(j, named, "createDir", Input)
    <3>1. job'[j].at = "createDir" /\ \A k \in Jobs \ {j} : job'[k] = job[k]
      BY <1>1, <2>3, AskTurns
    <3> QED BY <1>5, <3>1, OthersHear
  <2>4. CASE OnlyJob(j, [named EXCEPT !.at = "done", !.outcome = "lost"])
    <3>1. job'[j].at = "done" /\ \A k \in Jobs \ {j} : job'[k] = job[k]
      BY <1>1, <2>1, <2>4, DoneTurns
    <3> QED BY <1>5, <3>1, OthersHear
  <2> QED BY <2>2, <2>3, <2>4
<1>6. CASE InputRead(j)
  BY <1>1, <1>5, <1>6 DEF InputRead
<1>7. CASE \E m \in Menu : Start(j, m[1], m[2])
  <2>1. PICK kind \in Kinds, source \in Sources : Start(j, kind, source)
    BY <1>7, HelperAssumption
  <2> DEFINE r == [job[j] EXCEPT !.kind = kind, !.source = source]
  <2>2. r \in JobRecord /\ UNCHANGED progress
    BY <1>1, <2>1 DEF JobRecord, Start
  <2>3. EnterDir(j, r) \/ OnlyJob(j, [r EXCEPT !.at = "input"])
    BY <2>1 DEF Start
  <2> HIDE DEF r
  <2>4. CASE EnterDir(j, r)
    BY <1>5, <2>2, <2>4
  <2>5. CASE OnlyJob(j, [r EXCEPT !.at = "input"])
    <3>1. job'[j].at = "input" /\ \A k \in Jobs \ {j} : job'[k] = job[k]
      BY <1>1, <2>2, <2>5, AloneTurns DEF JobRecord
    <3> QED BY <2>2, <3>1, OthersHear
  <2> QED BY <2>3, <2>4, <2>5
<1> QED BY <1>2, <1>3, <1>4, <1>6, <1>7

LEMMA ReplyHears ==
  ASSUME OwnListeners, IInv, TypeOK', ProgressHeard, NEW j \in Jobs, Reply(j)
  PROVE  ProgressHeard'
<1>1. TypeOK /\ job[j] \in JobRecord
  BY JobType DEF IInv
<1>2. CASE FileWritten(j)
  <2>1. /\ Ask(j, job[j], "command", Input) /\ progress \subseteq progress'
        /\ job[j].kind = "transcode" => OnProgress[j] \in progress'
    BY <1>2 DEF FileWritten
  <2>2. job'[j] = [job[j] EXCEPT !.at = "command"] /\ \A k \in Jobs \ {j} : job'[k] = job[k]
    BY <1>1, <2>1, AskTurns
  <2>3. job'[j].kind = job[j].kind
    BY <1>1, <2>2 DEF JobRecord
  <2> QED BY <2>1, <2>2, <2>3 DEF ProgressHeard, At
<1>3. CASE CallFails(j)
  BY <1>3, LeaveHears DEF CallFails
<1>4. ASSUME progress \ {OnProgress[j]} \subseteq progress', NEW r, NEW op, op # "command", NEW n, Ask(j, r, op, n)
      PROVE  ProgressHeard'
  <2>1. job'[j].at = op /\ \A k \in Jobs \ {j} : job'[k] = job[k]
    BY <1>1, <1>4, AskTurns
  <2> QED BY <1>4, <2>1, OthersHear
<1>5. CASE DirCreated(j)
  BY <1>4, <1>5 DEF DirCreated
<1>6. CASE CommandDone(j)
  <2>1. progress \ {OnProgress[j]} \subseteq progress'
    BY <1>6 DEF CommandDone, Unlisten
  <2>2. Ask(j, job[j], "listDir", Input) \/ Ask(j, job[j], "readFile", 1)
    BY <1>6 DEF CommandDone
  <2>3. CASE Ask(j, job[j], "listDir", Input)
    BY <1>4, <2>1, <2>3
  <2>4. CASE Ask(j, job[j], "readFile", 1)
    BY <1>4, <2>1, <2>4
  <2> QED BY <2>2, <2>3, <2>4
<1>7. CASE OutputRead(j)
  <2>1. UNCHANGED progress /\ \E r : Ask(j, r, "rmList", Input)
    BY <1>7, Zenon DEF OutputRead
  <2> QED BY <1>4, <2>1
<1>8. ASSUME NEW todo, NEW got, ReadFrames(j, todo, got), UNCHANGED progress PROVE ProgressHeard'
  <2>1. \/ \E r, n : Ask(j, r, "readFrame", n)
        \/ \E r : Ask(j, r, "rmList", Input)
    BY <1>8, Zenon DEF ReadFrames
  <2>2. CASE \E r, n : Ask(j, r, "readFrame", n)
    BY <1>4, <1>8, <2>2
  <2>3. CASE \E r : Ask(j, r, "rmList", Input)
    BY <1>4, <1>8, <2>3
  <2> QED BY <2>1, <2>2, <2>3
<1>9. CASE FramesListed(j) \/ FrameRead(j)
  BY <1>8, <1>9 DEF FramesListed, FrameRead
<1>10. ASSUME NEW todo, RemoveNext(j, todo), UNCHANGED progress PROVE ProgressHeard'
  <2>1. \/ \E r : Ask(j, r, "rmDir", Input)
        \/ \E r, n : Ask(j, r, "rmFile", n)
    BY <1>10, Zenon DEF RemoveNext
  <2>2. CASE \E r : Ask(j, r, "rmDir", Input)
    BY <1>4, <1>10, <2>2
  <2>3. CASE \E r, n : Ask(j, r, "rmFile", n)
    BY <1>4, <1>10, <2>3
  <2> QED BY <2>1, <2>2, <2>3
<1>11. CASE CleanUp(j)
  <2>1. UNCHANGED progress
    BY <1>11 DEF CleanUp
  <2>2. CASE RemoveNext(j, Incoming.files) \/ RemoveNext(j, job[j].todo)
    BY <1>10, <2>1, <2>2
  <2>3. CASE OnlyJob(j, [job[j] EXCEPT !.at = "done", !.todo = << >>])
    <3>1. job'[j].at = "done" /\ \A k \in Jobs \ {j} : job'[k] = job[k]
      BY <1>1, <2>3, DoneTurns
    <3> QED BY <2>1, <3>1, OthersHear
  <2> QED BY <1>11, <2>2, <2>3 DEF CleanUp
<1> QED BY <1>2, <1>3, <1>5, <1>6, <1>7, <1>9, <1>11 DEF Reply

LEMMA NextHears == OwnListeners /\ IInv /\ ProgressHeard /\ [Next]_vars => ProgressHeard'
<1> SUFFICES ASSUME OwnListeners, IInv, ProgressHeard, [Next]_vars PROVE ProgressHeard'
  OBVIOUS
<1>1. IInv' /\ TypeOK'
  BY NextKeeps DEF IInv
<1>2. CASE \E j \in Jobs : \/ Reject(j) \/ InputRead(j) \/ InputFails(j) \/ Abort(j)
                           \/ \E m \in Menu : Start(j, m[1], m[2])
  BY <1>1, <1>2, TurnHears
<1>3. CASE \E j \in Jobs : Reply(j)
  BY <1>1, <1>3, ReplyHears
<1>4. ASSUME UNCHANGED <<job, progress>> PROVE ProgressHeard'
  BY <1>4 DEF ProgressHeard, At
<1>5. CASE DeliverLog \/ DeliverNothing \/ Serve \/ LoadAgain \/ UNCHANGED vars
  BY <1>4, <1>5 DEF DeliverLog, DeliverNothing, Serve, ServeCreateDir, ServeWriteFile, ServeRead,
       ServeList, ServeRemove, StartCommand, LoadAgain, vars, jobVars
<1>6. CASE Emit \/ WriteOutput \/ End
  BY <1>4, <1>6 DEF Emit, WriteOutput, End, EndCommand, jobVars
<1>7. CASE LoseWorker
  <2>1. logging' = {}
    BY <1>7 DEF LoseWorker
  <2> QED BY <1>1, <2>1 DEF IInv, ListensWhileRunning, ProgressHeard, At
<1> QED BY <1>2, <1>3, <1>5, <1>6, <1>7 DEF Next, DeliverMessage

\* on() and off() in withLogTail() and transcode(): a job listens exactly while it
\* runs, and hears its progress to the end if its listener is its own.
THEOREM ListenersAreOwn == OwnListeners => (Spec => []ListenersAgree)
<1>1. Init => ProgressHeard
  BY DEF Init, NewJob, ProgressHeard, At
<1>2. IInv /\ ProgressHeard => ListenersAgree
  BY DEF IInv, ListenersAgree
<1>3. OwnListeners => (Spec => []ProgressHeard)
  <2> SUFFICES ASSUME OwnListeners PROVE Spec => []ProgressHeard
    OBVIOUS
  <2>1. IInv /\ ProgressHeard /\ [Next]_vars => ProgressHeard'
    BY NextHears
  <2> QED BY <1>1, <2>1, Always, PTL DEF Spec
<1> QED BY <1>2, <1>3, Always, PTL

-----------------------------------------------------------------------------
(* The jobs implement JobLease, under the mapping of HelperJobs.            *)

Phase(j) ==
  IF job[j].at \in {"idle", "input"} THEN "waiting"
  ELSE IF InFlight(j) THEN "holding" ELSE "settled"

LeaseStep == [Lease!LeaseNext]_(Lease!leaseVars)

\* What a turn of job j is in the abstract: nothing, taking a number, or settling.
Leases(j) ==
  /\ \A k \in Jobs \ {j} : job'[k] = job[k]
  /\ UNCHANGED dirs
  /\ \/ Phase(j)' = Phase(j) /\ Dir(j)' = Dir(j) /\ UNCHANGED nextJob
     \/ /\ Phase(j) = "waiting" /\ Phase(j)' \in {"holding", "settled"}
        /\ Dir(j)' = nextJob /\ nextJob' = nextJob + 1
     \/ /\ Phase(j) = "waiting" \/ (Phase(j) = "holding" /\ Dir(j) \notin dirs)
        /\ Phase(j)' = "settled" /\ Dir(j)' = Dir(j) /\ UNCHANGED nextJob

LEMMA LeaseMoves ==
  ASSUME NEW j \in Jobs, Leases(j)
  PROVE  LeaseStep
<1> DEFINE phase  == [k \in Jobs |-> Phase(k)]
           number == [k \in Jobs |-> Dir(k)]
<1>1. \A k \in Jobs \ {j} : Phase(k)' = Phase(k) /\ Dir(k)' = Dir(k)
  BY DEF Leases, Phase, InFlight, Dir
<1>2. phase' = [phase EXCEPT ![j] = Phase(j)'] /\ number' = [number EXCEPT ![j] = Dir(j)']
  BY <1>1
<1>3. /\ phase = [k \in Jobs |-> IF job[k].at \in {"idle", "input"} THEN "waiting"
                                ELSE IF InFlight(k) THEN "holding" ELSE "settled"]
      /\ phase[j] = Phase(j) /\ number[j] = Dir(j)
  BY DEF Phase
<1>4. CASE Phase(j)' = Phase(j) /\ Dir(j)' = Dir(j) /\ UNCHANGED nextJob
  <2>1. phase' = phase /\ number' = number /\ UNCHANGED <<nextJob, dirs>>
    BY <1>2, <1>3, <1>4 DEF Leases
  <2> QED BY <1>3, <2>1 DEF LeaseStep, Lease!leaseVars, Phase
<1>5. CASE /\ Phase(j) = "waiting" /\ Phase(j)' \in {"holding", "settled"}
           /\ Dir(j)' = nextJob /\ nextJob' = nextJob + 1
  <2> HIDE DEF phase, number
  <2>1. /\ phase[j] = "waiting" /\ \E p \in {"holding", "settled"} : phase' = [phase EXCEPT ![j] = p]
        /\ number' = [number EXCEPT ![j] = nextJob] /\ nextJob' = nextJob + 1 /\ UNCHANGED dirs
    BY <1>2, <1>3, <1>5 DEF Leases
  <2> USE DEF phase, number
  <2>2. Lease!Take(j)
    BY <2>1 DEF Lease!Take, Phase
  <2> QED BY <2>2 DEF LeaseStep, Lease!LeaseNext
<1>6. CASE /\ Phase(j) = "waiting" \/ (Phase(j) = "holding" /\ Dir(j) \notin dirs)
           /\ Phase(j)' = "settled" /\ Dir(j)' = Dir(j) /\ UNCHANGED nextJob
  <2>1. /\ phase[j] = "waiting" \/ (phase[j] = "holding" /\ number[j] \notin dirs)
        /\ phase' = [phase EXCEPT ![j] = "settled"] /\ UNCHANGED <<number, nextJob, dirs>>
    BY <1>2, <1>3, <1>6 DEF Leases
  <2>2. Lease!Settle(j)
    BY <2>1 DEF Lease!Settle, Phase
  <2> QED BY <2>2 DEF LeaseStep, Lease!LeaseNext
<1> QED BY <1>4, <1>5, <1>6 DEF Leases

LEMMA LeaseIdles ==
  ASSUME UNCHANGED <<job, nextJob, dirs>>
  PROVE  LeaseStep
BY DEF LeaseStep, Lease!leaseVars, InFlight, Dir

\* A job in flight goes on to another call.
LEMMA AskLeases ==
  ASSUME TypeOK, TypeOK', NEW j \in Jobs, InFlight(j), NEW r, r.dir = Dir(j), NEW op \in Calls,
         NEW n, Ask(j, r, op, n), UNCHANGED <<nextJob, dirs>>
  PROVE  Leases(j)
<1>1. /\ job'[j] = [r EXCEPT !.at = op] /\ job'[j].at = op
      /\ \A k \in Jobs \ {j} : job'[k] = job[k]
  BY AskTurns
<1>2. job'[j] \in JobRecord
  BY DEF TypeOK, JobRecord
<1>3. job'[j].dir = r.dir
  BY <1>1, <1>2 DEF JobRecord
<1> QED BY <1>1, <1>3, CallSets DEF Leases, Phase, InFlight, Dir

\* A job settles, with the directory it had.
LEMMA DoneLeases ==
  ASSUME TypeOK, NEW j \in Jobs, NEW r \in JobRecord, r.dir = Dir(j), r.at = "done", OnlyJob(j, r),
         job[j].at \in {"idle", "input"} \/ (InFlight(j) /\ Dir(j) \notin dirs),
         UNCHANGED <<nextJob, dirs>>
  PROVE  LeaseStep
<1>1. job'[j] = r /\ \A k \in Jobs \ {j} : job'[k] = job[k]
  BY AloneTurns
<1> QED BY <1>1, LeaseMoves, CallSets DEF Leases, Phase, InFlight, Dir

LEMMA TurnLeases ==
  ASSUME IInv, TypeOK', NEW j \in Jobs,
         \/ Reject(j) \/ InputRead(j) \/ InputFails(j) \/ Abort(j)
         \/ \E m \in Menu : Start(j, m[1], m[2])
  PROVE  LeaseStep
<1>1. TypeOK /\ job[j] \in JobRecord /\ nextJob \in Nat
  BY JobType DEF IInv, TypeOK
<1>2. \A o \in Outcomes : LET r == [job[j] EXCEPT !.at = "done", !.outcome = o]
                          IN  r \in JobRecord /\ r.dir = Dir(j) /\ r.at = "done"
  BY <1>1 DEF JobRecord, Dir, Steps
<1>3. CASE Abort(j) /\ job[j].at \in RunCalls
  <2> DEFINE r == [job[j] EXCEPT !.outcome = Rejection(job[j].kind, job[j].at, "aborted"), !.todo = << >>]
  <2>1. Ask(j, r, "rmList", Input) /\ UNCHANGED <<nextJob, dirs>>
    BY <1>3 DEF Abort, RunCalls, Leave, At
  <2>2. r.dir = Dir(j)
    BY <1>1 DEF JobRecord, Dir
  <2> HIDE DEF r
  <2>3. InFlight(j) /\ "rmList" \in Calls
    BY <1>3, CallSets DEF InFlight, CleanCalls
  <2> QED BY <1>1, <2>1, <2>2, <2>3, AskLeases, LeaseMoves
<1>4. CASE Abort(j) /\ job[j].at \notin RunCalls
  <2>1. UNCHANGED <<nextJob, dirs>>
    BY <1>4 DEF Abort
  <2>2. CASE job' = job
    BY <2>1, <2>2, LeaseIdles
  <2>3. CASE At(j, "input") /\ OnlyJob(j, [job[j] EXCEPT !.at = "done", !.outcome = "aborted"])
    <3> DEFINE r == [job[j] EXCEPT !.at = "done", !.outcome = "aborted"]
    <3>1. r \in JobRecord /\ r.dir = Dir(j) /\ r.at = "done"
      BY <1>2 DEF Outcomes
    <3>2. OnlyJob(j, r) /\ job[j].at \in {"idle", "input"}
      BY <2>3 DEF At
    <3> HIDE DEF r
    <3> QED BY <1>1, <2>1, <3>1, <3>2, DoneLeases
  <2> QED BY <1>4, <2>2, <2>3 DEF Abort
<1>5. CASE Reject(j) \/ InputFails(j)
  <2>1. PICK o \in {"invalid", "aborted", "failed"} :
          OnlyJob(j, [job[j] EXCEPT !.at = "done", !.outcome = o])
    BY <1>5 DEF Reject, InputFails
  <2> DEFINE r == [job[j] EXCEPT !.at = "done", !.outcome = o]
  <2>2. r \in JobRecord /\ r.dir = Dir(j) /\ r.at = "done"
    BY <1>2 DEF Outcomes
  <2>3. OnlyJob(j, r) /\ job[j].at \in {"idle", "input"} /\ UNCHANGED <<nextJob, dirs>>
    BY <1>5, <2>1 DEF At, Reject, InputFails, closure, serverVars
  <2> HIDE DEF r
  <2> QED BY <1>1, <2>2, <2>3, DoneLeases
<1>6. ASSUME NEW r \in JobRecord, EnterDir(j, r), job[j].at \in {"idle", "input"}, UNCHANGED dirs
      PROVE  LeaseStep
  <2> DEFINE named == [r EXCEPT !.dir = nextJob]
             lost  == [named EXCEPT !.at = "done", !.outcome = "lost"]
  <2>1. named \in JobRecord /\ named.dir = nextJob
    BY <1>1 DEF JobRecord
  <2>2. nextJob' = nextJob + 1 /\ (Ask(j, named, "createDir", Input) \/ OnlyJob(j, lost))
    BY <1>6 DEF EnterDir
  <2>3. lost.at = "done" /\ lost.dir = nextJob
    <3> HIDE DEF named
    <3> QED BY <2>1 DEF JobRecord
  <2> HIDE DEF lost, named
  <2>4. /\ job'[j].at \in {"createDir", "done"} /\ job'[j].dir = nextJob
        /\ \A k \in Jobs \ {j} : job'[k] = job[k]
    <3>1. CASE Ask(j, named, "createDir", Input)
      <4>1. /\ job'[j] = [named EXCEPT !.at = "createDir"] /\ job'[j].at = "createDir"
            /\ \A k \in Jobs \ {j} : job'[k] = job[k]
        BY <1>1, <3>1, AskTurns
      <4> QED BY <2>1, <4>1 DEF JobRecord
    <3>2. CASE OnlyJob(j, lost)
      BY <1>1, <2>3, <3>2, AloneTurns
    <3> QED BY <2>2, <3>1, <3>2
  <2>5. Phase(j) = "waiting" /\ Phase(j)' \in {"holding", "settled"} /\ Dir(j)' = nextJob
    BY <1>6, <2>4, CallSets DEF Phase, InFlight, Dir
  <2> QED BY <1>6, <2>2, <2>4, <2>5, LeaseMoves DEF Leases
<1>7. CASE InputRead(j)
  BY <1>1, <1>6, <1>7 DEF InputRead, At, serverVars
<1>8. CASE \E m \in Menu : Start(j, m[1], m[2])
  <2>1. PICK kind \in Kinds, source \in Sources : Start(j, kind, source)
    BY <1>8, HelperAssumption
  <2> DEFINE r == [job[j] EXCEPT !.kind = kind, !.source = source]
  <2>2. r \in JobRecord /\ r.dir = Dir(j) /\ UNCHANGED dirs /\ job[j].at = "idle"
    BY <1>1, <2>1 DEF JobRecord, Start, Dir, serverVars, At
  <2>3. EnterDir(j, r) \/ (OnlyJob(j, [r EXCEPT !.at = "input"]) /\ UNCHANGED nextJob)
    BY <2>1 DEF Start
  <2> HIDE DEF r
  <2>4. CASE EnterDir(j, r)
    BY <1>6, <2>2, <2>4
  <2>5. CASE OnlyJob(j, [r EXCEPT !.at = "input"]) /\ UNCHANGED nextJob
    <3>1. job'[j] = [r EXCEPT !.at = "input"] /\ \A k \in Jobs \ {j} : job'[k] = job[k]
      BY <1>1, <2>5, AloneTurns
    <3>2. job'[j].at = "input" /\ job'[j].dir = Dir(j)
      BY <2>2, <3>1 DEF JobRecord
    <3> QED BY <2>2, <2>5, <3>1, <3>2, LeaseMoves DEF Leases, Phase, Dir
  <2> QED BY <2>3, <2>4, <2>5
<1> QED BY <1>3, <1>4, <1>5, <1>7, <1>8

LEMMA ReplyLeases ==
  ASSUME IInv, TypeOK', NEW j \in Jobs, Reply(j)
  PROVE  LeaseStep
<1>1. TypeOK /\ job[j] \in JobRecord /\ UNCHANGED <<nextJob, dirs>>
  BY JobType DEF IInv, Reply, DirCreated, FileWritten, CommandDone, CallFails, OutputRead,
                 FramesListed, FrameRead, CleanUp, closure, serverVars
<1>2. InFlight(j)
  <2>1. \E op \in Calls : At(j, op)
    BY CallSets DEF Reply, DirCreated, FileWritten, CommandDone, CallFails, OutputRead,
                    FramesListed, FrameRead, CleanUp, Replied, RunCalls, CleanCalls
  <2> QED BY <2>1 DEF At, InFlight
<1>3. ASSUME NEW r, r.dir = Dir(j), NEW op \in Calls, NEW n, Ask(j, r, op, n) PROVE LeaseStep
  BY <1>1, <1>2, <1>3, AskLeases, LeaseMoves
<1>4. /\ job[j].dir = Dir(j)
      /\ \A o, t : [job[j] EXCEPT !.outcome = o, !.todo = t].dir = Dir(j)
      /\ \A g, o : [job[j] EXCEPT !.got = g, !.outcome = o].dir = Dir(j)
      /\ \A t, g : [job[j] EXCEPT !.todo = t, !.got = g].dir = Dir(j)
      /\ \A t, g, o : [job[j] EXCEPT !.todo = t, !.got = g, !.outcome = o].dir = Dir(j)
      /\ \A t : [job[j] EXCEPT !.todo = t].dir = Dir(j)
  BY <1>1 DEF JobRecord, Dir
<1>5. {"writeFile", "command", "listDir", "readFile", "readFrame", "rmList", "rmFile", "rmDir"} \subseteq Calls
  BY DEF Calls, RunCalls, CleanCalls
<1>6. CASE DirCreated(j) \/ FileWritten(j) \/ CommandDone(j)
  <2>1. \/ Ask(j, job[j], "writeFile", Input) \/ Ask(j, job[j], "command", Input)
        \/ Ask(j, job[j], "listDir", Input) \/ Ask(j, job[j], "readFile", 1)
    BY <1>6 DEF DirCreated, FileWritten, CommandDone
  <2> QED BY <1>3, <1>4, <1>5, <2>1
<1>7. CASE CallFails(j)
  <2> DEFINE r == [job[j] EXCEPT !.outcome = "failed", !.todo = << >>]
  <2>1. Ask(j, r, "rmList", Input)
    BY <1>7 DEF CallFails, Leave
  <2>2. r.dir = Dir(j)
    BY <1>4
  <2> HIDE DEF r
  <2> QED BY <1>3, <1>5, <2>1, <2>2
<1>8. CASE OutputRead(j)
  <2>1. \E g, o : Ask(j, [job[j] EXCEPT !.got = g, !.outcome = o], "rmList", Input)
    BY <1>8, Zenon DEF OutputRead
  <2>2. PICK g, o : Ask(j, [job[j] EXCEPT !.got = g, !.outcome = o], "rmList", Input)
    BY <2>1
  <2> DEFINE r == [job[j] EXCEPT !.got = g, !.outcome = o]
  <2>3. Ask(j, r, "rmList", Input) /\ r.dir = Dir(j)
    BY <1>4, <2>2
  <2> HIDE DEF r
  <2> QED BY <1>3, <1>5, <2>3
<1>9. ASSUME NEW todo, NEW got, ReadFrames(j, todo, got) PROVE LeaseStep
  <2> DEFINE r == [job[j] EXCEPT !.todo = Tail(todo), !.got = got]
             s == [job[j] EXCEPT !.todo = << >>, !.got = got, !.outcome = "result"]
  <2>1. Ask(j, r, "readFrame", Head(todo).name) \/ Ask(j, s, "rmList", Input)
    BY <1>9 DEF ReadFrames
  <2>2. r.dir = Dir(j) /\ s.dir = Dir(j)
    BY <1>4
  <2> HIDE DEF r, s
  <2> QED BY <1>3, <1>5, <2>1, <2>2
<1>10. CASE FramesListed(j) \/ FrameRead(j)
  BY <1>9, <1>10 DEF FramesListed, FrameRead
<1>11. ASSUME NEW todo, RemoveNext(j, todo) PROVE LeaseStep
  <2> DEFINE r == [job[j] EXCEPT !.todo = << >>]
             s == [job[j] EXCEPT !.todo = Tail(todo)]
  <2>1. Ask(j, r, "rmDir", Input) \/ Ask(j, s, "rmFile", Head(todo).name)
    BY <1>11 DEF RemoveNext
  <2>2. r.dir = Dir(j) /\ s.dir = Dir(j)
    BY <1>4
  <2> HIDE DEF r, s
  <2> QED BY <1>3, <1>5, <2>1, <2>2
<1>12. CASE CleanUp(j)
  <2>1. CASE RemoveNext(j, Incoming.files) \/ RemoveNext(j, job[j].todo)
    BY <1>11, <2>1
  <2>2. CASE /\ Replied(j, "rmDir", {"ok"}) \/ \E op \in CleanCalls : Replied(j, op, {"error"})
             /\ OnlyJob(j, [job[j] EXCEPT !.at = "done", !.todo = << >>])
    <3>1. PICK op \in CleanCalls : Replied(j, op, {"error"}) \/ (op = "rmDir" /\ Replied(j, op, {"ok"}))
      BY <2>2 DEF CleanCalls
    <3>2. Says(j, Incoming)
      BY <1>1, <3>1, Heard DEF IInv, Stage
    <3>3. Dir(j) \notin dirs
      BY <3>1, <3>2 DEF Says, CleanCalls, Replied
    <3> DEFINE r == [job[j] EXCEPT !.at = "done", !.todo = << >>]
    <3>4. r \in JobRecord
      BY <1>1, RecordType
    <3>5. r.dir = Dir(j) /\ r.at = "done" /\ OnlyJob(j, r)
      BY <1>1, <2>2 DEF JobRecord, Dir
    <3> HIDE DEF r
    <3> QED BY <1>1, <1>2, <3>3, <3>4, <3>5, DoneLeases
  <2> QED BY <1>12, <2>1, <2>2 DEF CleanUp
<1> QED BY <1>6, <1>7, <1>8, <1>10, <1>12 DEF Reply

\* The worker makes or removes the directory of the job that asks.
LEMMA ServeLeases ==
  ASSUME IInv, Serve
  PROVE  LeaseStep
<1>1. UNCHANGED <<job, nextJob>>
  BY DEF Serve, ServeCreateDir, ServeWriteFile, ServeRead, ServeList, ServeRemove, StartCommand, jobVars
<1>2. CASE ServeCreateDir \/ ServeRemove
  <2>1. PICK ops : Receive(ops)
    BY <1>2 DEF ServeCreateDir, ServeRemove
  <2>2. PICK j \in Jobs : Taken.job = j
    BY <2>1, Received DEF IInv
  <2>3. InFlight(j)
    BY <2>1, <2>2, TakenInOrder DEF IInv
  <2>4. dirs' \in {dirs, dirs \cup {Dir(j)}, dirs \ {Dir(j)}}
    BY <1>2, <2>2, Zenon DEF ServeCreateDir, ServeRemove
  <2>5. CASE dirs' = dirs
    BY <1>1, <2>5, LeaseIdles
  <2>6. CASE dirs' \in {dirs \cup {Dir(j)}, dirs \ {Dir(j)}}
    <3>1. ~(job[j].at \in {"idle", "input"})
      BY <2>3, CallSets DEF InFlight
    <3>2. \A k \in Jobs : (InFlight(k)' <=> InFlight(k)) /\ Dir(k)' = Dir(k)
      BY <1>1 DEF InFlight, Dir
    <3>3. Lease!MakeOrRemove(j)
      BY <1>1, <2>3, <2>6, <3>1, <3>2 DEF Lease!MakeOrRemove
    <3> QED BY <3>3 DEF LeaseStep, Lease!LeaseNext
  <2> QED BY <2>4, <2>5, <2>6
<1>3. CASE ServeWriteFile \/ ServeRead \/ ServeList \/ StartCommand
  <2>1. UNCHANGED dirs
    BY <1>3 DEF ServeWriteFile, ServeRead, ServeList, StartCommand, serverVars
  <2> QED BY <1>1, <2>1, LeaseIdles
<1> QED BY <1>2, <1>3 DEF Serve

LEMMA LossLeases ==
  ASSUME IInv, LoseWorker
  PROVE  LeaseStep
<1>1. dirs' = {} /\ UNCHANGED nextJob
  BY DEF LoseWorker
<1>2. \A j \in Jobs : /\ Dir(j)' = Dir(j)
                      /\ InFlight(j) => job'[j].at = "done"
                      /\ ~InFlight(j) => job'[j].at = job[j].at
  <2> TAKE j \in Jobs
  <2>1. job[j] \in JobRecord
    BY JobType DEF IInv
  <2>2. ~InFlight(j) => job'[j] = job[j]
    BY DEF LoseWorker, InFlight
  <2>3. InFlight(j) => \E o : job'[j] = [job[j] EXCEPT !.at = "done", !.todo = << >>, !.outcome = o]
    BY DEF LoseWorker, InFlight
  <2> QED BY <2>1, <2>2, <2>3 DEF JobRecord, Dir
<1>3. \A j \in Jobs : Phase(j)' = IF Phase(j) = "holding" THEN "settled" ELSE Phase(j)
  BY <1>2, CallSets DEF Phase, InFlight
<1>4. Lease!LoseAll
  BY <1>1, <1>2, <1>3 DEF Lease!LoseAll, Phase
<1> QED BY <1>4 DEF LeaseStep, Lease!LeaseNext

\* withJob(): each job takes a number nobody has had, and makes and removes that
\* directory only; it does not settle while the directory exists.
THEOREM Refinement == Spec => KeepsLease
<1>1. Init => Lease!LeaseInit
  BY DEF Init, NewJob, Lease!LeaseInit, Dir
<1>2. ASSUME IInv, [Next]_vars PROVE LeaseStep
  <2>1. TypeOK'
    BY <1>2, NextKeeps DEF IInv
  <2>2. CASE \E j \in Jobs : \/ Reject(j) \/ InputRead(j) \/ InputFails(j) \/ Abort(j)
                             \/ \E m \in Menu : Start(j, m[1], m[2])
    BY <1>2, <2>1, <2>2, TurnLeases
  <2>3. CASE \E j \in Jobs : Reply(j)
    BY <1>2, <2>1, <2>3, ReplyLeases
  <2>4. CASE DeliverLog \/ DeliverNothing \/ LoadAgain \/ Emit \/ WriteOutput \/ End \/ UNCHANGED vars
    <3>1. UNCHANGED <<job, nextJob, dirs>>
      BY <2>4 DEF DeliverLog, DeliverNothing, LoadAgain, Emit, WriteOutput, End, EndCommand, vars,
                  jobVars, serverVars
    <3> QED BY <3>1, LeaseIdles
  <2> QED BY <1>2, <2>2, <2>3, <2>4, ServeLeases, LossLeases DEF Next, DeliverMessage
<1>3. IInv /\ [Next]_vars => [Lease!LeaseNext]_(Lease!leaseVars)
  BY <1>2 DEF LeaseStep
<1> QED BY <1>1, <1>3, Always, PTL DEF Spec, KeepsLease, Lease!LeaseSpec
=============================================================================
