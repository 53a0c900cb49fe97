---------------------------- MODULE FateRun_proofs ----------------------------
(***************************************************************************)
(* What FateRun promises, for every manifest: a report that is complete and *)
(* true of the children, nothing left on disk, and one child at a time.      *)
(***************************************************************************)
EXTENDS FateRun, FiniteSetTheorems, TLAPS

USE ManifestAssumption

\* The results so far are those of the tests before the present one, and a
\* child would read the same manifest as its parent.
Books ==
  /\ Len(narrowed) <= Len(Manifest)
  /\ Len(results) <= Len(narrowed)
  /\ \A i \in DOMAIN results : results[i].name = narrowed[i]
  /\ main = "start" => results = << >> /\ files = {}
  /\ main \in {"loop", "child"} =>
       /\ index \in 1 .. Len(narrowed) /\ Len(results) = index - 1
       /\ ChildManifest = narrowed
  /\ main \in {"report", "end"} => Len(results) = Len(narrowed)
  /\ main = "end" => files = {}

\* There is a child only while its parent waits for it; it took the test the
\* parent is at, and its files are gone when it is.
OneChild ==
  /\ promise # Pending => main = "child" /\ child.at = "none" /\ promise.status # "pending"
  /\ child.at # "none" =>
       /\ main = "child" /\ child.test = narrowed[index]
       /\ stalled <=> "stall" \in files
       /\ "result" \in files => written.status # "unwritten"
  /\ child.at = "none" =>
       /\ files \cap {"result", "stall"} = {}
       /\ main = "child" /\ promise = Pending => ~stalled

\* What is in the result file, and then in the promise, is the child's verdict.
Told ==
  /\ child.at \in {"boot", "exec", "done"} => written = Unwritten
  /\ child.at \in {"done", "writing"} =>
       verdict.test = child.test /\ verdict.status \in {"pass", "fail"}
  /\ child.at # "none" /\ written.status = "pass" => verdict = Verdict(child.test, "pass")
  /\ promise.status = "pass" => verdict = Verdict(narrowed[index], "pass")
  /\ promise.status = "fail" /\ stalled => promise.stall

IInv == TypeOK /\ Books /\ OneChild /\ Told
-----------------------------------------------------------------------------

LEMMA ManifestTyped ==
  Manifest \in Seq(Tests) /\ Len(Manifest) \in Nat /\ \A i \in 1 .. Len(Manifest) : Manifest[i] \in Tests
BY DEF Tests, Range

\* filter() keeps tests of the manifest, and no more than there are.
LEMMA KeptIsShorter ==
  ASSUME NEW S, NEW s \in Kept(S)
  PROVE  s \in Seq(Tests) /\ Len(s) <= Len(Manifest)
<1> DEFINE kept == {i \in DOMAIN Manifest : Manifest[i] \in S}
<1>1. PICK at \in SetToSeqs(kept) : s = [n \in DOMAIN at |-> Manifest[at[n]]]
  BY DEF Kept
<1>2. /\ IsFiniteSet(kept) /\ Cardinality(kept) \in Nat
      /\ Cardinality(kept) <= Len(Manifest)
  <2>1. DOMAIN Manifest = 1 .. Len(Manifest) /\ kept \in SUBSET (1 .. Len(Manifest))
    OBVIOUS
  <2>2. IsFiniteSet(1 .. Len(Manifest)) /\ Cardinality(1 .. Len(Manifest)) = Len(Manifest)
    <3>1. 1 \in Int /\ Len(Manifest) \in Int /\ Len(Manifest) - 1 + 1 = Len(Manifest)
          /\ (1 > Len(Manifest) => Len(Manifest) = 0)
      BY ManifestTyped
    <3>2. /\ IsFiniteSet(1 .. Len(Manifest))
          /\ Cardinality(1 .. Len(Manifest)) = IF 1 > Len(Manifest) THEN 0 ELSE Len(Manifest) - 1 + 1
      BY <3>1, FS_Interval, Zenon
    <3> QED BY <3>1, <3>2
  <2> HIDE DEF kept
  <2>3. IsFiniteSet(kept) /\ Cardinality(kept) <= Cardinality(1 .. Len(Manifest))
    BY <2>1, <2>2, FS_Subset
  <2> QED BY <2>2, <2>3, FS_CardinalityType
<1>3. at \in [1 .. Cardinality(kept) -> kept]
  BY <1>1 DEF SetToSeqs
<1>4. \A n \in 1 .. Cardinality(kept) : s[n] \in Tests
  BY <1>1, <1>3, ManifestTyped
<1>5. s = [n \in 1 .. Cardinality(kept) |-> s[n]]
  BY <1>1, <1>3
<1> HIDE DEF kept
<1> QED BY <1>2, <1>4, <1>5

LEMMA InitInv == Init => IInv
<1> SUFFICES ASSUME Init PROVE IInv
  OBVIOUS
<1>1. TypeOK
  <2>1. /\ only \subseteq Tests /\ needs \in [Tests -> Needs]
        /\ generated = FALSE /\ stalled = FALSE
        /\ main = "start" /\ files = {} /\ timer = "off" /\ results = << >>
    BY DEF Init
  <2>3. narrowed \in Seq(Tests) /\ index \in 0 .. Len(Manifest) + 1
    BY ManifestTyped DEF Init
  <2>2. /\ child \in [at : Running \cup {"none", "zombie"}, test : Tests \cup {""}]
        /\ verdict \in [test : Tests \cup {""}, status : {"unwritten", "pass", "fail", "half"}]
        /\ written = verdict
        /\ promise \in [status : Statuses \cup {"pending"}, stall : BOOLEAN]
    BY DEF Init, Unwritten, Verdict, NoChild, Pending, Result
  <2>4. results \in Seq([name : Tests, status : Statuses, stall : BOOLEAN])
    BY <2>1
  <2> QED BY <2>1, <2>2, <2>3, <2>4 DEF TypeOK
<1>2. Manifest \in Seq(Tests) /\ Len(Manifest) >= 0 /\ Len(<< >>) = 0
  BY ManifestTyped
<1>3. Books
  BY <1>2 DEF Init, Books
<1>4. child.at = "none" /\ files = {} /\ main = "start" /\ promise = Pending
  BY DEF Init, NoChild
<1>5. written.status = "unwritten" /\ promise.status = "pending"
  BY DEF Init, Unwritten, Verdict, Pending, Result
<1>6. OneChild /\ Told
  BY <1>4, <1>5 DEF OneChild, Told
<1> QED BY <1>1, <1>3, <1>6 DEF IInv

\* A result is recorded behind those there are.
LEMMA Recorded ==
  ASSUME TypeOK, NEW t \in Tests, NEW r, r.status \in Statuses, r.stall \in BOOLEAN,
         results' = Record(t, r)
  PROVE  /\ results' \in Seq([name : Tests, status : Statuses, stall : BOOLEAN])
         /\ Len(results) \in Nat /\ Len(results') = Len(results) + 1
         /\ DOMAIN results = 1 .. Len(results) /\ DOMAIN results' = 1 .. Len(results')
         /\ \A i \in 1 .. Len(results) : results'[i] = results[i]
         /\ results'[Len(results) + 1] = [name |-> t, status |-> r.status, stall |-> r.stall]
<1> DEFINE new == [name |-> t, status |-> r.status, stall |-> r.stall]
<1>1. results \in Seq([name : Tests, status : Statuses, stall : BOOLEAN]) /\ results' = Append(results, new)
  BY DEF TypeOK, Record
<1>2. new \in [name : Tests, status : Statuses, stall : BOOLEAN]
  OBVIOUS
<1> HIDE DEF new
<1>3. QED BY <1>1, <1>2 DEF new

\* What a child and its verdict can be.
LEMMA Shapes ==
  ASSUME TypeOK
  PROVE  /\ \A at : child' = [child EXCEPT !.at = at] =>
              /\ child'.at = at /\ child'.test = child.test
              /\ at \in Running \cup {"none", "zombie"} =>
                   child' \in [at : Running \cup {"none", "zombie"}, test : Tests \cup {""}]
         /\ \A st \in {"unwritten", "pass", "fail", "half"}, t \in Tests \cup {""} :
              Verdict(t, st) \in [test : Tests \cup {""}, status : {"unwritten", "pass", "fail", "half"}]
         /\ \A st \in Statuses \cup {"pending"}, b \in BOOLEAN :
              Result(st, b) \in [status : Statuses \cup {"pending"}, stall : BOOLEAN]
         /\ \A st, t, b : /\ Verdict(t, st).test = t /\ Verdict(t, st).status = st
                          /\ Result(st, b).status = st /\ Result(st, b).stall = b
         /\ Pending = Result("pending", FALSE) /\ Unwritten = Verdict("", "unwritten")
         /\ NoChild.at = "none" /\ NoChild.test = ""
         /\ NoChild \in [at : Running \cup {"none", "zombie"}, test : Tests \cup {""}]
         /\ child.test \in Tests \cup {""} /\ child.at \in Running \cup {"none", "zombie"}
<1>1. child \in [at : Running \cup {"none", "zombie"}, test : Tests \cup {""}]
  BY DEF TypeOK
<1>2. ASSUME NEW at, child' = [child EXCEPT !.at = at]
      PROVE  /\ child'.at = at /\ child'.test = child.test
             /\ at \in Running \cup {"none", "zombie"} =>
                  child' \in [at : Running \cup {"none", "zombie"}, test : Tests \cup {""}]
  BY <1>1, <1>2
<1>3. QED BY <1>1, <1>2 DEF Verdict, Result, Pending, Unwritten, NoChild

\* What the files of a child say is a result.
LEMMA ReadIsResult ==
  ASSUME TypeOK, OneChild, child.at # "none"
  PROVE  /\ ReadResult.status \in {"pass", "fail"} /\ ReadResult.stall \in BOOLEAN
         /\ ReadResult # Pending
         /\ ReadResult.status = "pass" => written.status = "pass"
         /\ ReadResult.status = "fail" /\ stalled => ReadResult.stall
<1>1. written.status \in {"unwritten", "pass", "fail", "half"}
  BY DEF TypeOK
<1>2. CASE timer = "fired" \/ "result" \notin files
  <2>1. /\ ReadResult.status = "fail" /\ ReadResult.stall \in BOOLEAN
        /\ "stall" \in files => ReadResult.stall
    <3>1. ReadResult = [status |-> "fail", stall |-> "stall" \in files]
      BY <1>2 DEF ReadResult, Result
    <3>2. CASE "stall" \in files
      <4>1. ("stall" \in files) = TRUE
        BY <3>2
      <4> QED BY <3>1, <4>1
    <3>3. CASE "stall" \notin files
      <4>1. ("stall" \in files) = FALSE
        BY <3>3
      <4> QED BY <3>1, <3>3, <4>1
    <3> QED BY <3>2, <3>3
  <2>2. stalled <=> "stall" \in files
    BY DEF OneChild
  <2>3. Pending.status = "pending"
    BY DEF Pending, Result
  <2> QED BY <2>1, <2>2, <2>3
<1>3. CASE ~(timer = "fired" \/ "result" \notin files)
  <2>2. /\ ReadResult.status = IF written.status = "half" THEN "fail" ELSE written.status
        /\ ReadResult.stall = (written.status # "pass" /\ "stall" \in files)
    BY <1>3 DEF ReadResult, Result
  <2>3. written.status # "unwritten" /\ (stalled <=> "stall" \in files)
    BY <1>3 DEF OneChild
  <2>4. Pending.status = "pending"
    BY DEF Pending, Result
  <2> QED BY <1>1, <2>2, <2>3, <2>4
<1> QED BY <1>2, <1>3

\* The test the parent is at.
LEMMA AtTest ==
  ASSUME TypeOK, Books, main \in {"loop", "child"}
  PROVE  /\ index \in Nat \ {0} /\ index \in 1 .. Len(narrowed) /\ narrowed[index] \in Tests
         /\ index + 1 \in 0 .. Len(Manifest) + 1
         /\ ChildManifest = narrowed /\ Len(results) = index - 1
<1>1. index \in 1 .. Len(narrowed) /\ ChildManifest = narrowed /\ Len(results) = index - 1
      /\ Len(narrowed) <= Len(Manifest)
  BY DEF Books
<1>2. narrowed \in Seq(Tests)
  BY DEF TypeOK
<1> QED BY <1>1, <1>2, ManifestTyped

\* Every variable keeps its type.
LEMMA TypeStep == ASSUME IInv, [Next]_vars PROVE TypeOK'
<1>1. TypeOK /\ Books /\ OneChild /\ Told
  BY DEF IInv
<1>2. CASE Begin
  <2>1. narrowed' \in Seq(Tests) /\ index' \in 0 .. Len(Manifest) + 1
    BY <1>2, ManifestTyped, KeptIsShorter DEF Begin
  <2>2. files' \subseteq {"narrowed", "generated", "result", "stall"} /\ main' \in {"report", "loop"}
    BY <1>2 DEF Begin
  <2> QED BY <1>1, <1>2, <2>1, <2>2 DEF Begin, TypeOK
<1>3. CASE Skip
  <2>1. index \in 1 .. Len(narrowed) /\ narrowed[index] \in Tests /\ index + 1 \in 0 .. Len(Manifest) + 1
    BY <1>1, <1>3, AtTest DEF Skip
  <2>2. results' \in Seq([name : Tests, status : Statuses, stall : BOOLEAN])
    <3>1. Result("skip", FALSE).status \in Statuses /\ Result("skip", FALSE).stall \in BOOLEAN
      BY DEF Result, Statuses
    <3> QED BY <1>1, <1>3, <2>1, <3>1, Recorded DEF Skip
  <2>3. main' \in {"report", "loop"}
    BY <1>3 DEF Skip
  <2> QED BY <1>1, <1>3, <2>1, <2>2, <2>3 DEF Skip, TypeOK, setup
<1>4. CASE Spawn
  <2>1. index \in 1 .. Len(narrowed) /\ narrowed[index] \in Tests /\ ChildManifest = narrowed
    BY <1>1, <1>4, AtTest DEF Spawn
  <2>2. child' \in [at : Running \cup {"none", "zombie"}, test : Tests \cup {""}]
    <3>1. child' = [at |-> "boot", test |-> ChildManifest[index]] \/ child' = NoChild
      BY <1>4 DEF Spawn
    <3>2. ChildManifest[index] \in Tests
      BY <2>1
    <3>3. CASE child' = [at |-> "boot", test |-> ChildManifest[index]]
      <4>1. "boot" \in Running
        BY DEF Running
      <4> QED BY <3>2, <3>3, <4>1
    <3>4. CASE child' = NoChild
      BY <3>4, <1>1, Shapes
    <3> QED BY <3>1, <3>3, <3>4
  <2>3. /\ verdict' \in [test : Tests \cup {""}, status : {"unwritten", "pass", "fail", "half"}]
        /\ promise' \in [status : Statuses \cup {"pending"}, stall : BOOLEAN]
        /\ written' = verdict'
    BY <1>4 DEF Spawn, Verdict, Unwritten, Result, Pending
  <2> QED BY <1>1, <1>4, <2>2, <2>3 DEF Spawn, TypeOK, setup
<1>5. CASE Take
  <2>1. index \in 1 .. Len(narrowed) /\ narrowed[index] \in Tests /\ index + 1 \in 0 .. Len(Manifest) + 1
    BY <1>1, <1>5, AtTest DEF Take
  <2>2. promise.status \in Statuses /\ promise.stall \in BOOLEAN
    BY <1>1, <1>5 DEF Take, TypeOK, OneChild
  <2>3. results' \in Seq([name : Tests, status : Statuses, stall : BOOLEAN])
    BY <1>1, <1>5, <2>1, <2>2, Recorded DEF Take
  <2>4. main' \in {"report", "loop"}
    BY <1>5 DEF Take
  <2>5. promise' \in [status : Statuses \cup {"pending"}, stall : BOOLEAN]
    BY <1>5 DEF Take, Result, Pending
  <2> QED BY <1>1, <1>5, <2>1, <2>3, <2>4, <2>5 DEF Take, TypeOK, setup
<1>6. CASE Report
  BY <1>1, <1>6 DEF Report, TypeOK, setup
<1>7. CASE Boot
  BY <1>1, <1>7, Shapes DEF Boot, TypeOK, ChildKeeps, setup, parent, Running
<1>8. CASE ReportStall
  BY <1>1, <1>8 DEF ReportStall, TypeOK, ChildKeeps, setup, parent
<1>9. CASE Compare
  <2>1. child' \in [at : Running \cup {"none", "zombie"}, test : Tests \cup {""}]
    BY <1>1, <1>9, Shapes DEF Compare, Running
  <2>2. verdict' \in [test : Tests \cup {""}, status : {"unwritten", "pass", "fail", "half"}]
    <3>1. child.test \in Tests \cup {""}
      BY <1>1, Shapes
    <3>2. CASE UNCHANGED verdict
      BY <1>1, <3>2 DEF TypeOK
    <3>3. CASE \E status \in {"pass", "fail"} : verdict' = Verdict(child.test, status)
      <4>1. PICK status \in {"pass", "fail"} : verdict' = Verdict(child.test, status)
        BY <3>3
      <4>2. Verdict(child.test, status) \in [test : Tests \cup {""}, status : {"unwritten", "pass", "fail", "half"}]
        BY <3>1 DEF Verdict
      <4> QED BY <4>1, <4>2
    <3> QED BY <1>9, <3>2, <3>3 DEF Compare
  <2> QED BY <1>1, <1>9, <2>1, <2>2 DEF Compare, TypeOK, ChildKeeps, setup, parent
<1>10. CASE StartWriting
  <2>1. child' \in [at : Running \cup {"none", "zombie"}, test : Tests \cup {""}]
    BY <1>1, <1>10, Shapes DEF StartWriting, Running
  <2>2. written' \in [test : Tests \cup {""}, status : {"unwritten", "pass", "fail", "half"}]
    BY <1>1, <1>10, Shapes DEF StartWriting
  <2> QED BY <1>1, <1>10, <2>1, <2>2 DEF StartWriting, TypeOK, ChildKeeps, setup, parent
<1>11. CASE WriteResult
  <2>1. child' \in [at : Running \cup {"none", "zombie"}, test : Tests \cup {""}]
    BY <1>1, <1>11, Shapes DEF WriteResult, Running
  <2> QED BY <1>1, <1>11, <2>1 DEF WriteResult, TypeOK, ChildKeeps, setup, parent
<1>12. CASE Exit
  <2>1. child' \in [at : Running \cup {"none", "zombie"}, test : Tests \cup {""}]
    BY <1>1, <1>12, Shapes DEF Exit, Running
  <2> QED BY <1>1, <1>12, <2>1 DEF Exit, TypeOK, ChildKeeps, setup, parent
<1>13. CASE Fire
  BY <1>1, <1>13 DEF Fire, AwaitExit, TypeOK, setup, parent
<1>14. CASE Kill
  BY <1>1, <1>14, Shapes DEF Kill, TypeOK, setup, parent
<1>15. CASE SpawnError
  <2>1. promise' \in [status : Statuses \cup {"pending"}, stall : BOOLEAN]
    BY <1>1, <1>15, Shapes DEF SpawnError, Statuses
  <2> QED BY <1>1, <1>15, <2>1 DEF SpawnError, TypeOK, setup, parent
<1>16. CASE OnExit
  <2>1. child' \in [at : Running \cup {"none", "zombie"}, test : Tests \cup {""}]
    BY <1>1, <1>16, Shapes DEF OnExit
  <2>2. promise' \in [status : Statuses \cup {"pending"}, stall : BOOLEAN]
    BY <1>1, <1>16, ReadIsResult DEF OnExit, ReadResult, Result, Statuses
  <2> QED BY <1>1, <1>16, <2>1, <2>2 DEF OnExit, RemoveFiles, TypeOK, setup, parent
<1>17. CASE UNCHANGED vars
  BY <1>1, <1>17 DEF vars, TypeOK, setup, parent
<1> QED
  BY <1>2, <1>3, <1>4, <1>5, <1>6, <1>7, <1>8, <1>9, <1>10, <1>11, <1>12, <1>13, <1>14, <1>15,
     <1>16, <1>17 DEF Next, Parent, Child, Events

\* A result of the test the parent is at keeps the books in order.
LEMMA RecordKeepsBooks ==
  ASSUME TypeOK, Books, main \in {"loop", "child"}, UNCHANGED <<narrowed, files>>,
         NEW r, r.status \in Statuses, r.stall \in BOOLEAN,
         results' = Record(narrowed[index], r), index' = index + 1,
         main' = IF index' > Len(narrowed) THEN "report" ELSE "loop"
  PROVE  Books'
<1>1. /\ Len(results) = index - 1 /\ index \in 1 .. Len(narrowed) /\ narrowed[index] \in Tests
      /\ ChildManifest = narrowed /\ index \in Nat
  BY AtTest
<1>2. /\ Len(results') = index /\ DOMAIN results = 1 .. index - 1 /\ DOMAIN results' = 1 .. index
      /\ \A i \in 1 .. index - 1 : results'[i] = results[i]
      /\ results'[index].name = narrowed[index]
  <2>1. /\ Len(results) \in Nat /\ Len(results') = Len(results) + 1
        /\ DOMAIN results = 1 .. Len(results) /\ DOMAIN results' = 1 .. Len(results')
        /\ \A i \in 1 .. Len(results) : results'[i] = results[i]
        /\ results'[Len(results) + 1] = [name |-> narrowed[index], status |-> r.status, stall |-> r.stall]
    BY <1>1, Recorded
  <2> QED BY <1>1, <2>1
<1>3. \A i \in DOMAIN results' : results'[i].name = narrowed'[i]
  BY <1>1, <1>2 DEF Books
<1>4. Len(narrowed) \in Nat
  <2>1. narrowed \in Seq(Tests)
    BY DEF TypeOK
  <2> QED BY <2>1
<1>5. ChildManifest' = narrowed'
  BY <1>1 DEF ChildManifest
<1> QED BY <1>1, <1>2, <1>3, <1>4, <1>5 DEF Books

LEMMA BooksStep == ASSUME IInv, [Next]_vars PROVE Books'
<1>1. TypeOK /\ Books /\ OneChild /\ Told
  BY DEF IInv
<1>2. CASE Begin
  <2>1. narrowed' \in Seq(Tests) /\ Len(narrowed') <= Len(Manifest)
    BY <1>2, ManifestTyped, KeptIsShorter DEF Begin
  <2>2. results' = << >> /\ index' = 1 /\ main' \in {"report", "loop"}
        /\ (main' = "report" <=> narrowed' = << >>)
    BY <1>1, <1>2 DEF Begin, Books
  <2>3. ChildManifest' = narrowed'
    BY <1>2 DEF Begin, ChildManifest
  <2>4. narrowed' # << >> => 1 \in 1 .. Len(narrowed')
    BY <2>1
  <2>5. Len(<< >>) = 0 /\ Len(narrowed') >= 0 /\ DOMAIN << >> = {}
    BY <2>1
  <2> QED BY <2>1, <2>2, <2>3, <2>4, <2>5 DEF Books
<1>3. CASE Skip
  <2>1. Result("skip", FALSE).status \in Statuses /\ Result("skip", FALSE).stall \in BOOLEAN
    BY DEF Result, Statuses
  <2> QED BY <1>1, <1>3, <2>1, RecordKeepsBooks DEF Skip
<1>4. CASE Spawn
  BY <1>1, <1>4 DEF Spawn, Books, ChildManifest, setup
<1>5. CASE Take
  <2>1. promise.status \in Statuses /\ promise.stall \in BOOLEAN
    BY <1>1, <1>5 DEF Take, TypeOK, OneChild
  <2> QED BY <1>1, <1>5, <2>1, RecordKeepsBooks DEF Take
<1>6. CASE Report
  <2>1. files' = {}
    BY <1>1, <1>6 DEF Report, TypeOK, OneChild
  <2> QED BY <1>1, <1>6, <2>1 DEF Report, Books, ChildManifest
<1>7. CASE Child
  <2>1. child.at # "none" /\ UNCHANGED parent /\ ("narrowed" \in files' <=> "narrowed" \in files)
    BY <1>7 DEF Child, Boot, ReportStall, Compare, StartWriting, WriteResult, Exit, ChildKeeps
  <2> QED BY <1>1, <2>1 DEF Books, OneChild, ChildManifest, parent
<1>8. CASE Fire \/ Kill \/ SpawnError
  <2>1. UNCHANGED <<parent, files>>
    BY <1>8 DEF Fire, AwaitExit, Kill, SpawnError
  <2> QED BY <1>1, <2>1 DEF Books, ChildManifest, parent
<1>9. CASE OnExit
  <2>1. main = "child" /\ UNCHANGED parent /\ ("narrowed" \in files' <=> "narrowed" \in files)
    BY <1>9 DEF OnExit, RemoveFiles
  <2> QED BY <1>1, <2>1 DEF Books, ChildManifest, parent
<1>10. CASE UNCHANGED vars
  BY <1>1, <1>10 DEF vars, Books, ChildManifest, parent
<1> QED
  BY <1>2, <1>3, <1>4, <1>5, <1>6, <1>7, <1>8, <1>9, <1>10 DEF Next, Parent, Events

LEMMA OneChildStep == ASSUME IInv, [Next]_vars PROVE OneChild'
<1>1. TypeOK /\ Books /\ OneChild /\ Told
  BY DEF IInv
<1>2. CASE Begin
  <2>1. child.at = "none" /\ promise = Pending
    BY <1>1, <1>2 DEF Begin, OneChild
  <2>2. files' \cap {"result", "stall"} = {} /\ main' # "child" /\ UNCHANGED <<child, promise>>
    BY <1>2 DEF Begin
  <2> QED BY <2>1, <2>2 DEF OneChild, Pending
<1>3. CASE Skip \/ Report
  <2>1. /\ main \notin {"child"} /\ main' # "child" /\ UNCHANGED <<child, promise>>
        /\ files' \subseteq files
    BY <1>3 DEF Skip, Report
  <2> QED BY <1>1, <2>1 DEF OneChild, Pending
<1>4. CASE Spawn
  <2>1. child.at = "none" /\ narrowed[index] = ChildManifest[index]
    BY <1>1, <1>4, AtTest DEF Spawn, OneChild
  <2>2. /\ main' = "child" /\ promise' = Pending /\ stalled' = FALSE
        /\ UNCHANGED <<files, narrowed, index>>
    BY <1>4 DEF Spawn
  <2>3. child'.at = "none" \/ child'.test = ChildManifest[index]
    <3>1. child' = [at |-> "boot", test |-> ChildManifest[index]] \/ child' = NoChild
      BY <1>4 DEF Spawn
    <3>2. NoChild.at = "none"
      BY DEF NoChild
    <3>3. [at |-> "boot", test |-> ChildManifest[index]].test = ChildManifest[index]
      OBVIOUS
    <3> QED BY <3>1, <3>2, <3>3
  <2> QED BY <1>1, <2>1, <2>2, <2>3 DEF OneChild, Pending
<1>5. CASE Take
  <2>1. main' # "child" /\ promise' = Pending /\ UNCHANGED <<child, files>> /\ child.at = "none"
    BY <1>1, <1>5 DEF Take, OneChild
  <2> QED BY <1>1, <2>1 DEF OneChild, Pending
<1>6. CASE Child
  <2>1. /\ child.at # "none" /\ UNCHANGED <<main, narrowed, index, promise>>
        /\ child'.at # "none" /\ child'.test = child.test
    <3>1. child.at # "none" /\ UNCHANGED <<main, narrowed, index, promise>>
      BY <1>6 DEF Child, Boot, ReportStall, Compare, StartWriting, WriteResult, Exit, ChildKeeps, parent
    <3>2. child' = child \/ \E at \in (Running \cup {"zombie"}) : child' = [child EXCEPT !.at = at]
      BY <1>6 DEF Child, Boot, ReportStall, Compare, StartWriting, WriteResult, Exit, Running
    <3>3. CASE child' = child
      BY <3>1, <3>3
    <3>4. CASE \E at \in (Running \cup {"zombie"}) : child' = [child EXCEPT !.at = at]
      <4>1. PICK at \in (Running \cup {"zombie"}) : child' = [child EXCEPT !.at = at]
        BY <3>4
      <4>2. at # "none"
        BY DEF Running
      <4> QED BY <1>1, <3>1, <4>1, <4>2, Shapes
    <3> QED BY <3>2, <3>3, <3>4
  <2>2. stalled' <=> "stall" \in files'
    BY <1>1, <1>6, <2>1 DEF Child, Boot, ReportStall, Compare, StartWriting, WriteResult, Exit, OneChild
  <2>3. "result" \in files' => written'.status # "unwritten"
    <3>1. CASE StartWriting
      BY <3>1 DEF StartWriting, Verdict
    <3>2. CASE WriteResult
      BY <1>1, <3>2 DEF WriteResult, Told
    <3>3. CASE Boot \/ ReportStall \/ Compare \/ Exit
      BY <1>1, <2>1, <3>3 DEF Boot, ReportStall, Compare, Exit, OneChild
    <3> QED BY <1>6, <3>1, <3>2, <3>3 DEF Child
  <2> QED BY <1>1, <2>1, <2>2, <2>3 DEF OneChild, Pending
<1>7. CASE Fire
  BY <1>1, <1>7 DEF Fire, AwaitExit, parent, OneChild, Pending
<1>8. CASE Kill
  <2>1. /\ child.at # "none" /\ UNCHANGED <<main, narrowed, index, promise, files, stalled, written>>
        /\ child' = [child EXCEPT !.at = "zombie"]
    BY <1>8 DEF Kill, Running, parent
  <2>2. child'.at = "zombie" /\ child'.test = child.test
    BY <1>1, <2>1, Shapes
  <2> QED BY <1>1, <2>1, <2>2 DEF OneChild, Pending
<1>9. CASE SpawnError
  <2>1. /\ main = "child" /\ child.at = "none" /\ UNCHANGED <<main, child, files>>
        /\ promise'.status = "fail" /\ promise' # Pending
    BY <1>9 DEF SpawnError, Result, Pending, parent
  <2> QED BY <1>1, <2>1 DEF OneChild, Pending
<1>10. CASE OnExit
  <2>1. /\ main = "child" /\ child'.at = "none" /\ UNCHANGED main
        /\ files' \cap {"result", "stall"} = {}
    BY <1>10 DEF OnExit, NoChild, RemoveFiles, parent
  <2>2. promise' # Pending /\ promise'.status # "pending"
    BY <1>1, <1>10, ReadIsResult DEF OnExit
  <2> QED BY <2>1, <2>2 DEF OneChild, Pending
<1>11. CASE UNCHANGED vars
  BY <1>1, <1>11 DEF vars, parent, OneChild, Pending
<1> QED
  BY <1>2, <1>3, <1>4, <1>5, <1>6, <1>7, <1>8, <1>9, <1>10, <1>11 DEF Next, Parent, Events

LEMMA ToldStep == ASSUME IInv, [Next]_vars PROVE Told'
<1>1. TypeOK /\ Books /\ OneChild /\ Told
  BY DEF IInv
<1>2. Pending.status = "pending" /\ Unwritten.status = "unwritten"
  BY DEF Pending, Result, Unwritten, Verdict
<1>3. CASE Begin \/ Skip \/ Report
  <2>1. main # "child" /\ UNCHANGED <<child, verdict, stalled, written, promise>>
    BY <1>3 DEF Begin, Skip, Report
  <2> QED BY <1>1, <1>2, <2>1 DEF Told, OneChild
<1>4. CASE Spawn
  <2>1. written' = Unwritten /\ promise' = Pending
    BY <1>4 DEF Spawn
  <2>2. child'.at \in {"boot", "none"}
    <3>1. child' = [at |-> "boot", test |-> ChildManifest[index]] \/ child' = NoChild
      BY <1>4 DEF Spawn
    <3>2. NoChild.at = "none"
      BY DEF NoChild
    <3>3. [at |-> "boot", test |-> ChildManifest[index]].at = "boot"
      OBVIOUS
    <3> QED BY <3>1, <3>2, <3>3
  <2> QED BY <1>2, <2>1, <2>2 DEF Told
<1>5. CASE Take
  <2>1. child.at = "none" /\ UNCHANGED child /\ promise' = Pending
    BY <1>1, <1>5 DEF Take, OneChild
  <2> QED BY <1>2, <2>1 DEF Told
<1>6. CASE Child
  <2>1. child.at # "none" /\ promise = Pending /\ UNCHANGED promise
    BY <1>1, <1>6 DEF Child, Boot, ReportStall, Compare, StartWriting, WriteResult, Exit, ChildKeeps, OneChild
  <2>2. CASE Boot
    <3>1. PICK at \in {"exec", "hang", "zombie"} : child' = [child EXCEPT !.at = at]
      BY <2>2 DEF Boot
    <3>2. child'.at = at /\ written = Unwritten /\ UNCHANGED <<written, verdict>>
      BY <1>1, <2>2, <3>1, Shapes DEF Boot, Told
    <3> QED BY <1>2, <2>1, <3>2 DEF Told
  <2>3. CASE ReportStall
    BY <1>1, <1>2, <2>1, <2>3 DEF ReportStall, Told
  <2>4. CASE Compare
    <3>1. written = Unwritten /\ UNCHANGED written
      BY <1>1, <2>4 DEF Compare, Told
    <3>2. CASE \E status \in {"pass", "fail"} : verdict' = Verdict(child.test, status)
      <4>1. child'.at \in Running \cup {"zombie"} /\ child'.test = child.test
        <5>1. PICK at : child' = [child EXCEPT !.at = at] /\ at \in {"done", "hang", "zombie"}
          BY <2>4 DEF Compare
        <5> QED BY <1>1, <5>1, Shapes DEF Running
      <4>2. PICK status \in {"pass", "fail"} : verdict' = Verdict(child.test, status)
        BY <3>2
      <4>3. verdict'.test = child.test /\ verdict'.status = status
        BY <4>2 DEF Verdict
      <4> QED BY <1>2, <2>1, <3>1, <4>1, <4>2, <4>3 DEF Told
    <3>3. CASE \E at \in {"hang", "zombie"} : child' = [child EXCEPT !.at = at]
      <4>1. PICK at \in {"hang", "zombie"} : child' = [child EXCEPT !.at = at]
        BY <3>3
      <4>2. child'.at = at
        BY <1>1, <4>1, Shapes
      <4> QED BY <1>2, <2>1, <3>1, <4>2 DEF Told
    <3> QED BY <2>4, <3>2, <3>3 DEF Compare
  <2>5. CASE StartWriting
    <3>1. child'.at = "writing" /\ child'.test = child.test /\ verdict' = verdict
      BY <1>1, <2>5, Shapes DEF StartWriting
    <3>2. written'.status = "half"
      BY <2>5 DEF StartWriting, Verdict
    <3>3. verdict.test = child.test /\ verdict.status \in {"pass", "fail"}
      BY <1>1, <2>5 DEF StartWriting, Told
    <3> QED BY <1>2, <2>1, <3>1, <3>2, <3>3 DEF Told
  <2>6. CASE WriteResult
    <3>1. child'.at = "exiting" /\ child'.test = child.test
      BY <1>1, <2>6, Shapes DEF WriteResult
    <3>2. verdict.test = child.test /\ written' = verdict /\ verdict' = verdict
      BY <1>1, <2>6 DEF WriteResult, Told
    <3>3. verdict = [test |-> verdict.test, status |-> verdict.status]
      BY <1>1 DEF TypeOK
    <3> QED BY <1>2, <2>1, <3>1, <3>2, <3>3 DEF Told, Verdict
  <2>7. CASE Exit
    <3>1. PICK at \in {"zombie", "hang"} : child' = [child EXCEPT !.at = at]
      BY <2>7 DEF Exit
    <3>2. child'.at = at /\ child'.test = child.test
      BY <1>1, <3>1, Shapes
    <3>3. child.at # "none" /\ UNCHANGED <<written, verdict>>
      BY <2>7 DEF Exit
    <3> QED BY <1>1, <1>2, <2>1, <3>1, <3>2, <3>3 DEF Told
  <2> QED BY <1>6, <2>2, <2>3, <2>4, <2>5, <2>6, <2>7 DEF Child
<1>7. CASE Fire
  BY <1>1, <1>7 DEF Fire, AwaitExit, parent, Told
<1>8. CASE Kill
  <2>1. /\ child.at # "none" /\ UNCHANGED <<narrowed, index, promise, stalled, written, verdict>>
        /\ child' = [child EXCEPT !.at = "zombie"]
    BY <1>8 DEF Kill, Running, parent
  <2>2. child'.at = "zombie" /\ child'.test = child.test
    BY <1>1, <2>1, Shapes
  <2> QED BY <1>1, <2>1, <2>2 DEF Told
<1>9. CASE SpawnError
  <2>1. ~stalled /\ child.at = "none" /\ UNCHANGED <<child, stalled>> /\ promise'.status = "fail"
    BY <1>1, <1>9 DEF SpawnError, OneChild, Result
  <2> QED BY <2>1 DEF Told
<1>10. CASE OnExit
  <2>1. /\ child.at = "zombie" /\ child'.at = "none" /\ promise' = ReadResult
        /\ UNCHANGED <<narrowed, index, verdict, stalled>>
    BY <1>10 DEF OnExit, NoChild, parent
  <2>2. /\ ReadResult.status = "pass" => written.status = "pass"
        /\ ReadResult.status = "fail" /\ stalled => ReadResult.stall
    BY <1>1, <2>1, ReadIsResult
  <2>3. written.status = "pass" => verdict = Verdict(narrowed[index], "pass")
    BY <1>1, <2>1 DEF Told, OneChild
  <2> QED BY <2>1, <2>2, <2>3 DEF Told
<1>11. CASE UNCHANGED vars
  BY <1>1, <1>11 DEF vars, parent, Told
<1> QED
  BY <1>3, <1>4, <1>5, <1>6, <1>7, <1>8, <1>9, <1>10, <1>11 DEF Next, Parent, Events

LEMMA Inductive == Spec => []IInv
<1>1. Init => IInv
  BY InitInv
<1>2. IInv /\ [Next]_vars => IInv'
  BY TypeStep, BooksStep, OneChildStep, ToldStep DEF IInv
<1> QED BY <1>1, <1>2, PTL DEF Spec

-----------------------------------------------------------------------------

\* The report has every test of the narrowed manifest, in order, and no file of
\* the run is left behind.
THEOREM BooksAreStraight == Spec => []Accounted
<1>1. IInv => Accounted
  <2> SUFFICES ASSUME IInv PROVE Accounted
    OBVIOUS
  <2>1. TypeOK /\ EachTestOnce
    BY DEF IInv, Books, EachTestOnce
  <2>2. TempFilesRemoved
    BY DEF IInv, Books, OneChild, TempFilesRemoved
  <2> QED BY <2>1, <2>2 DEF Accounted
<1> QED BY <1>1, Inductive, PTL

\* What a step adds to the report is true of the child that ran.
LEMMA NewResults ==
  ASSUME IInv, [Next]_vars, NEW i \in DOMAIN results' \ DOMAIN results
  PROVE  /\ results'[i].status = "pass" => verdict = Verdict(results'[i].name, "pass")
         /\ results'[i].status = "fail" /\ stalled => results'[i].stall
<1>1. TypeOK /\ Books /\ OneChild /\ Told
  BY DEF IInv
<1>2. CASE Skip
  <2>1. narrowed[index] \in Tests
    BY <1>1, <1>2, AtTest DEF Skip
  <2>2. /\ Result("skip", FALSE).status = "skip" /\ Result("skip", FALSE).stall \in BOOLEAN
        /\ "skip" \in Statuses
    BY DEF Result, Statuses
  <2>3. results'[i].status = "skip"
    <3> DEFINE r == Result("skip", FALSE)
    <3>2. r.status \in Statuses /\ r.stall \in BOOLEAN /\ r.status = "skip" /\ results' = Record(narrowed[index], r)
      BY <1>2, <2>2 DEF Skip
    <3> HIDE DEF r
    <3>1. /\ Len(results) \in Nat /\ Len(results') = Len(results) + 1
          /\ DOMAIN results = 1 .. Len(results) /\ DOMAIN results' = 1 .. Len(results')
          /\ results'[Len(results) + 1] = [name |-> narrowed[index], status |-> r.status, stall |-> r.stall]
      BY <1>1, <2>1, <3>2, Recorded
    <3>3. results'[Len(results) + 1].status = "skip"
      BY <3>1, <3>2
    <3> QED BY <3>1, <3>3
  <2> QED BY <2>3
<1>3. CASE Take
  <2>1. narrowed[index] \in Tests /\ promise.status \in Statuses /\ promise.stall \in BOOLEAN
    BY <1>1, <1>3, AtTest DEF Take, TypeOK, OneChild
  <2>2. results'[i] = [name |-> narrowed[index], status |-> promise.status, stall |-> promise.stall]
    <3>1. /\ Len(results) \in Nat /\ Len(results') = Len(results) + 1
          /\ DOMAIN results = 1 .. Len(results) /\ DOMAIN results' = 1 .. Len(results')
          /\ results'[Len(results) + 1]
               = [name |-> narrowed[index], status |-> promise.status, stall |-> promise.stall]
      BY <1>1, <1>3, <2>1, Recorded DEF Take
    <3> QED BY <3>1
  <2> QED BY <1>1, <2>2 DEF Told
<1>4. CASE Begin \/ Spawn \/ Report \/ Child \/ Events \/ UNCHANGED vars
  <2>1. UNCHANGED results
    BY <1>4 DEF Begin, Spawn, Report, Child, Boot, ReportStall, Compare, StartWriting, WriteResult, Exit,
                ChildKeeps, Events, Fire, Kill, SpawnError, OnExit, parent, vars
  <2> QED BY <2>1
<1> QED BY <1>2, <1>3, <1>4 DEF Next, Parent

\* A test passes only by what its own child wrote, and a failure keeps the stall
\* that was reported of it.
THEOREM ReportTellsTheTruth == Spec => ReportIsTrue
<1>1. IInv /\ [Next]_vars =>
        /\ [\A r \in {results'[i] : i \in DOMAIN results' \ DOMAIN results} :
              r.status = "pass" => verdict = Verdict(r.name, "pass")]_vars
        /\ [\A r \in {results'[i] : i \in DOMAIN results' \ DOMAIN results} :
              r.status = "fail" /\ stalled => r.stall]_vars
  BY NewResults
<1> QED BY <1>1, Inductive, PTL DEF Spec, ReportIsTrue, PassIsEarned, StallsSurvive

\* The next test starts when nothing of the last one runs any more: the runner
\* implements Watchdog.
THEOREM RunnerKeepsWatch == Spec => KeepsWatch
<1> DEFINE job   == IF main = "child" /\ promise = Pending THEN "started" ELSE "idle"
           alive == IF child.at \in Running THEN {"child"} ELSE {}
<1>1. Init => Guard!Init
  <2> SUFFICES ASSUME Init PROVE job = "idle" /\ alive = {}
    BY DEF Guard!Init
  <2>1. child.at = "none" /\ "none" \notin Running /\ main = "start"
    BY DEF Init, NoChild, Running
  <2> QED BY <2>1
<1>2. IInv /\ [Next]_vars => [Guard!Next]_<<job, alive>>
  <2> SUFFICES ASSUME IInv, [Next]_vars PROVE Guard!Next \/ UNCHANGED <<job, alive>>
    OBVIOUS
  <2>1. TypeOK /\ Books /\ OneChild /\ Told
    BY DEF IInv
  <2>2. "none" \notin Running /\ "zombie" \notin Running
    BY DEF Running
  <2>3. CASE Begin \/ Skip \/ Report
    BY <2>3 DEF Begin, Skip, Report
  <2>4. CASE Spawn
    <3>1. main = "loop" /\ child.at = "none" /\ main' = "child" /\ promise' = Pending
      BY <2>1, <2>4 DEF Spawn, OneChild
    <3> QED BY <2>2, <3>1 DEF Guard!Next, Guard!Start
  <2>5. CASE Take
    BY <2>1, <2>5 DEF Take, OneChild
  <2>6. CASE Child
    <3>1. /\ main = "child" /\ promise = Pending /\ UNCHANGED <<main, promise>>
      BY <2>1, <2>2, <2>6 DEF Child, Boot, ReportStall, Compare, StartWriting, WriteResult, Exit, ChildKeeps,
                        parent, OneChild
    <3>2. child.at \in Running
      BY <2>6 DEF Child, Boot, ReportStall, Compare, StartWriting, WriteResult, Exit, Running
    <3> QED BY <3>1, <3>2 DEF Guard!Next, Guard!Die
  <2>7. CASE Fire
    BY <2>7 DEF Fire, AwaitExit, parent
  <2>8. CASE Kill
    <3>1. UNCHANGED <<main, promise>> /\ child.at \in Running
      BY <2>8 DEF Kill, parent
    <3> QED BY <3>1 DEF Guard!Next, Guard!Die
  <2>9. CASE SpawnError
    <3>1. /\ main = "child" /\ child.at = "none" /\ promise = Pending
          /\ UNCHANGED <<main, child>> /\ promise' # Pending
      BY <2>9 DEF SpawnError, Result, Pending, parent
    <3> QED BY <2>2, <3>1 DEF Guard!Next, Guard!Finish
  <2>10. CASE OnExit
    <3>1. /\ main = "child" /\ child.at = "zombie" /\ promise = Pending
          /\ child'.at = "none" /\ UNCHANGED main
      BY <2>10 DEF OnExit, NoChild, parent
    <3>2. promise' # Pending
      BY <2>1, <2>10, ReadIsResult DEF OnExit
    <3> QED BY <2>2, <3>1, <3>2 DEF Guard!Next, Guard!Finish
  <2>11. CASE UNCHANGED vars
    BY <2>11 DEF vars, parent
  <2> QED
    BY <2>3, <2>4, <2>5, <2>6, <2>7, <2>8, <2>9, <2>10, <2>11 DEF Next, Parent, Events
<1> QED BY <1>1, <1>2, Inductive, PTL DEF Spec, KeepsWatch, Guard!Spec
=============================================================================
