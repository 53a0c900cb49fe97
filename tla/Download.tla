------------------------------ MODULE Download -------------------------------
(***************************************************************************)
(* The utilities of packages/util/src/index.ts that read bytes: one call of *)
(* fetchFile(), toBlobURL() or downloadWithProgress(). A response's body is *)
(* a stream the network fills chunk by chunk; clone() gives it a second     *)
(* reader, the fallback, which sees the same bytes. An action is the        *)
(* arrival of something or a step of the call from one `await' to the next. *)
(***************************************************************************)
EXTENDS Integers, Sequences, SequencesExt

CONSTANTS
  OnNode,   \* isNode()
  MaxBytes  \* bound: bytes of a body

ASSUME DownloadAssumption == OnNode \in BOOLEAN /\ MaxBytes \in Nat \ {0}

Unknown == -1
NoLength == -2  \* parseInt() of a Content-Length that is no number

\* What fetchFile() may be given; the other calls are given a remote URL.
\* toBlobURL() with progress is a download.
Inputs == {"remote", "path", "fileString", "fileURL", "blob", "nothing"}
Calls  == {"fetchFile", "toBlobURL", "download"}

VARIABLES
  call,       \* the function called, and the input
  phase,      \* what it awaits, or how it has settled
  coded,      \* the body is compressed: Content-Encoding
  length,     \* Content-Length
  reader,     \* the browser lets the body be read as a stream
  wire,       \* the body's stream is "open", "ended" or "broken"
  sent,       \* the chunks it has brought, each a sequence of bytes
  chunks,     \* those the progress loop has read
  events,     \* the progress events reported
  threw,      \* a progress callback has thrown
  result      \* the bytes returned

response == <<coded, length, reader>>
vars     == <<call, phase, response, wire, sent, chunks, events, threw, result>>

Bytes(cs) == FlattenSeq(cs)
Size(cs)  == Len(Bytes(cs))

Init ==
  /\ call = [name |-> "none", input |-> "nothing"] /\ phase = "idle"
  /\ coded = FALSE /\ length = Unknown /\ reader = FALSE /\ wire = "open" /\ sent = << >>
  /\ chunks = << >> /\ events = << >> /\ threw = FALSE /\ result = << >>

Event == [total : Int, received : Nat, delta : Nat, done : BOOLEAN]
Settled == {"resolved", "rejected"}

TypeOK ==
  /\ call \in [name : Calls \cup {"none"}, input : Inputs]
  /\ phase \in {"idle", "disk", "fetch", "buffer", "loop", "fallback"} \cup Settled
  /\ {coded, reader} \subseteq BOOLEAN /\ length \in {Unknown, NoLength} \cup 0 .. MaxBytes
  /\ wire \in {"open", "ended", "broken"}
  /\ Size(sent) <= MaxBytes /\ Size(chunks) <= Size(sent)
  /\ events \in Seq(Event) /\ threw \in BOOLEAN
  /\ result \in Seq(1 .. MaxBytes)

-----------------------------------------------------------------------------
(* Where the bytes come from.                                               *)

\* fetchFile(): Node.js reads paths and file: URLs from disk.
Route(input) ==
  CASE input = "blob" -> "buffer"
    [] input \in {"path", "fileString", "fileURL"} /\ OnNode -> "disk"
    [] OTHER -> "fetch"

\* toBlobURL() rejects where there are no blob URLs.
Start(name, input) ==
  /\ phase = "idle"
  /\ name = "fetchFile" \/ input = "remote"
  /\ call' = [name |-> name, input |-> input]
  /\ \/ phase' = IF input = "nothing" THEN "resolved" ELSE Route(input)
     \/ name = "toBlobURL" /\ phase' = "rejected"
  /\ UNCHANGED <<response, wire, sent, chunks, events, threw, result>>

\* node:fs reads the file, or cannot be loaded or fails.
ReadDisk ==
  /\ phase = "disk"
  /\ phase' \in Settled
  /\ result' = IF phase' = "resolved" THEN <<1>> ELSE << >>
  /\ UNCHANGED <<call, response, wire, sent, chunks, events, threw>>

\* The response's headers arrive; its status is not looked at. Without a reader
\* the fallback is read at once.
Respond(n, encoded, body) ==
  /\ phase = "fetch"
  /\ length' = n /\ coded' = encoded /\ reader' = body
  /\ phase' = IF call.name # "download" THEN "buffer"
              ELSE IF body THEN "loop" ELSE "fallback"
  /\ UNCHANGED <<call, wire, sent, chunks, events, threw, result>>

FetchFails ==
  /\ phase = "fetch" /\ phase' = "rejected"
  /\ UNCHANGED <<call, response, wire, sent, chunks, events, threw, result>>

\* The network: bytes are numbered, so that their order can be told.
Arrive ==
  /\ phase \in {"buffer", "loop", "fallback"} /\ wire = "open"
  /\ \/ \E n \in 1 .. MaxBytes - Size(sent) :
          /\ sent' = Append(sent, [i \in 1 .. n |-> Size(sent) + i])
          /\ UNCHANGED wire
     \/ wire' \in {"ended", "broken"} /\ UNCHANGED sent
  /\ UNCHANGED <<call, phase, response, chunks, events, threw, result>>

-----------------------------------------------------------------------------
(* downloadWithProgress().                                                  *)

\* Mutant: the length of a compressed body is taken for its size.
TotalAsSent == length

\* The total is unknown without a length, or if the body is compressed.
Total == IF coded THEN Unknown ELSE length

Report(cs, delta, done, total) ==
  Append(events, [total |-> total, received |-> Size(cs), delta |-> delta,
                  done |-> done])

NextChunk == sent[Len(chunks) + 1]

\* reader.read() gives a chunk. The callback may throw, and then the loop is
\* left for the fallback.
ReadChunk ==
  /\ phase = "loop" /\ wire # "broken"
  /\ Len(chunks) < Len(sent)
  /\ chunks' = Append(chunks, NextChunk)
  /\ events' = Report(chunks', Len(NextChunk), FALSE, Total)
  /\ phase' \in {"loop", "fallback"}
  /\ threw' = (phase' = "fallback")
  /\ UNCHANGED <<call, response, wire, sent, result>>

\* Mutant: a chunk is put where the one before it starts.
Overlaid(cs) == IF cs = << >> THEN << >> ELSE Last(cs)

\* The chunks, one after the other.
Assembled(cs) == Bytes(cs)

\* Mutant: the loop waits for as many bytes as were announced.
AtEndOfTotal ==
  phase = "loop" /\ wire = "ended" /\ Len(chunks) = Len(sent) /\ Size(chunks) >= Total

AtEnd == phase = "loop" /\ wire = "ended" /\ Len(chunks) = Len(sent)

\* Mutant: the end is reported before the total is checked.
ReportThenCheck ==
  /\ AtEnd
  /\ events' = Report(chunks, 0, TRUE, Total)
  /\ phase' = IF Total = Unknown \/ Total = Size(chunks) THEN "resolved" ELSE "fallback"
  /\ result' = IF phase' = "resolved" THEN Assembled(chunks) ELSE << >>
  /\ UNCHANGED <<call, response, wire, sent, chunks, threw>>

\* It gives the end. A total that is not met, and a callback that throws, both
\* lead to the fallback.
ReadEnd ==
  /\ AtEnd
  /\ \/ /\ Total \notin {Unknown, Size(chunks)}
        /\ phase' = "fallback"
        /\ UNCHANGED <<events, threw, result>>
     \/ /\ Total \in {Unknown, Size(chunks)}
        /\ events' = Report(chunks, 0, TRUE, Total)
        /\ phase' \in {"resolved", "fallback"}
        /\ threw' = (phase' = "fallback")
        /\ result' = IF phase' = "resolved" THEN Assembled(chunks) ELSE << >>
  /\ UNCHANGED <<call, response, wire, sent, chunks>>

\* The stream has failed, and so has the fallback's.
ReadFails ==
  /\ phase = "loop" /\ wire = "broken"
  /\ phase' = "fallback"
  /\ UNCHANGED <<call, response, wire, sent, chunks, events, threw, result>>

\* arrayBuffer(): of the fallback, which reports the end once more, or of a
\* response or a Blob whose progress nobody follows.
Buffer ==
  /\ phase \in {"buffer", "fallback"} /\ wire # "open"
  /\ phase' \in IF wire = "broken" THEN {"rejected"}
                ELSE IF phase = "buffer" THEN {"resolved"} ELSE Settled
  /\ events' = IF phase = "fallback" /\ wire = "ended"
               THEN Report(sent, 0, TRUE, Size(sent)) ELSE events
  /\ threw' = (threw \/ (phase = "fallback" /\ wire = "ended" /\ phase' = "rejected"))
  /\ result' = IF phase' = "resolved" THEN Bytes(sent) ELSE << >>
  /\ UNCHANGED <<call, response, wire, sent, chunks>>

Next ==
  \/ \E name \in Calls, input \in Inputs : Start(name, input)
  \/ \E n \in {Unknown, NoLength} \cup 0 .. MaxBytes, encoded, body \in BOOLEAN :
       Respond(n, encoded, body)
  \/ ReadDisk \/ FetchFails \/ Arrive
  \/ ReadChunk \/ ReadEnd \/ ReadFails \/ Buffer

Spec == Init /\ [][Next]_vars

\* The server answers and its answer ends, one way or the other.
Answered == \E n \in {Unknown}, encoded, body \in BOOLEAN : Respond(n, encoded, body)
FairSpec ==
  /\ Spec
  /\ WF_vars(Answered \/ FetchFails) /\ SF_vars(Arrive /\ wire' # "open")
  /\ WF_vars(ReadDisk) /\ WF_vars(ReadChunk \/ ReadEnd \/ ReadFails) /\ WF_vars(Buffer)

-----------------------------------------------------------------------------
(* Properties.                                                              *)

\* What is returned is the body, byte for byte, whichever reader it came from.
BodyReturned ==
  phase = "resolved" /\ call.input \in {"remote", "blob"} => result = Bytes(sent)

\* `received' counts every byte once, and never falls, not even when the
\* fallback takes over.
ProgressAddsUp ==
  \A i \in DOMAIN events :
    LET before == IF i = 1 THEN 0 ELSE events[i - 1].received
    IN  /\ events[i].received >= before
        /\ ~events[i].done => events[i].received = before + events[i].delta

\* The end is reported once, last and with all the bytes, unless the callback
\* itself threw.
DoneOnce ==
  ~threw =>
    /\ \A i \in DOMAIN events : events[i].done => i = Len(events) /\ phase \in Settled
    /\ phase = "resolved" /\ call.name = "download" =>
         events # << >> /\ Last(events).done /\ Last(events).received = Len(result)

\* What the callback is told, call by call, adds up to what is returned.
ProgressAgrees == TypeOK /\ ProgressAddsUp /\ DoneOnce

\* The loop is given up only for a reason: no reader, a broken stream, a
\* callback that threw, or a body that is not as long as it was said to be.
FallbackHasCause ==
  phase = "fallback" =>
    \/ threw \/ ~reader \/ wire = "broken"
    \/ ~coded /\ length \notin {Unknown, Size(sent)}

\* Every call settles once the response has ended or failed.
Settles == (phase # "idle") ~> (phase \in Settled)

\* index.ts:172, reached by a loop that reads to the end: a body that is not as
\* long as announced is a failed download.
CompleteOrRejected ==
  phase = "resolved" /\ call.name = "download" /\ reader /\ ~threw /\ ~coded /\ length >= 0 =>
    Len(result) = length
=============================================================================
