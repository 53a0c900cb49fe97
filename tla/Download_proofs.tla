-------------------------- MODULE Download_proofs ---------------------------
(***************************************************************************)
(* What a download returns and reports, for bodies of any length in chunks  *)
(* of any size. FlattenSeq is a recursive function: the first lemmas say    *)
(* what it does one chunk at a time.                                        *)
(***************************************************************************)
EXTENDS Download, WellFoundedInduction, TLAPS

-----------------------------------------------------------------------------
(* The invariant.                                                           *)

Chunk == Seq(1 .. MaxBytes)

\* The reader has got the first chunks of the stream.
Prefixed(cs, ds) == Len(cs) <= Len(ds) /\ \A i \in DOMAIN cs : cs[i] = ds[i]
Streams == {sent, chunks} \subseteq Seq(Chunk) /\ Prefixed(chunks, sent)

LastReceived == IF events = << >> THEN 0 ELSE events[Len(events)].received
NotDone == \A i \in DOMAIN events : ~events[i].done

\* How far the call has come.
Stage ==
  /\ phase \in {"idle", "disk", "fetch", "buffer"} => events = << >> /\ chunks = << >> /\ ~threw
  /\ phase = "disk" => call.name = "fetchFile" /\ call.input \notin {"remote", "blob"}
  /\ phase = "buffer" => call.name # "download"
  /\ phase = "loop" => ~threw /\ NotDone /\ LastReceived = Size(chunks)
  /\ phase = "fallback" => (threw \/ NotDone) /\ LastReceived <= Size(sent)

\* Once the stream has ended its size does not change.
Caused ==
  phase = "fallback" =>
    \/ threw \/ ~reader \/ wire = "broken"
    \/ wire = "ended" /\ ~coded /\ length \notin {Unknown, Size(sent)}

IInv ==
  /\ TypeOK /\ Streams /\ Stage /\ Caused
  /\ BodyReturned /\ ProgressAddsUp /\ DoneOnce

-----------------------------------------------------------------------------
(* The bytes of a sequence of chunks.                                       *)

LEMMA LeastOf ==
  ASSUME NEW D \in SUBSET Nat, D # {}
  PROVE  \E n \in D : \A k \in D : n <= k
<1>1. PICK n \in D : \A k \in D : <<k, n>> \notin OpToRel(<, Nat)
  BY NatLessThanWellFounded, WFMin, Zenon
<1>2. \A k \in D : ~(k < n)
  BY <1>1 DEF OpToRel
<1> QED BY <1>2

\* f is what FlattenSeq unrolls, over the first n chunks of s.
Unrolls(f, s, n) == f = [i \in 1 .. n |-> IF i = 1 THEN s[i] ELSE f[i - 1] \o s[i]]

LEMMA UnrollsExists ==
  ASSUME NEW s, NEW n \in Nat
  PROVE  \E f : Unrolls(f, s, n)
<1> DEFINE D == {m \in Nat : ~ \E f : Unrolls(f, s, m)}
<1> SUFFICES ASSUME D # {} PROVE FALSE
  OBVIOUS
<1>1. PICK m \in D : \A k \in D : m <= k
  BY LeastOf
<1>2. CASE m = 0
  <2> DEFINE f == [i \in 1 .. 0 |-> s[i]]
  <2>1. Unrolls(f, s, 0)
    BY DEF Unrolls
  <2> QED BY <1>1, <1>2, <2>1
<1>3. CASE m > 0
  <2>1. m \in Nat /\ m - 1 \in Nat /\ m - 1 \notin D
    BY <1>1, <1>3
  <2>2. PICK f : Unrolls(f, s, m - 1)
    BY <2>1
  <2> DEFINE g == [i \in 1 .. m |-> IF i = m THEN (IF m = 1 THEN s[m] ELSE f[m - 1] \o s[m]) ELSE f[i]]
  <2>3. \A i \in 1 .. m : g[i] = IF i = 1 THEN s[i] ELSE g[i - 1] \o s[i]
    <3> TAKE i \in 1 .. m
    <3>1. CASE i = m
      BY <2>1, <3>1
    <3>2. CASE i # m
      <4>1. i \in 1 .. m - 1 /\ g[i] = f[i] /\ (i # 1 => i - 1 \in 1 .. m - 1 /\ g[i - 1] = f[i - 1])
        BY <2>1, <3>2
      <4> HIDE DEF g
      <4>2. f[i] = IF i = 1 THEN s[i] ELSE f[i - 1] \o s[i]
        BY <2>2, <4>1 DEF Unrolls
      <4> QED BY <4>1, <4>2
    <3> QED BY <3>1, <3>2
  <2>4. DOMAIN g = 1 .. m /\ g = [i \in 1 .. m |-> g[i]]
    OBVIOUS
  <2> HIDE DEF g
  <2>5. Unrolls(g, s, m)
    BY <2>3, <2>4 DEF Unrolls
  <2> QED BY <1>1, <2>5
<1> QED BY <1>1, <1>2, <1>3

LEMMA UnrollsStep ==
  ASSUME NEW f, NEW s, NEW n \in Nat, Unrolls(f, s, n), NEW i \in 1 .. n
  PROVE  f[i] = IF i = 1 THEN s[i] ELSE f[i - 1] \o s[i]
BY DEF Unrolls

\* It depends on the chunks only.
LEMMA UnrollsSame ==
  ASSUME NEW f, NEW g, NEW s, NEW t, NEW n \in Nat, NEW m \in Nat, Unrolls(f, s, n), Unrolls(g, t, m),
         NEW k \in Nat, k <= n, k <= m, \A i \in 1 .. k : s[i] = t[i]
  PROVE  \A i \in 1 .. k : f[i] = g[i]
<1> DEFINE D == {i \in 1 .. k : f[i] # g[i]}
<1> SUFFICES ASSUME D # {} PROVE FALSE
  OBVIOUS
<1>0. D \in SUBSET Nat
  OBVIOUS
<1>1. PICK i \in D : \A j \in D : i <= j
  <2> HIDE DEF D
  <2> QED BY <1>0, LeastOf
<1>2. i \in 1 .. k /\ i \in 1 .. n /\ i \in 1 .. m /\ f[i] # g[i] /\ s[i] = t[i]
  BY <1>1
<1>3. i # 1 => f[i - 1] = g[i - 1]
  <2> SUFFICES ASSUME i # 1 PROVE i - 1 \notin D /\ i - 1 \in 1 .. k
    OBVIOUS
  <2> QED BY <1>1, <1>2
<1>4. /\ f[i] = IF i = 1 THEN s[i] ELSE f[i - 1] \o s[i]
      /\ g[i] = IF i = 1 THEN t[i] ELSE g[i - 1] \o t[i]
  BY <1>2, UnrollsStep
<1> QED BY <1>2, <1>3, <1>4

\* The bytes of any first chunks of s.
LEMMA BytesUnroll ==
  ASSUME NEW f, NEW s, NEW n \in Nat, Unrolls(f, s, n), NEW cs, Len(cs) \in 1 .. n,
         \A i \in 1 .. Len(cs) : cs[i] = s[i]
  PROVE  Bytes(cs) = f[Len(cs)]
<1>1. PICK g : g = CHOOSE h : Unrolls(h, cs, Len(cs))
  OBVIOUS
<1>2. Unrolls(g, cs, Len(cs))
  <2>1. \E h : Unrolls(h, cs, Len(cs))
    BY UnrollsExists
  <2> QED BY <1>1, <2>1
<1>3. Bytes(cs) = g[Len(cs)]
  BY <1>1 DEF Bytes, FlattenSeq, Unrolls
<1>4. \A i \in 1 .. Len(cs) : g[i] = f[i]
  <2>1. Len(cs) \in Nat /\ Len(cs) <= n
    OBVIOUS
  <2> QED BY <1>2, <2>1, UnrollsSame
<1> QED BY <1>3, <1>4

LEMMA NoBytes == Bytes(<< >>) = << >>
BY DEF Bytes, FlattenSeq

LEMMA BytesAppend ==
  ASSUME NEW S, NEW cs \in Seq(Seq(S)), NEW c \in Seq(S)
  PROVE  Bytes(Append(cs, c)) = Bytes(cs) \o c
<1> DEFINE s == Append(cs, c)
           n == Len(cs) + 1
<1>1. n \in Nat /\ Len(s) = n /\ s[n] = c /\ \A i \in 1 .. Len(cs) : cs[i] = s[i]
  OBVIOUS
<1> HIDE DEF s
<1>2. PICK f : Unrolls(f, s, n)
  BY <1>1, UnrollsExists
<1>3. Bytes(s) = f[n] /\ n \in 1 .. n
  BY <1>1, <1>2, BytesUnroll
<1>4. f[n] = IF n = 1 THEN c ELSE f[n - 1] \o c
  BY <1>1, <1>2, <1>3, UnrollsStep
<1>5. CASE cs = << >>
  <2>1. n = 1 /\ << >> \o c = c
    BY <1>5
  <2> QED BY <1>3, <1>4, <1>5, <2>1, NoBytes DEF s
<1>6. CASE cs # << >>
  <2>1. Len(cs) \in 1 .. n /\ n - 1 = Len(cs) /\ n # 1
    BY <1>6
  <2>2. Bytes(cs) = f[Len(cs)]
    BY <1>1, <1>2, <2>1, BytesUnroll
  <2> QED BY <1>3, <1>4, <2>1, <2>2 DEF s
<1> QED BY <1>5, <1>6

LEMMA UnrollsType ==
  ASSUME NEW S, NEW s \in Seq(Seq(S)), NEW f, Unrolls(f, s, Len(s))
  PROVE  \A i \in 1 .. Len(s) : f[i] \in Seq(S)
<1> DEFINE D == {i \in 1 .. Len(s) : f[i] \notin Seq(S)}
<1> SUFFICES ASSUME D # {} PROVE FALSE
  OBVIOUS
<1>0. D \in SUBSET Nat
  OBVIOUS
<1>1. PICK i \in D : \A j \in D : i <= j
  <2> HIDE DEF D
  <2> QED BY <1>0, LeastOf
<1>2. i \in 1 .. Len(s) /\ s[i] \in Seq(S) /\ f[i] \notin Seq(S)
  BY <1>1
<1>3. i # 1 => f[i - 1] \in Seq(S)
  <2> SUFFICES ASSUME i # 1 PROVE i - 1 \notin D /\ i - 1 \in 1 .. Len(s)
    OBVIOUS
  <2> QED BY <1>1, <1>2
<1>4. f[i] = IF i = 1 THEN s[i] ELSE f[i - 1] \o s[i]
  BY <1>2, UnrollsStep
<1> QED BY <1>2, <1>3, <1>4

LEMMA BytesType ==
  ASSUME NEW S, NEW cs \in Seq(Seq(S))
  PROVE  Bytes(cs) \in Seq(S) /\ Size(cs) \in Nat
<1>1. CASE cs = << >>
  <2>1. << >> \in Seq(S) /\ Len(<< >>) = 0
    OBVIOUS
  <2> QED BY <1>1, <2>1, NoBytes DEF Size
<1>2. CASE cs # << >>
  <2>1. PICK f : Unrolls(f, cs, Len(cs))
    <3>1. Len(cs) \in Nat
      OBVIOUS
    <3> QED BY <3>1, UnrollsExists
  <2>2. Len(cs) \in 1 .. Len(cs)
    BY <1>2
  <2>3. Bytes(cs) = f[Len(cs)] /\ f[Len(cs)] \in Seq(S)
    BY <2>1, <2>2, BytesUnroll, UnrollsType
  <2> QED BY <2>3 DEF Size
<1> QED BY <1>1, <1>2

\* First chunks are no more bytes than all of them.
LEMMA PrefixSize ==
  ASSUME NEW S, NEW cs \in Seq(Seq(S)), NEW ds \in Seq(Seq(S)), Prefixed(cs, ds)
  PROVE  Size(cs) <= Size(ds)
<1>1. Size(cs) \in Nat /\ Size(ds) \in Nat
  BY BytesType
<1>2. CASE cs = << >>
  BY <1>1, <1>2, NoBytes DEF Size
<1>3. CASE cs # << >>
  <2> DEFINE n == Len(cs)
             m == Len(ds)
  <2>1. /\ n \in Nat /\ m \in Nat /\ n >= 1 /\ n <= m /\ n \in 1 .. m /\ m \in 1 .. m
        /\ \A i \in 1 .. n : cs[i] = ds[i]
    BY <1>3 DEF Prefixed
  <2>2. PICK f : Unrolls(f, ds, m)
    BY <2>1, UnrollsExists
  <2>3. Bytes(cs) = f[n] /\ Bytes(ds) = f[m]
    BY <2>1, <2>2, BytesUnroll
  <2>4. \A i \in 1 .. m : f[i] \in Seq(S) /\ Len(f[i]) \in Nat
    BY <2>2, UnrollsType
  <2> DEFINE D == {i \in n .. m : Len(f[i]) < Len(f[n])}
  <2>5. D \in SUBSET Nat /\ \A i \in D : i \in n .. m /\ Len(f[i]) < Len(f[n])
    BY <2>1
  <2>6. \A i \in n .. m : i \notin D => Len(f[i]) >= Len(f[n])
    BY <2>1, <2>4
  <2> HIDE DEF D
  <2>7. D = {}
    <3> SUFFICES ASSUME D # {} PROVE FALSE
      OBVIOUS
    <3>1. PICK i \in D : \A j \in D : i <= j
      BY <2>5, LeastOf
    <3>2. i \in n .. m /\ i \in 1 .. m /\ i # n /\ Len(f[i]) < Len(f[n])
      BY <2>1, <2>4, <2>5
    <3>3. i - 1 \in n .. m /\ i - 1 \in 1 .. m /\ i # 1 /\ i - 1 \notin D
      BY <2>1, <3>1, <3>2
    <3>4. f[i] = f[i - 1] \o ds[i] /\ f[i - 1] \in Seq(S) /\ ds[i] \in Seq(S)
      <4>1. f[i] = IF i = 1 THEN ds[i] ELSE f[i - 1] \o ds[i]
        BY <2>1, <2>2, <3>2, UnrollsStep
      <4>2. ds[i] \in Seq(S)
        BY <3>2
      <4> QED BY <2>4, <3>3, <4>1, <4>2
    <3>5. Len(f[i]) = Len(f[i - 1]) + Len(ds[i]) /\ Len(ds[i]) \in Nat
      BY <3>4
    <3>6. Len(f[i - 1]) >= Len(f[n])
      BY <2>6, <3>3
    <3>7. Len(f[i]) \in Nat /\ Len(f[i - 1]) \in Nat /\ Len(f[n]) \in Nat
      BY <2>1, <2>4, <3>2, <3>3
    <3> HIDE DEF n, m
    <3>8. \A a, b, c, d \in Nat : ~(a < c /\ a = b + d /\ b >= c)
      OBVIOUS
    <3> QED BY <3>2, <3>5, <3>6, <3>7, <3>8
  <2>8. Len(f[m]) >= Len(f[n])
    BY <2>1, <2>6, <2>7
  <2> QED BY <2>1, <2>3, <2>4, <2>8 DEF Size
<1> QED BY <1>2, <1>3

-----------------------------------------------------------------------------
(* The steps.                                                               *)

LEMMA InitHolds == Init => IInv
<1> SUFFICES ASSUME Init PROVE IInv
  OBVIOUS
<1>1. /\ Size(sent) = 0 /\ Size(chunks) = 0 /\ events = << >> /\ sent = << >> /\ chunks = << >>
      /\ result = << >> /\ phase = "idle" /\ ~threw
  BY NoBytes DEF Init, Size
<1>2. TypeOK
  <2>1. MaxBytes \in Nat /\ events \in Seq(Event) /\ result \in Seq(1 .. MaxBytes)
    BY <1>1, DownloadAssumption
  <2>2. call \in [name : Calls \cup {"none"}, input : Inputs]
    BY DEF Init, Inputs
  <2>3. Size(sent) <= MaxBytes /\ Size(chunks) <= Size(sent)
    BY <1>1, <2>1
  <2>4. /\ phase = "idle" /\ coded = FALSE /\ length = Unknown /\ reader = FALSE /\ wire = "open" /\ threw = FALSE
    BY DEF Init
  <2> QED BY <2>1, <2>2, <2>3, <2>4 DEF TypeOK
<1>3. Streams
  BY <1>1 DEF Streams, Prefixed, Chunk
<1>4. Stage /\ Caused /\ BodyReturned /\ ProgressAddsUp /\ DoneOnce
  BY <1>1 DEF Stage, Caused, BodyReturned, ProgressAddsUp, DoneOnce
<1> QED BY <1>2, <1>3, <1>4 DEF IInv

\* Sizes are numbers, and events are what they are said to be.
LEMMA Typed ==
  ASSUME TypeOK, Streams
  PROVE  /\ sent \in Seq(Chunk) /\ chunks \in Seq(Chunk) /\ Prefixed(chunks, sent)
         /\ Bytes(sent) \in Seq(1 .. MaxBytes) /\ Bytes(chunks) \in Seq(1 .. MaxBytes)
         /\ Size(sent) \in Nat /\ Size(chunks) \in Nat /\ Size(chunks) <= Size(sent)
         /\ events \in Seq(Event)
<1>1. sent \in Seq(Chunk) /\ chunks \in Seq(Chunk) /\ Prefixed(chunks, sent)
  BY DEF Streams
<1>2. Bytes(sent) \in Seq(1 .. MaxBytes) /\ Bytes(chunks) \in Seq(1 .. MaxBytes)
  BY <1>1, BytesType DEF Chunk
<1>3. Size(sent) \in Nat /\ Size(chunks) \in Nat
  BY <1>1, BytesType DEF Chunk
<1> QED BY <1>1, <1>2, <1>3 DEF TypeOK

LEMMA ReceivedType ==
  ASSUME TypeOK
  PROVE  LastReceived \in Nat /\ \A i \in DOMAIN events : events[i].received \in Nat
<1>1. events \in Seq(Event)
  BY DEF TypeOK
<1>2. \A i \in DOMAIN events : events[i].received \in Nat
  <2>1. \A i \in DOMAIN events : events[i] \in Event
    BY <1>1
  <2> QED BY <2>1 DEF Event
<1>3. events # << >> => Len(events) \in DOMAIN events
  BY <1>1
<1> QED BY <1>2, <1>3 DEF LastReceived

\* One more event, which goes on from the last.
LEMMA Reports ==
  ASSUME TypeOK, Streams, ProgressAddsUp, NEW cs, Size(cs) \in Nat, NEW delta \in Nat, NEW done \in BOOLEAN,
         NEW total \in Int, events' = Report(cs, delta, done, total),
         Size(cs) >= LastReceived, ~done => Size(cs) = LastReceived + delta
  PROVE  /\ events' \in Seq(Event) /\ events' # << >> /\ ProgressAddsUp'
         /\ LastReceived' = Size(cs) /\ events'[Len(events')].done = done
         /\ Len(events') = Len(events) + 1
         /\ \A i \in DOMAIN events : i \in DOMAIN events' /\ i # Len(events') /\ events'[i] = events[i]
         /\ \A i \in DOMAIN events' : i = Len(events') \/ i \in DOMAIN events
<1> DEFINE e == [total |-> total, received |-> Size(cs), delta |-> delta, done |-> done]
           n == Len(events)
<1>1. events \in Seq(Event) /\ e \in Event /\ events' = Append(events, e) /\ n \in Nat
  BY DEF Event, Report, TypeOK
<1>2. e.received = Size(cs) /\ e.delta = delta /\ e.done = done
  OBVIOUS
<1> HIDE DEF e
<1>3. /\ events' \in Seq(Event) /\ Len(events') = n + 1 /\ events'[n + 1] = e
      /\ DOMAIN events = 1 .. n /\ DOMAIN events' = 1 .. n + 1
      /\ \A i \in 1 .. n : events'[i] = events[i]
  BY <1>1
<1>4. events' # << >> /\ LastReceived' = Size(cs) /\ events'[Len(events')].done = done
  BY <1>1, <1>2, <1>3 DEF LastReceived
<1>5. LastReceived = IF n = 0 THEN 0 ELSE events[n].received
  BY <1>1 DEF LastReceived
<1>6. ProgressAddsUp'
  <2> SUFFICES ASSUME NEW i \in DOMAIN events'
      PROVE  LET before == IF i = 1 THEN 0 ELSE events'[i - 1].received
             IN  /\ events'[i].received >= before
                 /\ ~events'[i].done => events'[i].received = before + events'[i].delta
    BY DEF ProgressAddsUp
  <2>1. CASE i \in 1 .. n
    <3>1. events'[i] = events[i] /\ (i # 1 => events'[i - 1] = events[i - 1]) /\ i \in DOMAIN events
      BY <1>1, <1>3, <2>1
    <3> QED BY <3>1 DEF ProgressAddsUp
  <2>2. CASE i = n + 1
    <3>1. (IF i = 1 THEN 0 ELSE events'[i - 1].received) = LastReceived
      <4>1. CASE n = 0
        BY <1>5, <2>2, <4>1
      <4>2. CASE n # 0
        <5>1. i - 1 = n /\ n \in 1 .. n /\ i # 1
          BY <1>1, <2>2, <4>2
        <5> QED BY <1>3, <1>5, <4>2, <5>1
      <4> QED BY <4>1, <4>2
    <3>2. events'[i] = e
      BY <1>3, <2>2
    <3> QED BY <1>2, <3>1, <3>2
  <2> QED BY <1>1, <1>3, <2>1, <2>2
<1> QED BY <1>1, <1>3, <1>4, <1>6

\* The streams and the events are as they were.
LEMMA Stays ==
  ASSUME IInv, UNCHANGED <<sent, chunks, events>>
  PROVE  /\ Streams' /\ ProgressAddsUp' /\ LastReceived' = LastReceived /\ (NotDone' <=> NotDone)
         /\ Size(sent)' = Size(sent) /\ Size(chunks)' = Size(chunks) /\ Bytes(sent)' = Bytes(sent)
BY DEF IInv, Streams, ProgressAddsUp, LastReceived, NotDone, Size, Prefixed

\* Nothing has been reported before the loop.
LEMMA Silent ==
  ASSUME IInv, phase \in {"idle", "disk", "fetch", "buffer"}
  PROVE  events = << >> /\ chunks = << >> /\ ~threw /\ LastReceived = 0 /\ NotDone /\ Size(chunks) = 0
BY NoBytes DEF IInv, Stage, LastReceived, NotDone, Size

LEMMA BeginKeeps ==
  ASSUME IInv, (\E name \in Calls, input \in Inputs : Start(name, input)) \/ ReadDisk \/ FetchFails
  PROVE  IInv'
<1>1. UNCHANGED <<sent, chunks, events, threw, response, wire>>
  BY DEF Start, ReadDisk, FetchFails
<1>2. phase \in {"idle", "disk", "fetch"}
  BY DEF Start, ReadDisk, FetchFails
<1>3. events = << >> /\ chunks = << >> /\ ~threw
  BY <1>2, Silent
<1>4. /\ Streams' /\ ProgressAddsUp' /\ Size(sent)' = Size(sent) /\ Size(chunks)' = Size(chunks)
  BY <1>1, Stays
<1>5. /\ phase' \in {"disk", "fetch", "buffer", "resolved", "rejected"}
      /\ call' \in [name : Calls \cup {"none"}, input : Inputs]
      /\ phase' = "disk" => call'.name = "fetchFile" /\ call'.input \notin {"remote", "blob"}
      /\ phase' = "buffer" => call'.name # "download"
      /\ phase' = "resolved" => call'.name = "fetchFile" /\ call'.input \notin {"remote", "blob"}
      /\ result' \in Seq(1 .. MaxBytes)
  <2>1. CASE \E name \in Calls, input \in Inputs : Start(name, input)
    <3>1. PICK name \in Calls, input \in Inputs : Start(name, input)
      BY <2>1
    <3>2. call'.name = name /\ call'.input = input /\ call' \in [name : Calls \cup {"none"}, input : Inputs]
      BY <3>1 DEF Start
    <3>3. UNCHANGED result /\ result \in Seq(1 .. MaxBytes)
      BY <3>1 DEF Start, IInv, TypeOK
    <3>4. \/ phase' = IF input = "nothing" THEN "resolved" ELSE Route(input)
          \/ phase' = "rejected"
      BY <3>1 DEF Start
    <3>5. name = "fetchFile" \/ input = "remote"
      BY <3>1 DEF Start
    <3>6. /\ Route("remote") = "fetch" /\ Route("blob") = "buffer"
          /\ Route(input) \in {"disk", "fetch", "buffer"}
          /\ Route(input) = "disk" => input \notin {"remote", "blob"}
          /\ Route(input) = "buffer" => input # "remote"
      BY DEF Route
    <3> QED BY <3>2, <3>3, <3>4, <3>5, <3>6
  <2>2. CASE ReadDisk
    <3>1. call' = call /\ phase = "disk" /\ phase' \in Settled
      BY <2>2 DEF ReadDisk
    <3>2. result' \in Seq(1 .. MaxBytes)
      <4>1. 1 \in 1 .. MaxBytes
        BY DownloadAssumption
      <4>2. << >> \in Seq(1 .. MaxBytes) /\ <<1>> \in Seq(1 .. MaxBytes)
        BY <4>1
      <4> QED BY <2>2, <4>2 DEF ReadDisk
    <3>3. call.name = "fetchFile" /\ call.input \notin {"remote", "blob"}
      BY <3>1 DEF IInv, Stage
    <3> QED BY <3>1, <3>2, <3>3 DEF Settled, IInv, TypeOK
  <2>3. CASE FetchFails
    BY <2>3 DEF FetchFails, IInv, TypeOK
  <2> QED BY <2>1, <2>2, <2>3
<1>6. TypeOK'
  BY <1>1, <1>4, <1>5 DEF IInv, TypeOK, response, Settled
<1>7. Stage' /\ Caused' /\ BodyReturned' /\ DoneOnce'
  BY <1>1, <1>3, <1>5 DEF Stage, Caused, BodyReturned, DoneOnce
<1> QED BY <1>4, <1>6, <1>7 DEF IInv

LEMMA RespondKeeps ==
  ASSUME IInv, NEW n \in {Unknown, NoLength} \cup 0 .. MaxBytes, NEW encoded \in BOOLEAN, NEW body \in BOOLEAN,
         Respond(n, encoded, body)
  PROVE  IInv'
<1>1. /\ UNCHANGED <<call, wire, sent, chunks, events, threw, result>> /\ phase = "fetch"
      /\ length' = n /\ coded' = encoded /\ reader' = body /\ phase' \in {"buffer", "loop", "fallback"}
      /\ phase' = "buffer" => call.name # "download"
      /\ phase' = "fallback" => ~body
  BY DEF Respond
<1>2. events = << >> /\ chunks = << >> /\ ~threw /\ LastReceived = 0 /\ NotDone /\ Size(chunks) = 0
  BY <1>1, Silent
<1>3. /\ Streams' /\ ProgressAddsUp' /\ LastReceived' = LastReceived /\ (NotDone' <=> NotDone)
      /\ Size(sent)' = Size(sent) /\ Size(chunks)' = Size(chunks)
  BY <1>1, Stays
<1>4. Size(sent) \in Nat
  BY Typed DEF IInv
<1>5. TypeOK'
  BY <1>1, <1>3 DEF IInv, TypeOK
<1>6. Stage'
  BY <1>1, <1>2, <1>3, <1>4 DEF Stage
<1>7. Caused' /\ BodyReturned' /\ DoneOnce'
  BY <1>1, <1>2 DEF Caused, BodyReturned, DoneOnce
<1> QED BY <1>3, <1>5, <1>6, <1>7 DEF IInv

\* When the call settles, or goes on without a word, what was said still stands.
LEMMA ArriveKeeps ==
  ASSUME IInv, Arrive
  PROVE  IInv'
<1>1. /\ UNCHANGED <<call, phase, coded, length, reader, chunks, events, threw, result>>
      /\ phase \in {"buffer", "loop", "fallback"} /\ wire = "open" /\ wire' \in {"open", "ended", "broken"}
  BY DEF Arrive, response
<1>2. /\ sent \in Seq(Chunk) /\ chunks \in Seq(Chunk) /\ Prefixed(chunks, sent)
      /\ Size(sent) \in Nat /\ Size(chunks) \in Nat /\ Size(chunks) <= Size(sent) /\ Size(sent) <= MaxBytes
  BY Typed DEF IInv, TypeOK
<1>3. /\ sent' \in Seq(Chunk) /\ Prefixed(chunks, sent')
      /\ Size(sent)' \in Nat /\ Size(sent) <= Size(sent)' /\ Size(sent)' <= MaxBytes
  <2>1. CASE UNCHANGED sent
    BY <1>2, <2>1 DEF Size
  <2>2. CASE \E n \in 1 .. MaxBytes - Size(sent) : sent' = Append(sent, [i \in 1 .. n |-> Size(sent) + i])
    <3>1. PICK n \in 1 .. MaxBytes - Size(sent) : sent' = Append(sent, [i \in 1 .. n |-> Size(sent) + i])
      BY <2>2
    <3> DEFINE c == [i \in 1 .. n |-> Size(sent) + i]
    <3>2. MaxBytes \in Nat /\ n \in Nat /\ Size(sent) + n <= MaxBytes
      BY <1>2, DownloadAssumption
    <3>3. c \in Chunk /\ Len(c) = n
      <4>1. \A i \in 1 .. n : Size(sent) + i \in 1 .. MaxBytes
        BY <1>2, <3>2
      <4>2. c \in [1 .. n -> 1 .. MaxBytes]
        BY <4>1
      <4> HIDE DEF c
      <4> QED BY <3>2, <4>2 DEF Chunk
    <3>4. sent' = Append(sent, c)
      BY <3>1
    <3> HIDE DEF c
    <3>5. Bytes(sent') = Bytes(sent) \o c /\ Bytes(sent) \in Seq(1 .. MaxBytes)
      BY <1>2, <3>3, <3>4, BytesAppend, BytesType DEF Chunk
    <3>6. Size(sent') = Size(sent) + n
      <4>1. Len(Bytes(sent) \o c) = Len(Bytes(sent)) + Len(c)
        <5>1. \A a, b \in Chunk : Len(a \o b) = Len(a) + Len(b)
          BY DEF Chunk
        <5>2. Bytes(sent) \in Chunk
          BY <3>5 DEF Chunk
        <5> QED BY <3>3, <5>1, <5>2
      <4> QED BY <3>3, <3>5, <4>1 DEF Size
    <3>7. sent' \in Seq(Chunk) /\ Prefixed(chunks, sent')
      BY <1>2, <3>3, <3>4 DEF Prefixed
    <3> QED BY <1>2, <3>2, <3>6, <3>7 DEF Size
  <2> QED BY <2>1, <2>2 DEF Arrive
<1>4. Streams' /\ Size(chunks)' = Size(chunks) /\ LastReceived' = LastReceived /\ (NotDone' <=> NotDone)
  BY <1>1, <1>2, <1>3 DEF Streams, Prefixed, Size, LastReceived, NotDone
<1>5. TypeOK'
  BY <1>1, <1>2, <1>3, <1>4 DEF IInv, TypeOK
<1>6. Stage'
  <2>1. LastReceived \in Nat
    BY ReceivedType DEF IInv
  <2> QED BY <1>1, <1>2, <1>3, <1>4, <2>1 DEF IInv, Stage
<1>7. Caused'
  BY <1>1 DEF IInv, Caused
<1>8. BodyReturned' /\ DoneOnce' /\ ProgressAddsUp'
  BY <1>1 DEF IInv, BodyReturned, DoneOnce, ProgressAddsUp, Settled
<1> QED BY <1>4, <1>5, <1>6, <1>7, <1>8 DEF IInv

LEMMA TotalType ==
  ASSUME TypeOK
  PROVE  Total \in Int
BY DownloadAssumption DEF TypeOK, Total, Unknown, NoLength

LEMMA ReadChunkKeeps ==
  ASSUME IInv, ReadChunk
  PROVE  IInv'
<1>1. /\ UNCHANGED <<call, coded, length, reader, wire, sent, result>> /\ phase = "loop"
      /\ Len(chunks) < Len(sent) /\ chunks' = Append(chunks, NextChunk)
      /\ phase' \in {"loop", "fallback"} /\ threw' = (phase' = "fallback")
  BY DEF ReadChunk, response
<1>2. /\ sent \in Seq(Chunk) /\ chunks \in Seq(Chunk) /\ Prefixed(chunks, sent)
      /\ Size(sent) \in Nat /\ Size(chunks) \in Nat /\ TypeOK /\ Streams /\ ProgressAddsUp
  BY Typed DEF IInv
<1>3. ~threw /\ NotDone /\ LastReceived = Size(chunks)
  BY <1>1 DEF IInv, Stage
<1>4. NextChunk \in Chunk /\ Len(NextChunk) \in Nat /\ chunks' \in Seq(Chunk) /\ Prefixed(chunks', sent)
  <2>1. Len(chunks) + 1 \in 1 .. Len(sent)
    BY <1>1, <1>2
  <2>2. NextChunk \in Chunk
    BY <1>2, <2>1 DEF NextChunk
  <2>3. chunks' \in Seq(Chunk) /\ Len(chunks') = Len(chunks) + 1
    BY <1>1, <1>2, <2>2
  <2>4. \A i \in 1 .. Len(chunks) + 1 : chunks'[i] = sent[i]
    BY <1>1, <1>2, <2>1 DEF NextChunk, Prefixed
  <2> QED BY <1>1, <1>2, <2>2, <2>3, <2>4 DEF Prefixed, Chunk
<1>5. Size(chunks') = Size(chunks) + Len(NextChunk)
  <2>1. Bytes(chunks') = Bytes(chunks) \o NextChunk /\ Bytes(chunks) \in Seq(1 .. MaxBytes)
    BY <1>1, <1>2, <1>4, BytesAppend, BytesType DEF Chunk
  <2> QED BY <1>4, <2>1 DEF Size, Chunk
<1>6. Size(chunks') <= Size(sent)
  BY <1>2, <1>4, PrefixSize DEF Chunk
<1>7. PICK cs, delta : cs = chunks' /\ delta = Len(NextChunk)
  OBVIOUS
<1>8. /\ events' = Report(cs, delta, FALSE, Total) /\ Size(cs) \in Nat /\ delta \in Nat
      /\ Size(cs) = LastReceived + delta /\ Size(cs) >= LastReceived
  BY <1>2, <1>3, <1>4, <1>5, <1>7 DEF ReadChunk
<1>9. PICK total \in Int : total = Total
  BY <1>2, TotalType
<1>10. /\ events' \in Seq(Event) /\ events' # << >> /\ ProgressAddsUp'
       /\ LastReceived' = Size(cs) /\ events'[Len(events')].done = FALSE
       /\ \A i \in DOMAIN events : i \in DOMAIN events' /\ i # Len(events') /\ events'[i] = events[i]
       /\ \A i \in DOMAIN events' : i = Len(events') \/ i \in DOMAIN events
  <2>1. events' = Report(cs, delta, FALSE, total)
    BY <1>8, <1>9
  <2> QED BY <1>2, <1>8, <2>1, Reports
<1>11. NotDone'
  BY <1>3, <1>10 DEF NotDone
<1>12. Streams' /\ Size(sent)' = Size(sent) /\ Size(chunks)' = Size(cs)
  BY <1>1, <1>2, <1>4, <1>7 DEF Streams, Size
<1>13. TypeOK'
  BY <1>1, <1>2, <1>6, <1>7, <1>10, <1>12 DEF TypeOK
<1>14. Stage' /\ Caused'
  BY <1>1, <1>6, <1>7, <1>10, <1>11, <1>12 DEF Stage, Caused
<1>15. BodyReturned' /\ DoneOnce'
  BY <1>1, <1>11 DEF BodyReturned, DoneOnce, NotDone
<1> QED BY <1>10, <1>12, <1>13, <1>14, <1>15 DEF IInv

\* The reader has got everything.
LEMMA AllRead ==
  ASSUME IInv, AtEnd
  PROVE  chunks = sent /\ Size(chunks) = Size(sent) /\ Bytes(chunks) = Bytes(sent)
<1>1. sent \in Seq(Chunk) /\ chunks \in Seq(Chunk) /\ Prefixed(chunks, sent) /\ Len(chunks) = Len(sent)
  BY Typed DEF IInv, AtEnd
<1>2. chunks = sent
  BY <1>1 DEF Prefixed
<1> QED BY <1>2

\* The end is reported, with all the bytes.
LEMMA Finishes ==
  ASSUME IInv, phase \in {"loop", "fallback"}, NEW total \in Int, events' = Report(sent, 0, TRUE, total),
         UNCHANGED <<call, coded, length, reader, wire, sent, chunks>>, Size(sent) >= LastReceived,
         phase' \in {"fallback", "resolved", "rejected"}, threw' \in BOOLEAN,
         phase' = "fallback" => threw', ~threw' => NotDone,
         phase' = "resolved" => result' = Bytes(sent), result' \in Seq(1 .. MaxBytes)
  PROVE  IInv'
<1>1. Size(sent) \in Nat /\ TypeOK /\ Streams /\ ProgressAddsUp
  BY Typed DEF IInv
<1>2. PICK cs : cs = sent
  OBVIOUS
<1>3. /\ events' \in Seq(Event) /\ events' # << >> /\ ProgressAddsUp'
      /\ LastReceived' = Size(cs) /\ events'[Len(events')].done = TRUE
      /\ \A i \in DOMAIN events : i \in DOMAIN events' /\ i # Len(events') /\ events'[i] = events[i]
      /\ \A i \in DOMAIN events' : i = Len(events') \/ i \in DOMAIN events
  BY <1>1, <1>2, Reports
<1>4. events'[Len(events')].received = Size(cs)
  BY <1>3 DEF LastReceived
<1>5. Streams' /\ Size(sent)' = Size(cs) /\ Size(chunks)' = Size(chunks) /\ Bytes(sent)' = Bytes(sent)
  BY <1>1, <1>2 DEF Streams, Size
<1>6. TypeOK'
  BY <1>1, <1>2, <1>3, <1>5 DEF TypeOK, Settled
<1>7. Stage' /\ Caused'
  <2>1. LastReceived' <= Size(sent)' /\ phase' \notin {"idle", "disk", "fetch", "buffer", "loop"}
    BY <1>1, <1>2, <1>3, <1>5
  <2> QED BY <2>1 DEF Stage, Caused
<1>8. BodyReturned'
  BY <1>5 DEF BodyReturned
<1>9. DoneOnce'
  <2>1. ~threw' => phase' \in Settled
    BY DEF Settled
  <2>2. ~threw' => \A i \in DOMAIN events' : events'[i].done => i = Len(events')
    BY <1>3 DEF NotDone
  <2>3. phase' = "resolved" => Len(result') = Size(cs)
    BY <1>2 DEF Size
  <2> QED BY <1>3, <1>4, <2>1, <2>2, <2>3 DEF DoneOnce, Last
<1> QED BY <1>3, <1>5, <1>6, <1>7, <1>8, <1>9 DEF IInv

\* Nothing more is reported: the loop gives up, or the call settles.
LEMMA GoesQuiet ==
  ASSUME IInv, UNCHANGED <<call, coded, length, reader, wire, sent, chunks, events, threw>>,
         phase \in {"buffer", "loop", "fallback"}, phase' \in {"fallback", "resolved", "rejected"},
         phase' = "fallback" => phase = "loop" /\ Caused',
         phase' = "resolved" => phase = "buffer" /\ result' = Bytes(sent),
         result' \in Seq(1 .. MaxBytes)
  PROVE  IInv'
<1>1. /\ Streams' /\ ProgressAddsUp' /\ LastReceived' = LastReceived /\ (NotDone' <=> NotDone)
      /\ Size(sent)' = Size(sent) /\ Size(chunks)' = Size(chunks) /\ Bytes(sent)' = Bytes(sent)
  BY Stays
<1>2. Size(sent) \in Nat /\ Size(chunks) \in Nat /\ Size(chunks) <= Size(sent)
  BY Typed DEF IInv
<1>3. threw \/ NotDone
  BY Silent DEF IInv, Stage
<1>4. TypeOK'
  BY <1>1 DEF IInv, TypeOK, Settled
<1>5. Stage'
  BY <1>1, <1>2 DEF IInv, Stage
<1>6. Caused'
  BY DEF Caused
<1>7. BodyReturned'
  BY <1>1 DEF BodyReturned
<1>8. DoneOnce'
  BY <1>1, <1>3 DEF DoneOnce, NotDone, IInv, Stage
<1> QED BY <1>1, <1>4, <1>5, <1>6, <1>7, <1>8 DEF IInv

LEMMA ReadEndKeeps ==
  ASSUME IInv, ReadEnd
  PROVE  IInv'
<1>1. AtEnd /\ UNCHANGED <<call, coded, length, reader, wire, sent, chunks>>
  BY DEF ReadEnd, response
<1>2. phase = "loop" /\ wire = "ended" /\ ~threw /\ NotDone /\ LastReceived = Size(chunks)
  BY <1>1 DEF AtEnd, IInv, Stage
<1>3. chunks = sent /\ Size(chunks) = Size(sent) /\ Bytes(chunks) = Bytes(sent)
  BY <1>1, AllRead
<1>4. /\ Size(sent) \in Nat /\ Bytes(sent) \in Seq(1 .. MaxBytes) /\ result \in Seq(1 .. MaxBytes)
      /\ Total \in Int
  BY Typed, TotalType DEF IInv, TypeOK
<1>5. CASE /\ Total \notin {Unknown, Size(chunks)} /\ phase' = "fallback"
           /\ UNCHANGED <<events, threw, result>>
  <2>1. ~coded /\ length \notin {Unknown, Size(sent)}
    BY <1>3, <1>5 DEF Total
  <2>2. Caused'
    BY <1>1, <1>2, <2>1 DEF Caused, Size
  <2> QED BY <1>1, <1>2, <1>4, <1>5, <2>2, GoesQuiet
<1>6. CASE /\ events' = Report(chunks, 0, TRUE, Total) /\ phase' \in {"resolved", "fallback"}
           /\ threw' = (phase' = "fallback")
           /\ result' = IF phase' = "resolved" THEN Assembled(chunks) ELSE << >>
  <2>1. PICK total \in Int : total = Total
    BY <1>4
  <2>2. events' = Report(sent, 0, TRUE, total)
    BY <1>3, <1>6, <2>1
  <2>3. result' \in Seq(1 .. MaxBytes) /\ (phase' = "resolved" => result' = Bytes(sent))
    <3>1. << >> \in Seq(1 .. MaxBytes)
      OBVIOUS
    <3> QED BY <1>3, <1>4, <1>6, <3>1 DEF Assembled
  <2>4. threw' \in BOOLEAN /\ (phase' = "fallback" => threw') /\ phase' \in {"resolved", "fallback"}
    BY <1>6
  <2>5. Size(sent) >= LastReceived
    BY <1>2, <1>3, <1>4
  <2> QED BY <1>1, <1>2, <2>2, <2>3, <2>4, <2>5, Finishes
<1> QED BY <1>5, <1>6 DEF ReadEnd

LEMMA ReadFailsKeeps ==
  ASSUME IInv, ReadFails
  PROVE  IInv'
<1>1. /\ UNCHANGED <<call, coded, length, reader, wire, sent, chunks, events, threw, result>>
      /\ phase = "loop" /\ phase' = "fallback" /\ wire = "broken" /\ result \in Seq(1 .. MaxBytes)
  BY DEF ReadFails, response, IInv, TypeOK
<1>2. Caused'
  BY <1>1 DEF Caused
<1> QED BY <1>1, <1>2, GoesQuiet

LEMMA BufferKeeps ==
  ASSUME IInv, Buffer
  PROVE  IInv'
<1>1. /\ UNCHANGED <<call, coded, length, reader, wire, sent, chunks>> /\ phase \in {"buffer", "fallback"}
      /\ wire \in {"ended", "broken"} /\ phase' \in Settled
  BY DEF Buffer, response, IInv, TypeOK, Settled
<1>2. /\ Bytes(sent) \in Seq(1 .. MaxBytes) /\ Size(sent) \in Nat
      /\ result' \in Seq(1 .. MaxBytes) /\ (phase' = "resolved" => result' = Bytes(sent))
  <2>1. Bytes(sent) \in Seq(1 .. MaxBytes) /\ Size(sent) \in Nat /\ << >> \in Seq(1 .. MaxBytes)
    BY Typed DEF IInv
  <2> QED BY <2>1 DEF Buffer
<1>3. CASE phase = "fallback" /\ wire = "ended"
  <2>1. events' = Report(sent, 0, TRUE, Size(sent)) /\ threw' = (threw \/ phase' = "rejected")
    BY <1>3 DEF Buffer
  <2>2. PICK total \in Int : total = Size(sent)
    BY <1>2
  <2>3. events' = Report(sent, 0, TRUE, total)
    BY <2>1, <2>2
  <2>4. LastReceived <= Size(sent) /\ (threw \/ NotDone) /\ threw \in BOOLEAN /\ LastReceived \in Nat
    BY <1>3, ReceivedType DEF IInv, Stage, TypeOK
  <2>5. threw' \in BOOLEAN /\ (~threw' => NotDone)
    BY <2>1, <2>4
  <2>6. Size(sent) >= LastReceived
    BY <1>2, <2>4
  <2> QED BY <1>1, <1>2, <1>3, <2>3, <2>5, <2>6, Finishes DEF Settled
<1>4. CASE ~(phase = "fallback" /\ wire = "ended")
  <2>1. UNCHANGED events /\ threw' = threw
    BY <1>4 DEF Buffer, IInv, TypeOK
  <2>2. phase' = "resolved" => phase = "buffer"
    BY <1>1, <1>4 DEF Buffer
  <2> QED BY <1>1, <1>2, <2>1, <2>2, GoesQuiet DEF Settled
<1> QED BY <1>3, <1>4

LEMMA NextKeeps == IInv /\ [Next]_vars => IInv'
<1> SUFFICES ASSUME IInv, [Next]_vars PROVE IInv'
  OBVIOUS
<1>1. CASE UNCHANGED vars
  <2>1. UNCHANGED <<call, phase, coded, length, reader, wire, sent, chunks, events, threw, result>>
    BY <1>1 DEF vars, response
  <2>2. /\ Streams' /\ ProgressAddsUp' /\ LastReceived' = LastReceived /\ (NotDone' <=> NotDone)
        /\ Size(sent)' = Size(sent) /\ Size(chunks)' = Size(chunks) /\ Bytes(sent)' = Bytes(sent)
    BY <2>1, Stays
  <2>3. TypeOK' /\ Stage' /\ Caused'
    BY <2>1, <2>2 DEF IInv, TypeOK, Stage, Caused
  <2>4. BodyReturned' /\ DoneOnce'
    BY <2>1, <2>2 DEF IInv, BodyReturned, DoneOnce
  <2> QED BY <2>2, <2>3, <2>4 DEF IInv
<1> QED BY <1>1, BeginKeeps, RespondKeeps, ArriveKeeps, ReadChunkKeeps, ReadEndKeeps, ReadFailsKeeps,
           BufferKeeps DEF Next

LEMMA Always == Spec => []IInv
BY InitHolds, NextKeeps, PTL DEF Spec

-----------------------------------------------------------------------------
(* The theorems.                                                            *)

\* fetchFile(), toBlobURL() and downloadWithProgress() return the body of the
\* response byte for byte, from the reader or from the clone.
THEOREM WholeBody == Spec => []BodyReturned
<1>1. IInv => BodyReturned
  BY DEF IInv
<1> QED BY <1>1, Always, PTL

\* The progress events of downloadWithProgress() add up to what is returned, and
\* the end is reported once, also when the fallback takes over.
THEOREM ProgressCounts == Spec => []ProgressAgrees
<1>1. IInv => ProgressAgrees
  BY DEF IInv, ProgressAgrees
<1> QED BY <1>1, Always, PTL

\* The progress loop of downloadWithProgress() is not given up without a cause.
THEOREM FallbackJustified == Spec => []FallbackHasCause
<1>1. IInv => FallbackHasCause
  BY DEF IInv, Caused, FallbackHasCause
<1> QED BY <1>1, Always, PTL
=============================================================================
