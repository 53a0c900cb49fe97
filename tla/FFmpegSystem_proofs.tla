------------------------- MODULE FFmpegSystem_proofs -------------------------
(***************************************************************************)
(* Proofs about FFmpegSystem, for any number of calls, workers and signals  *)
(* and any menu: its type invariant, the bookkeeping of callbacks, that a   *)
(* worker answers only its own calls, that it implements CallLedger, and    *)
(* what becomes of a call on its way through the worker and back.           *)
(***************************************************************************)
EXTENDS FFmpegSystem, TLAPS

-----------------------------------------------------------------------------
(* What is in a sequence. *)

LEMMA InSeqAppend ==
  ASSUME NEW S, NEW s \in Seq(S), NEW e \in S
  PROVE  InSeq(Append(s, e)) = InSeq(s) \cup {e}
<1>1. InSeq(Append(s, e)) \subseteq InSeq(s) \cup {e}
  BY DEF InSeq
<1>2. ASSUME NEW i \in DOMAIN s PROVE s[i] \in InSeq(Append(s, e))
  <2>1. Append(s, e)[i] = s[i] /\ i \in DOMAIN Append(s, e)
    OBVIOUS
  <2> QED BY <2>1 DEF InSeq
<1>3. e \in InSeq(Append(s, e))
  <2>1. Append(s, e)[Len(s) + 1] = e /\ Len(s) + 1 \in DOMAIN Append(s, e)
    OBVIOUS
  <2> QED BY <2>1 DEF InSeq
<1> QED BY <1>1, <1>2, <1>3 DEF InSeq

LEMMA InSeqTail ==
  ASSUME NEW S, NEW s \in Seq(S), s # << >>
  PROVE  /\ Head(s) \in InSeq(s) /\ Head(s) \in S
         /\ InSeq(Tail(s)) \subseteq InSeq(s)
         /\ Tail(s) \in Seq(S)
<1>1. Len(s) > 0 /\ Head(s) = s[1] /\ 1 \in DOMAIN s /\ Tail(s) \in Seq(S)
  OBVIOUS
<1>2. ASSUME NEW i \in DOMAIN Tail(s)
      PROVE  Tail(s)[i] = s[i + 1] /\ i + 1 \in DOMAIN s
  BY <1>1
<1> QED BY <1>1, <1>2 DEF InSeq

LEMMA InSeqConcat ==
  ASSUME NEW S, NEW s \in Seq(S), NEW t \in Seq(S)
  PROVE  InSeq(s \o t) = InSeq(s) \cup InSeq(t)
<1>1. InSeq(s \o t) \subseteq InSeq(s) \cup InSeq(t)
  BY DEF InSeq
<1>2. InSeq(s) \subseteq InSeq(s \o t)
  BY DEF InSeq
<1>3. ASSUME NEW i \in DOMAIN t PROVE t[i] \in InSeq(s \o t)
  <2>1. (s \o t)[Len(s) + i] = t[i] /\ Len(s) + i \in DOMAIN (s \o t)
    OBVIOUS
  <2> QED BY <2>1 DEF InSeq
<1> QED BY <1>1, <1>2, <1>3 DEF InSeq

LEMMA InSeqType ==
  ASSUME NEW S, NEW s \in Seq(S)
  PROVE  InSeq(s) \subseteq S
  BY DEF InSeq
-----------------------------------------------------------------------------
(* Type correctness. *)

USE MessagesAssumption, ClassAssumption, WorkerAssumption, SystemAssumption

LEMMA InitType == Init => TypeOK
<1> SUFFICES ASSUME Init PROVE TypeOK
  OBVIOUS
<1>1. LinkTypeOK
  BY DEF Init, LinkInit, LinkTypeOK, ThreadStates, Workers, Ids
<1>2. ClassTypeOK
  <2> USE DEF Init, ClassInit
  <2>1. /\ worker \in Workers \cup {NoWorker} /\ workers \in 0 .. MaxWorkers
        /\ nextID \in 1 .. MaxCalls + 1
    BY DEF NoWorker
  <2>2. /\ promise \in [Ids -> Outcomes]
        /\ sent \in [Ids -> Requests \cup {NoRequest}]
        /\ sentTo \in [Ids -> Workers \cup {NoWorker}]
        /\ signalOf \in [Ids -> Signals \cup {NoSignal}]
    BY DEF Outcomes
  <2> QED BY <2>1, <2>2 DEF ClassTypeOK
<1>3. WorkerTypeOK
  BY DEF Init, WorkerInit, WorkerTypeOK, NewCore, CoreStates, NoCall, Workers
<1> QED BY <1>1, <1>2, <1>3 DEF TypeOK

\* What #send does to the variables it changes.
LEMMA SendType ==
  ASSUME TypeOK, NEW g \in Workers, NEW type \in Types, NEW timed \in BOOLEAN,
         NEW ends \in BOOLEAN, NEW sig \in Signals \cup {NoSignal},
         Send(g, type, timed, ends, sig)
  PROVE  /\ nextID \in Ids /\ nextID' \in 1 .. MaxCalls + 1
         /\ inbox' \in [Workers -> Seq(Requests)]
         /\ sent' \in [Ids -> Requests \cup {NoRequest}]
         /\ promise' \in [Ids -> Outcomes]
         /\ sentTo' \in [Ids -> Workers \cup {NoWorker}]
         /\ signalOf' \in [Ids -> Signals \cup {NoSignal}]
         /\ sawLoaded' \subseteq Ids /\ resolves' \subseteq Ids /\ rejects' \subseteq Ids
<1> DEFINE m == [id |-> nextID, type |-> type, timed |-> timed, ends |-> ends,
                 flagged |-> type = "EXEC" /\ sig # NoSignal /\ CanShare]
<1>1. nextID \in Ids /\ nextID' \in 1 .. MaxCalls + 1
  BY DEF Send, TypeOK, ClassTypeOK, Ids
<1>2. m \in Requests
  BY <1>1 DEF Requests
<1>3. inbox' = [inbox EXCEPT ![g] = Append(@, m)] /\ sent' = [sent EXCEPT ![nextID] = m]
  BY DEF Send, getMessageID
<1>4. inbox' \in [Workers -> Seq(Requests)] /\ sent' \in [Ids -> Requests \cup {NoRequest}]
  BY <1>1, <1>2, <1>3 DEF TypeOK, LinkTypeOK, ClassTypeOK
<1> QED BY <1>1, <1>4 DEF Send, getMessageID, TypeOK, ClassTypeOK, Outcomes

LEMMA ApplicationType ==
  ASSUME TypeOK, Application
  PROVE  LinkTypeOK' /\ ClassTypeOK'
<1>1. ASSUME NEW sig \in Signals \cup {NoSignal}, Load(sig)
      PROVE  LinkTypeOK' /\ ClassTypeOK'
  <2>1. worker' \in Workers /\ workers' \in 0 .. MaxWorkers
    BY <1>1 DEF Load, TypeOK, ClassTypeOK, Workers, NoWorker
  <2>3. alive' \in [Workers -> ThreadStates]
    BY <1>1 DEF Load, TypeOK, LinkTypeOK, ThreadStates
  <2>2. Send(worker', "LOAD", FALSE, TRUE, sig)
    BY <1>1 DEF Load
  <2> QED BY <1>1, <2>1, <2>2, <2>3, SendType DEF Load, Types, TypeOK, LinkTypeOK, ClassTypeOK
<1>2. ASSUME NEW type \in Types, NEW timed \in BOOLEAN, NEW ends \in BOOLEAN,
             NEW sig \in Signals \cup {NoSignal}, Call(type, timed, ends, sig)
      PROVE  LinkTypeOK' /\ ClassTypeOK'
  <2>1. worker \in Workers /\ Send(worker, type, timed, ends, sig)
    BY <1>2 DEF Call, TypeOK, ClassTypeOK
  <2> QED BY <1>2, <2>1, SendType DEF Call, TypeOK, LinkTypeOK, ClassTypeOK
<1>3. ASSUME NEW s \in Signals, Abort(s)
      PROVE  LinkTypeOK' /\ ClassTypeOK'
  BY <1>3 DEF Abort, Settle, TypeOK, LinkTypeOK, ClassTypeOK, Outcomes, Endings
<1>4. ASSUME Terminate PROVE LinkTypeOK' /\ ClassTypeOK'
  BY <1>4 DEF Terminate, RejectAllAndDrop, DropWorker, LoadedAfterTerminate, TypeOK,
              LinkTypeOK, ClassTypeOK, Outcomes, Endings, NoWorker, ThreadStates
<1> QED BY <1>1, <1>2, <1>3, <1>4
      DEF Application, Calls, Exec, Probe, FileOp, Types
LEMMA DeliverType ==
  ASSUME TypeOK, NEW g \in Workers, Deliver(g)
  PROVE  LinkTypeOK' /\ ClassTypeOK'
<1> USE DEF TypeOK, LinkTypeOK, ClassTypeOK
<1>1. ASSUME outbox[g] # << >>
      PROVE  Front(g) \in Messages /\ Popped(g) \in [Workers -> Seq(Messages)]
  BY <1>1, InSeqTail DEF Front, Popped
<1>2. ASSUME NEW box \in [Workers -> Seq(Messages)], NEW events \in [Workers -> BOOLEAN],
             DropWorker(box, events)
      PROVE  /\ worker' \in Workers \cup {NoWorker} /\ terminated' \subseteq Workers
             /\ alive' \in [Workers -> ThreadStates] /\ failed' \in [Workers -> BOOLEAN]
             /\ outbox' \in [Workers -> Seq(Messages)]
  BY <1>2 DEF DropWorker, ThreadStates, NoWorker
<1>3. CASE DeliverReply(g) \/ DeliverError(g)
  <2>1. outbox[g] # << >> /\ Front(g).data \in Values \cup Errors
    BY <1>1, <1>3 DEF DeliverReply, DeliverError, Messages
  <2>2. promise' \in [Ids -> Outcomes]
    BY <1>3, <2>1 DEF DeliverReply, DeliverError, Settle, Outcomes
  <2> QED BY <1>1, <1>3, <2>1, <2>2 DEF DeliverReply, DeliverError, Forget
<1>4. CASE DeliverTrap(g)
  <2>1. outbox[g] # << >> /\ RejectAllAndDrop(Popped(g),
          [id \in Ids |-> IF id = Front(g).id THEN "trap" ELSE "crashed"])
    BY <1>4 DEF DeliverTrap
  <2>2. DropWorker(Popped(g), failed)
    BY <2>1 DEF RejectAllAndDrop
  <2>3. promise' \in [Ids -> Outcomes]
    BY <2>1 DEF RejectAllAndDrop, Outcomes, Errors, Endings
  <2> QED BY <1>1, <1>2, <2>1, <2>2, <2>3 DEF RejectAllAndDrop, LoadedAfterTerminate
<1>5. CASE DeliverStray(g) \/ DeliverEvent(g)
  BY <1>1, <1>5 DEF DeliverStray, DeliverEvent, classVars, callVars
<1>6. CASE DeliverFailure(g)
  <2>1. DropWorker(outbox, [failed EXCEPT ![g] = FALSE])
    BY <1>6 DEF DeliverFailure
  <2>2. promise' \in [Ids -> Outcomes]
    BY <1>6 DEF DeliverFailure, Settle, Outcomes, Endings
  <2> QED BY <1>2, <1>6, <2>1, <2>2 DEF DeliverFailure
<1>7. CASE IgnoreFailure(g)
  BY <1>7 DEF IgnoreFailure, classVars, callVars
<1> QED BY <1>3, <1>4, <1>5, <1>6, <1>7 DEF Deliver

LEMMA WorkerStepType ==
  ASSUME TypeOK, NEW g \in Workers, WorkerStep(g)
  PROVE  LinkTypeOK' /\ WorkerTypeOK'
<1> USE DEF TypeOK, LinkTypeOK, WorkerTypeOK
<1>1. CASE Boot(g) \/ Die(g) \/ Exit(g)
  BY <1>1 DEF Boot, Die, Exit, workerVars, ThreadStates
<1>2. ASSUME NEW T, Receives(g, T)
      PROVE  Request(g) \in Requests /\ inbox' \in [Workers -> Seq(Requests)]
  BY <1>2, InSeqTail DEF Receives, Request
<1>3. ASSUME NEW msgs \in Seq(Messages), Post(g, msgs)
      PROVE  outbox' \in [Workers -> Seq(Messages)]
  BY <1>3 DEF Post
<1>4. ASSUME NEW id \in Ids, NEW data \in Values \cup Errors,
             NEW type \in Types \cup {"ERROR", "LOG"}
      PROVE  Reply(type, id, data) \in Messages
  BY DEF Reply, Messages
<1>5. ASSUME NEW c \in CoreStates, NEW m \in Requests
      PROVE  Started(c, m) \in CoreStates /\ Reset(c, m) \in CoreStates
  <2>1. /\ c.active \in SUBSET Requests /\ c.abortFlag \in Ids \cup {NoCall}
        /\ m.id \in Ids /\ m.timed \in BOOLEAN /\ 0 \in 0 .. MaxEvents
    BY DEF CoreStates, Requests
  <2>4. Started(c, m) \in CoreStates
    BY <2>1 DEF Started, CoreStates
  <2> QED BY <2>1, <2>4 DEF Reset, CoreStates
<1>6. CASE StartLoad(g) \/ JoinLoad(g)
  <2>1. Request(g).id \in Ids
    BY <1>2, <1>6 DEF StartLoad, JoinLoad, Requests
  <2>2. <<Request(g).id>> \in Seq(Ids) /\ Append(loads[g], Request(g).id) \in Seq(Ids)
    BY <2>1
  <2>3. loads' \in [Workers -> Seq(Ids)] /\ slot' \in [Workers -> {"empty", "loading", "done"}]
    BY <1>6, <2>2 DEF StartLoad, JoinLoad
  <2> QED BY <1>2, <1>6, <2>3 DEF StartLoad, JoinLoad
<1>7. CASE LoadAgain(g) \/ Refuse(g) \/ ServeFileOp(g)
  <2>1. Request(g).id \in Ids
    BY <1>2, <1>7 DEF LoadAgain, Refuse, ServeFileOp, Requests
  <2>3. /\ <<Reply("LOAD", Request(g).id, "again")>> \in Seq(Messages)
        /\ <<Reply("FS", Request(g).id, "done")>> \in Seq(Messages)
        /\ Failure(Request(g).id, "notLoaded") \in Seq(Messages)
        /\ Failure(Request(g).id, "failed") \in Seq(Messages)
    BY <1>4, <2>1 DEF Failure, Types, Values, Errors
  <2>2. PICK msgs \in Seq(Messages) : Post(g, msgs)
    BY <1>7, <2>3 DEF LoadAgain, Refuse, ServeFileOp
  <2> QED BY <1>2, <1>3, <1>7, <2>2 DEF LoadAgain, Refuse, ServeFileOp, workerVars
<1>8. CASE LoadSettles(g)
  <2>1. \A i \in 1 .. Len(loads[g]) : loads[g][i] \in Ids
    OBVIOUS
  <2>2. PICK msgs \in Seq(Messages) : Post(g, msgs)
    <3>1. CASE LoadSucceeds(g)
      <4> DEFINE msgs == [i \in 1 .. Len(loads[g]) |->
                Reply("LOAD", loads[g][i], IF i = 1 THEN "first" ELSE "again")]
      <4>1. \A i \in 1 .. Len(loads[g]) : msgs[i] \in Messages
        BY <1>4, <2>1 DEF Types, Values
      <4>2. msgs \in Seq(Messages)
        BY <4>1
      <4> QED BY <3>1, <4>2 DEF LoadSucceeds
    <3>2. ASSUME NEW error \in {"failed", "trap"}, LoadFails(g, error)
          PROVE  \E msgs \in Seq(Messages) : Post(g, msgs)
      <4> DEFINE msgs == [i \in 1 .. Len(loads[g]) |-> Reply("ERROR", loads[g][i], error)]
      <4>1. \A i \in 1 .. Len(loads[g]) : msgs[i] \in Messages
        BY <1>4, <2>1 DEF Errors
      <4>2. msgs \in Seq(Messages)
        BY <4>1
      <4> QED BY <3>2, <4>2 DEF LoadFails
    <3> QED BY <1>8, <3>1, <3>2 DEF LoadSettles
  <2>3. outbox' \in [Workers -> Seq(Messages)]
    BY <1>3, <2>2
  <2>4. CASE LoadSucceeds(g)
    BY <2>3, <2>4 DEF LoadSucceeds
  <2>5. ASSUME NEW error \in {"failed", "trap"}, LoadFails(g, error)
        PROVE  LinkTypeOK' /\ WorkerTypeOK'
    BY <2>3, <2>5 DEF LoadFails
  <2> QED BY <1>8, <2>4, <2>5 DEF LoadSettles
<1>9. CASE ReceiveCommand(g)
  <2>1. Request(g) \in Requests /\ inbox' \in [Workers -> Seq(Requests)]
    BY <1>2, <1>9 DEF ReceiveCommand
  <2>4. /\ Started(core[g], Request(g)) \in CoreStates
        /\ Append(queue[g], Request(g)) \in Seq(Requests)
    BY <1>5, <2>1
  <2>2. core' \in [Workers -> CoreStates]
    BY <1>9, <2>4 DEF ReceiveCommand
  <2>3. queue' \in [Workers -> Seq(Requests)]
    BY <1>9, <2>4 DEF ReceiveCommand
  <2> QED BY <1>9, <2>1, <2>2, <2>3 DEF ReceiveCommand
<1>10. ASSUME NEW m \in core[g].active, Emit(g, m)
       PROVE  LinkTypeOK' /\ WorkerTypeOK'
  <2>1. m \in Requests /\ core[g] \in CoreStates
    BY DEF CoreStates
  <2>2. <<Reply("LOG", m.id, "done")>> \in Seq(Messages)
    BY <1>4, <2>1 DEF Requests, Values
  <2>4. core[g].events + 1 \in 0 .. MaxEvents
    BY <1>10, <2>1 DEF Emit, CoreStates
  <2>3. [core[g] EXCEPT !.events = @ + 1] \in CoreStates
    BY <2>1, <2>4 DEF CoreStates
  <2> QED BY <1>3, <1>10, <2>2, <2>3 DEF Emit
<1>11. ASSUME NEW m \in core[g].active, NEW answer \in Seq(Messages), Finish(g, m, answer)
       PROVE  LinkTypeOK' /\ WorkerTypeOK'
  <2>1. m \in Requests /\ core[g] \in CoreStates
    BY DEF CoreStates
  <2>2. queue[g] # << >> => Head(queue[g]) \in Requests /\ Tail(queue[g]) \in Seq(Requests)
    BY InSeqTail
  <2> QED BY <1>3, <1>5, <1>11, <2>1, <2>2 DEF Finish
<1>12. CASE RunCommand(g)
  <2>1. PICK m \in core[g].active : Emit(g, m) \/ Complete(g, m) \/ Stop(g, m) \/ Throw(g, m)
    BY <1>12 DEF RunCommand
  <2>2. m \in Requests
    BY DEF CoreStates
  <2>3. /\ <<Reply(m.type, m.id, "done")>> \in Seq(Messages)
        /\ <<Reply(m.type, m.id, "stopped")>> \in Seq(Messages)
        /\ \A error \in {"failed", "trap"} : Failure(m.id, error) \in Seq(Messages)
    BY <1>4, <2>2 DEF Requests, Failure, Values, Errors
  <2> QED BY <1>10, <1>11, <2>1, <2>3 DEF Complete, Stop, Throw
<1> QED BY <1>1, <1>6, <1>7, <1>8, <1>9, <1>12 DEF WorkerStep, Receive

\* Every step keeps every variable in its type.
LEMMA NextType == TypeOK /\ [Next]_vars => TypeOK'
<1> SUFFICES ASSUME TypeOK, [Next]_vars PROVE TypeOK'
  OBVIOUS
<1>1. CASE (Application \/ \E g \in Workers : Deliver(g)) /\ UNCHANGED workerVars
  <2>1. LinkTypeOK' /\ ClassTypeOK'
    BY <1>1, ApplicationType, DeliverType
  <2> QED BY <1>1, <2>1 DEF TypeOK, WorkerTypeOK, workerVars
<1>2. CASE (\E g \in Workers : WorkerStep(g)) /\ UNCHANGED classVars
  <2>1. LinkTypeOK' /\ WorkerTypeOK'
    BY <1>2, WorkerStepType
  <2> QED BY <1>2, <2>1 DEF TypeOK, ClassTypeOK, classVars, callVars
<1>3. CASE UNCHANGED vars
  BY <1>3 DEF vars, classVars, callVars, linkVars, workerVars, TypeOK, LinkTypeOK,
              ClassTypeOK, WorkerTypeOK
<1> QED BY <1>1, <1>2, <1>3 DEF Next

\* Every variable always has its type, whatever the menu of calls and however
\* many calls, workers and signals there are.
THEOREM TypeCorrect == Spec => []TypeOK
  BY InitType, NextType, PTL DEF Spec
-----------------------------------------------------------------------------
(* Where requests go. A step moves a request along its worker or answers it, *)
(* and only #send brings a new one in.                                       *)

LEMMA InSeqSingle ==
  ASSUME NEW e PROVE InSeq(<<e>>) = {e}
<1>1. DOMAIN <<e>> = {1} /\ <<e>>[1] = e
  OBVIOUS
<1> QED BY <1>1 DEF InSeq

LEMMA ReplyFields ==
  ASSUME NEW id \in Ids, NEW data \in Values \cup Errors,
         NEW type \in Types \cup {"ERROR", "LOG"}
  PROVE  /\ Reply(type, id, data) \in Messages
         /\ Reply(type, id, data).id = id /\ Reply(type, id, data).type = type
  BY DEF Reply, Messages

\* A worker's step brings no request into any worker.
LEMMA WorkerStepInFlight ==
  ASSUME TypeOK, NEW g \in Workers, WorkerStep(g), NEW h \in Workers
  PROVE  InFlight(h)' \subseteq InFlight(h)
<1> USE DEF TypeOK, LinkTypeOK, WorkerTypeOK
<1>1. CASE Boot(g) \/ Die(g) \/ Exit(g)
  BY <1>1 DEF Boot, Die, Exit, workerVars, InFlight, Unreceived, Loading, Queued,
              Executing, Answered
<1>2. ASSUME NEW T, Receives(g, T)
      PROVE  /\ Unreceived(h)' \subseteq InFlight(h)
             /\ Request(g) \in Requests /\ Request(g).id \in InFlight(g)
  <2>1. /\ InSeq(Tail(inbox[g])) \subseteq InSeq(inbox[g])
        /\ Request(g) \in InSeq(inbox[g]) /\ Request(g) \in Requests
    BY <1>2, InSeqTail DEF Receives, Request
  <2>2. InSeq(inbox'[h]) \subseteq InSeq(inbox[h])
    BY <1>2, <2>1 DEF Receives
  <2> QED BY <2>1, <2>2 DEF Unreceived, InFlight
<1>3. ASSUME NEW msgs \in Seq(Messages), Post(g, msgs),
             \A n \in InSeq(msgs) : n.type = "LOG" \/ n.id \in InFlight(g)
      PROVE  Answered(h)' \subseteq InFlight(h)
  <2>1. h = g => InSeq(outbox'[h]) = InSeq(outbox[h]) \cup InSeq(msgs)
    BY <1>3, InSeqConcat DEF Post
  <2>2. h # g => outbox'[h] = outbox[h]
    BY <1>3 DEF Post
  <2> QED BY <1>3, <2>1, <2>2 DEF Answered, InFlight
<1>4. ASSUME NEW id \in Ids, NEW data \in Values \cup Errors,
             NEW type \in Types \cup {"ERROR", "LOG"}, type = "LOG" \/ id \in InFlight(g),
             Post(g, <<Reply(type, id, data)>>)
       PROVE  Answered(h)' \subseteq InFlight(h)
  <2>1. \A n \in InSeq(<<Reply(type, id, data)>>) : n.type = "LOG" \/ n.id \in InFlight(g)
    BY <1>4, InSeqSingle, ReplyFields
  <2>2. <<Reply(type, id, data)>> \in Seq(Messages)
    BY ReplyFields
  <2> QED BY <1>3, <1>4, <2>1, <2>2
<1>5. CASE StartLoad(g) \/ JoinLoad(g)
  <2>1. Unreceived(h)' \subseteq InFlight(h) /\ Request(g).id \in InFlight(g)
    BY <1>2, <1>5 DEF StartLoad, JoinLoad
  <2>2. Request(g).id \in Ids
    BY <1>2, <1>5 DEF StartLoad, JoinLoad, Requests
  <2>3. InSeq(<<Request(g).id>>) = {Request(g).id}
    BY InSeqSingle
  <2>4. InSeq(Append(loads[g], Request(g).id)) = InSeq(loads[g]) \cup {Request(g).id}
    BY <2>2, InSeqAppend
  <2>5. Loading(h)' \subseteq InFlight(h)
    BY <1>5, <2>1, <2>3, <2>4 DEF StartLoad, JoinLoad, Loading, InFlight
  <2>6. Queued(h)' = Queued(h) /\ Executing(h)' = Executing(h) /\ Answered(h)' = Answered(h)
    BY <1>5 DEF StartLoad, JoinLoad, Queued, Executing, Answered
  <2> QED BY <2>1, <2>5, <2>6 DEF InFlight
<1>6. CASE LoadAgain(g) \/ Refuse(g) \/ ServeFileOp(g)
  <2>1. /\ Unreceived(h)' \subseteq InFlight(h)
        /\ Request(g).id \in InFlight(g) /\ Request(g).id \in Ids
    BY <1>2, <1>6 DEF LoadAgain, Refuse, ServeFileOp, Requests
  <2>2. PICK type \in Types \cup {"ERROR"}, data \in Values \cup Errors :
          Post(g, <<Reply(type, Request(g).id, data)>>)
    BY <1>6 DEF LoadAgain, Refuse, ServeFileOp, Failure, Types, Values, Errors
  <2>3. Answered(h)' \subseteq InFlight(h)
    BY <1>4, <2>1, <2>2
  <2>4. Loading(h)' = Loading(h) /\ Queued(h)' = Queued(h) /\ Executing(h)' = Executing(h)
    BY <1>6 DEF LoadAgain, Refuse, ServeFileOp, workerVars, Loading, Queued, Executing
  <2> QED BY <2>1, <2>3, <2>4 DEF InFlight
<1>7. CASE LoadSettles(g)
  <2>1. ASSUME NEW msgs, Post(g, msgs), DOMAIN msgs = 1 .. Len(loads[g]),
               \A i \in 1 .. Len(loads[g]) :
                 \E type \in Types \cup {"ERROR"}, data \in Values \cup Errors :
                   msgs[i] = Reply(type, loads[g][i], data),
               msgs = [i \in 1 .. Len(loads[g]) |-> msgs[i]]
        PROVE  Answered(h)' \subseteq InFlight(h)
    <3>1. \A i \in 1 .. Len(loads[g]) : loads[g][i] \in Ids /\ loads[g][i] \in InFlight(g)
      BY DEF InFlight, Loading, InSeq
    <3>2. \A i \in 1 .. Len(loads[g]) : msgs[i] \in Messages /\ msgs[i].id \in InFlight(g)
      <4> TAKE i \in 1 .. Len(loads[g])
      <4>1. PICK type \in Types \cup {"ERROR"}, data \in Values \cup Errors :
              msgs[i] = Reply(type, loads[g][i], data)
        BY <2>1
      <4>2. Reply(type, loads[g][i], data) \in Messages
        BY ReplyFields, <3>1
      <4>3. Reply(type, loads[g][i], data).id = loads[g][i]
        BY ReplyFields, <3>1
      <4> QED BY <3>1, <4>1, <4>2, <4>3
    <3>3. msgs \in Seq(Messages)
      BY <2>1, <3>2
    <3>4. \A n \in InSeq(msgs) : n.id \in InFlight(g)
      BY <2>1, <3>2 DEF InSeq
    <3> QED BY <1>3, <2>1, <3>3, <3>4
  <2>2. Answered(h)' \subseteq InFlight(h)
    <3>1. CASE LoadSucceeds(g)
      BY <2>1, <3>1 DEF LoadSucceeds, Types, Values
    <3>2. ASSUME NEW error \in {"failed", "trap"}, LoadFails(g, error)
          PROVE  Answered(h)' \subseteq InFlight(h)
      BY <2>1, <3>2 DEF LoadFails, Errors
    <3> QED BY <1>7, <3>1, <3>2 DEF LoadSettles
  <2>3. InSeq(<< >>) = {}
    BY DEF InSeq
  <2>4. /\ Loading(h)' \subseteq Loading(h)
        /\ Unreceived(h)' = Unreceived(h) /\ Queued(h)' = Queued(h)
        /\ Executing(h)' = Executing(h)
    BY <1>7, <2>3 DEF LoadSettles, LoadSucceeds, LoadFails, Loading, Unreceived, Queued,
                      Executing
  <2> QED BY <2>2, <2>4 DEF InFlight
<1>8. ASSUME NEW c, NEW m PROVE Started(c, m).active = c.active \cup {m}
                                /\ Reset(c, m).active = c.active \ {m}
  BY DEF Started, Reset
<1>9. CASE ReceiveCommand(g)
  <2>1. /\ Unreceived(h)' \subseteq InFlight(h)
        /\ Request(g) \in Requests /\ Request(g).id \in InFlight(g)
    BY <1>2, <1>9 DEF ReceiveCommand
  <2>2. InSeq(Append(queue[g], Request(g))) = InSeq(queue[g]) \cup {Request(g)}
    BY <2>1, InSeqAppend
  <2>3. Queued(h)' \subseteq InFlight(h)
    BY <1>9, <2>1, <2>2 DEF ReceiveCommand, Queued, InFlight
  <2>4. Executing(h)' \subseteq InFlight(h)
    <3>1. h = g => core'[h].active \subseteq core[h].active \cup {Request(g)}
      BY <1>8, <1>9 DEF ReceiveCommand
    <3>2. h # g => core'[h] = core[h]
      BY <1>9 DEF ReceiveCommand
    <3> QED BY <2>1, <3>1, <3>2 DEF Executing, InFlight
  <2>5. Loading(h)' = Loading(h) /\ Answered(h)' = Answered(h)
    BY <1>9 DEF ReceiveCommand, Loading, Answered
  <2> QED BY <2>1, <2>3, <2>4, <2>5 DEF InFlight
<1>10. ASSUME NEW m \in core[g].active, Emit(g, m)
       PROVE  InFlight(h)' \subseteq InFlight(h)
  <2>1. m.id \in Ids
    BY DEF CoreStates, Requests
  <2>2. Answered(h)' \subseteq InFlight(h)
    <3>1. "LOG" \in Types \cup {"ERROR", "LOG"} /\ "done" \in Values \cup Errors
      BY DEF Values
    <3> QED BY <1>10, <1>4, <2>1, <3>1 DEF Emit
  <2>3. core[g] \in CoreStates /\ core'[g].active = core[g].active
    BY <1>10 DEF Emit, CoreStates
  <2>4. Executing(h)' = Executing(h)
    BY <1>10, <2>3 DEF Emit, Executing
  <2>5. Unreceived(h)' = Unreceived(h) /\ Loading(h)' = Loading(h) /\ Queued(h)' = Queued(h)
    BY <1>10 DEF Emit, Unreceived, Loading, Queued
  <2> QED BY <2>2, <2>4, <2>5 DEF InFlight
<1>11. ASSUME NEW m \in core[g].active, NEW type \in Types \cup {"ERROR"},
              NEW data \in Values \cup Errors, Finish(g, m, <<Reply(type, m.id, data)>>)
       PROVE  InFlight(h)' \subseteq InFlight(h)
  <2>1. m.id \in Ids /\ m.id \in InFlight(g)
    BY DEF CoreStates, Requests, InFlight, Executing
  <2>2. Answered(h)' \subseteq InFlight(h)
    BY <1>11, <1>4, <2>1 DEF Finish
  <2>3. queue[g] # << >> => /\ Head(queue[g]) \in InSeq(queue[g])
                            /\ InSeq(Tail(queue[g])) \subseteq InSeq(queue[g])
    BY InSeqTail
  <2>4. Queued(h)' \subseteq Queued(h)
    BY <1>11, <2>3 DEF Finish, Queued
  <2>5. Executing(h)' \subseteq InFlight(h)
    <3>1. h = g => \/ core'[h].active \subseteq core[h].active
                   \/ /\ queue[h] # << >>
                      /\ core'[h].active \subseteq core[h].active \cup {Head(queue[h])}
      BY <1>8, <1>11 DEF Finish
    <3>2. h # g => core'[h] = core[h]
      BY <1>11 DEF Finish
    <3> QED BY <2>3, <3>1, <3>2 DEF Executing, Queued, InFlight
  <2>6. Unreceived(h)' = Unreceived(h) /\ Loading(h)' = Loading(h)
    BY <1>11 DEF Finish, Unreceived, Loading
  <2> QED BY <2>2, <2>4, <2>5, <2>6 DEF InFlight
<1>12. CASE RunCommand(g)
  <2>1. PICK m \in core[g].active : Emit(g, m) \/ Complete(g, m) \/ Stop(g, m) \/ Throw(g, m)
    BY <1>12 DEF RunCommand
  <2>2. m.type \in Types
    BY DEF CoreStates, Requests
  <2>3. ASSUME Complete(g, m) \/ Stop(g, m) \/ Throw(g, m)
        PROVE  \E type \in Types \cup {"ERROR"}, data \in Values \cup Errors :
                 Finish(g, m, <<Reply(type, m.id, data)>>)
    BY <2>2, <2>3 DEF Complete, Stop, Throw, Failure, Values, Errors
  <2> QED BY <1>10, <1>11, <2>1, <2>3
<1> QED BY <1>1, <1>5, <1>6, <1>7, <1>9, <1>12 DEF WorkerStep, Receive

\* #send adds the new id, to the worker it posts to.
LEMMA SendInFlight ==
  ASSUME TypeOK, NEW g \in Workers, NEW type \in Types, NEW timed \in BOOLEAN,
         NEW ends \in BOOLEAN, NEW sig \in Signals \cup {NoSignal},
         Send(g, type, timed, ends, sig), UNCHANGED <<workerVars, outbox>>,
         NEW h \in Workers
  PROVE  InFlight(h)' \subseteq InFlight(h) \cup (IF h = g THEN {nextID} ELSE {})
<1> DEFINE m == [id |-> nextID, type |-> type, timed |-> timed, ends |-> ends,
                 flagged |-> type = "EXEC" /\ sig # NoSignal /\ CanShare]
<1>1. nextID \in Ids /\ inbox' = [inbox EXCEPT ![g] = Append(@, m)]
  BY DEF Send, getMessageID, TypeOK, ClassTypeOK, Ids
<1>2. m \in Requests /\ m.id = nextID
  BY <1>1 DEF Requests
<1> HIDE DEF m
<1>3. InSeq(Append(inbox[g], m)) = InSeq(inbox[g]) \cup {m}
  BY <1>2, InSeqAppend DEF TypeOK, LinkTypeOK
<1>4. h = g => inbox'[h] = Append(inbox[h], m)
  BY <1>1 DEF TypeOK, LinkTypeOK
<1>5. h # g => inbox'[h] = inbox[h]
  BY <1>1 DEF TypeOK, LinkTypeOK
<1>6. Unreceived(h)' \subseteq Unreceived(h) \cup (IF h = g THEN {nextID} ELSE {})
  <2>1. CASE h = g
    <3>1. InSeq(inbox'[h]) = InSeq(inbox[h]) \cup {m}
      BY <1>3, <1>4, <2>1
    <3>2. Unreceived(h)' \subseteq Unreceived(h) \cup {nextID}
      BY <1>2, <3>1 DEF Unreceived
    <3> QED BY <2>1, <3>2
  <2>2. CASE h # g
    BY <1>5, <2>2 DEF Unreceived
  <2> QED BY <2>1, <2>2
<1> QED BY <1>6 DEF workerVars, InFlight, Loading, Queued, Executing, Answered

\* What changes nothing but the outboxes, and only shortens them, adds nothing.
LEMMA ShorterOutbox ==
  ASSUME UNCHANGED <<workerVars, inbox>>, NEW h \in Workers,
         InSeq(outbox'[h]) \subseteq InSeq(outbox[h])
  PROVE  InFlight(h)' \subseteq InFlight(h)
  BY DEF workerVars, InFlight, Unreceived, Loading, Queued, Executing, Answered

LEMMA PoppedShorter ==
  ASSUME TypeOK, NEW g \in Workers, outbox[g] # << >>, NEW h \in Workers
  PROVE  /\ InSeq(Popped(g)[h]) \subseteq InSeq(outbox[h])
         /\ Front(g) \in InSeq(outbox[g]) /\ Front(g) \in Messages
         /\ Popped(g) \in [Workers -> Seq(Messages)]
<1>1. /\ InSeq(Tail(outbox[g])) \subseteq InSeq(outbox[g])
      /\ Front(g) \in InSeq(outbox[g]) /\ Front(g) \in Messages
  BY InSeqTail DEF Front, TypeOK, LinkTypeOK
<1>2. Popped(g)[h] = IF h = g THEN Tail(outbox[g]) ELSE outbox[h]
  BY DEF Popped, TypeOK, LinkTypeOK
<1> QED BY <1>1, <1>2 DEF Popped, TypeOK, LinkTypeOK

LEMMA DropShorter ==
  ASSUME NEW box, NEW events, DropWorker(box, events), NEW h \in Workers,
         InSeq(box[h]) \subseteq InSeq(outbox[h])
  PROVE  InSeq(outbox'[h]) \subseteq InSeq(outbox[h])
<1>1. outbox'[h] = << >> \/ outbox'[h] = box[h]
  BY DEF DropWorker
<1>2. InSeq(<< >>) = {}
  BY DEF InSeq
<1> QED BY <1>1, <1>2

LEMMA DeliverInFlight ==
  ASSUME TypeOK, NEW g \in Workers, Deliver(g), UNCHANGED workerVars, NEW h \in Workers
  PROVE  InFlight(h)' \subseteq InFlight(h)
<1>1. CASE DeliverReply(g) \/ DeliverError(g) \/ DeliverStray(g) \/ DeliverEvent(g)
  <2>1. outbox[g] # << >> /\ outbox' = Popped(g) /\ inbox' = inbox
    BY <1>1 DEF DeliverReply, DeliverError, DeliverStray, DeliverEvent
  <2> QED BY <2>1, PoppedShorter, ShorterOutbox
<1>2. CASE DeliverTrap(g)
  <2>1. outbox[g] # << >> /\ DropWorker(Popped(g), failed) /\ inbox' = inbox
    BY <1>2 DEF DeliverTrap, RejectAllAndDrop
  <2> QED BY <2>1, PoppedShorter, DropShorter, ShorterOutbox
<1>3. CASE DeliverFailure(g)
  <2>1. DropWorker(outbox, [failed EXCEPT ![g] = FALSE]) /\ inbox' = inbox
    BY <1>3 DEF DeliverFailure
  <2> QED BY <2>1, DropShorter, ShorterOutbox
<1>4. CASE IgnoreFailure(g)
  BY <1>4, ShorterOutbox DEF IgnoreFailure
<1> QED BY <1>1, <1>2, <1>3, <1>4 DEF Deliver

\* A reply or an ERROR at the front of an outbox answers a request in flight.
LEMMA FrontInFlight ==
  ASSUME TypeOK, NEW g \in Workers, outbox[g] # << >>, Front(g).type # "LOG"
  PROVE  Front(g).id \in InFlight(g) /\ Front(g).id \in Ids
<1>1. Front(g) \in InSeq(outbox[g]) /\ Front(g) \in Messages
  BY PoppedShorter
<1> QED BY <1>1 DEF InFlight, Answered, Messages

LEMMA InFlightType ==
  ASSUME TypeOK, NEW h \in Workers PROVE InFlight(h) \subseteq Ids
<1> USE DEF TypeOK, LinkTypeOK, WorkerTypeOK
<1>1. \A n \in Requests \cup Messages : n.id \in Ids
  BY DEF Requests, Messages
<1>2. InSeq(inbox[h]) \subseteq Requests /\ InSeq(queue[h]) \subseteq Requests
  BY InSeqType
<1>3. InSeq(outbox[h]) \subseteq Messages /\ InSeq(loads[h]) \subseteq Ids
  BY InSeqType
<1>4. core[h].active \subseteq Requests
  BY DEF CoreStates
<1> QED BY <1>1, <1>2, <1>3, <1>4 DEF InFlight, Unreceived, Loading, Queued, Executing, Answered
-----------------------------------------------------------------------------
(* The inductive invariant.                                                 *)

LEMMA InitIInv == Init => IInv
<1> SUFFICES ASSUME Init PROVE IInv
  OBVIOUS
<1>1. TypeOK
  BY InitType
<1>2. Bookkeeping /\ FreshIDs /\ CallbacksOfWorker /\ FailureHitsOwnCalls
  BY DEF Init, ClassInit, Bookkeeping, FreshIDs, CallbacksOfWorker, FailureHitsOwnCalls, Pending
<1>3. KnownWorkers
  BY DEF Init, ClassInit, LinkInit, KnownWorkers, NoWorker, Workers
<1>4. \A g \in Workers : InFlight(g) = {}
  <2> TAKE g \in Workers
  <2>1. InSeq(<< >>) = {}
    BY DEF InSeq
  <2>2. inbox[g] = << >> /\ outbox[g] = << >> /\ loads[g] = << >> /\ queue[g] = << >>
    BY DEF Init, LinkInit, WorkerInit
  <2>3. core[g].active = {}
    BY DEF Init, WorkerInit, NewCore
  <2> QED BY <2>1, <2>2, <2>3 DEF InFlight, Unreceived, Loading, Queued, Executing, Answered
<1> QED BY <1>1, <1>2, <1>3, <1>4 DEF IInv, AnswersOwnCalls

\* A call: #send, after load() has or has not created a worker for it.
LEMMA SendKeepsIInv ==
  ASSUME IInv, NEW g \in Workers, NEW type \in Types, NEW timed \in BOOLEAN,
         NEW ends \in BOOLEAN, NEW sig \in Signals \cup {NoSignal},
         Send(g, type, timed, ends, sig), UNCHANGED <<workerVars, outbox>>,
         worker' = g, worker \in {g, NoWorker}
  PROVE  Bookkeeping' /\ FreshIDs' /\ AnswersOwnCalls' /\ CallbacksOfWorker' /\ FailureHitsOwnCalls'
<1> USE DEF IInv
<1>1. /\ nextID \in Ids /\ nextID' = nextID + 1
      /\ promise' = [promise EXCEPT ![nextID] = "pending"]
      /\ sentTo' = [sentTo EXCEPT ![nextID] = g]
      /\ resolves' = resolves \cup {nextID} /\ rejects' = rejects \cup {nextID}
  BY DEF Send, getMessageID
<1>2. /\ promise \in [Ids -> Outcomes] /\ sentTo \in [Ids -> Workers \cup {NoWorker}]
      /\ rejects \subseteq Ids /\ nextID \in Int /\ g # NoWorker
      /\ \A id \in Ids : id \in Int
  BY DEF TypeOK, ClassTypeOK, Ids, NoWorker, Workers
<1>3. \A id \in Ids : id # nextID => sentTo'[id] = sentTo[id] /\ promise'[id] = promise[id]
  BY <1>1, <1>2
<1>4. sentTo'[nextID] = g /\ promise'[nextID] = "pending"
  BY <1>1, <1>2
<1>5. nextID \notin rejects /\ sentTo[nextID] = NoWorker /\ promise[nextID] = "unsent"
  BY <1>1, <1>2 DEF FreshIDs
<1>6. Bookkeeping'
  BY <1>1, <1>2, <1>3 DEF Bookkeeping, Pending
<1>7. FreshIDs'
  BY <1>1, <1>2, <1>3 DEF FreshIDs
<1>8. AnswersOwnCalls'
  <2> SUFFICES ASSUME NEW h \in Workers, NEW id \in InFlight(h)' PROVE sentTo'[id] = h
    BY DEF AnswersOwnCalls
  <2>1. id \in InFlight(h) \/ (h = g /\ id = nextID)
    BY SendInFlight
  <2>2. CASE h = g /\ id = nextID
    BY <1>4, <2>2
  <2>3. CASE id \in InFlight(h)
    <3>1. sentTo[id] = h /\ id \in Ids /\ h # NoWorker
      BY <2>3, InFlightType DEF AnswersOwnCalls, Workers, NoWorker
    <3> QED BY <1>3, <1>5, <3>1
  <2> QED BY <2>1, <2>2, <2>3
<1>9. CallbacksOfWorker'
  BY <1>1, <1>2, <1>3, <1>4, <1>5 DEF CallbacksOfWorker, Bookkeeping
<1>10. FailureHitsOwnCalls'
  <2> SUFFICES ASSUME NEW id \in Ids, promise'[id] = "workerError" PROVE sentTo'[id] \in crashed
    BY DEF FailureHitsOwnCalls, workerVars
  <2> QED BY <1>3, <1>4 DEF FailureHitsOwnCalls
<1> QED BY <1>6, <1>7, <1>8, <1>9, <1>10

LEMMA CallKeepsIInv ==
  ASSUME IInv, UNCHANGED workerVars, NEW sig \in Signals \cup {NoSignal},
         \/ Load(sig)
         \/ \E type \in Types, timed \in BOOLEAN, ends \in BOOLEAN : Call(type, timed, ends, sig)
  PROVE  Bookkeeping' /\ FreshIDs' /\ AnswersOwnCalls' /\ CallbacksOfWorker' /\ FailureHitsOwnCalls'
         /\ KnownWorkers'
<1> USE DEF IInv
<1>1. worker \in Workers \cup {NoWorker} /\ workers \in 0 .. MaxWorkers
  BY DEF TypeOK, ClassTypeOK
<1>2. CASE Load(sig)
  <2>1. worker' \in Workers /\ worker \in {worker', NoWorker}
    BY <1>1, <1>2 DEF Load, NoWorker, Workers
  <2>2. Send(worker', "LOAD", FALSE, TRUE, sig) /\ outbox' = outbox
    BY <1>2 DEF Load
  <2>3. KnownWorkers'
    <3>1. UNCHANGED <<failed, crashed, terminated>>
      BY <1>2 DEF Load, workerVars
    <3>2. CASE UNCHANGED <<worker, workers, alive>>
      BY <3>1, <3>2 DEF KnownWorkers
    <3>3. CASE /\ worker = NoWorker /\ workers < MaxWorkers
               /\ workers' = workers + 1 /\ worker' = workers + 1
               /\ alive' = [alive EXCEPT ![workers + 1] = "starting"]
      <4>1. \A g \in Workers : alive'[g] = IF g = workers + 1 THEN "starting" ELSE alive[g]
        BY <3>3 DEF TypeOK, LinkTypeOK
      <4>2. workers \in Int /\ workers + 1 \in Workers /\ \A g \in Workers : g \in Int /\ g # 0
        BY <1>1, <3>3 DEF Workers
      <4>3. \A g \in terminated : g \in Workers /\ g <= workers
        BY <3>1, <3>3, <4>2 DEF TypeOK, ClassTypeOK, KnownWorkers, NoWorker
      <4> QED BY <3>1, <3>3, <4>1, <4>2, <4>3 DEF KnownWorkers, NoWorker
    <3> QED BY <1>2, <3>2, <3>3 DEF Load
  <2> QED BY <2>1, <2>2, <2>3, SendKeepsIInv DEF Types
<1>3. ASSUME NEW type \in Types, NEW timed \in BOOLEAN, NEW ends \in BOOLEAN,
             Call(type, timed, ends, sig)
      PROVE  Bookkeeping' /\ FreshIDs' /\ AnswersOwnCalls' /\ CallbacksOfWorker'
             /\ FailureHitsOwnCalls' /\ KnownWorkers'
  <2>1. worker \in Workers /\ worker' = worker /\ outbox' = outbox
    BY <1>1, <1>3 DEF Call
  <2>2. Send(worker, type, timed, ends, sig)
    BY <1>3 DEF Call
  <2>3. KnownWorkers'
    BY <1>3 DEF Call, KnownWorkers, workerVars
  <2> QED BY <2>1, <2>2, <2>3, SendKeepsIInv
<1> QED BY <1>2, <1>3

LEMMA AbortKeepsIInv ==
  ASSUME IInv, UNCHANGED workerVars, NEW s \in Signals, Abort(s)
  PROVE  Bookkeeping' /\ FreshIDs' /\ AnswersOwnCalls' /\ CallbacksOfWorker' /\ FailureHitsOwnCalls'
         /\ KnownWorkers'
<1> USE DEF IInv
<1>1. UNCHANGED <<worker, workers, resolves, rejects, nextID, sentTo, terminated, outbox, inbox,
                  failed, alive>>
  BY DEF Abort
<1>2. \A id \in Ids : promise'[id] = promise[id] \/ (Pending(id) /\ promise'[id] = "aborted")
  BY DEF Abort, Settle
<1>3. Bookkeeping' /\ FreshIDs' /\ CallbacksOfWorker'
  BY <1>1, <1>2 DEF Bookkeeping, FreshIDs, CallbacksOfWorker, Pending
<1>4. AnswersOwnCalls'
  <2>1. \A h \in Workers : InFlight(h)' \subseteq InFlight(h)
    BY <1>1, ShorterOutbox
  <2> QED BY <1>1, <2>1 DEF AnswersOwnCalls
<1>5. FailureHitsOwnCalls'
  BY <1>1, <1>2 DEF FailureHitsOwnCalls, workerVars
<1>6. KnownWorkers'
  BY <1>1 DEF KnownWorkers, workerVars
<1> QED BY <1>3, <1>4, <1>5, <1>6

\* Giving up the worker leaves a known worker behind, and events only of it.
LEMMA DropKeepsKnownWorkers ==
  ASSUME TypeOK, KnownWorkers, NEW box, NEW events, DropWorker(box, events),
         \A g \in Workers : events[g] => failed[g], UNCHANGED <<workers, crashed>>
  PROVE  KnownWorkers'
<1>1. worker \in Workers \cup {NoWorker} /\ workers \in Nat /\ \A g \in Workers : g # NoWorker
  BY DEF TypeOK, ClassTypeOK, Workers, NoWorker
<1>2. /\ worker' = NoWorker
      /\ terminated' = terminated \cup ({worker} \ {NoWorker})
      /\ \A g \in Workers : failed'[g] => failed[g] /\ (g # worker \/ OnNode)
      /\ \A g \in Workers : alive'[g] = IF g # worker \/ alive[g] = "ended" THEN alive[g]
                                         ELSE IF OnNode THEN "stopping" ELSE "ended"
  BY DEF DropWorker
<1>3. worker' <= workers'
  BY <1>1, <1>2 DEF NoWorker
<1>4. ASSUME NEW g \in Workers, g = worker
      PROVE  /\ g <= workers /\ g \in terminated'
             /\ alive'[g] \notin {"starting", "running"} /\ (alive'[g] = "stopping" => OnNode)
             /\ failed'[g] => OnNode
  BY <1>1, <1>2, <1>4 DEF KnownWorkers
<1>5. ASSUME NEW g \in Workers, g # worker
      PROVE  /\ alive'[g] = alive[g] /\ (failed'[g] => failed[g])
             /\ (g \in terminated' <=> g \in terminated)
  BY <1>1, <1>2, <1>5
<1>6. ASSUME NEW g \in Workers
      PROVE  /\ g > workers => alive'[g] = "none" /\ ~failed'[g] /\ g \notin terminated'
             /\ g <= workers => g \in terminated'
             /\ alive'[g] \notin {"starting", "running"}
             /\ alive'[g] = "stopping" => OnNode /\ g \in terminated'
             /\ failed'[g] => (g \in crashed \/ g \in terminated') /\ OnNode
  <2>1. CASE g = worker
    BY <1>1, <1>4, <2>1 DEF KnownWorkers, Workers
  <2>2. CASE g # worker
    BY <1>5, <2>2 DEF KnownWorkers
  <2> QED BY <2>1, <2>2
<1> QED BY <1>1, <1>2, <1>3, <1>6 DEF KnownWorkers

\* The ways to end a session: every callback is used up and forgotten.
LEMMA EndKeepsIInv ==
  ASSUME IInv, UNCHANGED <<workerVars, workers, nextID, sentTo, inbox>>,
         NEW box, NEW events, DropWorker(box, events),
         \A g \in Workers : events[g] => failed[g],
         \A g \in Workers : InSeq(box[g]) \subseteq InSeq(outbox[g]),
         rejects' = {}, resolves' = {},
         \A id \in Ids : \/ promise'[id] = promise[id] /\ ~(id \in rejects /\ Pending(id))
                         \/ /\ Pending(id) /\ promise'[id] # "pending"
                            /\ promise'[id] = "workerError" => worker \in crashed
  PROVE  Bookkeeping' /\ FreshIDs' /\ AnswersOwnCalls' /\ CallbacksOfWorker' /\ FailureHitsOwnCalls'
         /\ KnownWorkers'
<1> USE DEF IInv
<1>1. KnownWorkers'
  BY DropKeepsKnownWorkers DEF workerVars
<1>2. Bookkeeping' /\ FreshIDs' /\ CallbacksOfWorker'
  BY DEF Bookkeeping, FreshIDs, CallbacksOfWorker, Pending
<1>3. AnswersOwnCalls'
  <2>1. \A h \in Workers : InFlight(h)' \subseteq InFlight(h)
    BY DropShorter, ShorterOutbox
  <2> QED BY <2>1 DEF AnswersOwnCalls
<1>4. FailureHitsOwnCalls'
  BY DEF FailureHitsOwnCalls, CallbacksOfWorker, Bookkeeping, workerVars
<1> QED BY <1>1, <1>2, <1>3, <1>4

LEMMA RejectAllKeepsIInv ==
  ASSUME IInv, UNCHANGED workerVars, NEW box, NEW outcome, RejectAllAndDrop(box, outcome),
         \A g \in Workers : InSeq(box[g]) \subseteq InSeq(outbox[g]),
         \A id \in Ids : outcome[id] \notin {"pending", "workerError"}
  PROVE  Bookkeeping' /\ FreshIDs' /\ AnswersOwnCalls' /\ CallbacksOfWorker' /\ FailureHitsOwnCalls'
         /\ KnownWorkers'
<1> USE DEF IInv
<1>1. /\ DropWorker(box, failed) /\ rejects' = {} /\ resolves' = {}
      /\ UNCHANGED <<workers, nextID, sentTo, inbox>>
  BY DEF RejectAllAndDrop, Bookkeeping
<1>2. \A id \in Ids : \/ promise'[id] = promise[id] /\ ~(id \in rejects /\ Pending(id))
                      \/ /\ Pending(id) /\ promise'[id] # "pending"
                         /\ promise'[id] # "workerError"
  BY DEF RejectAllAndDrop
<1> QED BY <1>1, <1>2, EndKeepsIInv

\* Only a worker that died by itself, and it is the present one, gets through.
LEMMA FailureOfOwnWorker ==
  ASSUME IInv, NEW g \in Workers, failed[g], ~Expected(g)
  PROVE  g = worker /\ g \in crashed
  BY DEF IInv, KnownWorkers, Expected, TypeOK, ClassTypeOK, Workers

\* An ERROR that finds its callback comes from the present worker.
LEMMA CallbackOfOwnWorker ==
  ASSUME IInv, NEW g \in Workers, outbox[g] # << >>, Front(g).type # "LOG",
         Front(g).id \in rejects
  PROVE  g = worker
  BY FrontInFlight DEF IInv, AnswersOwnCalls, CallbacksOfWorker

LEMMA DeliverKeepsIInv ==
  ASSUME IInv, UNCHANGED workerVars, NEW g \in Workers, Deliver(g)
  PROVE  Bookkeeping' /\ FreshIDs' /\ AnswersOwnCalls' /\ CallbacksOfWorker' /\ FailureHitsOwnCalls'
         /\ KnownWorkers'
<1> USE DEF IInv
<1>1. AnswersOwnCalls'
  <2>1. \A h \in Workers : InFlight(h)' \subseteq InFlight(h)
    BY DeliverInFlight
  <2>2. sentTo' = sentTo
    BY DEF Deliver, DeliverReply, DeliverError, DeliverTrap, DeliverStray, DeliverEvent,
           DeliverFailure, IgnoreFailure, RejectAllAndDrop, classVars, callVars
  <2> QED BY <2>1, <2>2 DEF AnswersOwnCalls
<1>2. CASE DeliverReply(g) \/ DeliverError(g)
  <2>1. /\ resolves' = resolves \ {Front(g).id} /\ rejects' = rejects \ {Front(g).id}
        /\ UNCHANGED <<worker, workers, nextID, sentTo, terminated, failed, alive>>
        /\ Settle({Front(g).id}, Front(g).data)
        /\ outbox[g] # << >>
    BY <1>2 DEF DeliverReply, DeliverError, Forget
  <2>2. Front(g).data \in Values \cup Errors
    BY <2>1, PoppedShorter DEF Messages
  <2>3. \A id \in Ids : /\ promise'[id] # promise[id] => Pending(id)
                        /\ promise'[id] = promise[id] \/ promise'[id] \notin {"pending", "workerError"}
                        /\ id = Front(g).id => promise'[id] # "pending"
    BY <2>1, <2>2 DEF Settle, Pending, Values, Errors
  <2>4. Bookkeeping'
    BY <2>1, <2>3 DEF Bookkeeping, Pending
  <2>5. FreshIDs' /\ CallbacksOfWorker'
    BY <2>1, <2>3 DEF FreshIDs, CallbacksOfWorker, Pending
  <2>6. FailureHitsOwnCalls' /\ KnownWorkers'
    BY <2>1, <2>3 DEF FailureHitsOwnCalls, KnownWorkers, workerVars
  <2> QED BY <1>1, <2>4, <2>5, <2>6
<1>3. CASE DeliverTrap(g)
  <2> DEFINE outcome == [id \in Ids |-> IF id = Front(g).id THEN "trap" ELSE "crashed"]
  <2>1. RejectAllAndDrop(Popped(g), outcome) /\ outbox[g] # << >>
    BY <1>3 DEF DeliverTrap
  <2>2. \A id \in Ids : outcome[id] \notin {"pending", "workerError"}
    OBVIOUS
  <2> HIDE DEF outcome
  <2>3. \A h \in Workers : InSeq(Popped(g)[h]) \subseteq InSeq(outbox[h])
    BY <2>1, PoppedShorter
  <2> QED BY <2>1, <2>2, <2>3, RejectAllKeepsIInv
<1>4. CASE DeliverStray(g) \/ DeliverEvent(g) \/ IgnoreFailure(g)
  <2>1. /\ UNCHANGED <<worker, workers, callVars, terminated, alive>>
        /\ \A h \in Workers : failed'[h] => failed[h]
    BY <1>4 DEF DeliverStray, DeliverEvent, IgnoreFailure, classVars, TypeOK, LinkTypeOK
  <2>2. UNCHANGED <<resolves, rejects, nextID, promise, sentTo>>
    BY <2>1 DEF callVars
  <2>3. Bookkeeping' /\ FreshIDs' /\ CallbacksOfWorker'
    BY <2>1, <2>2 DEF Bookkeeping, FreshIDs, CallbacksOfWorker, Pending
  <2>4. FailureHitsOwnCalls' /\ KnownWorkers'
    BY <2>1, <2>2 DEF FailureHitsOwnCalls, KnownWorkers, workerVars
  <2> QED BY <1>1, <2>3, <2>4
<1>5. CASE DeliverFailure(g)
  <2> DEFINE events == [failed EXCEPT ![g] = FALSE]
  <2>1. /\ failed[g] /\ ~Expected(g) /\ DropWorker(outbox, events)
        /\ rejects' = {} /\ resolves' = {} /\ Settle(rejects, "workerError")
        /\ UNCHANGED <<workers, nextID, sentTo, inbox>>
    BY <1>5 DEF DeliverFailure, CopiedRejects
  <2>2. worker \in crashed
    BY <2>1, FailureOfOwnWorker
  <2>3. \A h \in Workers : events[h] => failed[h]
    BY DEF TypeOK, LinkTypeOK
  <2>4. \A id \in Ids : \/ promise'[id] = promise[id] /\ ~(id \in rejects /\ Pending(id))
                        \/ Pending(id) /\ promise'[id] # "pending"
    BY <2>1 DEF Settle
  <2> HIDE DEF events
  <2> QED BY <2>1, <2>2, <2>3, <2>4, EndKeepsIInv
<1> QED BY <1>2, <1>3, <1>4, <1>5 DEF Deliver

LEMMA WorkerStepKeepsIInv ==
  ASSUME IInv, UNCHANGED classVars, NEW g \in Workers, WorkerStep(g)
  PROVE  Bookkeeping' /\ FreshIDs' /\ AnswersOwnCalls' /\ CallbacksOfWorker' /\ FailureHitsOwnCalls'
         /\ KnownWorkers'
<1> USE DEF IInv
<1>1. UNCHANGED <<worker, workers, resolves, rejects, nextID, promise, sentTo, terminated>>
  BY DEF classVars, callVars
<1>2. Bookkeeping' /\ FreshIDs' /\ CallbacksOfWorker'
  BY <1>1 DEF Bookkeeping, FreshIDs, CallbacksOfWorker, Pending
<1>3. AnswersOwnCalls'
  <2>1. \A h \in Workers : InFlight(h)' \subseteq InFlight(h)
    BY WorkerStepInFlight
  <2> QED BY <1>1, <2>1 DEF AnswersOwnCalls
<1>4. CASE Boot(g)
  <2>1. /\ \A h \in Workers : alive'[h] = IF h = g THEN "running" ELSE alive[h]
        /\ alive[g] = "starting" /\ UNCHANGED <<failed, crashed>>
    BY <1>4 DEF Boot, workerVars, TypeOK, LinkTypeOK
  <2> QED BY <1>1, <1>2, <1>3, <2>1 DEF FailureHitsOwnCalls, KnownWorkers
<1>5. CASE Die(g)
  <2>1. /\ \A h \in Workers : alive'[h] = IF h = g THEN "ended" ELSE alive[h]
        /\ \A h \in Workers : failed'[h] = IF h = g THEN TRUE ELSE failed[h]
        /\ crashed' = crashed \cup {g}
        /\ alive[g] \in {"starting", "running"}
    BY <1>5 DEF Die, TypeOK, LinkTypeOK
  <2> QED BY <1>1, <1>2, <1>3, <2>1 DEF FailureHitsOwnCalls, KnownWorkers
<1>6. CASE Exit(g)
  <2>1. /\ \A h \in Workers : alive'[h] = IF h = g THEN "ended" ELSE alive[h]
        /\ \A h \in Workers : failed'[h] = IF h = g THEN TRUE ELSE failed[h]
        /\ alive[g] = "stopping" /\ crashed' = crashed
    BY <1>6 DEF Exit, workerVars, TypeOK, LinkTypeOK
  <2> QED BY <1>1, <1>2, <1>3, <2>1 DEF FailureHitsOwnCalls, KnownWorkers
<1>7. CASE Receive(g) \/ LoadSettles(g) \/ RunCommand(g)
  <2>1. UNCHANGED <<crashed, failed, alive>>
    BY <1>7 DEF Receive, StartLoad, JoinLoad, LoadAgain, Refuse, ServeFileOp, ReceiveCommand,
                LoadSettles, LoadSucceeds, LoadFails, RunCommand, Emit, Complete, Stop, Throw,
                Finish, workerVars
  <2> QED BY <1>1, <1>2, <1>3, <2>1 DEF FailureHitsOwnCalls, KnownWorkers
<1> QED BY <1>4, <1>5, <1>6, <1>7 DEF WorkerStep

\* Every step preserves the inductive invariant.
LEMMA NextIInv == IInv /\ [Next]_vars => IInv'
<1> SUFFICES ASSUME IInv, [Next]_vars PROVE IInv'
  OBVIOUS
<1>1. TypeOK'
  BY NextType DEF IInv
<1>2. CASE Application /\ UNCHANGED workerVars
  <2>1. ASSUME NEW c \in Menu,
               \/ c.type = "LOAD" /\ Load(c.signal)
               \/ c.type = "EXEC" /\ Exec(c.timed, c.ends, c.signal)
               \/ c.type = "FFPROBE" /\ Probe(c.timed, c.ends, c.signal)
               \/ c.type = "FS" /\ FileOp(c.signal)
        PROVE  IInv'
    <3>1. /\ c.signal \in Signals \cup {NoSignal}
          /\ c.timed \in BOOLEAN /\ c.ends \in BOOLEAN
      BY DEF Calls
    <3>2. \/ Load(c.signal)
          \/ \E type \in Types, timed \in BOOLEAN, ends \in BOOLEAN :
               Call(type, timed, ends, c.signal)
      BY <2>1, <3>1 DEF Exec, Probe, FileOp, Types
    <3> QED BY <1>1, <1>2, <3>1, <3>2, CallKeepsIInv DEF IInv
  <2>2. ASSUME NEW s \in Signals, Abort(s) PROVE IInv'
    BY <1>1, <1>2, <2>2, AbortKeepsIInv DEF IInv
  <2>3. ASSUME Terminate PROVE IInv'
    <3> DEFINE outcome == [id \in Ids |-> "terminated"]
    <3>1. RejectAllAndDrop(outbox, outcome)
      BY <2>3 DEF Terminate
    <3>2. \A id \in Ids : outcome[id] \notin {"pending", "workerError"}
      OBVIOUS
    <3> HIDE DEF outcome
    <3> QED BY <1>1, <1>2, <3>1, <3>2, RejectAllKeepsIInv DEF IInv
  <2> QED BY <1>2, <2>1, <2>2, <2>3 DEF Application
<1>3. ASSUME NEW g \in Workers, Deliver(g), UNCHANGED workerVars PROVE IInv'
  BY <1>1, <1>3, DeliverKeepsIInv DEF IInv
<1>4. ASSUME NEW g \in Workers, WorkerStep(g), UNCHANGED classVars PROVE IInv'
  BY <1>1, <1>4, WorkerStepKeepsIInv DEF IInv
<1>5. CASE UNCHANGED vars
  BY <1>1, <1>5 DEF vars, classVars, callVars, linkVars, workerVars, IInv, Bookkeeping, FreshIDs,
                    AnswersOwnCalls, CallbacksOfWorker, KnownWorkers, FailureHitsOwnCalls,
                    Pending, InFlight, Unreceived, Loading, Queued, Executing, Answered
<1> QED BY <1>2, <1>3, <1>4, <1>5 DEF Next

LEMMA Inductive == Spec => []IInv
  BY InitIInv, NextIInv, PTL DEF Spec

\* #resolves and #rejects stay in step, hold every pending call, and are empty
\* without a worker.
THEOREM BookkeepingCorrect == Spec => []Bookkeeping
<1>1. IInv => Bookkeeping
  BY DEF IInv
<1> QED BY <1>1, Inductive, PTL

\* However many workers an object goes through, none answers another's calls.
THEOREM AnswersOwnCallsCorrect == Spec => []AnswersOwnCalls
<1>1. IInv => AnswersOwnCalls
  BY DEF IInv
<1> QED BY <1>1, Inductive, PTL

\* A call is rejected with ERROR_WORKER only if its own worker died by itself.
THEOREM FailureHitsOwnCallsCorrect == Spec => []FailureHitsOwnCalls
<1>1. IInv => FailureHitsOwnCalls
  BY DEF IInv
<1> QED BY <1>1, Inductive, PTL

\* A worker is given up for terminate(), its own death or its own trap only.
THEOREM WorkerLossCorrect == Spec => WorkerLossHasCause
<1> DEFINE Cause == worker # NoWorker /\ worker' = NoWorker =>
                      \/ Terminate \/ worker \in crashed
                      \/ \E g \in Workers : DeliverTrap(g) /\ g = worker
<1>1. ASSUME IInv, [Next]_vars PROVE [Cause]_vars
  <2> SUFFICES ASSUME worker # NoWorker, worker' = NoWorker, Next PROVE Cause
    BY <1>1 DEF vars, classVars
  <2>1. CASE Application
    BY <1>1, <2>1 DEF Application, Load, Exec, Probe, FileOp, Call, Abort, IInv, TypeOK, ClassTypeOK,
                      Workers, NoWorker
  <2>2. ASSUME NEW g \in Workers, Deliver(g) PROVE Cause
    <3>1. CASE DeliverFailure(g)
      BY <1>1, <3>1, FailureOfOwnWorker DEF DeliverFailure
    <3>2. CASE DeliverTrap(g)
      BY <1>1, <3>2, CallbackOfOwnWorker DEF DeliverTrap
    <3> QED BY <2>2, <3>1, <3>2 DEF Deliver, DeliverReply, DeliverError, DeliverStray,
                                    DeliverEvent, IgnoreFailure, classVars
  <2>3. CASE UNCHANGED classVars
    BY <2>3 DEF classVars
  <2> QED BY <2>1, <2>2, <2>3 DEF Next
<1> QED BY <1>1, Inductive, PTL DEF Spec, WorkerLossHasCause
-----------------------------------------------------------------------------
(* The system implements CallLedger, under the mapping of CallOutcomes.      *)

\* An ending of the session, or what looks like none from outside.
LEMMA EndRefines ==
  ASSUME IInv, NEW why \in {"terminated", "crashed", "workerError"},
         NEW culprit \in Ids \cup {NoCall},
         culprit # NoCall => Pending(culprit) /\ why = "crashed",
         worker' = NoWorker, UNCHANGED <<workers, nextID, sentTo, signalOf, aborted>>,
         promise' = [id \in Ids |-> IF ~Pending(id) THEN promise[id]
                                    ELSE IF id = culprit THEN "trap" ELSE why]
  PROVE  [CallOutcomes!LedgerNext]_(CallOutcomes!ledgerVars)
<1>1. CASE worker = NoWorker
  <2>1. \A id \in Ids : ~Pending(id)
    BY <1>1 DEF IInv, Bookkeeping
  <2>2. promise' = promise
    BY <2>1 DEF IInv, TypeOK, ClassTypeOK
  <2> QED BY <1>1, <2>2 DEF CallOutcomes!ledgerVars
<1>2. CASE worker # NoWorker
  <2>1. CallOutcomes!End(why, culprit)
    BY <1>2 DEF CallOutcomes!End, CallOutcomes!NoSession, CallOutcomes!NoCall, CallOutcomes!Open,
                CallOutcomes!CallIds, NoWorker, NoCall, Ids, Pending
  <2> QED BY <2>1 DEF CallOutcomes!LedgerNext, CallOutcomes!CallIds, CallOutcomes!NoCall, Ids, NoCall
<1> QED BY <1>1, <1>2

\* A call posted in the session, or in the one load() opens for it.
LEMMA MakeRefines ==
  ASSUME IInv, NEW g \in Workers, NEW type \in Types, NEW timed \in BOOLEAN,
         NEW ends \in BOOLEAN, NEW sig \in Signals \cup {NoSignal},
         Send(g, type, timed, ends, sig), aborted' = aborted, worker' = g,
         \/ g = worker /\ workers' = workers
         \/ worker = NoWorker /\ g = workers + 1 /\ workers' = workers + 1
  PROVE  [CallOutcomes!LedgerNext]_(CallOutcomes!ledgerVars)
<1>1. nextID \in Ids /\ nextID - 1 + 1 = nextID /\ nextID' - 1 = nextID - 1 + 1
  BY DEF IInv, TypeOK, ClassTypeOK, Send, Ids
<1>2. nextID - 1 < MaxCalls /\ g # NoWorker
  BY <1>1 DEF Ids, Workers, NoWorker
<1>3. CallOutcomes!Make(g, sig)
  <2>1. /\ promise' = [promise EXCEPT ![nextID - 1 + 1] = "pending"]
        /\ sentTo' = [sentTo EXCEPT ![nextID - 1 + 1] = g]
        /\ signalOf' = [signalOf EXCEPT ![nextID - 1 + 1] = sig]
    BY <1>1 DEF Send, getMessageID
  <2>2. g = worker \/ (worker = NoWorker /\ g = workers + 1)
    OBVIOUS
  <2>3. workers' = IF worker = NoWorker THEN g ELSE workers
    BY <1>2
  <2>4. g \in 1 .. MaxWorkers
    BY DEF Workers
  <2> QED BY <1>1, <1>2, <2>1, <2>2, <2>3, <2>4
          DEF CallOutcomes!Make, CallOutcomes!NoSession, NoWorker
<1> QED BY <1>3 DEF CallOutcomes!LedgerNext, Workers

\* A reply or error for a call of the session, or for one that was aborted.
LEMMA AnswerRefines ==
  ASSUME IInv, NEW c \in Ids, NEW a \in Values \cup Errors,
         Settle({c}, a), c \in rejects,
         UNCHANGED <<worker, workers, nextID, sentTo, signalOf, aborted>>
  PROVE  [CallOutcomes!LedgerNext]_(CallOutcomes!ledgerVars)
<1> USE DEF IInv, TypeOK, ClassTypeOK
<1>1. CASE Pending(c)
  <2>1. promise' = [promise EXCEPT ![c] = a]
    BY <1>1 DEF Settle
  <2>2. CallOutcomes!Answer(c, a)
    BY <1>1, <2>1 DEF CallOutcomes!Answer, CallOutcomes!Open, Pending, CallbacksOfWorker
  <2> QED BY <2>2 DEF CallOutcomes!LedgerNext, CallOutcomes!CallIds, Ids
<1>2. CASE ~Pending(c)
  <2>1. promise' = promise
    BY <1>2 DEF Settle
  <2> QED BY <2>1 DEF CallOutcomes!ledgerVars
<1> QED BY <1>1, <1>2

LEMMA ApplicationRefines ==
  ASSUME IInv, Application
  PROVE  [CallOutcomes!LedgerNext]_(CallOutcomes!ledgerVars)
<1>1. ASSUME NEW sig \in Signals \cup {NoSignal}, Load(sig)
      PROVE  [CallOutcomes!LedgerNext]_(CallOutcomes!ledgerVars)
  <2>1. aborted' = aborted /\ Send(worker', "LOAD", FALSE, TRUE, sig)
    BY <1>1 DEF Load
  <2>3. worker' \in Workers
    BY <1>1 DEF Load, IInv, TypeOK, ClassTypeOK, Workers, NoWorker
  <2>2. \/ worker' = worker /\ workers' = workers
        \/ worker = NoWorker /\ worker' = workers + 1 /\ workers' = workers + 1
    BY <1>1 DEF Load
  <2> QED BY <2>1, <2>2, <2>3, MakeRefines DEF Types
<1>2. ASSUME NEW type \in Types, NEW timed \in BOOLEAN, NEW ends \in BOOLEAN,
             NEW sig \in Signals \cup {NoSignal}, Call(type, timed, ends, sig)
      PROVE  [CallOutcomes!LedgerNext]_(CallOutcomes!ledgerVars)
  <2>1. worker \in Workers /\ UNCHANGED <<worker, workers, aborted>>
        /\ Send(worker, type, timed, ends, sig)
    BY <1>2 DEF Call, IInv, TypeOK, ClassTypeOK
  <2> QED BY <2>1, MakeRefines
<1>3. ASSUME NEW s \in Signals, Abort(s)
      PROVE  [CallOutcomes!LedgerNext]_(CallOutcomes!ledgerVars)
  <2>1. promise' = [id \in Ids |-> IF Pending(id) /\ signalOf[id] = s THEN "aborted"
                                   ELSE promise[id]]
    BY <1>3 DEF Abort, Settle
  <2>2. CallOutcomes!Fire(s)
    BY <1>3, <2>1 DEF Abort, CallOutcomes!Fire, CallOutcomes!Open, CallOutcomes!CallIds, Ids, Pending
  <2> QED BY <2>2 DEF CallOutcomes!LedgerNext
<1>4. ASSUME Terminate
      PROVE  [CallOutcomes!LedgerNext]_(CallOutcomes!ledgerVars)
  <2>1. /\ worker' = NoWorker /\ UNCHANGED <<workers, nextID, sentTo, signalOf, aborted>>
        /\ promise' = [id \in Ids |-> IF id \in rejects /\ Pending(id) THEN "terminated"
                                      ELSE promise[id]]
    BY <1>4 DEF Terminate, RejectAllAndDrop, DropWorker
  <2>2. promise' = [id \in Ids |-> IF ~Pending(id) THEN promise[id]
                                   ELSE IF id = NoCall THEN "trap" ELSE "terminated"]
    BY <2>1 DEF IInv, Bookkeeping, NoCall, Ids
  <2> QED BY <2>1, <2>2, EndRefines DEF NoCall
<1> QED BY <1>1, <1>2, <1>3, <1>4 DEF Application, Calls, Exec, Probe, FileOp, Types

LEMMA DeliverRefines ==
  ASSUME IInv, NEW g \in Workers, Deliver(g)
  PROVE  [CallOutcomes!LedgerNext]_(CallOutcomes!ledgerVars)
<1> USE DEF IInv
<1>1. CASE DeliverReply(g) \/ DeliverError(g)
  <2>1. /\ outbox[g] # << >> /\ Front(g).id \in rejects
        /\ Settle({Front(g).id}, Front(g).data)
        /\ UNCHANGED <<worker, workers, nextID, sentTo, signalOf, aborted>>
    BY <1>1 DEF DeliverReply, DeliverError, Bookkeeping
  <2>2. Front(g).id \in Ids /\ Front(g).data \in Values \cup Errors
    BY <2>1, PoppedShorter DEF Messages
  <2> QED BY <2>1, <2>2, AnswerRefines
<1>2. CASE DeliverTrap(g)
  <2> DEFINE c == IF Pending(Front(g).id) THEN Front(g).id ELSE NoCall
  <2>1. /\ outbox[g] # << >> /\ worker' = NoWorker
        /\ UNCHANGED <<workers, nextID, sentTo, signalOf, aborted>>
        /\ promise' = [id \in Ids |-> IF id \in rejects /\ Pending(id)
                         THEN IF id = Front(g).id THEN "trap" ELSE "crashed"
                         ELSE promise[id]]
    BY <1>2 DEF DeliverTrap, RejectAllAndDrop, DropWorker
  <2>2. Front(g).id \in Ids
    BY <2>1, PoppedShorter DEF Messages
  <2>3. c \in Ids \cup {NoCall} /\ (c # NoCall => Pending(c))
    BY <2>2
  <2>4. \A id \in Ids : Pending(id) => (id = c <=> id = Front(g).id) /\ id \in rejects
    BY <2>2 DEF Bookkeeping, NoCall, Ids
  <2> HIDE DEF c
  <2>5. promise' = [id \in Ids |-> IF ~Pending(id) THEN promise[id]
                                   ELSE IF id = c THEN "trap" ELSE "crashed"]
    BY <2>1, <2>4
  <2> QED BY <2>1, <2>3, <2>5, EndRefines
<1>3. CASE DeliverFailure(g)
  <2>1. /\ worker' = NoWorker /\ UNCHANGED <<workers, nextID, sentTo, signalOf, aborted>>
        /\ promise' = [id \in Ids |-> IF id \in rejects /\ Pending(id) THEN "workerError"
                                      ELSE promise[id]]
    BY <1>3 DEF DeliverFailure, CopiedRejects, Settle, DropWorker
  <2>2. promise' = [id \in Ids |-> IF ~Pending(id) THEN promise[id]
                                   ELSE IF id = NoCall THEN "trap" ELSE "workerError"]
    BY <2>1 DEF Bookkeeping, NoCall, Ids
  <2> QED BY <2>1, <2>2, EndRefines DEF NoCall
<1>4. CASE DeliverStray(g) \/ DeliverEvent(g) \/ IgnoreFailure(g)
  BY <1>4 DEF DeliverStray, DeliverEvent, IgnoreFailure, classVars, callVars, CallOutcomes!ledgerVars
<1> QED BY <1>1, <1>2, <1>3, <1>4 DEF Deliver

\* An FFmpeg object keeps what CallLedger promises its application.
THEOREM Refinement == Spec => KeepsLedger
<1>1. Init => CallOutcomes!LedgerInit
  BY DEF Init, ClassInit, CallOutcomes!LedgerInit, CallOutcomes!NoSession, CallOutcomes!CallIds,
         Ids, NoWorker
<1>2. IInv /\ [Next]_vars => [CallOutcomes!LedgerNext]_(CallOutcomes!ledgerVars)
  <2>1. CASE UNCHANGED classVars
    BY <2>1 DEF classVars, callVars, CallOutcomes!ledgerVars
  <2> QED BY <2>1, ApplicationRefines, DeliverRefines DEF Next, vars
<1> QED BY <1>1, <1>2, Inductive, PTL DEF Spec, KeepsLedger, CallOutcomes!Ledger

-----------------------------------------------------------------------------
(***************************************************************************)
(* The way of a call: that it is not lost, that commands keep the order of  *)
(* the calls and stop for their own reasons, that a call is answered once,  *)
(* behind its events, and, in a browser, that every answer finds its        *)
(* callback and `loaded' tells the truth.                                   *)
(***************************************************************************)

USE MessagesAssumption, ClassAssumption, WorkerAssumption, SystemAssumption

-----------------------------------------------------------------------------
(* Where a call stands, worker by worker.                                   *)

\* A call has been given an answer of the worker.
Told(id) == promise[id] \in Values \cup Errors

\* The calls worker g has received, by what is left of them.
Reached(g) ==
  Loading(g) \cup Queued(g) \cup Executing(g) \cup {r.id : r \in InSeq(outbox[g])}
    \cup {id \in Ids : sentTo[id] = g /\ Told(id)}

\* A sequence of requests, or of calls, in the order they were made.
Rising(s)    == \A i, j \in DOMAIN s : i < j => s[i].id < s[j].id
RisingIds(s) == \A i, j \in DOMAIN s : i < j => s[i] < s[j]

\* The order of the calls survives the way from the port to the core, and a
\* stage that has not been reached is empty.
InOrder(g) ==
  /\ slot[g] # "loading" => loads[g] = << >>
  /\ slot[g] # "done" => core[g].active = {}
  /\ core[g].active = {} => queue[g] = << >>
  /\ \A m, n \in core[g].active : m = n
  /\ Rising(inbox[g]) /\ RisingIds(loads[g]) /\ Rising(queue[g])
  /\ \A m \in core[g].active, n \in InSeq(queue[g]) : m.id < n.id
  /\ \A id \in Reached(g), n \in InSeq(inbox[g]) : id < n.id
  /\ \A r \in InSeq(outbox[g]) : sentTo[r.id] = g

\* No two answers of a worker are to the same call.
AnswersDiffer(g) ==
  \A i, j \in DOMAIN outbox[g] :
    i # j /\ outbox[g][i].type # "LOG" /\ outbox[g][j].type # "LOG"
      => outbox[g][i].id # outbox[g][j].id

\* The answer to a call that has events under way is still to come, or is behind
\* them.
EventsAhead(g) ==
  \A i \in DOMAIN outbox[g] : outbox[g][i].type = "LOG" =>
    \/ outbox[g][i].id \in Executing(g)
    \/ \E j \in DOMAIN outbox[g] :
         j > i /\ outbox[g][j].type # "LOG" /\ outbox[g][j].id = outbox[g][i].id

\* One answer to each call, and none to come once it has been delivered.
OneAnswer(g) ==
  /\ AnswersDiffer(g) /\ EventsAhead(g)
  /\ Answered(g) \cap (Loading(g) \cup Queued(g) \cup Executing(g)) = {}
  /\ \A id \in InFlight(g) : ~Told(id)

\* What a worker holds is what was sent, and what may stop its command is of
\* that command.
StopsAgree(g) ==
  /\ \A m \in InSeq(inbox[g]) \cup InSeq(queue[g]) \cup core[g].active : m = sent[m.id]
  /\ core[g].timeoutMs => \E m \in core[g].active : m.timed
  /\ core[g].abortFlag = NoCall \/ core[g].abortFlag \in Executing(g)
  /\ \A r \in InSeq(outbox[g]) : r.data = "stopped" =>
       \/ sent[r.id].timed
       \/ r.id \in flags /\ signalOf[r.id] \in aborted
FlagsAgree == \A id \in flags : id < nextID /\ signalOf[id] \in aborted

\* The calls that have been answered with d, whether they know it or not.
Said(g, d) ==
  {id \in Ids : sentTo[id] = g /\ promise[id] = d}
    \cup {r.id : r \in {n \in InSeq(outbox[g]) : n.data = d}}

\* A worker says that its core is there when it is, and to one call that it is
\* the first.
LoadsTold(g) ==
  /\ \A r \in InSeq(outbox[g]) : r.type = "LOAD" => slot[g] = "done"
  /\ Said(g, "first") \cup Said(g, "again") # {} => slot[g] = "done"
  /\ \A i, j \in Said(g, "first") : i = j
  /\ \A i \in Said(g, "first"), j \in Said(g, "again") : i < j

\* An answered call was posted, and to a worker that has been created.
PostedSomewhere ==
  \A id \in Ids : sentTo[id] <= workers /\ (sentTo[id] = NoWorker => promise[id] = "unsent")

\* The browser: nothing is heard of a worker that has been given up, and what
\* the present one holds is still waited for.
OnlyPresentWorker ==
  /\ \A g \in Workers : g # worker => outbox[g] = << >>
  /\ worker # NoWorker => InFlight(worker) \subseteq rejects
  /\ ~uncaught

\* A call made while `loaded' was true finds the core.
LoadedFindsCore ==
  /\ loaded => worker # NoWorker /\ slot[worker] = "done"
  /\ \A g \in Workers :
       /\ \A m \in InSeq(inbox[g]) : m.id \in sawLoaded => slot[g] = "done"
       /\ \A r \in InSeq(outbox[g]) : r.data = "notLoaded" => r.id \notin sawLoaded
  /\ \A id \in sawLoaded : id < nextID /\ promise[id] # "notLoaded"
-----------------------------------------------------------------------------
(* Sequences.                                                               *)

LEMMA TailElements ==
  ASSUME NEW S, NEW s \in Seq(S), s # << >>
  PROVE  /\ Head(s) = s[1] /\ 1 \in DOMAIN s /\ Tail(s) \in Seq(S)
         /\ \A i \in DOMAIN Tail(s) : i + 1 \in DOMAIN s /\ Tail(s)[i] = s[i + 1]
         /\ \A x \in InSeq(s) : x = Head(s) \/ x \in InSeq(Tail(s))
<1>1. Head(s) = s[1] /\ 1 \in DOMAIN s /\ Tail(s) \in Seq(S) /\ Len(s) > 0
  OBVIOUS
<1>2. \A i \in DOMAIN Tail(s) : i + 1 \in DOMAIN s /\ Tail(s)[i] = s[i + 1]
  OBVIOUS
<1>3. ASSUME NEW i \in DOMAIN s PROVE s[i] = Head(s) \/ s[i] \in InSeq(Tail(s))
  <2>1. CASE i = 1
    BY <1>1, <2>1
  <2>2. CASE i # 1
    <3>1. i - 1 \in DOMAIN Tail(s) /\ Tail(s)[i - 1] = s[i]
      BY <2>2
    <3> QED BY <3>1 DEF InSeq
  <2> QED BY <2>1, <2>2
<1> QED BY <1>1, <1>2, <1>3 DEF InSeq

LEMMA AppendElements ==
  ASSUME NEW S, NEW s \in Seq(S), NEW e \in S
  PROVE  /\ Append(s, e) \in Seq(S)
         /\ \A i \in DOMAIN Append(s, e) :
              \/ i \in DOMAIN s /\ Append(s, e)[i] = s[i]
              \/ i = Len(s) + 1 /\ Append(s, e)[i] = e
         /\ \A i \in DOMAIN s : i \in DOMAIN Append(s, e) /\ i < Len(s) + 1 /\ Append(s, e)[i] = s[i]
         /\ Len(s) + 1 \in DOMAIN Append(s, e) /\ Append(s, e)[Len(s) + 1] = e
  OBVIOUS

LEMMA ConcatElements ==
  ASSUME NEW S, NEW s \in Seq(S), NEW t \in Seq(S)
  PROVE  /\ s \o t \in Seq(S)
         /\ \A i \in DOMAIN (s \o t) :
              \/ i \in DOMAIN s /\ (s \o t)[i] = s[i]
              \/ i - Len(s) \in DOMAIN t /\ (s \o t)[i] = t[i - Len(s)] /\ i > Len(s)
         /\ \A i \in DOMAIN s : i \in DOMAIN (s \o t) /\ (s \o t)[i] = s[i]
         /\ \A i \in DOMAIN t : i + Len(s) \in DOMAIN (s \o t) /\ (s \o t)[i + Len(s)] = t[i]
<1>1. s \o t \in Seq(S) /\ Len(s \o t) = Len(s) + Len(t)
  OBVIOUS
<1>2. ASSUME NEW i \in DOMAIN (s \o t)
      PROVE  \/ i \in DOMAIN s /\ (s \o t)[i] = s[i]
             \/ i - Len(s) \in DOMAIN t /\ (s \o t)[i] = t[i - Len(s)] /\ i > Len(s)
  BY <1>1
<1>3. ASSUME NEW i \in DOMAIN s PROVE i \in DOMAIN (s \o t) /\ (s \o t)[i] = s[i]
  BY <1>1
<1>4. ASSUME NEW i \in DOMAIN t PROVE i + Len(s) \in DOMAIN (s \o t) /\ (s \o t)[i + Len(s)] = t[i]
  BY <1>1
<1> QED BY <1>1, <1>2, <1>3, <1>4

LEMMA RisingTail ==
  ASSUME NEW s \in Seq(Requests), s # << >>, Rising(s)
  PROVE  Rising(Tail(s)) /\ \A n \in InSeq(Tail(s)) : Head(s).id < n.id
<1>1. /\ Head(s) = s[1] /\ 1 \in DOMAIN s
      /\ \A i \in DOMAIN Tail(s) : i + 1 \in DOMAIN s /\ Tail(s)[i] = s[i + 1] /\ i \in Nat /\ i >= 1
  BY TailElements
<1>2. Rising(Tail(s))
  BY <1>1 DEF Rising
<1>3. ASSUME NEW i \in DOMAIN Tail(s) PROVE Head(s).id < Tail(s)[i].id
  BY <1>1 DEF Rising
<1> QED BY <1>2, <1>3 DEF InSeq

LEMMA RisingAppend ==
  ASSUME NEW s \in Seq(Requests), NEW e \in Requests, Rising(s),
         \A n \in InSeq(s) : n.id < e.id
  PROVE  Rising(Append(s, e))
<1>1. \A i \in DOMAIN s : s[i].id < e.id
  BY DEF InSeq
<1>2. \A i, j \in DOMAIN Append(s, e) : i < j => i \in DOMAIN s /\ i \in Nat /\ j \in Nat
  OBVIOUS
<1> QED BY <1>1, <1>2, AppendElements DEF Rising

LEMMA RisingIdsAppend ==
  ASSUME NEW s \in Seq(Ids), NEW e \in Ids, RisingIds(s), \A n \in InSeq(s) : n < e
  PROVE  RisingIds(Append(s, e))
<1>1. \A i \in DOMAIN s : s[i] < e
  BY DEF InSeq
<1>2. \A i, j \in DOMAIN Append(s, e) : i < j => i \in DOMAIN s /\ i \in Nat /\ j \in Nat
  OBVIOUS
<1> QED BY <1>1, <1>2, AppendElements DEF RisingIds

LEMMA EmptyRises == Rising(<< >>) /\ RisingIds(<< >>) /\ InSeq(<< >>) = {}
  BY DEF Rising, RisingIds, InSeq
-----------------------------------------------------------------------------
(* The steps of a worker, by what they do to its request and to its replies. *)

Others(g) ==
  \A h \in Workers : h # g =>
    /\ inbox'[h] = inbox[h] /\ outbox'[h] = outbox[h] /\ slot'[h] = slot[h]
    /\ loads'[h] = loads[h] /\ queue'[h] = queue[h] /\ core'[h] = core[h]

Quiet(g) ==
  /\ inbox'[g] = inbox[g] /\ outbox'[g] = outbox[g] /\ slot'[g] = slot[g]
  /\ loads'[g] = loads[g] /\ queue'[g] = queue[g] /\ core'[g] = core[g]

Takes(g) == inbox[g] # << >> /\ inbox'[g] = Tail(inbox[g])

AnswersNow(g) ==
  /\ Takes(g) /\ slot'[g] = slot[g] /\ loads'[g] = loads[g]
  /\ queue'[g] = queue[g] /\ core'[g] = core[g]
  /\ \E a \in Messages :
       /\ outbox'[g] = Append(outbox[g], a)
       /\ a.type # "LOG" /\ a.id = Request(g).id /\ a.data \notin {"first", "stopped"}
       /\ a.type = "LOAD" \/ a.data = "again" => slot[g] = "done"
       /\ a.data = "notLoaded" => slot[g] # "done"

WaitsForCore(g) ==
  /\ Takes(g) /\ slot[g] # "done" /\ slot'[g] = "loading"
  /\ loads'[g] = Append(loads[g], Request(g).id)
  /\ queue'[g] = queue[g] /\ core'[g] = core[g] /\ outbox'[g] = outbox[g]

CoreSettles(g) ==
  /\ slot[g] = "loading" /\ loads'[g] = << >>
  /\ inbox'[g] = inbox[g] /\ queue'[g] = queue[g] /\ core'[g] = core[g]
  /\ \E answers \in Seq(Messages) :
       /\ outbox'[g] = outbox[g] \o answers /\ DOMAIN answers = DOMAIN loads[g]
       /\ \A i \in DOMAIN answers :
            /\ answers[i].id = loads[g][i] /\ answers[i].type # "LOG"
            /\ answers[i].data \notin {"stopped", "notLoaded"}
       /\ \/ /\ slot'[g] = "done"
             /\ \A i \in DOMAIN answers :
                  answers[i].data = IF i = 1 THEN "first" ELSE "again"
          \/ /\ slot'[g] = "empty"
             /\ \A i \in DOMAIN answers :
                  answers[i].type = "ERROR" /\ answers[i].data \notin {"first", "again"}

StartsCommand(g) ==
  /\ Takes(g) /\ slot[g] = "done" /\ core[g].active = {} /\ queue[g] = << >>
  /\ core'[g] = Started(core[g], Request(g))
  /\ slot'[g] = slot[g] /\ loads'[g] = loads[g] /\ queue'[g] = queue[g] /\ outbox'[g] = outbox[g]

QueuesCommand(g) ==
  /\ Takes(g) /\ slot[g] = "done" /\ core[g].active # {}
  /\ queue'[g] = Append(queue[g], Request(g))
  /\ slot'[g] = slot[g] /\ loads'[g] = loads[g] /\ core'[g] = core[g] /\ outbox'[g] = outbox[g]

Tells(g) ==
  /\ inbox'[g] = inbox[g] /\ slot'[g] = slot[g] /\ loads'[g] = loads[g] /\ queue'[g] = queue[g]
  /\ core'[g].active = core[g].active /\ core'[g].timeoutMs = core[g].timeoutMs
  /\ core'[g].abortFlag = core[g].abortFlag
  /\ \E m \in core[g].active, a \in Messages :
       outbox'[g] = Append(outbox[g], a) /\ a.type = "LOG" /\ a.id = m.id /\ a.data = "done"

Ends(g) ==
  /\ inbox'[g] = inbox[g] /\ slot'[g] = slot[g] /\ loads'[g] = loads[g]
  /\ \E m \in core[g].active, a \in Messages :
       /\ outbox'[g] = Append(outbox[g], a)
       /\ a.type # "LOG" /\ a.id = m.id /\ a.data \notin {"first", "again", "notLoaded"}
       /\ a.data = "stopped" => StopRequested(g)
       /\ \/ /\ queue[g] = << >> /\ queue'[g] = queue[g]
             /\ core'[g] = Reset(core[g], m)
          \/ /\ queue[g] # << >> /\ queue'[g] = Tail(queue[g])
             /\ core'[g] = Started(Reset(core[g], m), Head(queue[g]))

Effect(g) ==
  \/ Quiet(g) \/ AnswersNow(g) \/ WaitsForCore(g) \/ CoreSettles(g)
  \/ StartsCommand(g) \/ QueuesCommand(g) \/ Tells(g) \/ Ends(g)

LEMMA AppendIsConcat ==
  ASSUME NEW s \in Seq(Messages), NEW a \in Messages PROVE s \o <<a>> = Append(s, a)
  OBVIOUS

LEMMA WorkerEffect ==
  ASSUME TypeOK, NEW g \in Workers, InOrder(g), WorkerStep(g)
  PROVE  Others(g) /\ Effect(g)
<1> USE DEF TypeOK, LinkTypeOK, WorkerTypeOK
<1>1. CASE Boot(g) \/ Die(g) \/ Exit(g)
  BY <1>1 DEF Boot, Die, Exit, workerVars, Others, Effect, Quiet
<1>2. ASSUME NEW T, Receives(g, T)
      PROVE  /\ Takes(g) /\ Request(g) \in Requests /\ Request(g).id \in Ids
             /\ \A h \in Workers : h # g => inbox'[h] = inbox[h]
  <2>1. inbox[g] # << >> /\ inbox' = [inbox EXCEPT ![g] = Tail(inbox[g])]
    BY <1>2 DEF Receives
  <2>2. Request(g) \in Requests
    BY <2>1, InSeqTail DEF Request
  <2> QED BY <2>1, <2>2 DEF Takes, Requests
<1>3. ASSUME NEW a \in Messages, Post(g, <<a>>)
      PROVE  /\ outbox'[g] = Append(outbox[g], a)
             /\ \A h \in Workers : h # g => outbox'[h] = outbox[h]
  BY <1>3, AppendIsConcat DEF Post
<1>4. CASE LoadAgain(g) \/ Refuse(g) \/ ServeFileOp(g)
  <2>1. PICK T : Receives(g, T)
    BY <1>4 DEF LoadAgain, Refuse, ServeFileOp
  <2>2. UNCHANGED <<slot, loads, queue, core>>
    BY <1>4 DEF LoadAgain, Refuse, ServeFileOp, workerVars
  <2>3. \E a \in Messages :
          /\ Post(g, <<a>>) /\ a.type # "LOG" /\ a.id = Request(g).id
          /\ a.data \notin {"first", "stopped"}
          /\ a.type = "LOAD" \/ a.data = "again" => slot[g] = "done"
          /\ a.data = "notLoaded" => slot[g] # "done"
    <3> DEFINE id == Request(g).id
    <3>1. /\ Reply("LOAD", id, "again") \in Messages /\ Reply("FS", id, "done") \in Messages
          /\ Reply("ERROR", id, "failed") \in Messages /\ Reply("ERROR", id, "notLoaded") \in Messages
      BY <1>2, <2>1 DEF Reply, Messages, Types, Values, Errors
    <3>2. CASE LoadAgain(g)
      BY <3>1, <3>2 DEF LoadAgain, Reply
    <3>3. CASE Refuse(g)
      BY <3>1, <3>3 DEF Refuse, Failure, Reply
    <3>4. CASE ServeFileOp(g)
      BY <3>1, <3>4 DEF ServeFileOp, Failure, Reply
    <3> QED BY <1>4, <3>2, <3>3, <3>4
  <2> QED BY <1>2, <1>3, <2>1, <2>2, <2>3 DEF Effect, AnswersNow, Others
<1>5. CASE StartLoad(g) \/ JoinLoad(g)
  <2>1. PICK T : Receives(g, T)
    BY <1>5 DEF StartLoad, JoinLoad
  <2>2. /\ UNCHANGED <<queue, core, outbox>>
        /\ \A h \in Workers : h # g => slot'[h] = slot[h] /\ loads'[h] = loads[h]
        /\ slot[g] # "done" /\ slot'[g] = "loading"
    BY <1>5 DEF StartLoad, JoinLoad
  <2>3. loads'[g] = Append(loads[g], Request(g).id)
    <3>1. CASE StartLoad(g)
      <4>1. loads[g] = << >> /\ loads'[g] = <<Request(g).id>>
        BY <3>1 DEF StartLoad, InOrder
      <4> QED BY <4>1
    <3>2. CASE JoinLoad(g)
      BY <3>2 DEF JoinLoad
    <3> QED BY <1>5, <3>1, <3>2
  <2> QED BY <1>2, <2>1, <2>2, <2>3 DEF Effect, WaitsForCore, Others
<1>6. CASE LoadSettles(g)
  <2>1. /\ slot[g] = "loading" /\ loads'[g] = << >> /\ UNCHANGED <<inbox, queue, core>>
        /\ \A h \in Workers : h # g => slot'[h] = slot[h] /\ loads'[h] = loads[h]
    BY <1>6 DEF LoadSettles, LoadSucceeds, LoadFails
  <2>2. ASSUME NEW answers \in Seq(Messages), Post(g, answers)
        PROVE  /\ outbox'[g] = outbox[g] \o answers
               /\ \A h \in Workers : h # g => outbox'[h] = outbox[h]
    BY <2>2 DEF Post
  <2>3. /\ loads[g] \in Seq(Ids) /\ DOMAIN loads[g] = 1 .. Len(loads[g]) /\ Len(loads[g]) \in Nat
        /\ \A i \in 1 .. Len(loads[g]) : loads[g][i] \in Ids
    OBVIOUS
  <2>4. CASE LoadSucceeds(g)
    <3> DEFINE answers == [i \in 1 .. Len(loads[g]) |->
                             Reply("LOAD", loads[g][i], IF i = 1 THEN "first" ELSE "again")]
    <3>1. \A i \in 1 .. Len(loads[g]) :
            Reply("LOAD", loads[g][i], IF i = 1 THEN "first" ELSE "again") \in Messages
      BY <2>3 DEF Reply, Messages, Types, Values
    <3>2. answers \in Seq(Messages) /\ DOMAIN answers = DOMAIN loads[g]
      BY <2>3, <3>1
    <3>3. \A i \in DOMAIN answers :
            /\ answers[i].id = loads[g][i] /\ answers[i].type # "LOG"
            /\ answers[i].data = IF i = 1 THEN "first" ELSE "again"
      BY DEF Reply
    <3>4. Post(g, answers) /\ slot'[g] = "done"
      BY <2>4 DEF LoadSucceeds
    <3> HIDE DEF answers
    <3>5. CoreSettles(g)
      BY <2>1, <2>2, <3>2, <3>3, <3>4 DEF CoreSettles
    <3> QED BY <2>1, <2>2, <3>2, <3>4, <3>5 DEF Effect, Others
  <2>5. ASSUME NEW error \in {"failed", "trap"}, LoadFails(g, error)
        PROVE  Others(g) /\ Effect(g)
    <3> DEFINE answers == [i \in 1 .. Len(loads[g]) |-> Reply("ERROR", loads[g][i], error)]
    <3>1. \A i \in 1 .. Len(loads[g]) : Reply("ERROR", loads[g][i], error) \in Messages
      BY <2>3 DEF Reply, Messages, Errors
    <3>2. answers \in Seq(Messages) /\ DOMAIN answers = DOMAIN loads[g]
      BY <2>3, <3>1
    <3>3. \A i \in DOMAIN answers :
            answers[i].id = loads[g][i] /\ answers[i].type = "ERROR" /\ answers[i].data = error
      BY DEF Reply
    <3>4. Post(g, answers) /\ slot'[g] = "empty"
      BY <2>5 DEF LoadFails
    <3> HIDE DEF answers
    <3>5. CoreSettles(g)
      BY <2>1, <2>2, <3>2, <3>3, <3>4 DEF CoreSettles
    <3> QED BY <2>1, <2>2, <3>2, <3>4, <3>5 DEF Effect, Others
  <2> QED BY <1>6, <2>4, <2>5 DEF LoadSettles
<1>7. CASE ReceiveCommand(g)
  <2>1. PICK T : Receives(g, T)
    BY <1>7 DEF ReceiveCommand
  <2>2. UNCHANGED <<slot, loads, outbox>> /\ slot[g] = "done"
    BY <1>7 DEF ReceiveCommand
  <2>3. CASE /\ ~CommandsAhead(g) /\ core' = [core EXCEPT ![g] = Started(core[g], Request(g))]
             /\ UNCHANGED queue
    <3>1. core'[g] = Started(core[g], Request(g)) /\ \A h \in Workers : h # g => core'[h] = core[h]
      BY <2>3
    <3>2. core[g].active = {} /\ queue[g] = << >> /\ queue' = queue
      BY <2>3 DEF CommandsAhead
    <3> QED BY <1>2, <2>1, <2>2, <3>1, <3>2 DEF Effect, StartsCommand, Others
  <2>4. CASE /\ CommandsAhead(g) /\ queue' = [queue EXCEPT ![g] = Append(queue[g], Request(g))]
             /\ UNCHANGED core
    <3>1. core[g].active # {} /\ core' = core
      BY <2>4 DEF CommandsAhead, InOrder
    <3>2. /\ queue'[g] = Append(queue[g], Request(g))
          /\ \A h \in Workers : h # g => queue'[h] = queue[h]
      BY <2>4
    <3> QED BY <1>2, <2>1, <2>2, <3>1, <3>2 DEF Effect, QueuesCommand, Others
  <2> QED BY <1>7, <2>3, <2>4 DEF ReceiveCommand
<1>8. ASSUME NEW m \in core[g].active, Emit(g, m) PROVE Others(g) /\ Effect(g)
  <2>1. m.id \in Ids
    BY DEF CoreStates, Requests
  <2>2. /\ Reply("LOG", m.id, "done") \in Messages /\ Reply("LOG", m.id, "done").type = "LOG"
        /\ Reply("LOG", m.id, "done").id = m.id /\ Reply("LOG", m.id, "done").data = "done"
    BY <2>1 DEF Reply, Messages, Values
  <2>3. /\ UNCHANGED <<inbox, slot, loads, queue>> /\ Post(g, <<Reply("LOG", m.id, "done")>>)
        /\ core' = [core EXCEPT ![g].events = @ + 1]
    BY <1>8 DEF Emit
  <2>4. /\ \A h \in Workers : h # g => core'[h] = core[h]
        /\ core'[g].active = core[g].active /\ core'[g].timeoutMs = core[g].timeoutMs
        /\ core'[g].abortFlag = core[g].abortFlag
    BY <2>3 DEF CoreStates
  <2> QED BY <1>3, <2>2, <2>3, <2>4 DEF Effect, Tells, Others
<1>9. ASSUME NEW m \in core[g].active, NEW a \in Messages, Finish(g, m, <<a>>),
             a.type # "LOG", a.id = m.id, a.data \notin {"first", "again", "notLoaded"},
             a.data = "stopped" => StopRequested(g)
      PROVE  Others(g) /\ Effect(g)
  <2>1. /\ UNCHANGED <<inbox, slot, loads>> /\ Post(g, <<a>>)
        /\ core' = [core EXCEPT ![g] = IF queue[g] = << >> THEN Reset(core[g], m)
                                       ELSE Started(Reset(core[g], m), Head(queue[g]))]
        /\ queue' = [queue EXCEPT ![g] = IF queue[g] = << >> THEN queue[g] ELSE Tail(queue[g])]
    BY <1>9 DEF Finish
  <2>2. \A h \in Workers : h # g => core'[h] = core[h] /\ queue'[h] = queue[h]
    BY <2>1
  <2>3. \/ queue[g] = << >> /\ queue'[g] = queue[g] /\ core'[g] = Reset(core[g], m)
        \/ /\ queue[g] # << >> /\ queue'[g] = Tail(queue[g])
           /\ core'[g] = Started(Reset(core[g], m), Head(queue[g]))
    BY <2>1
  <2>4. Ends(g)
    BY <1>3, <1>9, <2>1, <2>3 DEF Ends
  <2> QED BY <1>3, <2>1, <2>2, <2>4 DEF Effect, Others
<1>10. CASE RunCommand(g)
  <2>1. PICK m \in core[g].active : Emit(g, m) \/ Complete(g, m) \/ Stop(g, m) \/ Throw(g, m)
    BY <1>10 DEF RunCommand
  <2>2. m.type \in Types /\ m.id \in Ids
    BY DEF CoreStates, Requests
  <2>3. CASE Complete(g, m)
    <3> DEFINE a == Reply(m.type, m.id, "done")
    <3>1. a \in Messages /\ a.type # "LOG" /\ a.id = m.id /\ a.data = "done"
      BY <2>2 DEF Reply, Messages, Values, Types
    <3> QED BY <1>9, <2>3, <3>1 DEF Complete
  <2>4. CASE Stop(g, m)
    <3> DEFINE a == Reply(m.type, m.id, "stopped")
    <3>1. a \in Messages /\ a.type # "LOG" /\ a.id = m.id /\ a.data = "stopped"
      BY <2>2 DEF Reply, Messages, Values, Types
    <3> QED BY <1>9, <2>4, <3>1 DEF Stop
  <2>5. CASE Throw(g, m)
    <3>1. PICK error \in {"failed", "trap"} : Finish(g, m, Failure(m.id, error))
      BY <2>5 DEF Throw
    <3> DEFINE a == Reply("ERROR", m.id, error)
    <3>2. a \in Messages /\ a.type # "LOG" /\ a.id = m.id /\ a.data = error
      BY <2>2 DEF Reply, Messages, Errors
    <3> QED BY <1>9, <3>1, <3>2 DEF Failure
  <2> QED BY <1>8, <2>1, <2>3, <2>4, <2>5
<1> QED BY <1>1, <1>4, <1>5, <1>6, <1>7, <1>10 DEF WorkerStep, Receive
-----------------------------------------------------------------------------
(* The order of the calls.                                                  *)

LEMMA Held ==
  ASSUME TypeOK, NEW g \in Workers
  PROVE  /\ inbox[g] \in Seq(Requests) /\ queue[g] \in Seq(Requests) /\ loads[g] \in Seq(Ids)
         /\ outbox[g] \in Seq(Messages) /\ core[g] \in CoreStates
         /\ core[g].active \subseteq Requests
         /\ \A m \in InSeq(inbox[g]) \cup InSeq(queue[g]) \cup core[g].active :
              m \in Requests /\ m.id \in Ids
         /\ \A r \in InSeq(outbox[g]) : r \in Messages /\ r.id \in Ids
         /\ \A id \in InSeq(loads[g]) : id \in Ids
         /\ \A id \in Ids : id \in Int
<1>1. /\ inbox[g] \in Seq(Requests) /\ queue[g] \in Seq(Requests) /\ loads[g] \in Seq(Ids)
      /\ outbox[g] \in Seq(Messages) /\ core[g] \in CoreStates
  BY DEF TypeOK, LinkTypeOK, WorkerTypeOK
<1>2. core[g].active \subseteq Requests
  BY <1>1 DEF CoreStates
<1>3. /\ InSeq(inbox[g]) \subseteq Requests /\ InSeq(queue[g]) \subseteq Requests
      /\ InSeq(outbox[g]) \subseteq Messages /\ InSeq(loads[g]) \subseteq Ids
  BY <1>1, InSeqType
<1> QED BY <1>1, <1>2, <1>3 DEF Requests, Messages, Ids

\* The request taken from the port came before those still there.
LEMMA Taken ==
  ASSUME TypeOK, AnswersOwnCalls, NEW g \in Workers, InOrder(g), Takes(g)
  PROVE  /\ Request(g) \in InSeq(inbox[g]) /\ Request(g) \in Requests
         /\ Request(g).id \in Ids /\ sentTo[Request(g).id] = g
         /\ inbox'[g] \in Seq(Requests) /\ Rising(inbox'[g])
         /\ \A n \in InSeq(inbox'[g]) : n \in InSeq(inbox[g]) /\ Request(g).id < n.id
         /\ \A n \in InSeq(inbox[g]) : n = Request(g) \/ n \in InSeq(inbox'[g])
         /\ \A id \in Reached(g) : id < Request(g).id
<1>1. inbox[g] \in Seq(Requests) /\ inbox[g] # << >> /\ inbox'[g] = Tail(inbox[g])
  BY Held DEF Takes
<1>2. /\ Request(g) \in InSeq(inbox[g]) /\ Request(g) \in Requests
      /\ InSeq(inbox'[g]) \subseteq InSeq(inbox[g]) /\ inbox'[g] \in Seq(Requests)
  BY <1>1, InSeqTail DEF Request
<1>3. Rising(inbox'[g]) /\ \A n \in InSeq(inbox'[g]) : Request(g).id < n.id
  BY <1>1, RisingTail DEF InOrder, Request
<1>4. \A n \in InSeq(inbox[g]) : n = Request(g) \/ n \in InSeq(inbox'[g])
  BY <1>1, TailElements DEF Request
<1>5. Request(g).id \in Ids /\ sentTo[Request(g).id] = g
  BY <1>2 DEF Requests, AnswersOwnCalls, InFlight, Unreceived
<1> QED BY <1>2, <1>3, <1>4, <1>5 DEF InOrder

\* With the request it takes, a worker has still received only earlier calls.
LEMMA ReachedGrows ==
  ASSUME TypeOK, AnswersOwnCalls, NEW g \in Workers, InOrder(g), Takes(g),
         Reached(g)' \subseteq Reached(g) \cup {Request(g).id}
  PROVE  \A id \in Reached(g)', n \in InSeq(inbox'[g]) : id < n.id
<1> SUFFICES ASSUME NEW id \in Reached(g)', NEW n \in InSeq(inbox'[g]) PROVE id < n.id
  OBVIOUS
<1>1. n \in InSeq(inbox[g]) /\ Request(g).id < n.id
  BY Taken
<1>2. \A x \in Reached(g) : x < n.id
  BY <1>1 DEF InOrder
<1> QED BY <1>1, <1>2

LEMMA AnswerKeepsOrder ==
  ASSUME TypeOK, AnswersOwnCalls, NEW g \in Workers, InOrder(g), AnswersNow(g),
         UNCHANGED <<sentTo, promise>>
  PROVE  InOrder(g)'
<1>1. PICK a \in Messages : outbox'[g] = Append(outbox[g], a) /\ a.id = Request(g).id
  BY DEF AnswersNow
<1>2. InSeq(outbox'[g]) = InSeq(outbox[g]) \cup {a}
  BY <1>1, InSeqAppend, Held
<1>3. UNCHANGED <<slot[g], loads[g], queue[g], core[g]>> /\ Takes(g)
  BY DEF AnswersNow
<1>4. Reached(g)' \subseteq Reached(g) \cup {Request(g).id}
  BY <1>1, <1>2, <1>3 DEF Reached, Loading, Queued, Executing, Told
<1>5. \A id \in Reached(g)', n \in InSeq(inbox'[g]) : id < n.id
  BY <1>3, <1>4, ReachedGrows
<1>6. \A r \in InSeq(outbox'[g]) : sentTo'[r.id] = g
  BY <1>1, <1>2, <1>3, Taken DEF InOrder
<1> QED BY <1>3, <1>5, <1>6, Taken DEF InOrder

LEMMA LoadKeepsOrder ==
  ASSUME TypeOK, AnswersOwnCalls, NEW g \in Workers, InOrder(g),
         WaitsForCore(g) \/ CoreSettles(g), UNCHANGED <<sentTo, promise>>
  PROVE  InOrder(g)'
<1>1. CASE WaitsForCore(g)
  <2>1. /\ Takes(g) /\ UNCHANGED <<queue[g], core[g], outbox[g]>> /\ slot'[g] = "loading"
        /\ loads'[g] = Append(loads[g], Request(g).id) /\ slot[g] # "done"
    BY <1>1 DEF WaitsForCore
  <2>2. InSeq(loads'[g]) = InSeq(loads[g]) \cup {Request(g).id}
    BY <2>1, InSeqAppend, Held, Taken
  <2>3. RisingIds(loads'[g])
    <3>1. \A n \in InSeq(loads[g]) : n < Request(g).id
      BY <2>1, Taken DEF Reached, Loading
    <3>2. RisingIds(loads[g]) /\ loads[g] \in Seq(Ids) /\ Request(g).id \in Ids
      BY <2>1, Held, Taken DEF InOrder
    <3> QED BY <2>1, <3>1, <3>2, RisingIdsAppend
  <2>4. Reached(g)' \subseteq Reached(g) \cup {Request(g).id}
    BY <2>1, <2>2 DEF Reached, Loading, Queued, Executing, Told
  <2>5. \A id \in Reached(g)', n \in InSeq(inbox'[g]) : id < n.id
    BY <2>1, <2>4, ReachedGrows
  <2> QED BY <2>1, <2>3, <2>5, Taken DEF InOrder
<1>2. CASE CoreSettles(g)
  <2>1. /\ slot[g] = "loading" /\ slot'[g] \in {"done", "empty"} /\ loads'[g] = << >>
        /\ UNCHANGED <<inbox[g], queue[g], core[g]>>
    BY <1>2 DEF CoreSettles
  <2>2. PICK answers \in Seq(Messages) :
          /\ outbox'[g] = outbox[g] \o answers /\ DOMAIN answers = DOMAIN loads[g]
          /\ \A i \in DOMAIN answers : answers[i].id = loads[g][i]
    BY <1>2 DEF CoreSettles
  <2>3. InSeq(outbox'[g]) = InSeq(outbox[g]) \cup InSeq(answers)
    BY <2>2, InSeqConcat, Held
  <2>4. \A r \in InSeq(answers) : r.id \in Loading(g)
    BY <2>2 DEF InSeq, Loading
  <2>5. Reached(g)' \subseteq Reached(g)
    <3>1. Loading(g)' = {} /\ Queued(g)' = Queued(g) /\ Executing(g)' = Executing(g)
      BY <2>1, EmptyRises DEF Loading, Queued, Executing
    <3> QED BY <2>3, <2>4, <3>1 DEF Reached, Told
  <2>6. \A r \in InSeq(outbox'[g]) : sentTo'[r.id] = g
    BY <2>3, <2>4 DEF InOrder, AnswersOwnCalls, InFlight
  <2>7. core[g].active = {} /\ queue[g] = << >>
    BY <2>1 DEF InOrder
  <2> QED BY <2>1, <2>5, <2>6, <2>7, EmptyRises DEF InOrder
<1> QED BY <1>1, <1>2

LEMMA CommandKeepsOrder ==
  ASSUME TypeOK, AnswersOwnCalls, NEW g \in Workers, InOrder(g),
         StartsCommand(g) \/ QueuesCommand(g), UNCHANGED <<sentTo, promise>>
  PROVE  InOrder(g)'
<1>1. CASE StartsCommand(g)
  <2>1. /\ Takes(g) /\ UNCHANGED <<slot[g], loads[g], queue[g], outbox[g]>> /\ slot[g] = "done"
        /\ core'[g].active = {Request(g)} /\ queue[g] = << >>
    BY <1>1 DEF StartsCommand, Started
  <2>2. Reached(g)' \subseteq Reached(g) \cup {Request(g).id}
    BY <2>1 DEF Reached, Loading, Queued, Executing, Told
  <2>3. \A id \in Reached(g)', n \in InSeq(inbox'[g]) : id < n.id
    BY <2>1, <2>2, ReachedGrows
  <2> QED BY <2>1, <2>3, Taken, EmptyRises DEF InOrder
<1>2. CASE QueuesCommand(g)
  <2>1. /\ Takes(g) /\ UNCHANGED <<slot[g], loads[g], core[g], outbox[g]>> /\ slot[g] = "done"
        /\ core[g].active # {} /\ queue'[g] = Append(queue[g], Request(g))
    BY <1>2 DEF QueuesCommand
  <2>2. InSeq(queue'[g]) = InSeq(queue[g]) \cup {Request(g)}
    BY <2>1, InSeqAppend, Held, Taken
  <2>3. \A n \in InSeq(queue[g]) \cup core[g].active : n.id < Request(g).id
    BY <2>1, Taken DEF Reached, Queued, Executing
  <2>4. Rising(queue'[g])
    BY <2>1, <2>3, RisingAppend, Held, Taken DEF InOrder
  <2>5. Reached(g)' \subseteq Reached(g) \cup {Request(g).id}
    BY <2>1, <2>2 DEF Reached, Loading, Queued, Executing, Told
  <2>6. \A id \in Reached(g)', n \in InSeq(inbox'[g]) : id < n.id
    BY <2>1, <2>5, ReachedGrows
  <2> QED BY <2>1, <2>2, <2>3, <2>4, <2>6, Taken DEF InOrder
<1> QED BY <1>1, <1>2

LEMMA RunKeepsOrder ==
  ASSUME TypeOK, AnswersOwnCalls, NEW g \in Workers, InOrder(g),
         Tells(g) \/ Ends(g), UNCHANGED <<sentTo, promise>>
  PROVE  InOrder(g)'
<1>1. UNCHANGED <<inbox[g], slot[g], loads[g]>>
  BY DEF Tells, Ends
<1>2. PICK m \in core[g].active, a \in Messages :
        /\ outbox'[g] = Append(outbox[g], a) /\ a.id = m.id
        /\ \/ core'[g].active = core[g].active /\ queue'[g] = queue[g]
           \/ /\ queue[g] = << >> /\ queue'[g] = queue[g]
              /\ core'[g].active = core[g].active \ {m}
           \/ /\ queue[g] # << >> /\ queue'[g] = Tail(queue[g])
              /\ core'[g].active = (core[g].active \ {m}) \cup {Head(queue[g])}
  <2>1. CASE Tells(g)
    BY <2>1 DEF Tells
  <2>2. CASE Ends(g)
    <3>1. PICK m \in core[g].active, a \in Messages :
            /\ outbox'[g] = Append(outbox[g], a) /\ a.id = m.id
            /\ \/ /\ queue[g] = << >> /\ queue'[g] = queue[g]
                  /\ core'[g] = Reset(core[g], m)
               \/ /\ queue[g] # << >> /\ queue'[g] = Tail(queue[g])
                  /\ core'[g] = Started(Reset(core[g], m), Head(queue[g]))
      BY <2>2 DEF Ends
    <3>2. /\ Reset(core[g], m).active = core[g].active \ {m}
          /\ Started(Reset(core[g], m), Head(queue[g])).active
               = (core[g].active \ {m}) \cup {Head(queue[g])}
      BY DEF Reset, Started
    <3> QED BY <3>1, <3>2
  <2> QED BY <2>1, <2>2
<1>3. core[g].active = {m} /\ slot[g] = "done"
  BY DEF InOrder
<1>4. InSeq(outbox'[g]) = InSeq(outbox[g]) \cup {a}
  BY <1>2, InSeqAppend, Held
<1>5. \A r \in InSeq(outbox'[g]) : sentTo'[r.id] = g
  BY <1>2, <1>4 DEF InOrder, AnswersOwnCalls, InFlight, Executing
<1>6. m.id \in Reached(g)
  BY DEF Reached, Executing
<1>7. CASE core'[g].active = core[g].active /\ queue'[g] = queue[g]
  <2>1. Reached(g)' \subseteq Reached(g)
    BY <1>1, <1>2, <1>4, <1>6, <1>7 DEF Reached, Loading, Queued, Executing, Told
  <2> QED BY <1>1, <1>5, <1>7, <2>1 DEF InOrder
<1>8. CASE queue[g] = << >> /\ queue'[g] = queue[g] /\ core'[g].active = core[g].active \ {m}
  <2>1. Reached(g)' \subseteq Reached(g)
    BY <1>1, <1>2, <1>4, <1>6, <1>8 DEF Reached, Loading, Queued, Executing, Told
  <2> QED BY <1>1, <1>3, <1>5, <1>8, <2>1 DEF InOrder
<1>9. CASE /\ queue[g] # << >> /\ queue'[g] = Tail(queue[g])
           /\ core'[g].active = (core[g].active \ {m}) \cup {Head(queue[g])}
  <2>1. core'[g].active = {Head(queue[g])}
    BY <1>3, <1>9
  <2>2. Head(queue[g]) \in InSeq(queue[g]) /\ InSeq(queue'[g]) \subseteq InSeq(queue[g])
    BY <1>9, Held, InSeqTail
  <2>3. Rising(queue'[g]) /\ \A n \in InSeq(queue'[g]) : Head(queue[g]).id < n.id
    BY <1>9, Held, RisingTail DEF InOrder
  <2>4. Reached(g)' \subseteq Reached(g)
    BY <1>1, <1>2, <1>4, <1>6, <2>1, <2>2 DEF Reached, Loading, Queued, Executing, Told
  <2> QED BY <1>1, <1>3, <1>5, <2>1, <2>3, <2>4 DEF InOrder
<1> QED BY <1>2, <1>7, <1>8, <1>9

\* A worker without part in a step.
LEMMA OthersKeepOrder ==
  ASSUME NEW g \in Workers, InOrder(g), Quiet(g), UNCHANGED <<sentTo, promise>>
  PROVE  InOrder(g)'
<1>1. Reached(g)' = Reached(g)
  BY DEF Quiet, Reached, Loading, Queued, Executing, Told
<1> QED BY <1>1 DEF InOrder, Quiet

LEMMA WorkerStepKeepsOrder ==
  ASSUME TypeOK, AnswersOwnCalls, NEW g \in Workers, InOrder(g), WorkerStep(g),
         UNCHANGED classVars, NEW h \in Workers, InOrder(h)
  PROVE  InOrder(h)'
<1>1. Others(g) /\ Effect(g) /\ UNCHANGED <<sentTo, promise>>
  BY WorkerEffect DEF classVars, callVars
<1>2. CASE h # g
  BY <1>1, <1>2, OthersKeepOrder DEF Others, Quiet
<1>3. CASE h = g
  BY <1>1, <1>3, OthersKeepOrder, AnswerKeepsOrder, LoadKeepsOrder, CommandKeepsOrder,
     RunKeepsOrder DEF Effect
<1> QED BY <1>2, <1>3
-----------------------------------------------------------------------------
(* The steps of the application's event loop, by what they do to the calls.  *)

Frame == UNCHANGED <<inbox, nextID, sent, sentTo, signalOf, sawLoaded>>

\* #send posts request m to worker g, which load() may just have created.
Makes(g, m, sig) ==
  /\ nextID \in Ids /\ nextID' = nextID + 1 /\ m.id = nextID
  /\ inbox'[g] = Append(inbox[g], m) /\ \A h \in Workers : h # g => inbox'[h] = inbox[h]
  /\ sent' = [sent EXCEPT ![nextID] = m] /\ promise' = [promise EXCEPT ![nextID] = "pending"]
  /\ sentTo' = [sentTo EXCEPT ![nextID] = g] /\ signalOf' = [signalOf EXCEPT ![nextID] = sig]
  /\ sawLoaded' = IF loaded THEN sawLoaded \cup {nextID} ELSE sawLoaded
  /\ rejects' = rejects \cup {nextID}
  /\ worker' = g
  /\ \/ worker = g /\ workers' = workers
     \/ worker = NoWorker /\ g = workers + 1 /\ workers' = workers + 1
  /\ UNCHANGED <<loaded, aborted, uncaught, outbox, failed, flags>>

Fires(s) ==
  /\ aborted' = aborted \cup {s}
  /\ \A id \in Ids : \/ promise'[id] = promise[id]
                     \/ Pending(id) /\ signalOf[id] = s /\ promise'[id] = "aborted"
  /\ \A id \in flags' : id \in flags \/ (Pending(id) /\ signalOf[id] = s /\ id \in Ids)
  /\ flags \subseteq flags'
  /\ Frame /\ UNCHANGED <<worker, workers, loaded, rejects, uncaught, outbox, failed>>

\* A reply or an ERROR that finds its callback; a trap ends the session too.
Hears(g) ==
  /\ outbox[g] # << >> /\ Front(g).type # "LOG" /\ Front(g).id \in rejects
  /\ \A id \in Ids : \/ promise'[id] = promise[id]
                     \/ Pending(id) /\ id = Front(g).id /\ promise'[id] = Front(g).data
                     \/ Pending(id) /\ id # Front(g).id /\ promise'[id] = "crashed"
  /\ \/ /\ UNCHANGED <<worker, failed>> /\ outbox' = Popped(g)
        /\ rejects' = rejects \ {Front(g).id}
        /\ loaded' = (loaded \/ Front(g).type = "LOAD")
     \/ /\ worker' = NoWorker /\ rejects' = {} /\ loaded' = (loaded /\ worker = NoWorker)
        /\ outbox' = [h \in Workers |-> IF h = worker /\ ~OnNode THEN << >> ELSE Popped(g)[h]]
  /\ Frame /\ UNCHANGED <<workers, aborted, uncaught, flags>>

\* An event, or a message whose callbacks are gone.
Passes(g) ==
  /\ outbox[g] # << >> /\ outbox' = Popped(g)
  /\ \/ Front(g).type = "LOG" /\ UNCHANGED <<loaded, uncaught>>
     \/ /\ Front(g).type # "LOG" /\ Front(g).id \notin rejects
        /\ loaded' = (loaded \/ Front(g).type = "LOAD") /\ uncaught' = TRUE
  /\ Frame /\ UNCHANGED <<worker, workers, promise, rejects, aborted, failed, flags>>

\* terminate() and onerror.
Closes ==
  /\ worker' = NoWorker /\ rejects' = {}
  /\ loaded' = (loaded /\ worker = NoWorker) \/ loaded' = FALSE
  /\ \A id \in Ids : \/ promise'[id] = promise[id]
                     \/ Pending(id) /\ promise'[id] \in {"terminated", "workerError"}
  /\ outbox' = [h \in Workers |-> IF h = worker /\ ~OnNode THEN << >> ELSE outbox[h]]
  /\ Frame /\ UNCHANGED <<workers, aborted, uncaught, flags>>

Ignores ==
  /\ failed' \in [Workers -> BOOLEAN] /\ \A h \in Workers : failed[h] /\ ~failed'[h] => h # worker
  /\ Frame
  /\ UNCHANGED <<worker, workers, loaded, promise, rejects, aborted, uncaught, outbox, flags>>

ClassEffect ==
  \/ \E g \in Workers, m \in Requests, sig \in Signals \cup {NoSignal} : Makes(g, m, sig)
  \/ \E s \in Signals : Fires(s)
  \/ \E g \in Workers : Hears(g) \/ Passes(g)
  \/ Closes \/ Ignores

LEMMA SendMakes ==
  ASSUME TypeOK, NEW g \in Workers, NEW type \in Types, NEW timed \in BOOLEAN,
         NEW ends \in BOOLEAN, NEW sig \in Signals \cup {NoSignal},
         Send(g, type, timed, ends, sig), worker' = g,
         \/ worker = g /\ workers' = workers
         \/ worker = NoWorker /\ g = workers + 1 /\ workers' = workers + 1,
         UNCHANGED <<loaded, aborted, uncaught, outbox, failed, flags>>
  PROVE  \E m \in Requests : Makes(g, m, sig)
<1> DEFINE m == [id |-> nextID, type |-> type, timed |-> timed, ends |-> ends,
                 flagged |-> type = "EXEC" /\ sig # NoSignal /\ CanShare]
<1>1. /\ nextID \in Ids /\ nextID' = nextID + 1
      /\ inbox' = [inbox EXCEPT ![g] = Append(inbox[g], m)]
      /\ sent' = [sent EXCEPT ![nextID] = m] /\ promise' = [promise EXCEPT ![nextID] = "pending"]
      /\ sentTo' = [sentTo EXCEPT ![nextID] = g] /\ signalOf' = [signalOf EXCEPT ![nextID] = sig]
      /\ sawLoaded' = IF loaded THEN sawLoaded \cup {nextID} ELSE sawLoaded
      /\ rejects' = rejects \cup {nextID}
  BY DEF Send, getMessageID
<1>2. m \in Requests /\ m.id = nextID
  BY <1>1 DEF Requests
<1> HIDE DEF m
<1>3. inbox'[g] = Append(inbox[g], m) /\ \A h \in Workers : h # g => inbox'[h] = inbox[h]
  BY <1>1 DEF TypeOK, LinkTypeOK
<1> QED BY <1>1, <1>2, <1>3 DEF Makes

LEMMA DropEffect ==
  ASSUME NEW box \in [Workers -> Seq(Messages)], NEW events, DropWorker(box, events)
  PROVE  /\ worker' = NoWorker
         /\ outbox' = [h \in Workers |-> IF h = worker /\ ~OnNode THEN << >> ELSE box[h]]
  BY DEF DropWorker

LEMMA ApplicationEffect ==
  ASSUME IInv, Application PROVE ClassEffect
<1> USE DEF IInv
<1>1. ASSUME NEW sig \in Signals \cup {NoSignal}, Load(sig) PROVE ClassEffect
  <2>1. /\ worker' \in Workers
        /\ \/ worker = worker' /\ workers' = workers
           \/ worker = NoWorker /\ worker' = workers + 1 /\ workers' = workers + 1
    BY <1>1 DEF Load, TypeOK, ClassTypeOK, Workers, NoWorker
  <2>2. /\ Send(worker', "LOAD", FALSE, TRUE, sig)
        /\ UNCHANGED <<loaded, aborted, uncaught, outbox, failed, flags>>
    BY <1>1 DEF Load
  <2>3. "LOAD" \in Types
    BY DEF Types
  <2> DEFINE g == worker'
  <2>4. g \in Workers /\ worker' = g
    BY <2>1
  <2>5. \E m \in Requests : Makes(g, m, sig)
    BY <2>1, <2>2, <2>3, <2>4, SendMakes
  <2> QED BY <2>4, <2>5 DEF ClassEffect
<1>2. ASSUME NEW sig \in Signals \cup {NoSignal}, NEW type \in Types, NEW timed \in BOOLEAN,
             NEW ends \in BOOLEAN, Call(type, timed, ends, sig)
      PROVE  ClassEffect
  <2>1. /\ worker \in Workers /\ worker' = worker /\ workers' = workers
        /\ UNCHANGED <<loaded, aborted, uncaught, outbox, failed, flags>>
        /\ Send(worker, type, timed, ends, sig)
    BY <1>2 DEF Call, TypeOK, ClassTypeOK
  <2>2. \E m \in Requests : Makes(worker, m, sig)
    BY <2>1, SendMakes
  <2> QED BY <2>1, <2>2 DEF ClassEffect
<1>3. ASSUME NEW c \in Menu,
             \/ c.type = "LOAD" /\ Load(c.signal)
             \/ c.type = "EXEC" /\ Exec(c.timed, c.ends, c.signal)
             \/ c.type = "FFPROBE" /\ Probe(c.timed, c.ends, c.signal)
             \/ c.type = "FS" /\ FileOp(c.signal)
      PROVE  ClassEffect
  <2>1. c.timed \in BOOLEAN /\ c.ends \in BOOLEAN /\ c.signal \in Signals \cup {NoSignal}
    BY DEF Calls
  <2> QED BY <1>1, <1>2, <1>3, <2>1 DEF Exec, Probe, FileOp, Types
<1>4. ASSUME NEW s \in Signals, Abort(s) PROVE Fires(s)
  <2>1. \A id \in Ids : \/ promise'[id] = promise[id]
                        \/ Pending(id) /\ signalOf[id] = s /\ promise'[id] = "aborted"
    BY <1>4 DEF Abort, Settle
  <2>2. flags' = flags \cup {id \in {i \in Ids : Pending(i) /\ signalOf[i] = s} : sent[id].flagged}
    BY <1>4 DEF Abort
  <2>3. /\ \A id \in flags' : id \in flags \/ (Pending(id) /\ signalOf[id] = s /\ id \in Ids)
        /\ flags \subseteq flags'
    BY <2>2
  <2>4. /\ aborted' = aborted \cup {s} /\ Frame
        /\ UNCHANGED <<worker, workers, loaded, rejects, uncaught, outbox, failed>>
    BY <1>4 DEF Abort, Frame
  <2> QED BY <2>1, <2>3, <2>4 DEF Fires
<1>5. CASE Terminate
  <2>1. DropWorker(outbox, failed) /\ outbox \in [Workers -> Seq(Messages)]
    BY <1>5 DEF Terminate, RejectAllAndDrop, TypeOK, LinkTypeOK
  <2>2. \A id \in Ids : promise'[id] = promise[id] \/ (Pending(id) /\ promise'[id] = "terminated")
    BY <1>5 DEF Terminate, RejectAllAndDrop
  <2>3. Closes
    BY <1>5, <2>1, <2>2, DropEffect DEF Terminate, RejectAllAndDrop, Closes, Frame,
       LoadedAfterTerminate
  <2> QED BY <2>3 DEF ClassEffect
<1> QED BY <1>3, <1>4, <1>5 DEF Application, ClassEffect

LEMMA DeliverEffect ==
  ASSUME IInv, NEW g \in Workers, Deliver(g) PROVE ClassEffect
<1> USE DEF IInv
<1>1. /\ outbox \in [Workers -> Seq(Messages)] /\ promise \in [Ids -> Outcomes]
      /\ failed \in [Workers -> BOOLEAN] /\ resolves = rejects
  BY DEF TypeOK, LinkTypeOK, ClassTypeOK, Bookkeeping
<1>2. CASE DeliverReply(g) \/ DeliverError(g)
  <2>1. /\ outbox[g] # << >> /\ Front(g).type # "LOG" /\ Front(g).id \in rejects
        /\ UNCHANGED <<worker, failed, workers, aborted, uncaught, flags>> /\ Frame
        /\ outbox' = Popped(g) /\ rejects' = rejects \ {Front(g).id}
        /\ loaded' = (loaded \/ Front(g).type = "LOAD")
        /\ Settle({Front(g).id}, Front(g).data)
    BY <1>1, <1>2 DEF DeliverReply, DeliverError, Forget, Frame, Types, TypeOK, ClassTypeOK
  <2>2. \A id \in Ids : \/ promise'[id] = promise[id]
                        \/ Pending(id) /\ id = Front(g).id /\ promise'[id] = Front(g).data
    BY <2>1 DEF Settle
  <2>3. Hears(g)
    BY <2>1, <2>2 DEF Hears
  <2> QED BY <2>3 DEF ClassEffect
<1>3. CASE DeliverTrap(g)
  <2>1. /\ outbox[g] # << >> /\ Front(g).type # "LOG" /\ Front(g).id \in rejects
        /\ Front(g).data = "trap" /\ DropWorker(Popped(g), failed) /\ rejects' = {}
        /\ loaded' = (loaded /\ worker = NoWorker) /\ Frame
        /\ UNCHANGED <<workers, aborted, uncaught, flags>>
    BY <1>3 DEF DeliverTrap, RejectAllAndDrop, Frame, LoadedAfterTerminate
  <2>2. \A id \in Ids : \/ promise'[id] = promise[id]
                        \/ Pending(id) /\ id = Front(g).id /\ promise'[id] = Front(g).data
                        \/ Pending(id) /\ id # Front(g).id /\ promise'[id] = "crashed"
    BY <1>3, <2>1 DEF DeliverTrap, RejectAllAndDrop
  <2>3. Popped(g) \in [Workers -> Seq(Messages)]
    BY <2>1, PoppedShorter
  <2>4. Hears(g)
    BY <2>1, <2>2, <2>3, DropEffect DEF Hears
  <2> QED BY <2>4 DEF ClassEffect
<1>4. CASE DeliverStray(g) \/ DeliverEvent(g)
  <2>1. Passes(g)
    BY <1>1, <1>4 DEF DeliverStray, DeliverEvent, Passes, Frame, classVars, callVars, Types
  <2> QED BY <2>1 DEF ClassEffect
<1>5. CASE DeliverFailure(g)
  <2>1. DropWorker(outbox, [failed EXCEPT ![g] = FALSE])
    BY <1>5 DEF DeliverFailure
  <2>2. \A id \in Ids : promise'[id] = promise[id] \/ (Pending(id) /\ promise'[id] = "workerError")
    BY <1>5 DEF DeliverFailure, Settle
  <2>3. Closes
    BY <1>1, <1>5, <2>1, <2>2, DropEffect DEF DeliverFailure, Closes, Frame
  <2> QED BY <2>3 DEF ClassEffect
<1>6. CASE IgnoreFailure(g)
  <2>1. g # worker
    BY <1>6 DEF IgnoreFailure, Expected, KnownWorkers
  <2>2. Ignores
    BY <1>1, <1>6, <2>1 DEF IgnoreFailure, Ignores, Frame, classVars, callVars
  <2> QED BY <2>2 DEF ClassEffect
<1> QED BY <1>2, <1>3, <1>4, <1>5, <1>6 DEF Deliver

\* Whatever is not a call leaves an outbox as it is, without its front, or empty.
Shorter(h) ==
  \/ outbox'[h] = outbox[h] \/ outbox'[h] = << >>
  \/ outbox[h] # << >> /\ outbox'[h] = Tail(outbox[h])

\* A call made before the next one has a lower number.
LEMMA Earlier ==
  ASSUME IInv, NEW g \in Workers, NEW id \in Ids, sentTo[id] = g \/ Told(id)
  PROVE  id < nextID /\ id # nextID
<1>1. id \in Int /\ nextID \in Int /\ g # NoWorker /\ "unsent" \notin Values \cup Errors
  BY DEF IInv, TypeOK, ClassTypeOK, Ids, Workers, NoWorker, Values, Errors
<1>2. ~(id >= nextID)
  BY <1>1 DEF IInv, FreshIDs, Told
<1> QED BY <1>1, <1>2

LEMMA CallKeepsOrder ==
  ASSUME IInv, UNCHANGED workerVars, NEW g \in Workers, NEW m \in Requests, NEW sig,
         Makes(g, m, sig), NEW h \in Workers, InOrder(h)
  PROVE  InOrder(h)'
<1>1. UNCHANGED <<outbox, slot, loads, queue, core>>
  BY DEF Makes, workerVars
<1>2. /\ nextID \in Ids /\ m.id = nextID
      /\ \A id \in Ids : id # nextID => promise'[id] = promise[id] /\ sentTo'[id] = sentTo[id]
      /\ promise'[nextID] = "pending" /\ promise'[nextID] \notin Values \cup Errors
  BY DEF Makes, IInv, TypeOK, ClassTypeOK, Told, Values, Errors
<1>3. TypeOK
  BY DEF IInv
<1>4. \A id \in Reached(h) : id \in Ids /\ id < nextID
  <2> TAKE id \in Reached(h)
  <2>1. id \in Ids /\ (sentTo[id] = h \/ Told(id))
    BY <1>3, Held DEF Reached, IInv, AnswersOwnCalls, InFlight, InOrder, Loading, Queued, Executing
  <2> QED BY <2>1, Earlier
<1>5. \A n \in InSeq(inbox[h]) : n.id < nextID
  <2> TAKE n \in InSeq(inbox[h])
  <2>1. n.id \in Ids /\ sentTo[n.id] = h
    BY <1>3, Held DEF IInv, AnswersOwnCalls, InFlight, Unreceived
  <2> QED BY <2>1, Earlier
<1>6. \A r \in InSeq(outbox[h]) : sentTo'[r.id] = h
  <2> TAKE r \in InSeq(outbox[h])
  <2>1. r.id \in Ids /\ sentTo[r.id] = h
    BY <1>3, Held DEF InOrder
  <2> QED BY <1>2, <2>1, Earlier
<1>7. Reached(h)' \subseteq Reached(h)
  BY <1>1, <1>2 DEF Reached, Loading, Queued, Executing, Told
<1>8. CASE h # g
  <2>1. inbox'[h] = inbox[h]
    BY <1>8 DEF Makes
  <2> QED BY <1>1, <1>6, <1>7, <2>1 DEF InOrder
<1>9. CASE h = g
  <2>1. inbox'[h] = Append(inbox[h], m) /\ inbox[h] \in Seq(Requests)
    BY <1>3, <1>9, Held DEF Makes
  <2>2. InSeq(inbox'[h]) = InSeq(inbox[h]) \cup {m}
    BY <2>1, InSeqAppend
  <2>3. Rising(inbox'[h])
    BY <1>2, <1>5, <2>1, RisingAppend DEF InOrder
  <2>4. \A id \in Reached(h)', n \in InSeq(inbox'[h]) : id < n.id
    BY <1>2, <1>4, <1>7, <2>2 DEF InOrder
  <2> QED BY <1>1, <1>6, <2>3, <2>4 DEF InOrder
<1> QED BY <1>8, <1>9

LEMMA ShorterSet ==
  ASSUME TypeOK, NEW h \in Workers, Shorter(h)
  PROVE  InSeq(outbox'[h]) \subseteq InSeq(outbox[h])
  BY Held, InSeqTail, EmptyRises DEF Shorter

LEMMA ShorterKeepsOrder ==
  ASSUME TypeOK, UNCHANGED <<workerVars, inbox, sentTo>>, NEW h \in Workers, InOrder(h), Shorter(h),
         \A id \in Ids : sentTo[id] = h /\ Told(id)' => id \in Reached(h)
  PROVE  InOrder(h)'
<1>1. InSeq(outbox'[h]) \subseteq InSeq(outbox[h])
  BY ShorterSet
<1>2. UNCHANGED <<slot, loads, queue, core>>
  BY DEF workerVars
<1>3. Reached(h)' \subseteq Reached(h)
  BY <1>1, <1>2 DEF Reached, Loading, Queued, Executing, Told
<1> QED BY <1>1, <1>2, <1>3 DEF InOrder

\* What the other steps of the event loop have in common.
LEMMA ShorterStep ==
  ASSUME IInv, ClassEffect,
         \A g \in Workers, m \in Requests, sig \in Signals \cup {NoSignal} : ~Makes(g, m, sig)
  PROVE  /\ Frame /\ workers' = workers
         /\ \A h \in Workers : Shorter(h)
         /\ \A id \in Ids : Told(id)' => Told(id) \/ \E g \in Workers : Hears(g) /\ id = Front(g).id
<1>1. outbox \in [Workers -> Seq(Messages)] /\ promise \in [Ids -> Outcomes]
  BY DEF IInv, TypeOK, LinkTypeOK, ClassTypeOK
<1>2. \A g, h \in Workers : Popped(g)[h] = IF h = g THEN Tail(outbox[g]) ELSE outbox[h]
  BY <1>1 DEF Popped
<1>3. {"aborted", "crashed", "terminated", "workerError"} \cap (Values \cup Errors) = {}
  BY DEF Values, Errors
<1>4. ASSUME NEW s \in Signals, Fires(s)
      PROVE  /\ Frame /\ workers' = workers
             /\ \A h \in Workers : Shorter(h)
             /\ \A id \in Ids : Told(id)' => Told(id)
  BY <1>3, <1>4 DEF Fires, Shorter, Told
<1>5. ASSUME NEW g \in Workers, Hears(g)
      PROVE  /\ Frame /\ workers' = workers
             /\ \A h \in Workers : Shorter(h)
             /\ \A id \in Ids : Told(id)' => Told(id) \/ id = Front(g).id
  <2>1. \A h \in Workers : Shorter(h)
    BY <1>2, <1>5 DEF Hears, Shorter
  <2>2. \A id \in Ids : Told(id)' => Told(id) \/ id = Front(g).id
    BY <1>3, <1>5 DEF Hears, Told
  <2> QED BY <1>5, <2>1, <2>2 DEF Hears
<1>6. ASSUME NEW g \in Workers, Passes(g)
      PROVE  /\ Frame /\ workers' = workers
             /\ \A h \in Workers : Shorter(h)
             /\ \A id \in Ids : Told(id)' => Told(id)
  BY <1>2, <1>6 DEF Passes, Shorter, Told
<1>7. CASE Closes \/ Ignores
  BY <1>3, <1>7 DEF Closes, Ignores, Shorter, Told
<1> QED BY <1>4, <1>5, <1>6, <1>7 DEF ClassEffect

LEMMA ClassKeepsOrder ==
  ASSUME IInv, ClassEffect, UNCHANGED workerVars, \A g \in Workers : InOrder(g),
         NEW h \in Workers
  PROVE  InOrder(h)'
<1>1. CASE \E g \in Workers, m \in Requests, sig \in Signals \cup {NoSignal} : Makes(g, m, sig)
  BY <1>1, CallKeepsOrder
<1>2. CASE \A g \in Workers, m \in Requests, sig \in Signals \cup {NoSignal} : ~Makes(g, m, sig)
  <2>1. /\ Frame /\ Shorter(h)
        /\ \A id \in Ids : Told(id)' => Told(id) \/ \E g \in Workers : Hears(g) /\ id = Front(g).id
    BY <1>2, ShorterStep
  <2>2. ASSUME NEW id \in Ids, sentTo[id] = h, Told(id)' PROVE id \in Reached(h)
    <3>1. CASE Told(id)
      BY <2>2, <3>1 DEF Reached
    <3>2. ASSUME NEW g \in Workers, Hears(g), id = Front(g).id PROVE id \in Reached(h)
      <4>1. Front(g) \in InSeq(outbox[g])
        BY <3>2, PoppedShorter DEF Hears, IInv
      <4>2. sentTo[id] = g
        BY <3>2, <4>1 DEF InOrder
      <4> QED BY <2>2, <3>2, <4>1, <4>2 DEF Reached
    <3> QED BY <2>1, <2>2, <3>1, <3>2
  <2>3. UNCHANGED <<workerVars, inbox, sentTo>>
    BY <2>1 DEF Frame
  <2>4. TypeOK
    BY DEF IInv
  <2> QED BY <2>1, <2>2, <2>3, <2>4, ShorterKeepsOrder
<1> QED BY <1>1, <1>2
-----------------------------------------------------------------------------
(* One answer to each call, behind its events.                              *)

LEMMA AnsweredIndices ==
  ASSUME TypeOK, NEW g \in Workers
  PROVE  /\ \A i \in DOMAIN outbox[g] : outbox[g][i].type # "LOG" => outbox[g][i].id \in Answered(g)
         /\ \A i \in DOMAIN outbox[g] : i \in Nat /\ i >= 1 /\ i < Len(outbox[g]) + 1
         /\ Answered(g) \subseteq {r.id : r \in InSeq(outbox[g])}
         /\ Answered(g) \subseteq Reached(g)
<1>1. outbox[g] \in Seq(Messages)
  BY Held
<1>2. \A i \in DOMAIN outbox[g] : i \in Nat /\ i >= 1 /\ i < Len(outbox[g]) + 1
  BY <1>1
<1> QED BY <1>2 DEF Answered, InSeq, Reached

\* An answer to a call that has none joins the replies.
LEMMA NewAnswer ==
  ASSUME TypeOK, NEW g \in Workers, OneAnswer(g), NEW a \in Messages, a.type # "LOG",
         outbox'[g] = Append(outbox[g], a), a.id \notin Answered(g),
         Executing(g) \subseteq Executing(g)' \cup {a.id}
  PROVE  AnswersDiffer(g)' /\ EventsAhead(g)' /\ Answered(g)' = Answered(g) \cup {a.id}
<1> DEFINE s == outbox[g]
           t == outbox'[g]
<1>1. /\ \A i \in DOMAIN t : \/ i \in DOMAIN s /\ t[i] = s[i]
                             \/ i = Len(s) + 1 /\ t[i] = a
      /\ \A i \in DOMAIN s : i \in DOMAIN t /\ i < Len(s) + 1 /\ t[i] = s[i]
      /\ Len(s) + 1 \in DOMAIN t /\ t[Len(s) + 1] = a
      /\ InSeq(t) = InSeq(s) \cup {a}
  BY Held, AppendElements, InSeqAppend
<1>2. \A i \in DOMAIN s : s[i].type # "LOG" => s[i].id # a.id
  BY AnsweredIndices
<1>3. AnswersDiffer(g)'
  BY <1>1, <1>2 DEF AnswersDiffer, OneAnswer
<1>4. EventsAhead(g)'
  <2> SUFFICES ASSUME NEW i \in DOMAIN t, t[i].type = "LOG"
               PROVE  \/ t[i].id \in Executing(g)'
                      \/ \E j \in DOMAIN t : j > i /\ t[j].type # "LOG" /\ t[j].id = t[i].id
    BY DEF EventsAhead
  <2>1. i \in DOMAIN s /\ t[i] = s[i] /\ Len(s) + 1 > i
    BY <1>1
  <2>2. CASE s[i].id \in Executing(g)
    BY <1>1, <2>1, <2>2
  <2>3. ASSUME NEW j \in DOMAIN s, j > i, s[j].type # "LOG", s[j].id = s[i].id
        PROVE  \E k \in DOMAIN t : k > i /\ t[k].type # "LOG" /\ t[k].id = t[i].id
    BY <1>1, <2>1, <2>3
  <2> QED BY <2>1, <2>2, <2>3 DEF OneAnswer, EventsAhead
<1>5. Answered(g)' = Answered(g) \cup {a.id}
  BY <1>1 DEF Answered
<1> QED BY <1>3, <1>4, <1>5

\* Nothing but the calls' places changes.
LEMMA SameOutbox ==
  ASSUME NEW g \in Workers, OneAnswer(g), outbox'[g] = outbox[g], Executing(g) \subseteq Executing(g)'
  PROVE  AnswersDiffer(g)' /\ EventsAhead(g)' /\ Answered(g)' = Answered(g)
  BY DEF OneAnswer, AnswersDiffer, EventsAhead, Answered

LEMMA TakingKeepsAnswers ==
  ASSUME TypeOK, AnswersOwnCalls, NEW g \in Workers, InOrder(g), OneAnswer(g),
         AnswersNow(g) \/ WaitsForCore(g) \/ StartsCommand(g) \/ QueuesCommand(g)
  PROVE  /\ AnswersDiffer(g)' /\ EventsAhead(g)'
         /\ (Answered(g) \cap (Loading(g) \cup Queued(g) \cup Executing(g)))' = {}
<1> DEFINE r == Request(g)
<1>1. Takes(g)
  BY DEF AnswersNow, WaitsForCore, StartsCommand, QueuesCommand
<1>2. r.id \notin Reached(g) /\ r \in Requests /\ r.id \in Ids
  BY <1>1, Taken DEF Ids
<1>3. r.id \notin Answered(g) /\ r.id \notin Loading(g) \cup Queued(g) \cup Executing(g)
  BY <1>2, AnsweredIndices DEF Reached
<1>4. CASE AnswersNow(g)
  <2>1. PICK a \in Messages : outbox'[g] = Append(outbox[g], a) /\ a.type # "LOG" /\ a.id = r.id
    BY <1>4 DEF AnswersNow
  <2>2. Loading(g)' = Loading(g) /\ Queued(g)' = Queued(g) /\ Executing(g)' = Executing(g)
    BY <1>4 DEF AnswersNow, Loading, Queued, Executing
  <2>3. AnswersDiffer(g)' /\ EventsAhead(g)' /\ Answered(g)' = Answered(g) \cup {a.id}
    BY <1>3, <2>1, <2>2, NewAnswer
  <2> QED BY <1>3, <2>1, <2>2, <2>3 DEF OneAnswer
<1>5. CASE WaitsForCore(g)
  <2>1. /\ loads'[g] = Append(loads[g], r.id)
        /\ queue'[g] = queue[g] /\ core'[g] = core[g] /\ outbox'[g] = outbox[g]
    BY <1>5 DEF WaitsForCore
  <2>2. Loading(g)' = Loading(g) \cup {r.id}
    BY <1>2, <2>1, Held, InSeqAppend DEF Loading
  <2>3. Queued(g)' = Queued(g) /\ Executing(g)' = Executing(g)
    BY <2>1 DEF Queued, Executing
  <2> QED BY <1>3, <2>1, <2>2, <2>3, SameOutbox DEF OneAnswer
<1>6. CASE StartsCommand(g)
  <2>1. /\ loads'[g] = loads[g] /\ queue'[g] = queue[g] /\ outbox'[g] = outbox[g]
        /\ core'[g].active = core[g].active \cup {r}
    BY <1>6 DEF StartsCommand, Started
  <2>2. Executing(g)' = Executing(g) \cup {r.id} /\ Loading(g)' = Loading(g) /\ Queued(g)' = Queued(g)
    BY <2>1 DEF Executing, Loading, Queued
  <2> QED BY <1>3, <2>1, <2>2, SameOutbox DEF OneAnswer
<1>7. CASE QueuesCommand(g)
  <2>1. /\ loads'[g] = loads[g] /\ queue'[g] = Append(queue[g], r) /\ outbox'[g] = outbox[g]
        /\ core'[g] = core[g]
    BY <1>7 DEF QueuesCommand
  <2>2. InSeq(queue'[g]) = InSeq(queue[g]) \cup {r}
    BY <1>2, <2>1, Held, InSeqAppend
  <2>3. Queued(g)' = Queued(g) \cup {r.id} /\ Loading(g)' = Loading(g) /\ Executing(g)' = Executing(g)
    BY <2>1, <2>2 DEF Executing, Loading, Queued
  <2> QED BY <1>3, <2>1, <2>3, SameOutbox DEF OneAnswer
<1> QED BY <1>4, <1>5, <1>6, <1>7

LEMMA SettlingKeepsAnswers ==
  ASSUME TypeOK, NEW g \in Workers, InOrder(g), OneAnswer(g), CoreSettles(g)
  PROVE  /\ AnswersDiffer(g)' /\ EventsAhead(g)'
         /\ (Answered(g) \cap (Loading(g) \cup Queued(g) \cup Executing(g)))' = {}
<1>1. /\ core'[g] = core[g] /\ queue'[g] = queue[g] /\ loads'[g] = << >>
      /\ core[g].active = {} /\ queue[g] = << >>
  BY DEF CoreSettles, InOrder
<1>2. PICK answers \in Seq(Messages) :
        /\ outbox'[g] = outbox[g] \o answers /\ DOMAIN answers = DOMAIN loads[g]
        /\ \A i \in DOMAIN answers : answers[i].id = loads[g][i] /\ answers[i].type # "LOG"
  BY DEF CoreSettles
<1> DEFINE s == outbox[g]
           t == outbox'[g]
           n == Len(s)
<1>3. n \in Nat /\ s \in Seq(Messages) /\ loads[g] \in Seq(Ids)
  BY Held
<1>4. /\ \A i \in DOMAIN t : \/ i \in DOMAIN s /\ t[i] = s[i]
                             \/ i - n \in DOMAIN answers /\ t[i] = answers[i - n] /\ i > n
      /\ \A i \in DOMAIN s : i \in DOMAIN t /\ t[i] = s[i]
  BY <1>2, <1>3, ConcatElements
<1>5. \A i \in DOMAIN answers : answers[i].id \in Loading(g)
  BY <1>2 DEF Loading, InSeq
<1>6. \A i \in DOMAIN s, j \in DOMAIN answers : s[i].type # "LOG" => s[i].id # answers[j].id
  BY <1>5, AnsweredIndices DEF OneAnswer
<1>7. \A i, j \in DOMAIN answers : i # j => answers[i].id # answers[j].id
  <2> SUFFICES ASSUME NEW i \in DOMAIN answers, NEW j \in DOMAIN answers, i # j
               PROVE  answers[i].id # answers[j].id
    OBVIOUS
  <2>1. /\ loads[g][i] \in Int /\ loads[g][j] \in Int /\ i \in Int /\ j \in Int
        /\ i \in DOMAIN loads[g] /\ j \in DOMAIN loads[g]
    BY <1>2, <1>3 DEF Ids
  <2>2. (i < j => loads[g][i] < loads[g][j]) /\ (j < i => loads[g][j] < loads[g][i])
    BY <2>1 DEF InOrder, RisingIds
  <2>3. loads[g][i] # loads[g][j]
    BY <2>1, <2>2
  <2> QED BY <1>2, <2>3
<1>8. AnswersDiffer(g)'
  <2> SUFFICES ASSUME NEW i \in DOMAIN t, NEW j \in DOMAIN t, i # j, t[i].type # "LOG",
                      t[j].type # "LOG"
               PROVE  t[i].id # t[j].id
    BY DEF AnswersDiffer
  <2>1. CASE i \in DOMAIN s /\ t[i] = s[i] /\ j \in DOMAIN s /\ t[j] = s[j]
    BY <2>1 DEF OneAnswer, AnswersDiffer
  <2>2. CASE /\ i - n \in DOMAIN answers /\ t[i] = answers[i - n] /\ i > n
             /\ j - n \in DOMAIN answers /\ t[j] = answers[j - n] /\ j > n
    <3>1. i - n # j - n
      <4>1. t \in Seq(Messages)
        BY <1>2, <1>3, ConcatElements
      <4>2. i \in Int /\ j \in Int
        BY <4>1
      <4> QED BY <1>3, <4>2
    <3> QED BY <1>7, <2>2, <3>1
  <2> QED BY <1>4, <1>6, <2>1, <2>2
<1>9. EventsAhead(g)'
  <2> SUFFICES ASSUME NEW i \in DOMAIN t, t[i].type = "LOG"
               PROVE  \E j \in DOMAIN t : j > i /\ t[j].type # "LOG" /\ t[j].id = t[i].id
    BY DEF EventsAhead
  <2>1. i \in DOMAIN s /\ t[i] = s[i]
    BY <1>2, <1>4
  <2>2. Executing(g) = {}
    BY <1>1 DEF Executing
  <2>3. PICK j \in DOMAIN s : j > i /\ s[j].type # "LOG" /\ s[j].id = s[i].id
    BY <2>1, <2>2 DEF OneAnswer, EventsAhead
  <2> QED BY <1>4, <2>1, <2>3
<1>10. Loading(g)' = {} /\ Queued(g)' = {} /\ Executing(g)' = {}
  BY <1>1, EmptyRises DEF Loading, Queued, Executing
<1> QED BY <1>8, <1>9, <1>10

LEMMA RunningKeepsAnswers ==
  ASSUME TypeOK, NEW g \in Workers, InOrder(g), OneAnswer(g), Tells(g) \/ Ends(g)
  PROVE  /\ AnswersDiffer(g)' /\ EventsAhead(g)'
         /\ (Answered(g) \cap (Loading(g) \cup Queued(g) \cup Executing(g)))' = {}
<1>1. CASE Tells(g)
  <2>1. PICK m \in core[g].active, a \in Messages :
          outbox'[g] = Append(outbox[g], a) /\ a.type = "LOG" /\ a.id = m.id
    BY <1>1 DEF Tells
  <2>2. Loading(g)' = Loading(g) /\ Queued(g)' = Queued(g) /\ Executing(g)' = Executing(g)
    BY <1>1 DEF Tells, Loading, Queued, Executing
  <2> DEFINE s == outbox[g]
             t == outbox'[g]
  <2>3. /\ \A i \in DOMAIN t : \/ i \in DOMAIN s /\ t[i] = s[i]
                               \/ i = Len(s) + 1 /\ t[i] = a
        /\ \A i \in DOMAIN s : i \in DOMAIN t /\ t[i] = s[i]
        /\ InSeq(t) = InSeq(s) \cup {a}
    BY <2>1, Held, AppendElements, InSeqAppend
  <2>4. AnswersDiffer(g)'
    BY <2>1, <2>3 DEF OneAnswer, AnswersDiffer
  <2>5. EventsAhead(g)'
    <3> SUFFICES ASSUME NEW i \in DOMAIN t, t[i].type = "LOG"
                 PROVE  \/ t[i].id \in Executing(g)'
                        \/ \E j \in DOMAIN t : j > i /\ t[j].type # "LOG" /\ t[j].id = t[i].id
      BY DEF EventsAhead
    <3>1. CASE i \in DOMAIN s /\ t[i] = s[i]
      BY <2>2, <2>3, <3>1 DEF OneAnswer, EventsAhead
    <3>2. CASE t[i] = a
      BY <2>1, <2>2, <3>2 DEF Executing
    <3> QED BY <2>3, <3>1, <3>2
  <2>6. Answered(g)' = Answered(g)
    BY <2>1, <2>3 DEF Answered
  <2> QED BY <2>2, <2>4, <2>5, <2>6 DEF OneAnswer
<1>2. CASE Ends(g)
  <2>1. PICK m \in core[g].active, a \in Messages :
          /\ outbox'[g] = Append(outbox[g], a) /\ a.type # "LOG" /\ a.id = m.id
          /\ \/ queue[g] = << >> /\ queue'[g] = queue[g] /\ core'[g] = Reset(core[g], m)
             \/ /\ queue[g] # << >> /\ queue'[g] = Tail(queue[g])
                /\ core'[g] = Started(Reset(core[g], m), Head(queue[g]))
    BY <1>2 DEF Ends
  <2>2. core[g].active = {m} /\ loads'[g] = << >>
    BY <1>2 DEF InOrder, Ends
  <2>3. m.id \in Executing(g) /\ \A id \in Executing(g) : id = m.id
    BY <2>2 DEF Executing
  <2>4. m.id \notin Answered(g)
    BY <2>3 DEF OneAnswer
  <2>5. AnswersDiffer(g)' /\ EventsAhead(g)' /\ Answered(g)' = Answered(g) \cup {m.id}
    BY <2>1, <2>3, <2>4, NewAnswer
  <2>6. Queued(g)' \cup Executing(g)' \subseteq Queued(g)
    <3>1. CASE queue[g] = << >> /\ queue'[g] = queue[g] /\ core'[g] = Reset(core[g], m)
      <4>1. core'[g].active = {}
        BY <2>2, <3>1 DEF Reset
      <4> QED BY <3>1, <4>1 DEF Queued, Executing
    <3>2. CASE /\ queue[g] # << >> /\ queue'[g] = Tail(queue[g])
               /\ core'[g] = Started(Reset(core[g], m), Head(queue[g]))
      <4>1. core'[g].active = {Head(queue[g])}
        BY <2>2, <3>2 DEF Started, Reset
      <4>2. Head(queue[g]) \in InSeq(queue[g]) /\ InSeq(queue'[g]) \subseteq InSeq(queue[g])
        BY <3>2, Held, InSeqTail
      <4> QED BY <4>1, <4>2 DEF Queued, Executing
    <3> QED BY <2>1, <3>1, <3>2
  <2>7. m.id \notin Queued(g)
    BY <2>2, Held DEF InOrder, Queued
  <2>8. Loading(g)' = {}
    BY <2>2, EmptyRises DEF Loading
  <2> QED BY <2>5, <2>6, <2>7, <2>8 DEF OneAnswer
<1> QED BY <1>1, <1>2

LEMMA WorkerStepKeepsAnswers ==
  ASSUME TypeOK, AnswersOwnCalls, NEW g \in Workers, InOrder(g), WorkerStep(g),
         UNCHANGED classVars, NEW h \in Workers, OneAnswer(h)
  PROVE  OneAnswer(h)'
<1>1. Others(g) /\ Effect(g) /\ UNCHANGED promise
  BY WorkerEffect DEF classVars, callVars
<1>2. \A id \in InFlight(h)' : ~Told(id)'
  BY <1>1, WorkerStepInFlight DEF OneAnswer, Told
<1>3. CASE Quiet(h)
  <2>1. Loading(h)' = Loading(h) /\ Queued(h)' = Queued(h) /\ Executing(h)' = Executing(h)
    BY <1>3 DEF Quiet, Loading, Queued, Executing
  <2> QED BY <1>2, <1>3, <2>1, SameOutbox DEF OneAnswer, Quiet
<1>4. CASE h # g
  BY <1>1, <1>3, <1>4 DEF Others, Quiet
<1>5. CASE h = g
  BY <1>1, <1>2, <1>3, <1>5, TakingKeepsAnswers, SettlingKeepsAnswers, RunningKeepsAnswers
     DEF Effect, OneAnswer
<1> QED BY <1>4, <1>5

LEMMA CallInFlight ==
  ASSUME TypeOK, UNCHANGED workerVars, NEW g \in Workers, NEW m \in Requests, NEW sig,
         Makes(g, m, sig), NEW h \in Workers
  PROVE  /\ InFlight(h) \subseteq InFlight(h)'
         /\ InFlight(h)' \subseteq InFlight(h) \cup {nextID}
         /\ h = g => nextID \in InFlight(h)'
         /\ h # g => InFlight(h)' \subseteq InFlight(h)
<1>1. UNCHANGED <<outbox, loads, queue, core>> /\ m.id = nextID
  BY DEF Makes, workerVars
<1>2. h = g => InSeq(inbox'[h]) = InSeq(inbox[h]) \cup {m}
  <2>1. inbox'[g] = Append(inbox[g], m) /\ inbox[g] \in Seq(Requests)
    BY Held DEF Makes
  <2>2. InSeq(Append(inbox[g], m)) = InSeq(inbox[g]) \cup {m}
    BY <2>1, InSeqAppend
  <2> QED BY <2>1, <2>2
<1>3. h # g => inbox'[h] = inbox[h]
  BY DEF Makes
<1>4. /\ h = g => Unreceived(h)' = Unreceived(h) \cup {nextID}
      /\ h # g => Unreceived(h)' = Unreceived(h)
  BY <1>1, <1>2, <1>3 DEF Unreceived
<1>5. /\ Loading(h)' = Loading(h) /\ Queued(h)' = Queued(h)
      /\ Executing(h)' = Executing(h) /\ Answered(h)' = Answered(h)
  BY <1>1 DEF Loading, Queued, Executing, Answered
<1> QED BY <1>4, <1>5 DEF InFlight

\* A reply that has been heard was the only one, and of a call that is nowhere else.
LEMMA FrontIsLast ==
  ASSUME IInv, UNCHANGED <<workerVars, inbox>>, NEW g \in Workers, InOrder(g), OneAnswer(g),
         outbox[g] # << >>, Front(g).type # "LOG", NEW h \in Workers, InOrder(h), OneAnswer(h),
         Shorter(h), h = g => outbox'[h] # outbox[h]
  PROVE  Front(g).id \notin InFlight(h)'
<1>1. TypeOK /\ outbox[g] \in Seq(Messages)
  BY Held DEF IInv
<1>2. Front(g) \in InSeq(outbox[g]) /\ Front(g).id \in InFlight(g) /\ sentTo[Front(g).id] = g
  BY <1>1, PoppedShorter, FrontInFlight DEF IInv, AnswersOwnCalls
<1>3. InFlight(h)' \subseteq InFlight(h)
  BY <1>1, ShorterSet, ShorterOutbox
<1>4. CASE h # g
  BY <1>2, <1>3, <1>4 DEF IInv, AnswersOwnCalls
<1>5. CASE h = g
  <2> DEFINE x == Front(g).id
  <2>1. x \in Answered(g) /\ x \in Ids
    BY <1>1, <1>2, Held DEF Answered
  <2>2. x \notin Loading(g) \cup Queued(g) \cup Executing(g)
    BY <2>1 DEF OneAnswer
  <2>3. x \notin Unreceived(g)
    BY <1>1, <2>1, AnsweredIndices, Held DEF InOrder, Unreceived
  <2>4. x \notin Answered(g)'
    <3>1. CASE outbox'[g] = << >>
      BY <3>1, EmptyRises DEF Answered
    <3>2. CASE outbox'[g] = Tail(outbox[g])
      <4>1. /\ Front(g) = outbox[g][1] /\ 1 \in DOMAIN outbox[g]
            /\ \A i \in DOMAIN outbox'[g] :
                 i + 1 \in DOMAIN outbox[g] /\ outbox'[g][i] = outbox[g][i + 1] /\ i + 1 # 1
        BY <1>1, <3>2, TailElements DEF Front
      <4>2. \A i \in DOMAIN outbox'[g] : outbox'[g][i].type # "LOG" => outbox'[g][i].id # x
        BY <4>1 DEF OneAnswer, AnswersDiffer
      <4> QED BY <4>2 DEF Answered, InSeq
    <3> QED BY <1>5, <3>1, <3>2 DEF Shorter
  <2>5. /\ Loading(g)' = Loading(g) /\ Queued(g)' = Queued(g)
        /\ Executing(g)' = Executing(g) /\ Unreceived(g)' = Unreceived(g)
    BY DEF workerVars, Loading, Queued, Executing, Unreceived
  <2> QED BY <1>5, <2>2, <2>3, <2>4, <2>5 DEF InFlight
<1> QED BY <1>4, <1>5

LEMMA ShorterKeepsAnswers ==
  ASSUME TypeOK, UNCHANGED <<workerVars, inbox>>, NEW h \in Workers, OneAnswer(h), Shorter(h),
         \A id \in InFlight(h)' : ~Told(id)'
  PROVE  OneAnswer(h)'
<1>1. /\ Loading(h)' = Loading(h) /\ Queued(h)' = Queued(h) /\ Executing(h)' = Executing(h)
      /\ Answered(h)' \subseteq Answered(h)
  BY ShorterSet DEF workerVars, Loading, Queued, Executing, Answered
<1>2. CASE outbox'[h] = outbox[h]
  BY <1>1, <1>2, SameOutbox DEF OneAnswer
<1>3. CASE outbox'[h] = << >>
  BY <1>1, <1>3 DEF OneAnswer, AnswersDiffer, EventsAhead
<1>4. CASE outbox[h] # << >> /\ outbox'[h] = Tail(outbox[h])
  <2> DEFINE s == outbox[h]
             t == outbox'[h]
  <2>1. s \in Seq(Messages) /\ t \in Seq(Messages) /\ Len(s) \in Nat /\ Len(t) = Len(s) - 1
        /\ DOMAIN s = 1 .. Len(s) /\ DOMAIN t = 1 .. Len(t)
    BY <1>4, Held
  <2>2. /\ \A i \in DOMAIN t : i + 1 \in DOMAIN s /\ t[i] = s[i + 1] /\ i \in Nat
        /\ \A i \in DOMAIN s : i > 1 => i - 1 \in DOMAIN t /\ t[i - 1] = s[i] /\ i \in Nat
    BY <1>4, <2>1
  <2>3. AnswersDiffer(h)'
    <3> SUFFICES ASSUME NEW i \in DOMAIN t, NEW j \in DOMAIN t, i # j, t[i].type # "LOG",
                        t[j].type # "LOG"
                 PROVE  t[i].id # t[j].id
      BY DEF AnswersDiffer
    <3>1. i + 1 # j + 1
      BY <2>2
    <3> QED BY <2>2, <3>1 DEF OneAnswer, AnswersDiffer
  <2>4. EventsAhead(h)'
    <3> SUFFICES ASSUME NEW i \in DOMAIN t, t[i].type = "LOG"
                 PROVE  \/ t[i].id \in Executing(h)'
                        \/ \E j \in DOMAIN t : j > i /\ t[j].type # "LOG" /\ t[j].id = t[i].id
      BY DEF EventsAhead
    <3>1. CASE s[i + 1].id \in Executing(h)
      BY <1>1, <2>2, <3>1
    <3>2. ASSUME NEW j \in DOMAIN s, j > i + 1, s[j].type # "LOG", s[j].id = s[i + 1].id
          PROVE  \E k \in DOMAIN t : k > i /\ t[k].type # "LOG" /\ t[k].id = t[i].id
      <4>1. i \in Nat /\ j \in Nat
        BY <2>1, <2>2
      <4>2. j - 1 \in DOMAIN t /\ t[j - 1] = s[j] /\ j - 1 > i
        BY <2>2, <3>2, <4>1
      <4> QED BY <2>2, <3>2, <4>2
    <3> QED BY <2>2, <3>1, <3>2 DEF OneAnswer, EventsAhead
  <2> QED BY <1>1, <2>3, <2>4 DEF OneAnswer
<1> QED BY <1>2, <1>3, <1>4 DEF Shorter

LEMMA ClassKeepsAnswers ==
  ASSUME IInv, ClassEffect, UNCHANGED workerVars,
         \A g \in Workers : InOrder(g) /\ OneAnswer(g), NEW h \in Workers
  PROVE  OneAnswer(h)'
<1>1. TypeOK
  BY DEF IInv
<1>2. ASSUME NEW g \in Workers, NEW m \in Requests, NEW sig \in Signals \cup {NoSignal},
             Makes(g, m, sig)
      PROVE  OneAnswer(h)'
  <2>1. UNCHANGED <<outbox, loads, queue, core>>
    BY <1>2 DEF Makes, workerVars
  <2>2. /\ \A id \in Ids : id # nextID => promise'[id] = promise[id]
        /\ promise'[nextID] \notin Values \cup Errors
    BY <1>1, <1>2 DEF Makes, TypeOK, ClassTypeOK, Values, Errors
  <2>3. \A id \in InFlight(h)' : ~Told(id)'
    BY <1>1, <1>2, <2>2, CallInFlight, InFlightType DEF OneAnswer, Told
  <2>4. /\ Loading(h)' = Loading(h) /\ Queued(h)' = Queued(h) /\ Executing(h)' = Executing(h)
    BY <2>1 DEF Loading, Queued, Executing
  <2> QED BY <2>1, <2>3, <2>4, SameOutbox DEF OneAnswer
<1>3. CASE \A g \in Workers, m \in Requests, sig \in Signals \cup {NoSignal} : ~Makes(g, m, sig)
  <2>1. /\ Frame /\ Shorter(h)
        /\ \A id \in Ids : Told(id)' => Told(id) \/ \E g \in Workers : Hears(g) /\ id = Front(g).id
    BY <1>3, ShorterStep
  <2>2. UNCHANGED <<workerVars, inbox>>
    BY <2>1 DEF Frame
  <2>3. InFlight(h)' \subseteq InFlight(h) /\ InFlight(h) \subseteq Ids
    BY <1>1, <2>1, <2>2, ShorterSet, ShorterOutbox, InFlightType
  <2>4. ASSUME NEW g \in Workers, Hears(g) PROVE Front(g).id \notin InFlight(h)'
    <3>1. outbox[g] # << >> /\ Front(g).type # "LOG" /\ outbox[g] \in Seq(Messages)
      BY <1>1, <2>4, Held DEF Hears
    <3>2. Tail(outbox[g]) # outbox[g]
      <4>1. Len(Tail(outbox[g])) = Len(outbox[g]) - 1 /\ Len(outbox[g]) \in Nat
        BY <3>1
      <4>2. Len(Tail(outbox[g])) # Len(outbox[g])
        BY ONLY <4>1
      <4> QED BY ONLY <4>2
    <3>3. outbox'[g] # outbox[g]
      BY <1>1, <2>4, <3>1, <3>2 DEF Hears, Popped, TypeOK, LinkTypeOK
    <3> QED BY <2>1, <2>2, <3>1, <3>3, FrontIsLast
  <2>5. \A id \in InFlight(h)' : ~Told(id)'
    BY <2>1, <2>3, <2>4 DEF OneAnswer
  <2> QED BY <1>1, <2>1, <2>2, <2>5, ShorterKeepsAnswers
<1> QED BY <1>2, <1>3 
-----------------------------------------------------------------------------
(* No call is lost.                                                         *)

\* A worker's step loses no request.
LEMMA WorkerStepKeepsInFlight ==
  ASSUME TypeOK, NEW g \in Workers, InOrder(g), WorkerStep(g), NEW h \in Workers
  PROVE  InFlight(h) \subseteq InFlight(h)'
<1>1. Others(g) /\ Effect(g)
  BY WorkerEffect
<1>2. CASE Quiet(h)
  BY <1>2 DEF Quiet, InFlight, Unreceived, Loading, Queued, Executing, Answered
<1>3. CASE h # g
  BY <1>1, <1>2, <1>3 DEF Others, Quiet
<1>4. ASSUME Takes(g)
      PROVE  /\ Request(g) \in Requests /\ Request(g).id \in Ids
             /\ \A id \in Unreceived(g) : id = Request(g).id \/ id \in Unreceived(g)'
  <2>1. inbox[g] \in Seq(Requests) /\ inbox[g] # << >> /\ inbox'[g] = Tail(inbox[g])
    BY <1>4, Held DEF Takes
  <2>2. Request(g) \in Requests /\ \A n \in InSeq(inbox[g]) : n = Request(g) \/ n \in InSeq(inbox'[g])
    BY <2>1, InSeqTail, TailElements DEF Request
  <2> QED BY <2>2 DEF Unreceived, Requests
<1>5. ASSUME NEW a \in Messages, outbox'[g] = Append(outbox[g], a)
      PROVE  /\ Answered(g) \subseteq Answered(g)'
             /\ a.type # "LOG" => a.id \in Answered(g)'
  <2>1. InSeq(outbox'[g]) = InSeq(outbox[g]) \cup {a}
    BY <1>5, Held, InSeqAppend
  <2> QED BY <2>1 DEF Answered
<1>6. ASSUME AnswersNow(g) PROVE InFlight(g) \subseteq InFlight(g)'
  <2>1. PICK a \in Messages : outbox'[g] = Append(outbox[g], a) /\ a.type # "LOG" /\ a.id = Request(g).id
    BY <1>6 DEF AnswersNow
  <2>2. Loading(g)' = Loading(g) /\ Queued(g)' = Queued(g) /\ Executing(g)' = Executing(g)
    BY <1>6 DEF AnswersNow, Loading, Queued, Executing
  <2>3. Takes(g)
    BY <1>6 DEF AnswersNow
  <2>4. Answered(g) \subseteq Answered(g)' /\ Request(g).id \in Answered(g)'
    BY <1>5, <2>1
  <2> QED BY <1>4, <2>2, <2>3, <2>4 DEF InFlight
<1>7. ASSUME WaitsForCore(g) PROVE InFlight(g) \subseteq InFlight(g)'
  <2>1. /\ Takes(g) /\ loads'[g] = Append(loads[g], Request(g).id)
        /\ queue'[g] = queue[g] /\ core'[g] = core[g] /\ outbox'[g] = outbox[g]
    BY <1>7 DEF WaitsForCore
  <2>2. InSeq(loads'[g]) = InSeq(loads[g]) \cup {Request(g).id}
    BY <1>4, <2>1, Held, InSeqAppend
  <2> QED BY <1>4, <2>1, <2>2 DEF InFlight, Loading, Queued, Executing, Answered
<1>8. ASSUME CoreSettles(g) PROVE InFlight(g) \subseteq InFlight(g)'
  <2>1. /\ inbox'[g] = inbox[g] /\ queue'[g] = queue[g] /\ core'[g] = core[g]
    BY <1>8 DEF CoreSettles
  <2>2. PICK answers \in Seq(Messages) :
          /\ outbox'[g] = outbox[g] \o answers /\ DOMAIN answers = DOMAIN loads[g]
          /\ \A i \in DOMAIN answers : answers[i].id = loads[g][i] /\ answers[i].type # "LOG"
    BY <1>8 DEF CoreSettles
  <2>3. InSeq(outbox'[g]) = InSeq(outbox[g]) \cup InSeq(answers)
    BY <2>2, Held, InSeqConcat
  <2>4. Answered(g) \subseteq Answered(g)'
    BY <2>3 DEF Answered
  <2>5. ASSUME NEW i \in DOMAIN loads[g] PROVE loads[g][i] \in Answered(g)'
    <3>1. answers[i] \in InSeq(answers) /\ answers[i].type # "LOG" /\ answers[i].id = loads[g][i]
      BY <2>2 DEF InSeq
    <3>2. answers[i] \in {n \in InSeq(outbox'[g]) : n.type # "LOG"}
      BY <2>3, <3>1
    <3> QED BY <3>1, <3>2 DEF Answered
  <2>6. Loading(g) \subseteq Answered(g)'
    BY <2>5 DEF Loading, InSeq
  <2> QED BY <2>1, <2>4, <2>6 DEF InFlight, Unreceived, Queued, Executing
<1>9. ASSUME StartsCommand(g) PROVE InFlight(g) \subseteq InFlight(g)'
  <2>1. /\ Takes(g) /\ loads'[g] = loads[g] /\ queue'[g] = queue[g] /\ outbox'[g] = outbox[g]
        /\ core'[g].active = core[g].active \cup {Request(g)}
    BY <1>9 DEF StartsCommand, Started
  <2> QED BY <1>4, <2>1 DEF InFlight, Loading, Queued, Executing, Answered
<1>10. ASSUME QueuesCommand(g) PROVE InFlight(g) \subseteq InFlight(g)'
  <2>1. /\ Takes(g) /\ loads'[g] = loads[g] /\ core'[g] = core[g] /\ outbox'[g] = outbox[g]
        /\ queue'[g] = Append(queue[g], Request(g))
    BY <1>10 DEF QueuesCommand
  <2>2. InSeq(queue'[g]) = InSeq(queue[g]) \cup {Request(g)}
    BY <1>4, <2>1, Held, InSeqAppend
  <2> QED BY <1>4, <2>1, <2>2 DEF InFlight, Loading, Queued, Executing, Answered
<1>11. ASSUME Tells(g) PROVE InFlight(g) \subseteq InFlight(g)'
  <2>1. /\ inbox'[g] = inbox[g] /\ loads'[g] = loads[g] /\ queue'[g] = queue[g]
        /\ core'[g].active = core[g].active /\ \E a \in Messages : outbox'[g] = Append(outbox[g], a)
    BY <1>11 DEF Tells
  <2> QED BY <1>5, <2>1 DEF InFlight, Unreceived, Loading, Queued, Executing
<1>12. ASSUME Ends(g) PROVE InFlight(g) \subseteq InFlight(g)'
  <2>1. inbox'[g] = inbox[g] /\ loads'[g] = loads[g]
    BY <1>12 DEF Ends
  <2>2. PICK m \in core[g].active, a \in Messages :
          /\ outbox'[g] = Append(outbox[g], a) /\ a.type # "LOG" /\ a.id = m.id
          /\ \/ queue[g] = << >> /\ queue'[g] = queue[g] /\ core'[g] = Reset(core[g], m)
             \/ /\ queue[g] # << >> /\ queue'[g] = Tail(queue[g])
                /\ core'[g] = Started(Reset(core[g], m), Head(queue[g]))
    BY <1>12 DEF Ends
  <2>3. Answered(g) \subseteq Answered(g)' /\ m.id \in Answered(g)'
    BY <1>5, <2>2
  <2>4. \A id \in Executing(g) : id \in Executing(g)' \/ id = m.id
    BY <2>2 DEF Executing, Reset, Started
  <2>5. Queued(g) \subseteq Queued(g)' \cup Executing(g)'
    <3>1. CASE queue'[g] = queue[g]
      BY <3>1 DEF Queued
    <3>2. CASE /\ queue[g] # << >> /\ queue'[g] = Tail(queue[g])
               /\ core'[g] = Started(Reset(core[g], m), Head(queue[g]))
      <4>1. \A n \in InSeq(queue[g]) : n = Head(queue[g]) \/ n \in InSeq(queue'[g])
        BY <3>2, Held, TailElements
      <4>2. Head(queue[g]) \in core'[g].active
        BY <3>2 DEF Started
      <4> QED BY <4>1, <4>2 DEF Queued, Executing
    <3> QED BY <2>2, <3>1, <3>2
  <2> QED BY <2>1, <2>3, <2>4, <2>5 DEF InFlight, Unreceived, Loading
<1>13. CASE h = g
  BY <1>1, <1>2, <1>6, <1>7, <1>8, <1>9, <1>10, <1>11, <1>12, <1>13 DEF Effect
<1> QED BY <1>3, <1>13

\* A front that is delivered is the only thing to leave.
LEMMA PoppedInFlight ==
  ASSUME TypeOK, UNCHANGED <<workerVars, inbox>>, NEW g \in Workers, outbox[g] # << >>,
         outbox' = Popped(g), NEW h \in Workers, NEW id \in InFlight(h)
  PROVE  \/ id \in InFlight(h)'
         \/ Front(g).type # "LOG" /\ id = Front(g).id
<1>1. outbox'[h] = IF h = g THEN Tail(outbox[g]) ELSE outbox[h]
  BY DEF Popped, TypeOK, LinkTypeOK
<1>2. \A r \in InSeq(outbox[h]) : r \in InSeq(outbox'[h]) \/ r = Front(g)
  BY <1>1, Held, TailElements DEF Front
<1>3. id \in Answered(h) => id \in Answered(h)' \/ (Front(g).type # "LOG" /\ id = Front(g).id)
  BY <1>2 DEF Answered
<1>4. /\ Loading(h)' = Loading(h) /\ Queued(h)' = Queued(h)
      /\ Executing(h)' = Executing(h) /\ Unreceived(h)' = Unreceived(h)
  BY DEF workerVars, Loading, Queued, Executing, Unreceived
<1> QED BY <1>3, <1>4 DEF InFlight

LEMMA SameInFlight ==
  ASSUME UNCHANGED <<workerVars, inbox, outbox>>, NEW h \in Workers
  PROVE  InFlight(h)' = InFlight(h)
  BY DEF workerVars, InFlight, Unreceived, Loading, Queued, Executing, Answered

LEMMA WorkerStepLosesNothing ==
  ASSUME IInv, NEW g \in Workers, InOrder(g), WorkerStep(g), UNCHANGED classVars, NothingLost
  PROVE  NothingLost'
<1>1. TypeOK
  BY DEF IInv
<1> SUFFICES ASSUME NEW h \in Workers, worker = h, NEW id \in rejects
             PROVE  id \in InFlight(h)' \/ failed'[h]
  <2>1. rejects # {} => worker \in Workers
    BY <1>1 DEF IInv, Bookkeeping, TypeOK, ClassTypeOK
  <2>2. worker' = worker /\ rejects' = rejects /\ sentTo' = sentTo
    BY DEF classVars, callVars
  <2> QED BY <2>1, <2>2 DEF NothingLost
<1>2. InFlight(h) \subseteq InFlight(h)'
  BY <1>1, WorkerStepKeepsInFlight
<1>3. failed[h] => failed'[h]
  <2>1. \/ failed' = failed \/ failed' = [failed EXCEPT ![g] = TRUE]
    BY DEF WorkerStep, Boot, Die, Exit, Receive, StartLoad, JoinLoad, LoadAgain, Refuse,
           ServeFileOp, ReceiveCommand, LoadSettles, LoadSucceeds, LoadFails, RunCommand, Emit,
           Complete, Stop, Throw, Finish
  <2> QED BY <1>1, <2>1 DEF TypeOK, LinkTypeOK
<1> QED BY <1>2, <1>3 DEF NothingLost

LEMMA ClassLosesNothing ==
  ASSUME IInv, ClassEffect, UNCHANGED workerVars, NothingLost
  PROVE  NothingLost'
<1>1. TypeOK /\ worker \in Workers \cup {NoWorker} /\ (worker = NoWorker => rejects = {})
  BY DEF IInv, Bookkeeping, TypeOK, ClassTypeOK
<1>2. ASSUME NEW g \in Workers, NEW m \in Requests, NEW sig \in Signals \cup {NoSignal},
             Makes(g, m, sig)
      PROVE  NothingLost'
  <2>1. InFlight(g) \subseteq InFlight(g)' /\ nextID \in InFlight(g)'
    BY <1>1, <1>2, CallInFlight
  <2>2. /\ worker' = g /\ rejects' = rejects \cup {nextID} /\ failed' = failed
        /\ worker = g \/ rejects = {}
    BY <1>1, <1>2 DEF Makes
  <2>3. /\ \A id \in rejects : sentTo'[id] = g
        /\ sentTo'[nextID] = g
    BY <1>1, <1>2, <2>2 DEF Makes, TypeOK, ClassTypeOK, NothingLost
  <2> QED BY <2>1, <2>2, <2>3 DEF NothingLost
<1>3. ASSUME NEW s \in Signals, Fires(s) PROVE NothingLost'
  BY <1>1, <1>3, SameInFlight DEF Fires, Frame, NothingLost
<1>4. ASSUME NEW g \in Workers, Hears(g) PROVE NothingLost'
  <2>1. CASE rejects' = {}
    BY <2>1 DEF NothingLost
  <2>2. CASE /\ UNCHANGED <<worker, failed>> /\ outbox' = Popped(g)
             /\ rejects' = rejects \ {Front(g).id}
    BY <1>1, <1>4, <2>2, PoppedInFlight DEF Hears, Frame, NothingLost
  <2> QED BY <1>4, <2>1, <2>2 DEF Hears
<1>5. ASSUME NEW g \in Workers, Passes(g) PROVE NothingLost'
  BY <1>1, <1>5, PoppedInFlight DEF Passes, Frame, NothingLost
<1>6. CASE Closes
  BY <1>6 DEF Closes, NothingLost
<1>7. CASE Ignores
  <2>1. worker \in Workers => InFlight(worker)' = InFlight(worker)
    BY <1>7, SameInFlight DEF Ignores, Frame
  <2>2. worker \in Workers => (failed[worker] => failed'[worker])
    BY <1>7 DEF Ignores
  <2> QED BY <1>1, <1>7, <2>1, <2>2 DEF Ignores, Frame, NothingLost
<1> QED BY <1>2, <1>3, <1>4, <1>5, <1>6, <1>7 DEF ClassEffect
-----------------------------------------------------------------------------
(* A command is stopped for its own reasons.                                *)

LEMMA WorkerStepKeepsShared ==
  ASSUME TypeOK, NEW g \in Workers, WorkerStep(g)
  PROVE  flags' = flags
  BY DEF WorkerStep, Boot, Die, Exit, Receive, StartLoad, JoinLoad, LoadAgain, Refuse,
         ServeFileOp, ReceiveCommand, LoadSettles, LoadSucceeds, LoadFails, RunCommand, Emit,
         Complete, Stop, Throw, Finish

\* What may stop the command of g's core is the command's own.
LEMMA StopIsOwn ==
  ASSUME TypeOK, NEW g \in Workers, InOrder(g), StopsAgree(g), FlagsAgree,
         NEW m \in core[g].active, StopRequested(g)
  PROVE  sent[m.id].timed \/ (m.id \in flags /\ signalOf[m.id] \in aborted)
<1>1. core[g].active = {m} /\ m = sent[m.id]
  BY DEF InOrder, StopsAgree
<1>2. NoCall \notin flags
  BY DEF TypeOK, LinkTypeOK, NoCall, Ids
<1>3. CASE core[g].timeoutMs
  BY <1>1, <1>3 DEF StopsAgree
<1>4. CASE core[g].abortFlag \in flags
  BY <1>1, <1>2, <1>4 DEF StopsAgree, FlagsAgree, Executing
<1> QED BY <1>3, <1>4 DEF StopRequested

LEMMA WorkerStepKeepsStops ==
  ASSUME TypeOK, AnswersOwnCalls, NEW g \in Workers, InOrder(g), WorkerStep(g), FlagsAgree,
         UNCHANGED classVars, NEW h \in Workers, InOrder(h), StopsAgree(h)
  PROVE  StopsAgree(h)'
<1>1. Others(g) /\ Effect(g)
  BY WorkerEffect
<1>2. UNCHANGED <<flags, sent, signalOf, aborted>>
  BY WorkerStepKeepsShared DEF classVars, callVars
<1>3. CASE Quiet(h)
  BY <1>2, <1>3 DEF Quiet, StopsAgree, Executing
<1>4. CASE h # g
  BY <1>1, <1>3, <1>4 DEF Others, Quiet
<1> DEFINE Right(m)  == m = sent[m.id]
           Fair(r)   == r.data = "stopped" =>
                          sent[r.id].timed \/ (r.id \in flags /\ signalOf[r.id] \in aborted)
           Own(c)    == /\ c.timeoutMs => \E m \in c.active : m.timed
                        /\ c.abortFlag = NoCall \/ c.abortFlag \in {m.id : m \in c.active}
<1>5. StopsAgree(g) <=> /\ \A m \in InSeq(inbox[g]) \cup InSeq(queue[g]) \cup core[g].active : Right(m)
                        /\ Own(core[g]) /\ \A r \in InSeq(outbox[g]) : Fair(r)
  BY DEF StopsAgree, Executing
<1>6. StopsAgree(g)' <=>
        /\ \A m \in InSeq(inbox'[g]) \cup InSeq(queue'[g]) \cup core'[g].active : Right(m)
        /\ Own(core'[g]) /\ \A r \in InSeq(outbox'[g]) : Fair(r)
  BY <1>2 DEF StopsAgree, Executing
<1> HIDE DEF Right, Fair, Own
<1>7. ASSUME StopsAgree(g), Takes(g)
      PROVE  Right(Request(g)) /\ \A m \in InSeq(inbox'[g]) : Right(m)
  BY <1>5, <1>7, Taken
<1>8. ASSUME StopsAgree(g), NEW a \in Messages, outbox'[g] = Append(outbox[g], a), Fair(a)
      PROVE  \A r \in InSeq(outbox'[g]) : Fair(r)
  <2>1. InSeq(outbox'[g]) = InSeq(outbox[g]) \cup {a}
    BY <1>8, Held, InSeqAppend
  <2> QED BY <1>5, <1>8, <2>1
<1>9. ASSUME NEW c, NEW m, c.active = {}, Own(c)
      PROVE  Own(Started(c, m)) /\ Started(c, m).active = {m}
  BY <1>9 DEF Own, Started
<1>10. ASSUME StopsAgree(g), AnswersNow(g) PROVE StopsAgree(g)'
  <2>1. PICK a \in Messages : outbox'[g] = Append(outbox[g], a) /\ a.data # "stopped"
    BY <1>10 DEF AnswersNow
  <2>2. Fair(a)
    BY <2>1 DEF Fair
  <2>3. Takes(g) /\ queue'[g] = queue[g] /\ core'[g] = core[g]
    BY <1>10 DEF AnswersNow
  <2> QED BY <1>5, <1>6, <1>7, <1>8, <1>10, <2>1, <2>2, <2>3
<1>11. ASSUME StopsAgree(g), WaitsForCore(g) PROVE StopsAgree(g)'
  BY <1>5, <1>6, <1>7, <1>11 DEF WaitsForCore
<1>12. ASSUME StopsAgree(g), CoreSettles(g) PROVE StopsAgree(g)'
  <2>1. PICK answers \in Seq(Messages) :
          /\ outbox'[g] = outbox[g] \o answers
          /\ \A i \in DOMAIN answers : answers[i].data # "stopped"
    BY <1>12 DEF CoreSettles
  <2>2. InSeq(outbox'[g]) = InSeq(outbox[g]) \cup InSeq(answers)
    BY <2>1, Held, InSeqConcat
  <2>3. \A r \in InSeq(answers) : Fair(r)
    BY <2>1 DEF InSeq, Fair
  <2>4. inbox'[g] = inbox[g] /\ queue'[g] = queue[g] /\ core'[g] = core[g]
    BY <1>12 DEF CoreSettles
  <2> QED BY <1>5, <1>6, <1>12, <2>2, <2>3, <2>4
<1>13. ASSUME StopsAgree(g), StartsCommand(g) PROVE StopsAgree(g)'
  <2>1. Own(core'[g]) /\ core'[g].active = {Request(g)}
    BY <1>5, <1>9, <1>13 DEF StartsCommand
  <2>2. Takes(g) /\ queue'[g] = queue[g] /\ outbox'[g] = outbox[g]
    BY <1>13 DEF StartsCommand
  <2> QED BY <1>5, <1>6, <1>7, <1>13, <2>1, <2>2
<1>14. ASSUME StopsAgree(g), QueuesCommand(g) PROVE StopsAgree(g)'
  <2>1. Takes(g) /\ core'[g] = core[g] /\ outbox'[g] = outbox[g]
        /\ queue'[g] = Append(queue[g], Request(g))
    BY <1>14 DEF QueuesCommand
  <2>2. InSeq(queue'[g]) = InSeq(queue[g]) \cup {Request(g)}
    BY <2>1, Held, Taken, InSeqAppend
  <2> QED BY <1>5, <1>6, <1>7, <1>14, <2>1, <2>2
<1>15. ASSUME StopsAgree(g), Tells(g) PROVE StopsAgree(g)'
  <2>1. PICK a \in Messages : outbox'[g] = Append(outbox[g], a) /\ a.data = "done"
    BY <1>15 DEF Tells
  <2>2. Fair(a)
    BY <2>1 DEF Fair
  <2>3. /\ inbox'[g] = inbox[g] /\ queue'[g] = queue[g] /\ core'[g].active = core[g].active
        /\ Own(core'[g])
    BY <1>5, <1>15 DEF Tells, Own
  <2> QED BY <1>5, <1>6, <1>8, <1>15, <2>1, <2>2, <2>3
<1>16. ASSUME StopsAgree(g), Ends(g) PROVE StopsAgree(g)'
  <2>1. PICK m \in core[g].active, a \in Messages :
          /\ outbox'[g] = Append(outbox[g], a) /\ a.id = m.id
          /\ a.data = "stopped" => StopRequested(g)
          /\ \/ /\ queue[g] = << >> /\ queue'[g] = queue[g]
                /\ core'[g] = Reset(core[g], m)
             \/ /\ queue[g] # << >> /\ queue'[g] = Tail(queue[g])
                /\ core'[g] = Started(Reset(core[g], m), Head(queue[g]))
    BY <1>16 DEF Ends
  <2>2. Fair(a)
    BY <1>16, <2>1, StopIsOwn DEF Fair
  <2>3. core[g].active = {m} /\ inbox'[g] = inbox[g]
    BY <1>16, <2>1 DEF InOrder, Ends
  <2>4. Own(Reset(core[g], m)) /\ Reset(core[g], m).active = {}
    BY <2>3 DEF Own, Reset
  <2>5. /\ Own(core'[g]) /\ InSeq(queue'[g]) \subseteq InSeq(queue[g])
        /\ core'[g].active \subseteq InSeq(queue[g])
    <3>1. CASE core'[g] = Reset(core[g], m) /\ queue'[g] = queue[g]
      BY <2>4, <3>1
    <3>2. CASE /\ queue[g] # << >> /\ queue'[g] = Tail(queue[g])
               /\ core'[g] = Started(Reset(core[g], m), Head(queue[g]))
      <4>1. Head(queue[g]) \in InSeq(queue[g]) /\ InSeq(queue'[g]) \subseteq InSeq(queue[g])
        BY <3>2, Held, InSeqTail
      <4> QED BY <1>9, <2>4, <3>2, <4>1
    <3> QED BY <2>1, <3>1, <3>2
  <2> QED BY <1>5, <1>6, <1>8, <1>16, <2>1, <2>2, <2>3, <2>5
<1>17. CASE h = g
  BY <1>1, <1>3, <1>10, <1>11, <1>12, <1>13, <1>14, <1>15, <1>16, <1>17 DEF Effect
<1> QED BY <1>4, <1>17

LEMMA ClassKeepsFlags ==
  ASSUME IInv, ClassEffect, FlagsAgree PROVE FlagsAgree'
<1>1. flags \subseteq Ids /\ nextID \in Int /\ Ids \subseteq Int
  BY DEF IInv, TypeOK, LinkTypeOK, ClassTypeOK, Ids
<1>2. ASSUME NEW g \in Workers, NEW m \in Requests, NEW sig, Makes(g, m, sig) PROVE FlagsAgree'
  <2>1. /\ flags' = flags /\ aborted' = aborted /\ nextID' = nextID + 1
        /\ signalOf' = [signalOf EXCEPT ![nextID] = sig]
    BY <1>2 DEF Makes
  <2>2. \A id \in flags : id # nextID /\ id < nextID'
    BY <1>1, <2>1 DEF FlagsAgree
  <2>3. \A id \in flags : signalOf'[id] = signalOf[id]
    BY <1>1, <2>1, <2>2 DEF IInv, TypeOK, ClassTypeOK
  <2> QED BY <2>1, <2>2, <2>3 DEF FlagsAgree
<1>3. ASSUME NEW s \in Signals, Fires(s) PROVE FlagsAgree'
  <2>1. \A id \in Ids : Pending(id) => id < nextID
    <3>1. \A id \in Ids : Pending(id) => ~(id >= nextID)
      BY DEF IInv, FreshIDs, Pending
    <3> QED BY <1>1, <3>1
  <2> QED BY <1>3, <2>1 DEF Fires, Frame, FlagsAgree
<1>4. CASE (\E g \in Workers : Hears(g) \/ Passes(g)) \/ Closes \/ Ignores
  BY <1>4 DEF Hears, Passes, Closes, Ignores, Frame, FlagsAgree
<1> QED BY <1>2, <1>3, <1>4 DEF ClassEffect

LEMMA ClassKeepsStops ==
  ASSUME IInv, ClassEffect, UNCHANGED workerVars, FlagsAgree, NEW h \in Workers, InOrder(h),
         StopsAgree(h)
  PROVE  StopsAgree(h)'
<1>1. TypeOK /\ UNCHANGED <<queue, core>>
  BY DEF IInv, workerVars
<1>2. flags \subseteq flags' /\ aborted \subseteq aborted'
  BY DEF ClassEffect, Makes, Fires, Hears, Passes, Closes, Ignores, Frame
<1>3. ASSUME NEW g \in Workers, NEW m \in Requests, NEW sig \in Signals \cup {NoSignal},
             Makes(g, m, sig)
      PROVE  StopsAgree(h)'
  <2>1. /\ outbox' = outbox /\ sent' = [sent EXCEPT ![nextID] = m] /\ m.id = nextID
        /\ signalOf' = [signalOf EXCEPT ![nextID] = sig] /\ flags' = flags /\ aborted' = aborted
    BY <1>3 DEF Makes
  <2>2. \A id \in Ids : sentTo[id] = h =>
          id # nextID /\ sent'[id] = sent[id] /\ signalOf'[id] = signalOf[id]
    BY <1>1, <2>1, Earlier DEF TypeOK, ClassTypeOK
  <2>3. \A n \in InSeq(inbox[h]) \cup InSeq(queue[h]) \cup core[h].active :
          n.id \in Ids /\ sentTo[n.id] = h
    BY <1>1, Held DEF IInv, AnswersOwnCalls, InFlight, Unreceived, Queued, Executing
  <2>4. \A r \in InSeq(outbox[h]) : r.id \in Ids /\ sentTo[r.id] = h
    BY <1>1, Held DEF InOrder
  <2>5. \A n \in InSeq(inbox'[h]) : n \in InSeq(inbox[h]) \/ n = m
    <3>1. CASE h # g
      BY <1>3, <3>1 DEF Makes
    <3>2. CASE h = g
      <4>1. inbox'[h] = Append(inbox[h], m) /\ inbox[h] \in Seq(Requests)
        BY <1>1, <1>3, <3>2, Held DEF Makes
      <4>2. InSeq(Append(inbox[h], m)) = InSeq(inbox[h]) \cup {m}
        BY <4>1, InSeqAppend
      <4> QED BY <4>1, <4>2
    <3> QED BY <3>1, <3>2
  <2>6. m = sent'[m.id]
    BY <1>1, <1>3, <2>1 DEF Makes, TypeOK, ClassTypeOK
  <2>7. \A n \in InSeq(inbox'[h]) \cup InSeq(queue'[h]) \cup core'[h].active : n = sent'[n.id]
    BY <1>1, <2>2, <2>3, <2>5, <2>6 DEF StopsAgree
  <2>8. \A r \in InSeq(outbox'[h]) : r.data = "stopped" =>
          \/ sent'[r.id].timed
          \/ r.id \in flags' /\ signalOf'[r.id] \in aborted'
    BY <2>1, <2>2, <2>4 DEF StopsAgree
  <2> QED BY <1>1, <2>7, <2>8 DEF StopsAgree, Executing
<1>4. CASE \A g \in Workers, m \in Requests, sig \in Signals \cup {NoSignal} : ~Makes(g, m, sig)
  <2>1. Frame /\ Shorter(h)
    BY <1>4, ShorterStep
  <2>2. InSeq(outbox'[h]) \subseteq InSeq(outbox[h])
    BY <1>1, <2>1, ShorterSet
  <2> QED BY <1>1, <1>2, <2>1, <2>2 DEF Frame, StopsAgree, Executing
<1> QED BY <1>3, <1>4
-----------------------------------------------------------------------------
(* What a worker says of its core.                                          *)

LEMMA ClassKeepsPosted ==
  ASSUME IInv, ClassEffect, PostedSomewhere PROVE PostedSomewhere'
<1>1. TypeOK /\ worker <= workers /\ workers \in Nat /\ worker \in Nat
      /\ \A id \in Ids : sentTo[id] \in Nat
  BY DEF IInv, KnownWorkers, TypeOK, ClassTypeOK, Workers, NoWorker
<1>2. ASSUME NEW g \in Workers, NEW m \in Requests, NEW sig, Makes(g, m, sig)
      PROVE  PostedSomewhere'
  <2>1. /\ sentTo' = [sentTo EXCEPT ![nextID] = g] /\ promise' = [promise EXCEPT ![nextID] = "pending"]
        /\ \/ worker = g /\ workers' = workers
           \/ worker = NoWorker /\ g = workers + 1 /\ workers' = workers + 1
    BY <1>2 DEF Makes
  <2>2. g <= workers' /\ workers <= workers' /\ workers' \in Nat /\ g \in Nat /\ g # NoWorker
    BY <1>1, <2>1 DEF Workers, NoWorker
  <2>3. ASSUME NEW id \in Ids
        PROVE  sentTo'[id] <= workers' /\ (sentTo'[id] = NoWorker => promise'[id] = "unsent")
    <3>1. CASE id = nextID
      BY <1>1, <2>1, <2>2, <3>1 DEF TypeOK, ClassTypeOK
    <3>2. CASE id # nextID
      <4>1. sentTo'[id] = sentTo[id] /\ promise'[id] = promise[id]
        BY <1>1, <2>1, <3>2 DEF TypeOK, ClassTypeOK
      <4>2. sentTo[id] <= workers /\ sentTo[id] \in Nat
        BY <1>1 DEF PostedSomewhere
      <4> QED BY <1>1, <2>2, <4>1, <4>2 DEF PostedSomewhere
    <3> QED BY <3>1, <3>2
  <2> QED BY <2>3 DEF PostedSomewhere
<1>3. ASSUME \A id \in Ids : promise'[id] = promise[id] \/ Pending(id),
             UNCHANGED <<sentTo, workers>>
      PROVE  PostedSomewhere'
  BY <1>3 DEF PostedSomewhere, Pending
<1>4. CASE \E s \in Signals : Fires(s)
  BY <1>3, <1>4 DEF Fires, Frame
<1>5. CASE (\E g \in Workers : Hears(g) \/ Passes(g)) \/ Closes \/ Ignores
  BY <1>3, <1>5 DEF Hears, Passes, Closes, Ignores, Frame
<1> QED BY <1>2, <1>4, <1>5 DEF ClassEffect

\* The core in place stays in place.
LEMMA CoreStays ==
  ASSUME TypeOK, NEW g \in Workers, InOrder(g), WorkerStep(g), NEW h \in Workers, slot[h] = "done"
  PROVE  slot'[h] = "done"
<1>1. Others(g) /\ Effect(g)
  BY WorkerEffect
<1>2. CASE h = g
  BY <1>1, <1>2 DEF Effect, Quiet, AnswersNow, WaitsForCore, CoreSettles, StartsCommand,
     QueuesCommand, Tells, Ends
<1> QED BY <1>1, <1>2 DEF Others

\* What has been said stays said, and a worker says more with a new message only.
LEMMA SaidGrows ==
  ASSUME TypeOK, NEW h \in Workers, UNCHANGED <<sentTo, promise>>, NEW a \in Messages, NEW d,
         outbox'[h] = Append(outbox[h], a)
  PROVE  Said(h, d)' = Said(h, d) \cup {i \in {a.id} : a.data = d}
<1>1. InSeq(outbox'[h]) = InSeq(outbox[h]) \cup {a}
  BY Held, InSeqAppend
<1> QED BY <1>1 DEF Said

LEMMA SaidIsReached ==
  ASSUME TypeOK, NEW h \in Workers, NEW d \in Values \cup Errors
  PROVE  Said(h, d) \subseteq Reached(h) /\ Said(h, d) \subseteq Ids
  BY Held DEF Said, Reached, Told

LEMMA SettlingKeepsLoads ==
  ASSUME TypeOK, NEW g \in Workers, InOrder(g), LoadsTold(g), CoreSettles(g),
         UNCHANGED <<sentTo, promise>>
  PROVE  LoadsTold(g)'
<1>1. PICK answers \in Seq(Messages) :
        /\ outbox'[g] = outbox[g] \o answers /\ DOMAIN answers = DOMAIN loads[g]
        /\ \A i \in DOMAIN answers : answers[i].id = loads[g][i]
        /\ \/ /\ slot'[g] = "done"
              /\ \A i \in DOMAIN answers :
                   answers[i].data = IF i = 1 THEN "first" ELSE "again"
           \/ /\ slot'[g] = "empty"
              /\ \A i \in DOMAIN answers :
                   answers[i].type = "ERROR" /\ answers[i].data \notin {"first", "again"}
  BY DEF CoreSettles
<1>2. InSeq(outbox'[g]) = InSeq(outbox[g]) \cup InSeq(answers)
  BY <1>1, Held, InSeqConcat
<1>3. Said(g, "first") = {} /\ Said(g, "again") = {} /\ \A r \in InSeq(outbox[g]) : r.type # "LOAD"
  BY DEF CoreSettles, LoadsTold
<1>4. \A d \in {"first", "again"} :
        Said(g, d)' = {r.id : r \in {n \in InSeq(answers) : n.data = d}}
  BY <1>2, <1>3 DEF Said
<1>5. CASE slot'[g] = "empty"
  <2>1. \A r \in InSeq(answers) : r.type = "ERROR" /\ r.data \notin {"first", "again"}
    BY <1>1, <1>5 DEF InSeq
  <2>2. Said(g, "first")' = {} /\ Said(g, "again")' = {}
    BY <1>4, <2>1
  <2> QED BY <1>2, <1>3, <2>1, <2>2 DEF LoadsTold
<1>6. CASE slot'[g] = "done"
  <2>1. \A i \in DOMAIN answers : answers[i].data = IF i = 1 THEN "first" ELSE "again"
    BY <1>1, <1>6
  <2>2. \A x \in Said(g, "first")' : 1 \in DOMAIN loads[g] /\ x = loads[g][1]
    BY <1>1, <1>4, <2>1 DEF InSeq
  <2>3. \A x \in Said(g, "again")' : \E i \in DOMAIN loads[g] : i # 1 /\ x = loads[g][i]
    BY <1>1, <1>4, <2>1 DEF InSeq
  <2>4. RisingIds(loads[g]) /\ \A i \in DOMAIN loads[g] : i \in Nat /\ i >= 1
    BY Held DEF InOrder
  <2>5. \A i \in DOMAIN loads[g] : i # 1 => 1 < i
    BY <2>4
  <2>6. \A x \in Said(g, "first")', y \in Said(g, "again")' : x < y
    BY <2>2, <2>3, <2>4, <2>5 DEF RisingIds
  <2> QED BY <1>6, <2>2, <2>6 DEF LoadsTold
<1> QED BY <1>1, <1>5, <1>6

LEMMA WorkerStepKeepsLoads ==
  ASSUME TypeOK, AnswersOwnCalls, NEW g \in Workers, InOrder(g), WorkerStep(g),
         UNCHANGED classVars, NEW h \in Workers, LoadsTold(h)
  PROVE  LoadsTold(h)'
<1>1. Others(g) /\ Effect(g) /\ UNCHANGED <<sentTo, promise>>
  BY WorkerEffect DEF classVars, callVars
<1>2. CASE outbox'[h] = outbox[h]
  <2>1. Said(h, "first")' = Said(h, "first") /\ Said(h, "again")' = Said(h, "again")
    BY <1>1, <1>2 DEF Said
  <2> QED BY <1>2, <2>1, CoreStays DEF LoadsTold
<1>3. CASE h # g
  BY <1>1, <1>2, <1>3 DEF Others
<1>4. ASSUME h = g, NEW a \in Messages, outbox'[g] = Append(outbox[g], a), a.data # "first",
             a.type = "LOAD" \/ a.data = "again" => slot[g] = "done",
             a.data = "again" => \A id \in Reached(g) : id < a.id
      PROVE  LoadsTold(h)'
  <2>1. /\ Said(g, "first")' = Said(g, "first")
        /\ \A id \in Said(g, "again")' : id \in Said(g, "again") \/ (a.data = "again" /\ id = a.id)
    <3>1. \A d : Said(g, d)' = Said(g, d) \cup {i \in {a.id} : a.data = d}
      BY <1>1, <1>4, SaidGrows
    <3>2. /\ Said(g, "first")' = Said(g, "first") \cup {i \in {a.id} : a.data = "first"}
          /\ Said(g, "again")' = Said(g, "again") \cup {i \in {a.id} : a.data = "again"}
      BY <3>1
    <3> QED BY <1>4, <3>2
  <2>2. InSeq(outbox'[g]) = InSeq(outbox[g]) \cup {a}
    BY <1>4, Held, InSeqAppend
  <2>3. Said(g, "first") \subseteq Reached(g)
    BY SaidIsReached DEF Values
  <2>4. \A r \in InSeq(outbox'[g]) : r.type = "LOAD" => slot'[g] = "done"
    BY <1>4, <2>2, CoreStays DEF LoadsTold
  <2>5. Said(g, "first")' \cup Said(g, "again")' # {} => slot'[g] = "done"
    BY <1>4, <2>1, CoreStays DEF LoadsTold
  <2>6. \A i \in Said(g, "first")', j \in Said(g, "again")' : i < j
    BY <1>4, <2>1, <2>3 DEF LoadsTold
  <2> QED BY <1>4, <2>1, <2>4, <2>5, <2>6 DEF LoadsTold
<1>5. ASSUME h = g, AnswersNow(g) PROVE LoadsTold(h)'
  <2>1. PICK a \in Messages :
          /\ outbox'[g] = Append(outbox[g], a) /\ a.id = Request(g).id /\ a.data # "first"
          /\ a.type = "LOAD" \/ a.data = "again" => slot[g] = "done"
    BY <1>5 DEF AnswersNow
  <2>2. \A id \in Reached(g) : id < a.id
    BY <1>5, <2>1, Taken DEF AnswersNow
  <2> QED BY <1>4, <1>5, <2>1, <2>2
<1>6. ASSUME h = g, Tells(g) PROVE LoadsTold(h)'
  <2>1. PICK a \in Messages : outbox'[g] = Append(outbox[g], a) /\ a.type = "LOG" /\ a.data = "done"
    BY <1>6 DEF Tells
  <2> QED BY <1>4, <1>6, <2>1
<1>7. ASSUME h = g, Ends(g) PROVE LoadsTold(h)'
  <2>1. PICK a \in Messages : outbox'[g] = Append(outbox[g], a) /\ a.data \notin {"first", "again"}
    BY <1>7 DEF Ends
  <2>2. slot[g] = "done"
    BY <1>7 DEF Ends, InOrder
  <2> QED BY <1>4, <1>7, <2>1, <2>2
<1>8. CASE h = g
  BY <1>1, <1>2, <1>5, <1>6, <1>7, <1>8, SettlingKeepsLoads
     DEF Effect, Quiet, WaitsForCore, StartsCommand, QueuesCommand
<1> QED BY <1>3, <1>8

\* The event loop lets the application know what has been said, and no more.
LEMMA HeardWasSaid ==
  ASSUME IInv, ClassEffect, NEW id \in Ids, NEW d \in Values \cup Errors, promise'[id] = d
  PROVE  \/ promise[id] = d
         \/ \E g \in Workers : Hears(g) /\ id = Front(g).id /\ d = Front(g).data
<1>1. d \notin {"aborted", "crashed", "terminated", "workerError", "pending"}
  BY DEF Values, Errors
<1>2. \A g \in Workers, m \in Requests, sig \in Signals \cup {NoSignal} :
        Makes(g, m, sig) => promise[id] = d
  BY <1>1 DEF Makes, IInv, TypeOK, ClassTypeOK
<1>3. \A s \in Signals : Fires(s) => promise[id] = d
  BY <1>1 DEF Fires
<1>4. \A g \in Workers : Passes(g) => promise[id] = d
  BY <1>1 DEF Passes
<1>5. \A g \in Workers : Hears(g) => promise[id] = d \/ (id = Front(g).id /\ d = Front(g).data)
  BY <1>1 DEF Hears
<1>6. Closes \/ Ignores => promise[id] = d
  BY <1>1 DEF Closes, Ignores
<1> QED BY <1>2, <1>3, <1>4, <1>5, <1>6 DEF ClassEffect

LEMMA ClassSaysNoMore ==
  ASSUME IInv, ClassEffect, \A g \in Workers : InOrder(g),
         NEW h \in Workers, NEW d \in Values \cup Errors
  PROVE  Said(h, d)' \subseteq Said(h, d) /\ InSeq(outbox'[h]) \subseteq InSeq(outbox[h])
<1>1. TypeOK
  BY DEF IInv
<1>2. /\ InSeq(outbox'[h]) \subseteq InSeq(outbox[h])
      /\ \A id \in Ids : sentTo'[id] = sentTo[id] \/ promise'[id] = "pending"
  <2>1. CASE \E g \in Workers, m \in Requests, sig \in Signals \cup {NoSignal} : Makes(g, m, sig)
    BY <1>1, <2>1 DEF Makes, TypeOK, ClassTypeOK
  <2>2. CASE \A g \in Workers, m \in Requests, sig \in Signals \cup {NoSignal} : ~Makes(g, m, sig)
    BY <1>1, <2>2, ShorterStep, ShorterSet DEF Frame
  <2> QED BY <2>1, <2>2
<1>3. ASSUME NEW id \in Ids, sentTo'[id] = h, promise'[id] = d PROVE id \in Said(h, d)
  <2>1. sentTo[id] = h
    BY <1>2, <1>3 DEF Values, Errors
  <2>2. CASE promise[id] = d
    BY <2>1, <2>2 DEF Said
  <2>3. ASSUME NEW g \in Workers, Hears(g), id = Front(g).id, d = Front(g).data
        PROVE  id \in Said(h, d)
    <3>1. Front(g) \in InSeq(outbox[g])
      BY <1>1, <2>3, PoppedShorter DEF Hears
    <3>2. sentTo[id] = g
      BY <2>3, <3>1 DEF InOrder
    <3> QED BY <2>1, <2>3, <3>1, <3>2 DEF Said
  <2> QED BY <1>3, <2>2, <2>3, HeardWasSaid
<1>4. ASSUME NEW id \in Said(h, d)' PROVE id \in Said(h, d)
  <2>1. CASE id \in Ids /\ sentTo'[id] = h /\ promise'[id] = d
    BY <1>3, <2>1
  <2>2. CASE id \in {r.id : r \in {n \in InSeq(outbox'[h]) : n.data = d}}
    BY <1>2, <2>2 DEF Said
  <2> QED BY <1>4, <2>1, <2>2 DEF Said
<1> QED BY <1>2, <1>4

LEMMA ClassKeepsLoads ==
  ASSUME IInv, ClassEffect, UNCHANGED workerVars, \A g \in Workers : InOrder(g),
         NEW h \in Workers, LoadsTold(h)
  PROVE  LoadsTold(h)'
<1>1. /\ Said(h, "first")' \subseteq Said(h, "first") /\ Said(h, "again")' \subseteq Said(h, "again")
      /\ InSeq(outbox'[h]) \subseteq InSeq(outbox[h]) /\ slot' = slot
  BY ClassSaysNoMore DEF Values, workerVars
<1> QED BY <1>1 DEF LoadsTold
-----------------------------------------------------------------------------
(* The browser: a worker that has been given up is silent.                  *)

LEMMA OnlyLivingPost ==
  ASSUME TypeOK, NEW g \in Workers, WorkerStep(g)
  PROVE  Alive(g) \/ outbox' = outbox
  BY DEF WorkerStep, Boot, Die, Exit, Receive, Receives, StartLoad, JoinLoad, LoadAgain, Refuse,
         ServeFileOp, ReceiveCommand, LoadSettles, LoadSucceeds, LoadFails, RunCommand, Emit,
         Complete, Stop, Throw, Finish, Idle

LEMMA WorkerStepKeepsPresence ==
  ASSUME ~OnNode, IInv, NEW g \in Workers, InOrder(g), WorkerStep(g), UNCHANGED classVars,
         OnlyPresentWorker
  PROVE  OnlyPresentWorker'
<1>1. TypeOK /\ Others(g) /\ UNCHANGED <<worker, rejects, uncaught>>
  BY WorkerEffect DEF IInv, classVars, callVars
<1>2. Alive(g) => g = worker
  BY DEF IInv, KnownWorkers, Alive
<1>3. ASSUME NEW h \in Workers, h # worker PROVE outbox'[h] = << >>
  BY <1>1, <1>2, <1>3, OnlyLivingPost DEF Others, OnlyPresentWorker
<1>4. ASSUME NEW w \in Workers, w = worker PROVE InFlight(w)' \subseteq rejects
  <2>1. InFlight(w) \subseteq rejects
    BY <1>4 DEF OnlyPresentWorker, Workers, NoWorker
  <2> QED BY <1>1, <2>1, WorkerStepInFlight
<1>5. worker # NoWorker => worker \in Workers
  BY <1>1 DEF TypeOK, ClassTypeOK
<1>6. \A w \in Workers : w = worker => InFlight(w)' \subseteq rejects'
  BY <1>1, <1>4
<1>7. worker' # NoWorker => InFlight(worker)' \subseteq rejects'
  BY <1>1, <1>5, <1>6
<1> QED BY <1>1, <1>3, <1>7 DEF OnlyPresentWorker

\* In a browser a message comes from the present worker and finds its callbacks.
LEMMA FrontOfPresent ==
  ASSUME IInv, OnlyPresentWorker, NEW g \in Workers, outbox[g] # << >>
  PROVE  /\ g = worker /\ g # NoWorker
         /\ Front(g).type # "LOG" => Front(g).id \in rejects
         /\ Front(g) \in InSeq(outbox[g]) /\ Front(g).id \in Ids
<1>1. TypeOK /\ g = worker /\ g # NoWorker
  BY DEF OnlyPresentWorker, IInv, Workers, NoWorker
<1>2. Front(g) \in InSeq(outbox[g]) /\ Front(g).id \in Ids
  BY <1>1, PoppedShorter, Held
<1>3. InFlight(g) \subseteq rejects
  BY <1>1 DEF OnlyPresentWorker
<1>4. Front(g).type # "LOG" => Front(g).id \in InFlight(g)
  BY <1>1, FrontInFlight
<1> QED BY <1>1, <1>2, <1>3, <1>4

LEMMA ClassKeepsPresence ==
  ASSUME ~OnNode, IInv, ClassEffect, UNCHANGED workerVars, PostedSomewhere,
         \A g \in Workers : InOrder(g) /\ OneAnswer(g), OnlyPresentWorker
  PROVE  OnlyPresentWorker'
<1>1. TypeOK /\ (worker # NoWorker => worker \in Workers)
  BY DEF IInv, TypeOK, ClassTypeOK
<1>2. ASSUME NEW g \in Workers, NEW m \in Requests, NEW sig \in Signals \cup {NoSignal},
             Makes(g, m, sig)
      PROVE  OnlyPresentWorker'
  <2>1. /\ worker' = g /\ rejects' = rejects \cup {nextID} /\ outbox' = outbox
        /\ uncaught' = uncaught /\ (worker = g \/ (worker = NoWorker /\ g = workers + 1))
    BY <1>2 DEF Makes
  <2>2. InFlight(g) \subseteq rejects
    <3>1. CASE worker = g
      BY <3>1 DEF OnlyPresentWorker, Workers, NoWorker
    <3>2. CASE g = workers + 1
      <4>1. \A id \in InFlight(g) : sentTo[id] = g /\ id \in Ids
        BY <1>1, InFlightType DEF IInv, AnswersOwnCalls
      <4>2. workers \in Nat /\ ~(g <= workers)
        BY <1>1, <3>2 DEF TypeOK, ClassTypeOK
      <4> QED BY <4>1, <4>2 DEF PostedSomewhere
    <3> QED BY <2>1, <3>1, <3>2
  <2>3. InFlight(g)' \subseteq rejects'
    BY <1>1, <1>2, <2>1, <2>2, CallInFlight
  <2>4. \A h \in Workers : h # g => outbox'[h] = << >>
    BY <2>1 DEF OnlyPresentWorker, Workers, NoWorker
  <2> QED BY <2>1, <2>3, <2>4 DEF OnlyPresentWorker
<1>3. ASSUME UNCHANGED <<worker, rejects, uncaught, outbox, inbox>> PROVE OnlyPresentWorker'
  <2>1. \A w \in Workers : InFlight(w)' = InFlight(w)
    BY <1>3, SameInFlight
  <2>2. worker' # NoWorker => InFlight(worker)' \subseteq rejects'
    BY <1>1, <1>3, <2>1 DEF OnlyPresentWorker
  <2> QED BY <1>3, <2>2 DEF OnlyPresentWorker
<1>4. ASSUME worker' = NoWorker, uncaught' = uncaught, NEW box \in [Workers -> Seq(Messages)],
             \A h \in Workers : h # worker => box[h] = << >>,
             outbox' = [h \in Workers |-> IF h = worker /\ ~OnNode THEN << >> ELSE box[h]]
      PROVE  OnlyPresentWorker'
  BY <1>4 DEF OnlyPresentWorker
<1>5. ASSUME NEW g \in Workers, outbox[g] # << >>
      PROVE  /\ Popped(g) \in [Workers -> Seq(Messages)] /\ g = worker
             /\ \A h \in Workers : h # g => Popped(g)[h] = << >>
             /\ Popped(g)[g] = Tail(outbox[g])
  <2>1. g = worker
    BY <1>5, FrontOfPresent
  <2> QED BY <1>1, <1>5, <2>1, PoppedShorter DEF OnlyPresentWorker, Popped, TypeOK, LinkTypeOK
<1>6. ASSUME NEW g \in Workers, outbox[g] # << >>, outbox' = Popped(g), Frame,
             worker' = worker, uncaught' = uncaught,
             \/ rejects' = rejects
             \/ Front(g).type # "LOG" /\ rejects' = rejects \ {Front(g).id}
      PROVE  OnlyPresentWorker'
  <2>1. outbox'[g] = Tail(outbox[g]) /\ g = worker /\ \A h \in Workers : h # g => outbox'[h] = << >>
    BY <1>5, <1>6
  <2>2. UNCHANGED <<workerVars, inbox>> /\ Shorter(g)
    BY <1>6, <2>1 DEF Frame, Shorter
  <2>3. InFlight(g)' \subseteq InFlight(g) /\ InFlight(g) \subseteq rejects
    <3>1. InSeq(outbox'[g]) \subseteq InSeq(outbox[g])
      BY <1>1, <2>2, ShorterSet
    <3>2. InFlight(g) \subseteq rejects
      BY <2>1 DEF OnlyPresentWorker, Workers, NoWorker
    <3> QED BY <2>2, <3>1, <3>2, ShorterOutbox
  <2>4. outbox'[g] # outbox[g]
    <3>1. outbox[g] \in Seq(Messages)
      BY <1>1, Held
    <3>2. Len(outbox'[g]) = Len(outbox[g]) - 1 /\ Len(outbox[g]) \in Nat
      BY <1>6, <2>1, <3>1
    <3>3. Len(outbox'[g]) # Len(outbox[g])
      BY ONLY <3>2
    <3> QED BY ONLY <3>3
  <2>5. Front(g).type # "LOG" => Front(g).id \notin InFlight(g)'
    BY <1>6, <2>2, <2>4, FrontIsLast
  <2>6. InFlight(g)' \subseteq rejects'
    BY <1>6, <2>3, <2>5
  <2> QED BY <1>6, <2>1, <2>6 DEF OnlyPresentWorker
<1>7. ASSUME NEW g \in Workers, Hears(g) PROVE OnlyPresentWorker'
  <2>1. outbox[g] # << >> /\ uncaught' = uncaught /\ Front(g).type # "LOG" /\ Frame
    BY <1>7 DEF Hears
  <2>2. CASE worker' = worker /\ outbox' = Popped(g) /\ rejects' = rejects \ {Front(g).id}
    BY <1>6, <2>1, <2>2
  <2>3. CASE /\ worker' = NoWorker
             /\ outbox' = [h \in Workers |-> IF h = worker /\ ~OnNode THEN << >> ELSE Popped(g)[h]]
    BY <1>4, <1>5, <2>1, <2>3
  <2> QED BY <1>7, <2>2, <2>3 DEF Hears
<1>8. ASSUME NEW g \in Workers, Passes(g) PROVE OnlyPresentWorker'
  <2>1. outbox[g] # << >> /\ outbox' = Popped(g) /\ Frame /\ worker' = worker /\ rejects' = rejects
    BY <1>8 DEF Passes
  <2>2. uncaught' = uncaught
    BY <1>8, <2>1, FrontOfPresent DEF Passes
  <2> QED BY <1>6, <2>1, <2>2
<1>9. CASE Closes
  <2>1. /\ worker' = NoWorker /\ uncaught' = uncaught
        /\ outbox' = [h \in Workers |-> IF h = worker /\ ~OnNode THEN << >> ELSE outbox[h]]
    BY <1>9 DEF Closes
  <2>2. outbox \in [Workers -> Seq(Messages)] /\ \A h \in Workers : h # worker => outbox[h] = << >>
    BY <1>1 DEF TypeOK, LinkTypeOK, OnlyPresentWorker
  <2> QED BY <1>4, <2>1, <2>2
<1>10. CASE Ignores \/ \E s \in Signals : Fires(s)
  BY <1>3, <1>10 DEF Ignores, Fires, Frame
<1> QED BY <1>2, <1>7, <1>8, <1>9, <1>10 DEF ClassEffect

-----------------------------------------------------------------------------
(* The browser: a call made while `loaded' was true finds the core.          *)

LEMMA WorkerStepKeepsLoaded ==
  ASSUME IInv, NEW g \in Workers, InOrder(g), WorkerStep(g), UNCHANGED classVars, LoadedFindsCore
  PROVE  LoadedFindsCore'
<1>1. TypeOK /\ AnswersOwnCalls /\ Others(g) /\ Effect(g)
  BY WorkerEffect DEF IInv
<1>2. UNCHANGED <<worker, loaded, sawLoaded, promise, nextID>>
  BY DEF classVars, callVars
<1>3. loaded' => worker' # NoWorker /\ slot'[worker'] = "done"
  <2>1. worker # NoWorker => worker \in Workers
    BY <1>1 DEF TypeOK, ClassTypeOK
  <2> QED BY <1>1, <1>2, <2>1, CoreStays DEF LoadedFindsCore
<1>4. ASSUME NEW h \in Workers
      PROVE  /\ InSeq(inbox'[h]) \subseteq InSeq(inbox[h])
             /\ \A r \in InSeq(outbox'[h]) : r \in InSeq(outbox[h]) \/ r.data # "notLoaded"
                  \/ (h = g /\ Takes(g) /\ slot[g] # "done" /\ r.id = Request(g).id)
  <2>1. CASE h # g
    BY <1>1, <2>1 DEF Others
  <2>2. CASE h = g
    <3>1. InSeq(inbox'[g]) \subseteq InSeq(inbox[g])
      <4>1. Takes(g) => InSeq(inbox'[g]) \subseteq InSeq(inbox[g])
        BY <1>1, Taken
      <4> QED BY <1>1, <4>1 DEF Effect, Quiet, AnswersNow, WaitsForCore, CoreSettles,
              StartsCommand, QueuesCommand, Tells, Ends
    <3>2. CASE outbox'[g] = outbox[g]
      BY <2>2, <3>1, <3>2
    <3>3. ASSUME NEW a \in Messages, outbox'[g] = Append(outbox[g], a)
          PROVE  InSeq(outbox'[g]) = InSeq(outbox[g]) \cup {a}
      BY <1>1, <3>3, Held, InSeqAppend
    <3>4. CASE AnswersNow(g)
      <4>1. PICK a \in Messages :
              /\ outbox'[g] = Append(outbox[g], a) /\ a.id = Request(g).id
              /\ a.data = "notLoaded" => slot[g] # "done"
        BY <3>4 DEF AnswersNow
      <4> QED BY <2>2, <3>1, <3>3, <3>4, <4>1 DEF AnswersNow
    <3>5. CASE CoreSettles(g)
      <4>1. PICK answers \in Seq(Messages) :
              /\ outbox'[g] = outbox[g] \o answers
              /\ \A i \in DOMAIN answers : answers[i].data # "notLoaded"
        BY <3>5 DEF CoreSettles
      <4>2. InSeq(outbox'[g]) = InSeq(outbox[g]) \cup InSeq(answers)
        BY <1>1, <4>1, Held, InSeqConcat
      <4>3. \A r \in InSeq(answers) : r.data # "notLoaded"
        BY <4>1 DEF InSeq
      <4> QED BY <2>2, <3>1, <4>2, <4>3
    <3>6. CASE Tells(g)
      <4>1. PICK a \in Messages : outbox'[g] = Append(outbox[g], a) /\ a.data = "done"
        BY <3>6 DEF Tells
      <4> QED BY <2>2, <3>1, <3>3, <4>1
    <3>7. CASE Ends(g)
      <4>1. PICK a \in Messages : outbox'[g] = Append(outbox[g], a) /\ a.data # "notLoaded"
        BY <3>7 DEF Ends
      <4> QED BY <2>2, <3>1, <3>3, <4>1
    <3>8. Quiet(g) \/ WaitsForCore(g) \/ StartsCommand(g) \/ QueuesCommand(g)
            => outbox'[g] = outbox[g]
      BY DEF Quiet, WaitsForCore, StartsCommand, QueuesCommand
    <3> QED BY <1>1, <3>2, <3>4, <3>5, <3>6, <3>7, <3>8 DEF Effect
  <2> QED BY <2>1, <2>2
<1>5. ASSUME Takes(g), slot[g] # "done" PROVE Request(g).id \notin sawLoaded
  BY <1>1, <1>5, Taken DEF LoadedFindsCore
<1>6. \A h \in Workers :
        /\ \A m \in InSeq(inbox'[h]) : m.id \in sawLoaded => slot'[h] = "done"
        /\ \A r \in InSeq(outbox'[h]) : r.data = "notLoaded" => r.id \notin sawLoaded
  BY <1>1, <1>4, <1>5, CoreStays DEF LoadedFindsCore
<1> QED BY <1>2, <1>3, <1>6 DEF LoadedFindsCore

LEMMA ClassKeepsLoaded ==
  ASSUME IInv, ClassEffect, UNCHANGED workerVars, OnlyPresentWorker, LoadedFindsCore,
         \A g \in Workers : InOrder(g) /\ LoadsTold(g)
  PROVE  LoadedFindsCore'
<1>1. TypeOK /\ slot' = slot
  BY DEF IInv, workerVars
<1>2. ASSUME NEW g \in Workers, NEW m \in Requests, NEW sig \in Signals \cup {NoSignal},
             Makes(g, m, sig)
      PROVE  LoadedFindsCore'
  <2>1. /\ worker' = g /\ loaded' = loaded /\ outbox' = outbox /\ m.id = nextID /\ nextID \in Ids
        /\ worker = g \/ worker = NoWorker
        /\ sawLoaded' = IF loaded THEN sawLoaded \cup {nextID} ELSE sawLoaded
        /\ promise' = [promise EXCEPT ![nextID] = "pending"]
    BY <1>2 DEF Makes
  <2>2. loaded => slot[g] = "done" /\ worker = g
    BY <2>1 DEF LoadedFindsCore
  <2>3. nextID' = nextID + 1 /\ nextID \in Int /\ \A id \in sawLoaded : id \in Int /\ id # nextID
    BY <1>1, <1>2 DEF Makes, LoadedFindsCore, TypeOK, ClassTypeOK, Ids
  <2>4. \A id \in sawLoaded' : id < nextID' /\ promise'[id] # "notLoaded"
    <3>1. ASSUME NEW id \in sawLoaded PROVE id < nextID' /\ promise'[id] # "notLoaded"
      <4>1. id < nextID /\ promise[id] # "notLoaded" /\ id \in Ids
        BY <1>1 DEF LoadedFindsCore, TypeOK, ClassTypeOK
      <4>2. promise'[id] = promise[id]
        BY <1>1, <2>1, <2>3, <4>1 DEF TypeOK, ClassTypeOK
      <4>3. id < nextID'
        BY <2>3, <4>1
      <4> QED BY <4>1, <4>2, <4>3
    <3>2. nextID < nextID' /\ promise'[nextID] # "notLoaded"
      BY <1>1, <2>1, <2>3 DEF TypeOK, ClassTypeOK
    <3> QED BY <2>1, <3>1, <3>2
  <2>5. ASSUME NEW h \in Workers, NEW n \in InSeq(inbox'[h]), n.id \in sawLoaded'
        PROVE  slot[h] = "done"
    <3>1. n \in InSeq(inbox[h]) \/ (n = m /\ h = g)
      <4>1. CASE h # g
        BY <1>2, <4>1 DEF Makes
      <4>2. CASE h = g
        <5>1. inbox'[h] = Append(inbox[h], m) /\ inbox[h] \in Seq(Requests)
          BY <1>1, <1>2, <4>2, Held DEF Makes
        <5>2. InSeq(Append(inbox[h], m)) = InSeq(inbox[h]) \cup {m}
          BY <5>1, InSeqAppend
        <5> QED BY <4>2, <5>1, <5>2
      <4> QED BY <4>1, <4>2
    <3>2. CASE n \in InSeq(inbox[h])
      <4>1. n.id \in Ids /\ sentTo[n.id] = h
        BY <1>1, <3>2, Held DEF IInv, AnswersOwnCalls, InFlight, Unreceived
      <4>2. n.id # nextID
        BY <4>1, Earlier
      <4> QED BY <2>1, <2>5, <3>2, <4>2 DEF LoadedFindsCore
    <3>3. CASE n = m /\ h = g
      <4>1. loaded
        BY <2>1, <2>3, <2>5, <3>3
      <4> QED BY <2>2, <3>3, <4>1
    <3> QED BY <3>1, <3>2, <3>3
  <2>6. ASSUME NEW h \in Workers, NEW r \in InSeq(outbox[h]), r.data = "notLoaded"
        PROVE  r.id \notin sawLoaded'
    <3>1. r.id \in Ids /\ sentTo[r.id] = h
      BY <1>1, Held DEF InOrder
    <3>2. r.id # nextID
      BY <3>1, Earlier
    <3> QED BY <2>1, <2>6, <3>2 DEF LoadedFindsCore
  <2> QED BY <1>1, <2>1, <2>2, <2>4, <2>5, <2>6 DEF LoadedFindsCore
<1>3. ASSUME \A g \in Workers, m \in Requests, sig \in Signals \cup {NoSignal} : ~Makes(g, m, sig)
      PROVE  LoadedFindsCore'
  <2>1. Frame /\ \A h \in Workers : InSeq(outbox'[h]) \subseteq InSeq(outbox[h])
    BY <1>1, <1>3, ShorterStep, ShorterSet
  <2>2. \A id \in sawLoaded : promise'[id] # "notLoaded"
    <3> SUFFICES ASSUME NEW id \in sawLoaded, promise'[id] = "notLoaded" PROVE FALSE
      OBVIOUS
    <3>1. id \in Ids /\ promise[id] # "notLoaded"
      BY <1>1 DEF LoadedFindsCore, TypeOK, ClassTypeOK
    <3>2. PICK g \in Workers : Hears(g) /\ id = Front(g).id /\ "notLoaded" = Front(g).data
      BY <3>1, HeardWasSaid DEF Errors
    <3>3. Front(g) \in InSeq(outbox[g])
      BY <3>2, FrontOfPresent DEF Hears
    <3> QED BY <3>2, <3>3 DEF LoadedFindsCore
  <2>3. loaded' => worker' # NoWorker /\ slot[worker'] = "done"
    <3>1. ASSUME NEW g \in Workers, outbox[g] # << >>, worker' = worker,
                 loaded' = (loaded \/ Front(g).type = "LOAD"), loaded'
          PROVE  worker' # NoWorker /\ slot[worker'] = "done"
      <4>1. g = worker /\ g # NoWorker /\ Front(g) \in InSeq(outbox[g])
        BY <3>1, FrontOfPresent
      <4>2. Front(g).type = "LOAD" => slot[g] = "done"
        BY <4>1 DEF LoadsTold
      <4> QED BY <3>1, <4>1, <4>2 DEF LoadedFindsCore
    <3>2. ASSUME NEW g \in Workers, Hears(g), loaded' PROVE worker' # NoWorker /\ slot[worker'] = "done"
      BY <3>1, <3>2 DEF Hears, LoadedFindsCore
    <3>3. ASSUME NEW g \in Workers, Passes(g), loaded' PROVE worker' # NoWorker /\ slot[worker'] = "done"
      BY <3>1, <3>3 DEF Passes, LoadedFindsCore
    <3>4. CASE Closes
      BY <3>4 DEF Closes, LoadedFindsCore
    <3>5. CASE Ignores \/ \E s \in Signals : Fires(s)
      BY <3>5 DEF Ignores, Fires, LoadedFindsCore
    <3> QED BY <1>3, <3>2, <3>3, <3>4, <3>5 DEF ClassEffect
  <2> QED BY <1>1, <2>1, <2>2, <2>3 DEF Frame, LoadedFindsCore
<1> QED BY <1>2, <1>3
-----------------------------------------------------------------------------
(* The invariants, and what follows from them.                              *)

CallsInv ==
  /\ IInv /\ NothingLost /\ PostedSomewhere /\ FlagsAgree
  /\ \A g \in Workers : InOrder(g) /\ OneAnswer(g) /\ StopsAgree(g) /\ LoadsTold(g)

BrowserInv == CallsInv /\ OnlyPresentWorker /\ LoadedFindsCore

LEMMA InitCallsInv == Init => CallsInv /\ OnlyPresentWorker /\ LoadedFindsCore
<1> SUFFICES ASSUME Init PROVE CallsInv /\ OnlyPresentWorker /\ LoadedFindsCore
  OBVIOUS
<1>1. /\ rejects = {} /\ flags = {} /\ sawLoaded = {} /\ worker = NoWorker /\ ~loaded /\ ~uncaught
      /\ workers = 0 /\ \A id \in Ids : promise[id] = "unsent" /\ sentTo[id] = NoWorker
  BY DEF Init, ClassInit, LinkInit
<1>2. \A g \in Workers :
        /\ inbox[g] = << >> /\ outbox[g] = << >> /\ loads[g] = << >> /\ queue[g] = << >>
        /\ core[g].active = {} /\ ~core[g].timeoutMs /\ core[g].abortFlag = NoCall
  BY DEF Init, LinkInit, WorkerInit, NewCore
<1>3. IInv
  BY InitIInv
<1>4. \A id \in Ids : ~Told(id)
  BY <1>1 DEF Told, Values, Errors
<1>5. ASSUME NEW g \in Workers
      PROVE  /\ InSeq(inbox[g]) = {} /\ InSeq(outbox[g]) = {} /\ Loading(g) = {} /\ Queued(g) = {}
             /\ Executing(g) = {} /\ Answered(g) = {} /\ Unreceived(g) = {}
  BY <1>2, EmptyRises DEF Loading, Queued, Executing, Answered, Unreceived
<1>6. ASSUME NEW g \in Workers PROVE InOrder(g)
  BY <1>2, <1>4, <1>5, EmptyRises DEF InOrder, Reached
<1>7. ASSUME NEW g \in Workers PROVE OneAnswer(g)
  BY <1>2, <1>5 DEF OneAnswer, AnswersDiffer, EventsAhead, InFlight
<1>8. ASSUME NEW g \in Workers PROVE StopsAgree(g)
  BY <1>2, <1>5, EmptyRises DEF StopsAgree
<1>9. ASSUME NEW g \in Workers PROVE LoadsTold(g)
  <2>1. \A d \in Values : Said(g, d) = {}
    BY <1>1, <1>5 DEF Said, Values
  <2> QED BY <1>5, <2>1 DEF LoadsTold, Values
<1>10. NothingLost /\ PostedSomewhere /\ FlagsAgree
  BY <1>1 DEF NothingLost, PostedSomewhere, FlagsAgree, NoWorker
<1>11. OnlyPresentWorker /\ LoadedFindsCore
  BY <1>1, <1>2, <1>5 DEF OnlyPresentWorker, LoadedFindsCore
<1> QED BY <1>3, <1>6, <1>7, <1>8, <1>9, <1>10, <1>11 DEF CallsInv

LEMMA EventLoopEffect ==
  ASSUME IInv, Application \/ \E g \in Workers : Deliver(g) PROVE ClassEffect
  BY ApplicationEffect, DeliverEffect

\* A step that changes nothing.
LEMMA StutterKeepsCallsInv ==
  ASSUME CallsInv, IInv', UNCHANGED vars PROVE CallsInv'
<1>1. UNCHANGED <<inbox, outbox, failed, alive, flags, slot, loads, queue, core, worker, workers,
                  loaded, rejects, nextID, promise, sent, sentTo, signalOf, sawLoaded, aborted,
                  uncaught>>
  BY DEF vars, classVars, callVars, linkVars, workerVars
<1>2. ASSUME NEW g \in Workers
      PROVE  InOrder(g)' /\ OneAnswer(g)' /\ StopsAgree(g)' /\ LoadsTold(g)'
  <2>1. InOrder(g) /\ OneAnswer(g) /\ StopsAgree(g) /\ LoadsTold(g)
    BY DEF CallsInv
  <2>2. /\ Loading(g)' = Loading(g) /\ Queued(g)' = Queued(g) /\ Executing(g)' = Executing(g)
        /\ Answered(g)' = Answered(g) /\ Unreceived(g)' = Unreceived(g)
    BY <1>1 DEF Unreceived, Loading, Queued, Executing, Answered
  <2>3. InFlight(g)' = InFlight(g) /\ Reached(g)' = Reached(g)
        /\ Said(g, "first")' = Said(g, "first") /\ Said(g, "again")' = Said(g, "again")
    BY <1>1, <2>2 DEF InFlight, Reached, Told, Said
  <2>4. InOrder(g)'
    BY <1>1, <2>1, <2>3 DEF InOrder
  <2>5. OneAnswer(g)'
    BY <1>1, <2>1, <2>2, <2>3 DEF OneAnswer, AnswersDiffer, EventsAhead, Told
  <2>6. StopsAgree(g)'
    BY <1>1, <2>1, <2>2 DEF StopsAgree
  <2>7. LoadsTold(g)'
    BY <1>1, <2>1, <2>3 DEF LoadsTold
  <2> QED BY <2>4, <2>5, <2>6, <2>7
<1>3. NothingLost' /\ PostedSomewhere' /\ FlagsAgree'
  BY <1>1 DEF CallsInv, NothingLost, PostedSomewhere, FlagsAgree, InFlight, Unreceived, Loading,
     Queued, Executing, Answered
<1> QED BY <1>2, <1>3 DEF CallsInv

LEMMA NextCallsInv == CallsInv /\ [Next]_vars => CallsInv'
<1> SUFFICES ASSUME CallsInv, [Next]_vars PROVE CallsInv'
  OBVIOUS
<1>1. IInv /\ IInv' /\ TypeOK /\ AnswersOwnCalls
      /\ \A g \in Workers : InOrder(g) /\ OneAnswer(g) /\ StopsAgree(g) /\ LoadsTold(g)
  BY NextIInv DEF CallsInv, IInv
<1>2. CASE (Application \/ \E g \in Workers : Deliver(g)) /\ UNCHANGED workerVars
  <2>1. ClassEffect
    BY <1>1, <1>2, EventLoopEffect
  <2>2. \A h \in Workers : InOrder(h)' /\ OneAnswer(h)'
    BY <1>1, <1>2, <2>1, ClassKeepsOrder, ClassKeepsAnswers
  <2>3. \A h \in Workers : StopsAgree(h)' /\ LoadsTold(h)'
    BY <1>1, <1>2, <2>1, ClassKeepsStops, ClassKeepsLoads DEF CallsInv
  <2>4. NothingLost' /\ PostedSomewhere' /\ FlagsAgree'
    BY <1>1, <1>2, <2>1, ClassLosesNothing, ClassKeepsPosted, ClassKeepsFlags DEF CallsInv
  <2> QED BY <1>1, <2>2, <2>3, <2>4 DEF CallsInv
<1>3. ASSUME NEW g \in Workers, WorkerStep(g), UNCHANGED classVars PROVE CallsInv'
  <2>1. \A h \in Workers : InOrder(h)' /\ OneAnswer(h)'
    BY <1>1, <1>3, WorkerStepKeepsOrder, WorkerStepKeepsAnswers
  <2>2. \A h \in Workers : StopsAgree(h)' /\ LoadsTold(h)'
    BY <1>1, <1>3, WorkerStepKeepsStops, WorkerStepKeepsLoads DEF CallsInv
  <2>3. NothingLost'
    BY <1>1, <1>3, WorkerStepLosesNothing DEF CallsInv
  <2>4. PostedSomewhere' /\ FlagsAgree'
    <3>1. UNCHANGED <<flags, sentTo, workers, promise, nextID, signalOf, aborted>>
      BY <1>1, <1>3, WorkerStepKeepsShared DEF classVars, callVars
    <3> QED BY <3>1 DEF CallsInv, PostedSomewhere, FlagsAgree
  <2> QED BY <1>1, <2>1, <2>2, <2>3, <2>4 DEF CallsInv
<1>4. CASE UNCHANGED vars
  BY <1>1, <1>4, StutterKeepsCallsInv
<1> QED BY <1>2, <1>3, <1>4 DEF Next

LEMMA CallsInductive == Spec => []CallsInv
  BY InitCallsInv, NextCallsInv, PTL DEF Spec

LEMMA NextBrowserInv == ~OnNode /\ BrowserInv /\ [Next]_vars => BrowserInv'
<1> SUFFICES ASSUME ~OnNode, BrowserInv, [Next]_vars PROVE BrowserInv'
  OBVIOUS
<1>1. IInv /\ CallsInv' /\ OnlyPresentWorker /\ LoadedFindsCore /\ PostedSomewhere
      /\ \A g \in Workers : InOrder(g) /\ OneAnswer(g) /\ LoadsTold(g)
  BY NextCallsInv DEF BrowserInv, CallsInv
<1>2. CASE (Application \/ \E g \in Workers : Deliver(g)) /\ UNCHANGED workerVars
  <2>1. ClassEffect
    BY <1>1, <1>2, EventLoopEffect
  <2> QED BY <1>1, <1>2, <2>1, ClassKeepsPresence, ClassKeepsLoaded DEF BrowserInv
<1>3. ASSUME NEW g \in Workers, WorkerStep(g), UNCHANGED classVars PROVE BrowserInv'
  BY <1>1, <1>3, WorkerStepKeepsPresence, WorkerStepKeepsLoaded DEF BrowserInv
<1>4. CASE UNCHANGED vars
  <2>1. UNCHANGED <<inbox, outbox, slot, loads, queue, core, worker, loaded, rejects, nextID,
                    promise, sawLoaded, uncaught>>
    BY <1>4 DEF vars, classVars, callVars, linkVars, workerVars
  <2> QED BY <1>1, <2>1 DEF BrowserInv, OnlyPresentWorker, LoadedFindsCore, InFlight, Unreceived,
          Loading, Queued, Executing, Answered
<1> QED BY <1>2, <1>3, <1>4 DEF Next

\* No call is lost: whatever #terminate, onerror, a reply or a worker's step has
\* done, a call that still has its callbacks is on its way through the present
\* worker, or the event that rejects it is on its own way.
THEOREM NothingLostCorrect == Spec => []NothingLost
<1>1. CallsInv => NothingLost
  BY DEF CallsInv
<1> QED BY <1>1, CallsInductive, PTL

\* worker.ts answers each request once, and behind every LOG and PROGRESS message
\* of its command, whatever has been queued, refused or stopped in between.
THEOREM RepliesAgreeCorrect == Spec => []RepliesAgree
<1>1. ASSUME CallsInv PROVE RepliesAgree
  <2>1. TypeOK
    BY <1>1 DEF CallsInv, IInv
  <2>2. ASSUME NEW g \in Workers
        PROVE  /\ AnswersDiffer(g)
               /\ Answered(g) \cap (Loading(g) \cup Queued(g) \cup Executing(g)) = {}
               /\ \A id \in InFlight(g) : ~Told(id)
    BY <1>1 DEF CallsInv, OneAnswer
  <2>3. ASSUME NEW g \in Workers, NEW id \in Answered(g), id \in Unreceived(g) PROVE FALSE
    <3>1. PICK n \in InSeq(inbox[g]) : n.id = id
      BY <2>3 DEF Unreceived
    <3>2. id \in Reached(g) /\ id \in Int
      BY <2>1, <2>3, <3>1, AnsweredIndices, Held
    <3>3. id < n.id
      BY <1>1, <3>2 DEF CallsInv, InOrder
    <3> QED BY <3>1, <3>2, <3>3
  <2>4. AnsweredOnce
    BY <2>2, <2>3 DEF AnsweredOnce, AnswersDiffer
  <2>5. ASSUME NEW g \in Workers, NEW i \in DOMAIN outbox[g], outbox[g][i].type = "LOG"
        PROVE  ~Told(outbox[g][i].id)
    <3>1. CASE outbox[g][i].id \in Executing(g)
      BY <2>2, <3>1 DEF InFlight
    <3>2. ASSUME NEW j \in DOMAIN outbox[g], outbox[g][j].type # "LOG",
                 outbox[g][j].id = outbox[g][i].id
          PROVE  ~Told(outbox[g][i].id)
      BY <2>1, <2>2, <3>2, AnsweredIndices DEF InFlight
    <3> QED BY <1>1, <2>5, <3>1, <3>2 DEF CallsInv, OneAnswer, EventsAhead
  <2>6. EventsBeforeReply
    BY <2>5 DEF EventsBeforeReply, InSeq, Told
  <2> QED BY <2>4, <2>6 DEF RepliesAgree
<1> QED BY <1>1, CallsInductive, PTL

\* queueCommand runs the commands of a worker one at a time, in the order in which
\* the application made the calls, also while a core of the JSPI kind leaves the
\* worker free to receive more.
THEOREM OneCommandInOrderCorrect == Spec => []OneCommandInOrder
<1>1. ASSUME CallsInv PROVE OneCommandInOrder
  <2> SUFFICES ASSUME NEW g \in Workers, NEW m \in core[g].active
               PROVE  /\ core[g].active = {m}
                      /\ \A id \in Queued(g) : id > m.id
                      /\ \A n \in InSeq(inbox[g]) : n.id > m.id
    BY DEF OneCommandInOrder
  <2>1. InOrder(g) /\ m.id \in Reached(g)
    BY <1>1 DEF CallsInv, Reached, Executing
  <2> QED BY <2>1 DEF InOrder, Queued
<1> QED BY <1>1, CallsInductive, PTL

\* A command of bind.js's core that has been stopped had a timeout, or the signal
\* of its own call had fired: reset() leaves no flag and no timeout of an earlier
\* command behind.
THEOREM StoppedByOwnSignalCorrect == Spec => []StoppedByOwnSignal
<1>1. CallsInv => StoppedByOwnSignal
  BY DEF CallsInv, StopsAgree, StoppedByOwnSignal
<1> QED BY <1>1, CallsInductive, PTL

\* A worker tells one call at most that it was the first to load the core, and that
\* before it tells another that the core is there: doLoad() runs once.
THEOREM OneFirstLoadCorrect == Spec => []OneFirstLoad
<1>1. ASSUME CallsInv PROVE OneFirstLoad
  <2> SUFFICES ASSUME NEW i \in Ids, NEW j \in Ids, sentTo[i] = sentTo[j]
               PROVE  /\ promise[i] = "first" /\ promise[j] = "first" => i = j
                      /\ promise[i] = "again" /\ promise[j] = "first" => j < i
    BY DEF OneFirstLoad
  <2>1. promise[j] = "first" => sentTo[j] \in Workers
    BY <1>1 DEF CallsInv, PostedSomewhere, IInv, TypeOK, ClassTypeOK
  <2>2. ASSUME NEW g \in Workers, sentTo[j] = g
        PROVE  /\ promise[i] = "first" /\ promise[j] = "first" => i = j
               /\ promise[i] = "again" /\ promise[j] = "first" => j < i
    <3>1. LoadsTold(g)
      BY <1>1 DEF CallsInv
    <3>2. /\ promise[i] = "first" => i \in Said(g, "first")
          /\ promise[j] = "first" => j \in Said(g, "first")
          /\ promise[i] = "again" => i \in Said(g, "again")
      BY <2>2 DEF Said
    <3> QED BY <3>1, <3>2 DEF LoadsTold
  <2> QED BY <2>1, <2>2
<1> QED BY <1>1, CallsInductive, PTL

\* In a browser, where terminate() empties the port, no message handler of
\* classes.ts throws: every reply finds its callbacks.
THEOREM NoStrayReplyCorrect == ASSUME ~OnNode PROVE Spec => []NoStrayReply
<1>1. Init => BrowserInv
  BY InitCallsInv DEF BrowserInv
<1>2. BrowserInv => NoStrayReply
  BY DEF BrowserInv, OnlyPresentWorker, NoStrayReply
<1>3. BrowserInv /\ [Next]_vars => BrowserInv'
  BY NextBrowserInv
<1> QED BY <1>1, <1>2, <1>3, PTL DEF Spec

\* In a browser `loaded' is true only while there is a worker with a core, no call
\* made meanwhile is refused for want of one, and the answers to load() agree.
THEOREM LoadsAgreeCorrect == ASSUME ~OnNode PROVE Spec => []LoadsAgree
<1>1. Init => BrowserInv
  BY InitCallsInv DEF BrowserInv
<1>2. BrowserInv => LoadedMeansCore /\ LoadedCallsAreServed
  BY DEF BrowserInv, LoadedFindsCore, LoadedMeansCore, LoadedCallsAreServed
<1>3. BrowserInv /\ [Next]_vars => BrowserInv'
  BY NextBrowserInv
<1>4. LoadedMeansCore /\ LoadedCallsAreServed /\ OneFirstLoad => LoadsAgree
  BY DEF LoadsAgree
<1> QED BY <1>1, <1>2, <1>3, <1>4, OneFirstLoadCorrect, PTL DEF Spec
=============================================================================
