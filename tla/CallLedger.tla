----------------------------- MODULE CallLedger ------------------------------
(***************************************************************************)
(* What an FFmpeg object promises its application, without messages,        *)
(* threads or callbacks. The object has a session from load() until         *)
(* terminate() or the loss of its worker. Every call belongs to the session *)
(* it was made in and settles once: answered by that session, aborted by    *)
(* its own signal, or rejected with everything else when the session ends.  *)
(* No call outlives its session, and no session answers another's calls.    *)
(***************************************************************************)
EXTENDS Integers

CONSTANTS MaxCalls, MaxSessions, Signals, NoSignal, Answers, Losses

CallIds   == 1 .. MaxCalls
NoSession == 0
NoCall    == 0

VARIABLES
  session,   \* the open session, or NoSession
  sessions,  \* sessions opened so far
  made,      \* calls made so far
  owner,     \* the session of each call
  signal,    \* the signal of each call
  fired,     \* signals that have aborted
  outcome    \* "unsent", "pending", or how the call settled

ledgerVars == <<session, sessions, made, owner, signal, fired, outcome>>

LedgerInit ==
  /\ session = NoSession /\ sessions = 0 /\ made = 0
  /\ owner = [c \in CallIds |-> NoSession]
  /\ signal = [c \in CallIds |-> NoSignal]
  /\ fired = {}
  /\ outcome = [c \in CallIds |-> "unsent"]

Open(c) == outcome[c] = "pending"

\* A call is made in a session; load() opens one if there is none.
Make(s, sig) ==
  /\ made < MaxCalls
  /\ \/ s = session
     \/ session = NoSession /\ s = sessions + 1
  /\ s \in 1 .. MaxSessions
  /\ made' = made + 1
  /\ session' = s
  /\ sessions' = IF session = NoSession THEN s ELSE sessions
  /\ owner' = [owner EXCEPT ![made + 1] = s]
  /\ signal' = [signal EXCEPT ![made + 1] = sig]
  /\ outcome' = [outcome EXCEPT ![made + 1] = "pending"]
  /\ UNCHANGED fired

\* The open session answers one of its calls.
Answer(c, a) ==
  /\ Open(c) /\ owner[c] = session
  /\ outcome' = [outcome EXCEPT ![c] = a]
  /\ UNCHANGED <<session, sessions, made, owner, signal, fired>>

\* A signal aborts: every pending call that was given it rejects.
Fire(sig) ==
  /\ sig \notin fired
  /\ fired' = fired \cup {sig}
  /\ outcome' = [c \in CallIds |->
                   IF Open(c) /\ signal[c] = sig THEN "aborted" ELSE outcome[c]]
  /\ UNCHANGED <<session, sessions, made, owner, signal>>

\* The session ends, and every pending call with it. The call that crashed it
\* gets the error itself, unless it no longer waits.
End(why, culprit) ==
  /\ session # NoSession
  /\ culprit # NoCall => Open(culprit) /\ why = "crashed"
  /\ session' = NoSession
  /\ outcome' = [c \in CallIds |->
                   IF ~Open(c) THEN outcome[c]
                   ELSE IF c = culprit THEN "trap" ELSE why]
  /\ UNCHANGED <<sessions, made, owner, signal, fired>>

LedgerNext ==
  \/ \E s \in 1 .. MaxSessions, sig \in Signals \cup {NoSignal} : Make(s, sig)
  \/ \E c \in CallIds, a \in Answers : Answer(c, a)
  \/ \E sig \in Signals : Fire(sig)
  \/ \E why \in Losses, culprit \in CallIds \cup {NoCall} : End(why, culprit)

Ledger == LedgerInit /\ [][LedgerNext]_ledgerVars
=============================================================================
