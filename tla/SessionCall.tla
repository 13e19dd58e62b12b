----------------------------- MODULE SessionCall -----------------------------
(***************************************************************************)
(* What the asynchronous session API promises its clients, without the     *)
(* message bus: a call is issued once, each browser worker of the session  *)
(* runs its program at most once, and a call is answered only after some   *)
(* worker has finished running a call with the same request id.  A call    *)
(* that failed (timed out) may still be run later: the service never       *)
(* withdraws a message.                                                    *)
(***************************************************************************)
CONSTANTS Calls,      \* the calls of POST /api/async/message and /api/async/stop
          Workers,    \* the browsers started for the session, one after another or at once
          RequestID   \* RequestID[c]: the request id the call carries

VARIABLES status,     \* status[c]: what the client sees of the call
          started,    \* started[c]: the workers that began to run the call
          finished    \* finished[c]: the workers that ran it to its end

callVars == <<status, started, finished>>

Init ==
  /\ status = [c \in Calls |-> "idle"]
  /\ started = [c \in Calls |-> {}]
  /\ finished = [c \in Calls |-> {}]

Issue(c) ==
  /\ status[c] = "idle"
  /\ status' = [status EXCEPT ![c] = "waiting"]
  /\ UNCHANGED <<started, finished>>

\* A worker begins a call that was issued, and never begins it again.
Begin(c, w) ==
  /\ status[c] # "idle"
  /\ w \notin started[c]
  /\ started' = [started EXCEPT ![c] = @ \union {w}]
  /\ UNCHANGED <<status, finished>>

Finish(c, w) ==
  /\ w \in started[c] \ finished[c]
  /\ finished' = [finished EXCEPT ![c] = @ \union {w}]
  /\ UNCHANGED <<status, started>>

\* The client tells answers apart by request id alone.
Answer(c) ==
  /\ status[c] = "waiting"
  /\ \E d \in Calls : RequestID[d] = RequestID[c] /\ finished[d] # {}
  /\ status' = [status EXCEPT ![c] = "answered"]
  /\ UNCHANGED <<started, finished>>

Fail(c) ==
  /\ status[c] = "waiting"
  /\ status' = [status EXCEPT ![c] = "failed"]
  /\ UNCHANGED <<started, finished>>

Next ==
  \E c \in Calls :
    \/ Issue(c) \/ Answer(c) \/ Fail(c)
    \/ \E w \in Workers : Begin(c, w) \/ Finish(c, w)

\* Safety alone, and with the promise that every call returns.
SafeSpec == Init /\ [][Next]_callVars
Spec == SafeSpec /\ \A c \in Calls : WF_callVars(Answer(c) \/ Fail(c))
==============================================================================
