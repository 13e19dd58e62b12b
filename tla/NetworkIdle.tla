---------------------------- MODULE NetworkIdle ----------------------------
(***************************************************************************)
(* waitForNetworkIdle of internal/service/browser.go and the requests of   *)
(* the page it listens to.  The listener counts the events it hears; what  *)
(* the page does goes on whether anybody listens or not.                   *)
(***************************************************************************)
EXTENDS Integers, FiniteSets

CONSTANTS
    Requests,      \* the requests a page makes
    MaxInflight    \* bound on the count, which a redirect raises for good

ASSUME NetworkAssumption ==
    /\ IsFiniteSet(Requests)
    /\ MaxInflight \in Nat

VARIABLES
    begun,     \* requests the page has made
    active,    \* those of them that have not ended
    waiting,   \* a wait is going on, its listener attached
    inflight,  \* the wait's count
    quiet,     \* more than the idle duration since the last event it heard
    before     \* requests that were active when the listener was attached

networkVars == <<begun, active, waiting, inflight, quiet, before>>
waitVars == <<waiting, inflight, quiet, before>>

NetworkTypeOK ==
    /\ begun \in SUBSET Requests
    /\ active \in SUBSET begun
    /\ waiting \in BOOLEAN
    /\ inflight \in Nat
    /\ quiet \in BOOLEAN
    /\ before \in SUBSET begun

NetworkInit ==
    /\ begun = {} /\ active = {}
    /\ waiting = FALSE /\ inflight = 0 /\ quiet = FALSE /\ before = {}

-----------------------------------------------------------------------------
(***************************************************************************)
(* The page.  A redirect announces the same request again, and only one    *)
(* end follows.                                                            *)
(***************************************************************************)

RequestWillBeSent(r) ==
    /\ r \in Requests \ begun
    /\ begun' = begun \union {r}
    /\ active' = active \union {r}
    /\ inflight' = IF waiting THEN inflight + 1 ELSE inflight
    /\ quiet' = FALSE
    /\ UNCHANGED <<waiting, before>>

\* Fault: the first answer of a redirect is taken for the end of the request.
RedirectEnds(r) ==
    /\ r \in active
    /\ waiting
    /\ inflight' = IF inflight > 0 THEN inflight - 1 ELSE 0
    /\ quiet' = FALSE
    /\ UNCHANGED <<begun, active, waiting, before>>

Redirect(r) ==
    /\ r \in active
    /\ waiting /\ inflight < MaxInflight
    /\ inflight' = inflight + 1
    /\ quiet' = FALSE
    /\ UNCHANGED <<begun, active, waiting, before>>

\* Fault: the count is not clamped.
LoadingEndsUnclamped(r) ==
    /\ r \in active
    /\ active' = active \ {r}
    /\ inflight' = IF waiting THEN inflight - 1 ELSE inflight
    /\ quiet' = FALSE
    /\ UNCHANGED <<begun, waiting, before>>

LoadingEnds(r) ==
    /\ r \in active
    /\ active' = active \ {r}
    /\ inflight' = IF waiting /\ inflight > 0 THEN inflight - 1 ELSE inflight
    /\ quiet' = FALSE
    /\ UNCHANGED <<begun, waiting, before>>

PageEvent ==
    \E r \in Requests : RequestWillBeSent(r) \/ Redirect(r) \/ LoadingEnds(r)

-----------------------------------------------------------------------------
(***************************************************************************)
(* The wait.  QuietPasses is the time between two ticks that sees the idle *)
(* duration end.  Idle and the end of a wait are used by its caller.       *)
(***************************************************************************)

StartWait ==
    /\ waiting' = TRUE
    /\ inflight' = 0
    /\ quiet' = FALSE
    /\ before' = active
    /\ UNCHANGED <<begun, active>>

QuietPasses ==
    /\ waiting /\ ~quiet
    /\ quiet' = TRUE
    /\ UNCHANGED <<begun, active, waiting, inflight, before>>

IsIdle == waiting /\ inflight = 0 /\ quiet

StopWait ==
    /\ waiting' = FALSE
    /\ UNCHANGED <<begun, active, inflight, quiet, before>>

-----------------------------------------------------------------------------
(***************************************************************************)
(* The count is never too small by more than the requests that were active *)
(* before the listener and have ended since: each of them takes one off a  *)
(* count it never entered.  So waitForNetworkIdle misses a request that    *)
(* began under its eyes only if an older one ended meanwhile, and with no  *)
(* older one it misses none.                                               *)
(***************************************************************************)
CountMissesOnlyByEarlier ==
    waiting =>
        Cardinality(active \ before) <= inflight + Cardinality(before \ active)
=============================================================================
