----------------------- MODULE ProgramActions_proofs -----------------------
(***************************************************************************)
(* Proofs about ProgramActions and the NetworkIdle in it, for any calls,   *)
(* any options, any number of requests and any bounds: type correctness,   *)
(* that timeouts end what they are given to, that errors and outputs are   *)
(* those of their own message, that options left over do no harm, and what *)
(* the count of waitForNetworkIdle misses at most.                         *)
(***************************************************************************)
EXTENDS ProgramActions, FiniteSetTheorems, WellFoundedInduction, TLAPS

\* An action that runs has options of its own, and their timeouts around it.
OwnAction == stage = "do" /\ cdp = "action" => own /\ wraps = Wraps(OptionsOf(call))

\* An action is within every timeout that it looks at.
WithinTime ==
  stage = "do" =>
    /\ cdp # "action" => clock = 0
    /\ cdp = "action" /\ Honours => \A t \in wraps \union {OpTimeout} : clock <= t

\* The responses are numbered like the messages.
Numbered == Len(responses) = IF stage = "idle" THEN message ELSE message - 1

\* The error of the program that runs is its own.
ErrorSoFar == outError = panicked

\* So are its outputs.
OutputsSoFar ==
  /\ "html" \in kept => html = message
  /\ "article" \in kept => article = message

TimeInv == OwnAction /\ WithinTime

ResponseInv == Numbered /\ ErrorSoFar /\ ErrorIsOwn /\ OutputsSoFar /\ OwnOutputsWin

Inv == TimeInv /\ ResponseInv /\ StaleOptionsAreHarmless /\ CountMissesOnlyByEarlier

IInv == TypeOK /\ Inv

-----------------------------------------------------------------------------
(* Numbers. *)

\* A set of numbers has a least one.
LEMMA Least ==
  ASSUME NEW T, T \subseteq Nat, T # {}
  PROVE  \E x \in T : \A y \in T : x <= y
<1>1. PICK x \in T : \A y \in T : <<y, x>> \notin OpToRel(<, Nat)
  BY WFMin, NatLessThanWellFounded
<1>2. \A y \in T : y \in Nat /\ x \in Nat
  OBVIOUS
<1>3. \A y \in T : ~(y < x)
  BY <1>1, <1>2 DEF OpToRel
<1> QED BY <1>2, <1>3

\* The least of a set of numbers is what Min says.
LEMMA MinIsLeast ==
  ASSUME NEW T, T \subseteq Nat, T # {}
  PROVE  Min(T) \in T /\ \A y \in T : Min(T) <= y
BY Least DEF Min

\* A set of numbers with a bound has a greatest one.
LEMMA Greatest ==
  ASSUME NEW n \in Nat, NEW T, T \subseteq 1 .. n, T # {}
  PROVE  \E x \in T : \A y \in T : y <= x
<1> DEFINE Mirror == {n - x : x \in T}
<1>1. Mirror \subseteq Nat /\ Mirror # {}
  <2>1. \A x \in T : n - x \in Nat
    OBVIOUS
  <2>2. PICK x \in T : TRUE
    OBVIOUS
  <2>3. n - x \in Mirror
    BY <2>2
  <2> QED BY <2>1, <2>3
<1>2. PICK m \in Mirror : \A y \in Mirror : m <= y
  BY <1>1, Least
<1>3. PICK x \in T : m = n - x
  OBVIOUS
<1>4. ASSUME NEW y \in T PROVE y <= x
  <2>1. n - y \in Mirror
    OBVIOUS
  <2>2. n - x <= n - y
    BY <1>2, <1>3, <2>1
  <2>3. x \in Nat /\ y \in Nat
    OBVIOUS
  <2> QED BY <2>2, <2>3
<1> QED BY <1>4

-----------------------------------------------------------------------------
(* Options. *)

\* The value of an option is a number.
LEMMA OptionValue ==
  ASSUME NEW opts \in Seq(Option), NEW i \in DOMAIN opts
  PROVE  opts[i].value \in Nat
<1>1. opts[i] \in Option
  OBVIOUS
<1> QED BY <1>1 DEF Option

\* The options of a call are options, and those it was given are among them.
LEMMA OptionsType ==
  ASSUME NEW c \in Calls
  PROVE  /\ OptionsOf(c) \in Seq(Option)
         /\ \A i \in DOMAIN c.opts : \E j \in DOMAIN OptionsOf(c) : OptionsOf(c)[j] = c.opts[i]
<1> DEFINE front == Always("ignoreNavigationErrors", NavigateActions, c.action)
           rear == Always("withoutTimeout", PatientActions, c.action)
<1>1. c.opts \in Seq(Option)
  BY ProgramAssumption
<1>2. front \in Seq(Option) /\ rear \in Seq(Option)
  <2>1. ASSUME NEW k \in OptionKinds PROVE <<[kind |-> k, value |-> 0]>> \in Seq(Option)
    <3>1. [kind |-> k, value |-> 0] \in Option
      BY DEF Option
    <3> QED BY <3>1
  <2>2. "ignoreNavigationErrors" \in OptionKinds /\ "withoutTimeout" \in OptionKinds
    BY DEF OptionKinds
  <2>3. <<>> \in Seq(Option)
    OBVIOUS
  <2> QED BY <2>1, <2>2, <2>3 DEF Always
<1>3. OptionsOf(c) = front \o c.opts \o rear
  BY DEF OptionsOf
<1> HIDE DEF front, rear
<1>4. OptionsOf(c) \in Seq(Option)
  BY <1>1, <1>2, <1>3
<1>5. ASSUME NEW i \in DOMAIN c.opts
      PROVE  \E j \in DOMAIN OptionsOf(c) : OptionsOf(c)[j] = c.opts[i]
  <2>1. i \in 1 .. Len(c.opts) /\ Len(front) \in Nat /\ Len(rear) \in Nat
    BY <1>1, <1>2
  <2>2. Len(front) + i \in DOMAIN OptionsOf(c)
    BY <1>1, <1>2, <1>3, <2>1
  <2>3. OptionsOf(c)[Len(front) + i] = c.opts[i]
    BY <1>1, <1>2, <1>3, <2>1
  <2> QED BY <2>2, <2>3
<1> QED BY <1>4, <1>5

\* The timeout of options is a number: there is a last of them.
LEMMA TimeoutType ==
  ASSUME NEW opts \in Seq(Option)
  PROVE  TimeoutOf(opts) \in Nat
<1> DEFINE setting == {i \in DOMAIN opts : opts[i].kind \in {"timeout", "withoutTimeout"}}
           last == CHOOSE i \in setting : \A j \in setting : j <= i
<1>1. TimeoutOf(opts) = IF setting # {} /\ opts[last].kind = "timeout" THEN opts[last].value ELSE 0
  BY DEF TimeoutOf
<1>2. ASSUME setting # {} PROVE last \in setting
  <2>1. Len(opts) \in Nat /\ setting \subseteq 1 .. Len(opts)
    OBVIOUS
  <2>2. \E i \in setting : \A j \in setting : j <= i
    BY <1>2, <2>1, Greatest
  <2> QED BY <2>2
<1>3. ASSUME setting # {} PROVE opts[last].value \in Nat
  <2>1. last \in DOMAIN opts
    BY <1>2, <1>3
  <2> HIDE DEF last
  <2>2. opts[last] \in Option
    BY <2>1
  <2> QED BY <2>2 DEF Option
<1> HIDE DEF last, setting
<1> QED BY <1>1, <1>3

\* What withActionOptions and withTimeoutOption make of a call.
LEMMA ActionType ==
  ASSUME NEW c \in Calls
  PROVE  /\ ActionOpts(OptionsOf(c))
              \in [timeout : Nat, ignoreNavigationErrors : BOOLEAN, networkIdle : BOOLEAN]
         /\ Wraps(OptionsOf(c)) \subseteq Nat
<1>1. OptionsOf(c) \in Seq(Option)
  BY OptionsType
<1>2. TimeoutOf(OptionsOf(c)) \in Nat
  BY <1>1, TimeoutType
<1>3. \A kind : Has(OptionsOf(c), kind) \in BOOLEAN
  BY DEF Has
<1>4. \A i \in DOMAIN OptionsOf(c) : OptionsOf(c)[i].value \in Nat
  BY <1>1, OptionValue
<1>5. Wraps(OptionsOf(c)) \subseteq Nat
  BY <1>4 DEF Wraps
<1>6. \A t \in Nat, b1, b2 \in BOOLEAN :
        [timeout |-> t, ignoreNavigationErrors |-> b1, networkIdle |-> b2]
          \in [timeout : Nat, ignoreNavigationErrors : BOOLEAN, networkIdle : BOOLEAN]
  OBVIOUS
<1>7. ActionOpts(OptionsOf(c))
        \in [timeout : Nat, ignoreNavigationErrors : BOOLEAN, networkIdle : BOOLEAN]
  BY <1>2, <1>3, <1>6, Zenon DEF ActionOpts
<1> QED BY <1>5, <1>7

\* The timeout in force is a number.
LEMMA OpTimeoutType ==
  ASSUME TypeOK
  PROVE  OpTimeout \in Nat
<1>1. actionOpts.timeout \in Nat
  BY DEF TypeOK
<1>2. options.operationTimeout \in Nat
  BY ProgramAssumption DEF TypeOK
<1> QED BY <1>1, <1>2, ProgramAssumption DEF OpTimeout

-----------------------------------------------------------------------------
(* The network. *)

\* What a step does to the wait and the requests.
NetworkStep == PageEvent \/ QuietPasses \/ StartWait \/ StopWait \/ UNCHANGED networkVars

\* No step does anything else to them.
LEMMA NetworkMoves ==
  ASSUME [Next]_vars
  PROVE  NetworkStep
BY
DEF Next, vars, NetworkStep, TakeMessage, Respond, CallAction, Run, Tick, DoNil,
    DoSucceeds,
       WaitEnds, Return, DoFails

\* The types of the wait and the requests are kept.
LEMMA NetworkTypeStep ==
  ASSUME NetworkTypeOK, NetworkStep
  PROVE  NetworkTypeOK'
<1>1. ASSUME NEW r \in Requests, RequestWillBeSent(r) PROVE NetworkTypeOK'
  <2>1. begun' \in SUBSET Requests /\ active' \in SUBSET begun' /\ before' \in SUBSET begun'
    BY <1>1 DEF RequestWillBeSent, NetworkTypeOK
  <2>2. inflight' \in Nat
    BY <1>1 DEF RequestWillBeSent, NetworkTypeOK
  <2>3. waiting' \in BOOLEAN /\ quiet' \in BOOLEAN
    BY <1>1 DEF RequestWillBeSent, NetworkTypeOK
  <2> QED BY <2>1, <2>2, <2>3 DEF NetworkTypeOK
<1>2. ASSUME NEW r \in Requests, Redirect(r) PROVE NetworkTypeOK'
  <2>1. begun' \in SUBSET Requests /\ active' \in SUBSET begun' /\ before' \in SUBSET begun'
    BY <1>2 DEF Redirect, NetworkTypeOK
  <2>2. inflight' \in Nat
    BY <1>2 DEF Redirect, NetworkTypeOK
  <2>3. waiting' \in BOOLEAN /\ quiet' \in BOOLEAN
    BY <1>2 DEF Redirect, NetworkTypeOK
  <2> QED BY <2>1, <2>2, <2>3 DEF NetworkTypeOK
<1>3. ASSUME NEW r \in Requests, LoadingEnds(r) PROVE NetworkTypeOK'
  <2>1. begun' \in SUBSET Requests /\ active' \in SUBSET begun' /\ before' \in SUBSET begun'
    BY <1>3 DEF LoadingEnds, NetworkTypeOK
  <2>2. inflight' \in Nat
    BY <1>3 DEF LoadingEnds, NetworkTypeOK
  <2>3. waiting' \in BOOLEAN /\ quiet' \in BOOLEAN
    BY <1>3 DEF LoadingEnds, NetworkTypeOK
  <2> QED BY <2>1, <2>2, <2>3 DEF NetworkTypeOK
<1>4. CASE QuietPasses
  BY <1>4 DEF QuietPasses, NetworkTypeOK
<1>5. CASE StartWait
  BY <1>5 DEF StartWait, NetworkTypeOK
<1>6. CASE StopWait
  BY <1>6 DEF StopWait, NetworkTypeOK
<1>7. CASE UNCHANGED networkVars
  BY <1>7 DEF networkVars, NetworkTypeOK
<1> QED BY <1>1, <1>2, <1>3, <1>4, <1>5, <1>6, <1>7 DEF NetworkStep, PageEvent

\* The sets that are counted are finite.
LEMMA CountsAreFinite ==
  ASSUME NetworkTypeOK
  PROVE  /\ IsFiniteSet(active \ before) /\ IsFiniteSet(before \ active)
         /\ Cardinality(active \ before) \in Nat /\ Cardinality(before \ active) \in Nat
<1>1. active \ before \in SUBSET Requests /\ before \ active \in SUBSET Requests
  BY DEF NetworkTypeOK
<1>2. IsFiniteSet(active \ before) /\ IsFiniteSet(before \ active)
  BY <1>1, FS_Subset, NetworkAssumption
<1> QED BY <1>2, FS_CardinalityType

\* Every step keeps the bound on what the count misses.
LEMMA CountStep ==
  ASSUME NetworkTypeOK, CountMissesOnlyByEarlier, NetworkStep
  PROVE  CountMissesOnlyByEarlier'
<1> USE DEF CountMissesOnlyByEarlier
<1>1. ASSUME NEW r \in Requests, RequestWillBeSent(r) PROVE CountMissesOnlyByEarlier'
  <2>1. r \notin before /\ r \notin active
    BY <1>1 DEF RequestWillBeSent, NetworkTypeOK
  <2>2. active' \ before' = (active \ before) \union {r} /\ before' \ active' = before \ active
    BY <1>1, <2>1 DEF RequestWillBeSent
  <2>3. Cardinality(active' \ before') = Cardinality(active \ before) + 1
    BY <2>1, <2>2, CountsAreFinite, FS_AddElement
  <2>4. waiting' = waiting /\ (waiting => inflight' = inflight + 1) /\ inflight \in Nat
    BY <1>1 DEF RequestWillBeSent, NetworkTypeOK
  <2> QED BY <2>2, <2>3, <2>4, CountsAreFinite
<1>2. ASSUME NEW r \in Requests, Redirect(r) PROVE CountMissesOnlyByEarlier'
  BY <1>2, CountsAreFinite DEF Redirect, NetworkTypeOK
<1>3. ASSUME NEW r \in Requests, LoadingEnds(r) PROVE CountMissesOnlyByEarlier'
  <2>1. /\ waiting' = waiting /\ before' = before /\ active' = active \ {r} /\ r \in active
        /\ inflight' \in Nat /\ inflight \in Nat /\ inflight <= inflight' + 1
        /\ inflight' = inflight \/ inflight' = inflight - 1
    BY <1>3 DEF LoadingEnds, NetworkTypeOK
  <2>2. CASE r \in before
    <3>1. active' \ before' = active \ before /\ before' \ active' = (before \ active) \union {r}
      BY <2>1, <2>2
    <3>2. Cardinality(before' \ active') = Cardinality(before \ active) + 1
      BY <2>1, <3>1, CountsAreFinite, FS_AddElement
    <3> QED BY <2>1, <3>1, <3>2, CountsAreFinite
  <2>3. CASE r \notin before
    <3>1. active' \ before' = (active \ before) \ {r} /\ before' \ active' = before \ active
      BY <2>1, <2>3
    <3>2. Cardinality(active' \ before') = Cardinality(active \ before) - 1
      BY <2>1, <2>3, <3>1, CountsAreFinite, FS_RemoveElement
    <3>3. Cardinality(active \ before) \in Nat /\ Cardinality(before \ active) \in Nat
      BY CountsAreFinite
    <3>4. ASSUME waiting
          PROVE  Cardinality(active \ before) - 1 <= inflight' + Cardinality(before \ active)
      <4>1. Cardinality(active \ before) <= inflight + Cardinality(before \ active)
        BY <3>4
      <4>2. inflight <= inflight' + 1 /\ inflight \in Nat /\ inflight' \in Nat
        BY <2>1
      <4>3. \A c, d, i, j \in Nat : c <= i + d /\ i <= j + 1 => c - 1 <= j + d
        OBVIOUS
      <4> QED BY <3>3, <4>1, <4>2, <4>3
    <3>5. Cardinality(before' \ active') = Cardinality(before \ active)
      BY <3>1
    <3>6. waiting' => Cardinality(active' \ before') <= inflight' + Cardinality(before' \ active')
      BY <2>1, <3>2, <3>4, <3>5
    <3> QED BY <3>6
  <2> QED BY <2>2, <2>3
<1>4. CASE QuietPasses
  BY <1>4 DEF QuietPasses
<1>5. CASE StartWait
  <2>1. active' \ before' = {} /\ before' \ active' = {} /\ inflight' = 0
    BY <1>5 DEF StartWait
  <2> QED BY <2>1, FS_EmptySet
<1>6. CASE StopWait
  BY <1>6 DEF StopWait
<1>7. CASE UNCHANGED networkVars
  BY <1>7 DEF networkVars
<1> QED BY <1>1, <1>2, <1>3, <1>4, <1>5, <1>6, <1>7 DEF NetworkStep, PageEvent

-----------------------------------------------------------------------------
(* The programs. *)

Response == [error : BOOLEAN, html : Nat, article : Nat, wrong : BOOLEAN,
             kept : SUBSET {"html", "article"}]

\* The types hold in the beginning, and the rest of the invariant with them.
LEMMA InitInv ==
  Init => IInv
<1> SUFFICES ASSUME Init PROVE IInv
  OBVIOUS
<1>1. NetworkTypeOK /\ CountMissesOnlyByEarlier
  BY DEF Init, NetworkInit, NetworkTypeOK, CountMissesOnlyByEarlier
<1>2. actionOpts \in [timeout : Nat, ignoreNavigationErrors : BOOLEAN, networkIdle : BOOLEAN]
  BY DEF Init, NoOptions
<1>3. TypeOK
  <2>1. /\ cdp \in {"nil", "error", "action"} /\ own \in BOOLEAN
        /\ outError \in BOOLEAN /\ panicked \in BOOLEAN
    BY DEF Init
  <2>2. /\ message \in Nat /\ calls \in Nat /\ clock \in Nat /\ html \in Nat /\ article \in Nat
        /\ wraps \in SUBSET Nat /\ kept \in SUBSET {"html", "article"}
    BY DEF Init
  <2>3. responses \in Seq(Response)
    BY DEF Init
  <2>4. stage = "idle" /\ options \in MessageOptions /\ call \in Calls
    BY DEF Init
  <2> QED BY <1>1, <1>2, <2>1, <2>2, <2>3, <2>4 DEF TypeOK, Response
<1>4. TimeInv /\ StaleOptionsAreHarmless
  BY DEF Init, TimeInv, OwnAction, WithinTime, StaleOptionsAreHarmless
<1>5. ResponseInv
  <2>1. DOMAIN responses = {} /\ Len(responses) = 0 /\ message = 0 /\ stage = "idle"
    BY DEF Init
  <2>2. Numbered /\ ErrorIsOwn /\ OwnOutputsWin
    BY <2>1 DEF Numbered, ErrorIsOwn, OwnOutputsWin
  <2>3. ErrorSoFar /\ OutputsSoFar
    BY DEF Init, ErrorSoFar, OutputsSoFar
  <2> QED BY <2>2, <2>3 DEF ResponseInv
<1> QED BY <1>1, <1>3, <1>4, <1>5 DEF IInv, Inv

\* What a response is.
LEMMA ResponseType ==
  ASSUME NEW e \in BOOLEAN, NEW w \in BOOLEAN, NEW h \in Nat, NEW a \in Nat, NEW x \in BOOLEAN,
         NEW k \in SUBSET {"html", "article"}
  PROVE  [error |-> e \/ x, html |-> h, article |-> a, wrong |-> w \/ x, kept |-> k] \in Response
BY Zenon DEF Response

\* Every step keeps the types.
LEMMA TypeStep ==
  ASSUME TypeOK, NetworkTypeOK', [Next]_vars
  PROVE  TypeOK'
<1>1. ASSUME NEW o \in MessageOptions, TakeMessage(o) PROVE TypeOK'
  <2>1. outError' \in BOOLEAN /\ panicked' \in BOOLEAN
    BY <1>1 DEF TakeMessage
  <2>2. message' \in Nat /\ calls' \in Nat /\ kept' \in SUBSET {"html", "article"}
    BY <1>1 DEF TakeMessage, TypeOK
  <2> QED BY <1>1, <2>1, <2>2 DEF TakeMessage, TypeOK
<1>2. ASSUME NEW x \in BOOLEAN, Respond(x) PROVE TypeOK'
  <2>1. [error |-> outError \/ x, html |-> html, article |-> article,
         wrong |-> panicked \/ x, kept |-> kept] \in Response
    <3>1. outError \in BOOLEAN /\ panicked \in BOOLEAN
      BY DEF TypeOK
    <3>2. html \in Nat /\ article \in Nat /\ kept \in SUBSET {"html", "article"}
      BY DEF TypeOK
    <3> QED BY <3>1, <3>2, ResponseType, Zenon
  <2>2. responses' \in Seq(Response)
    BY <1>2, <2>1 DEF Respond, TypeOK, Response
  <2> QED BY <1>2, <2>2 DEF Respond, callVars, outVars, TypeOK, Response
<1>3. ASSUME NEW c \in Calls, CallAction(c) PROVE TypeOK'
  <2>1. own' \in BOOLEAN
    BY <1>3 DEF CallAction
  <2>2. calls' \in Nat /\ clock' \in Nat
    BY <1>3 DEF CallAction, TypeOK
  <2> QED BY <1>3, <2>1, <2>2 DEF CallAction, outVars, TypeOK
<1>4. CASE Run
  <2>1. actionOpts' \in [timeout : Nat, ignoreNavigationErrors : BOOLEAN, networkIdle : BOOLEAN]
    BY <1>4, ActionType DEF Run, WithoutOptions, WithActionOptions, TypeOK
  <2>2. wraps' \in SUBSET Nat
    BY <1>4, ActionType DEF Run, WithoutOptions, WithActionOptions, TypeOK
  <2>3. cdp' \in {"nil", "error", "action"} /\ own' \in BOOLEAN
    BY <1>4 DEF Run, WithoutOptions, WithActionOptions, TypeOK
  <2> QED BY <1>4, <2>1, <2>2, <2>3 DEF Run, outVars, TypeOK
<1>5. CASE Tick
  BY <1>5 DEF Tick, TimeLeft, outVars, TypeOK
<1>6. CASE DoNil
  BY <1>6 DEF DoNil, Panics, callVars, TypeOK
<1>7. CASE DoSucceeds
  <2>1. kept' \in SUBSET {"html", "article"}
    BY <1>7 DEF DoSucceeds, Done, Kept, TypeOK
  <2>2. html' \in Nat /\ article' \in Nat /\ stage' \in {"wait", "return"}
    BY <1>7 DEF DoSucceeds, Done, TypeOK
  <2> QED BY <1>7, <2>1, <2>2 DEF DoSucceeds, Done, callVars, TypeOK
<1>8. CASE WaitEnds
  BY <1>8 DEF WaitEnds, Leaves, callVars, outVars, TypeOK
<1>9. CASE Return
  BY <1>9 DEF Return, Leaves, Panics, callVars, outVars, TypeOK
<1>10. ASSUME NEW e \in {"page", "aborted", "deadline"}, DoFails(e) PROVE TypeOK'
  BY <1>10 DEF DoFails, Leaves, Panics, callVars, outVars, TypeOK
<1>11. CASE UNCHANGED programVars
  BY <1>11 DEF programVars, callVars, outVars, TypeOK
<1> QED BY <1>1, <1>2, <1>3, <1>4, <1>5, <1>6, <1>7, <1>8, <1>9, <1>10, <1>11 DEF Next, vars

\* A call without an action of its own is never made to wait.
LEMMA StaleStep ==
  ASSUME TypeOK, OwnAction, StaleOptionsAreHarmless, [Next]_vars
  PROVE  StaleOptionsAreHarmless'
<1>1. ASSUME NEW o \in MessageOptions, TakeMessage(o) PROVE StaleOptionsAreHarmless'
  BY <1>1 DEF TakeMessage, StaleOptionsAreHarmless
<1>2. ASSUME NEW x \in BOOLEAN, Respond(x) PROVE StaleOptionsAreHarmless'
  BY <1>2 DEF Respond, callVars, outVars, StaleOptionsAreHarmless
<1>3. ASSUME NEW c \in Calls, CallAction(c) PROVE StaleOptionsAreHarmless'
  BY <1>3 DEF CallAction, outVars, StaleOptionsAreHarmless
<1>4. CASE Run
  BY <1>4 DEF Run, WithoutOptions, WithActionOptions, outVars, StaleOptionsAreHarmless
<1>5. CASE Tick
  BY <1>5 DEF Tick, TimeLeft, outVars, StaleOptionsAreHarmless
<1>6. CASE DoNil
  BY <1>6 DEF DoNil, Panics, callVars, StaleOptionsAreHarmless
<1>7. CASE DoSucceeds
  <2>1. own /\ own' = own
    BY <1>7 DEF DoSucceeds, callVars, OwnAction
  <2> QED BY <2>1 DEF StaleOptionsAreHarmless
<1>8. CASE WaitEnds
  BY <1>8 DEF WaitEnds, Leaves, callVars, outVars, StaleOptionsAreHarmless
<1>9. CASE Return
  BY <1>9 DEF Return, Leaves, Panics, callVars, outVars, StaleOptionsAreHarmless
<1>10. ASSUME NEW e \in {"page", "aborted", "deadline"}, DoFails(e) PROVE StaleOptionsAreHarmless'
  <2>1. own' = own /\ options' = options /\ stage' # "wait"
    BY <1>10 DEF DoFails, Leaves, Panics, callVars
  <2>2. ASSUME ~own, stage' = "return" PROVE ~options.errOnTimeout
    <3>1. cdp = "error"
      BY <1>10, <2>2 DEF DoFails, OwnAction, TypeOK
    <3>2. e # "aborted"
      BY <1>10, <3>1 DEF DoFails, Errors
    <3>3. Ignored(e)
      BY <1>10, <2>2 DEF DoFails, Leaves, Panics
    <3> QED BY <3>2, <3>3 DEF Ignored
  <2> QED BY <2>1, <2>2 DEF StaleOptionsAreHarmless
<1>11. CASE UNCHANGED programVars
  BY <1>11 DEF programVars, callVars, outVars, StaleOptionsAreHarmless
<1> QED BY <1>1, <1>2, <1>3, <1>4, <1>5, <1>6, <1>7, <1>8, <1>9, <1>10, <1>11 DEF Next, vars

\* An action is within the timeouts that DoTimeout is the shortest of.
LEMMA DoTimeoutBounds ==
  ASSUME TypeOK
  PROVE  /\ DoTimeout \in Nat
         /\ \A t \in wraps \union {OpTimeout} : DoTimeout <= t
<1>1. wraps \union {OpTimeout} \subseteq Nat /\ wraps \union {OpTimeout} # {}
  BY OpTimeoutType DEF TypeOK
<1> HIDE DEF OpTimeout
<1>2. /\ Min(wraps \union {OpTimeout}) \in wraps \union {OpTimeout}
      /\ \A t \in wraps \union {OpTimeout} : Min(wraps \union {OpTimeout}) <= t
  BY <1>1, MinIsLeast
<1> QED BY <1>1, <1>2 DEF DoTimeout

\* No step leaves an action beyond a timeout it looks at.
LEMMA TimeStep ==
  ASSUME TypeOK, TypeOK', TimeInv, [Next]_vars
  PROVE  TimeInv'
<1>1. ASSUME NEW o \in MessageOptions, TakeMessage(o) PROVE TimeInv'
  <2>1. stage' \notin {"do", "wait", "return"}
    BY <1>1 DEF TakeMessage
  <2> QED BY <2>1 DEF TimeInv, OwnAction, WithinTime
<1>2. ASSUME NEW x \in BOOLEAN, Respond(x) PROVE TimeInv'
  <2>1. stage' \notin {"do", "wait", "return"}
    BY <1>2 DEF Respond, callVars, outVars
  <2> QED BY <2>1 DEF TimeInv, OwnAction, WithinTime
<1>3. ASSUME NEW c \in Calls, CallAction(c) PROVE TimeInv'
  <2>1. stage' \notin {"do", "wait", "return"}
    BY <1>3 DEF CallAction, outVars
  <2> QED BY <2>1 DEF TimeInv, OwnAction, WithinTime
<1>4. CASE Run
  <2>1. stage' = "do" /\ clock' = 0 /\ call' = call
    BY <1>4 DEF Run
  <2>2. wraps' \subseteq Nat /\ OpTimeout' \in Nat
    <3>1. OpTimeout' \in Nat
      <4>1. actionOpts'.timeout \in Nat
        BY DEF TypeOK
      <4>2. options'.operationTimeout \in Nat
        BY ProgramAssumption DEF TypeOK
      <4> QED BY <4>1, <4>2, ProgramAssumption DEF OpTimeout
    <3> QED BY <3>1 DEF TypeOK
  <2>3. OwnAction'
    BY <1>4, <2>1 DEF Run, WithoutOptions, WithActionOptions, OwnAction
  <2>4. \A t \in wraps' \union {OpTimeout'} : 0 <= t
    BY <2>2
  <2>5. WithinTime'
    BY <2>1, <2>4 DEF WithinTime
  <2> QED BY <2>3, <2>5 DEF TimeInv
<1>5. CASE Tick
  <2>1. /\ UNCHANGED <<stage, cdp, own, wraps, call, OpTimeout>>
        /\ clock' = clock + 1 /\ TimeLeft /\ clock \in Nat
    BY <1>5 DEF Tick, OpTimeout, TypeOK
  <2>2. OpTimeout \in Nat /\ DoTimeout \in Nat /\ \A t \in wraps \union {OpTimeout} : DoTimeout <= t
    BY OpTimeoutType, DoTimeoutBounds
  <2>3. OwnAction'
    BY <2>1 DEF TimeInv, OwnAction
  <2>4. ASSUME stage = "do"
        PROVE  cdp = "action" /\ (Honours => \A t \in wraps \union {OpTimeout} : clock + 1 <= t)
    <3>1. cdp = "action" /\ (Honours => clock < DoTimeout)
      BY <2>1, <2>4 DEF TimeLeft
    <3>2. ASSUME Honours, NEW t \in wraps \union {OpTimeout} PROVE clock + 1 <= t
      <4>1. t \in Nat /\ DoTimeout <= t
        BY <2>2 DEF TypeOK
      <4> QED BY <2>1, <2>2, <3>1, <3>2, <4>1
    <3> QED BY <3>1, <3>2
  <2>5. Honours' = Honours
    BY <2>1 DEF Honours
  <2>6. WithinTime'
    BY <2>1, <2>4, <2>5 DEF WithinTime
  <2> QED BY <2>3, <2>6 DEF TimeInv
<1>6. CASE DoNil
  <2>1. stage' \notin {"do", "wait", "return"}
    BY <1>6 DEF DoNil, Panics, callVars
  <2> QED BY <2>1 DEF TimeInv, OwnAction, WithinTime
<1>7. CASE DoSucceeds
  <2>1. stage' # "do"
    BY <1>7 DEF DoSucceeds, Done
  <2> QED BY <2>1 DEF TimeInv, OwnAction, WithinTime
<1>8. CASE WaitEnds
  <2>1. stage' # "do"
    BY <1>8 DEF WaitEnds, Leaves
  <2> QED BY <2>1 DEF TimeInv, OwnAction, WithinTime
<1>9. CASE Return
  <2>1. stage' # "do"
    BY <1>9 DEF Return, Leaves, Panics
  <2> QED BY <2>1 DEF TimeInv, OwnAction, WithinTime
<1>10. ASSUME NEW e \in {"page", "aborted", "deadline"}, DoFails(e) PROVE TimeInv'
  <2>1. stage' # "do"
    BY <1>10 DEF DoFails, Leaves, Panics
  <2> QED BY <2>1 DEF TimeInv, OwnAction, WithinTime
<1>11. CASE UNCHANGED programVars
  <2>1. UNCHANGED <<stage, cdp, own, wraps, call, clock, OpTimeout, Honours>>
    BY <1>11 DEF programVars, callVars, OpTimeout, Honours
  <2> QED BY <2>1 DEF TimeInv, OwnAction, WithinTime
<1> QED BY <1>1, <1>2, <1>3, <1>4, <1>5, <1>6, <1>7, <1>8, <1>9, <1>10, <1>11 DEF Next, vars

\* A response is made of what its own program left.
LEMMA ResponseStep ==
  ASSUME TypeOK, ResponseInv, [Next]_vars
  PROVE  ResponseInv'
<1>1. ASSUME NEW o \in MessageOptions, TakeMessage(o) PROVE ResponseInv'
  <2>1. /\ stage = "idle" /\ stage' = "program" /\ message' = message + 1 /\ responses' = responses
        /\ outError' = FALSE /\ panicked' = FALSE /\ kept' = {} /\ message \in Nat
    BY <1>1 DEF TakeMessage, TypeOK
  <2>2. Numbered'
    BY <2>1 DEF ResponseInv, Numbered
  <2>3. ErrorSoFar' /\ OutputsSoFar'
    BY <2>1 DEF ErrorSoFar, OutputsSoFar
  <2>4. ErrorIsOwn' /\ OwnOutputsWin'
    BY <2>1 DEF ResponseInv, ErrorIsOwn, OwnOutputsWin
  <2> QED BY <2>2, <2>3, <2>4 DEF ResponseInv
<1>2. ASSUME NEW x \in BOOLEAN, Respond(x) PROVE ResponseInv'
  <2> DEFINE new == [error |-> outError \/ x, html |-> html, article |-> article,
                     wrong |-> panicked \/ x, kept |-> kept]
  <2>1. /\ stage = "program" /\ stage' = "idle" /\ responses' = Append(responses, new)
        /\ UNCHANGED <<message, outError, panicked, kept, html, article>>
    BY <1>2 DEF Respond, outVars
  <2>2. new.error = new.wrong
    BY DEF ResponseInv, ErrorSoFar
  <2>3. /\ "html" \in new.kept => new.html = message
        /\ "article" \in new.kept => new.article = message
    BY DEF ResponseInv, OutputsSoFar
  <2> HIDE DEF new
  <2>4. responses \in Seq(Response) /\ Len(responses) = message - 1 /\ message \in Nat
    BY <2>1 DEF ResponseInv, Numbered, TypeOK, Response
  <2>5. Len(responses') = message /\ DOMAIN responses' = 1 .. message
    BY <2>1, <2>4
  <2>6. responses'[message] = new
    BY <2>1, <2>4
  <2>7. \A i \in DOMAIN responses' : i # message => i \in DOMAIN responses /\ responses'[i] = responses[i]
    BY <2>1, <2>4, <2>5
  <2>8. Numbered' /\ ErrorSoFar' /\ OutputsSoFar'
    BY <2>1, <2>5 DEF ResponseInv, Numbered, ErrorSoFar, OutputsSoFar
  <2>9. ErrorIsOwn'
    <3> SUFFICES ASSUME NEW i \in DOMAIN responses' PROVE responses'[i].error = responses'[i].wrong
      BY DEF ErrorIsOwn
    <3>1. CASE i = message
      BY <2>2, <2>6, <3>1
    <3>2. CASE i # message
      BY <2>7, <3>2 DEF ResponseInv, ErrorIsOwn
    <3> QED BY <3>1, <3>2
  <2>10. OwnOutputsWin'
    <3> SUFFICES ASSUME NEW i \in DOMAIN responses'
                 PROVE  /\ "html" \in responses'[i].kept => responses'[i].html = i
                        /\ "article" \in responses'[i].kept => responses'[i].article = i
      BY DEF OwnOutputsWin
    <3>1. CASE i = message
      BY <2>3, <2>6, <3>1
    <3>2. CASE i # message
      BY <2>7, <3>2 DEF ResponseInv, OwnOutputsWin
    <3> QED BY <3>1, <3>2
  <2> QED BY <2>8, <2>9, <2>10 DEF ResponseInv
<1>3. ASSUME NEW c \in Calls, CallAction(c) PROVE ResponseInv'
  <2>1. stage' = stage \/ (stage # "idle" /\ stage' # "idle")
    BY <1>3 DEF CallAction, outVars
  <2>2. UNCHANGED <<message, responses, kept, html, article>>
    BY <1>3 DEF CallAction, outVars
  <2>3. UNCHANGED <<outError, panicked>>
    BY <1>3 DEF CallAction, outVars
  <2> QED BY <2>1, <2>2, <2>3
    DEF ResponseInv, Numbered, ErrorSoFar, ErrorIsOwn, OutputsSoFar, OwnOutputsWin
<1>4. CASE Run
  <2>1. stage' = stage \/ (stage # "idle" /\ stage' # "idle")
    BY <1>4 DEF Run, WithoutOptions, WithActionOptions, outVars
  <2>2. UNCHANGED <<message, responses, kept, html, article>>
    BY <1>4 DEF Run, WithoutOptions, WithActionOptions, outVars
  <2>3. UNCHANGED <<outError, panicked>>
    BY <1>4 DEF Run, WithoutOptions, WithActionOptions, outVars
  <2> QED BY <2>1, <2>2, <2>3
    DEF ResponseInv, Numbered, ErrorSoFar, ErrorIsOwn, OutputsSoFar, OwnOutputsWin
<1>5. CASE Tick
  <2>1. stage' = stage \/ (stage # "idle" /\ stage' # "idle")
    BY <1>5 DEF Tick, TimeLeft, outVars
  <2>2. UNCHANGED <<message, responses, kept, html, article>>
    BY <1>5 DEF Tick, TimeLeft, outVars
  <2>3. UNCHANGED <<outError, panicked>>
    BY <1>5 DEF Tick, TimeLeft, outVars
  <2> QED BY <2>1, <2>2, <2>3
    DEF ResponseInv, Numbered, ErrorSoFar, ErrorIsOwn, OutputsSoFar, OwnOutputsWin
<1>6. CASE DoNil
  <2>1. stage' = stage \/ (stage # "idle" /\ stage' # "idle")
    BY <1>6 DEF DoNil, Panics, callVars
  <2>2. UNCHANGED <<message, responses, kept, html, article>>
    BY <1>6 DEF DoNil, Panics, callVars
  <2>3. UNCHANGED <<outError, panicked>> \/ (outError' = TRUE /\ panicked' = TRUE)
    BY <1>6 DEF DoNil, Panics, callVars
  <2> QED BY <2>1, <2>2, <2>3
    DEF ResponseInv, Numbered, ErrorSoFar, ErrorIsOwn, OutputsSoFar, OwnOutputsWin
<1>7. CASE DoSucceeds
  <2>1. /\ stage = "do" /\ stage' \in {"wait", "return"}
        /\ UNCHANGED <<message, responses, outError, panicked>>
    BY <1>7 DEF DoSucceeds, Done
  <2>2. OutputsSoFar'
    BY <1>7 DEF DoSucceeds, Done, ResponseInv, OutputsSoFar
  <2> QED BY <2>1, <2>2 DEF ResponseInv, Numbered, ErrorSoFar, ErrorIsOwn, OwnOutputsWin
<1>8. CASE WaitEnds
  <2>1. stage' = stage \/ (stage # "idle" /\ stage' # "idle")
    BY <1>8 DEF WaitEnds, Leaves, callVars, outVars
  <2>2. UNCHANGED <<message, responses, kept, html, article>>
    BY <1>8 DEF WaitEnds, Leaves, callVars, outVars
  <2>3. UNCHANGED <<outError, panicked>>
    BY <1>8 DEF WaitEnds, Leaves, callVars, outVars
  <2> QED BY <2>1, <2>2, <2>3
    DEF ResponseInv, Numbered, ErrorSoFar, ErrorIsOwn, OutputsSoFar, OwnOutputsWin
<1>9. CASE Return
  <2>1. stage' = stage \/ (stage # "idle" /\ stage' # "idle")
    BY <1>9 DEF Return, Leaves, Panics, callVars, outVars
  <2>2. UNCHANGED <<message, responses, kept, html, article>>
    BY <1>9 DEF Return, Leaves, Panics, callVars, outVars
  <2>3. UNCHANGED <<outError, panicked>> \/ (outError' = TRUE /\ panicked' = TRUE)
    BY <1>9 DEF Return, Leaves, Panics, callVars, outVars
  <2> QED BY <2>1, <2>2, <2>3
    DEF ResponseInv, Numbered, ErrorSoFar, ErrorIsOwn, OutputsSoFar, OwnOutputsWin
<1>10. ASSUME NEW e \in {"page", "aborted", "deadline"}, DoFails(e) PROVE ResponseInv'
  <2>1. stage' = stage \/ (stage # "idle" /\ stage' # "idle")
    BY <1>10 DEF DoFails, Leaves, Panics, callVars, outVars
  <2>2. UNCHANGED <<message, responses, kept, html, article>>
    BY <1>10 DEF DoFails, Leaves, Panics, callVars, outVars
  <2>3. UNCHANGED <<outError, panicked>> \/ (outError' = TRUE /\ panicked' = TRUE)
    BY <1>10 DEF DoFails, Leaves, Panics, callVars, outVars
  <2> QED BY <2>1, <2>2, <2>3
    DEF ResponseInv, Numbered, ErrorSoFar, ErrorIsOwn, OutputsSoFar, OwnOutputsWin
<1>11. CASE UNCHANGED programVars
  <2>1. stage' = stage \/ (stage # "idle" /\ stage' # "idle")
    BY <1>11 DEF programVars, callVars, outVars
  <2>2. UNCHANGED <<message, responses, kept, html, article>>
    BY <1>11 DEF programVars, callVars, outVars
  <2>3. UNCHANGED <<outError, panicked>>
    BY <1>11 DEF programVars, callVars, outVars
  <2> QED BY <2>1, <2>2, <2>3
    DEF ResponseInv, Numbered, ErrorSoFar, ErrorIsOwn, OutputsSoFar, OwnOutputsWin
<1> QED BY <1>1, <1>2, <1>3, <1>4, <1>5, <1>6, <1>7, <1>8, <1>9, <1>10, <1>11 DEF Next, vars

-----------------------------------------------------------------------------
\* The inductive invariant holds in every reachable state.
THEOREM ProgramInvariant == Spec => []IInv
<1>1. IInv /\ [Next]_vars => IInv'
  <2> SUFFICES ASSUME TypeOK, Inv, [Next]_vars PROVE TypeOK' /\ Inv'
    BY DEF IInv
  <2>1. NetworkTypeOK
    BY DEF TypeOK
  <2>2. NetworkTypeOK' /\ CountMissesOnlyByEarlier'
    BY <2>1, NetworkMoves, NetworkTypeStep, CountStep DEF Inv
  <2>3. TypeOK'
    BY <2>2, TypeStep
  <2>4. TimeInv' /\ ResponseInv' /\ StaleOptionsAreHarmless'
    BY <2>3, TimeStep, ResponseStep, StaleStep DEF Inv, TimeInv
  <2> QED BY <2>2, <2>3, <2>4 DEF Inv
<1> QED BY <1>1, InitInv, PTL DEF Spec

\* Type correctness of a session's programs and of the wait for idleness.
THEOREM ProgramTypeCorrect == Spec => []TypeOK
BY ProgramInvariant, PTL DEF IInv

\* A timeout given with a call ends its action, though withActionOptions may have
\* lost it (browser.go:1209-1218): withTimeoutOption has wrapped the action.
THEOREM GivenTimeoutHolds == Spec => []ExplicitTimeoutHolds
<1>1. IInv => ExplicitTimeoutHolds
  <2> SUFFICES ASSUME TypeOK, OwnAction, WithinTime, stage = "do", cdp = "action", Honours,
                      NEW i \in DOMAIN call.opts,
                      call.opts[i].kind = "timeout", call.opts[i].value > 0
               PROVE  clock <= call.opts[i].value
    BY DEF IInv, Inv, TimeInv, ExplicitTimeoutHolds
  <2>1. call \in Calls
    BY DEF TypeOK
  <2>2. PICK j \in DOMAIN OptionsOf(call) : OptionsOf(call)[j] = call.opts[i]
    BY <2>1, OptionsType
  <2>3. call.opts[i].value # 0
    <3>1. call.opts \in Seq(Option)
      BY <2>1, ProgramAssumption
    <3>2. call.opts[i].value \in Nat
      BY <3>1, OptionValue
    <3> QED BY <3>2
  <2>4. call.opts[i].value \in Wraps(OptionsOf(call))
    BY <2>2, <2>3 DEF Wraps
  <2> QED BY <2>4 DEF OwnAction, WithinTime
<1> QED BY <1>1, ProgramInvariant, PTL

\* A response carries an error if and only if its own program went wrong
\* (browser.go:246-262, 1031-1060).
THEOREM ErrorsAreOwn == Spec => []ErrorIsOwn
<1>1. IInv => ErrorIsOwn
  BY DEF IInv, Inv, ResponseInv
<1> QED BY <1>1, ProgramInvariant, PTL

\* What a program kept is what its response carries (browser.go:249-262).
THEOREM OutputsAreOwn == Spec => []OwnOutputsWin
<1>1. IInv => OwnOutputsWin
  BY DEF IInv, Inv, ResponseInv
<1> QED BY <1>1, ProgramInvariant, PTL

\* The options a call finds of the one before it do no harm (browser.go:1018).
THEOREM StaleOptionsDoNoHarm == Spec => []StaleOptionsAreHarmless
<1>1. IInv => StaleOptionsAreHarmless
  BY DEF IInv, Inv
<1> QED BY <1>1, ProgramInvariant, PTL

\* waitForNetworkIdle misses a request only where an older one ended under its
\* eyes (browser.go:869-930), whatever the requests and their order.
THEOREM CountMissesOnlyEarlier == Spec => []CountMissesOnlyByEarlier
<1>1. IInv => CountMissesOnlyByEarlier
  BY DEF IInv, Inv
<1> QED BY <1>1, ProgramInvariant, PTL
=============================================================================
