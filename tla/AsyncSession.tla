---------------------------- MODULE AsyncSession ----------------------------
(***************************************************************************)
(* The asynchronous browser session of internal/service/browser.go over    *)
(* the MongoDB message bus of internal/messagebus/mongodb.go.              *)
(*                                                                         *)
(* All state is that of ONE session id: the bus filters both collections   *)
(* by session id, so sessions do not meet here.  A call is one execution   *)
(* of DoAsyncAndWait (a message or a stop), a worker one execution of      *)
(* RunAsync.  Each is two goroutines: the one the HTTP handler runs on and *)
(* the one that sits in OnMessage, joined by an unbuffered channel.        *)
(*                                                                         *)
(* A definition whose comment begins with "Fault:" is a wrong version of   *)
(* the one after it; no behaviour uses it.                                 *)
(***************************************************************************)
EXTENDS Naturals, Sequences

CONSTANTS Calls,      \* executions of DoAsyncAndWait
          Stops,      \* the calls whose message carries StopSession
          Workers,    \* executions of RunAsync for the session
          Hold,       \* the workers started with hold: their context is the client's request
          RequestID   \* RequestID[c]: the client's request id, or the generated one

ASSUME AsyncAssumption ==
  /\ Stops \subseteq Calls
  /\ Hold \subseteq Workers
  /\ DOMAIN RequestID = Calls

VARIABLES
  inMessages,   \* the in collection: the calls, in insertion order
  outMessages,  \* the out collection: [call, by] responses, in insertion order
  caller,       \* caller[c]: the goroutine that called DoAsyncAndWait
  callDone,     \* callDone[c]: the context with the call's timeout is done
  outSub,       \* outSub[c]: the goroutine in outMessages.OnMessage
  outPos,       \* outPos[c]: the next position its change stream yields
  answer,       \* answer[c]: the position of the response the call returned, or 0
  worker,       \* worker[w]: the goroutine that called RunAsync
  outerDone,    \* outerDone[w]: the context RunAsync was given is done
  actionDone,   \* actionDone[w]: the context of the browser action is done
  inSub,        \* inSub[w]: the goroutine in inMessages.OnMessage
  inPos,        \* inPos[w]: the next position its change stream yields
  inFrom,       \* inFrom[w]: the first position it can yield, or 0 (history)
  current,      \* current[w]: the position of the message being run, or 0
  ran           \* ran[w]: the positions the worker took from its stream (history)

callerVars == <<caller, callDone, outSub, outPos, answer>>
workerVars == <<worker, outerDone, actionDone, inSub, inPos, inFrom, current, ran>>
vars == <<inMessages, outMessages, callerVars, workerVars>>

Init ==
  /\ inMessages = <<>>
  /\ outMessages = <<>>
  /\ caller = [c \in Calls |-> "idle"]
  /\ callDone = [c \in Calls |-> FALSE]
  /\ outSub = [c \in Calls |-> "none"]
  /\ outPos = [c \in Calls |-> 0]
  /\ answer = [c \in Calls |-> 0]
  /\ worker = [w \in Workers |-> "idle"]
  /\ outerDone = [w \in Workers |-> FALSE]
  /\ actionDone = [w \in Workers |-> FALSE]
  /\ inSub = [w \in Workers |-> "none"]
  /\ inPos = [w \in Workers |-> 0]
  /\ inFrom = [w \in Workers |-> 0]
  /\ current = [w \in Workers |-> 0]
  /\ ran = [w \in Workers |-> {}]

-----------------------------------------------------------------------------
(* The caller's side: DoAsyncAndWait and its OnMessage goroutine.          *)

\* The call sets up its context and starts the goroutine that watches the
\* out collection.
DoAsyncAndWait(c) ==
  /\ caller[c] = "idle"
  /\ caller' = [caller EXCEPT ![c] = "waiting"]
  /\ outSub' = [outSub EXCEPT ![c] = "opening"]
  /\ UNCHANGED <<inMessages, outMessages, callDone, outPos, answer, workerVars>>

\* Watch returns a change stream: it yields what is inserted from now on.
OpenOut(c) ==
  /\ outSub[c] = "opening"
  /\ ~callDone[c]
  /\ outPos' = [outPos EXCEPT ![c] = Len(outMessages) + 1]
  /\ outSub' = [outSub EXCEPT ![c] = "sending"]
  /\ UNCHANGED <<inMessages, outMessages, caller, callDone, answer, workerVars>>

\* onSubStarted inserts the call's message.  An error (the context is done,
\* or the database fails) is logged and nothing else: the call goes on waiting.
SendIn(c) ==
  /\ outSub[c] = "sending"
  /\ \/ ~callDone[c] /\ inMessages' = Append(inMessages, c)
     \/ UNCHANGED inMessages
  /\ outSub' = [outSub EXCEPT ![c] = "streaming"]
  /\ UNCHANGED <<outMessages, caller, callDone, outPos, answer, workerVars>>

\* Fault: the callback takes any response of the session for its own.
OutNextAnyId(c) ==
  /\ outSub[c] = "streaming"
  /\ ~callDone[c]
  /\ outPos[c] <= Len(outMessages)
  /\ outPos' = [outPos EXCEPT ![c] = @ + 1]
  /\ outSub' = [outSub EXCEPT ![c] = "offering"]
  /\ UNCHANGED <<inMessages, outMessages, caller, callDone, answer, workerVars>>

\* The stream yields a response and the callback looks at its request id: the
\* call's own is offered on the channel `done`, others are dropped.  Testing
\* the context and reading the stream are one step: a read that overtakes the
\* expiry is the same as one just before it.
OutNext(c) ==
  /\ outSub[c] = "streaming"
  /\ ~callDone[c]
  /\ outPos[c] <= Len(outMessages)
  /\ outPos' = [outPos EXCEPT ![c] = @ + 1]
  /\ outSub' = [outSub EXCEPT ![c] =
       IF RequestID[outMessages[outPos[c]].call] = RequestID[c]
       THEN "offering" ELSE "streaming"]
  /\ UNCHANGED <<inMessages, outMessages, caller, callDone, answer, workerVars>>

\* OnMessage returns: Watch or the stream failed, or the context is done.
CloseOut(c) ==
  /\ outSub[c] \in {"opening", "streaming"}
  /\ outSub' = [outSub EXCEPT ![c] = "closed"]
  /\ UNCHANGED <<inMessages, outMessages, caller, callDone, outPos, answer, workerVars>>

\* The rendezvous on `done`: the caller has its response, the watcher goes on.
Receive(c) ==
  /\ caller[c] = "waiting"
  /\ outSub[c] = "offering"
  /\ caller' = [caller EXCEPT ![c] = "received"]
  /\ answer' = [answer EXCEPT ![c] = outPos[c] - 1]
  /\ outSub' = [outSub EXCEPT ![c] = "streaming"]
  /\ UNCHANGED <<inMessages, outMessages, callDone, outPos, workerVars>>

\* DoAsyncAndWait returns the response; the deferred cancel ends the context.
Return(c) ==
  /\ caller[c] = "received"
  /\ caller' = [caller EXCEPT ![c] = "answered"]
  /\ callDone' = [callDone EXCEPT ![c] = TRUE]
  /\ UNCHANGED <<inMessages, outMessages, outSub, outPos, answer, workerVars>>

\* Fault: the timer is set only when the watch is open.
ExpireOnceWatching(c) ==
  /\ caller[c] \in {"waiting", "received"}
  /\ ~callDone[c]
  /\ outSub[c] # "opening"
  /\ callDone' = [callDone EXCEPT ![c] = TRUE]
  /\ UNCHANGED <<inMessages, outMessages, caller, outSub, outPos, answer, workerVars>>

\* The timeout of the call passes, or its HTTP client goes away.
Expire(c) ==
  /\ caller[c] \in {"waiting", "received"}
  /\ ~callDone[c]
  /\ callDone' = [callDone EXCEPT ![c] = TRUE]
  /\ UNCHANGED <<inMessages, outMessages, caller, outSub, outPos, answer, workerVars>>

\* select takes the branch of the context.
GiveUp(c) ==
  /\ caller[c] = "waiting"
  /\ callDone[c]
  /\ caller' = [caller EXCEPT ![c] = "failed"]
  /\ UNCHANGED <<inMessages, outMessages, callDone, outSub, outPos, answer, workerVars>>

-----------------------------------------------------------------------------
(* The worker's side: RunAsync, its OnMessage goroutine, and its loop.     *)

\* The subscriber starts before the browser does.
RunAsync(w) ==
  /\ worker[w] = "idle"
  /\ worker' = [worker EXCEPT ![w] = "booting"]
  /\ inSub' = [inSub EXCEPT ![w] = "opening"]
  /\ UNCHANGED <<inMessages, outMessages, callerVars,
                 outerDone, actionDone, inPos, inFrom, current, ran>>

\* doRun brings the browser up and enters the loop, or returns an error.
Boot(w) ==
  /\ worker[w] = "booting"
  /\ \/ ~outerDone[w] /\ worker' = [worker EXCEPT ![w] = "loop"]
     \/ worker' = [worker EXCEPT ![w] = "ended"]
  /\ UNCHANGED <<inMessages, outMessages, callerVars,
                 outerDone, actionDone, inSub, inPos, inFrom, current, ran>>

OpenIn(w) ==
  /\ inSub[w] = "opening"
  /\ ~outerDone[w]
  /\ inPos' = [inPos EXCEPT ![w] = Len(inMessages) + 1]
  /\ inFrom' = [inFrom EXCEPT ![w] = Len(inMessages) + 1]
  /\ inSub' = [inSub EXCEPT ![w] = "streaming"]
  /\ UNCHANGED <<inMessages, outMessages, callerVars,
                 worker, outerDone, actionDone, current, ran>>

\* Fault: the stream yields the newest message only.
InNextNewest(w) ==
  /\ inSub[w] = "streaming"
  /\ ~outerDone[w]
  /\ inPos[w] <= Len(inMessages)
  /\ inPos' = [inPos EXCEPT ![w] = Len(inMessages) + 1]
  /\ inSub' = [inSub EXCEPT ![w] = "offering"]
  /\ UNCHANGED <<inMessages, outMessages, callerVars,
                 worker, outerDone, actionDone, inFrom, current, ran>>

\* The stream yields a message and the callback offers it on `inMsg`.
InNext(w) ==
  /\ inSub[w] = "streaming"
  /\ ~outerDone[w]
  /\ inPos[w] <= Len(inMessages)
  /\ inPos' = [inPos EXCEPT ![w] = @ + 1]
  /\ inSub' = [inSub EXCEPT ![w] = "offering"]
  /\ UNCHANGED <<inMessages, outMessages, callerVars,
                 worker, outerDone, actionDone, inFrom, current, ran>>

\* OnMessage returns; the goroutine now offers the end of it on `done`.
CloseIn(w) ==
  /\ inSub[w] \in {"opening", "streaming"}
  /\ inSub' = [inSub EXCEPT ![w] = "finished"]
  /\ UNCHANGED <<inMessages, outMessages, callerVars,
                 worker, outerDone, actionDone, inPos, inFrom, current, ran>>

\* The loop takes the offered message and starts on it.
TakeMessage(w) ==
  /\ worker[w] = "loop"
  /\ inSub[w] = "offering"
  /\ current' = [current EXCEPT ![w] = inPos[w] - 1]
  /\ ran' = [ran EXCEPT ![w] = @ \union {inPos[w] - 1}]
  /\ worker' = [worker EXCEPT ![w] = "running"]
  /\ inSub' = [inSub EXCEPT ![w] = "streaming"]
  /\ UNCHANGED <<inMessages, outMessages, callerVars,
                 outerDone, actionDone, inPos, inFrom>>

\* Fault: the response names the message the subscriber holds by now.
ResponseToNewest(w) == [call |-> inMessages[inPos[w] - 1], by |-> w]

\* The response to the message being run.
ResponseOf(w) == [call |-> inMessages[current[w]], by |-> w]

\* Fault: the response is sent a second time.
RespondTwice(w) ==
  /\ worker[w] = "running"
  /\ inMessages[current[w]] \notin Stops
  /\ outMessages' = outMessages \o <<ResponseOf(w), ResponseOf(w)>>
  /\ worker' = [worker EXCEPT ![w] = "loop"]
  /\ current' = [current EXCEPT ![w] = 0]
  /\ UNCHANGED <<inMessages, callerVars, outerDone, actionDone, inSub, inPos, inFrom, ran>>

\* Fault: the message itself is sent, not a response to it.
RespondWithMessage(w) ==
  /\ worker[w] = "running"
  /\ inMessages[current[w]] \notin Stops
  /\ outMessages' = Append(outMessages, inMessages[current[w]])
  /\ worker' = [worker EXCEPT ![w] = "loop"]
  /\ current' = [current EXCEPT ![w] = 0]
  /\ UNCHANGED <<inMessages, callerVars, outerDone, actionDone, inSub, inPos, inFrom, ran>>

\* The program ends and its response is sent, under the action's context; a
\* failure to send is logged and the loop goes on.
Respond(w) ==
  /\ worker[w] = "running"
  /\ inMessages[current[w]] \notin Stops
  /\ \/ /\ ~outerDone[w]
        /\ ~actionDone[w]
        /\ outMessages' = Append(outMessages, ResponseOf(w))
     \/ UNCHANGED outMessages
  /\ worker' = [worker EXCEPT ![w] = "loop"]
  /\ current' = [current EXCEPT ![w] = 0]
  /\ UNCHANGED <<inMessages, callerVars, outerDone, actionDone, inSub, inPos, inFrom, ran>>

\* Fault: the stop is answered and the loop goes on.
RespondStopInLoop(w) ==
  /\ worker[w] = "running"
  /\ inMessages[current[w]] \in Stops
  /\ outMessages' = Append(outMessages, ResponseOf(w))
  /\ worker' = [worker EXCEPT ![w] = "loop"]
  /\ current' = [current EXCEPT ![w] = 0]
  /\ UNCHANGED <<inMessages, callerVars, outerDone, actionDone, inSub, inPos, inFrom, ran>>

\* The stop message: the browser is cancelled, the response is sent under a
\* context nothing cancels, and RunAsync returns.
RespondStop(w) ==
  /\ worker[w] = "running"
  /\ inMessages[current[w]] \in Stops
  /\ \/ outMessages' = Append(outMessages, ResponseOf(w))
     \/ UNCHANGED outMessages
  /\ worker' = [worker EXCEPT ![w] = "ended"]
  /\ current' = [current EXCEPT ![w] = 0]
  /\ actionDone' = [actionDone EXCEPT ![w] = TRUE]
  /\ UNCHANGED <<inMessages, callerVars, outerDone, inSub, inPos, inFrom, ran>>

\* select takes the branch of the context.
LeaveOnContext(w) ==
  /\ worker[w] = "loop"
  /\ outerDone[w] \/ actionDone[w]
  /\ worker' = [worker EXCEPT ![w] = "ended"]
  /\ UNCHANGED <<inMessages, outMessages, callerVars,
                 outerDone, actionDone, inSub, inPos, inFrom, current, ran>>

\* select takes the branch of `done`: the subscription is over.
LeaveOnDone(w) ==
  /\ worker[w] = "loop"
  /\ inSub[w] = "finished"
  /\ worker' = [worker EXCEPT ![w] = "ended"]
  /\ inSub' = [inSub EXCEPT ![w] = "closed"]
  /\ UNCHANGED <<inMessages, outMessages, callerVars,
                 outerDone, actionDone, inPos, inFrom, current, ran>>

\* The session's timeout passes, or the browser goes away under it.
ActionTimeout(w) ==
  /\ worker[w] \in {"loop", "running"}
  /\ ~actionDone[w]
  /\ actionDone' = [actionDone EXCEPT ![w] = TRUE]
  /\ UNCHANGED <<inMessages, outMessages, callerVars,
                 worker, outerDone, inSub, inPos, inFrom, current, ran>>

\* The client that holds the start request goes away, or the handler returns.
\* Without hold the context is context.WithoutCancel: nothing ends it.
Disconnect(w) ==
  /\ w \in Hold
  /\ worker[w] # "idle"
  /\ ~outerDone[w]
  /\ outerDone' = [outerDone EXCEPT ![w] = TRUE]
  /\ UNCHANGED <<inMessages, outMessages, callerVars,
                 worker, actionDone, inSub, inPos, inFrom, current, ran>>

-----------------------------------------------------------------------------
CallerStep(c) ==
  \/ DoAsyncAndWait(c) \/ OpenOut(c) \/ SendIn(c) \/ OutNext(c) \/ CloseOut(c)
  \/ Receive(c) \/ Return(c) \/ Expire(c) \/ GiveUp(c)

WorkerStep(w) ==
  \/ RunAsync(w) \/ Boot(w) \/ OpenIn(w) \/ InNext(w) \/ CloseIn(w)
  \/ TakeMessage(w) \/ Respond(w) \/ RespondStop(w)
  \/ LeaveOnContext(w) \/ LeaveOnDone(w) \/ ActionTimeout(w) \/ Disconnect(w)

Next == (\E c \in Calls : CallerStep(c)) \/ (\E w \in Workers : WorkerStep(w))

\* Goroutines that can run do run, a call's timer fires, a program ends (its
\* actions have timeouts of their own), and net/http ends the context of a
\* handler that returned.  Nothing is assumed of the database.
Fairness ==
  /\ \A c \in Calls :
       /\ WF_vars(SendIn(c)) /\ WF_vars(OutNext(c))
       /\ WF_vars(callDone[c] /\ CloseOut(c))
       /\ WF_vars(Receive(c) \/ GiveUp(c)) /\ WF_vars(Return(c)) /\ WF_vars(Expire(c))
  /\ \A w \in Workers :
       /\ WF_vars(Boot(w)) /\ WF_vars(InNext(w))
       /\ WF_vars(outerDone[w] /\ CloseIn(w))
       /\ WF_vars(TakeMessage(w) \/ LeaveOnContext(w) \/ LeaveOnDone(w))
       /\ WF_vars(Respond(w) \/ RespondStop(w))
       /\ WF_vars(worker[w] = "ended" /\ Disconnect(w))

SafeSpec == Init /\ [][Next]_vars
Spec == SafeSpec /\ Fairness

-----------------------------------------------------------------------------
Response == [call : Calls, by : Workers]

TypeOK ==
  /\ inMessages \in Seq(Calls)
  /\ outMessages \in Seq(Response)
  /\ caller \in [Calls -> {"idle", "waiting", "received", "answered", "failed"}]
  /\ callDone \in [Calls -> BOOLEAN]
  /\ outSub \in [Calls -> {"none", "opening", "sending", "streaming", "offering", "closed"}]
  /\ outPos \in [Calls -> Nat]
  /\ answer \in [Calls -> Nat]
  /\ worker \in [Workers -> {"idle", "booting", "loop", "running", "ended"}]
  /\ outerDone \in [Workers -> BOOLEAN]
  /\ actionDone \in [Workers -> BOOLEAN]
  /\ inSub \in [Workers -> {"none", "opening", "streaming", "offering", "finished", "closed"}]
  /\ inPos \in [Workers -> Nat]
  /\ inFrom \in [Workers -> Nat]
  /\ current \in [Workers -> Nat]
  /\ ran \in [Workers -> SUBSET Nat]

\* The worker's run of the message at position i is over.
RanToEnd(w, i) == i \in ran[w] /\ current[w] # i

\* A call is answered with a response that carries its own request id, and
\* some worker had taken and finished the message that response is for
\* (browser.go: the request id test in DoAsyncAndWait against the responses
\* RunAsync sends).
AnsweredByARun ==
  \A c \in Calls : caller[c] \in {"received", "answered"} =>
    /\ answer[c] \in 1..Len(outMessages)
    /\ LET r == outMessages[answer[c]] IN
         /\ RequestID[r.call] = RequestID[c]
         /\ \E i \in 1..Len(inMessages) : inMessages[i] = r.call /\ RanToEnd(r.by, i)

\* A worker runs the messages of its stream one at a time, in insertion order,
\* from the first one after its subscription on and without a gap: the one it
\* has not taken is at most the one its subscriber is holding (OnMessage calls
\* back synchronously into an unbuffered channel).
RunsInOrder ==
  \A w \in Workers : inFrom[w] > 0 =>
    ran[w] = {i \in inFrom[w]..(inPos[w] - 1) : ~(inSub[w] = "offering" /\ i = inPos[w] - 1)}

\* Each worker answers each call at most once, whatever is lost or late.
OneResponseEach ==
  \A k, l \in 1..Len(outMessages) : outMessages[k] = outMessages[l] => k = l

\* A worker takes nothing after a stop message, and the answer to a stop means
\* that the worker which gave it has returned and ran every message inserted
\* between its subscription and the stop.
StopIsLast ==
  /\ \A w \in Workers : \A i, j \in ran[w] : inMessages[i] \in Stops => j <= i
  /\ \A k \in 1..Len(outMessages) : outMessages[k].call \in Stops =>
       LET w == outMessages[k].by IN
         /\ worker[w] = "ended"
         /\ \E i \in ran[w] : inMessages[i] = outMessages[k].call /\ inFrom[w]..i \subseteq ran[w]

\* Every call returns, with a response or with the error of its context.
EveryCallReturns ==
  \A c \in Calls : caller[c] = "waiting" ~> caller[c] \in {"answered", "failed"}

\* A message inserted after a worker's subscription is run by that worker,
\* unless the worker ends first.
SubscribedIsRun ==
  \A w \in Workers : \A c \in Calls :
    (\E i \in 1..Len(inMessages) : inMessages[i] = c /\ 0 < inFrom[w] /\ inFrom[w] <= i)
      ~> (worker[w] = "ended" \/ \E i \in ran[w] : inMessages[i] = c)

-----------------------------------------------------------------------------
(* The abstract promise, and how this state shows it.                      *)
PositionsOf(c) == {i \in 1..Len(inMessages) : inMessages[i] = c}

callStatus ==
  [c \in Calls |-> IF caller[c] = "received" THEN "answered" ELSE caller[c]]
callStarted ==
  [c \in Calls |-> {w \in Workers : \E i \in PositionsOf(c) : i \in ran[w]}]
callFinished ==
  [c \in Calls |-> {w \in Workers : \E i \in PositionsOf(c) : RanToEnd(w, i)}]

Promise == INSTANCE SessionCall
             WITH status <- callStatus, started <- callStarted, finished <- callFinished

\* Every behaviour of the session is one the abstract specification allows.
KeepsPromise == Promise!Spec
-----------------------------------------------------------------------------
(* The inductive invariant behind the safety properties.                   *)

\* A watcher offers, and a caller keeps, only a response with the call's id.
CallerInv(c) ==
  /\ caller[c] = "idle" <=> outSub[c] = "none"
  /\ outSub[c] \in {"sending", "streaming"} => outPos[c] >= 1
  /\ outSub[c] = "offering" =>
       /\ outPos[c] - 1 \in 1..Len(outMessages)
       /\ RequestID[outMessages[outPos[c] - 1].call] = RequestID[c]
  /\ caller[c] \in {"received", "answered"} =>
       /\ answer[c] \in 1..Len(outMessages)
       /\ RequestID[outMessages[answer[c]].call] = RequestID[c]

\* A call inserts its message once, after its watcher opened its stream.
InsertedOnce ==
  /\ \A i, j \in 1..Len(inMessages) : inMessages[i] = inMessages[j] => i = j
  /\ \A i \in 1..Len(inMessages) :
       outSub[inMessages[i]] \in {"streaming", "offering", "closed"}

\* What the worker has run is the part of its stream it was handed, the
\* message being run is the last of it, and a stop message ends it.
WorkerInv(w) ==
  /\ inPos[w] <= Len(inMessages) + 1
  /\ worker[w] = "idle" => inSub[w] = "none"
  /\ inSub[w] \in {"none", "opening"} => inFrom[w] = 0
  /\ inSub[w] \in {"streaming", "offering"} => inFrom[w] \in 1..inPos[w]
  /\ inSub[w] = "offering" => inFrom[w] < inPos[w]
  /\ inFrom[w] = 0 => ran[w] = {}
  /\ inFrom[w] > 0 =>
       ran[w] = {i \in inFrom[w]..(inPos[w] - 1) : ~(inSub[w] = "offering" /\ i = inPos[w] - 1)}
  /\ worker[w] = "running" => current[w] \in ran[w] /\ \A i \in ran[w] : i <= current[w]
  /\ worker[w] # "running" => current[w] = 0
  /\ \A i \in ran[w] : inMessages[i] \in Stops =>
       /\ \A j \in ran[w] : j <= i
       /\ worker[w] = "ended" \/ current[w] = i

\* A response is the only one its worker gives to a message it has run.
ResponsesInv ==
  /\ \A k \in 1..Len(outMessages) :
       \E i \in ran[outMessages[k].by] :
         /\ inMessages[i] = outMessages[k].call
         /\ current[outMessages[k].by] # i
  /\ OneResponseEach

IndInv ==
  /\ TypeOK
  /\ \A c \in Calls : CallerInv(c)
  /\ InsertedOnce
  /\ \A w \in Workers : WorkerInv(w)
  /\ ResponsesInv
=============================================================================
