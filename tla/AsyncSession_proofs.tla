------------------------ MODULE AsyncSession_proofs ------------------------
(***************************************************************************)
(* Proofs about AsyncSession, for every set of calls and of workers: type  *)
(* correctness, the safety invariants MCAsyncSession checks, and that the  *)
(* session implements the safety part of SessionCall.                      *)
(***************************************************************************)
EXTENDS AsyncSession, TLAPS

-----------------------------------------------------------------------------
(* Type correctness.  It needs the invariant for the positions that are    *)
(* computed by subtraction and for the message a response names.           *)

\* A step of a caller leaves every variable in its type.
LEMMA CallerStepTyped ==
  ASSUME TypeOK, NEW c \in Calls, CallerInv(c), CallerStep(c)
  PROVE  TypeOK'
<1> USE DEF workerVars
<1>1. Append(inMessages, c) \in Seq(Calls)
  BY DEF TypeOK
<1>2. outSub[c] = "offering" => outPos[c] - 1 \in Nat
  BY DEF CallerInv, TypeOK
<1>3. CASE DoAsyncAndWait(c)  BY <1>3 DEF DoAsyncAndWait, TypeOK
<1>4. CASE OpenOut(c)         BY <1>4 DEF OpenOut, TypeOK
<1>5. CASE SendIn(c)          BY <1>5, <1>1 DEF SendIn, TypeOK
<1>6. CASE OutNext(c)         BY <1>6 DEF OutNext, TypeOK
<1>7. CASE CloseOut(c)        BY <1>7 DEF CloseOut, TypeOK
<1>8. CASE Receive(c)         BY <1>8, <1>2 DEF Receive, TypeOK
<1>9. CASE Return(c)          BY <1>9 DEF Return, TypeOK
<1>10. CASE Expire(c)         BY <1>10 DEF Expire, TypeOK
<1>11. CASE GiveUp(c)         BY <1>11 DEF GiveUp, TypeOK
<1> QED
  BY <1>3, <1>4, <1>5, <1>6, <1>7, <1>8, <1>9, <1>10, <1>11 DEF CallerStep

\* What a worker has run lies in the log.
LEMMA RanInLog ==
  ASSUME TypeOK, NEW w \in Workers, WorkerInv(w)
  PROVE  ran[w] \subseteq 1..Len(inMessages)
<1>1. Len(inMessages) \in Nat /\ inPos[w] \in Nat /\ inFrom[w] \in Nat
  BY DEF TypeOK
<1>2. CASE inFrom[w] = 0  BY <1>2 DEF WorkerInv
<1>3. CASE inFrom[w] > 0  BY <1>1, <1>3 DEF WorkerInv
<1> QED BY <1>1, <1>2, <1>3

\* The response of a running worker is one of the type.
LEMMA ResponseTyped ==
  ASSUME TypeOK, NEW w \in Workers, WorkerInv(w), worker[w] = "running"
  PROVE  /\ current[w] \in ran[w]
         /\ current[w] \in 1..Len(inMessages)
         /\ inMessages[current[w]] \in Calls
         /\ Append(outMessages, ResponseOf(w)) \in Seq(Response)
<1>1. current[w] \in ran[w] /\ current[w] \in 1..Len(inMessages)
  BY RanInLog DEF WorkerInv
<1>2. inMessages[current[w]] \in Calls
  BY <1>1 DEF TypeOK
<1>3. ResponseOf(w) \in Response
  BY <1>2 DEF ResponseOf, Response
<1> QED BY <1>1, <1>2, <1>3 DEF TypeOK

\* A step of a worker leaves every variable in its type.
LEMMA WorkerStepTyped ==
  ASSUME TypeOK, NEW w \in Workers, WorkerInv(w), WorkerStep(w)
  PROVE  TypeOK'
<1> USE DEF callerVars
<1>1. worker[w] = "running" => Append(outMessages, ResponseOf(w)) \in Seq(Response)
  BY ResponseTyped
<1>2. inSub[w] = "offering" => inPos[w] - 1 \in Nat
  BY DEF WorkerInv, TypeOK
<1>3. CASE RunAsync(w)        BY <1>3 DEF RunAsync, TypeOK
<1>4. CASE Boot(w)            BY <1>4 DEF Boot, TypeOK
<1>5. CASE OpenIn(w)          BY <1>5 DEF OpenIn, TypeOK
<1>6. CASE InNext(w)          BY <1>6 DEF InNext, TypeOK
<1>7. CASE CloseIn(w)         BY <1>7 DEF CloseIn, TypeOK
<1>8. CASE TakeMessage(w)     BY <1>8, <1>2 DEF TakeMessage, TypeOK
<1>9. CASE Respond(w)         BY <1>9, <1>1 DEF Respond, TypeOK
<1>10. CASE RespondStop(w)    BY <1>10, <1>1 DEF RespondStop, TypeOK
<1>11. CASE LeaveOnContext(w) BY <1>11 DEF LeaveOnContext, TypeOK
<1>12. CASE LeaveOnDone(w)    BY <1>12 DEF LeaveOnDone, TypeOK
<1>13. CASE ActionTimeout(w)  BY <1>13 DEF ActionTimeout, TypeOK
<1>14. CASE Disconnect(w)     BY <1>14 DEF Disconnect, TypeOK
<1> QED
  BY <1>3, <1>4, <1>5, <1>6, <1>7, <1>8, <1>9, <1>10, <1>11, <1>12, <1>13, <1>14
  DEF WorkerStep

\* A logged response is of a call and by a worker.
LEMMA ResponseParts ==
  ASSUME TypeOK, NEW k \in 1..Len(outMessages)
  PROVE  outMessages[k].call \in Calls /\ outMessages[k].by \in Workers
<1>1. outMessages[k] \in Response
  BY DEF TypeOK
<1> QED BY <1>1 DEF Response

-----------------------------------------------------------------------------
(* The logs only grow: what a position holds, it keeps.                    *)

LEMMA CallerGrowsLog ==
  ASSUME TypeOK, NEW c \in Calls, CallerStep(c)
  PROVE  /\ UNCHANGED outMessages
         /\ UNCHANGED workerVars
         /\ \/ UNCHANGED inMessages
            \/ /\ SendIn(c)
               /\ inMessages' = Append(inMessages, c)
               /\ Len(inMessages') = Len(inMessages) + 1
               /\ inMessages'[Len(inMessages) + 1] = c
               /\ \A i \in 1..Len(inMessages) : inMessages'[i] = inMessages[i]
<1>1. inMessages \in Seq(Calls)
  BY DEF TypeOK
<1>2. CASE inMessages' = Append(inMessages, c) /\ SendIn(c)
  BY <1>1, <1>2 DEF SendIn
<1>3. CASE ~(inMessages' = Append(inMessages, c) /\ SendIn(c))
  BY <1>3 DEF CallerStep, DoAsyncAndWait, OpenOut, SendIn, OutNext, CloseOut,
              Receive, Return, Expire, GiveUp
<1> QED BY <1>2, <1>3

LEMMA WorkerGrowsLog ==
  ASSUME TypeOK, NEW w \in Workers, WorkerInv(w), WorkerStep(w)
  PROVE  /\ UNCHANGED inMessages
         /\ UNCHANGED callerVars
         /\ \/ UNCHANGED outMessages
            \/ /\ Respond(w) \/ RespondStop(w)
               /\ outMessages' = Append(outMessages, ResponseOf(w))
               /\ Len(outMessages') = Len(outMessages) + 1
               /\ outMessages'[Len(outMessages) + 1] = ResponseOf(w)
               /\ \A k \in 1..Len(outMessages) : outMessages'[k] = outMessages[k]
<1>1. outMessages \in Seq(Response)
  BY DEF TypeOK
<1>2. CASE Respond(w) \/ RespondStop(w)
  <2>1. ResponseOf(w) \in Response
    BY <1>2, ResponseTyped DEF Respond, RespondStop, ResponseOf, Response
  <2>2. outMessages' = Append(outMessages, ResponseOf(w)) =>
          /\ Len(outMessages') = Len(outMessages) + 1
          /\ outMessages'[Len(outMessages) + 1] = ResponseOf(w)
          /\ \A k \in 1..Len(outMessages) : outMessages'[k] = outMessages[k]
    BY <1>1, <2>1
  <2> QED BY <1>2, <2>2 DEF Respond, RespondStop
<1>3. CASE ~(Respond(w) \/ RespondStop(w))
  BY <1>3 DEF WorkerStep, RunAsync, Boot, OpenIn, InNext, CloseIn, TakeMessage,
              LeaveOnContext, LeaveOnDone, ActionTimeout, Disconnect
<1> QED BY <1>2, <1>3

-----------------------------------------------------------------------------
(* The conjuncts of the invariant, one lemma for each kind of step.        *)

\* A caller's step keeps the invariant of every caller.
LEMMA CallerKeepsCallers ==
  ASSUME TypeOK, NEW c \in Calls, CallerStep(c), NEW d \in Calls, CallerInv(d)
  PROVE  CallerInv(d)'
<1> USE DEF TypeOK, CallerInv
<1>1. CASE DoAsyncAndWait(c)  BY <1>1 DEF DoAsyncAndWait
<1>2. CASE OpenOut(c)         BY <1>2 DEF OpenOut
<1>3. CASE SendIn(c)          BY <1>3 DEF SendIn
<1>4. CASE OutNext(c)         BY <1>4 DEF OutNext
<1>5. CASE CloseOut(c)        BY <1>5 DEF CloseOut
<1>6. CASE Receive(c)         BY <1>6 DEF Receive
<1>7. CASE Return(c)          BY <1>7 DEF Return
<1>8. CASE Expire(c)          BY <1>8 DEF Expire
<1>9. CASE GiveUp(c)          BY <1>9 DEF GiveUp
<1> QED BY <1>1, <1>2, <1>3, <1>4, <1>5, <1>6, <1>7, <1>8, <1>9 DEF CallerStep

\* So does a worker's step: it only adds to the responses.
LEMMA WorkerKeepsCallers ==
  ASSUME TypeOK, NEW w \in Workers, WorkerInv(w), WorkerStep(w),
         NEW d \in Calls, CallerInv(d)
  PROVE  CallerInv(d)'
<1>0. Len(outMessages) \in Nat
  BY DEF TypeOK
<1>1. UNCHANGED callerVars /\ Len(outMessages') >= Len(outMessages)
  BY <1>0, WorkerGrowsLog
<1>2. \A k \in 1..Len(outMessages) : outMessages'[k] = outMessages[k]
  BY WorkerGrowsLog
<1>3. outPos[d] \in Nat /\ answer[d] \in Nat /\ Len(outMessages') \in Nat
  BY WorkerStepTyped DEF TypeOK
<1> QED BY <1>0, <1>1, <1>2, <1>3 DEF CallerInv, callerVars

\* A message enters the log once: its sender goes from sending to streaming.
LEMMA StepKeepsInsertedOnce ==
  ASSUME TypeOK, \A c \in Calls : CallerInv(c), InsertedOnce,
         \A w \in Workers : WorkerInv(w), Next
  PROVE  InsertedOnce'
<1>1. ASSUME NEW c \in Calls, CallerStep(c)  PROVE InsertedOnce'
  <2>1. \A i \in 1..Len(inMessages) : inMessages[i] \in Calls
    BY DEF TypeOK
  <2>2. ASSUME NEW d \in Calls, outSub[d] \in {"streaming", "offering", "closed"}
        PROVE  outSub'[d] \in {"streaming", "offering", "closed"}
    <3>1. outSub \in [Calls -> {"none", "opening", "sending", "streaming", "offering", "closed"}]
      BY DEF TypeOK
    <3>2. caller[c] = "idle" => outSub[c] = "none"
      BY DEF CallerInv
    <3> QED
      BY <1>1, <2>2, <3>1, <3>2 DEF CallerStep, DoAsyncAndWait, OpenOut, SendIn,
         OutNext, CloseOut, Receive, Return, Expire, GiveUp
  <2>3. CASE UNCHANGED inMessages
    BY <2>1, <2>2, <2>3 DEF InsertedOnce
  <2>4. CASE SendIn(c) /\ ~UNCHANGED inMessages
    <3>1. /\ Len(inMessages) \in Nat
          /\ Len(inMessages') = Len(inMessages) + 1
          /\ inMessages'[Len(inMessages) + 1] = c
          /\ \A i \in 1..Len(inMessages) : inMessages'[i] = inMessages[i]
      BY <1>1, <2>4, CallerGrowsLog DEF TypeOK
    <3>2. \A i \in 1..Len(inMessages) : inMessages[i] # c
      BY <2>4 DEF SendIn, InsertedOnce
    <3>3. outSub'[c] = "streaming"
      BY <2>4 DEF SendIn, TypeOK
    <3>4. \A i \in 1..Len(inMessages') : i \in 1..Len(inMessages) \/ i = Len(inMessages) + 1
      BY <3>1
    <3> QED BY <2>1, <2>2, <3>1, <3>2, <3>3, <3>4 DEF InsertedOnce
  <2> QED BY <1>1, <2>3, <2>4, CallerGrowsLog
<1>2. ASSUME NEW w \in Workers, WorkerStep(w)  PROVE InsertedOnce'
  BY <1>2, WorkerGrowsLog DEF InsertedOnce, callerVars
<1> QED BY <1>1, <1>2 DEF Next

\* A caller's step only adds to the messages a worker may still run.
LEMMA CallerKeepsWorkers ==
  ASSUME TypeOK, NEW c \in Calls, CallerStep(c), NEW w \in Workers, WorkerInv(w)
  PROVE  WorkerInv(w)'
<1>1. UNCHANGED workerVars
  BY CallerGrowsLog
<1>0. Len(inMessages) \in Nat /\ inPos[w] \in Nat
  BY DEF TypeOK
<1>2. Len(inMessages') \in Nat /\ Len(inMessages') >= Len(inMessages)
  BY <1>0, CallerGrowsLog
<1>3. ran[w] \subseteq 1..Len(inMessages)
  BY RanInLog
<1>4. \A i \in ran[w] : inMessages'[i] = inMessages[i]
  BY <1>3, CallerGrowsLog
<1>5. inPos[w] <= Len(inMessages) + 1 => inPos[w] <= Len(inMessages') + 1
  BY <1>0, <1>2
<1> QED BY <1>1, <1>4, <1>5 DEF WorkerInv, workerVars

\* A worker's step leaves the other workers alone.
LEMMA WorkerKeepsOthers ==
  ASSUME TypeOK, NEW w \in Workers, WorkerInv(w), WorkerStep(w),
         NEW v \in Workers, v # w, WorkerInv(v)
  PROVE  WorkerInv(v)'
<1>1. UNCHANGED inMessages
  BY WorkerGrowsLog
<1>2. /\ worker'[v] = worker[v] /\ inSub'[v] = inSub[v] /\ inPos'[v] = inPos[v]
      /\ inFrom'[v] = inFrom[v] /\ current'[v] = current[v] /\ ran'[v] = ran[v]
  BY DEF TypeOK, WorkerStep, RunAsync, Boot, OpenIn, InNext, CloseIn, TakeMessage, Respond,
     RespondStop, LeaveOnContext, LeaveOnDone, ActionTimeout, Disconnect
<1> QED BY <1>1, <1>2 DEF WorkerInv

\* A worker's step keeps its own invariant.
LEMMA WorkerKeepsItself ==
  ASSUME TypeOK, NEW w \in Workers, WorkerInv(w), WorkerStep(w)
  PROVE  WorkerInv(w)'
<1> USE DEF WorkerInv
<1>1. Len(inMessages) \in Nat /\ inPos[w] \in Nat /\ inFrom[w] \in Nat /\ current[w] \in Nat
  BY DEF TypeOK
<1>2. UNCHANGED inMessages
  BY WorkerGrowsLog
<1>3. CASE RunAsync(w)        BY <1>1, <1>3 DEF RunAsync, TypeOK
<1>4. CASE Boot(w)            BY <1>1, <1>4 DEF Boot, TypeOK
<1>5. CASE OpenIn(w)          BY <1>1, <1>5 DEF OpenIn, TypeOK
<1>6. CASE InNext(w)
  <2>1. /\ inFrom[w] \in 1..inPos[w] /\ inPos[w] <= Len(inMessages)
        /\ ran[w] = {i \in inFrom[w]..(inPos[w] - 1) : TRUE}
    BY <1>6 DEF InNext
  <2>2. /\ inSub'[w] = "offering" /\ inPos'[w] = inPos[w] + 1
        /\ worker' = worker /\ inFrom' = inFrom /\ current' = current /\ ran' = ran
    BY <1>6 DEF InNext, TypeOK
  <2>3. ran[w] = {i \in inFrom[w]..inPos[w] : i # inPos[w]}
    BY <1>1, <2>1
  <2> QED BY <1>1, <1>2, <2>1, <2>2, <2>3
<1>7. CASE CloseIn(w)         BY <1>1, <1>7 DEF CloseIn, TypeOK
<1>8. CASE TakeMessage(w)
  <2>0. /\ inFrom[w] > 0 /\ inFrom[w] < inPos[w]
        /\ ran[w] = {i \in inFrom[w]..(inPos[w] - 1) : i # inPos[w] - 1}
    BY <1>1, <1>8 DEF TakeMessage
  <2>1. /\ inFrom[w] > 0 /\ inFrom[w] <= inPos[w] - 1
        /\ ran[w] = inFrom[w]..(inPos[w] - 2)
    BY <1>1, <2>0
  <2>2. /\ worker'[w] = "running" /\ inSub'[w] = "streaming" /\ current'[w] = inPos[w] - 1
        /\ ran'[w] = ran[w] \union {inPos[w] - 1}
        /\ inPos' = inPos /\ inFrom' = inFrom
    BY <1>8 DEF TakeMessage, TypeOK
  <2>3. ran'[w] = inFrom[w]..(inPos[w] - 1)
    BY <1>1, <2>1, <2>2
  <2>4. \A i \in ran[w] : inMessages[i] \notin Stops
    BY <1>8 DEF TakeMessage
  <2> QED BY <1>1, <1>2, <1>8, <2>1, <2>2, <2>3, <2>4
<1>9. CASE Respond(w)         BY <1>1, <1>9 DEF Respond, TypeOK
<1>10. CASE RespondStop(w)    BY <1>1, <1>10 DEF RespondStop, TypeOK
<1>11. CASE LeaveOnContext(w) BY <1>1, <1>11 DEF LeaveOnContext, TypeOK
<1>12. CASE LeaveOnDone(w)    BY <1>1, <1>12 DEF LeaveOnDone, TypeOK
<1>13. CASE ActionTimeout(w)  BY <1>1, <1>13 DEF ActionTimeout, TypeOK
<1>14. CASE Disconnect(w)     BY <1>1, <1>14 DEF Disconnect, TypeOK
<1> QED
  BY <1>3, <1>4, <1>5, <1>6, <1>7, <1>8, <1>9, <1>10, <1>11, <1>12, <1>13, <1>14
  DEF WorkerStep

\* What a worker has run it keeps, and what it has finished stays finished.
LEMMA FinishedStays ==
  ASSUME TypeOK, NEW w \in Workers, WorkerInv(w), WorkerStep(w),
         NEW v \in Workers, WorkerInv(v), NEW i \in ran[v], current[v] # i
  PROVE  i \in ran'[v] /\ current'[v] # i
<1>1. i \in Nat /\ inPos[v] \in Nat /\ inFrom[v] \in Nat
  BY DEF TypeOK
<1>2. CASE TakeMessage(w) /\ v = w
  <2>1. i \in ran[w] /\ i <= inPos[w] - 2
    BY <1>1, <1>2 DEF TakeMessage, WorkerInv
  <2> QED BY <1>1, <1>2, <2>1 DEF TakeMessage, TypeOK
<1>3. CASE (Respond(w) \/ RespondStop(w)) /\ v = w
  <2>1. i # 0
    BY <1>1, RanInLog
  <2> QED BY <1>3, <2>1 DEF Respond, RespondStop, TypeOK
<1>4. CASE ~((TakeMessage(w) \/ Respond(w) \/ RespondStop(w)) /\ v = w)
  BY <1>4 DEF TypeOK, WorkerStep, RunAsync, Boot, OpenIn, InNext, CloseIn, TakeMessage,
     Respond, RespondStop, LeaveOnContext, LeaveOnDone, ActionTimeout, Disconnect
<1> QED BY <1>2, <1>3, <1>4

\* A caller's step adds no response and touches no message that was run.
LEMMA CallerKeepsResponses ==
  ASSUME IndInv, NEW c \in Calls, CallerStep(c)
  PROVE  ResponsesInv'
<1>1. UNCHANGED outMessages /\ UNCHANGED workerVars
  BY CallerGrowsLog DEF IndInv
<1>2. \A w \in Workers : \A i \in ran[w] : inMessages'[i] = inMessages[i]
  BY CallerGrowsLog, RanInLog DEF IndInv
<1>3. \A k \in 1..Len(outMessages) : outMessages[k].by \in Workers
  BY ResponseParts DEF IndInv
<1> QED BY <1>1, <1>2, <1>3 DEF IndInv, ResponsesInv, OneResponseEach, workerVars

\* A worker's new response is to the message it was running, so none of the
\* earlier responses is the same.
LEMMA WorkerKeepsResponses ==
  ASSUME IndInv, NEW w \in Workers, WorkerStep(w)
  PROVE  ResponsesInv'
<1> USE DEF IndInv
<1>1. UNCHANGED inMessages
  BY WorkerGrowsLog
<1>2. Len(outMessages) \in Nat /\ \A k \in 1..Len(outMessages) : outMessages[k] \in Response
  BY DEF TypeOK
<1>3. ASSUME NEW k \in 1..Len(outMessages)
      PROVE  \E i \in ran'[outMessages[k].by] :
               /\ inMessages[i] = outMessages[k].call
               /\ current'[outMessages[k].by] # i
  <2>1. outMessages[k].by \in Workers
    BY <1>2 DEF Response
  <2>2. PICK i \in ran[outMessages[k].by] : /\ inMessages[i] = outMessages[k].call
                                            /\ current[outMessages[k].by] # i
    BY DEF ResponsesInv
  <2> QED BY <2>1, <2>2, FinishedStays
<1>4. CASE UNCHANGED outMessages
  BY <1>1, <1>3, <1>4 DEF ResponsesInv, OneResponseEach
<1>5. CASE ~UNCHANGED outMessages
  <2>1. /\ Respond(w) \/ RespondStop(w)
        /\ Len(outMessages') = Len(outMessages) + 1
        /\ outMessages'[Len(outMessages) + 1] = ResponseOf(w)
        /\ \A k \in 1..Len(outMessages) : outMessages'[k] = outMessages[k]
    BY <1>5, WorkerGrowsLog
  <2>2. worker[w] = "running"
    BY <2>1 DEF Respond, RespondStop
  <2>3. /\ current[w] \in ran[w]
        /\ current[w] \in 1..Len(inMessages)
    BY <2>2, ResponseTyped
  <2>4. ResponseOf(w).by = w /\ ResponseOf(w).call = inMessages[current[w]]
    BY DEF ResponseOf
  <2>5. current'[w] = 0 /\ ran' = ran
    BY <2>1 DEF Respond, RespondStop, TypeOK
  <2>6. \A k \in 1..Len(outMessages) : outMessages[k] # ResponseOf(w)
    <3> SUFFICES ASSUME NEW k \in 1..Len(outMessages), outMessages[k] = ResponseOf(w)
                 PROVE  FALSE
      OBVIOUS
    <3>1. PICK i \in ran[w] : inMessages[i] = inMessages[current[w]] /\ current[w] # i
      BY <2>4 DEF ResponsesInv
    <3>2. i \in 1..Len(inMessages)
      BY RanInLog
    <3> QED BY <2>3, <3>1, <3>2 DEF InsertedOnce
  <2>7. \A k \in 1..Len(outMessages') : k \in 1..Len(outMessages) \/ k = Len(outMessages) + 1
    BY <1>2, <2>1
  <2>8. \A k \in 1..Len(outMessages') :
          \E i \in ran'[outMessages'[k].by] :
            inMessages'[i] = outMessages'[k].call /\ current'[outMessages'[k].by] # i
    <3> SUFFICES ASSUME NEW k \in 1..Len(outMessages')
                 PROVE  \E i \in ran'[outMessages'[k].by] :
                          inMessages'[i] = outMessages'[k].call /\ current'[outMessages'[k].by] # i
      OBVIOUS
    <3>1. CASE k \in 1..Len(outMessages)  BY <1>1, <1>3, <2>1, <3>1
    <3>2. CASE k = Len(outMessages) + 1    BY <1>1, <2>1, <2>3, <2>4, <2>5, <3>2
    <3> QED BY <2>7, <3>1, <3>2
  <2>9. OneResponseEach'
    BY <2>1, <2>6, <2>7 DEF ResponsesInv, OneResponseEach
  <2> QED BY <2>8, <2>9 DEF ResponsesInv
<1> QED BY <1>4, <1>5

-----------------------------------------------------------------------------
(* The invariant is inductive.                                             *)

LEMMA InitIndInv == Init => IndInv
BY DEF Init, IndInv, TypeOK, CallerInv, InsertedOnce, WorkerInv, ResponsesInv,
       OneResponseEach

LEMMA NextIndInv == IndInv /\ [Next]_vars => IndInv'
<1> SUFFICES ASSUME IndInv, [Next]_vars  PROVE IndInv'
  OBVIOUS
<1> USE DEF IndInv
<1>1. ASSUME NEW c \in Calls, CallerStep(c)  PROVE IndInv'
  <2>1. TypeOK'                               BY <1>1, CallerStepTyped
  <2>2. \A d \in Calls : CallerInv(d)'        BY <1>1, CallerKeepsCallers
  <2>3. InsertedOnce'                         BY <1>1, StepKeepsInsertedOnce DEF Next
  <2>4. \A w \in Workers : WorkerInv(w)'      BY <1>1, CallerKeepsWorkers
  <2>5. ResponsesInv'                         BY <1>1, CallerKeepsResponses
  <2> QED BY <2>1, <2>2, <2>3, <2>4, <2>5
<1>2. ASSUME NEW w \in Workers, WorkerStep(w)  PROVE IndInv'
  <2>1. TypeOK'                               BY <1>2, WorkerStepTyped
  <2>2. \A d \in Calls : CallerInv(d)'        BY <1>2, WorkerKeepsCallers
  <2>3. InsertedOnce'                         BY <1>2, StepKeepsInsertedOnce DEF Next
  <2>4. \A v \in Workers : WorkerInv(v)'      BY <1>2, WorkerKeepsItself, WorkerKeepsOthers
  <2>5. ResponsesInv'                         BY <1>2, WorkerKeepsResponses
  <2> QED BY <2>1, <2>2, <2>3, <2>4, <2>5
<1>3. CASE UNCHANGED vars
  BY <1>3 DEF vars, callerVars, workerVars, TypeOK, CallerInv, InsertedOnce, WorkerInv,
     ResponsesInv, OneResponseEach
<1> QED BY <1>1, <1>2, <1>3 DEF Next

\* The inductive invariant holds in every state of every session.
THEOREM SessionInvariant == SafeSpec => []IndInv
BY InitIndInv, NextIndInv, PTL DEF SafeSpec

\* Every variable keeps to its type.
THEOREM TypeCorrect == SafeSpec => []TypeOK
<1>1. IndInv => TypeOK
  BY DEF IndInv
<1> QED BY <1>1, SessionInvariant, PTL

\* A response answers a call with the same request id, after a worker ran the
\* message it is for.
THEOREM AnswersComeFromRuns == SafeSpec => []AnsweredByARun
<1>1. IndInv => AnsweredByARun
  <2> SUFFICES ASSUME IndInv, NEW c \in Calls, caller[c] \in {"received", "answered"}
               PROVE  /\ answer[c] \in 1..Len(outMessages)
                      /\ RequestID[outMessages[answer[c]].call] = RequestID[c]
                      /\ \E i \in 1..Len(inMessages) :
                           /\ inMessages[i] = outMessages[answer[c]].call
                           /\ RanToEnd(outMessages[answer[c]].by, i)
    BY DEF AnsweredByARun
  <2>1. /\ answer[c] \in 1..Len(outMessages)
        /\ RequestID[outMessages[answer[c]].call] = RequestID[c]
    BY DEF IndInv, CallerInv
  <2>2. outMessages[answer[c]].by \in Workers
    BY <2>1, ResponseParts DEF IndInv
  <2>3. ran[outMessages[answer[c]].by] \subseteq 1..Len(inMessages)
    BY <2>2, RanInLog DEF IndInv
  <2> QED BY <2>1, <2>3 DEF IndInv, ResponsesInv, RanToEnd
<1> QED BY <1>1, SessionInvariant, PTL

\* Messages are run one at a time, in insertion order and without a gap.
THEOREM MessagesRunInOrder == SafeSpec => []RunsInOrder
<1>1. IndInv => RunsInOrder
  BY DEF IndInv, WorkerInv, RunsInOrder
<1> QED BY <1>1, SessionInvariant, PTL

\* No worker answers a call twice.
THEOREM ResponsesAreUnique == SafeSpec => []OneResponseEach
<1>1. IndInv => OneResponseEach
  BY DEF IndInv, ResponsesInv
<1> QED BY <1>1, SessionInvariant, PTL

\* A stop is the last message its worker takes, and its answer comes from a
\* worker that has ended and ran all it was sent before.
THEOREM StopComesLast == SafeSpec => []StopIsLast
<1>1. IndInv => StopIsLast
  <2> SUFFICES ASSUME IndInv  PROVE StopIsLast
    OBVIOUS
  <2>1. \A w \in Workers : \A i, j \in ran[w] : inMessages[i] \in Stops => j <= i
    BY DEF IndInv, WorkerInv
  <2>2. ASSUME NEW k \in 1..Len(outMessages), outMessages[k].call \in Stops
        PROVE  LET w == outMessages[k].by IN
                 /\ worker[w] = "ended"
                 /\ \E i \in ran[w] : /\ inMessages[i] = outMessages[k].call
                                     /\ inFrom[w]..i \subseteq ran[w]
    <3> DEFINE w == outMessages[k].by
    <3>1. w \in Workers
      BY ResponseParts DEF IndInv
    <3>2. WorkerInv(w) /\ inPos[w] \in Nat /\ inFrom[w] \in Nat
      BY <3>1 DEF IndInv, TypeOK
    <3>3. PICK i \in ran[w] : inMessages[i] = outMessages[k].call /\ current[w] # i
      BY DEF IndInv, ResponsesInv
    <3>4. worker[w] = "ended"
      BY <2>2, <3>2, <3>3 DEF WorkerInv
    <3>5. inFrom[w] > 0 /\ ran[w] =
            {j \in inFrom[w]..(inPos[w] - 1) : ~(inSub[w] = "offering" /\ j = inPos[w] - 1)}
      BY <3>2, <3>3 DEF WorkerInv
    <3>6. inFrom[w]..i \subseteq ran[w]
      BY <3>2, <3>3, <3>5
    <3> QED BY <3>3, <3>4, <3>6
  <2> QED BY <2>1, <2>2 DEF StopIsLast
<1> QED BY <1>1, SessionInvariant, PTL

-----------------------------------------------------------------------------
(* The session implements SessionCall.                                     *)

\* The mapping looks at the log, at what was run and at what is being run.
LEMMA SameRuns ==
  ASSUME UNCHANGED <<inMessages, ran, current>>
  PROVE  UNCHANGED <<callStarted, callFinished>>
BY DEF callStarted, callFinished, PositionsOf, RanToEnd

\* A message that has only been inserted has been begun by nobody.
LEMMA InsertedIsNotRun ==
  ASSUME IndInv, NEW c \in Calls, SendIn(c)
  PROVE  UNCHANGED <<callStarted, callFinished>>
<1>1. CASE UNCHANGED inMessages
  BY <1>1, SameRuns DEF SendIn, workerVars
<1>2. CASE ~UNCHANGED inMessages
  <2>1. /\ ran' = ran /\ current' = current
        /\ Len(inMessages) \in Nat
        /\ Len(inMessages') = Len(inMessages) + 1
        /\ \A i \in 1..Len(inMessages) : inMessages'[i] = inMessages[i]
    BY <1>2, CallerGrowsLog DEF IndInv, TypeOK, CallerStep, workerVars
  <2>2. \A w \in Workers : ran[w] \subseteq 1..Len(inMessages)
    BY RanInLog DEF IndInv
  <2>3. \A d \in Calls, w \in Workers : \A i \in ran[w] :
          i \in PositionsOf(d)' <=> i \in PositionsOf(d)
    BY <2>1, <2>2 DEF PositionsOf
  <2>4. \A d \in Calls, w \in Workers :
          /\ (\E i \in PositionsOf(d)' : i \in ran[w]) <=> (\E i \in PositionsOf(d) : i \in ran[w])
          /\ (\E i \in PositionsOf(d)' : i \in ran[w] /\ current[w] # i)
               <=> (\E i \in PositionsOf(d) : i \in ran[w] /\ current[w] # i)
    BY <2>3
  <2> QED BY <2>1, <2>4 DEF callStarted, callFinished, RanToEnd
<1> QED BY <1>1, <1>2

\* Each step of a caller issues, answers or fails a call, or stutters.
LEMMA CallerStepMaps ==
  ASSUME IndInv, NEW c \in Calls, CallerStep(c)
  PROVE  [Promise!Next]_<<callStatus, callStarted, callFinished>>
<1>1. caller \in [Calls -> {"idle", "waiting", "received", "answered", "failed"}]
  BY DEF IndInv, TypeOK
<1>2. ~SendIn(c) => UNCHANGED <<inMessages, ran, current>>
  BY DEF CallerStep, DoAsyncAndWait, OpenOut, OutNext, CloseOut, Receive, Return,
     Expire, GiveUp, workerVars
<1>3. UNCHANGED <<callStarted, callFinished>>
  BY <1>2, SameRuns, InsertedIsNotRun
<1>4. CASE DoAsyncAndWait(c)
  <2>1. Promise!Issue(c)
    BY <1>1, <1>3, <1>4 DEF DoAsyncAndWait, Promise!Issue, callStatus
  <2> QED BY <2>1 DEF Promise!Next
<1>5. CASE Receive(c)
  <2>1. /\ outPos[c] - 1 \in 1..Len(outMessages)
        /\ RequestID[outMessages[outPos[c] - 1].call] = RequestID[c]
    BY <1>5 DEF Receive, IndInv, CallerInv
  <2> DEFINE r == outMessages[outPos[c] - 1]
  <2>2. r.call \in Calls /\ r.by \in Workers
    BY <2>1, ResponseParts DEF IndInv
  <2>3. PICK i \in ran[r.by] : inMessages[i] = r.call /\ current[r.by] # i
    BY <2>1 DEF IndInv, ResponsesInv
  <2>4. i \in 1..Len(inMessages)
    BY <2>2, RanInLog DEF IndInv
  <2>5. r.by \in callFinished[r.call]
    BY <2>2, <2>3, <2>4 DEF callFinished, PositionsOf, RanToEnd
  <2>6. callStatus[c] = "waiting" /\ callStatus' = [callStatus EXCEPT ![c] = "answered"]
    BY <1>1, <1>5 DEF Receive, callStatus
  <2>7. Promise!Answer(c)
    BY <1>3, <2>1, <2>2, <2>5, <2>6 DEF Promise!Answer
  <2> QED BY <2>7 DEF Promise!Next
<1>6. CASE GiveUp(c)
  <2>1. Promise!Fail(c)
    BY <1>1, <1>3, <1>6 DEF GiveUp, Promise!Fail, callStatus
  <2> QED BY <2>1 DEF Promise!Next
<1>7. CASE OpenOut(c) \/ SendIn(c) \/ OutNext(c) \/ CloseOut(c) \/ Return(c) \/ Expire(c)
  <2>1. UNCHANGED callStatus
    BY <1>1, <1>7 DEF OpenOut, SendIn, OutNext, CloseOut, Return, Expire, callStatus
  <2> QED BY <1>3, <2>1
<1> QED BY <1>4, <1>5, <1>6, <1>7 DEF CallerStep

\* Each step of a worker begins or finishes a call, or stutters.
LEMMA WorkerStepMaps ==
  ASSUME IndInv, NEW w \in Workers, WorkerStep(w)
  PROVE  [Promise!Next]_<<callStatus, callStarted, callFinished>>
<1> USE DEF IndInv
<1>1. UNCHANGED inMessages /\ UNCHANGED callStatus
  BY WorkerGrowsLog DEF callerVars, callStatus
<1>2. ran \in [Workers -> SUBSET Nat] /\ current \in [Workers -> Nat] /\ inPos[w] \in Nat
  BY DEF TypeOK
<1>3. \A v \in Workers : ran[v] \subseteq 1..Len(inMessages)
  BY RanInLog
<1>4. CASE TakeMessage(w)
  <2> DEFINE i == inPos[w] - 1
             c == inMessages[i]
  <2>1. /\ current' = [current EXCEPT ![w] = i]
        /\ ran' = [ran EXCEPT ![w] = @ \union {i}]
        /\ current[w] = 0
    BY <1>4 DEF TakeMessage, WorkerInv
  <2>2. i \notin ran[w] /\ i \in 1..Len(inMessages)
    <3>1. /\ Len(inMessages) \in Nat /\ inFrom[w] \in Nat
          /\ inFrom[w] > 0 /\ inFrom[w] < inPos[w] /\ inPos[w] <= Len(inMessages) + 1
      BY <1>4 DEF TakeMessage, WorkerInv, TypeOK
    <3>2. i \notin ran[w]
      BY <1>4, <3>1 DEF TakeMessage, WorkerInv
    <3> QED BY <1>2, <3>1, <3>2
  <2>3. c \in Calls
    BY <2>2 DEF TypeOK
  <2>4. callStatus[c] # "idle"
    BY <2>2, <2>3 DEF InsertedOnce, CallerInv, callStatus
  <2>5. \A d \in Calls : i \in PositionsOf(d) <=> d = c
    BY <2>2 DEF PositionsOf
  <2>6. \A d \in Calls : PositionsOf(d) \subseteq 1..Len(inMessages) /\ PositionsOf(d)' = PositionsOf(d)
    BY <1>1 DEF PositionsOf
  <2>7. w \notin callStarted[c]
    <3>1. \A j \in PositionsOf(c) : j = i
      BY <2>2 DEF PositionsOf, InsertedOnce
    <3> QED BY <2>2, <2>3, <3>1 DEF callStarted
  <2>8. callStarted' = [callStarted EXCEPT ![c] = @ \union {w}]
    <3>1. \A d \in Calls, v \in Workers :
            (\E j \in PositionsOf(d) : j \in ran'[v])
              <=> (\E j \in PositionsOf(d) : j \in ran[v]) \/ (v = w /\ d = c)
      BY <1>2, <2>1, <2>5
    <3>2. callStarted' = [d \in Calls |-> {v \in Workers : \E j \in PositionsOf(d) : j \in ran'[v]}]
      BY <2>6 DEF callStarted
    <3>3. \A d \in Calls :
            {v \in Workers : \E j \in PositionsOf(d) : j \in ran'[v]}
              = IF d = c THEN callStarted[d] \union {w} ELSE callStarted[d]
      BY <3>1 DEF callStarted
    <3>4. callStarted = [d \in Calls |-> callStarted[d]]
      BY DEF callStarted
    <3> QED BY <2>3, <3>2, <3>3, <3>4
  <2>9. callFinished' = callFinished
    <3>1. \A v \in Workers, j \in 1..Len(inMessages) :
            (j \in ran'[v] /\ current'[v] # j) <=> (j \in ran[v] /\ current[v] # j)
      BY <1>2, <2>1, <2>2
    <3>2. \A d \in Calls, v \in Workers :
            (\E j \in PositionsOf(d) : j \in ran'[v] /\ current'[v] # j)
              <=> (\E j \in PositionsOf(d) : j \in ran[v] /\ current[v] # j)
      BY <2>6, <3>1
    <3> QED BY <2>6, <3>2 DEF callFinished, RanToEnd
  <2>10. Promise!Begin(c, w)
    BY <1>1, <2>4, <2>7, <2>8, <2>9 DEF Promise!Begin
  <2> QED BY <2>3, <2>10 DEF Promise!Next
<1>5. CASE Respond(w) \/ RespondStop(w)
  <2> DEFINE i == current[w]
             c == inMessages[i]
  <2>1. /\ current' = [current EXCEPT ![w] = 0]
        /\ ran' = ran
        /\ worker[w] = "running"
    BY <1>5 DEF Respond, RespondStop
  <2>2. i \in ran[w] /\ i \in 1..Len(inMessages) /\ c \in Calls
    BY <2>1, ResponseTyped
  <2>3. \A d \in Calls : i \in PositionsOf(d) <=> d = c
    BY <2>2 DEF PositionsOf
  <2>4. \A d \in Calls : PositionsOf(d) \subseteq 1..Len(inMessages) /\ PositionsOf(d)' = PositionsOf(d)
    BY <1>1 DEF PositionsOf
  <2>5. \A j \in PositionsOf(c) : j = i
    BY <2>2 DEF PositionsOf, InsertedOnce
  <2>6. w \in callStarted[c] /\ w \notin callFinished[c]
    BY <2>2, <2>3, <2>5 DEF callStarted, callFinished, RanToEnd
  <2>7. callStarted' = callStarted
    BY <2>1, <2>4 DEF callStarted
  <2>8. callFinished' = [callFinished EXCEPT ![c] = @ \union {w}]
    <3>1. \A v \in Workers, j \in 1..Len(inMessages) :
            (j \in ran[v] /\ current'[v] # j)
              <=> (j \in ran[v] /\ current[v] # j) \/ (v = w /\ j = i)
      BY <1>2, <2>1, <2>2
    <3>2. \A d \in Calls, v \in Workers :
            (\E j \in PositionsOf(d) : j \in ran[v] /\ current'[v] # j)
              <=> (\E j \in PositionsOf(d) : j \in ran[v] /\ current[v] # j) \/ (v = w /\ d = c)
      BY <2>2, <2>3, <2>4, <3>1
    <3>3. callFinished' = [d \in Calls |->
            {v \in Workers : \E j \in PositionsOf(d) : j \in ran[v] /\ current'[v] # j}]
      BY <2>1, <2>4 DEF callFinished, RanToEnd
    <3>4. \A d \in Calls :
            {v \in Workers : \E j \in PositionsOf(d) : j \in ran[v] /\ current'[v] # j}
              = IF d = c THEN callFinished[d] \union {w} ELSE callFinished[d]
      BY <3>2 DEF callFinished, RanToEnd
    <3>5. callFinished = [d \in Calls |-> callFinished[d]]
      BY DEF callFinished
    <3> QED BY <2>2, <3>3, <3>4, <3>5
  <2>9. Promise!Finish(c, w)
    BY <1>1, <2>6, <2>7, <2>8 DEF Promise!Finish
  <2> QED BY <2>2, <2>9 DEF Promise!Next
<1>6. CASE ~(TakeMessage(w) \/ Respond(w) \/ RespondStop(w))
  <2>1. UNCHANGED <<inMessages, ran, current>>
    BY <1>6 DEF WorkerStep, RunAsync, Boot, OpenIn, InNext, CloseIn, LeaveOnContext,
       LeaveOnDone, ActionTimeout, Disconnect
  <2> QED BY <1>1, <2>1, SameRuns
<1> QED BY <1>4, <1>5, <1>6

\* The session keeps the safety part of its promise: a program is begun at
\* most once by each worker, only for an issued call, and an answer follows
\* the end of a run with the same request id.
THEOREM SessionImplementsCalls == SafeSpec => Promise!SafeSpec
<1>1. Init => Promise!Init
  BY DEF Init, Promise!Init, callStatus, callStarted, callFinished, PositionsOf, RanToEnd
<1>2. IndInv /\ [Next]_vars => [Promise!Next]_(Promise!callVars)
  <2> SUFFICES ASSUME IndInv, [Next]_vars
               PROVE  [Promise!Next]_<<callStatus, callStarted, callFinished>>
    BY DEF Promise!callVars
  <2>1. CASE UNCHANGED vars
    BY <2>1, SameRuns DEF vars, callerVars, workerVars, callStatus
  <2> QED BY <2>1, CallerStepMaps, WorkerStepMaps DEF Next
<1> QED BY <1>1, <1>2, SessionInvariant, PTL DEF SafeSpec, Promise!SafeSpec
=============================================================================
