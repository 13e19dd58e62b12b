------------------------ MODULE Socks5Request_proofs -----------------------
(***************************************************************************)
(* Proofs about Socks5Request, for any set of addresses: type correctness, *)
(* one verdict to a request, nothing left behind by an ended one, and the  *)
(* one way to a lock left held.                                            *)
(***************************************************************************)
EXTENDS Socks5Request, SequenceTheorems, TLAPS

TCPLoop == {"readClient", "writeRemote", "closeTCP", "joinTCP"}
UDPLoop == {"readUDP", "toTarget", "toClient", "forward", "closeUDP", "joinUDP"}
Left == {"close", "ended"}

\* What the client has been told at each stage.
VerdictInv ==
  /\ handler \in Handshaking => verdicts = <<>> \/ handler = "dial"
  /\ handler = "resolve" => ~resolved
  /\ handler = "dial" => verdicts = <<>> \/ (verdicts = <<"refused">> /\ ~resolved)
  /\ handler \in TCPLoop \union UDPLoop => verdicts = <<"granted">>
  /\ \/ verdicts \in {<<>>, <<"refused">>, <<"granted">>}
     \/ verdicts = <<"refused", "refused">> /\ ~resolved

\* Which goroutines there are at each stage, and what is closed at the end.
ThreadInv ==
  /\ handler \in Handshaking => back = "none" /\ watch = "none"
  /\ handler \in TCPLoop => back \notin {"none", "ended"} /\ watch = "none"
  /\ handler \in UDPLoop => watch \notin {"none", "ended"} /\ back = "none"
  /\ handler \in Left => back \in {"none", "ended"} /\ watch \in {"none", "ended"}
  /\ handler = "ended" => client = "closed" /\ remote # "open" /\ udp # "open"

\* The handler holds the mutex while it forwards, or has left with it.
LockInv ==
  mutex # "none" =>
    \/ handler = "forward"
    \/ broke = "forward" /\ handler \in {"closeUDP", "joinUDP"} \union Left

IInv == TypeOK /\ VerdictInv /\ ThreadInv /\ LockInv

-----------------------------------------------------------------------------
\* A second element after the first.
LEMMA AppendToOne ==
  ASSUME NEW S, NEW a \in S, NEW b \in S
  PROVE  Append(<<a>>, b) = <<a, b>>
<1>1. <<a>> \in Seq(S) /\ <<a, b>> \in Seq(S) /\ Append(<<a>>, b) \in Seq(S)
  OBVIOUS
<1>2. Len(Append(<<a>>, b)) = 2 /\ Len(<<a, b>>) = 2
  OBVIOUS
<1>3. \A i \in 1..2 : Append(<<a>>, b)[i] = <<a, b>>[i]
  OBVIOUS
<1> QED BY <1>1, <1>2, <1>3, SeqEqual

\* A client that was told nothing is now told nothing or of a refusal.
LEMMA TellFirst ==
  ASSUME verdicts = <<>>, TellRefused
  PROVE  verdicts' = <<>> \/ verdicts' = <<"refused">>
<1>1. Append(<<>>, "refused") = <<"refused">>
  OBVIOUS
<1> QED BY <1>1 DEF TellRefused

\* A client that was refused is told nothing more or of one more refusal.
LEMMA TellAgain ==
  ASSUME verdicts = <<"refused">>, TellRefused
  PROVE  verdicts' = <<"refused">> \/ verdicts' = <<"refused", "refused">>
<1>1. Append(<<"refused">>, "refused") = <<"refused", "refused">>
  BY AppendToOne
<1> QED BY <1>1 DEF TellRefused

\* Telling the client keeps the type of what it has been told.
LEMMA TellTypes ==
  ASSUME TypeOK, TellRefused
  PROVE  verdicts' \in Seq({"refused", "granted"})
BY DEF TypeOK, TellRefused

\* Every step keeps the types.
LEMMA StepTypes == TypeOK /\ [Next]_vars => TypeOK'
<1> SUFFICES ASSUME TypeOK, [Next]_vars PROVE TypeOK'
  OBVIOUS
<1> USE DEF TypeOK, Handshaking, asked, sockets, exchanges, udpRelay
<1>1. CASE CheckVersion
  BY <1>1 DEF CheckVersion, Leave
<1>2. CASE CheckAuth
  BY <1>2 DEF CheckAuth, Leave
<1>3. CASE GetAddr
  <2>1. verdicts' \in Seq({"refused", "granted"})
    BY <1>3, TellTypes DEF GetAddr, Refuse
  <2>2. resolved' \in BOOLEAN
    BY <1>3, Zenon DEF GetAddr, Refuse, Leave
  <2> QED BY <1>3, <2>1, <2>2 DEF GetAddr, Refuse, Leave
<1>4. CASE Resolve
  <2>1. verdicts' \in Seq({"refused", "granted"})
    BY <1>4, TellTypes DEF Resolve
  <2>2. resolved' \in BOOLEAN
    BY <1>4, Zenon DEF Resolve
  <2> QED BY <1>4, <2>1, <2>2 DEF Resolve
<1>5. CASE CheckRemote
  BY <1>5 DEF CheckRemote, Refuse, TellRefused, Leave
<1>6. CASE Dial
  BY <1>6 DEF Dial, Refuse, TellRefused, Leave
<1>7. CASE BindUDP
  BY <1>7 DEF BindUDP, Refuse, TellRefused, Leave
<1>8. CASE Answer
  BY <1>8 DEF Answer
<1>9. CASE ReadClient
  BY <1>9 DEF ReadClient
<1>10. CASE WriteRemote
  BY <1>10 DEF WriteRemote
<1>11. CASE CloseTCP
  BY <1>11 DEF CloseTCP, CloseSockets
<1>12. CASE JoinTCP
  BY <1>12 DEF JoinTCP
<1>13. CASE ReadUDP
  BY <1>13 DEF ReadUDP, Break
<1>14. CASE ToTarget
  BY <1>14 DEF ToTarget, Break
<1>15. CASE ToClient
  BY <1>15 DEF ToClient
<1>16. CASE Forward
  BY <1>16 DEF Forward, Break
<1>17. CASE CloseUDP
  BY <1>17 DEF CloseUDP, CloseSockets
<1>18. CASE JoinUDP
  BY <1>18 DEF JoinUDP
<1>19. CASE CloseRequest
  BY <1>19 DEF CloseRequest, CloseSockets
<1>20. CASE BackStep
  BY <1>20 DEF BackStep
<1>21. CASE BackClose
  BY <1>21 DEF BackClose, CloseSockets
<1>22. CASE WatchEnds
  BY <1>22 DEF WatchEnds
<1>23. CASE WatchClose
  BY <1>23 DEF WatchClose, CloseSockets
<1>24. CASE ExpiryTick
  BY <1>24 DEF ExpiryTick
<1>25. CASE ExpirySweep
  BY <1>25 DEF ExpirySweep
<1>26. CASE ExpiryLeaves
  BY <1>26 DEF ExpiryLeaves
<1>27. CASE ServerCloses
  BY <1>27 DEF ServerCloses, CloseSockets
<1>28. ASSUME NEW p \in Peers, ExchangeExpires(p) PROVE TypeOK'
  BY <1>28 DEF ExchangeExpires
<1>29. CASE UNCHANGED vars
  BY <1>29 DEF vars
<1> QED
  BY <1>1, <1>2, <1>3, <1>4, <1>5, <1>6, <1>7, <1>8, <1>9, <1>10, <1>11, <1>12, <1>13, <1>14,
     <1>15, <1>16, <1>17, <1>18, <1>19, <1>20, <1>21, <1>22, <1>23, <1>24, <1>25, <1>26, <1>27, <1>28, <1>29
  DEF Next, Handler, Proceeds, Back, Watch

\* Every step keeps what the client has been told in line with the stage.
LEMMA StepVerdicts == TypeOK /\ VerdictInv /\ [Next]_vars => VerdictInv'
<1> SUFFICES ASSUME TypeOK, VerdictInv, [Next]_vars PROVE VerdictInv'
  OBVIOUS
<1> USE DEF VerdictInv, Handshaking, TCPLoop, UDPLoop, asked, sockets, exchanges, udpRelay
<1>1. CASE CheckVersion
  BY <1>1 DEF CheckVersion, Leave
<1>2. CASE CheckAuth
  BY <1>2 DEF CheckAuth, Leave
<1>3. CASE GetAddr
  BY <1>3, TellFirst DEF GetAddr, Refuse, Leave
<1>4. CASE Resolve
  BY <1>4, TellFirst DEF Resolve
<1>5. CASE CheckRemote
  BY <1>5, TellFirst DEF CheckRemote, Refuse, Leave
<1>6. CASE Dial
  BY <1>6, TellFirst, TellAgain DEF Dial, Refuse, Leave
<1>7. CASE BindUDP
  BY <1>7, TellFirst DEF BindUDP, Refuse, Leave
<1>8. CASE Answer
  <2>1. Append(<<>>, "granted") = <<"granted">>
    OBVIOUS
  <2> QED BY <1>8, <2>1 DEF Answer
<1>9. CASE ReadClient
  BY <1>9 DEF ReadClient
<1>10. CASE WriteRemote
  BY <1>10 DEF WriteRemote
<1>11. CASE CloseTCP
  BY <1>11 DEF CloseTCP, CloseSockets
<1>12. CASE JoinTCP
  BY <1>12 DEF JoinTCP
<1>13. CASE ReadUDP
  BY <1>13 DEF ReadUDP, Break
<1>14. CASE ToTarget
  BY <1>14 DEF ToTarget, Break
<1>15. CASE ToClient
  BY <1>15 DEF ToClient
<1>16. CASE Forward
  BY <1>16 DEF Forward, Break
<1>17. CASE CloseUDP
  BY <1>17 DEF CloseUDP, CloseSockets
<1>18. CASE JoinUDP
  BY <1>18 DEF JoinUDP
<1>19. CASE CloseRequest
  BY <1>19 DEF CloseRequest, CloseSockets
<1>20. CASE BackStep
  BY <1>20 DEF BackStep
<1>21. CASE BackClose
  BY <1>21 DEF BackClose, CloseSockets
<1>22. CASE WatchEnds
  BY <1>22 DEF WatchEnds
<1>23. CASE WatchClose
  BY <1>23 DEF WatchClose, CloseSockets
<1>24. CASE ExpiryTick
  BY <1>24 DEF ExpiryTick
<1>25. CASE ExpirySweep
  BY <1>25 DEF ExpirySweep
<1>26. CASE ExpiryLeaves
  BY <1>26 DEF ExpiryLeaves
<1>27. CASE ServerCloses
  BY <1>27 DEF ServerCloses, CloseSockets
<1>28. ASSUME NEW p \in Peers, ExchangeExpires(p) PROVE VerdictInv'
  BY <1>28 DEF ExchangeExpires
<1>29. CASE UNCHANGED vars
  BY <1>29 DEF vars
<1> QED
  BY <1>1, <1>2, <1>3, <1>4, <1>5, <1>6, <1>7, <1>8, <1>9, <1>10, <1>11, <1>12, <1>13, <1>14,
     <1>15, <1>16, <1>17, <1>18, <1>19, <1>20, <1>21, <1>22, <1>23, <1>24, <1>25, <1>26, <1>27, <1>28, <1>29
  DEF Next, Handler, Proceeds, Back, Watch

\* Every step keeps the goroutines in line with the stage.
LEMMA StepThreads == TypeOK /\ ThreadInv /\ [Next]_vars => ThreadInv'
<1> SUFFICES ASSUME TypeOK, ThreadInv, [Next]_vars PROVE ThreadInv'
  OBVIOUS
<1> USE DEF TypeOK, ThreadInv, Handshaking, TCPLoop, UDPLoop, Left, asked, sockets, exchanges, udpRelay
<1>1. CASE CheckVersion
  BY <1>1 DEF CheckVersion, Leave
<1>2. CASE CheckAuth
  BY <1>2 DEF CheckAuth, Leave
<1>3. CASE GetAddr
  BY <1>3 DEF GetAddr, Refuse, TellRefused, Leave
<1>4. CASE Resolve
  BY <1>4 DEF Resolve, TellRefused
<1>5. CASE CheckRemote
  BY <1>5 DEF CheckRemote, Refuse, TellRefused, Leave
<1>6. CASE Dial
  BY <1>6 DEF Dial, Refuse, TellRefused, Leave
<1>7. CASE BindUDP
  BY <1>7 DEF BindUDP, Refuse, TellRefused, Leave
<1>8. CASE Answer
  BY <1>8 DEF Answer
<1>9. CASE ReadClient
  BY <1>9 DEF ReadClient
<1>10. CASE WriteRemote
  BY <1>10 DEF WriteRemote
<1>11. CASE CloseTCP
  BY <1>11 DEF CloseTCP, CloseSockets
<1>12. CASE JoinTCP
  BY <1>12 DEF JoinTCP
<1>13. CASE ReadUDP
  BY <1>13 DEF ReadUDP, Break
<1>14. CASE ToTarget
  BY <1>14 DEF ToTarget, Break
<1>15. CASE ToClient
  BY <1>15 DEF ToClient
<1>16. CASE Forward
  BY <1>16 DEF Forward, Break
<1>17. CASE CloseUDP
  BY <1>17 DEF CloseUDP, CloseSockets
<1>18. CASE JoinUDP
  BY <1>18 DEF JoinUDP
<1>19. CASE CloseRequest
  BY <1>19 DEF CloseRequest, CloseSockets
<1>20. CASE BackStep
  BY <1>20 DEF BackStep
<1>21. CASE BackClose
  BY <1>21 DEF BackClose, CloseSockets
<1>22. CASE WatchEnds
  BY <1>22 DEF WatchEnds
<1>23. CASE WatchClose
  BY <1>23 DEF WatchClose, CloseSockets
<1>24. CASE ExpiryTick
  BY <1>24 DEF ExpiryTick
<1>25. CASE ExpirySweep
  BY <1>25 DEF ExpirySweep
<1>26. CASE ExpiryLeaves
  BY <1>26 DEF ExpiryLeaves
<1>27. CASE ServerCloses
  BY <1>27 DEF ServerCloses, CloseSockets
<1>28. ASSUME NEW p \in Peers, ExchangeExpires(p) PROVE ThreadInv'
  BY <1>28 DEF ExchangeExpires
<1>29. CASE UNCHANGED vars
  BY <1>29 DEF vars
<1> QED
  BY <1>1, <1>2, <1>3, <1>4, <1>5, <1>6, <1>7, <1>8, <1>9, <1>10, <1>11, <1>12, <1>13, <1>14,
     <1>15, <1>16, <1>17, <1>18, <1>19, <1>20, <1>21, <1>22, <1>23, <1>24, <1>25, <1>26, <1>27, <1>28, <1>29
  DEF Next, Handler, Proceeds, Back, Watch

\* Every step keeps the mutex accounted for.
LEMMA StepLock == TypeOK /\ LockInv /\ [Next]_vars => LockInv'
<1> SUFFICES ASSUME TypeOK, LockInv, [Next]_vars PROVE LockInv'
  OBVIOUS
<1> USE DEF TypeOK, LockInv, Left, Handshaking, asked, sockets, exchanges, udpRelay
<1>1. CASE CheckVersion
  BY <1>1 DEF CheckVersion, Leave
<1>2. CASE CheckAuth
  BY <1>2 DEF CheckAuth, Leave
<1>3. CASE GetAddr
  BY <1>3 DEF GetAddr, Refuse, TellRefused, Leave
<1>4. CASE Resolve
  BY <1>4 DEF Resolve, TellRefused
<1>5. CASE CheckRemote
  BY <1>5 DEF CheckRemote, Refuse, TellRefused, Leave
<1>6. CASE Dial
  BY <1>6 DEF Dial, Refuse, TellRefused, Leave
<1>7. CASE BindUDP
  BY <1>7 DEF BindUDP, Refuse, TellRefused, Leave
<1>8. CASE Answer
  BY <1>8 DEF Answer
<1>9. CASE ReadClient
  BY <1>9 DEF ReadClient
<1>10. CASE WriteRemote
  BY <1>10 DEF WriteRemote
<1>11. CASE CloseTCP
  BY <1>11 DEF CloseTCP, CloseSockets
<1>12. CASE JoinTCP
  BY <1>12 DEF JoinTCP
<1>13. CASE ReadUDP
  BY <1>13 DEF ReadUDP, Break
<1>14. CASE ToTarget
  BY <1>14 DEF ToTarget, Break
<1>15. CASE ToClient
  BY <1>15 DEF ToClient
<1>16. CASE Forward
  BY <1>16 DEF Forward, Break
<1>17. CASE CloseUDP
  BY <1>17 DEF CloseUDP, CloseSockets
<1>18. CASE JoinUDP
  BY <1>18 DEF JoinUDP
<1>19. CASE CloseRequest
  BY <1>19 DEF CloseRequest, CloseSockets
<1>20. CASE BackStep
  BY <1>20 DEF BackStep
<1>21. CASE BackClose
  BY <1>21 DEF BackClose, CloseSockets
<1>22. CASE WatchEnds
  BY <1>22 DEF WatchEnds
<1>23. CASE WatchClose
  BY <1>23 DEF WatchClose, CloseSockets
<1>24. CASE ExpiryTick
  BY <1>24 DEF ExpiryTick
<1>25. CASE ExpirySweep
  BY <1>25 DEF ExpirySweep
<1>26. CASE ExpiryLeaves
  BY <1>26 DEF ExpiryLeaves
<1>27. CASE ServerCloses
  BY <1>27 DEF ServerCloses, CloseSockets
<1>28. ASSUME NEW p \in Peers, ExchangeExpires(p) PROVE LockInv'
  BY <1>28 DEF ExchangeExpires
<1>29. CASE UNCHANGED vars
  BY <1>29 DEF vars
<1> QED
  BY <1>1, <1>2, <1>3, <1>4, <1>5, <1>6, <1>7, <1>8, <1>9, <1>10, <1>11, <1>12, <1>13, <1>14,
     <1>15, <1>16, <1>17, <1>18, <1>19, <1>20, <1>21, <1>22, <1>23, <1>24, <1>25, <1>26, <1>27, <1>28, <1>29
  DEF Next, Handler, Proceeds, Back, Watch

-----------------------------------------------------------------------------
\* The invariant holds in every reachable state.
THEOREM RequestInvariant == Spec => []IInv
<1>1. Init => IInv
  <2> SUFFICES ASSUME Init PROVE IInv
    OBVIOUS
  <2>1. TypeOK
    <3>1. verdicts \in Seq({"refused", "granted"})
      BY DEF Init
    <3>2. resolved \in BOOLEAN /\ leaving \in BOOLEAN
      BY DEF Init
    <3>3. known \in SUBSET Peers /\ expired \in SUBSET known
      BY DEF Init
    <3> QED BY <3>1, <3>2, <3>3 DEF Init, TypeOK, Handshaking
  <2>2. VerdictInv
    BY DEF Init, VerdictInv, TCPLoop, UDPLoop
  <2>3. ThreadInv /\ LockInv
    BY DEF Init, ThreadInv, LockInv, TCPLoop, UDPLoop, Left
  <2> QED BY <2>1, <2>2, <2>3 DEF IInv
<1>2. IInv /\ [Next]_vars => IInv'
  BY StepTypes, StepVerdicts, StepThreads, StepLock DEF IInv
<1> QED BY <1>1, <1>2, PTL DEF Spec

\* Type correctness of a request.
THEOREM RequestTypeCorrect == Spec => []TypeOK
<1>1. IInv => TypeOK
  BY DEF IInv
<1> QED BY <1>1, RequestInvariant, PTL

\* An ended request has released its sockets and its goroutines.
THEOREM EndedRequestIsReleased == Spec => []EndedIsReleased
<1>1. IInv => EndedIsReleased
  BY DEF IInv, ThreadInv, Left, EndedIsReleased
<1> QED BY <1>1, RequestInvariant, PTL

\* A client is told one thing of its request, or twice that its name is unknown.
THEOREM RequestHasOneVerdict == Spec => []OneVerdict
<1>1. IInv => OneVerdict
  <2> SUFFICES ASSUME VerdictInv PROVE OneVerdict
    BY DEF IInv
  <2>1. CASE verdicts \in {<<>>, <<"refused">>, <<"granted">>}
    <3>1. Len(<<>>) = 0 /\ Len(<<"refused">>) = 1 /\ Len(<<"granted">>) = 1
      OBVIOUS
    <3>2. Len(verdicts) = 0 \/ Len(verdicts) = 1
      BY <2>1, <3>1, Zenon
    <3> QED BY <3>2 DEF OneVerdict
  <2>2. CASE verdicts = <<"refused", "refused">> /\ ~resolved
    BY <2>2 DEF OneVerdict
  <2> QED BY <2>1, <2>2 DEF VerdictInv
<1> QED BY <1>1, RequestInvariant, PTL

\* Only a failed forward leaves udpMutex locked.
THEOREM LockLeaksOneWay == Spec => []LockLeaksByForwardOnly
<1>1. IInv => LockLeaksByForwardOnly
  BY DEF IInv, LockInv, Left, LockLeaksByForwardOnly
<1> QED BY <1>1, RequestInvariant, PTL
=============================================================================
