------------------------- MODULE Socks5Server_proofs -----------------------
(***************************************************************************)
(* Proofs about Socks5Server, for any set of requests: type correctness,   *)
(* the agreement of the list's links and that they end, the one way to its *)
(* panic, and what the drain of the list can leave behind.                 *)
(***************************************************************************)
EXTENDS Socks5Server, TLAPS

\* A request that is not in the list yet is not linked to or from.
FreshUnlinked ==
  \A r \in Requests : handler[r] \in {"none", "accepted"} =>
    /\ next[r] = Nil /\ prev[r] = Nil /\ head # r
    /\ \A q \in Requests : next[q] # r

\* The drain takes nothing only when it was overtaken.
TakeInv ==
  /\ run = "take" => head # Nil \/ overtaken
  /\ run = "unlink" => current # Nil \/ overtaken
  /\ run = "dead" => overtaken

\* The requests in the list that closeRequests has not closed.
Pending ==
  {r \in Requests : /\ handler[r] \in {"process", "remove"} /\ open[r]
                    /\ ~(run = "close" /\ r = current)}

\* S has the head and, with a request, the one it links to.
ClosedUnderLinks(S) ==
  /\ head # Nil => head \in S
  /\ \A r \in S : next[r] # Nil => next[r] \in S

\* Before the second removal out of order the links from the head lead to all
\* of them; before the first, every link ahead is answered by a link back.
ReachInv ==
  /\ skips < 2 => \A S \in SUBSET Requests : ClosedUnderLinks(S) => Pending \subseteq S
  /\ skips = 0 => \A r \in Requests : next[r] # Nil => prev[next[r]] = r

\* What is not in the list when the loop has ended was late; what closeRequests
\* leaves was late too.
LateInv ==
  /\ run # "accept" => \A r \in Requests : handler[r] = "accepted" => r \in late
  /\ run = "returned" /\ skips < 2 => Pending \subseteq late

IInv == TypeOK /\ BackLinksAgree /\ FreshUnlinked /\ TakeInv /\ ListEnds /\ ReachInv /\ LateInv

LinksInv == BackLinksAgree /\ FreshUnlinked

\* The handlers that are in the list stay what they are or move on.
NoneFresher ==
  \A r \in Requests : handler'[r] \in {"none", "accepted"} => handler[r] \in {"none", "accepted"}

-----------------------------------------------------------------------------
\* A request inserted at the head, when it was not linked before, leaves links
\* that agree.
LEMMA InsertKeepsLinks ==
  ASSUME TypeOK, LinksInv, NEW r \in Requests, handler[r] = "accepted",
         InsertRequestList(r), handler' = [handler EXCEPT ![r] = "process"]
  PROVE  LinksInv'
<1>1. BackLinksAgree'
  BY SocksAssumption DEF TypeOK, LinksInv, BackLinksAgree, FreshUnlinked, InsertRequestList
<1>2. FreshUnlinked'
  BY SocksAssumption DEF TypeOK, LinksInv, FreshUnlinked, InsertRequestList
<1> QED BY <1>1, <1>2 DEF LinksInv

\* Removing any request, in the list or not, leaves links that agree.
LEMMA RemoveKeepsLinks ==
  ASSUME TypeOK, LinksInv, NEW r \in Requests, RemoveRequestList(r), NoneFresher
  PROVE  LinksInv'
<1>1. BackLinksAgree'
  <2>1. ASSUME NEW q \in Requests, prev'[q] # Nil PROVE next'[prev'[q]] = q
    <3>1. q # r /\ q # next[r] /\ prev'[q] = prev[q]
      BY <2>1 DEF RemoveRequestList
    <3>2. prev[q] \in Requests /\ next[prev[q]] = q
      BY <2>1, <3>1 DEF TypeOK, LinksInv, BackLinksAgree
    <3>3. prev[q] # r
      BY <3>1, <3>2
    <3>4. prev[q] # prev[r]
      BY <2>1, <3>1, <3>2 DEF TypeOK, LinksInv, BackLinksAgree
    <3> QED BY <3>1, <3>2, <3>3, <3>4 DEF RemoveRequestList
  <2>2. head' # Nil => prev'[head'] = Nil
    BY DEF TypeOK, LinksInv, BackLinksAgree, RemoveRequestList
  <2> QED BY <2>1, <2>2 DEF BackLinksAgree
<1>2. FreshUnlinked'
  <2> SUFFICES ASSUME NEW f \in Requests, handler'[f] \in {"none", "accepted"}
               PROVE  /\ next'[f] = Nil /\ prev'[f] = Nil /\ head' # f
                      /\ \A q \in Requests : next'[q] # f
    BY DEF FreshUnlinked
  <2>1. /\ next[f] = Nil /\ prev[f] = Nil /\ head # f
        /\ \A q \in Requests : next[q] # f
    BY DEF NoneFresher, LinksInv, FreshUnlinked
  <2>2. f # Nil
    BY SocksAssumption
  <2>3. f # prev[r]
    BY <2>1, <2>2, SocksAssumption DEF TypeOK, LinksInv, BackLinksAgree
  <2>4. next'[f] = Nil /\ prev'[f] = Nil
    BY <2>1, <2>3 DEF RemoveRequestList
  <2>5. head' # f /\ \A q \in Requests : next'[q] # f
    BY <2>1, <2>2 DEF RemoveRequestList
  <2> QED BY <2>4, <2>5
<1> QED BY <1>1, <1>2 DEF LinksInv

\* No circle is closed by a request that becomes the head: nothing links to it.
LEMMA InsertKeepsEnds ==
  ASSUME TypeOK, LinksInv, ListEnds, NEW r \in Requests, handler[r] = "accepted",
         InsertRequestList(r)
  PROVE  ListEnds'
<1> SUFFICES ASSUME NEW S \in SUBSET Requests, S # {}, \A q \in S : next'[q] \in S
             PROVE  FALSE
  BY DEF ListEnds
<1>1. \A q \in Requests : next[q] # r
  BY DEF LinksInv, FreshUnlinked
<1>2. head # r
  BY DEF LinksInv, FreshUnlinked
<1>3. next'[r] = head /\ \A q \in Requests \ {r} : next'[q] = next[q]
  BY DEF TypeOK, InsertRequestList
<1>4. S \ {r} # {}
  BY <1>2, <1>3
<1>5. \A q \in S \ {r} : next[q] \in S \ {r}
  BY <1>1, <1>3
<1> QED BY <1>4, <1>5 DEF ListEnds

\* Nor by a removal: requests that link among themselves after it did so before,
\* with the one removed if it was between two of them.
LEMMA RemoveKeepsEnds ==
  ASSUME TypeOK, LinksInv, ListEnds, NEW r \in Requests, RemoveRequestList(r)
  PROVE  ListEnds'
<1> SUFFICES ASSUME NEW S \in SUBSET Requests, S # {}, \A q \in S : next'[q] \in S
             PROVE  FALSE
  BY DEF ListEnds
<1>1. next'[r] = Nil /\ r \notin S
  BY SocksAssumption DEF RemoveRequestList
<1>2. \A q \in S : q # prev[r] => next'[q] = next[q]
  BY <1>1 DEF RemoveRequestList
<1>3. CASE prev[r] \in S
  <2>1. next[prev[r]] = r
    BY <1>3, SocksAssumption DEF LinksInv, BackLinksAgree
  <2>2. next[r] = next'[prev[r]]
    BY <1>1, <1>3 DEF RemoveRequestList
  <2>3. \A q \in S \union {r} : next[q] \in S \union {r}
    BY <1>2, <1>3, <2>1, <2>2
  <2> QED BY <2>3 DEF ListEnds
<1>4. CASE prev[r] \notin S
  BY <1>2, <1>4 DEF ListEnds
<1> QED BY <1>3, <1>4

\* A request that becomes the head leads to what the old head led to.
LEMMA InsertKeepsReach ==
  ASSUME TypeOK, LinksInv, ReachInv, NEW r \in Requests, handler[r] = "accepted",
         InsertRequestList(r), skips' = skips, Pending' \subseteq Pending \union {r}
  PROVE  ReachInv'
<1>1. next'[r] = head /\ next[r] = Nil /\ \A q \in Requests \ {r} : next'[q] = next[q]
  BY DEF TypeOK, LinksInv, FreshUnlinked, InsertRequestList
<1>2. ASSUME skips < 2, NEW S \in SUBSET Requests, ClosedUnderLinks(S)'
      PROVE  Pending' \subseteq S
  <2>1. r \in S
    BY <1>2, SocksAssumption DEF ClosedUnderLinks, InsertRequestList
  <2>2. ClosedUnderLinks(S)
    BY <1>1, <1>2, <2>1 DEF ClosedUnderLinks
  <2> QED BY <1>2, <2>1, <2>2 DEF ReachInv
<1>3. ASSUME skips = 0, NEW q \in Requests, next'[q] # Nil
      PROVE  prev'[next'[q]] = q
  <2>1. CASE q = r
    BY <1>1, <1>3, <2>1 DEF TypeOK, InsertRequestList
  <2>2. CASE q # r
    <3>1. next'[q] = next[q] /\ next[q] \in Requests /\ prev[next[q]] = q
      BY <1>1, <1>3, <2>2 DEF TypeOK, ReachInv
    <3>2. next[q] # head
      BY <3>1, SocksAssumption DEF TypeOK, LinksInv, BackLinksAgree
    <3> QED BY <3>1, <3>2 DEF InsertRequestList
  <2> QED BY <2>1, <2>2
<1> QED BY <1>2, <1>3 DEF ReachInv

\* Removing the head leaves the way from the next one; removing another while
\* every link is answered leaves a way around it.
LEMMA RemoveKeepsReach ==
  ASSUME TypeOK, LinksInv, ReachInv, NEW r \in Requests, RemoveRequestList(r),
         NoteSkip(r), Pending' \subseteq Pending \ {r}
  PROVE  ReachInv'
<1>1. next'[r] = Nil /\ \A q \in Requests \ {r, prev[r]} : next'[q] = next[q]
  BY DEF RemoveRequestList
<1>2. prev[r] \in Requests => next[prev[r]] = r /\ next'[prev[r]] \in {next[r], Nil}
  BY SocksAssumption DEF TypeOK, LinksInv, BackLinksAgree, RemoveRequestList
<1>3. head = r => prev[r] = Nil /\ head' = next[r]
  BY SocksAssumption DEF LinksInv, BackLinksAgree, RemoveRequestList
<1>4. head # r => skips = 0 \/ skips' = 2
  BY DEF NoteSkip, TypeOK
<1>5. ASSUME skips' < 2, NEW S \in SUBSET Requests, ClosedUnderLinks(S)'
      PROVE  Pending' \subseteq S
  <2>0. skips < 2
    BY <1>5 DEF NoteSkip, TypeOK
  <2>1. CASE head = r
    <3>1. ClosedUnderLinks(S \union {r})
      BY <1>1, <1>3, <1>5, <2>1, SocksAssumption DEF TypeOK, ClosedUnderLinks
    <3> QED BY <2>0, <3>1 DEF ReachInv
  <2>2. CASE head # r
    <3> DEFINE R == S \ {r}
    <3>1. \A q \in Requests : next[q] # Nil => prev[next[q]] = q
      BY <1>4, <1>5, <2>2 DEF ReachInv
    <3>2. head # Nil => head \in R
      BY <1>5, <2>2 DEF ClosedUnderLinks, RemoveRequestList
    <3>3. \A q \in R : q # prev[r] => next[q] # r
      BY <3>1, SocksAssumption
    <3>4. \A q \in R : q # prev[r] /\ next[q] # Nil => next[q] \in R
      BY <1>1, <1>5, <3>3 DEF ClosedUnderLinks
    <3>5. CASE prev[r] \notin R
      <4>1. ClosedUnderLinks(R)
        BY <3>2, <3>4, <3>5 DEF ClosedUnderLinks
      <4> QED BY <2>0, <4>1 DEF ReachInv
    <3>6. CASE prev[r] \in R
      <4>1. next'[prev[r]] = next[r]
        BY <3>6 DEF RemoveRequestList
      <4>2. next[r] # Nil => next[r] \in S
        BY <1>5, <3>6, <4>1 DEF ClosedUnderLinks
      <4>3. ClosedUnderLinks(R \union {r})
        BY <1>2, <3>2, <3>4, <3>6, <4>2 DEF ClosedUnderLinks
      <4> QED BY <2>0, <4>3 DEF ReachInv
    <3> QED BY <3>5, <3>6
  <2> QED BY <2>1, <2>2
<1>6. ASSUME skips' = 0, NEW q \in Requests, next'[q] # Nil
      PROVE  prev'[next'[q]] = q
  <2>1. skips = 0 /\ head = r
    BY <1>6 DEF NoteSkip, TypeOK
  <2>2. q # r /\ next'[q] = next[q] /\ prev[next[q]] = q /\ next[q] \in Requests
    BY <1>1, <1>3, <1>6, <2>1, SocksAssumption DEF TypeOK, ReachInv
  <2>3. next[q] # r /\ next[q] # next[r]
    BY <1>3, <2>1, <2>2, SocksAssumption DEF ReachInv
  <2> QED BY <2>2, <2>3 DEF RemoveRequestList
<1> QED BY <1>5, <1>6 DEF ReachInv

\* Types survive both.
LEMMA ListTypes ==
  ASSUME TypeOK, NEW r \in Requests, InsertRequestList(r) \/ RemoveRequestList(r)
  PROVE  /\ head' \in Requests \union {Nil}
         /\ prev' \in [Requests -> Requests \union {Nil}]
         /\ next' \in [Requests -> Requests \union {Nil}]
BY DEF TypeOK, InsertRequestList, RemoveRequestList

\* The server starts with an empty list.
LEMMA InitInv == Init => IInv
<1> SUFFICES ASSUME Init PROVE IInv
  OBVIOUS
<1>1. TypeOK
  <2>1. handler \in [Requests -> {"none", "accepted", "process", "remove", "close", "ended"}]
    BY DEF Init
  <2>2. prev \in [Requests -> Requests \union {Nil}] /\ next \in [Requests -> Requests \union {Nil}]
    BY DEF Init
  <2>3. open \in [Requests -> BOOLEAN]
    BY DEF Init
  <2>4. skips \in 0..2
    BY DEF Init
  <2> QED BY <2>1, <2>2, <2>3, <2>4 DEF Init, TypeOK
<1>2. BackLinksAgree /\ FreshUnlinked
  BY SocksAssumption DEF Init, BackLinksAgree, FreshUnlinked
<1>3. TakeInv
  BY DEF Init, TakeInv
<1>4. ListEnds
  BY SocksAssumption DEF Init, ListEnds
<1>5. ReachInv /\ LateInv
  BY DEF Init, ReachInv, LateInv, Pending
<1> QED BY <1>1, <1>2, <1>3, <1>4, <1>5 DEF IInv

-----------------------------------------------------------------------------
\* Every step keeps the types.
LEMMA StepTypes == TypeOK /\ [Next]_vars => TypeOK'
<1> SUFFICES ASSUME TypeOK, [Next]_vars PROVE TypeOK'
  OBVIOUS
<1>1. CASE CloseListener
  BY <1>1 DEF CloseListener, TypeOK, list, histories
<1>2. CASE AcceptFails
  BY <1>2 DEF AcceptFails, TypeOK, list
<1>3. CASE TestHead
  BY <1>3 DEF TestHead, TypeOK, list, histories
<1>4. CASE TakeHead
  BY <1>4 DEF TakeHead, TypeOK, list, histories
<1>5. CASE Unlink
  <2>1. CASE current = Nil /\ run' = "dead" /\ UNCHANGED <<list, skips>>
    BY <1>5, <2>1 DEF Unlink, TypeOK, list
  <2>2. CASE current # Nil /\ run' = "close" /\ RemoveRequestList(current) /\ NoteSkip(current)
    <3>1. current \in Requests
      BY <2>2 DEF TypeOK
    <3> QED BY <1>5, <2>2, <3>1, ListTypes DEF Unlink, NoteSkip, TypeOK
  <2> QED BY <1>5, <2>1, <2>2 DEF Unlink
<1>6. CASE CloseTaken
  BY <1>6 DEF CloseTaken, TypeOK, list, histories
<1>7. ASSUME NEW r \in Requests, Accept(r) PROVE TypeOK'
  BY <1>7 DEF Accept, TypeOK, list, histories
<1>8. ASSUME NEW r \in Requests, Insert(r) PROVE TypeOK'
  BY <1>8, ListTypes DEF Insert, TypeOK, histories
<1>9. ASSUME NEW r \in Requests, ProcessEnds(r) PROVE TypeOK'
  BY <1>9 DEF ProcessEnds, TypeOK, list, histories
<1>10. ASSUME NEW r \in Requests, Remove(r) PROVE TypeOK'
  BY <1>10, ListTypes DEF Remove, NoteSkip, TypeOK
<1>11. ASSUME NEW r \in Requests, Close(r) PROVE TypeOK'
  BY <1>11 DEF Close, TypeOK, list, histories
<1>12. CASE UNCHANGED vars
  BY <1>12 DEF vars, list, histories, TypeOK
<1> QED
  BY <1>1, <1>2, <1>3, <1>4, <1>5, <1>6, <1>7, <1>8, <1>9, <1>10, <1>11, <1>12
  DEF Next, CloseRequests

\* Every step keeps the links in agreement.
LEMMA StepLinks == TypeOK /\ LinksInv /\ [Next]_vars => LinksInv'
<1> SUFFICES ASSUME TypeOK, LinksInv, [Next]_vars PROVE LinksInv'
  OBVIOUS
<1> DEFINE Untouched == UNCHANGED list /\ NoneFresher
<1>1. Untouched => LinksInv'
  BY DEF LinksInv, BackLinksAgree, FreshUnlinked, NoneFresher, list
<1>2. CASE CloseListener \/ AcceptFails \/ TestHead \/ TakeHead \/ CloseTaken \/ UNCHANGED vars
  BY <1>1, <1>2 DEF CloseListener, AcceptFails, TestHead, TakeHead, CloseTaken, vars, NoneFresher
<1>3. CASE Unlink
  <2>1. CASE current = Nil
    BY <1>1, <1>3, <2>1 DEF Unlink, NoneFresher
  <2>2. CASE current # Nil
    BY <1>3, <2>2, RemoveKeepsLinks DEF Unlink, NoneFresher, TypeOK
  <2> QED BY <2>1, <2>2
<1>4. ASSUME NEW r \in Requests, Accept(r) \/ ProcessEnds(r) \/ Close(r) PROVE LinksInv'
  BY <1>1, <1>4 DEF Accept, ProcessEnds, Close, NoneFresher, TypeOK
<1>5. ASSUME NEW r \in Requests, Insert(r) PROVE LinksInv'
  BY <1>5, InsertKeepsLinks DEF Insert
<1>6. ASSUME NEW r \in Requests, Remove(r) PROVE LinksInv'
  <2>1. NoneFresher
    BY <1>6 DEF Remove, NoneFresher, TypeOK
  <2> QED BY <1>6, <2>1, RemoveKeepsLinks DEF Remove
<1> QED BY <1>2, <1>3, <1>4, <1>5, <1>6 DEF Next, CloseRequests

\* Every step keeps what the drain knows of the list.
LEMMA StepTake == TypeOK /\ TakeInv /\ [Next]_vars => TakeInv'
<1> SUFFICES ASSUME TypeOK, TakeInv, [Next]_vars PROVE TakeInv'
  OBVIOUS
<1>1. CASE CloseListener \/ AcceptFails \/ CloseTaken \/ UNCHANGED vars
  BY <1>1 DEF CloseListener, AcceptFails, CloseTaken, TakeInv, vars, list, histories
<1>2. CASE TestHead
  BY <1>2 DEF TestHead, TakeInv, list, histories
<1>3. CASE TakeHead
  BY <1>3 DEF TakeHead, TakeInv, histories
<1>4. CASE Unlink
  BY <1>4 DEF Unlink, TakeInv
<1>5. ASSUME NEW r \in Requests, Accept(r) \/ ProcessEnds(r) \/ Close(r) PROVE TakeInv'
  BY <1>5 DEF Accept, ProcessEnds, Close, TakeInv, list, histories
<1>6. ASSUME NEW r \in Requests, Insert(r) PROVE TakeInv'
  BY <1>6, SocksAssumption DEF Insert, InsertRequestList, TakeInv, histories
<1>7. ASSUME NEW r \in Requests, Remove(r) PROVE TakeInv'
  BY <1>7 DEF Remove, RemoveRequestList, TakeInv
<1> QED BY <1>1, <1>2, <1>3, <1>4, <1>5, <1>6, <1>7 DEF Next, CloseRequests

\* Every step keeps the list free of circles.
LEMMA StepEnds == TypeOK /\ LinksInv /\ ListEnds /\ [Next]_vars => ListEnds'
<1> SUFFICES ASSUME TypeOK, LinksInv, ListEnds, [Next]_vars PROVE ListEnds'
  OBVIOUS
<1>1. CASE UNCHANGED list
  BY <1>1 DEF ListEnds, list
<1>2. CASE Unlink
  BY <1>1, <1>2, RemoveKeepsEnds DEF Unlink, TypeOK
<1>3. ASSUME NEW r \in Requests, Insert(r) PROVE ListEnds'
  BY <1>3, InsertKeepsEnds DEF Insert
<1>4. ASSUME NEW r \in Requests, Remove(r) PROVE ListEnds'
  BY <1>4, RemoveKeepsEnds DEF Remove
<1>5. CASE CloseListener \/ AcceptFails \/ TestHead \/ TakeHead \/ CloseTaken \/ UNCHANGED vars
  BY <1>1, <1>5 DEF CloseListener, AcceptFails, TestHead, TakeHead, CloseTaken, vars
<1>6. ASSUME NEW r \in Requests, Accept(r) \/ ProcessEnds(r) \/ Close(r) PROVE ListEnds'
  BY <1>1, <1>6 DEF Accept, ProcessEnds, Close
<1> QED BY <1>2, <1>3, <1>4, <1>5, <1>6 DEF Next, CloseRequests

\* Every step leaves the pending requests reachable, before the second removal
\* out of order.
LEMMA StepReach == TypeOK /\ LinksInv /\ ReachInv /\ [Next]_vars => ReachInv'
<1> SUFFICES ASSUME TypeOK, LinksInv, ReachInv, [Next]_vars PROVE ReachInv'
  OBVIOUS
<1>1. CASE UNCHANGED list /\ skips' = skips /\ Pending' \subseteq Pending
  BY <1>1 DEF ReachInv, ClosedUnderLinks, list
<1>2. CASE CloseListener \/ AcceptFails \/ TestHead \/ TakeHead \/ UNCHANGED vars
  BY <1>1, <1>2 DEF CloseListener, AcceptFails, TestHead, TakeHead, Pending, vars, list, histories
<1>3. CASE CloseTaken
  <2>1. Pending' \subseteq Pending
    BY <1>3 DEF CloseTaken, Pending, TypeOK
  <2> QED BY <1>1, <1>3, <2>1 DEF CloseTaken, histories
<1>4. CASE Unlink
  <2>1. CASE current = Nil
    BY <1>1, <1>4, <2>1 DEF Unlink, Pending
  <2>2. CASE current # Nil
    <3>1. current \in Requests /\ RemoveRequestList(current) /\ NoteSkip(current)
      BY <1>4, <2>2 DEF Unlink, TypeOK
    <3>2. Pending' \subseteq Pending \ {current}
      BY <1>4, <2>2 DEF Unlink, Pending
    <3> QED BY <3>1, <3>2, RemoveKeepsReach
  <2> QED BY <2>1, <2>2
<1>5. ASSUME NEW r \in Requests, Insert(r) PROVE ReachInv'
  <2>1. Pending' \subseteq Pending \union {r}
    BY <1>5 DEF Insert, Pending, TypeOK
  <2> QED BY <1>5, <2>1, InsertKeepsReach DEF Insert, histories
<1>6. ASSUME NEW r \in Requests, Remove(r) PROVE ReachInv'
  <2>1. Pending' \subseteq Pending \ {r}
    BY <1>6 DEF Remove, Pending, TypeOK
  <2> QED BY <1>6, <2>1, RemoveKeepsReach DEF Remove
<1>7. ASSUME NEW r \in Requests, Accept(r) \/ ProcessEnds(r) \/ Close(r) PROVE ReachInv'
  <2>1. Pending' \subseteq Pending
    BY <1>7 DEF Accept, ProcessEnds, Close, Pending, TypeOK
  <2> QED BY <1>1, <1>7, <2>1 DEF Accept, ProcessEnds, Close, histories
<1> QED BY <1>2, <1>3, <1>4, <1>5, <1>6, <1>7 DEF Next, CloseRequests

\* Every step keeps what is known of the requests that came late.
LEMMA StepLate == TypeOK /\ ReachInv /\ LateInv /\ [Next]_vars => LateInv'
<1> SUFFICES ASSUME TypeOK, ReachInv, LateInv, [Next]_vars PROVE LateInv'
  OBVIOUS
<1>1. CASE CloseListener \/ TakeHead \/ Unlink \/ CloseTaken \/ UNCHANGED vars
  BY <1>1 DEF CloseListener, TakeHead, Unlink, CloseTaken, LateInv, Pending, vars, list, histories
<1>2. CASE AcceptFails
  BY <1>2 DEF AcceptFails, LateInv
<1>3. CASE TestHead
  <2>1. ASSUME head = Nil, skips < 2 PROVE Pending = {}
    <3>1. ClosedUnderLinks({})
      BY <2>1 DEF ClosedUnderLinks
    <3> QED BY <2>1, <3>1 DEF ReachInv
  <2>2. Pending' = Pending
    BY <1>3 DEF TestHead, Pending, histories
  <2> QED BY <1>3, <2>1, <2>2 DEF TestHead, LateInv, histories
<1>4. ASSUME NEW r \in Requests, Accept(r) PROVE LateInv'
  BY <1>4 DEF Accept, LateInv, histories
<1>5. ASSUME NEW r \in Requests, Insert(r) PROVE LateInv'
  <2>1. Pending' \subseteq Pending \union {r}
    BY <1>5 DEF Insert, Pending, TypeOK
  <2>2. run # "accept" => r \in late
    BY <1>5 DEF Insert, LateInv
  <2> QED BY <1>5, <2>1, <2>2 DEF Insert, LateInv, TypeOK, histories
<1>6. ASSUME NEW r \in Requests, ProcessEnds(r) \/ Remove(r) \/ Close(r) PROVE LateInv'
  <2>1. Pending' \subseteq Pending /\ late' = late /\ run' = run
    BY <1>6 DEF ProcessEnds, Remove, Close, Pending, TypeOK, histories
  <2>2. skips' < 2 => skips < 2
    BY <1>6 DEF ProcessEnds, Remove, Close, NoteSkip, TypeOK, histories
  <2>3. \A q \in Requests : handler'[q] = "accepted" => handler[q] = "accepted"
    BY <1>6 DEF ProcessEnds, Remove, Close, TypeOK
  <2> QED BY <2>1, <2>2, <2>3 DEF LateInv
<1> QED BY <1>1, <1>2, <1>3, <1>4, <1>5, <1>6 DEF Next, CloseRequests

\* The invariant holds in every reachable state.
THEOREM SocksInvariant == Spec => []IInv
<1>1. Init => IInv
  BY InitInv
<1>2. IInv /\ [Next]_vars => IInv'
  BY StepTypes, StepLinks, StepTake, StepEnds, StepReach, StepLate DEF IInv, LinksInv
<1> QED BY <1>1, <1>2, PTL DEF Spec

\* Type correctness of the server.
THEOREM SocksTypeCorrect == Spec => []TypeOK
<1>1. IInv => TypeOK
  BY DEF IInv
<1> QED BY <1>1, SocksInvariant, PTL

\* removeRequestList never leaves a link back that the link ahead contradicts,
\* whichever requests leave in which order.
THEOREM ListLinksAgree == Spec => []BackLinksAgree
<1>1. IInv => BackLinksAgree
  BY DEF IInv
<1> QED BY <1>1, SocksInvariant, PTL

\* closeRequests panics only when a handler took the head off the list between
\* its test and its read.
THEOREM PanicOnlyOvertaken == Spec => []DiesOnlyOvertaken
<1>1. IInv => DiesOnlyOvertaken
  BY DEF IInv, TakeInv, DiesOnlyOvertaken
<1> QED BY <1>1, SocksInvariant, PTL
\* Whatever removals have made of the links, following them comes to an end: the
\* drain cannot run in a circle.
THEOREM LinksEnd == Spec => []ListEnds
<1>1. IInv => ListEnds
  BY DEF IInv
<1> QED BY <1>1, SocksInvariant, PTL

\* When server.Run has returned, a request that is still served with its client's
\* connection open came to the list after the loop's end, or two requests were
\* removed out of order.
THEOREM DrainLeavesNothing == Spec => []DrainIsComplete
<1>1. IInv => DrainIsComplete
  <2> SUFFICES ASSUME IInv, run = "returned", skips # 2,
                      NEW r \in Requests, handler[r] = "process", open[r]
               PROVE  r \in late
    BY DEF DrainIsComplete
  <2>1. r \in Pending /\ skips < 2
    BY DEF IInv, TypeOK, Pending
  <2> QED BY <2>1 DEF IInv, LateInv
<1> QED BY <1>1, SocksInvariant, PTL
=============================================================================
