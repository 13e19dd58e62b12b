---------------------------- MODULE Socks5Server ---------------------------
(***************************************************************************)
(* The SOCKS5 server the proxy service runs next to the browser: the loop  *)
(* of server.Run that accepts connections, one connHandle goroutine to a   *)
(* connection, and the list of requests under way, which Run closes when   *)
(* it leaves its loop.  What a request does in Process is in Socks5Request; *)
(* here it is under way until it ends by itself or finds itself closed.    *)
(*                                                                         *)
(* Inserting and removing hold the server's mutex and are one step each.   *)
(* closeRequests reads headRequest without it, once to test and once to    *)
(* take, so a handler may remove its request between the two.              *)
(*                                                                         *)
(* A definition whose comment begins with "Fault:" is a wrong version of   *)
(* the one after it; no behaviour uses it.                                 *)
(***************************************************************************)
EXTENDS Naturals

CONSTANTS Requests,  \* the connections clients open, each once
          Nil

ASSUME SocksAssumption == Nil \notin Requests

VARIABLES
  port,      \* the listening socket: "open" or "closed"
  run,       \* where server.Run is; "dead" is a panic, which ends the process
  current,   \* the request closeRequests has taken from the list
  head,      \* headRequest
  prev,      \* prev[r], the link of r's list element
  next,      \* next[r]
  handler,   \* handler[r]: where connHandle of r is
  open,      \* open[r]: the client's connection is open
  skips,     \* removals of a request that was not the head, up to 2 (history)
  late,      \* requests accepted but not in the list when the loop ended (history)
  overtaken  \* since the last test the handler of the head removed its request (history)

list == <<head, prev, next>>
histories == <<skips, late, overtaken>>
vars == <<port, run, current, list, handler, open, histories>>

Init ==
  /\ port = "open"
  /\ run = "accept"
  /\ current = Nil
  /\ head = Nil
  /\ prev = [r \in Requests |-> Nil]
  /\ next = [r \in Requests |-> Nil]
  /\ handler = [r \in Requests |-> "none"]
  /\ open = [r \in Requests |-> FALSE]
  /\ skips = 0
  /\ late = {}
  /\ overtaken = FALSE

Alive == run # "dead"

-----------------------------------------------------------------------------
(* The list.                                                               *)

\* Fault: the old head's link ahead is set, not its link back.
InsertLinkedAhead(r) ==
  /\ head' = r
  /\ next' = [q \in Requests |-> IF q = r THEN head ELSE IF q = head THEN r ELSE next[q]]
  /\ UNCHANGED prev

\* The request becomes the head.
InsertRequestList(r) ==
  /\ head' = r
  /\ next' = [next EXCEPT ![r] = head]
  /\ prev' = [q \in Requests |-> IF q = head THEN r ELSE prev[q]]

\* Fault: the successor keeps its link to the request.
RemoveAheadOnly(r) ==
  /\ head' = IF head = r THEN next[r] ELSE head
  /\ next' = [q \in Requests |-> IF q = r THEN Nil ELSE IF q = prev[r] THEN next[r] ELSE next[q]]
  /\ prev' = [prev EXCEPT ![r] = Nil]

\* The request leaves the list.  Its link to its predecessor is cut before it is
\* copied to its successor, which is left with none.
RemoveRequestList(r) ==
  /\ head' = IF head = r THEN next[r] ELSE head
  /\ next' = [q \in Requests |-> IF q = r THEN Nil ELSE IF q = prev[r] THEN next[r] ELSE next[q]]
  /\ prev' = [q \in Requests |-> IF q \in {r, next[r]} THEN Nil ELSE prev[q]]

\* The removal, as the history remembers it.
NoteSkip(r) == skips' = IF head # r /\ skips < 2 THEN skips + 1 ELSE skips

-----------------------------------------------------------------------------
(* server.Run and Close.                                                   *)

\* A client connects and gets a goroutine of its own.
Accept(r) ==
  /\ run = "accept" /\ port = "open"
  /\ handler[r] = "none"
  /\ handler' = [handler EXCEPT ![r] = "accepted"]
  /\ open' = [open EXCEPT ![r] = TRUE]
  /\ UNCHANGED <<port, run, current, list, histories>>

\* server.Close, which refuses once Run has given the listener up.
CloseListener ==
  /\ run = "accept"
  /\ port' = "closed"
  /\ UNCHANGED <<run, current, list, handler, open, histories>>

\* Accepting fails, as the listener is closed or for any other reason (no file
\* descriptors left): Run gives the listener up and closes its requests.
AcceptFails ==
  /\ run = "accept"
  /\ run' = "test"
  /\ late' = {r \in Requests : handler[r] = "accepted"}
  /\ UNCHANGED <<port, current, list, handler, open, skips, overtaken>>

\* Fault: the head is taken without a test.
TestNothing ==
  /\ run = "test"
  /\ run' = "take"
  /\ overtaken' = FALSE
  /\ UNCHANGED <<port, current, list, handler, open, skips, late>>

\* Is there a request left?
TestHead ==
  /\ run = "test"
  /\ run' = IF head = Nil THEN "returned" ELSE "take"
  /\ overtaken' = FALSE
  /\ UNCHANGED <<port, current, list, handler, open, skips, late>>

TakeHead ==
  /\ run = "take"
  /\ current' = head
  /\ run' = "unlink"
  /\ UNCHANGED <<port, list, handler, open, histories>>

\* The request taken is removed from the list; with none, removing reads the
\* links of nil.
Unlink ==
  /\ run = "unlink"
  /\ \/ current = Nil /\ run' = "dead" /\ UNCHANGED <<list, skips>>
     \/ current # Nil /\ run' = "close" /\ RemoveRequestList(current) /\ NoteSkip(current)
  /\ UNCHANGED <<port, current, handler, open, late, overtaken>>

\* Fault: the request is only taken from the list.
CloseNothing ==
  /\ run = "close"
  /\ run' = "test"
  /\ UNCHANGED <<port, current, list, handler, open, histories>>

CloseTaken ==
  /\ run = "close"
  /\ open' = [open EXCEPT ![current] = FALSE]
  /\ run' = "test"
  /\ UNCHANGED <<port, current, list, handler, histories>>

CloseRequests == TestHead \/ TakeHead \/ Unlink \/ CloseTaken

-----------------------------------------------------------------------------
(* connHandle.                                                             *)

Insert(r) ==
  /\ Alive
  /\ handler[r] = "accepted"
  /\ InsertRequestList(r)
  /\ handler' = [handler EXCEPT ![r] = "process"]
  /\ UNCHANGED <<port, run, current, open, histories>>

\* Process returns: by itself, or because the request was closed under it.
ProcessEnds(r) ==
  /\ Alive
  /\ handler[r] = "process"
  /\ handler' = [handler EXCEPT ![r] = "remove"]
  /\ UNCHANGED <<port, run, current, list, open, histories>>

Remove(r) ==
  /\ Alive
  /\ handler[r] = "remove"
  /\ RemoveRequestList(r)
  /\ handler' = [handler EXCEPT ![r] = "close"]
  /\ NoteSkip(r)
  /\ overtaken' = (overtaken \/ (run = "take" /\ head = r))
  /\ UNCHANGED <<port, run, current, open, late>>

Close(r) ==
  /\ Alive
  /\ handler[r] = "close"
  /\ open' = [open EXCEPT ![r] = FALSE]
  /\ handler' = [handler EXCEPT ![r] = "ended"]
  /\ UNCHANGED <<port, run, current, list, histories>>

-----------------------------------------------------------------------------
Next ==
  \/ CloseListener \/ AcceptFails \/ CloseRequests
  \/ \E r \in Requests : Accept(r) \/ Insert(r) \/ ProcessEnds(r) \/ Remove(r) \/ Close(r)

Spec == Init /\ [][Next]_vars

-----------------------------------------------------------------------------
TypeOK ==
  /\ port \in {"open", "closed"}
  /\ run \in {"accept", "test", "take", "unlink", "close", "returned", "dead"}
  /\ current \in Requests \union {Nil}
  /\ head \in Requests \union {Nil}
  /\ prev \in [Requests -> Requests \union {Nil}]
  /\ next \in [Requests -> Requests \union {Nil}]
  /\ handler \in [Requests -> {"none", "accepted", "process", "remove", "close", "ended"}]
  /\ open \in [Requests -> BOOLEAN]
  /\ skips \in 0..2
  /\ late \subseteq Requests
  /\ overtaken \in BOOLEAN

\* closeRequests leaves no request open: when Run has returned, one that is still
\* under way was not in the list in time, or two requests were removed while they
\* were not the head: one of them lost the other's link, which lost the rest.
DrainIsComplete ==
  run = "returned" =>
    \A r \in Requests : handler[r] = "process" /\ open[r] => r \in late \/ skips = 2

\* The nil request that kills the process is taken only when a handler removed the
\* head between the very test of the list that saw it and the read that takes it.
DiesOnlyOvertaken == run = "dead" => overtaken

\* A link back is always answered by the link ahead (the converse fails once a
\* request has left that was not the head), and nothing comes before the head.
BackLinksAgree ==
  /\ \A r \in Requests : prev[r] # Nil => next[prev[r]] = r
  /\ head # Nil => prev[head] = Nil

\* closeRequests meets the end of the list: whatever removals, by whom and of
\* whom, have made of the links, no requests link only among themselves, so every
\* way along the links comes to an end.
ListEnds ==
  \A S \in SUBSET Requests : S # {} => \E r \in S : next[r] \notin S
=============================================================================
