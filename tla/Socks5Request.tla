---------------------------- MODULE Socks5Request --------------------------
(***************************************************************************)
(* One request of the SOCKS5 server: the handshake, the dialling of the    *)
(* target or the opening of a UDP socket, the answer, and the relay until  *)
(* one side is gone.  The handler's goroutine is joined by one more for a  *)
(* TCP relay (`back`) and by two for a UDP relay (`watch` on the client's  *)
(* connection, `expiry` of the exchanges).  The server may close the       *)
(* request at any moment (Socks5Server).                                   *)
(*                                                                         *)
(* A read or a write on a closed socket fails; on an open one it succeeds  *)
(* or fails (the other side is gone, or its deadline has passed).          *)
(*                                                                         *)
(* A definition whose comment begins with "Fault:" is a wrong version of   *)
(* the one after it; no behaviour uses it.                                 *)
(***************************************************************************)
EXTENDS Naturals, Sequences

CONSTANTS Peers,   \* addresses UDP packets come from and go to
          NoPeer

ASSUME RequestAssumption == NoPeer \notin Peers

VARIABLES
  handler,   \* where connHandle is in Process
  settings,  \* the server's: is a password asked for, is UDP enabled
  command,   \* what the client asked for: "none" so far, "connect" or "udp"
  resolved,  \* the handshake has found an address
  client,    \* ClientConn: "open" or "closed"
  remote,    \* RemoteConn: "nil", "open" or "closed"
  udp,       \* UDPConn: the same
  verdicts,  \* what the client has been told of its request
  back,      \* the goroutine from the target to the client
  watch,     \* the goroutine that waits for the client's connection to end
  expiry,    \* the goroutine that removes expired exchanges
  leaving,   \* doneExchange is closed
  mutex,     \* who holds udpMutex: "none" or "handler"
  sender,    \* clientAddr, the address that counts as the client's
  packet,    \* the address of the packet being forwarded to the client
  known,     \* the targets in UDPExchangeMap
  expired,   \* those of them whose time is over
  broke      \* how the UDP loop ended (history)

asked == <<settings, command, resolved>>
sockets == <<client, remote, udp>>
exchanges == <<sender, packet, known, expired>>
udpRelay == <<watch, expiry, leaving, mutex, broke, exchanges>>
vars == <<handler, asked, sockets, verdicts, back, udpRelay>>

Init ==
  /\ handler = "version"
  /\ settings \in [auth : BOOLEAN, udp : BOOLEAN]
  /\ command = "none"
  /\ resolved = FALSE
  /\ client = "open" /\ remote = "nil" /\ udp = "nil"
  /\ verdicts = <<>>
  /\ back = "none"
  /\ watch = "none" /\ expiry = "none"
  /\ leaving = FALSE
  /\ mutex = "none"
  /\ sender = NoPeer /\ packet = NoPeer
  /\ known = {} /\ expired = {}
  /\ broke = "none"

-----------------------------------------------------------------------------
(* Reading, writing and closing.                                           *)

\* Fault: the socket of the target stays open.
CloseClientOnly ==
  /\ client' = "closed"
  /\ udp' = IF udp = "nil" THEN udp ELSE "closed"
  /\ UNCHANGED remote

\* Request.Close: every socket there is.
CloseSockets ==
  /\ client' = "closed"
  /\ remote' = IF remote = "nil" THEN remote ELSE "closed"
  /\ udp' = IF udp = "nil" THEN udp ELSE "closed"

\* The client is told that its request is refused; the error of writing that is
\* dropped.
TellRefused ==
  \/ client = "open" /\ verdicts' = Append(verdicts, "refused")
  \/ UNCHANGED verdicts

\* Process returns.
Leave ==
  /\ handler' = "close"
  /\ UNCHANGED <<asked, sockets, back, udpRelay>>

Refuse == TellRefused /\ Leave

-----------------------------------------------------------------------------
(* The handshake.                                                          *)

\* A greeting, and what is said about methods and passwords before the request,
\* is not told apart.
CheckVersion ==
  /\ handler = "version"
  /\ \/ Leave
     \/ /\ client = "open"
        /\ handler' = "auth"
        /\ UNCHANGED <<asked, sockets, back, udpRelay>>
  /\ UNCHANGED verdicts

\* Without an authHandle there is nothing to check.
CheckAuth ==
  /\ handler = "auth"
  /\ \/ settings.auth /\ Leave
     \/ /\ ~settings.auth \/ client = "open"
        /\ handler' = "addr"
        /\ UNCHANGED <<asked, sockets, back, udpRelay>>
  /\ UNCHANGED verdicts

\* The command and an address or a name; or something malformed or unsupported.
GetAddr ==
  /\ handler = "addr"
  /\ \/ Refuse
     \/ /\ client = "open"
        /\ command' \in {"connect", "udp"}
        /\ \E named \in BOOLEAN :
             /\ handler' = IF named THEN "resolve" ELSE "check"
             /\ resolved' = ~named
        /\ UNCHANGED <<settings, sockets, verdicts, back, udpRelay>>

\* The name is resolved.  When it is not, the client is told so and the error
\* returned is that of getAddr, which is nil: Process goes on to dial, whatever
\* the command was.
Resolve ==
  /\ handler = "resolve"
  /\ \/ /\ resolved' = TRUE
        /\ handler' = "check"
        /\ UNCHANGED verdicts
     \/ /\ TellRefused
        /\ handler' = "dial"
        /\ UNCHANGED resolved
  /\ UNCHANGED <<settings, command, sockets, back, udpRelay>>

\* A connect needs a proper address; an IPv6 address never parses and has none.
CheckRemote ==
  /\ handler = "check"
  /\ \/ command = "connect" /\ Refuse
     \/ /\ handler' = IF command = "udp" THEN "bind" ELSE "dial"
        /\ UNCHANGED <<asked, sockets, verdicts, back, udpRelay>>

-----------------------------------------------------------------------------
(* The target and the answer.                                              *)

\* Fault: the failure is told and the request goes on.
DialAndAnswer ==
  /\ handler = "dial"
  /\ \/ Refuse
     \/ /\ TellRefused
        /\ handler' = "answer"
        /\ UNCHANGED <<asked, sockets, back, udpRelay>>

\* The dialer reaches the target or not; without an address it cannot.
Dial ==
  /\ handler = "dial"
  /\ \/ Refuse
     \/ /\ resolved
        /\ remote' = "open"
        /\ handler' = "answer"
        /\ UNCHANGED <<asked, client, udp, verdicts, back, udpRelay>>

BindUDP ==
  /\ handler = "bind"
  /\ \/ Refuse
     \/ /\ settings.udp
        /\ udp' = "open"
        /\ handler' = "answer"
        /\ UNCHANGED <<asked, client, remote, verdicts, back, udpRelay>>

\* The answer that all is well must get through; then the relay's goroutines
\* start.  The UDP client's address is the one it named, or not known yet.
Answer ==
  /\ handler = "answer"
  /\ \/ /\ handler' = "close"
        /\ UNCHANGED <<verdicts, back, watch, expiry, sender>>
     \/ /\ client = "open"
        /\ verdicts' = Append(verdicts, "granted")
        /\ \/ /\ remote # "nil"
              /\ handler' = "readClient" /\ back' = "read"
              /\ UNCHANGED <<watch, expiry, sender>>
           \/ /\ remote = "nil"
              /\ handler' = "readUDP" /\ watch' = "read" /\ expiry' = "wait"
              /\ sender' \in Peers \union {NoPeer}
              /\ UNCHANGED back
  /\ UNCHANGED <<asked, sockets, leaving, mutex, packet, known, expired, broke>>

-----------------------------------------------------------------------------
(* The TCP relay.                                                          *)

\* One read and, when there is something, one write; a failure of either ends
\* the loop.
ReadClient ==
  /\ handler = "readClient"
  /\ \/ client = "open" /\ handler' = "writeRemote"
     \/ handler' = "closeTCP"
  /\ UNCHANGED <<asked, sockets, verdicts, back, udpRelay>>

WriteRemote ==
  /\ handler = "writeRemote"
  /\ \/ remote = "open" /\ handler' = "readClient"
     \/ handler' = "closeTCP"
  /\ UNCHANGED <<asked, sockets, verdicts, back, udpRelay>>

\* Fault: the sockets are left to the other goroutine.
JoinUnclosed ==
  /\ handler = "closeTCP"
  /\ handler' = "joinTCP"
  /\ UNCHANGED <<asked, sockets, verdicts, back, udpRelay>>

CloseTCP ==
  /\ handler = "closeTCP"
  /\ CloseSockets
  /\ handler' = "joinTCP"
  /\ UNCHANGED <<asked, verdicts, back, udpRelay>>

BackStep ==
  /\ \/ back = "read" /\ \/ remote = "open" /\ back' = "write"
                         \/ back' = "close"
     \/ back = "write" /\ \/ client = "open" /\ back' = "read"
                          \/ back' = "close"
  /\ UNCHANGED <<handler, asked, sockets, verdicts, udpRelay>>

BackClose ==
  /\ back = "close"
  /\ CloseSockets
  /\ back' = "done"
  /\ UNCHANGED <<handler, asked, verdicts, udpRelay>>

\* done: both goroutines meet.
JoinTCP ==
  /\ handler = "joinTCP" /\ back = "done"
  /\ handler' = "close" /\ back' = "ended"
  /\ UNCHANGED <<asked, sockets, verdicts, udpRelay>>

-----------------------------------------------------------------------------
(* The UDP relay.                                                          *)

\* The loop is left.
Break(how) ==
  /\ handler' = "closeUDP"
  /\ broke' = how

\* A packet.  The first sender is taken for the client when none is known.  Its
\* packets are unwrapped and sent to their target, whose exchange begins or is
\* prolonged; a malformed one, or a write that fails, ends the loop.
ReadUDP ==
  /\ handler = "readUDP"
  /\ \/ /\ Break("read")
        /\ UNCHANGED <<exchanges, mutex>>
     \/ /\ udp = "open"
        /\ \E from \in Peers :
             /\ sender' = IF sender = NoPeer THEN from ELSE sender
             /\ IF from = sender'
                THEN \/ Break("malformed") /\ UNCHANGED <<packet, known, expired, mutex>>
                     \/ handler' = "toTarget" /\ UNCHANGED <<packet, known, expired, mutex, broke>>
                ELSE /\ handler' = "toClient" /\ packet' = from
                     /\ UNCHANGED <<known, expired, mutex, broke>>
  /\ UNCHANGED <<asked, sockets, verdicts, back, watch, expiry, leaving>>

ToTarget ==
  /\ handler = "toTarget"
  /\ mutex = "none"
  /\ \E target \in Peers :
       /\ known' = known \union {target}
       /\ expired' = expired \ {target}
  /\ \/ udp = "open" /\ handler' = "readUDP" /\ UNCHANGED broke
     \/ Break("write")
  /\ UNCHANGED <<asked, sockets, verdicts, back, watch, expiry, leaving, mutex, sender, packet>>

\* The mutex is taken for the other packets: one of a known target is on its way
\* to the client, any other is dropped.
ToClient ==
  /\ handler = "toClient"
  /\ mutex = "none"
  /\ packet' = NoPeer
  /\ IF packet \in known
     THEN handler' = "forward" /\ mutex' = "handler" /\ expired' = expired \ {packet}
     ELSE handler' = "readUDP" /\ UNCHANGED <<mutex, expired>>
  /\ UNCHANGED <<asked, sockets, verdicts, back, watch, expiry, leaving, sender, known, broke>>

\* Fault: no unlock after a write that went well.
ForwardLocked ==
  /\ handler = "forward"
  /\ \/ udp = "open" /\ handler' = "readUDP" /\ UNCHANGED broke
     \/ Break("forward")
  /\ UNCHANGED <<asked, sockets, verdicts, back, watch, expiry, leaving, mutex, exchanges>>

\* The mutex is given back, unless the write fails: the loop is left with it.
Forward ==
  /\ handler = "forward"
  /\ \/ udp = "open" /\ handler' = "readUDP" /\ mutex' = "none" /\ UNCHANGED broke
     \/ Break("forward") /\ UNCHANGED mutex
  /\ UNCHANGED <<asked, sockets, verdicts, back, watch, expiry, leaving, exchanges>>

\* Fault: the exchanges' goroutine is not told.
CloseUDPQuietly ==
  /\ handler = "closeUDP"
  /\ CloseSockets
  /\ handler' = "joinUDP"
  /\ UNCHANGED <<asked, verdicts, back, udpRelay>>

CloseUDP ==
  /\ handler = "closeUDP"
  /\ leaving' = TRUE
  /\ CloseSockets
  /\ handler' = "joinUDP"
  /\ UNCHANGED <<asked, verdicts, back, watch, expiry, mutex, exchanges, broke>>

\* One byte after the other is read from the client and thrown away.
WatchEnds ==
  /\ watch = "read"
  /\ watch' = "close"
  /\ UNCHANGED <<handler, asked, sockets, verdicts, back, expiry, leaving, mutex, exchanges, broke>>

WatchClose ==
  /\ watch = "close"
  /\ CloseSockets
  /\ watch' = "done"
  /\ UNCHANGED <<handler, asked, verdicts, back, expiry, leaving, mutex, exchanges, broke>>

\* doneTCP: both goroutines meet.
JoinUDP ==
  /\ handler = "joinUDP" /\ watch = "done"
  /\ handler' = "close" /\ watch' = "ended"
  /\ UNCHANGED <<asked, sockets, verdicts, back, expiry, leaving, mutex, exchanges, broke>>

\* The time of an exchange is over.
ExchangeExpires(p) ==
  /\ p \in known \ expired
  /\ expired' = expired \union {p}
  /\ UNCHANGED <<handler, asked, sockets, verdicts, back, watch, expiry, leaving, mutex,
                 sender, packet, known, broke>>

\* Every two seconds: lock, remove what has expired, unlock.
ExpiryTick ==
  /\ expiry = "wait"
  /\ expiry' = "lock"
  /\ UNCHANGED <<handler, asked, sockets, verdicts, back, watch, leaving, mutex, exchanges, broke>>

ExpirySweep ==
  /\ expiry = "lock" /\ mutex = "none"
  /\ expiry' = "wait"
  /\ known' = known \ expired
  /\ expired' = {}
  /\ UNCHANGED <<handler, asked, sockets, verdicts, back, watch, leaving, mutex,
                 sender, packet, broke>>

ExpiryLeaves ==
  /\ expiry = "wait" /\ leaving
  /\ expiry' = "ended"
  /\ UNCHANGED <<handler, asked, sockets, verdicts, back, watch, leaving, mutex, exchanges, broke>>

-----------------------------------------------------------------------------
\* connHandle closes the request when Process has returned.
CloseRequest ==
  /\ handler = "close"
  /\ CloseSockets
  /\ handler' = "ended"
  /\ UNCHANGED <<asked, verdicts, back, udpRelay>>

\* closeRequests closes it from outside.
ServerCloses ==
  /\ handler # "ended"
  /\ CloseSockets
  /\ UNCHANGED <<handler, asked, verdicts, back, udpRelay>>

\* The steps of the handler that are over some time, all but the dialling.
Proceeds ==
  \/ CheckVersion \/ CheckAuth \/ GetAddr \/ Resolve \/ CheckRemote
  \/ BindUDP \/ Answer
  \/ ReadClient \/ WriteRemote \/ CloseTCP \/ JoinTCP
  \/ ReadUDP \/ ToTarget \/ ToClient \/ Forward \/ CloseUDP \/ JoinUDP
  \/ CloseRequest

Handler == Proceeds \/ Dial

Back == BackStep \/ BackClose
Watch == WatchEnds \/ WatchClose

Next ==
  \/ Handler \/ Back \/ Watch
  \/ ExpiryTick \/ ExpirySweep \/ ExpiryLeaves \/ ServerCloses
  \/ \E p \in Peers : ExchangeExpires(p)

\* Goroutines that can run do run: the handler's and back's reads and writes have
\* deadlines, and a read of the client returns once it is closed.  Of Dial nothing
\* is assumed: the dialer of startSocksProxy (proxy_service.go:139-142) bounds the
\* TCP connection to the upstream proxy only, and what is negotiated over it has
\* neither a deadline nor, RemoteConn being nil, anyone who could close it.  A
\* goroutine that waits for its next tick and for doneExchange takes the latter
\* some time when both are there.
Fairness ==
  /\ WF_vars(Proceeds)
  /\ WF_vars(Back)
  /\ WF_vars(WatchClose)
  /\ WF_vars(client = "closed" /\ WatchEnds)
  /\ WF_vars(ExpirySweep)
  /\ SF_vars(ExpiryLeaves)

Spec == Init /\ [][Next]_vars /\ Fairness

-----------------------------------------------------------------------------
Handshaking == {"version", "auth", "addr", "resolve", "check", "dial", "bind", "answer"}

TypeOK ==
  /\ handler \in Handshaking \union
       {"readClient", "writeRemote", "closeTCP", "joinTCP", "readUDP", "toTarget", "toClient",
        "forward", "closeUDP", "joinUDP", "close", "ended"}
  /\ settings \in [auth : BOOLEAN, udp : BOOLEAN]
  /\ command \in {"none", "connect", "udp"}
  /\ resolved \in BOOLEAN
  /\ client \in {"open", "closed"}
  /\ remote \in {"nil", "open", "closed"}
  /\ udp \in {"nil", "open", "closed"}
  /\ back \in {"none", "read", "write", "close", "done", "ended"}
  /\ watch \in {"none", "read", "close", "done", "ended"}
  /\ expiry \in {"none", "wait", "lock", "ended"}
  /\ leaving \in BOOLEAN
  /\ verdicts \in Seq({"refused", "granted"})
  /\ mutex \in {"none", "handler"}
  /\ sender \in Peers \union {NoPeer}
  /\ packet \in Peers \union {NoPeer}
  /\ known \in SUBSET Peers
  /\ expired \in SUBSET known
  /\ broke \in {"none", "read", "malformed", "write", "forward"}

\* When connHandle has ended, no socket of the request is open, whoever closed
\* what in which order, and the goroutines it waits for have ended with it.
EndedIsReleased ==
  handler = "ended" =>
    /\ client = "closed" /\ remote # "open" /\ udp # "open"
    /\ back \in {"none", "ended"} /\ watch \in {"none", "ended"}

\* A client that was refused is not granted its request afterwards, nor the
\* reverse, and only one whose name could not be resolved is refused twice.
OneVerdict == Len(verdicts) > 1 => verdicts = <<"refused", "refused">> /\ ~resolved

\* udpMutex is left locked by one thing only, a packet for the client that could
\* not be written.
LockLeaksByForwardOnly ==
  handler \in {"closeUDP", "joinUDP", "close", "ended"} /\ mutex # "none" => broke = "forward"

\* A request ends as a whole: once the server has closed it, or any one of its
\* relay loops is over, the others follow and the handler returns, unless it is
\* one whose dialling never comes back.
OneEndEndsAll ==
  client = "closed" \/ "close" \in {back, watch} \/ handler \in {"closeTCP", "closeUDP"}
    ~> (handler = "ended" \/ [](handler = "dial"))

\* And so does the goroutine of its exchanges, if the mutex was not left locked.
ExpiryEnds == handler = "ended" /\ mutex = "none" ~> expiry \in {"none", "ended"}
=============================================================================
