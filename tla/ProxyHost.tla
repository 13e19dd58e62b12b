------------------------------ MODULE ProxyHost ------------------------------
(***************************************************************************)
(* internal/proxy/proxy_service.go: the local proxy in front of the        *)
(* upstream one, and Host, the address that requests are given.  The       *)
(* address is published before the local proxy listens, the check of the   *)
(* upstream proxy and the local proxy share an errgroup, and the flag is   *)
(* up before anything has been checked.                                    *)
(***************************************************************************)

VARIABLES
    proxy,     \* the upstream proxy: "none" if the server has no proxy service,
               \* "open" if it asks for no password
    alive,     \* the flag isAlive
    local,     \* the local proxy: "none", "published", "listening", "failed"
    checking   \* the ticker's loop runs

proxyVars == <<proxy, alive, local, checking>>

Upstreams == {"none", "open", "http", "socks"}

\* Only an upstream proxy with a password has a local one in front of it.
Fronted == proxy \in {"http", "socks"}

ProxyTypeOK ==
    /\ proxy \in Upstreams /\ alive \in BOOLEAN /\ checking \in BOOLEAN
    /\ local \in {"none", "published", "listening", "failed"}

\* NewService and Start.  PROXY_HOST may be missing (server.go:96).
ProxyInit ==
    /\ proxy \in Upstreams
    /\ alive = TRUE
    /\ local = "none"
    /\ checking = (proxy # "none")

\* A proxy as a request may have it: none, one its caller named, or Host's.
Proxies == {"none", "named", "local"}

Host == IF alive /\ local # "none" THEN "local" ELSE "none"

Check ==
    /\ checking
    /\ alive' \in BOOLEAN
    /\ UNCHANGED <<proxy, local, checking>>

\* startSocksProxy, startHttpProxy: a port is found free and given back.
Publish ==
    /\ Fronted /\ local = "none" /\ checking
    /\ local' = "published"
    /\ UNCHANGED <<proxy, alive, checking>>

Listen ==
    /\ local = "published"
    /\ local' = "listening"
    /\ UNCHANGED <<proxy, alive, checking>>

\* The goroutine returns its error, which ends the group's context and with it
\* the checks: the flag and the address stay as they are.
LocalProxyFails ==
    /\ Fronted /\ checking
    /\ local' = IF local = "none" THEN "none" ELSE "failed"
    /\ checking' = FALSE
    /\ UNCHANGED <<proxy, alive>>

ProxyNext == Check \/ Publish \/ Listen \/ LocalProxyFails
=============================================================================
