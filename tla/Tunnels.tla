------------------------------- MODULE Tunnels -------------------------------
(***************************************************************************)
(* Client processes (ClientServer) and the server process (ProxyServer)    *)
(* with the HTTP requests between them: CONNECTs, which the transport may  *)
(* repeat or whose answer it may lose, and the data requests of open       *)
(* connections.  The question is whose tunnel a request reaches, and what  *)
(* is left of a tunnel when one of its ends is gone.                       *)
(***************************************************************************)
EXTENDS ProxyServer

CONSTANTS
    Procs,      \* the client processes: 1, 2, ...
    Conns       \* bound: the connections they accept: 1, 2, ...

ASSUME TunnelsAssumption == (Procs \cup Conns \cup Keys) \subseteq Nat \ {0}

VARIABLES
    running, conn, owner, connKey,      \* see ClientServer
    sender                              \* the connection each request belongs to

clientVars == <<running, conn, owner, connKey>>
serverVars == vars
tunnelsVars == <<clientVars, serverVars, sender>>

C == INSTANCE ClientServer

Nobody == 0

TunnelsInit == C!Init /\ Init /\ sender = [r \in Handlers |-> Nobody]

-----------------------------------------------------------------------------
RequestsOf(n, op) == {r \in Handlers : sender[r] = n /\ hReq[r].op = op}
IsOpen(n) == conn[n] = "open"

\* A request of connection n arrives at the server.
Send(n, op, k) ==
    \E r \in Handlers : Arrive(r, op, k) /\ sender' = [sender EXCEPT ![r] = n]

\* A connection is accepted, and the CONNECT of its tunnel arrives.  The first
\* connection is of the first process and has the first key, and so on: the
\* other ways to name them differ in nothing else.
Connect ==
    \E n \in Conns : \E p \in Procs \cap 1 .. n, k \in Keys \cap 1 .. n :
        C!Accept(p, n, k) /\ Send(n, "connect", k)

\* net/http sends a GET again whose connection broke before the answer came.
ConnectAgain(n) ==
    /\ conn[n] = "connecting" /\ Send(n, "connect", connKey[n])
    /\ UNCHANGED clientVars

\* The answer to the last CONNECT decides; any answer may be lost.
LastConnect(n) ==
    CHOOSE r \in RequestsOf(n, "connect") : \A q \in RequestsOf(n, "connect") : q <= r

ConnectAnswered(n) ==
    /\ conn[n] = "connecting"
    /\ \/ status[LastConnect(n)] = "ok" /\ C!Established(n)
       \/ C!Failed(n)
    /\ UNCHANGED <<serverVars, sender>>

\* sendData: the next request goes out when the one before it was answered.
Data(n) ==
    /\ IsOpen(n) /\ \A r \in RequestsOf(n, "data") : status[r] # "none"
    /\ Send(n, "data", connKey[n])
    /\ UNCHANGED clientVars

\* The tunnel ends: for a data request that was refused, or by the other end.
Close(n) == C!Close(n) /\ UNCHANGED <<serverVars, sender>>

Panic(p) == C!Panic(p) /\ UNCHANGED <<serverVars, sender>>
AcceptFails(p) == C!AcceptFails(p) /\ UNCHANGED <<serverVars, sender>>

\* The steps of the server process.
Handler(r) == ServeHTTP(r) /\ UNCHANGED <<clientVars, sender>>
Reply(r) == Serve(r) /\ UNCHANGED <<clientVars, sender>>
Lost(c) == Die(c) /\ UNCHANGED <<clientVars, sender>>
Destroyed(c) == OnDestroy(c) /\ UNCHANGED <<clientVars, sender>>

TunnelsNext ==
    \/ Connect
    \/ \E n \in Conns : ConnectAgain(n) \/ ConnectAnswered(n) \/ Data(n) \/ Close(n)
    \/ \E p \in Procs : Panic(p) \/ AcceptFails(p)
    \/ \E r \in Handlers : Handler(r) \/ Reply(r) \/ Lost(r) \/ Destroyed(r)

TunnelsSpec == TunnelsInit /\ [][TunnelsNext]_tunnelsVars

\* The connection whose CONNECT made a tcpClient.
Maker(c) == sender[c]
Lives(c) == c # Nobody /\ tc[c] = "alive"
Deserted(c) == sender[c] # Nobody /\ conn[Maker(c)] = "closed"

\* Handlers and loops that can run do run; a nil interface that is used panics;
\* a tcpClient that lives answers its requests, and ConnectionTimeoutSec ends one
\* that gets no requests any more.
Fairness ==
    /\ \A r \in Handlers :
        /\ WF_tunnelsVars(Handler(r)) /\ WF_tunnelsVars(Destroyed(r))
        /\ WF_tunnelsVars(Lives(found[r]) /\ Reply(r))
        /\ WF_tunnelsVars(Deserted(r) /\ Lost(r))
    /\ \A p \in Procs : WF_tunnelsVars(Panic(p))

FairSpec == TunnelsSpec /\ Fairness

-----------------------------------------------------------------------------
(* Properties                                                              *)

\* Two processes read the same microsecond of their clocks as connKey.
SameKey(m, n) == owner[m] # owner[n] /\ connKey[m] = connKey[n]

\* The tunnel of connection n was made and is destroyed.
HasLost(n) == \E c \in Handlers : Maker(c) = n /\ tc[c] = "destroyed"

\* A request that the server finds a tcpClient for meets the tunnel of its own
\* connection.  It meets another one only if a connection of another process has
\* the same connKey, and then it is a CONNECT, which is refused, or its own
\* tunnel is destroyed, or two CONNECTs of the key overlapped.
NoCrossTalk ==
    \A r \in Handlers : found[r] # Nobody /\ Maker(found[r]) # sender[r] =>
        /\ SameKey(Maker(found[r]), sender[r])
        /\ hReq[r].op = "connect" \/ HasLost(sender[r]) \/ Key(r) \in raced

\* The server forgets a tunnel that was established and whose client is gone.
DesertedIsForgotten ==
    \A c \in Handlers :
        Established(c) /\ Deserted(c) ~> \A k \in Keys : tcpClientMgr[k] # c

\* "if ts != nil ... else tcp_conn.Close()" (et_tcp_server.go:42): the failure of
\* one CONNECT closes that connection; the process and its other tunnels go on.
FailureIsLocal ==
    [][\A p \in Procs : p \in running \ running' => \A n \in Conns : conn[n] # "nil"]_tunnelsVars
=============================================================================
