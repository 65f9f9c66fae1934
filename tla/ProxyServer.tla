----------------------------- MODULE ProxyServer -----------------------------
(***************************************************************************)
(* The proxyServer of src/src/proxy/et_http_server.go: a map from connKey  *)
(* to tcpClient, looked up, filled and emptied by one ServeHTTP goroutine  *)
(* per request and by the checkLoop of every tcpClient.  getTCPClient,     *)
(* addTCPClient and deleteTCPClient each hold the lock; what ServeHTTP     *)
(* does between two of them does not.                                      *)
(*                                                                         *)
(* A handler is a number, in order of arrival, and a tcpClient is the      *)
(* number of the handler whose CONNECT made it.  Of a tcpClient only its   *)
(* life matters here; TcpClient has the rest.  Requests with another path  *)
(* get an error, change nothing and are left out.                          *)
(***************************************************************************)
EXTENDS Naturals

CONSTANTS
    Keys,       \* the connKeys
    MaxReq      \* bound: requests that arrive

ASSUME ProxyServerAssumption == MaxReq \in Nat

VARIABLES
    tcpClientMgr,   \* proxyServer.tcpClientMgr
    hPc,            \* label of each handler
    hReq,           \* its request: operation and key
    found,          \* the tcpClient its getTCPClient returned, or Nil
    status,         \* how it was answered
    tc,             \* the life of the tcpClient each handler made
    raced           \* history: keys with two CONNECTs between lookup and add

vars == <<tcpClientMgr, hPc, hReq, found, status, tc, raced>>

Nil == 0
Handlers == 1 .. MaxReq
Ops == {"connect", "data"}
NoReq == [op |-> "none", key |-> Nil]

\* NewProxyServer
Init ==
    /\ tcpClientMgr = [k \in Keys |-> Nil]
    /\ hPc = [r \in Handlers |-> "none"]
    /\ hReq = [r \in Handlers |-> NoReq]
    /\ found = [r \in Handlers |-> Nil]
    /\ status = [r \in Handlers |-> "none"]
    /\ tc = [r \in Handlers |-> "none"]
    /\ raced = {}

-----------------------------------------------------------------------------
(* ServeHTTP                                                               *)

Key(r) == hReq[r].key

\* net/http starts a handler for each request that arrives.
Arrive(r, op, k) ==
    /\ hPc[r] = "none" /\ \A q \in 1 .. r - 1 : hPc[q] # "none"
    /\ hReq' = [hReq EXCEPT ![r] = [op |-> op, key |-> k]]
    /\ hPc' = [hPc EXCEPT ![r] = "get"]
    /\ UNCHANGED <<tcpClientMgr, found, status, tc, raced>>

Answer(r, s) ==
    /\ status' = [status EXCEPT ![r] = s]
    /\ hPc' = [hPc EXCEPT ![r] = "done"]

\* The handlers of a CONNECT that have looked up the key but not added to it.
Connecting(k) == {q \in Handlers : Key(q) = k /\ hPc[q] \in {"dial", "add"}}

MayDial_Always(c) == TRUE
MayDial(c) == c = Nil

\* getTCPClient, and the switch on the path up to the next shared access.
Get(r) ==
    LET c == tcpClientMgr[Key(r)] op == hReq[r].op IN
    /\ hPc[r] = "get"
    /\ found' = [found EXCEPT ![r] = c]
    /\ \/ /\ op = "connect" /\ MayDial(c)
          /\ hPc' = [hPc EXCEPT ![r] = "dial"]
          /\ raced' = IF Connecting(Key(r)) # {} THEN raced \cup {Key(r)} ELSE raced
          /\ UNCHANGED status
       \/ /\ op = "data" /\ c # Nil
          /\ hPc' = [hPc EXCEPT ![r] = "push"]
          /\ UNCHANGED <<status, raced>>
       \/ /\ \/ op = "connect" /\ ~MayDial(c)
             \/ op = "data" /\ c = Nil
          /\ Answer(r, "error") /\ UNCHANGED raced
    /\ UNCHANGED <<tcpClientMgr, hReq, tc>>

\* newTCPClient: the tcpClient's loops run from here on, also its checkLoop.
Dial(r) ==
    /\ hPc[r] = "dial"
    /\ tc' = [tc EXCEPT ![r] = "alive"]
    /\ hPc' = [hPc EXCEPT ![r] = "add"]
    /\ UNCHANGED <<tcpClientMgr, hReq, found, status, raced>>

\* newTCPClient returns nil: the address does not resolve or answer.
DialFails(r) ==
    /\ hPc[r] = "dial" /\ Answer(r, "error")
    /\ UNCHANGED <<tcpClientMgr, hReq, found, tc, raced>>

\* addTCPClient, whatever the entry is by now; the handler returns: a 200.
Add(r) ==
    /\ hPc[r] = "add" /\ Answer(r, "ok")
    /\ tcpClientMgr' = [tcpClientMgr EXCEPT ![Key(r)] = r]
    /\ UNCHANGED <<hReq, found, tc, raced>>

\* pushHTTPRequest on the tcpClient found before: queued, whether it lives or not.
Push(r) ==
    /\ hPc[r] = "push" /\ hPc' = [hPc EXCEPT ![r] = "wait"]
    /\ UNCHANGED <<tcpClientMgr, hReq, found, status, tc, raced>>

\* ... or refused for its seq number.
Refuse(r) ==
    /\ hPc[r] = "push" /\ Answer(r, "error")
    /\ UNCHANGED <<tcpClientMgr, hReq, found, tc, raced>>

\* The tcpClient answers and releases the handler: wg.Done.
Serve(r) ==
    /\ hPc[r] = "wait" /\ Answer(r, "ok")
    /\ UNCHANGED <<tcpClientMgr, hReq, found, tc, raced>>

-----------------------------------------------------------------------------
(* The tcpClients                                                          *)

\* isAlive turns FALSE: the connection died, or no request came for too long.
Die(c) ==
    /\ tc[c] = "alive" /\ tc' = [tc EXCEPT ![c] = "dead"]
    /\ UNCHANGED <<tcpClientMgr, hPc, hReq, found, status, raced>>

Forget_Nothing(k) == tcpClientMgr
Forget(k) == [tcpClientMgr EXCEPT ![k] = Nil]

\* checkLoop calls destroy, which begins with onDestroy: deleteTCPClient(connKey).
OnDestroy(c) ==
    /\ tc[c] = "dead" /\ tc' = [tc EXCEPT ![c] = "destroyed"]
    /\ tcpClientMgr' = Forget(Key(c))
    /\ UNCHANGED <<hPc, hReq, found, status, raced>>

-----------------------------------------------------------------------------
ServeHTTP(r) == Get(r) \/ Dial(r) \/ DialFails(r) \/ Add(r) \/ Push(r) \/ Refuse(r)
TcpClient(c) == Die(c) \/ OnDestroy(c)
Requests == \E r \in Handlers, op \in Ops, k \in Keys : Arrive(r, op, k)

Next == Requests \/ \E r \in Handlers : ServeHTTP(r) \/ Serve(r) \/ TcpClient(r)

Spec == Init /\ [][Next]_vars

-----------------------------------------------------------------------------
(* Properties                                                              *)

\* Type invariant: the map holds tcpClients that were made, under their keys.
TypeOK ==
    /\ tcpClientMgr \in [Keys -> Nil .. MaxReq]
    /\ hPc \in [Handlers -> {"none", "get", "dial", "add", "push", "wait", "done"}]
    /\ hReq \in [Handlers -> [op : Ops, key : Keys] \cup {NoReq}]
    /\ found \in [Handlers -> Nil .. MaxReq]
    /\ status \in [Handlers -> {"none", "ok", "error"}]
    /\ tc \in [Handlers -> {"none", "alive", "dead", "destroyed"}]
    /\ raced \subseteq Keys
    /\ \A r \in Handlers : hPc[r] # "none" => Key(r) \in Keys

\* A tcpClient whose CONNECT was answered and that was not destroyed.
Established(c) == tc[c] \in {"alive", "dead"} /\ hPc[c] = "done"

\* A tunnel that was established stays reachable until it is destroyed, unless
\* two CONNECTs of its key overlapped: then one replaces the other, and the
\* destroy of either removes the entry of whichever is left.
Reachable ==
    \A c \in Handlers :
        Established(c) /\ Key(c) \notin raced => tcpClientMgr[Key(c)] = c

\* A destroyed tcpClient that is still in the map: CONNECTs of its key are
\* refused and requests are queued to it, for ever.
Zombie(c) == tc[c] = "destroyed" /\ \E k \in Keys : tcpClientMgr[k] = c

\* A tcpClient is destroyed and in the map only if it was destroyed before its
\* own handler added it: no other order of the two goroutines leaves it there.
ZombieIsAddedLate ==
    [][\A c \in Handlers : ~Zombie(c) /\ Zombie(c)' => hPc[c] = "add"]_vars
=============================================================================
