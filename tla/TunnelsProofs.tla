---------------------------- MODULE TunnelsProofs ----------------------------
(***************************************************************************)
(* Theorems about ProxyServer, for every set of keys and every number of   *)
(* requests, and about Tunnels, for every number of client processes, of   *)
(* connections they accept, of keys and of requests.  Every step of the    *)
(* composition is one of the server process or leaves it alone, so what is *)
(* true of the server process for any requests is true for these.          *)
(***************************************************************************)
EXTENDS Tunnels, QueueFacts

-----------------------------------------------------------------------------
(* The server process                                                      *)

\* The map holds tcpClients that their own handler added under their own key.
EntryInv ==
    \A k \in Keys : tcpClientMgr[k] # Nil =>
        /\ hPc[tcpClientMgr[k]] = "done"
        /\ Key(tcpClientMgr[k]) = k

\* A tcpClient exists from newTCPClient on.
LifeInv == \A r \in Handlers : tc[r] # "none" => hPc[r] \in {"add", "done"}

\* Without a race, the handler between lookup and add is alone with its key, and
\* what its lookup saw still holds.
AloneInv ==
    \A r \in Handlers : hPc[r] \in {"dial", "add"} /\ Key(r) \notin raced =>
        /\ tcpClientMgr[Key(r)] = Nil
        /\ \A q \in Connecting(Key(r)) : q = r

IInv == TypeOK /\ EntryInv /\ LifeInv /\ AloneInv /\ Reachable

\* TypeOK is inductive together with LifeInv: a tcpClient that is destroyed has
\* the key of a request that arrived.
LEMMA InitTypeOK == Init => TypeOK /\ LifeInv
  BY ProxyServerAssumption DEF Init, TypeOK, LifeInv, Handlers, Ops, NoReq, Nil, Key

LEMMA NextTypeOK == TypeOK /\ LifeInv /\ [Next]_vars => TypeOK' /\ LifeInv'
<1> SUFFICES ASSUME TypeOK, LifeInv, [Next]_vars PROVE TypeOK' /\ LifeInv'
  OBVIOUS
<1> USE ProxyServerAssumption DEF TypeOK, LifeInv, Handlers, Key, Nil
<1>1. ASSUME NEW r \in Handlers, NEW op \in Ops, NEW k \in Keys, Arrive(r, op, k)
      PROVE  TypeOK' /\ LifeInv'
  BY <1>1 DEF Arrive
<1>2. ASSUME NEW r \in Handlers, Get(r) PROVE TypeOK' /\ LifeInv'
  BY <1>2 DEF Get, Answer
<1>3. ASSUME NEW r \in Handlers, Dial(r) PROVE TypeOK' /\ LifeInv'
  BY <1>3 DEF Dial
<1>4. ASSUME NEW r \in Handlers, DialFails(r) PROVE TypeOK' /\ LifeInv'
  BY <1>4 DEF DialFails, Answer
<1>5. ASSUME NEW r \in Handlers, Add(r) PROVE TypeOK' /\ LifeInv'
  BY <1>5 DEF Add, Answer
<1>6. ASSUME NEW r \in Handlers, Push(r) \/ Refuse(r) \/ Serve(r)
      PROVE  TypeOK' /\ LifeInv'
  BY <1>6 DEF Push, Refuse, Serve, Answer
<1>7. ASSUME NEW r \in Handlers, Die(r) PROVE TypeOK' /\ LifeInv'
  BY <1>7 DEF Die
<1>8. ASSUME NEW r \in Handlers, OnDestroy(r) PROVE TypeOK' /\ LifeInv'
  <2>1. Key(r) \in Keys
    BY <1>8 DEF OnDestroy
  <2> QED
    BY <1>8, <2>1 DEF OnDestroy, Forget
<1>9. CASE UNCHANGED vars
  BY <1>9 DEF vars
<1> QED
  BY <1>1, <1>2, <1>3, <1>4, <1>5, <1>6, <1>7, <1>8, <1>9
     DEF Next, Requests, ServeHTTP, TcpClient

-----------------------------------------------------------------------------
LEMMA InitIInv == Init => IInv
  BY InitTypeOK DEF Init, IInv, EntryInv, LifeInv, AloneInv, Reachable, Established, Nil

\* The lookup is where a race begins: it sees either the entry or nobody else
\* between lookup and add, or marks the key.
LEMMA GetIInv == \A r \in Handlers : IInv /\ Get(r) => IInv'
<1> SUFFICES ASSUME NEW r \in Handlers, IInv, Get(r) PROVE IInv'
  OBVIOUS
<1>t. TypeOK' /\ LifeInv'
  BY NextTypeOK DEF IInv, Next, ServeHTTP
<1> USE ProxyServerAssumption, <1>t DEF IInv, TypeOK, LifeInv, Handlers, Key, Nil
<1>k. /\ Key(r) \in Keys /\ hPc[r] = "get" /\ tc[r] = "none"
      /\ UNCHANGED <<tcpClientMgr, hReq, tc>> /\ raced \subseteq raced'
      /\ \A q \in Handlers \ {r} : hPc'[q] = hPc[q]
      /\ hPc'[r] \in {"dial", "push", "done"}
  <2>1. hPc[r] = "get" /\ UNCHANGED <<tcpClientMgr, hReq, tc>>
    BY DEF Get
  <2>2. \E p \in {"dial", "push", "done"} : hPc' = [hPc EXCEPT ![r] = p]
    BY DEF Get, Answer
  <2>3. raced \subseteq raced'
    BY DEF Get
  <2> QED
    BY <2>1, <2>2, <2>3
<1>1. EntryInv'
  BY <1>k DEF EntryInv
<1>2. Reachable'
  BY <1>k DEF Reachable, Established
<1>3. AloneInv'
  <2>1. CASE hPc'[r] = "dial"
    <3>1. tcpClientMgr[Key(r)] = Nil
      BY <2>1 DEF Get, Answer, MayDial
    <3>2. Connecting(Key(r)) # {} => Key(r) \in raced'
      BY <2>1 DEF Get, Answer
    <3> SUFFICES ASSUME NEW p \in Handlers, hPc'[p] \in {"dial", "add"},
                        Key(p) \notin raced', NEW q \in Handlers, Key(q) = Key(p),
                        hPc'[q] \in {"dial", "add"}
                 PROVE  tcpClientMgr[Key(p)] = Nil /\ q = p
      BY <1>k DEF AloneInv, Connecting
    <3>3. CASE p = r
      BY <1>k, <3>1, <3>2, <3>3 DEF Connecting
    <3>4. CASE p # r /\ q = r
      BY <1>k, <3>2, <3>4 DEF Connecting
    <3>5. CASE p # r /\ q # r
      BY <1>k, <3>5 DEF AloneInv, Connecting
    <3> QED
      BY <3>3, <3>4, <3>5
  <2>2. CASE hPc'[r] # "dial"
    BY <1>k, <2>2 DEF AloneInv, Connecting
  <2> QED
    BY <2>1, <2>2
<1> QED
  BY <1>1, <1>2, <1>3

LEMMA NextIInv == IInv /\ [Next]_vars => IInv'
<1> SUFFICES ASSUME IInv, [Next]_vars PROVE IInv'
  OBVIOUS
<1>t. TypeOK' /\ LifeInv' /\ TypeOK
  BY NextTypeOK DEF IInv
<1> USE ProxyServerAssumption, <1>t
    DEF IInv, TypeOK, EntryInv, LifeInv, AloneInv, Reachable, Established, Connecting,
        Handlers, Key, Nil
<1>1. ASSUME NEW r \in Handlers, NEW op \in Ops, NEW k \in Keys, Arrive(r, op, k)
      PROVE  IInv'
  BY <1>1 DEF Arrive
<1>2. ASSUME NEW r \in Handlers, Get(r) PROVE IInv'
  BY <1>2, GetIInv
<1>3. ASSUME NEW r \in Handlers, Dial(r) PROVE IInv'
  BY <1>3 DEF Dial
<1>4. ASSUME NEW r \in Handlers, DialFails(r) PROVE IInv'
  BY <1>4 DEF DialFails, Answer
<1>5. ASSUME NEW r \in Handlers, Add(r) PROVE IInv'
  BY <1>5 DEF Add, Answer
<1>6. ASSUME NEW r \in Handlers, Push(r) \/ Refuse(r) \/ Serve(r) PROVE IInv'
  <2>1. /\ hPc[r] \in {"push", "wait"} /\ tc[r] = "none"
        /\ UNCHANGED <<tcpClientMgr, hReq, tc, raced>>
    BY <1>6 DEF Push, Refuse, Serve
  <2>2. \E p \in {"wait", "done"} : hPc' = [hPc EXCEPT ![r] = p]
    BY <1>6 DEF Push, Refuse, Serve, Answer
  <2>3. EntryInv'
    BY <2>1, <2>2
  <2>4. AloneInv'
    BY <2>1, <2>2
  <2>5. Reachable'
    BY <2>1, <2>2
  <2> QED
    BY <2>3, <2>4, <2>5
<1>7. ASSUME NEW r \in Handlers, Die(r) PROVE IInv'
  BY <1>7 DEF Die
<1>8. ASSUME NEW r \in Handlers, OnDestroy(r) PROVE IInv'
  BY <1>8 DEF OnDestroy, Forget
<1>9. CASE UNCHANGED vars
  BY <1>9 DEF vars
<1> QED
  BY <1>1, <1>2, <1>3, <1>4, <1>5, <1>6, <1>7, <1>8, <1>9
     DEF Next, Requests, ServeHTTP, TcpClient

LEMMA Inductive == Spec => []IInv
  BY InitIInv, NextIInv, PTL DEF Spec

-----------------------------------------------------------------------------
\* The map, the handlers and the tcpClients keep to their types.
THEOREM TypeCorrect == Spec => []TypeOK
  BY Inductive, PTL DEF IInv

\* A tunnel that was established is found under its key until it is destroyed,
\* unless two CONNECTs of its key overlapped, for any number of requests, keys,
\* deaths and repeated CONNECTs (proxyServer.ServeHTTP, deleteTCPClient).
THEOREM ReachableCorrect == Spec => []Reachable
  BY Inductive, PTL DEF IInv

\* A destroyed tcpClient stays in the map only if it was destroyed before its
\* handler added it.
THEOREM ZombieIsAddedLateCorrect == Spec => ZombieIsAddedLate
<1>1. IInv /\ [Next]_vars => [\A c \in Handlers : ~Zombie(c) /\ Zombie(c)' => hPc[c] = "add"]_vars
  <2> SUFFICES ASSUME IInv, Next, NEW c \in Handlers, ~Zombie(c), Zombie(c)'
               PROVE  hPc[c] = "add"
    OBVIOUS
  <2> USE ProxyServerAssumption DEF IInv, TypeOK, EntryInv, Handlers, Key, Nil, Zombie
  <2>1. ASSUME NEW r \in Handlers, Add(r) PROVE hPc[c] = "add"
    BY <2>1 DEF Add, Answer
  <2>2. ASSUME NEW r \in Handlers, OnDestroy(r) PROVE hPc[c] = "add"
    <3>1. Key(r) \in Keys
      BY <2>2 DEF OnDestroy, LifeInv
    <3>2. PICK k \in Keys : tcpClientMgr'[k] = c
      OBVIOUS
    <3>3. tcpClientMgr[k] = c /\ k # Key(r)
      BY <2>2, <3>1, <3>2 DEF OnDestroy, Forget
    <3>4. c = r
      BY <2>2, <3>3 DEF OnDestroy
    <3> QED
      BY <3>3, <3>4
  <2>3. ASSUME UNCHANGED <<tcpClientMgr, tc>> PROVE FALSE
    BY <2>3
  <2>4. ASSUME NEW r \in Handlers, Dial(r) \/ Die(r) PROVE FALSE
    BY <2>4 DEF Dial, Die
  <2> QED
    BY <2>1, <2>2, <2>3, <2>4
       DEF Next, Requests, Arrive, ServeHTTP, Get, DialFails, Push, Refuse, Serve, TcpClient
<1> QED
  BY <1>1, Inductive, PTL DEF Spec, ZombieIsAddedLate

-----------------------------------------------------------------------------
(* Client processes and the server process                                 *)

ClientTypes ==
    /\ DOMAIN conn = Conns /\ DOMAIN owner = Conns
    /\ connKey \in [Conns -> Nat]
    /\ \A n \in Conns : conn[n] # "none" => connKey[n] \in Keys
    /\ sender \in [Handlers -> Conns \cup {Nobody}]

\* A request has the key of the connection that sent it.
SenderInv ==
    \A r \in Handlers : hPc[r] # "none" =>
        /\ sender[r] \in Conns /\ conn[sender[r]] # "none"
        /\ Key(r) = connKey[sender[r]]

\* One process uses a key once.
KeysDiffer ==
    \A m, n \in Conns :
        m # n /\ conn[m] # "none" /\ conn[n] # "none" /\ owner[m] = owner[n]
            => connKey[m] # connKey[n]

\* A lookup finds a tcpClient of the key it looked for, if any.
FoundInv ==
    \A r \in Handlers : found[r] # Nil =>
        /\ hPc[r] # "none"
        /\ found[r] \in Handlers /\ hPc[found[r]] # "none"
        /\ Key(found[r]) = Key(r)

TunnelsInv == IInv /\ ClientTypes /\ SenderInv /\ KeysDiffer /\ FoundInv

-----------------------------------------------------------------------------
(* The two processes, each by itself                                       *)

\* What a step does: the accept loops move and a request may arrive, or the
\* server moves and the clients do not.
LEMMA TunnelsStep ==
  ASSUME ClientTypes, [TunnelsNext]_tunnelsVars
  PROVE  \/ \E n \in Conns, p \in Procs, k \in Keys :
               C!Accept(p, n, k) /\ Send(n, "connect", k)
         \/ \E n \in Conns, op \in Ops :
               /\ conn[n] # "none" /\ connKey[n] \in Keys /\ Send(n, op, connKey[n])
               /\ UNCHANGED clientVars
         \/ /\ \/ \E n \in Conns : C!Established(n) \/ C!Failed(n) \/ C!Close(n)
               \/ \E p \in Procs : C!Exit(p)
            /\ UNCHANGED <<serverVars, sender>>
         \/ /\ \E r \in Handlers : ServeHTTP(r) \/ Serve(r) \/ Die(r) \/ OnDestroy(r)
            /\ UNCHANGED <<clientVars, sender>>
         \/ UNCHANGED tunnelsVars
<1>1. CASE Connect
  BY <1>1 DEF Connect
<1>2. ASSUME NEW n \in Conns, ConnectAgain(n) \/ Data(n)
      PROVE  \E op \in Ops :
               /\ conn[n] # "none" /\ connKey[n] \in Keys /\ Send(n, op, connKey[n])
               /\ UNCHANGED clientVars
  <2>1. conn[n] # "none"
    BY <1>2 DEF ConnectAgain, Data, IsOpen
  <2>2. QED
    BY <1>2, <2>1 DEF ConnectAgain, Data, Ops, ClientTypes
<1>3. ASSUME NEW n \in Conns, ConnectAnswered(n) \/ Close(n)
      PROVE  (C!Established(n) \/ C!Failed(n) \/ C!Close(n)) /\ UNCHANGED <<serverVars, sender>>
  BY <1>3 DEF ConnectAnswered, Close
<1>4. ASSUME NEW p \in Procs, Panic(p) \/ AcceptFails(p)
      PROVE  C!Exit(p) /\ UNCHANGED <<serverVars, sender>>
  BY <1>4 DEF Panic, AcceptFails, C!Panic, C!AcceptFails
<1>5. ASSUME NEW r \in Handlers, Handler(r) \/ Reply(r) \/ Lost(r) \/ Destroyed(r)
      PROVE  (ServeHTTP(r) \/ Serve(r) \/ Die(r) \/ OnDestroy(r)) /\ UNCHANGED <<clientVars, sender>>
  BY <1>5 DEF Handler, Reply, Lost, Destroyed
<1>6. QED
  BY <1>1, <1>2, <1>3, <1>4, <1>5 DEF TunnelsNext

LEMMA ServerStep ==
  ASSUME ClientTypes, [TunnelsNext]_tunnelsVars
  PROVE  [Next]_vars
<1>1. ASSUME NEW n \in Conns, NEW op \in Ops, NEW k \in Keys, Send(n, op, k) PROVE Next
  BY <1>1 DEF Send, Next, Requests
<1>2. ASSUME NEW r \in Handlers, ServeHTTP(r) \/ Serve(r) \/ Die(r) \/ OnDestroy(r) PROVE Next
  BY <1>2 DEF Next, TcpClient
<1>3. "connect" \in Ops
  BY DEF Ops
<1>4. QED
  BY <1>1, <1>2, <1>3, TunnelsStep DEF tunnelsVars, serverVars

\* A connection that was accepted stays what it is; a new one has a key that its
\* process has not used.
LEMMA ClientStep ==
  ASSUME ClientTypes, KeysDiffer, [TunnelsNext]_tunnelsVars
  PROVE  /\ DOMAIN conn' = Conns /\ DOMAIN owner' = Conns /\ connKey' \in [Conns -> Nat]
         /\ \A n \in Conns : conn'[n] # "none" => connKey'[n] \in Keys
         /\ KeysDiffer'
         /\ \A n \in Conns : conn[n] # "none" =>
               conn'[n] # "none" /\ owner'[n] = owner[n] /\ connKey'[n] = connKey[n]
<1>k. Keys \subseteq Nat
  BY TunnelsAssumption DEF TunnelsAssumption
<1>1. ASSUME NEW n \in Conns, NEW p \in Procs, NEW k \in Keys, C!Accept(p, n, k)
      PROVE  /\ DOMAIN conn' = Conns /\ DOMAIN owner' = Conns /\ connKey' \in [Conns -> Nat]
             /\ \A m \in Conns : conn'[m] # "none" => connKey'[m] \in Keys
             /\ KeysDiffer'
             /\ \A m \in Conns : conn[m] # "none" =>
                   conn'[m] # "none" /\ owner'[m] = owner[m] /\ connKey'[m] = connKey[m]
  <2>1. /\ conn[n] = "none" /\ conn' = [conn EXCEPT ![n] = "connecting"]
        /\ owner' = [owner EXCEPT ![n] = p] /\ connKey' = [connKey EXCEPT ![n] = k]
        /\ \A m \in Conns : conn[m] # "none" /\ owner[m] = p => connKey[m] < k
    BY <1>1 DEF C!Accept, C!FreshKey, C!Of
  <2>2. \A m \in Conns : m # n =>
          conn'[m] = conn[m] /\ owner'[m] = owner[m] /\ connKey'[m] = connKey[m]
    BY <2>1 DEF ClientTypes
  <2>3. conn'[n] = "connecting" /\ owner'[n] = p /\ connKey'[n] = k
    BY <2>1 DEF ClientTypes
  <2>4. \A m \in Conns : m # n /\ conn[m] # "none" /\ owner[m] = p => connKey[m] # k
    BY <1>k, <2>1 DEF ClientTypes
  <2>5. KeysDiffer'
    BY <2>2, <2>3, <2>4 DEF KeysDiffer
  <2>6. DOMAIN conn' = Conns /\ DOMAIN owner' = Conns /\ connKey' \in [Conns -> Nat]
    BY <1>k, <2>1 DEF ClientTypes
  <2>7. QED
    BY <2>1, <2>2, <2>3, <2>5, <2>6 DEF ClientTypes
<1>2. ASSUME UNCHANGED clientVars
      PROVE  /\ DOMAIN conn' = Conns /\ DOMAIN owner' = Conns /\ connKey' \in [Conns -> Nat]
             /\ \A m \in Conns : conn'[m] # "none" => connKey'[m] \in Keys
             /\ KeysDiffer'
             /\ \A m \in Conns : conn[m] # "none" =>
                   conn'[m] # "none" /\ owner'[m] = owner[m] /\ connKey'[m] = connKey[m]
  BY <1>2 DEF clientVars, ClientTypes, KeysDiffer
<1>3. ASSUME UNCHANGED <<owner, connKey>>, DOMAIN conn' = Conns,
             \A m \in Conns : conn'[m] = "none" <=> conn[m] = "none"
      PROVE  /\ DOMAIN conn' = Conns /\ DOMAIN owner' = Conns /\ connKey' \in [Conns -> Nat]
             /\ \A m \in Conns : conn'[m] # "none" => connKey'[m] \in Keys
             /\ KeysDiffer'
             /\ \A m \in Conns : conn[m] # "none" =>
                   conn'[m] # "none" /\ owner'[m] = owner[m] /\ connKey'[m] = connKey[m]
  BY <1>3 DEF ClientTypes, KeysDiffer
<1>4. ASSUME NEW n \in Conns, C!Established(n) \/ C!Failed(n) \/ C!Close(n)
      PROVE  /\ UNCHANGED <<owner, connKey>> /\ DOMAIN conn' = Conns
             /\ \A m \in Conns : conn'[m] = "none" <=> conn[m] = "none"
  <2>1. conn[n] # "none" /\ UNCHANGED <<owner, connKey>>
        /\ \E s \in {"open", "nil", "closed"} : conn' = [conn EXCEPT ![n] = s]
    BY <1>4 DEF C!Established, C!Failed, C!Close
  <2>2. QED
    BY <2>1 DEF ClientTypes
<1>5. ASSUME NEW p \in Procs, C!Exit(p)
      PROVE  /\ UNCHANGED <<owner, connKey>> /\ DOMAIN conn' = Conns
             /\ \A m \in Conns : conn'[m] = "none" <=> conn[m] = "none"
  BY <1>5 DEF C!Exit, C!Of
<1>6. QED
  BY <1>1, <1>2, <1>3, <1>4, <1>5, TunnelsStep DEF tunnelsVars

-----------------------------------------------------------------------------
(* Whose tunnel a request reaches                                          *)

LEMMA TunnelsInvInit == TunnelsInit => TunnelsInv
<1> SUFFICES ASSUME TunnelsInit PROVE TunnelsInv
  OBVIOUS
<1>1. IInv
  BY InitIInv DEF TunnelsInit
<1>2. ClientTypes /\ KeysDiffer
  BY DEF TunnelsInit, C!Init, ClientTypes, KeysDiffer
<1>3. SenderInv /\ FoundInv
  BY DEF TunnelsInit, Init, SenderInv, FoundInv
<1>4. QED
  BY <1>1, <1>2, <1>3 DEF TunnelsInv

LEMMA TunnelsInvStep ==
  ASSUME TunnelsInv, [TunnelsNext]_tunnelsVars
  PROVE  TunnelsInv'
<1>1. /\ IInv /\ ClientTypes /\ SenderInv /\ KeysDiffer /\ FoundInv
      /\ TypeOK /\ EntryInv
  BY DEF TunnelsInv, IInv
<1>2. IInv' /\ TypeOK'
  BY <1>1, ServerStep, NextIInv DEF IInv
<1>3. /\ DOMAIN conn' = Conns /\ DOMAIN owner' = Conns /\ connKey' \in [Conns -> Nat]
      /\ \A n \in Conns : conn'[n] # "none" => connKey'[n] \in Keys
      /\ KeysDiffer'
      /\ \A n \in Conns : conn[n] # "none" => conn'[n] # "none" /\ connKey'[n] = connKey[n]
  BY <1>1, ClientStep
<1>4. ASSUME NEW n \in Conns, NEW op \in Ops, NEW k \in Keys, Send(n, op, k),
             conn'[n] # "none", connKey'[n] = k
      PROVE  sender' \in [Handlers -> Conns \cup {Nobody}] /\ SenderInv' /\ FoundInv'
  <2>1. PICK r \in Handlers : Arrive(r, op, k) /\ sender' = [sender EXCEPT ![r] = n]
    BY <1>4 DEF Send
  <2>2. /\ hPc[r] = "none" /\ hPc' = [hPc EXCEPT ![r] = "get"]
        /\ hReq' = [hReq EXCEPT ![r] = [op |-> op, key |-> k]] /\ found' = found
    BY <2>1 DEF Arrive
  <2>3. sender' \in [Handlers -> Conns \cup {Nobody}]
    BY <1>1, <2>1 DEF ClientTypes
  <2>4. /\ hPc'[r] = "get" /\ Key(r)' = k /\ sender'[r] = n
        /\ \A q \in Handlers : q # r =>
              hPc'[q] = hPc[q] /\ Key(q)' = Key(q) /\ sender'[q] = sender[q]
    BY <1>1, <2>1, <2>2 DEF ClientTypes, TypeOK, Key
  <2>5. SenderInv'
    <3> SUFFICES ASSUME NEW q \in Handlers, hPc'[q] # "none"
                 PROVE  /\ sender'[q] \in Conns /\ conn'[sender'[q]] # "none"
                        /\ Key(q)' = connKey'[sender'[q]]
      BY DEF SenderInv
    <3>1. CASE q = r
      BY <1>4, <2>4, <3>1
    <3>2. CASE q # r
      BY <1>1, <1>3, <2>4, <3>2 DEF SenderInv
    <3>3. QED
      BY <3>1, <3>2
  <2>6. FoundInv'
    <3> SUFFICES ASSUME NEW q \in Handlers, found[q] # Nil
                 PROVE  /\ hPc'[q] # "none" /\ found[q] \in Handlers
                        /\ hPc'[found[q]] # "none" /\ Key(found[q])' = Key(q)'
      BY <2>2 DEF FoundInv
    <3>1. /\ hPc[q] # "none" /\ found[q] \in Handlers
          /\ hPc[found[q]] # "none" /\ Key(found[q]) = Key(q)
      BY <1>1 DEF FoundInv
    <3>2. q # r /\ found[q] # r
      BY <2>2, <3>1
    <3>3. QED
      BY <2>2, <2>4, <3>1, <3>2 DEF Key
  <2>7. QED
    BY <2>3, <2>5, <2>6
<1>5. ASSUME UNCHANGED <<hReq, sender>>,
             \A q \in Handlers : hPc'[q] = "none" <=> hPc[q] = "none"
      PROVE  sender' \in [Handlers -> Conns \cup {Nobody}] /\ SenderInv'
             /\ (found' = found => FoundInv')
  <2>1. \A q : Key(q)' = Key(q)
    BY <1>5 DEF Key
  <2>2. SenderInv'
    BY <1>1, <1>3, <1>5, <2>1 DEF SenderInv
  <2>3. found' = found => FoundInv'
    BY <1>1, <1>5, <2>1 DEF FoundInv
  <2>4. QED
    BY <1>1, <1>5, <2>2, <2>3 DEF ClientTypes
<1>6. ASSUME NEW r \in Handlers, ServeHTTP(r) \/ Serve(r) \/ Die(r) \/ OnDestroy(r)
      PROVE  /\ hReq' = hReq
             /\ \A q \in Handlers : hPc'[q] = "none" <=> hPc[q] = "none"
             /\ \/ found' = found
                \/ found' = [found EXCEPT ![r] = tcpClientMgr[Key(r)]] /\ hPc[r] = "get"
  <2>1. hReq' = hReq
    BY <1>6 DEF ServeHTTP, Get, Dial, DialFails, Add, Push, Refuse, Serve, Die, OnDestroy
  <2>2. \/ hPc' = hPc
        \/ hPc[r] # "none" /\ \E s \in {"dial", "push", "add", "wait", "done"} :
              hPc' = [hPc EXCEPT ![r] = s]
    BY <1>6 DEF ServeHTTP, Get, Dial, DialFails, Add, Push, Refuse, Serve, Die, OnDestroy, Answer
  <2>3. \A q \in Handlers : hPc'[q] = "none" <=> hPc[q] = "none"
    BY <1>1, <2>2 DEF TypeOK
  <2>4. \/ found' = found
        \/ found' = [found EXCEPT ![r] = tcpClientMgr[Key(r)]] /\ hPc[r] = "get"
    BY <1>6 DEF ServeHTTP, Get, Dial, DialFails, Add, Push, Refuse, Serve, Die, OnDestroy
  <2>5. QED
    BY <2>1, <2>3, <2>4
<1>7. ASSUME NEW r \in Handlers, hPc[r] = "get", hReq' = hReq,
             \A q \in Handlers : hPc'[q] = "none" <=> hPc[q] = "none",
             found' = [found EXCEPT ![r] = tcpClientMgr[Key(r)]]
      PROVE  FoundInv'
  <2>1. \A q : Key(q)' = Key(q)
    BY <1>7 DEF Key
  <2>2. Key(r) \in Keys /\ found'[r] = tcpClientMgr[Key(r)]
        /\ \A q \in Handlers : q # r => found'[q] = found[q]
    BY <1>1, <1>7 DEF TypeOK
  <2>3. found'[r] # Nil =>
          found'[r] \in Handlers /\ hPc[found'[r]] # "none" /\ Key(found'[r]) = Key(r)
    <3>1. tcpClientMgr[Key(r)] \in Nil .. MaxReq
      BY <1>1, <2>2 DEF TypeOK
    <3>2. tcpClientMgr[Key(r)] # Nil => tcpClientMgr[Key(r)] \in Handlers
      BY <3>1, ProxyServerAssumption DEF Handlers, Nil, ProxyServerAssumption
    <3>3. QED
      BY <1>1, <2>2, <3>2 DEF EntryInv
  <2>4. QED
    <3> SUFFICES ASSUME NEW q \in Handlers, found'[q] # Nil
                 PROVE  /\ hPc'[q] # "none" /\ found'[q] \in Handlers
                        /\ hPc'[found'[q]] # "none" /\ Key(found'[q]) = Key(q)
      BY <2>1 DEF FoundInv
    <3>1. CASE q = r
      BY <1>7, <2>3, <3>1
    <3>2. CASE q # r
      BY <1>1, <1>7, <2>2, <3>2 DEF FoundInv
    <3>3. QED
      BY <3>1, <3>2
<1>8. sender' \in [Handlers -> Conns \cup {Nobody}] /\ SenderInv' /\ FoundInv'
  <2>1. ASSUME NEW n \in Conns, NEW p \in Procs, NEW k \in Keys,
               C!Accept(p, n, k), Send(n, "connect", k)
        PROVE  sender' \in [Handlers -> Conns \cup {Nobody}] /\ SenderInv' /\ FoundInv'
    <3>1. conn'[n] # "none" /\ connKey'[n] = k
      BY <1>1, <2>1 DEF C!Accept, ClientTypes
    <3>2. QED
      BY <1>4, <2>1, <3>1 DEF Ops
  <2>2. ASSUME NEW n \in Conns, NEW op \in Ops, conn[n] # "none", connKey[n] \in Keys,
               Send(n, op, connKey[n])
        PROVE  sender' \in [Handlers -> Conns \cup {Nobody}] /\ SenderInv' /\ FoundInv'
    BY <1>3, <1>4, <2>2
  <2>3. ASSUME UNCHANGED <<serverVars, sender>>
        PROVE  sender' \in [Handlers -> Conns \cup {Nobody}] /\ SenderInv' /\ FoundInv'
    BY <1>5, <2>3 DEF serverVars, vars
  <2>4. ASSUME NEW r \in Handlers, ServeHTTP(r) \/ Serve(r) \/ Die(r) \/ OnDestroy(r),
               UNCHANGED sender
        PROVE  sender' \in [Handlers -> Conns \cup {Nobody}] /\ SenderInv' /\ FoundInv'
    BY <1>5, <1>6, <1>7, <2>4
  <2>5. QED
    BY <1>1, <2>1, <2>2, <2>3, <2>4, TunnelsStep DEF tunnelsVars
<1>9. QED
  BY <1>2, <1>3, <1>8 DEF TunnelsInv, ClientTypes

LEMMA TunnelsInductive == TunnelsSpec => []TunnelsInv
<1>1. ASSUME TunnelsInv, [TunnelsNext]_tunnelsVars PROVE TunnelsInv'
  BY <1>1, TunnelsInvStep
<1>2. QED
  BY <1>1, TunnelsInvInit, PTL DEF TunnelsSpec

-----------------------------------------------------------------------------
(* A data request, its tunnel and its key                                  *)

\* What the labels of a handler say of its request: a CONNECT was answered with
\* a 200 by the handler that added its tcpClient, and a request that is pushed
\* or waits is a data request.
HandlerInv ==
    \A r \in Handlers :
        /\ hPc[r] = "none" => status[r] = "none" /\ hReq[r].op = "none"
        /\ hPc[r] = "add" => tc[r] # "none"
        /\ hPc[r] \in {"push", "wait"} => hReq[r].op = "data"
        /\ hReq[r].op = "connect" /\ status[r] = "ok" => hPc[r] = "done" /\ tc[r] # "none"

\* A tcpClient of connection n is, or was, in the map.
Made(n) == \E c \in Handlers : sender[c] = n /\ hPc[c] = "done" /\ tc[c] # "none"

\* A connection that was accepted sent a CONNECT; one that is open had its tunnel
\* made, and so had one that sent a data request.
MadeInv ==
    \A n \in Conns :
        /\ conn[n] # "none" => RequestsOf(n, "connect") # {}
        /\ conn[n] = "open" => Made(n)
        /\ RequestsOf(n, "data") # {} => Made(n)

\* The second half of NoCrossTalk.
CrossInv ==
    \A r \in Handlers : found[r] # Nobody /\ Maker(found[r]) # sender[r] =>
        hReq[r].op = "connect" \/ HasLost(sender[r]) \/ Key(r) \in raced

DataInv == HandlerInv /\ MadeInv /\ CrossInv

LEMMA DataInvInit == TunnelsInit => DataInv
  BY DEF TunnelsInit, C!Init, Init, DataInv, HandlerInv, MadeInv, CrossInv, RequestsOf, NoReq,
         Nobody, Nil

LEMMA HandlerInvStep ==
  ASSUME IInv, HandlerInv, [Next]_vars
  PROVE  HandlerInv'
<1> USE DEF IInv, TypeOK, LifeInv, HandlerInv, Ops
<1>1. ASSUME NEW r \in Handlers, NEW op \in Ops, NEW k \in Keys, Arrive(r, op, k)
      PROVE  HandlerInv'
  BY <1>1 DEF Arrive
<1>2. ASSUME NEW r \in Handlers, Get(r) PROVE HandlerInv'
  BY <1>2 DEF Get, Answer
<1>3. ASSUME NEW r \in Handlers, Dial(r) PROVE HandlerInv'
  BY <1>3 DEF Dial
<1>4. ASSUME NEW r \in Handlers, DialFails(r) PROVE HandlerInv'
  BY <1>4 DEF DialFails, Answer
<1>5. ASSUME NEW r \in Handlers, Add(r) PROVE HandlerInv'
  BY <1>5 DEF Add, Answer
<1>6. ASSUME NEW r \in Handlers, Push(r) PROVE HandlerInv'
  BY <1>6 DEF Push
<1>7. ASSUME NEW r \in Handlers, Refuse(r) PROVE HandlerInv'
  BY <1>7 DEF Refuse, Answer
<1>8. ASSUME NEW r \in Handlers, Serve(r) PROVE HandlerInv'
  BY <1>8 DEF Serve, Answer
<1>9. ASSUME NEW r \in Handlers, Die(r) \/ OnDestroy(r) PROVE HandlerInv'
  BY <1>9 DEF Die, OnDestroy
<1>10. CASE UNCHANGED vars
  BY <1>10 DEF vars
<1> QED
  BY <1>1, <1>2, <1>3, <1>4, <1>5, <1>6, <1>7, <1>8, <1>9, <1>10
     DEF Next, Requests, ServeHTTP, TcpClient

\* What a step leaves as it was: the requests that arrived, the tunnels that were
\* made, those that are destroyed, and the races.
LEMMA PastStays ==
  ASSUME TunnelsInv, [TunnelsNext]_tunnelsVars
  PROVE  /\ \A r \in Handlers : hPc[r] # "none" =>
               /\ hPc'[r] # "none" /\ hReq'[r] = hReq[r] /\ sender'[r] = sender[r]
               /\ hPc[r] = "done" => hPc'[r] = "done"
         /\ \A r \in Handlers : /\ tc[r] # "none" => tc'[r] # "none"
                                /\ tc[r] = "destroyed" => tc'[r] = "destroyed"
         /\ raced \subseteq raced'
<1>1. TypeOK /\ ClientTypes
  BY DEF TunnelsInv, IInv
<1>2. ASSUME NEW n \in Conns, NEW op \in Ops, NEW k \in Keys, Send(n, op, k)
      PROVE  /\ UNCHANGED <<tc, raced>>
             /\ \A r \in Handlers : hPc[r] # "none" =>
                  hPc'[r] = hPc[r] /\ hReq'[r] = hReq[r] /\ sender'[r] = sender[r]
  BY <1>1, <1>2 DEF Send, Arrive, TypeOK, ClientTypes
<1>3. ASSUME NEW q \in Handlers, ServeHTTP(q) \/ Serve(q) \/ Die(q) \/ OnDestroy(q)
      PROVE  /\ hReq' = hReq /\ raced \subseteq raced'
             /\ \A r \in Handlers : hPc[r] # "none" =>
                  hPc'[r] # "none" /\ (hPc[r] = "done" => hPc'[r] = "done")
             /\ \A r \in Handlers : /\ tc[r] # "none" => tc'[r] # "none"
                                    /\ tc[r] = "destroyed" => tc'[r] = "destroyed"
  <2>1. hReq' = hReq /\ raced \subseteq raced'
    BY <1>3 DEF ServeHTTP, Get, Dial, DialFails, Add, Push, Refuse, Serve, Die, OnDestroy
  <2>2. \/ hPc' = hPc
        \/ hPc[q] \notin {"none", "done"} /\ \E s \in {"dial", "push", "add", "wait", "done"} :
              hPc' = [hPc EXCEPT ![q] = s]
    BY <1>3 DEF ServeHTTP, Get, Dial, DialFails, Add, Push, Refuse, Serve, Die, OnDestroy, Answer
  <2>3. \/ tc' = tc
        \/ tc[q] # "destroyed" /\ \E s \in {"alive", "dead", "destroyed"} : tc' = [tc EXCEPT ![q] = s]
    <3>1. ASSUME Dial(q) PROVE tc[q] = "none" /\ tc' = [tc EXCEPT ![q] = "alive"]
      BY <3>1 DEF Dial, TunnelsInv, IInv, LifeInv
    <3>2. QED
      BY <1>3, <3>1 DEF ServeHTTP, Get, DialFails, Add, Push, Refuse, Serve, Die, OnDestroy
  <2>4. QED
    BY <1>1, <2>1, <2>2, <2>3 DEF TypeOK
<1>4. CASE UNCHANGED <<serverVars, sender>>
  BY <1>4 DEF serverVars, vars
<1>5. QED
  BY <1>1, <1>2, <1>3, <1>4, TunnelsStep DEF Ops, tunnelsVars

\* The handler of the last CONNECT of a connection is one of its handlers.
LEMMA LastConnectIsOne ==
  ASSUME NEW n, RequestsOf(n, "connect") # {}
  PROVE  LastConnect(n) \in RequestsOf(n, "connect")
<1> DEFINE R == RequestsOf(n, "connect")
<1>1. R \in SUBSET Nat /\ \A q \in R : q <= MaxReq
  BY ProxyServerAssumption DEF RequestsOf, Handlers, ProxyServerAssumption
<1>2. \E r \in R : \A q \in R : q <= r
  BY <1>1, BoundedMax, ProxyServerAssumption DEF ProxyServerAssumption
<1>3. QED
  BY <1>2 DEF LastConnect

LEMMA MadeInvStep ==
  ASSUME TunnelsInv, HandlerInv, MadeInv, [TunnelsNext]_tunnelsVars
  PROVE  MadeInv'
<1>t. TypeOK /\ ClientTypes /\ SenderInv
  BY DEF TunnelsInv, IInv
<1>p. \A r \in Handlers : hPc[r] # "none" =>
        hPc'[r] # "none" /\ hReq'[r] = hReq[r] /\ sender'[r] = sender[r]
  BY PastStays
<1>m. \A n : Made(n) => Made(n)'
  BY PastStays DEF Made
<1>r. \A r \in Handlers, n \in Conns : r \in RequestsOf(n, "connect") \cup RequestsOf(n, "data")
        => hPc[r] # "none"
  BY DEF HandlerInv, RequestsOf
<1>c. \A n \in Conns : RequestsOf(n, "connect") # {} => RequestsOf(n, "connect")' # {}
  BY <1>p, <1>r DEF RequestsOf
<1>s. ASSUME NEW n \in Conns, NEW op \in Ops, NEW k \in Keys, Send(n, op, k)
      PROVE  \E r \in Handlers :
                /\ sender'[r] = n /\ hReq'[r].op = op
                /\ \A q \in Handlers : q # r => sender'[q] = sender[q] /\ hReq'[q] = hReq[q]
  BY <1>s, <1>t DEF Send, Arrive, TypeOK, ClientTypes
<1>1. ASSUME NEW n \in Conns, conn'[n] # "none" PROVE RequestsOf(n, "connect")' # {}
  <2>1. CASE conn[n] # "none"
    BY <1>c, <2>1 DEF MadeInv
  <2>2. CASE conn[n] = "none"
    <3>1. PICK m \in Conns, p \in Procs, k \in Keys : C!Accept(p, m, k) /\ Send(m, "connect", k)
      <4>1. ASSUME NEW m \in Conns, C!Established(m) \/ C!Failed(m) \/ C!Close(m) PROVE FALSE
        BY <1>1, <1>t, <2>2, <4>1 DEF C!Established, C!Failed, C!Close, ClientTypes
      <4>2. ASSUME NEW p \in Procs, C!Exit(p) PROVE FALSE
        BY <1>1, <1>t, <2>2, <4>2 DEF C!Exit, C!Of, ClientTypes
      <4>3. ASSUME UNCHANGED conn PROVE FALSE
        BY <1>1, <2>2, <4>3
      <4>4. QED
        BY <1>t, <4>1, <4>2, <4>3, TunnelsStep DEF clientVars, tunnelsVars
    <3>2. m = n
      BY <1>1, <1>t, <2>2, <3>1 DEF C!Accept, ClientTypes
    <3>3. QED
      BY <1>s, <3>1, <3>2 DEF RequestsOf, Ops
  <2>3. QED
    BY <2>1, <2>2
<1>2. ASSUME NEW n \in Conns, conn'[n] = "open" PROVE Made(n)'
  <2>1. CASE conn[n] = "open"
    BY <1>m, <2>1 DEF MadeInv
  <2>2. CASE conn[n] # "open"
    <3>1. PICK m \in Conns : ConnectAnswered(m) /\ C!Established(m)
      <4>1. ASSUME Connect PROVE FALSE
        BY <1>2, <1>t, <2>2, <4>1 DEF Connect, C!Accept, ClientTypes
      <4>2. ASSUME NEW m \in Conns, C!Failed(m) \/ C!Close(m) PROVE FALSE
        BY <1>2, <1>t, <2>2, <4>2 DEF C!Failed, C!Close, ClientTypes
      <4>3. ASSUME NEW p \in Procs, C!Exit(p) PROVE FALSE
        BY <1>2, <1>t, <2>2, <4>3 DEF C!Exit, C!Of, ClientTypes
      <4>4. ASSUME UNCHANGED conn PROVE FALSE
        BY <1>2, <2>2, <4>4
      <4>5. QED
        BY <4>1, <4>2, <4>3, <4>4
           DEF TunnelsNext, ConnectAgain, ConnectAnswered, Data, Close, Panic, AcceptFails,
               C!Panic, C!AcceptFails, Handler, Reply, Lost, Destroyed, clientVars, tunnelsVars
    <3>2. m = n /\ conn[n] = "connecting"
      BY <1>2, <1>t, <2>2, <3>1 DEF C!Established, ClientTypes
    <3>3. status[LastConnect(n)] = "ok"
      <4>1. ~C!Failed(n)
        BY <1>2, <1>t DEF C!Failed, ClientTypes
      <4>2. QED
        BY <3>1, <3>2, <4>1 DEF ConnectAnswered
    <3>4. LastConnect(n) \in RequestsOf(n, "connect")
      BY <3>2, LastConnectIsOne DEF MadeInv
    <3>5. Made(n)
      BY <3>3, <3>4 DEF Made, HandlerInv, RequestsOf
    <3>6. QED
      BY <1>m, <3>5
  <2>3. QED
    BY <2>1, <2>2
<1>3. ASSUME NEW n \in Conns, RequestsOf(n, "data")' # {} PROVE Made(n)'
  <2>1. CASE RequestsOf(n, "data") # {}
    BY <1>m, <2>1 DEF MadeInv
  <2>2. CASE RequestsOf(n, "data") = {}
    <3>1. ASSUME NEW m \in Conns, NEW k \in Keys, Send(m, "connect", k) PROVE FALSE
      BY <1>3, <1>s, <2>2, <3>1 DEF RequestsOf, Ops
    <3>2. ASSUME UNCHANGED <<hReq, sender>> PROVE FALSE
      BY <1>3, <2>2, <3>2 DEF RequestsOf
    <3>3. ASSUME NEW r \in Handlers, ServeHTTP(r) \/ Serve(r) \/ Die(r) \/ OnDestroy(r)
          PROVE  hReq' = hReq
      BY <3>3 DEF ServeHTTP, Get, Dial, DialFails, Add, Push, Refuse, Serve, Die, OnDestroy
    <3>4. ASSUME NEW m \in Conns, ConnectAgain(m) PROVE FALSE
      <4>1. connKey[m] \in Keys
        BY <1>t, <3>4 DEF ConnectAgain, ClientTypes
      <4>2. QED
        BY <3>1, <3>4, <4>1 DEF ConnectAgain
    <3>5. PICK m \in Conns : Data(m)
      BY <3>1, <3>2, <3>3, <3>4
         DEF TunnelsNext, Connect, ConnectAnswered, Close, Panic, AcceptFails,
             Handler, Reply, Lost, Destroyed, serverVars, vars, tunnelsVars
    <3>6. Made(m) /\ connKey[m] \in Keys /\ Send(m, "data", connKey[m])
      BY <1>t, <3>5 DEF Data, IsOpen, MadeInv, ClientTypes
    <3>7. m = n
      <4>1. \E r \in Handlers :
              /\ sender'[r] = m
              /\ \A q \in Handlers : q # r => sender'[q] = sender[q] /\ hReq'[q] = hReq[q]
        BY <1>s, <3>6 DEF Ops
      <4>2. QED
        BY <1>3, <2>2, <4>1 DEF RequestsOf
    <3>8. QED
      BY <1>m, <3>6, <3>7
  <2>3. QED
    BY <2>1, <2>2
<1> QED
  BY <1>1, <1>2, <1>3 DEF MadeInv

\* A data request looks up its key when its own tunnel was made: that one is in
\* the map, or it is destroyed, or it was replaced in a race.
LEMMA GetMeetsOwn ==
  ASSUME TunnelsInv, DataInv, NEW r \in Handlers, hPc[r] = "get", hReq[r].op = "data"
  PROVE  \/ tcpClientMgr[Key(r)] \in Handlers /\ sender[tcpClientMgr[Key(r)]] = sender[r]
         \/ HasLost(sender[r])
         \/ Key(r) \in raced
<1>1. sender[r] \in Conns /\ Key(r) = connKey[sender[r]]
  BY DEF TunnelsInv, SenderInv
<1>2. PICK c \in Handlers : sender[c] = sender[r] /\ hPc[c] = "done" /\ tc[c] # "none"
  BY <1>1 DEF DataInv, MadeInv, RequestsOf, Made
<1>3. Key(c) = Key(r)
  BY <1>1, <1>2 DEF TunnelsInv, SenderInv
<1>4. tc[c] = "destroyed" \/ Established(c)
  BY <1>2 DEF Established, TunnelsInv, IInv, TypeOK
<1>5. QED
  BY <1>2, <1>3, <1>4 DEF HasLost, Maker, TunnelsInv, IInv, Reachable

LEMMA CrossInvStep ==
  ASSUME TunnelsInv, DataInv, [TunnelsNext]_tunnelsVars
  PROVE  CrossInv'
<1> SUFFICES ASSUME NEW r \in Handlers, found'[r] # Nobody, sender'[found'[r]] # sender'[r],
                    hReq'[r].op # "connect"
             PROVE  HasLost(sender[r])' \/ Key(r)' \in raced'
  BY DEF CrossInv, Maker
<1>t. TypeOK /\ ClientTypes /\ FoundInv /\ EntryInv
  BY DEF TunnelsInv, IInv
<1>l. \A n : HasLost(n) => HasLost(n)'
  BY <1>t, PastStays DEF HasLost, Maker, TunnelsInv, IInv, LifeInv
<1>1. CASE found'[r] = found[r]
  <2>1. /\ hPc[r] # "none" /\ found[r] \in Handlers /\ hPc[found[r]] # "none"
    BY <1>1, <1>t DEF FoundInv, Nobody, Nil
  <2>2. /\ sender'[r] = sender[r] /\ hReq'[r] = hReq[r] /\ sender'[found[r]] = sender[found[r]]
        /\ raced \subseteq raced'
    BY <2>1, PastStays
  <2>3. HasLost(sender[r]) \/ Key(r) \in raced
    BY <1>1, <2>2 DEF DataInv, CrossInv, Maker
  <2>4. QED
    BY <1>l, <2>2, <2>3 DEF Key
<1>2. CASE found'[r] # found[r]
  <2>1. Get(r)
    <3>1. ASSUME NEW n \in Conns, NEW op \in Ops, NEW k \in Keys, Send(n, op, k) PROVE FALSE
      BY <1>2, <3>1 DEF Send, Arrive
    <3>2. ASSUME NEW q \in Handlers, ServeHTTP(q) \/ Serve(q) \/ Die(q) \/ OnDestroy(q)
          PROVE  Get(q) /\ q = r
      BY <1>2, <1>t, <3>2
         DEF ServeHTTP, Get, Dial, DialFails, Add, Push, Refuse, Serve, Die, OnDestroy, TypeOK
    <3>3. ASSUME UNCHANGED serverVars PROVE FALSE
      BY <1>2, <3>3 DEF serverVars, vars
    <3>4. QED
      BY <1>t, <3>1, <3>2, <3>3, TunnelsStep DEF Ops, tunnelsVars
  <2>2. /\ hPc[r] = "get" /\ found'[r] = tcpClientMgr[Key(r)] /\ hReq' = hReq
    BY <1>t, <2>1 DEF Get, TypeOK
  <2>3. hReq[r].op = "data"
    BY <2>1, <2>2 DEF Get
  <2>4. sender'[r] = sender[r] /\ raced \subseteq raced'
    BY <2>2, PastStays
  <2>5. CASE tcpClientMgr[Key(r)] \in Handlers /\ sender[tcpClientMgr[Key(r)]] = sender[r]
    <3>1. hPc[tcpClientMgr[Key(r)]] = "done"
      BY <1>t, <2>2, <2>5 DEF EntryInv, TypeOK, Nobody, Nil
    <3>2. sender'[tcpClientMgr[Key(r)]] = sender[tcpClientMgr[Key(r)]]
      BY <2>5, <3>1, PastStays
    <3>3. QED
      BY <2>2, <2>4, <2>5, <3>2
  <2>6. QED
    BY <1>l, <2>2, <2>3, <2>4, <2>5, GetMeetsOwn DEF Key
<1> QED
  BY <1>1, <1>2

LEMMA DataInvStep ==
  ASSUME TunnelsInv, DataInv, [TunnelsNext]_tunnelsVars
  PROVE  DataInv'
<1>1. IInv /\ ClientTypes
  BY DEF TunnelsInv
<1>2. HandlerInv'
  BY <1>1, ServerStep, HandlerInvStep DEF DataInv
<1> QED
  BY <1>2, MadeInvStep, CrossInvStep DEF DataInv

\* A request that meets a tunnel meets the one of its own connection.  For any
\* number of processes, connections and requests, CONNECTs that are repeated or
\* whose answer is lost, and tunnels that die: the other connection is one of
\* another process with the same connKey, and the request a CONNECT, which is
\* refused, or one whose own tunnel is destroyed or was replaced in a race
\* (clientServer.Start, newHTTPClient, proxyServer.ServeHTTP).
THEOREM NoCrossTalkCorrect == TunnelsSpec => []NoCrossTalk
<1>1. TunnelsInv /\ DataInv => NoCrossTalk
  <2> SUFFICES ASSUME TunnelsInv, DataInv, NEW r \in Handlers, found[r] # Nobody,
                      sender[found[r]] # sender[r]
               PROVE  /\ SameKey(sender[found[r]], sender[r])
                      /\ hReq[r].op = "connect" \/ HasLost(sender[r]) \/ Key(r) \in raced
    BY DEF NoCrossTalk, Maker
  <2>1. /\ hPc[r] # "none" /\ found[r] \in Handlers /\ hPc[found[r]] # "none"
        /\ Key(found[r]) = Key(r)
    BY DEF TunnelsInv, FoundInv, Nobody, Nil
  <2>2. /\ sender[r] \in Conns /\ conn[sender[r]] # "none" /\ Key(r) = connKey[sender[r]]
        /\ sender[found[r]] \in Conns /\ conn[sender[found[r]]] # "none"
        /\ Key(found[r]) = connKey[sender[found[r]]]
    BY <2>1 DEF TunnelsInv, SenderInv
  <2>3. SameKey(sender[found[r]], sender[r])
    BY <2>1, <2>2 DEF TunnelsInv, KeysDiffer, SameKey
  <2>4. hReq[r].op = "connect" \/ HasLost(sender[r]) \/ Key(r) \in raced
    BY DEF DataInv, CrossInv, Maker
  <2>5. QED
    BY <2>3, <2>4
<1>2. ASSUME TunnelsInv /\ DataInv, [TunnelsNext]_tunnelsVars
      PROVE  TunnelsInv' /\ DataInv'
  BY <1>2, TunnelsInvStep, DataInvStep
<1>3. TunnelsInit => TunnelsInv /\ DataInv
  BY TunnelsInvInit, DataInvInit
<1>4. QED
  BY <1>1, <1>2, <1>3, PTL DEF TunnelsSpec

-----------------------------------------------------------------------------
(* What ProxyServer guarantees                                             *)

\* To the server process the composition is nothing but requests that arrive.
THEOREM ServerIsProxyServer == TunnelsSpec => Spec
<1>1. TunnelsInit => Init
  BY DEF TunnelsInit
<1>2. ASSUME TunnelsInv, [TunnelsNext]_tunnelsVars PROVE [Next]_vars
  BY <1>2, ServerStep DEF TunnelsInv
<1>3. QED
  BY <1>1, <1>2, TunnelsInductive, PTL DEF TunnelsSpec, Spec

\* A tunnel that was established stays reachable for its client until it is
\* destroyed, unless two CONNECTs of its key overlapped.
THEOREM TunnelsReachable == TunnelsSpec => []Reachable
  BY ServerIsProxyServer, ReachableCorrect, PTL

\* A destroyed tcpClient stays in the map only if it was destroyed before its
\* handler added it, also when the requests are those of clients.
THEOREM TunnelsZombieIsAddedLate == TunnelsSpec => ZombieIsAddedLate
  BY ServerIsProxyServer, ZombieIsAddedLateCorrect, PTL
=============================================================================
