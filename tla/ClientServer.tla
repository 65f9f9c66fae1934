---------------------------- MODULE ClientServer ----------------------------
(***************************************************************************)
(* The clientServer of src/src/proxy/et_tcp_server.go, one in each client  *)
(* process: its accept loop makes a tcpServer of each connection, one      *)
(* after the other, since newHTTPClient waits for the answer to CONNECT.   *)
(* What an established tcpServer does is in TcpServer; here it is open     *)
(* until one of its ends dies.                                             *)
(***************************************************************************)
EXTENDS Naturals

CONSTANTS
    Procs,      \* the client processes
    Conns,      \* bound: the connections they accept, numbers in order of acceptance
    Keys        \* bound: the values of connKey, microseconds of a clock: numbers

VARIABLES
    running,    \* the processes whose accept loop runs
    conn,       \* the state of each connection
    owner,      \* the process that accepted it
    connKey     \* httpClient.connKey of its tunnel

vars == <<running, conn, owner, connKey>>

Init ==
    /\ running = Procs
    /\ conn = [n \in Conns |-> "none"]
    /\ owner = [n \in Conns |-> CHOOSE p \in Procs : TRUE]
    /\ connKey = [n \in Conns |-> 0]

Of(p) == {n \in Conns : conn[n] # "none" /\ owner[n] = p}

\* Start is in newTCPServer: it accepts nothing else.
Busy(p) == \E n \in Of(p) : conn[n] = "connecting"

FreshKey_Any(p, k) == TRUE
\* The clock moved on since the last CONNECT of this process.
FreshKey(p, k) == \A n \in Of(p) : connKey[n] < k

\* AcceptTCP, newTCPServer and newHTTPClient up to the CONNECT.
Accept(p, n, k) ==
    /\ p \in running /\ ~Busy(p)
    /\ conn[n] = "none" /\ \A m \in Conns : m < n => conn[m] # "none"
    /\ FreshKey(p, k)
    /\ conn' = [conn EXCEPT ![n] = "connecting"]
    /\ owner' = [owner EXCEPT ![n] = p]
    /\ connKey' = [connKey EXCEPT ![n] = k]
    /\ UNCHANGED running

\* createConnection got a 200: the loops of tcpServer start.
Established(n) ==
    /\ conn[n] = "connecting" /\ conn' = [conn EXCEPT ![n] = "open"]
    /\ UNCHANGED <<running, owner, connKey>>

\* createConnection failed: newHTTPClient returns nil, and newTCPServer goes on.
Failed(n) ==
    /\ conn[n] = "connecting" /\ conn' = [conn EXCEPT ![n] = "nil"]
    /\ UNCHANGED <<running, owner, connKey>>

\* One end of an open connection dies, and tcpServer.destroy closes both.
Close(n) ==
    /\ conn[n] = "open" /\ conn' = [conn EXCEPT ![n] = "closed"]
    /\ UNCHANGED <<running, owner, connKey>>

\* The process ends, and its connections with it.
Exit(p) ==
    /\ running' = running \ {p}
    /\ conn' = [n \in Conns |-> IF n \in Of(p) THEN "closed" ELSE conn[n]]
    /\ UNCHANGED <<owner, connKey>>

\* recvLoop, or the log line of Start, calls a method of the nil httpClient.
Panic(p) == (\E n \in Of(p) : conn[n] = "nil") /\ Exit(p)

\* AcceptTCP fails, for want of descriptors: Start returns, and main after it.
AcceptFails(p) == p \in running /\ Of(p) # {} /\ ~Busy(p) /\ Exit(p)

Next ==
    \/ \E p \in Procs, n \in Conns, k \in Keys : Accept(p, n, k)
    \/ \E n \in Conns : Established(n) \/ Failed(n) \/ Close(n)
    \/ \E p \in Procs : Panic(p) \/ AcceptFails(p)

Spec == Init /\ [][Next]_vars
=============================================================================
