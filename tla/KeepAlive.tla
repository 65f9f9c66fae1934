----------------------------- MODULE KeepAlive ------------------------------
(***************************************************************************)
(* The two times of the server's configuration against each other: a       *)
(* tcpClient (src/src/proxy/et_tcp_client.go) is destroyed when no request *)
(* came for ConnectionTimeoutSec, and answers a request for up to          *)
(* KeepAliveTimeSec while its target is silent.  Nothing else renews the   *)
(* timestamp: neither the blocks it writes nor those it reads.             *)
(*                                                                         *)
(* Time goes by in seconds.  Whatever takes no time in the code is done    *)
(* before the clock moves.  Queues are counted, since of the requests only *)
(* the last one differs; TcpClient has the rest.                           *)
(***************************************************************************)
EXTENDS Integers

CONSTANTS
    Configs,    \* what common.G may be after its checks
    MaxAway,    \* seconds from the end of the last response to the next poll
    MaxQueue    \* bound: requests in reqQueue and resQueue

Checked(g) ==
    /\ g.Server.ConnectionTimeoutSec \in Int /\ g.Server.ConnectionTimeoutSec > 0
    /\ g.Server.KeepAliveTimeSec \in Int /\ g.Server.KeepAliveTimeSec > 0

ASSUME KeepAliveAssumption ==
    /\ \A g \in Configs : Checked(g)
    /\ MaxAway \in Nat /\ MaxQueue \in Nat

VARIABLES
    G,          \* common.G
    alive,      \* the tcpClient was not destroyed
    connAlive,  \* the target's connection is alive
    gone,       \* the client sends no more requests
    reqs,       \* number of requests in reqQueue, or in processLoop's hand
    ress,       \* length of resQueue
    respPc,     \* label of responseLoop
    limit,      \* time_out_us of its popData, in seconds
    waited,     \* seconds popData has waited
    age,        \* seconds since keeyAliveTimestamp
    stalled,    \* history: of these, the seconds of a blocked push or write
    away        \* history: seconds since the server had a request to answer

vars == <<G, alive, connAlive, gone, reqs, ress, respPc, limit, waited, age, stalled, away>>

Timeout == G.Server.ConnectionTimeoutSec
Wait == G.Server.KeepAliveTimeSec

\* newTCPClient, for a CONNECT: the timestamp is the present.
Fresh ==
    /\ alive = TRUE /\ connAlive = TRUE /\ gone = FALSE
    /\ reqs = 0 /\ ress = 0 /\ respPc = "next" /\ limit = 0 /\ waited = 0
    /\ age = 0 /\ stalled = 0 /\ away = 0

Init == G \in Configs /\ Fresh

-----------------------------------------------------------------------------
\* pushHTTPRequest: the client polls again or sends a block.
Request ==
    /\ ~gone /\ reqs + ress < MaxQueue
    /\ reqs' = reqs + 1 /\ age' = 0 /\ stalled' = 0 /\ away' = 0
    /\ UNCHANGED <<G, alive, connAlive, gone, ress, respPc, limit, waited>>

\* processLoop: the block is pushed, the response started and queued.
Process ==
    /\ reqs > 0 /\ reqs' = reqs - 1 /\ ress' = ress + 1
    /\ UNCHANGED <<G, alive, connAlive, gone, respPc, limit, waited, age, stalled, away>>

Limit_Always(left) == Wait
\* Nobody waits behind this response, or it ends with what there is.
Limit(left) == IF left = 0 THEN Wait ELSE 0

\* responseLoop takes a request from resQueue.
Start ==
    /\ respPc = "next" /\ ress > 0 /\ ress' = ress - 1
    /\ respPc' = "pop" /\ limit' = Limit(ress - 1) /\ waited' = 0
    /\ UNCHANGED <<G, alive, connAlive, gone, reqs, age, stalled, away>>

\* popData returns a block, which is written ...
Block ==
    /\ respPc = "pop" /\ respPc' = "write"
    /\ UNCHANGED <<G, alive, connAlive, gone, reqs, ress, limit, waited, age, stalled, away>>

Written_Renews ==
    /\ respPc = "write" /\ respPc' = "pop" /\ limit' = 0 /\ waited' = 0
    /\ age' = 0 /\ stalled' = 0
    /\ UNCHANGED <<G, alive, connAlive, gone, reqs, ress, away>>
\* ... and the next one must be there at once;
Written ==
    /\ respPc = "write" /\ respPc' = "pop" /\ limit' = 0 /\ waited' = 0
    /\ UNCHANGED <<G, alive, connAlive, gone, reqs, ress, age, stalled, away>>

\* or nil, after the time or from a dead tcpProxy: the response ends.
NoBlock ==
    /\ respPc = "pop" /\ respPc' = "next" /\ (waited = limit \/ ~connAlive)
    /\ UNCHANGED <<G, alive, connAlive, gone, reqs, ress, limit, waited, age, stalled, away>>

TargetDies ==
    /\ connAlive /\ connAlive' = FALSE
    /\ UNCHANGED <<G, alive, gone, reqs, ress, respPc, limit, waited, age, stalled, away>>

ClientDies ==
    /\ ~gone /\ gone' = TRUE
    /\ UNCHANGED <<G, alive, connAlive, reqs, ress, respPc, limit, waited, age, stalled, away>>

\* keeyAliveTimestamp is ConnectionTimeoutSec old or younger.
IsRecent == age <= Timeout

\* checkLoop calls isAlive every second, and destroys a tcpClient that is not.
CheckLoop ==
    /\ ~(IsRecent /\ connAlive) /\ alive' = FALSE
    /\ UNCHANGED <<G, connAlive, gone, reqs, ress, respPc, limit, waited, age, stalled, away>>

\* A second goes by: popData waits, or a push or a write is blocked, or the
\* client is to send its next request.
Tick ==
    /\ IsRecent /\ age' = age + 1
    /\ \/ respPc = "pop" /\ waited < limit
       \/ respPc = "write"
       \/ respPc = "next" /\ ress = 0
    /\ waited' = IF respPc = "pop" THEN waited + 1 ELSE waited
    /\ stalled' = IF respPc = "write" \/ reqs > 0 THEN stalled + 1 ELSE stalled
    /\ IF respPc = "next" /\ reqs = 0
       THEN away' = away + 1 /\ (away < MaxAway \/ gone)
       ELSE UNCHANGED away
    /\ UNCHANGED <<G, alive, connAlive, gone, reqs, ress, respPc, limit>>

ResponseLoop == Start \/ Block \/ Written \/ NoBlock

Next == alive /\ (Request \/ Process \/ ResponseLoop \/ CheckLoop \/ TargetDies
                  \/ ClientDies \/ Tick)

Spec == Init /\ [][Next]_vars

\* The goroutines run, and time goes on; nothing makes the target send.
Fairness ==
    /\ WF_vars(alive /\ Process)
    /\ WF_vars(alive /\ (Start \/ NoBlock))
    /\ WF_vars(alive /\ CheckLoop)
    /\ SF_vars(alive /\ Tick)

-----------------------------------------------------------------------------
(* Properties                                                              *)

TypeOK ==
    /\ Checked(G) /\ alive \in BOOLEAN /\ connAlive \in BOOLEAN /\ gone \in BOOLEAN
    /\ reqs \in Nat /\ ress \in Nat /\ respPc \in {"next", "pop", "write"}
    /\ limit \in {0, Wait} /\ waited \in 0 .. limit
    /\ age \in Nat /\ stalled \in 0 .. age /\ away \in Nat

\* A tunnel whose two ends live and whose client polls in time is not destroyed,
\* unless the response that is going on and the one behind it may both wait in
\* vain (twice KeepAliveTimeSec), or pushes and writes were blocked for too long.
IdleSurvives ==
    ~alive /\ connAlive /\ ~gone => Timeout < 2 * Wait + MaxAway + stalled

\* The server does not keep the tunnel of a client that is gone, not even while
\* the target goes on sending to it.
GoneIsDestroyed == gone ~> ~alive
=============================================================================
