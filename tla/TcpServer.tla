------------------------------ MODULE TcpServer ------------------------------
(***************************************************************************)
(* One tcpServer of src/src/proxy/et_tcp_server.go: the client process's   *)
(* side of one accepted connection.  sendLoop moves blocks from the        *)
(* tcpProxy of the connection to the httpClient of the tunnel, recvLoop    *)
(* moves them back, and checkLoop destroys both as soon as one is dead.    *)
(*                                                                         *)
(* The tcpProxy is the one of TcpProxy; the httpClient is given by what it *)
(* promises, Tunnel.  The CONNECT has succeeded.                           *)
(***************************************************************************)
EXTENDS Integers, Sequences

CONSTANTS
    DataQueueSize,  \* capacity of all queues
    MaxIn,          \* bound: blocks the accepted connection sends
    MaxBlocks       \* bound: blocks of the server's stream

ASSUME TcpServerAssumption ==
    DataQueueSize \in Nat \ {0} /\ MaxIn \in Nat /\ MaxBlocks \in Nat

VARIABLES
    \* the tcpProxy, see TcpProxy
    connAlive, sendQ, sendQsync, recvQ, connClosed, peer, arrived, sendPc, sendDn,
    recvPc, read, destroyPc, popPc, popWait, popDn, pushed, popped, written,
    \* the httpClient, see Tunnel; h where the names are those of the tcpProxy
    alive, hSendQ, sending, failed, hRecvQ, received, hDestroyPc, hPopPc, hPopDn,
    hPushed, delivered, hPopped,
    \* the tcpServer
    upPc,       \* label of tcpServer.sendLoop
    downPc,     \* label of tcpServer.recvLoop
    checkPc     \* label of tcpServer.checkLoop

proxyVars == <<connAlive, sendQ, sendQsync, recvQ, connClosed, peer, arrived, sendPc,
               sendDn, recvPc, read, destroyPc, popPc, popWait, popDn, pushed, popped,
               written>>
httpVars == <<alive, hSendQ, sending, failed, hRecvQ, received, hDestroyPc, hPopPc,
              hPopDn, hPushed, delivered, hPopped>>
loopVars == <<upPc, downPc, checkPc>>
vars == <<proxyVars, httpVars, loopVars>>

T == INSTANCE TcpProxy WITH MaxOut <- MaxBlocks
H == INSTANCE Tunnel WITH MaxPush <- MaxIn, sendQ <- hSendQ, recvQ <- hRecvQ,
        destroyPc <- hDestroyPc, popPc <- hPopPc, popDn <- hPopDn, pushed <- hPushed,
        popped <- hPopped

Nil == 0

Init == T!Init /\ H!Init /\ upPc = "check" /\ downPc = "check" /\ checkPc = "tick"

-----------------------------------------------------------------------------
(* sendLoop                                                                *)

UpCheck_ConnAlive ==
    /\ upPc = "check" /\ upPc' = IF connAlive THEN "call" ELSE "done"
    /\ UNCHANGED <<proxyVars, httpVars, downPc, checkPc>>

UpCheck ==
    /\ upPc = "check" /\ upPc' = IF T!IsAlive THEN "call" ELSE "done"
    /\ UNCHANGED <<proxyVars, httpVars, downPc, checkPc>>

UpCall ==
    /\ upPc = "call" /\ upPc' = "pop"
    /\ T!PopCall("forever")
    /\ UNCHANGED <<httpVars, downPc, checkPc>>

UpPush ==
    /\ upPc = "pop" /\ popPc = "idle" /\ upPc' = "check"
    /\ IF popDn = Nil THEN UNCHANGED httpVars ELSE H!PushTCPRequest(popDn)
    /\ UNCHANGED <<proxyVars, downPc, checkPc>>

-----------------------------------------------------------------------------
(* recvLoop                                                                *)

DownCheck ==
    /\ downPc = "check" /\ downPc' = IF alive THEN "call" ELSE "done"
    /\ UNCHANGED <<proxyVars, httpVars, upPc, checkPc>>

DownCall ==
    /\ downPc = "call" /\ downPc' = "pop"
    /\ H!PopCall
    /\ UNCHANGED <<proxyVars, upPc, checkPc>>

DownPush ==
    /\ downPc = "pop" /\ hPopPc = "idle" /\ downPc' = "check"
    /\ IF hPopDn = Nil THEN UNCHANGED proxyVars ELSE T!PushData(hPopDn)
    /\ UNCHANGED <<httpVars, upPc, checkPc>>

-----------------------------------------------------------------------------
(* checkLoop and destroy                                                   *)

OneIsDead_HttpOnly == ~alive
OneIsDead == ~alive \/ ~T!IsAlive

CheckTick ==
    /\ checkPc = "tick" /\ OneIsDead /\ checkPc' = "http"
    /\ H!DestroyBegin
    /\ UNCHANGED <<proxyVars, upPc, downPc>>

\* httpClient.destroy has returned.
CheckProxy ==
    /\ checkPc = "http" /\ hDestroyPc = "done" /\ checkPc' = "done"
    /\ T!DestroyBegin
    /\ UNCHANGED <<httpVars, upPc, downPc>>

-----------------------------------------------------------------------------
SendLoop == UpCheck \/ UpCall \/ UpPush
RecvLoop == DownCheck \/ DownCall \/ DownPush
CheckLoop == CheckTick \/ CheckProxy
ProxyBody == (T!SendLoop \/ T!RecvLoop \/ T!PopBody \/ T!DestroyBody \/ T!Remote)
             /\ UNCHANGED <<httpVars, loopVars>>
HttpBody == (H!Network \/ H!PopBody \/ H!DestroyWake) /\ UNCHANGED <<proxyVars, loopVars>>

Next == SendLoop \/ RecvLoop \/ CheckLoop \/ ProxyBody \/ HttpBody

Spec == Init /\ [][Next]_vars

\* A goroutine that can run does run.  Neither the peer of the connection nor
\* the server need do anything.
Fairness ==
    /\ WF_vars(SendLoop) /\ WF_vars(RecvLoop) /\ WF_vars(CheckLoop)
    /\ WF_vars((T!SendCheck \/ T!SendPop \/ (connClosed /\ T!SendFail))
               /\ UNCHANGED <<httpVars, loopVars>>)
    /\ WF_vars(T!RecvLoop /\ UNCHANGED <<httpVars, loopVars>>)
    /\ WF_vars(T!PopBody /\ UNCHANGED <<httpVars, loopVars>>)
    /\ WF_vars(T!DestroyBody /\ UNCHANGED <<httpVars, loopVars>>)
    /\ WF_vars(H!PopBody /\ UNCHANGED <<proxyVars, loopVars>>)
    /\ WF_vars(H!DestroyWake /\ UNCHANGED <<proxyVars, loopVars>>)

FairSpec == Spec /\ Fairness

-----------------------------------------------------------------------------
(* Properties                                                              *)

\* The server gets the stream of the accepted connection, in order and without
\* a gap, up to where it ends.
UpInOrder == \A i \in DOMAIN delivered : delivered[i] = i

\* The accepted connection gets the blocks the tunnel handed out, in order and
\* none left out, up to where it ends.
DownInOrder == written = SubSeq(hPopped, 1, Len(written))

\* sendLoop leaves nothing of an ended connection behind: unless a write failed
\* or the tunnel is being destroyed, it ends with every block pushed.
UpIsDrained ==
    upPc = "done" /\ sendPc # "done" /\ destroyPc = "idle" => hPushed = read

\* The ways in which a loop is stuck: sendLoop and recvLoop in a push to the
\* other end, checkLoop in httpClient.destroy, which waits for room in recvQ.
UpBlocked == upPc = "pop" /\ popPc = "idle" /\ popDn # Nil /\ Len(hSendQ) = DataQueueSize
DownBlocked ==
    downPc = "pop" /\ hPopPc = "idle" /\ hPopDn # Nil /\ Len(sendQ) = DataQueueSize
DestroyBlocked == hDestroyPc = "wake" /\ Len(hRecvQ) = DataQueueSize

\* isAlive() became TRUE again after sendLoop had ended: nobody empties recvQ.
Revived == ~connAlive /\ T!IsAlive /\ upPc = "done"

\* A dead end is noticed and both ends are destroyed, but for these cases.
Teardown ==
    ~alive \/ ~connAlive ~> connClosed \/ UpBlocked \/ DestroyBlocked \/ Revived

\* After destroy the loops end, except one blocked in a push.
DestroyStopsLoops ==
    checkPc = "done" ~> (upPc = "done" \/ UpBlocked) /\ (downPc = "done" \/ DownBlocked)

=============================================================================
