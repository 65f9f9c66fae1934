------------------------------ MODULE TcpClient ------------------------------
(***************************************************************************)
(* One tcpClient of src/src/proxy/et_tcp_client.go: the server process's   *)
(* end of one tunnel.  A ServeHTTP handler (et_http_server.go) runs for    *)
(* each request of the client; pushHTTPRequest checks its seq number and   *)
(* queues it.  processLoop gives the request's body to the tcpProxy of the *)
(* target connection and starts the response; responseLoop writes what     *)
(* comes from the target into the responses, one after the other, and      *)
(* releases their handlers; checkLoop destroys the tunnel.                 *)
(*                                                                         *)
(* The tcpProxy is the one of TcpProxy, whose owners are the loops above.  *)
(* A request is the number of its handler, in order of arrival; Nil is     *)
(* the nil *httpRequest.  The client is external: it sends one request     *)
(* after the other, each once the response to the one before has started,  *)
(* and its transport may send a request again (HttpClient, net/http).      *)
(***************************************************************************)
EXTENDS Integers, Sequences, FiniteSets, Functions

CONSTANTS
    DataQueueSize,  \* capacity of reqQueue, resQueue and the queues of tcpProxy
    MaxIn,          \* bound: blocks the target sends
    MaxOut,         \* bound: requests that carry a block
    MaxBlocks,      \* bound: blocks of both directions
    MaxReq,         \* bound: requests that arrive, those sent again included
    Expires         \* ConnectionTimeoutSec may go by without a request

ASSUME TcpClientAssumption ==
    /\ DataQueueSize \in Nat \ {0}
    /\ MaxIn \in Nat /\ MaxOut \in Nat /\ MaxBlocks \in Nat /\ MaxReq \in Nat \ {0}
    /\ Expires \in BOOLEAN

VARIABLES
    \* the tcpProxy, see TcpProxy
    connAlive, sendQ, sendQsync, recvQ, connClosed, peer, arrived, sendPc, sendDn,
    recvPc, read, destroyPc, popPc, popWait, popDn, pushed, popped, written,
    \* the tcpClient
    lock,           \* the handler that holds tcpClient.lock, or Nil
    seqNumber,      \* tcpClient.seqNumber
    recent,         \* keeyAliveTimestamp is at most ConnectionTimeoutSec old
    reqQueue,       \* tcpClient.reqQueue
    reqQueueSync,   \* the channel tcpClient.reqQueueSync is closed
    resQueue,       \* tcpClient.resQueue
    deleted,        \* onDestroy took the tcpClient out of tcpClientMgr
    procPc,         \* label of processLoop
    procReq,        \* the request it works on
    respPc,         \* label of responseLoop
    respReq,        \* the request it works on
    checkPc,        \* label of checkLoop
    \* the handlers and the client
    requests,       \* the requests that arrived: their seq number and block
    reqPc,          \* label of each handler
    status,         \* the status each response was started with
    out,            \* the blocks written into each response
    clientGone      \* the client's connection broke: it sends nothing more

proxyVars == <<connAlive, sendQ, sendQsync, recvQ, connClosed, peer, arrived, sendPc,
               sendDn, recvPc, read, destroyPc, popPc, popWait, popDn, pushed, popped,
               written>>
queueVars == <<lock, seqNumber, recent, reqQueue, reqQueueSync, resQueue, deleted>>
loopVars == <<procPc, procReq, respPc, respReq, checkPc>>
handlerVars == <<reqPc, status, out>>
vars == <<proxyVars, queueVars, loopVars, handlerVars, requests, clientGone>>

T == INSTANCE TcpProxy

Nil == 0
Reqs == 1 .. MaxReq

Init ==
    /\ T!Init
    /\ lock = Nil /\ seqNumber = 0 /\ recent = TRUE
    /\ reqQueue = <<>> /\ resQueue = <<>> /\ reqQueueSync = FALSE /\ deleted = FALSE
    /\ procPc = "check" /\ procReq = Nil
    /\ respPc = "next" /\ respReq = Nil
    /\ checkPc = "tick"
    /\ requests = <<>> /\ clientGone = FALSE
    /\ reqPc = [r \in Reqs |-> "none"] /\ status = [r \in Reqs |-> "none"]
    /\ out = [r \in Reqs |-> <<>>]

-----------------------------------------------------------------------------
(* The client (external): its requests arrive, each starts a handler.      *)

\* The last request is the one the client waits for; blocks are numbered.
Last == requests[Len(requests)]
LastStatus == status[Len(requests)]
Sent == Cardinality({requests[r].dn : r \in DOMAIN requests} \ {Nil})
FreshRequests ==
    LET s == IF requests = <<>> THEN 1 ELSE Last.seq + 1
        more == {d \in {Sent + 1} : d <= MaxOut /\ d + arrived <= MaxBlocks}
    IN {[seq |-> s, dn |-> d] : d \in {Nil} \cup more}

\* getTCPClient of ServeHTTP: without a tcpClient the answer is an error.
Arrive(req) ==
    /\ Len(requests) < MaxReq /\ ~clientGone
    /\ requests' = Append(requests, req)
    /\ LET r == Len(requests) + 1 IN
       IF deleted
       THEN /\ reqPc' = [reqPc EXCEPT ![r] = "done"]
            /\ status' = [status EXCEPT ![r] = "error"]
       ELSE /\ reqPc' = [reqPc EXCEPT ![r] = "lock"] /\ UNCHANGED status
    /\ UNCHANGED <<proxyVars, queueVars, loopVars, out, clientGone>>

SendsNext ==
    /\ IF requests = <<>> THEN TRUE ELSE LastStatus = "ok"
    /\ \E req \in FreshRequests : Arrive(req)

SendsAgain == requests # <<>> /\ LastStatus = "none" /\ Arrive(Last)

-----------------------------------------------------------------------------
(* The handlers                                                            *)

ValidSeq_NotOlder(s) == s >= seqNumber
ValidSeq(s) == s = seqNumber + 1

\* pushHTTPRequest up to the send on reqQueue, which it makes holding the lock.
HandlerPush(r) ==
    /\ reqPc[r] = "lock" /\ lock = Nil
    /\ IF ValidSeq(requests[r].seq)
       THEN /\ lock' = r /\ seqNumber' = seqNumber + 1 /\ recent' = TRUE
            /\ reqPc' = [reqPc EXCEPT ![r] = "enqueue"] /\ UNCHANGED status
       ELSE /\ reqPc' = [reqPc EXCEPT ![r] = "done"]
            /\ status' = [status EXCEPT ![r] = "error"]
            /\ UNCHANGED <<lock, seqNumber, recent>>
    /\ UNCHANGED <<proxyVars, loopVars, reqQueue, reqQueueSync, resQueue, deleted, out,
                   requests, clientGone>>

HandlerEnqueue_NoWait(r) ==
    /\ reqPc[r] = "enqueue" /\ reqQueue' \in T!AfterSend(reqQueue, r) /\ lock' = Nil
    /\ reqPc' = [reqPc EXCEPT ![r] = "done"]
    /\ UNCHANGED <<proxyVars, loopVars, seqNumber, recent, reqQueueSync, resQueue, deleted,
                   status, out, requests, clientGone>>

\* The send on reqQueue; then the handler waits for wg.
HandlerEnqueue(r) ==
    /\ reqPc[r] = "enqueue"
    /\ reqQueue' \in T!AfterSend(reqQueue, r)
    /\ lock' = Nil
    /\ reqPc' = [reqPc EXCEPT ![r] = "wait"]
    /\ UNCHANGED <<proxyVars, loopVars, seqNumber, recent, reqQueueSync, resQueue, deleted,
                   status, out, requests, clientGone>>

-----------------------------------------------------------------------------
(* processLoop                                                             *)

notProc == <<lock, seqNumber, recent, reqQueueSync, deleted, respPc, respReq, checkPc,
             reqPc, out, requests>>

ProcCheck ==
    /\ procPc = "check"
    /\ procPc' = IF T!IsAlive THEN "pop" ELSE "exit"
    /\ UNCHANGED <<notProc, clientGone, proxyVars, reqQueue, resQueue, procReq, status>>

ProcPop_Overwrites ==
    /\ \/ /\ procPc \in {"pop", "wait"} /\ reqQueue # <<>>
          /\ procReq' = Head(reqQueue) /\ reqQueue' = Tail(reqQueue)
          /\ procPc' = IF procPc = "pop" THEN "wait" ELSE "body"
       \/ /\ procPc = "pop" /\ reqQueue = <<>>
          /\ procPc' = "wait" /\ UNCHANGED <<procReq, reqQueue>>
       \/ /\ procPc = "wait" /\ reqQueueSync
          /\ procPc' = "exit" /\ UNCHANGED <<procReq, reqQueue>>
    /\ UNCHANGED <<notProc, clientGone, proxyVars, resQueue, status>>

\* popRequest2Process looks at reqQueue before it waits for either channel.
ProcPop ==
    /\ \/ /\ procPc \in {"pop", "wait"} /\ reqQueue # <<>>
          /\ procReq' = Head(reqQueue) /\ reqQueue' = Tail(reqQueue)
          /\ procPc' = "body"
       \/ /\ procPc = "pop" /\ reqQueue = <<>>
          /\ procPc' = "wait" /\ UNCHANGED <<procReq, reqQueue>>
       \/ /\ procPc = "wait" /\ reqQueueSync
          /\ procPc' = "exit" /\ UNCHANGED <<procReq, reqQueue>>
    /\ UNCHANGED <<notProc, clientGone, proxyVars, resQueue, status>>

\* The body of the request, if it has one, goes to the target.
ProcBody ==
    /\ procPc = "body" /\ procPc' = "answer"
    /\ LET dn == requests[procReq].dn IN
       IF dn = Nil THEN UNCHANGED proxyVars ELSE T!PushData(dn)
    /\ UNCHANGED <<notProc, clientGone, reqQueue, resQueue, procReq, status>>

\* The client's connection breaks while the body is read: that is an end of the
\* body like any other.
ProcBodyCut ==
    /\ procPc = "body" /\ procPc' = "answer"
    /\ requests[procReq].dn # Nil /\ clientGone' = TRUE
    /\ UNCHANGED <<notProc, proxyVars, reqQueue, resQueue, procReq, status>>

\* startResponse, or setErrorHappened, which leaves the handler waiting.
ProcAnswer ==
    /\ procPc = "answer"
    /\ IF T!IsAlive
       THEN procPc' = "queue" /\ status' = [status EXCEPT ![procReq] = "ok"]
       ELSE procPc' = "check" /\ status' = [status EXCEPT ![procReq] = "error"]
    /\ UNCHANGED <<notProc, clientGone, proxyVars, reqQueue, resQueue, procReq>>

\* resQueue <- req, and the final resQueue <- nil.
ProcQueue ==
    /\ \/ /\ procPc = "queue" /\ procPc' = "check"
          /\ resQueue' \in T!AfterSend(resQueue, procReq)
       \/ /\ procPc = "exit" /\ procPc' = "done"
          /\ resQueue' \in T!AfterSend(resQueue, Nil)
    /\ UNCHANGED <<notProc, clientGone, proxyVars, reqQueue, procReq, status>>

-----------------------------------------------------------------------------
(* responseLoop                                                            *)

notResp == <<lock, seqNumber, recent, reqQueue, reqQueueSync, deleted, procPc, procReq,
             checkPc, status, requests, clientGone>>

RespNext ==
    /\ respPc = "next" /\ resQueue # <<>>
    /\ respReq' = Head(resQueue) /\ resQueue' = Tail(resQueue)
    /\ respPc' = IF Head(resQueue) = Nil THEN "done" ELSE "look"
    /\ UNCHANGED <<notResp, proxyVars, reqPc, out>>

RespLook_Forever ==
    /\ respPc = "look" /\ respPc' = "pop"
    /\ T!PopCall(IF resQueue = <<>> THEN "forever" ELSE "none")
    /\ UNCHANGED <<notResp, resQueue, respReq, reqPc, out>>

\* popData waits KeepAliveTimeSec if no other response is waiting for its turn.
RespLook ==
    /\ respPc = "look" /\ respPc' = "pop"
    /\ T!PopCall(IF resQueue = <<>> THEN "timed" ELSE "none")
    /\ UNCHANGED <<notResp, resQueue, respReq, reqPc, out>>

RespWrite ==
    /\ respPc = "pop" /\ popPc = "idle" /\ popDn # Nil
    /\ out' = [out EXCEPT ![respReq] = Append(@, popDn)]
    /\ respPc' = "again"
    /\ UNCHANGED <<notResp, proxyVars, resQueue, respReq, reqPc>>

RespAgain ==
    /\ respPc = "again" /\ respPc' = "pop"
    /\ T!PopCall("none")
    /\ UNCHANGED <<notResp, resQueue, respReq, reqPc, out>>

MayFinish_AnyBlock == popPc = "idle"
MayFinish == popPc = "idle" /\ popDn = Nil

\* wg.Done: the handler of the request returns, and the response ends.
RespFinish ==
    /\ respPc = "pop" /\ MayFinish
    /\ reqPc' = [reqPc EXCEPT ![respReq] = "done"]
    /\ respPc' = "next"
    /\ UNCHANGED <<notResp, proxyVars, resQueue, respReq, out>>

-----------------------------------------------------------------------------
(* checkLoop and destroy                                                   *)

notCheck == <<lock, seqNumber, recent, reqQueue, resQueue, procPc, procReq, respPc, respReq,
              handlerVars, requests, clientGone>>

\* ConnectionTimeoutSec goes by without a request: a step of the clock.
Expire ==
    /\ Expires /\ recent /\ checkPc = "tick"
    /\ recent' = FALSE
    /\ UNCHANGED <<proxyVars, lock, seqNumber, reqQueue, reqQueueSync, resQueue, deleted,
                   loopVars, handlerVars, requests, clientGone>>

IsAlive == recent /\ T!IsAlive

CheckTick ==
    /\ checkPc = "tick" /\ checkPc' = "sync" /\ ~IsAlive
    /\ deleted' = TRUE
    /\ UNCHANGED <<notCheck, proxyVars, reqQueueSync>>

CheckSync_NotClosed ==
    /\ checkPc = "sync" /\ checkPc' = "proxy"
    /\ UNCHANGED <<notCheck, proxyVars, deleted, reqQueueSync>>

CheckSync ==
    /\ checkPc = "sync" /\ checkPc' = "proxy"
    /\ reqQueueSync' = TRUE
    /\ UNCHANGED <<notCheck, proxyVars, deleted>>

CheckProxy ==
    /\ checkPc = "proxy" /\ checkPc' = "done"
    /\ T!DestroyBegin
    /\ UNCHANGED <<notCheck, reqQueueSync, deleted>>

-----------------------------------------------------------------------------
notProxy == <<queueVars, loopVars, handlerVars, requests, clientGone>>

Handler(r) == HandlerPush(r) \/ HandlerEnqueue(r)
ProcessLoop == ProcCheck \/ ProcPop \/ ProcBody \/ ProcAnswer \/ ProcQueue

ResponseLoop == RespNext \/ RespLook \/ RespWrite \/ RespAgain \/ RespFinish
CheckLoop == CheckTick \/ CheckSync \/ CheckProxy
Client == SendsNext \/ SendsAgain
ProxyBody == (T!SendLoop \/ T!RecvLoop \/ T!PopBody \/ T!DestroyBody) /\ UNCHANGED notProxy
Target == T!Remote /\ Sent + arrived' <= MaxBlocks /\ UNCHANGED notProxy

Next == (\E r \in Reqs : Handler(r)) \/ ProcessLoop \/ ProcBodyCut \/ ResponseLoop
        \/ CheckLoop \/ Expire \/ Client \/ ProxyBody \/ Target

Spec == Init /\ [][Next]_vars

\* A goroutine that can run does run; the client need not send requests, nor
\* read the responses: RespWrite, the Write to its ResponseWriter, may be held up
\* for ever.  The target need not read, but a write to a closed connection
\* returns.
Fairness ==
    /\ \A r \in Reqs : WF_vars(Handler(r))
    /\ WF_vars(ProcessLoop)
    /\ WF_vars(RespNext \/ RespLook \/ RespAgain \/ RespFinish)
    /\ WF_vars(CheckLoop)
    /\ WF_vars((T!SendCheck \/ T!SendPop \/ (connClosed /\ T!SendFail)) /\ UNCHANGED notProxy)
    /\ WF_vars(T!RecvLoop /\ UNCHANGED notProxy)
    /\ WF_vars(T!PopBody /\ UNCHANGED notProxy)
    /\ WF_vars(T!DestroyBody /\ UNCHANGED notProxy)

FairSpec == Spec /\ Fairness

-----------------------------------------------------------------------------
(* Properties                                                              *)

\* The target gets each block of the client once and in order, also when a
\* request is sent again while the first copy of it is being handled.
UplinkInOrder == T!WrittenInOrder

\* Read in the order of their seq numbers, the responses contain what came from
\* the target, in order and nothing missing but the block in responseLoop's hand.
DownlinkInOrder ==
    /\ T!PoppedInOrder
    /\ \A q, r \in DOMAIN requests : requests[q].seq < requests[r].seq =>
          \A i \in DOMAIN out[q], j \in DOMAIN out[r] : out[q][i] < out[r][j]
    /\ Range(popped) \ UNION {Range(out[r]) : r \in Reqs} \subseteq
          IF respPc = "pop" THEN {popDn} ELSE {}

\* No loop holds the request of a handler that returned: its ResponseWriter and
\* its body may not be used any more.
ReturnedIsUnused ==
    \A r \in Reqs : reqPc[r] = "done" =>
        /\ r \notin Range(reqQueue) /\ r \notin Range(resQueue)
        /\ ~(procReq = r /\ procPc \in {"body", "answer", "queue"})
        /\ ~(respReq = r /\ respPc \in {"look", "pop", "again"})

\* The liveness properties have the form []<>(P => Q): P without Q does not last
\* for ever.  It says what P ~> Q does of a P that stays true once it is, as each
\* P below does.

\* responseLoop does not stay for ever in the Write of a block to its response.
Writing == respPc = "pop" /\ popPc = "idle" /\ popDn # Nil
ClientsRead == []<>~Writing

\* A response that was started is ended, whatever becomes of the connection, of
\* the tunnel and of the requests behind it, unless its client stops reading and
\* responseLoop stays in Write.  (A response ends when recvQ is found empty: that
\* the target pauses sooner or later is the bound MaxIn here.)
StartedIsFinished ==
    ClientsRead => \A r \in Reqs : []<>(status[r] = "ok" => reqPc[r] = "done")

\* processLoop is blocked in pushData: sendQ is full.
ProcBlocked == procPc = "body" /\ Len(sendQ) = DataQueueSize

\* destroy ends processLoop and responseLoop, except a processLoop that pushes
\* to a sendQ nobody empties any more, and a responseLoop whose client does not
\* read, with a processLoop behind it that may find resQueue full.
DestroyStopsLoops ==
    ClientsRead =>
        []<>(checkPc = "done" => (procPc = "done" /\ respPc = "done") \/ ProcBlocked)

\* A request that was accepted is answered as long as processLoop goes on: once
\* that has left its loop, on a dead tcpProxy, it looks at reqQueue no more.
AcceptedIsAnswered ==
    ClientsRead =>
        \A r \in Reqs :
            []<>(reqPc[r] \in {"wait", "done"} =>
                    status[r] # "none" \/ procPc \in {"exit", "done"} \/ ProcBlocked)
=============================================================================
