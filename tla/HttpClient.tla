----------------------------- MODULE HttpClient -----------------------------
(***************************************************************************)
(* The httpClient of src/src/proxy/et_http_client.go: the client process's *)
(* end of one tunnel.  processLoop sends one HTTP request after the other, *)
(* with a block of sendQ as its body or, when the tunnel is idle, with     *)
(* none (a poll).  Do returns as soon as the response headers arrive;      *)
(* recvLoop reads the bodies of the responses one after the other, in the  *)
(* order of the requests, into recvQ.                                      *)
(*                                                                         *)
(* A response is the seq number of its request.  A block is its number in  *)
(* its stream, Nil the nil *dataBlock and the nil *http.Response.  The     *)
(* server is external: it takes the requests in order, and writes the      *)
(* blocks of the other stream into the bodies of the responses, finishing  *)
(* one before it begins the next (tcpClient.responseLoop).  A response may *)
(* break before the client has read it to its end; the server does not     *)
(* notice (httpWrapper.pushData ignores the result of Write).              *)
(***************************************************************************)
EXTENDS Integers, Sequences, FiniteSets, Functions

CONSTANTS
    DataQueueSize,  \* capacity of sendQ, recvQ and respQ (100 in the code)
    MaxPush,        \* bound: blocks given to pushTCPRequest
    MaxBlocks,      \* bound: blocks the server writes
    MaxSeq,         \* bound: requests processLoop sends
    MaxBroken       \* bound: responses that break

ASSUME HttpClientAssumption ==
    /\ DataQueueSize \in Nat \ {0}
    /\ MaxPush \in Nat /\ MaxBlocks \in Nat /\ MaxSeq \in Nat \ {0} /\ MaxBroken \in Nat

VARIABLES
    alive,      \* httpClient.alive
    sendQ,      \* httpClient.sendQ
    sendQsync,  \* the channel httpClient.sendQsync is closed
    sendNop,    \* the channel httpClient.sendNop, of capacity 1, holds a nil
    respQ,      \* httpClient.respQ
    recvQ,      \* httpClient.recvQ
    seq,        \* httpClient.seq
    procPc,     \* label of newHTTPClient, then of processLoop
    sendDn,     \* the body of the request it sends, Nil for a poll
    recvPc,     \* label of recvLoop
    res,        \* the response it reads
    recvDn,     \* the block it holds
    destroyPc,  \* label of the call of destroy
    popPc,      \* label of the call of popTCPResponse
    popDn,      \* its result, once popPc is "idle" again
    body,       \* body[s]: the blocks of response s that are still to be read
    broken,     \* the responses that broke
    current,    \* the response the server writes, or will write next
    sent,       \* number of blocks the server wrote
    polls,      \* history: the requests that were polls
    failed,     \* history: a request of processLoop failed
    pushed,     \* history: number of blocks given to pushTCPRequest
    delivered,  \* history: the blocks the server got
    popped      \* history: the blocks taken out of recvQ

requestVars == <<seq, sendDn, polls, failed>>
procVars == <<procPc, requestVars>>
recvVars == <<recvPc, res, recvDn>>
popVars == <<popPc, popDn>>
serverVars == <<current, sent>>
vars == <<alive, sendQ, sendQsync, sendNop, respQ, recvQ, procVars, recvVars, destroyPc,
          popVars, body, broken, serverVars, pushed, delivered, popped>>

Nil == 0

AfterSend_DropOldest(q, x) ==
    {Append(IF Len(q) < DataQueueSize THEN q ELSE Tail(q), x)}

\* The outcomes of sending x on a buffered channel: none while it is full.
AfterSend(q, x) == IF Len(q) < DataQueueSize THEN {Append(q, x)} ELSE {}

Init ==
    /\ alive = TRUE /\ sendQsync = FALSE /\ sendNop = FALSE
    /\ sendQ = <<>> /\ respQ = <<>> /\ recvQ = <<>>
    /\ seq = 0 /\ procPc = "connect" /\ sendDn = Nil
    /\ recvPc = "none" /\ res = Nil /\ recvDn = Nil
    /\ destroyPc = "idle" /\ popPc = "idle" /\ popDn = Nil
    /\ body = [s \in 1 .. MaxSeq |-> <<>>] /\ broken = {}
    /\ current = 1 /\ sent = 0
    /\ polls = {} /\ failed = FALSE /\ pushed = 0 /\ delivered = <<>> /\ popped = <<>>

\* newHTTPClient has returned an object, and both loops run.
Created == procPc \notin {"connect", "failed"}

\* The requests whose response recvLoop has not read to its end.
Unread ==
    {s \in 1 .. seq : s \in Range(respQ) \/ (s = seq /\ procPc \in {"do", "push"})
                      \/ (s = res /\ recvPc \in {"read", "push"})}

-----------------------------------------------------------------------------
(* newHTTPClient and processLoop                                           *)

notProc == <<sendQsync, recvQ, recvVars, destroyPc, popVars, body, broken, serverVars,
             pushed, popped>>

Connect ==
    /\ procPc = "connect"
    /\ procPc' = "start" /\ recvPc' = "next"
    /\ UNCHANGED <<alive, sendQ, sendQsync, sendNop, respQ, recvQ, requestVars,
                   res, recvDn, destroyPc, popVars, body, broken, serverVars, pushed,
                   delivered, popped>>

\* An error, or a status that is not 200: the object is destroyed, its caller
\* gets a nil iHTTPClient.
ConnectFail ==
    /\ procPc = "connect" /\ procPc' = "failed"
    /\ alive' = FALSE /\ sendQsync' = TRUE /\ recvQ' = <<Nil>> /\ destroyPc' = "done"
    /\ UNCHANGED <<sendQ, sendNop, respQ, requestVars, recvVars, popVars, body, broken,
                   serverVars, pushed, delivered, popped>>

ProcStart ==
    /\ procPc = "start" /\ procPc' = "check"
    /\ sendNop' = TRUE
    /\ UNCHANGED <<notProc, alive, sendQ, respQ, requestVars, delivered>>

ProcCheck ==
    /\ procPc = "check"
    /\ procPc' = IF alive THEN "select" ELSE "exit"
    /\ UNCHANGED <<notProc, alive, sendQ, sendNop, respQ, requestVars, delivered>>

\* The select of processLoop takes any case that is ready, and starts sendData
\* with what it got; its break leaves the select only, not the loop.
ProcSelect ==
    /\ procPc = "select"
    /\ \/ /\ sendQ # <<>> /\ seq < MaxSeq
          /\ sendDn' = Head(sendQ) /\ sendQ' = Tail(sendQ)
          /\ seq' = seq + 1 /\ procPc' = "do"
          /\ UNCHANGED <<sendNop, polls>>
       \/ /\ sendNop /\ seq < MaxSeq
          /\ sendDn' = Nil /\ sendNop' = FALSE
          /\ seq' = seq + 1 /\ procPc' = "do" /\ polls' = polls \union {seq + 1}
          /\ UNCHANGED sendQ
       \/ /\ sendQsync /\ procPc' = "check"
          /\ UNCHANGED <<sendDn, sendQ, sendNop, seq, polls>>
    /\ UNCHANGED <<notProc, alive, respQ, failed, delivered>>

ServerTakes == delivered' = IF sendDn = Nil THEN delivered ELSE Append(delivered, sendDn)

DoAnswered ==
    /\ procPc = "do" /\ procPc' = "push"
    /\ ServerTakes
    /\ UNCHANGED <<notProc, alive, sendQ, sendNop, respQ, requestVars>>

\* Do returns an error or a status that is not 200; the request may have
\* reached the server before.
DoFails ==
    /\ procPc = "do" /\ procPc' = "check"
    /\ alive' = FALSE /\ failed' = TRUE
    /\ ServerTakes \/ UNCHANGED delivered
    /\ UNCHANGED <<notProc, sendQ, sendNop, respQ, seq, sendDn, polls>>

\* respQ <- res, and the final respQ <- nil.
ProcPush ==
    /\ \/ procPc = "push" /\ respQ' \in AfterSend(respQ, seq) /\ procPc' = "check"
       \/ procPc = "exit" /\ respQ' \in AfterSend(respQ, Nil) /\ procPc' = "done"
    /\ UNCHANGED <<notProc, alive, sendQ, sendNop, requestVars, delivered>>

-----------------------------------------------------------------------------
(* recvLoop                                                                *)

notRecv == <<alive, sendQ, sendQsync, procVars, destroyPc, popVars, broken, serverVars,
             pushed, delivered, popped>>

RecvNext ==
    /\ recvPc = "next" /\ respQ # <<>>
    /\ res' = Head(respQ) /\ respQ' = Tail(respQ)
    /\ recvPc' = IF Head(respQ) = Nil THEN "done" ELSE "read"
    /\ UNCHANGED <<notRecv, sendNop, recvQ, recvDn, body>>

RecvRead ==
    /\ recvPc = "read" /\ body[res] # <<>>
    /\ recvDn' = Head(body[res])
    /\ body' = [body EXCEPT ![res] = Tail(@)]
    /\ recvPc' = "push"
    /\ UNCHANGED <<notRecv, sendNop, respQ, recvQ, res>>

RecvPush ==
    /\ recvPc = "push" /\ recvPc' = "read"
    /\ recvQ' \in AfterSend(recvQ, recvDn)
    /\ UNCHANGED <<notRecv, sendNop, respQ, res, recvDn, body>>

\* io.EOF, or another error with blocks still unread: both end the response
\* in the same way, and the tunnel goes on.
RecvEnd ==
    /\ recvPc = "read"
    /\ (body[res] = <<>> /\ res < current) \/ res \in broken
    /\ recvPc' = "look"
    /\ body' = [body EXCEPT ![res] = <<>>]
    /\ UNCHANGED <<notRecv, sendNop, respQ, recvQ, res, recvDn>>

IsIdle_Always == TRUE
IsIdle_Never == FALSE

\* 0 == len(self.respQ)
IsIdle == respQ = <<>>

RecvLook ==
    /\ recvPc = "look"
    /\ recvPc' = IF IsIdle THEN "poll" ELSE "next"
    /\ UNCHANGED <<notRecv, sendNop, respQ, recvQ, res, recvDn, body>>

\* The send on sendNop does not block: a poll that is already asked for is enough.
RecvPoll ==
    /\ recvPc = "poll" /\ recvPc' = "next"
    /\ sendNop' = TRUE
    /\ UNCHANGED <<notRecv, respQ, recvQ, res, recvDn, body>>

-----------------------------------------------------------------------------
(* The owner's calls                                                       *)

PushTCPRequest(dn) ==
    /\ Created
    /\ sendQ' \in AfterSend(sendQ, dn)
    /\ pushed' = pushed + 1
    /\ UNCHANGED <<alive, sendQsync, sendNop, respQ, recvQ, procVars, recvVars, destroyPc,
                   popVars, body, broken, serverVars, delivered, popped>>

notPop == <<alive, sendQ, sendQsync, sendNop, respQ, procVars, recvVars, destroyPc, body,
            broken, serverVars, pushed, delivered>>

\* A receive from recvQ: a block, or the nil of destroy.
TakeFromRecvQ ==
    /\ recvQ # <<>>
    /\ popDn' = Head(recvQ) /\ recvQ' = Tail(recvQ)
    /\ popped' = IF Head(recvQ) = Nil THEN popped ELSE Append(popped, Head(recvQ))

\* popTCPResponse up to and including its first select, which does not block.
PopCall ==
    /\ Created /\ popPc = "idle"
    /\ \/ TakeFromRecvQ /\ popPc' = IF Head(recvQ) = Nil THEN "check" ELSE "idle"
       \/ recvQ = <<>> /\ popDn' = Nil /\ popPc' = "check" /\ UNCHANGED <<recvQ, popped>>
    /\ UNCHANGED notPop

PopCheck ==
    /\ popPc = "check"
    /\ popPc' = IF alive THEN "wait" ELSE "idle"
    /\ UNCHANGED <<notPop, recvQ, popDn, popped>>

PopReceive ==
    /\ popPc = "wait" /\ TakeFromRecvQ /\ popPc' = "idle"
    /\ UNCHANGED notPop

notDestroy == <<sendQ, sendNop, respQ, procVars, recvVars, popVars, body, broken,
                serverVars, pushed, delivered, popped>>

DestroyBegin ==
    /\ Created /\ destroyPc = "idle" /\ destroyPc' = "close"
    /\ alive' = FALSE
    /\ UNCHANGED <<notDestroy, sendQsync, recvQ>>

DestroyClose_NotSync ==
    /\ destroyPc = "close" /\ destroyPc' = "wake"
    /\ UNCHANGED <<notDestroy, alive, sendQsync, recvQ>>

DestroyClose ==
    /\ destroyPc = "close" /\ destroyPc' = "wake"
    /\ sendQsync' = TRUE
    /\ UNCHANGED <<notDestroy, alive, recvQ>>

DestroyWake_NoNil ==
    /\ destroyPc = "wake" /\ destroyPc' = "done"
    /\ UNCHANGED <<notDestroy, alive, sendQsync, recvQ>>

\* recvQ <- nil blocks while recvQ is full.
DestroyWake ==
    /\ destroyPc = "wake" /\ destroyPc' = "done"
    /\ recvQ' \in AfterSend(recvQ, Nil)
    /\ UNCHANGED <<notDestroy, alive, sendQsync>>

-----------------------------------------------------------------------------
(* The server and the network (external)                                   *)

notServer == <<alive, sendQ, sendQsync, sendNop, respQ, recvQ, procVars, recvVars,
               destroyPc, popVars, pushed, delivered, popped>>

\* Response s has been started: its headers are on their way to Do.
Started(s) == s < seq \/ (s = seq /\ procPc # "do")

ServerWrite ==
    /\ Started(current) /\ current <= seq /\ sent < MaxBlocks
    /\ sent' = sent + 1
    /\ body' = IF current \in broken THEN body
               ELSE [body EXCEPT ![current] = Append(@, sent + 1)]
    /\ UNCHANGED <<notServer, broken, current>>

ServerFinish ==
    /\ Started(current) /\ current <= seq
    /\ current' = current + 1
    /\ UNCHANGED <<notServer, body, broken, sent>>

Break ==
    /\ Cardinality(broken) < MaxBroken
    /\ \E s \in Unread \ broken : Started(s) /\ broken' = broken \union {s}
    /\ UNCHANGED <<notServer, body, serverVars>>

-----------------------------------------------------------------------------
Do == DoAnswered \/ DoFails
ProcessLoop == ProcStart \/ ProcCheck \/ ProcSelect \/ Do \/ ProcPush
RecvLoop == RecvNext \/ RecvRead \/ RecvPush \/ RecvEnd \/ RecvLook \/ RecvPoll
PopBody == PopCheck \/ PopReceive
DestroyBody == DestroyClose \/ DestroyWake
Server == ServerWrite \/ ServerFinish \/ Break
Owner == (pushed < MaxPush /\ PushTCPRequest(pushed + 1)) \/ PopCall \/ DestroyBegin

Next == Connect \/ ConnectFail \/ ProcessLoop \/ RecvLoop \/ PopBody \/ DestroyBody
        \/ Server \/ Owner

Spec == Init /\ [][Next]_vars

\* A goroutine that can run does run.  Do may wait for an answer forever:
\* http.Client{} has no timeout.  tcpServer.recvLoop keeps calling popTCPResponse
\* while the tunnel is alive and its application takes the data; once isAlive is
\* FALSE it may call it no more (et_tcp_server.go:81), but a call it made goes on.
\* The server ends the responses recvLoop waits for: its Write to one that is
\* read, or broken, is not held up, and its target pauses sooner or later
\* (StartedIsFinished of TcpClient).
Fairness ==
    /\ WF_vars(ProcStart \/ ProcCheck \/ ProcSelect \/ ProcPush)
    /\ WF_vars(RecvLoop)
    /\ WF_vars(DestroyBody)
    /\ WF_vars(PopBody) /\ WF_vars(alive /\ PopCall)
    /\ WF_vars(recvPc = "read" /\ res >= current /\ ServerFinish)

FairSpec == Spec /\ Fairness

-----------------------------------------------------------------------------
(* Properties                                                              *)

Consecutive(s) == \A i \in DOMAIN s : s[i] = i

\* The server gets the pushed blocks in order and without a gap.
RequestsInOrder == Consecutive(delivered)

\* popTCPResponse hands out the server's stream in order; a block is missing
\* only if a response broke.
ResponsesInOrder ==
    /\ \A i, j \in DOMAIN popped : i < j => popped[i] < popped[j]
    /\ broken = {} => Consecutive(popped)

\* While the tunnel is alive the server always has, or will be given, a
\* response to write to: a request is sent, or a poll is asked for, or recvLoop
\* is on its way to ask for one.
PollOutstanding ==
    alive /\ Created /\ procPc # "start" /\ recvPc # "look" =>
        sendNop \/ Unread # {} \/ recvPc = "poll"

\* Polls do not pile up, however many data requests are answered in between.
FewPolls == Cardinality(polls \intersect Unread) + (IF sendNop THEN 1 ELSE 0) <= 3

\* A server that has finished every response is sent another request.
ServerGetsRequest ==
    Created /\ current > seq ~> current <= seq \/ ~alive \/ seq = MaxSeq

\* What the server writes reaches the owner, as long as no response breaks and
\* the tunnel is alive.
Delivery ==
    \A k \in 1 .. MaxBlocks :
        sent >= k ~> Len(popped) >= k \/ broken # {} \/ ~alive

IsFull(q) == Len(q) = DataQueueSize

\* Both loops are blocked for want of a popTCPResponse: processLoop at a full
\* respQ, recvLoop, with a block in its hand, at a full recvQ.
Jammed == procPc \in {"push", "exit"} /\ IsFull(respQ) /\ recvPc = "push" /\ IsFull(recvQ)

\* destroy ends processLoop, also one that waits for a request to send.  Two
\* things only can hold it for ever: a Do that is never answered, and a recvQ
\* that is full when the owner, whose recvLoop ends with isAlive, pops no more.
DestroyStopsProcessLoop ==
    Created /\ destroyPc # "idle" ~> procPc = "done" \/ [](procPc = "do") \/ []Jammed

\* The promise of Tunnel, which TcpServer builds on.  A client whose CONNECT
\* failed is no tunnel: newHTTPClient returned nil.
LastReceived ==
    LET blocks == (Range(popped) \union Range(recvQ)) \ {Nil}
    IN IF blocks = {} THEN 0 ELSE CHOOSE k \in blocks : \A b \in blocks : b <= k

Abstract == INSTANCE Tunnel WITH
    alive <- Created => alive,
    sending <- IF procPc = "do" THEN sendDn ELSE Nil,
    recvQ <- IF Created THEN recvQ ELSE <<>>,
    received <- LastReceived,
    destroyPc <- IF ~Created THEN "idle"
                 ELSE IF destroyPc = "close" THEN "wake" ELSE destroyPc

\* The httpClient does what Tunnel promises: two streams that keep their order,
\* nothing sent after a request that failed, and calls that block where the
\* owner must expect it.
TunnelSpec == Abstract!Spec

=============================================================================
