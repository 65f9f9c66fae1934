------------------------------ MODULE TcpProxy ------------------------------
(***************************************************************************)
(* One tcpProxy object of src/src/proxy/et_tcp_proxy.go: a TCP connection  *)
(* wrapped in two queues.  sendLoop moves blocks from sendQ to the         *)
(* connection, recvLoop from the connection to recvQ.  The owner calls     *)
(* pushData, popData, isAlive and destroy, each from one goroutine.  The   *)
(* client process owns one tcpProxy per accepted connection, the server    *)
(* process one per dialled connection.                                     *)
(*                                                                         *)
(* A block of data is its number in its stream: 1, 2, ...; Nil is the nil  *)
(* *dataBlock.  The filter is dummyFilter, which returns the block and no  *)
(* error, so that its error branches are dead.  A channel is a sequence; a *)
(* channel that is only ever closed (sendQsync) is a flag.  isAlive reads   *)
(* two fields without a lock, and is one step all the same: connAlive is   *)
(* never set to TRUE again, so that its value is the value of both fields  *)
(* at the last read.                                                       *)
(***************************************************************************)
EXTENDS Integers, Sequences

CONSTANTS
    DataQueueSize,  \* capacity of sendQ and of recvQ (100 in the code)
    MaxIn,          \* bound: blocks the remote end of the connection sends
    MaxOut          \* bound: blocks the owner gives to pushData

ASSUME TcpProxyAssumption ==
    /\ DataQueueSize \in Nat \ {0}
    /\ MaxIn \in Nat
    /\ MaxOut \in Nat

VARIABLES
    connAlive,  \* tcpProxy.connAlive
    sendQ,      \* tcpProxy.sendQ
    sendQsync,  \* the channel tcpProxy.sendQsync is closed
    recvQ,      \* tcpProxy.recvQ
    connClosed, \* conn.Close() was called
    peer,       \* the remote end of conn: open, ended ("fin") or reset ("rst")
    arrived,    \* number of blocks that arrived from it
    sendPc,     \* label of sendLoop
    sendDn,     \* the block sendLoop holds
    recvPc,     \* label of recvLoop
    read,       \* number of blocks recvLoop has read from the connection
    destroyPc,  \* label of the call of destroy
    popPc,      \* label of the call of popData
    popWait,    \* its time_wait_us: "none" (0), "timed" (> 0), "forever" (-1)
    popDn,      \* its result, once popPc is "idle" again
    pushed,     \* history: number of blocks given to pushData
    popped,     \* history: the blocks taken out of recvQ
    written     \* history: the blocks conn.Write accepted

connVars == <<connClosed, peer, arrived>>
sendVars == <<sendPc, sendDn>>
recvVars == <<recvPc, read>>
popVars == <<popPc, popWait, popDn>>
historyVars == <<pushed, popped, written>>
vars == <<connAlive, sendQ, sendQsync, recvQ, connVars, sendVars, recvVars,
          destroyPc, popVars, historyVars>>

\* What each goroutine never changes.
notSend == <<sendQsync, recvQ, connVars, recvVars, destroyPc, popVars, pushed, popped>>
notRecv == <<sendQsync, sendQ, connVars, sendVars, destroyPc, popVars, historyVars>>
notDestroy == <<sendQ, peer, arrived, sendVars, recvVars, popVars, historyVars>>
notPop == <<connAlive, sendQsync, sendQ, connVars, sendVars, recvVars, destroyPc,
            pushed, written>>

Nil == 0

Init ==
    /\ connAlive = TRUE /\ sendQsync = FALSE
    /\ sendQ = <<>> /\ recvQ = <<>>
    /\ connClosed = FALSE /\ peer = "open" /\ arrived = 0
    /\ sendPc = "check" /\ sendDn = Nil
    /\ recvPc = "check" /\ read = 0
    /\ destroyPc = "idle"
    /\ popPc = "idle" /\ popWait = "none" /\ popDn = Nil
    /\ pushed = 0 /\ popped = <<>> /\ written = <<>>

AfterSend_DropOldest(q, dn) ==
    {Append(IF Len(q) < DataQueueSize THEN q ELSE Tail(q), dn)}

\* The outcomes of sending dn on a buffered channel: none while it is full.
AfterSend(q, dn) == IF Len(q) < DataQueueSize THEN {Append(q, dn)} ELSE {}

IsAlive_ConnOnly == connAlive

\* Not monotone: a block, or the nil of destroy, that reaches recvQ after
\* connAlive was cleared makes isAlive() TRUE again.
IsAlive == connAlive \/ recvQ # <<>>

-----------------------------------------------------------------------------
(* sendLoop                                                                *)

SendCheck ==
    /\ sendPc = "check"
    /\ sendPc' = IF IsAlive THEN "pop" ELSE "done"
    /\ UNCHANGED <<notSend, connAlive, sendQ, sendDn, written>>

\* The select of popFromSendQ: either case, when both are ready.
SendPop ==
    /\ sendPc = "pop"
    /\ \/ /\ sendQ # <<>>
          /\ sendDn' = Head(sendQ) /\ sendQ' = Tail(sendQ)
          /\ sendPc' = "write"
       \/ /\ sendQsync
          /\ sendPc' = "done"
          /\ UNCHANGED <<sendDn, sendQ>>
    /\ UNCHANGED <<notSend, connAlive, written>>

SendWrite ==
    /\ sendPc = "write" /\ ~connClosed /\ peer # "rst"
    /\ written' = Append(written, sendDn)
    /\ sendPc' = "check"
    /\ UNCHANGED <<notSend, connAlive, sendQ, sendDn>>

\* The block sendLoop holds and the blocks left in sendQ are lost.
SendFail ==
    /\ sendPc = "write" /\ (connClosed \/ peer = "rst")
    /\ connAlive' = FALSE
    /\ sendPc' = "done"
    /\ UNCHANGED <<notSend, sendQ, sendDn, written>>

-----------------------------------------------------------------------------
(* recvLoop                                                                *)

RecvCheck ==
    /\ recvPc = "check"
    /\ recvPc' = IF IsAlive THEN "read" ELSE "done"
    /\ UNCHANGED <<notRecv, connAlive, recvQ, read>>

RecvRead ==
    /\ recvPc = "read" /\ ~connClosed
    /\ read < arrived
    /\ read' = read + 1
    /\ recvPc' = "push"
    /\ UNCHANGED <<notRecv, connAlive, recvQ>>

RecvPush ==
    /\ recvPc = "push"
    /\ recvQ' \in AfterSend(recvQ, read)
    /\ recvPc' = "check"
    /\ UNCHANGED <<notRecv, connAlive, read>>

\* End of file once everything that arrived has been read, or an error; after
\* a reset conn.Read may return what arrived before it, or the error at once.
RecvFail ==
    /\ recvPc = "read"
    /\ connClosed \/ peer = "rst" \/ (peer = "fin" /\ read = arrived)
    /\ connAlive' = FALSE
    /\ recvPc' = "done"
    /\ UNCHANGED <<notRecv, recvQ, read>>

-----------------------------------------------------------------------------
(* The owner's calls                                                       *)

PushData(dn) ==
    /\ sendQ' \in AfterSend(sendQ, dn)
    /\ pushed' = pushed + 1
    /\ UNCHANGED <<connAlive, sendQsync, recvQ, connVars, sendVars, recvVars,
                   destroyPc, popVars, popped, written>>

\* A receive from recvQ: a block, or the nil of destroy.
TakeFromRecvQ ==
    /\ recvQ # <<>>
    /\ popDn' = Head(recvQ) /\ recvQ' = Tail(recvQ)
    /\ popped' = IF Head(recvQ) = Nil THEN popped ELSE Append(popped, Head(recvQ))

\* popData(w) up to and including its first select, which does not block.
PopCall(w) ==
    /\ popPc = "idle" /\ popWait' = w
    /\ \/ /\ TakeFromRecvQ
          /\ popPc' = IF Head(recvQ) = Nil THEN "check" ELSE "idle"
       \/ /\ recvQ = <<>>
          /\ popDn' = Nil /\ popPc' = "check"
          /\ UNCHANGED <<recvQ, popped>>
    /\ UNCHANGED notPop

\* Without a block, popData waits only if it may and the proxy is alive.
PopCheck ==
    /\ popPc = "check"
    /\ popPc' = IF popWait # "none" /\ IsAlive THEN "wait" ELSE "idle"
    /\ UNCHANGED <<notPop, recvQ, popWait, popDn, popped>>

PopReceive ==
    /\ popPc = "wait" /\ TakeFromRecvQ
    /\ popPc' = "idle"
    /\ UNCHANGED <<notPop, popWait>>

MayExpire_Always == TRUE

MayExpire == popWait = "timed"

PopTimeout ==
    /\ popPc = "wait" /\ MayExpire
    /\ popPc' = "idle"
    /\ UNCHANGED <<notPop, recvQ, popWait, popDn, popped>>

DestroyBegin ==
    /\ destroyPc = "idle"
    /\ connAlive' = FALSE
    /\ destroyPc' = "close"
    /\ UNCHANGED <<notDestroy, connClosed, sendQsync, recvQ>>

DestroyClose_NotSync ==
    /\ destroyPc = "close"
    /\ connClosed' = TRUE
    /\ destroyPc' = "wake"
    /\ UNCHANGED <<notDestroy, connAlive, sendQsync, recvQ>>

\* conn.Close() and close(sendQsync): nobody tells the moment between apart.
DestroyClose ==
    /\ destroyPc = "close"
    /\ connClosed' = TRUE /\ sendQsync' = TRUE
    /\ destroyPc' = "wake"
    /\ UNCHANGED <<notDestroy, connAlive, recvQ>>

DestroyWake_NoNil ==
    /\ destroyPc = "wake" /\ destroyPc' = "done"
    /\ UNCHANGED <<notDestroy, connAlive, connClosed, sendQsync, recvQ>>

\* recvQ <- nil blocks while recvQ is full.
DestroyWake ==
    /\ destroyPc = "wake"
    /\ recvQ' \in AfterSend(recvQ, Nil)
    /\ destroyPc' = "done"
    /\ UNCHANGED <<notDestroy, connAlive, connClosed, sendQsync>>

-----------------------------------------------------------------------------
(* The remote end of the TCP connection (external): it sends, then closes  *)
(* its side or resets the connection.                                      *)

notRemote == <<connAlive, sendQ, sendQsync, recvQ, connClosed, sendVars, recvVars,
               destroyPc, popVars, historyVars>>

RemoteSend ==
    /\ peer = "open" /\ arrived < MaxIn
    /\ arrived' = arrived + 1
    /\ UNCHANGED <<notRemote, peer>>

RemoteEnd ==
    /\ \/ peer = "open" /\ peer' \in {"fin", "rst"}
       \/ peer = "fin" /\ peer' = "rst"
    /\ UNCHANGED <<notRemote, arrived>>

-----------------------------------------------------------------------------
SendLoop == SendCheck \/ SendPop \/ SendWrite \/ SendFail
RecvLoop == RecvCheck \/ RecvRead \/ RecvPush \/ RecvFail
PopBody == PopCheck \/ PopReceive \/ PopTimeout
DestroyBody == DestroyClose \/ DestroyWake
Remote == RemoteSend \/ RemoteEnd

\* The most general owner: one goroutine pushes, one pops with any timeout,
\* one calls destroy, at any moment and once.
Owner ==
    \/ pushed < MaxOut /\ PushData(pushed + 1)
    \/ \E w \in {"none", "timed", "forever"} : PopCall(w)
    \/ DestroyBegin

Next == SendLoop \/ RecvLoop \/ PopBody \/ DestroyBody \/ Remote \/ Owner

Spec == Init /\ [][Next]_vars

\* A goroutine that can run does run.  conn.Write need return only once the
\* connection is closed locally: a remote end that does not read may block it.
Fairness ==
    /\ WF_vars(SendCheck \/ SendPop)
    /\ WF_vars(connClosed /\ SendFail)
    /\ WF_vars(RecvLoop)
    /\ WF_vars(PopBody)
    /\ WF_vars(DestroyBody)

FairSpec == Spec /\ Fairness

-----------------------------------------------------------------------------
(* Properties                                                              *)

FlagsOK == connAlive \in BOOLEAN /\ sendQsync \in BOOLEAN /\ connClosed \in BOOLEAN

QueuesOK ==
    /\ sendQ \in Seq(Nat) /\ Len(sendQ) <= DataQueueSize
    /\ recvQ \in Seq(Nat) /\ Len(recvQ) <= DataQueueSize

CountsOK == arrived \in 0 .. MaxIn /\ read \in 0 .. arrived

BlocksOK ==
    /\ sendDn \in Nat /\ popDn \in Nat /\ pushed \in Nat
    /\ popped \in Seq(Nat) /\ written \in Seq(Nat)

LabelsOK ==
    /\ peer \in {"open", "fin", "rst"}
    /\ sendPc \in {"check", "pop", "write", "done"}
    /\ recvPc \in {"check", "read", "push", "done"}
    /\ destroyPc \in {"idle", "close", "wake", "done"}
    /\ popPc \in {"idle", "check", "wait"}
    /\ popWait \in {"none", "timed", "forever"}

\* Type invariant: the queues keep to their capacity, recvLoop reads what has
\* arrived, every goroutine is at one of its labels.
TypeOK == FlagsOK /\ QueuesOK /\ CountsOK /\ BlocksOK /\ LabelsOK

Consecutive(s) == \A i \in DOMAIN s : s[i] = i

\* popData hands out exactly the stream the remote end sent, in order, no block
\* missing or repeated, whatever the timeouts, the end of the connection or a
\* concurrent destroy do (its nil may stand in front of a block in recvQ).
PoppedInOrder == Consecutive(popped)

\* conn.Write gets the pushed blocks in order and without a gap; a failed write
\* loses a block, and sendLoop writes nothing after it.
WrittenInOrder == Consecutive(written)

\* End of file loses nothing: unless destroy was called or sendLoop ended,
\* isAlive() is FALSE only when every block read from the connection was popped.
DrainBeforeDead ==
    ~IsAlive /\ destroyPc = "idle" /\ sendPc # "done" => Len(popped) = read

\* popData(-1) returns nil only if the connection is dead, so that a loop of
\* such calls does not spin on a live connection.
NoSpuriousNil ==
    popPc = "idle" /\ popWait = "forever" /\ popDn = Nil => ~connAlive

\* A popData that waits is woken by destroy, which queues a nil for it.
DestroyWakesPopper ==
    destroyPc # "idle" /\ popPc = "wait" ~> popPc # "wait"

\* destroy ends sendLoop wherever it is: waiting for a block, or inside
\* conn.Write to a remote end that does not read.
DestroyStopsSendLoop == destroyPc # "idle" ~> sendPc = "done"

=============================================================================
