------------------------------- MODULE Tunnel -------------------------------
(***************************************************************************)
(* What an httpClient promises to the tcpServer that owns it: two streams  *)
(* of blocks and a flag.  How requests, responses and polls bring it about *)
(* is left to HttpClient, which is checked to implement this module        *)
(* (HttpClient!TunnelSpec).  The calls of the owner are the ones of the    *)
(* code, since the owner can tell where they block.                        *)
(***************************************************************************)
EXTENDS Integers, Sequences

CONSTANTS
    DataQueueSize,  \* capacity of sendQ and of recvQ
    MaxPush,        \* bound: blocks given to pushTCPRequest
    MaxBlocks       \* bound: blocks of the server's stream

VARIABLES
    alive,      \* httpClient.alive
    sendQ,      \* httpClient.sendQ
    sending,    \* the block on its way to the server, or Nil
    failed,     \* a request has failed: nothing is sent after it
    recvQ,      \* httpClient.recvQ
    received,   \* the last block of the server's stream put into recvQ
    destroyPc,  \* label of the call of destroy
    popPc,      \* label of the call of popTCPResponse
    popDn,      \* its result, once popPc is "idle" again
    pushed,     \* history: number of blocks given to pushTCPRequest
    delivered,  \* history: the blocks the server got
    popped      \* history: the blocks taken out of recvQ

sendVars == <<sending, failed, delivered>>
popVars == <<popPc, popDn, popped>>
vars == <<alive, sendQ, sendVars, recvQ, received, destroyPc, popVars, pushed>>

Nil == 0

Init ==
    /\ alive = TRUE
    /\ sendQ = <<>> /\ sending = Nil /\ failed = FALSE
    /\ recvQ = <<>> /\ received = 0
    /\ destroyPc = "idle" /\ popPc = "idle" /\ popDn = Nil
    /\ pushed = 0 /\ delivered = <<>> /\ popped = <<>>

AfterSend(q, x) == IF Len(q) < DataQueueSize THEN {Append(q, x)} ELSE {}

-----------------------------------------------------------------------------
(* The tunnel itself                                                       *)

Take ==
    /\ sendQ # <<>> /\ sending = Nil /\ ~failed
    /\ sending' = Head(sendQ) /\ sendQ' = Tail(sendQ)
    /\ UNCHANGED <<alive, failed, recvQ, received, destroyPc, popVars, pushed, delivered>>

Deliver ==
    /\ sending # Nil /\ sending' = Nil
    /\ delivered' = Append(delivered, sending)
    /\ UNCHANGED <<alive, sendQ, failed, recvQ, received, destroyPc, popVars, pushed>>

\* A request fails, with or without a block; the server may have got the block.
Fail ==
    /\ alive' = FALSE /\ failed' = TRUE /\ ~failed
    /\ sending' = Nil
    /\ \/ UNCHANGED delivered
       \/ sending # Nil /\ delivered' = Append(delivered, sending)
    /\ UNCHANGED <<sendQ, recvQ, received, destroyPc, popVars, pushed>>

\* Blocks come in order, but those of a response that broke are missing.
Receive ==
    /\ \E k \in received + 1 .. MaxBlocks : received' = k /\ recvQ' \in AfterSend(recvQ, k)
    /\ UNCHANGED <<alive, sendQ, sendVars, destroyPc, popVars, pushed>>

-----------------------------------------------------------------------------
(* The owner's calls                                                       *)

PushTCPRequest(dn) ==
    /\ sendQ' \in AfterSend(sendQ, dn)
    /\ pushed' = pushed + 1
    /\ UNCHANGED <<alive, sendVars, recvQ, received, destroyPc, popVars>>

TakeFromRecvQ ==
    /\ recvQ # <<>>
    /\ popDn' = Head(recvQ) /\ recvQ' = Tail(recvQ)
    /\ popped' = IF Head(recvQ) = Nil THEN popped ELSE Append(popped, Head(recvQ))

notPop == <<alive, sendQ, sendVars, received, destroyPc, pushed>>

PopCall ==
    /\ popPc = "idle"
    /\ \/ TakeFromRecvQ /\ popPc' = IF Head(recvQ) = Nil THEN "check" ELSE "idle"
       \/ recvQ = <<>> /\ popDn' = Nil /\ popPc' = "check" /\ UNCHANGED <<recvQ, popped>>
    /\ UNCHANGED notPop

PopCheck ==
    /\ popPc = "check"
    /\ popPc' = IF alive THEN "wait" ELSE "idle"
    /\ UNCHANGED <<notPop, recvQ, popDn, popped>>

PopReceive ==
    /\ popPc = "wait" /\ TakeFromRecvQ /\ popPc' = "idle"
    /\ UNCHANGED notPop

DestroyBegin ==
    /\ destroyPc = "idle" /\ destroyPc' = "wake"
    /\ alive' = FALSE
    /\ UNCHANGED <<sendQ, sendVars, recvQ, received, popVars, pushed>>

DestroyWake_NoNil ==
    /\ destroyPc = "wake" /\ destroyPc' = "done"
    /\ UNCHANGED <<alive, sendQ, sendVars, recvQ, received, popVars, pushed>>

DestroyWake ==
    /\ destroyPc = "wake" /\ destroyPc' = "done"
    /\ recvQ' \in AfterSend(recvQ, Nil)
    /\ UNCHANGED <<alive, sendQ, sendVars, received, popVars, pushed>>

-----------------------------------------------------------------------------
Network == Take \/ Deliver \/ Fail \/ Receive
PopBody == PopCheck \/ PopReceive
Owner == (pushed < MaxPush /\ PushTCPRequest(pushed + 1)) \/ PopCall \/ DestroyBegin

Next == Network \/ PopBody \/ DestroyWake \/ Owner

Spec == Init /\ [][Next]_vars
=============================================================================
