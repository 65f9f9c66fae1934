---------------------------- MODULE TcpServerProofs ----------------------------
(***************************************************************************)
(* Theorems about TcpServer, for every capacity of the queues and every    *)
(* number of blocks.  What the tcpProxy promises is taken from             *)
(* TcpProxyProofs, whose lemmas hold for an owner that pushes any blocks.  *)
(***************************************************************************)
EXTENDS TcpServer, QueueFacts

P == INSTANCE TcpProxyProofs WITH MaxOut <- MaxBlocks

\* sendLoop holds a block that it popped and has yet to push.
UpInHand == upPc = "pop" /\ popPc = "idle" /\ popDn # Nil

\* What was popped was pushed, but for the block in sendLoop's hand.
UpInv ==
    /\ popPc # "idle" => upPc = "pop" /\ popDn = Nil
    /\ UpInHand => popDn = Len(popped)
    /\ hPushed = IF UpInHand THEN Len(popped) - 1 ELSE Len(popped)

TunnelTypes ==
    /\ hSendQ \in Seq(Nat) /\ sending \in Nat /\ hPushed \in Nat /\ delivered \in Seq(Nat)
    /\ hRecvQ \in Seq(Nat) /\ received \in Nat /\ hPopDn \in Nat /\ hPopped \in Seq(Nat)

\* Until a request fails, the server got what left sendQ, but for the block on
\* its way.
TunnelInv ==
    /\ EndsWith(hSendQ, hPushed)
    /\ sending # Nil =>
          ~failed /\ sending = hPushed - Len(hSendQ) /\ Len(delivered) = sending - 1
    /\ sending = Nil /\ ~failed => Len(delivered) = hPushed - Len(hSendQ)
    /\ UpInOrder

\* sendLoop ends on its own only when nothing more can come out of recvQ.
DrainInv ==
    upPc = "done" /\ sendPc # "done" /\ destroyPc = "idle" =>
        recvQ = <<>> /\ recvPc = "done" /\ Len(popped) = read

\* recvLoop holds a block that it popped and has yet to push; so many of the
\* popped blocks it has pushed.
DownInHand == downPc = "pop" /\ hPopPc = "idle" /\ hPopDn # Nil
Given == IF DownInHand THEN Len(hPopped) - 1 ELSE Len(hPopped)

\* sendQ ends with the last block given, what left it before was written, except
\* the block in the hand of the tcpProxy's sendLoop.
DownInv ==
    /\ hPopPc # "idle" => downPc = "pop" /\ hPopDn = Nil
    /\ DownInHand => Len(hPopped) > 0 /\ hPopDn = hPopped[Len(hPopped)]
    /\ Len(sendQ) <= Given
    /\ \A i \in 1 .. Len(sendQ) : sendQ[i] = hPopped[Given - Len(sendQ) + i]
    /\ sendPc = "write" => /\ Len(written) + 1 = Given - Len(sendQ)
                           /\ sendDn = hPopped[Given - Len(sendQ)]
    /\ sendPc \in {"check", "pop"} => Len(written) = Given - Len(sendQ)
    /\ Len(written) <= Len(hPopped)
    /\ \A i \in 1 .. Len(written) : written[i] = hPopped[i]

IInv == P!TypeOK /\ P!RecvQInv /\ P!DeadInv /\ UpInv /\ TunnelTypes /\ TunnelInv /\ DrainInv
        /\ DownInv

-----------------------------------------------------------------------------
(* What the tcpServer does to its tcpProxy is what AnyOwner may do.        *)

LEMMA SameActions ==
  /\ T!SendLoop <=> P!SendLoop
  /\ T!RecvLoop <=> P!RecvLoop
  /\ T!PopBody <=> P!PopBody
  /\ T!DestroyBody <=> P!DestroyBody
  /\ T!Remote <=> P!Remote
  /\ \A dn : T!PushData(dn) <=> P!PushData(dn)
  /\ \A w : T!PopCall(w) <=> P!PopCall(w)
  /\ T!DestroyBegin <=> P!DestroyBegin
  /\ UNCHANGED proxyVars => UNCHANGED P!vars
<1> USE DEF T!Nil, P!Nil, T!AfterSend, P!AfterSend, T!IsAlive, P!IsAlive,
            T!connVars, P!connVars, T!sendVars, P!sendVars, T!recvVars, P!recvVars,
            T!popVars, P!popVars, T!historyVars, P!historyVars
<1>1. T!SendLoop <=> P!SendLoop
  BY DEF T!SendLoop, P!SendLoop, T!SendCheck, P!SendCheck, T!SendPop, P!SendPop,
         T!SendWrite, P!SendWrite, T!SendFail, P!SendFail, T!notSend, P!notSend
<1>2. T!RecvLoop <=> P!RecvLoop
  BY DEF T!RecvLoop, P!RecvLoop, T!RecvCheck, P!RecvCheck, T!RecvRead, P!RecvRead,
         T!RecvPush, P!RecvPush, T!RecvFail, P!RecvFail, T!notRecv, P!notRecv
<1>3. T!PopBody <=> P!PopBody
  BY DEF T!PopBody, P!PopBody, T!PopCheck, P!PopCheck, T!PopReceive, P!PopReceive,
         T!TakeFromRecvQ, P!TakeFromRecvQ, T!PopTimeout, P!PopTimeout, T!MayExpire,
         P!MayExpire, T!notPop, P!notPop
<1>4. T!DestroyBody <=> P!DestroyBody
  BY DEF T!DestroyBody, P!DestroyBody, T!DestroyClose, P!DestroyClose, T!DestroyWake,
         P!DestroyWake, T!notDestroy, P!notDestroy
<1>5. T!Remote <=> P!Remote
  BY DEF T!Remote, P!Remote, T!RemoteSend, P!RemoteSend, T!RemoteEnd, P!RemoteEnd,
         T!notRemote, P!notRemote
<1>6. \A dn : T!PushData(dn) <=> P!PushData(dn)
  BY DEF T!PushData, P!PushData
<1>7. \A w : T!PopCall(w) <=> P!PopCall(w)
  BY DEF T!PopCall, P!PopCall, T!TakeFromRecvQ, P!TakeFromRecvQ, T!notPop, P!notPop
<1>8. T!DestroyBegin <=> P!DestroyBegin
  BY DEF T!DestroyBegin, P!DestroyBegin, T!notDestroy, P!notDestroy
<1>9. UNCHANGED proxyVars => UNCHANGED P!vars
  BY DEF proxyVars, P!vars
<1>10. QED
  BY <1>1, <1>2, <1>3, <1>4, <1>5, <1>6, <1>7, <1>8, <1>9

LEMMA ProxyStep ==
  ASSUME hPopDn \in Nat, [Next]_vars
  PROVE  [P!AnyNext]_(P!vars)
<1>1. CASE UNCHANGED proxyVars
  BY <1>1, SameActions
<1>2. CASE P!AnyNext
  BY <1>2
<1>3. CASE SendLoop
  <2>1. T!PopCall("forever") => P!AnyNext
    BY SameActions DEF P!AnyNext, P!AnyOwner
  <2>2. QED
    BY <1>1, <1>2, <1>3, <2>1 DEF SendLoop, UpCheck, UpCall, UpPush
<1>4. CASE RecvLoop
  <2>1. T!PushData(hPopDn) => P!AnyNext
    BY SameActions DEF P!AnyNext, P!AnyOwner
  <2>2. QED
    BY <1>1, <1>2, <1>4, <2>1 DEF RecvLoop, DownCheck, DownCall, DownPush
<1>5. CASE CheckLoop
  BY <1>1, <1>2, <1>5, SameActions DEF CheckLoop, CheckTick, CheckProxy, P!AnyNext, P!AnyOwner
<1>6. CASE ProxyBody
  BY <1>2, <1>6, SameActions DEF ProxyBody, P!AnyNext
<1>7. CASE HttpBody \/ UNCHANGED vars
  BY <1>1, <1>7 DEF HttpBody, vars
<1>8. QED
  BY <1>3, <1>4, <1>5, <1>6, <1>7 DEF Next

LEMMA ProxyInit == Init => P!TypeOK /\ P!RecvQInv /\ P!DeadInv
<1>1. Init => P!Init
  BY DEF Init, T!Init, P!Init, T!Nil, P!Nil
<1>2. P!Init => P!TypeOK
  BY TcpServerAssumption, P!TypeInit DEF TcpServerAssumption
<1>4. P!Init => P!RecvQInv
  BY TcpServerAssumption, P!RecvQInit DEF TcpServerAssumption
<1>3. QED
  BY <1>1, <1>2, <1>4 DEF P!DeadInv, P!Init

-----------------------------------------------------------------------------
LEMMA TunnelSend ==
  ASSUME NEW q \in Seq(Nat), NEW dn \in Nat, NEW r, r \in H!AfterSend(q, dn)
  PROVE  r = Append(q, dn) /\ r \in Seq(Nat)
  BY AppendFacts DEF H!AfterSend

LEMMA TunnelTypesStep ==
  ASSUME TunnelTypes, popDn \in Nat, [Next]_vars
  PROVE  TunnelTypes'
<1> USE DEF TunnelTypes
<1>1. CASE UNCHANGED httpVars
  BY <1>1 DEF httpVars
<1>2. CASE H!PushTCPRequest(popDn)
  <2>1. hSendQ' \in Seq(Nat)
    BY <1>2, TunnelSend DEF H!PushTCPRequest
  <2>2. QED
    BY <1>2, <2>1 DEF H!PushTCPRequest, H!sendVars, H!popVars
<1>3. CASE H!PopCall \/ H!PopBody
  <2>1. hRecvQ # <<>> => Head(hRecvQ) \in Nat /\ Tail(hRecvQ) \in Seq(Nat)
    BY TailFacts, SeqFacts
  <2>2. UNCHANGED <<hSendQ, sending, hPushed, delivered, received>>
    BY <1>3 DEF H!PopCall, H!PopBody, H!PopCheck, H!PopReceive, H!notPop, H!sendVars
  <2>3. \/ H!TakeFromRecvQ
        \/ hRecvQ' = hRecvQ /\ hPopped' = hPopped /\ hPopDn' \in {hPopDn, Nil}
    BY <1>3 DEF H!PopCall, H!PopBody, H!PopCheck, H!PopReceive, H!Nil, Nil
  <2>4. CASE H!TakeFromRecvQ
    <3>1. hPopped' \in Seq(Nat)
      BY <2>1, <2>4, AppendFacts DEF H!TakeFromRecvQ
    <3>2. QED
      BY <2>1, <2>2, <2>4, <3>1 DEF H!TakeFromRecvQ
  <2>5. CASE hRecvQ' = hRecvQ /\ hPopped' = hPopped /\ hPopDn' \in {hPopDn, Nil}
    BY <2>2, <2>5 DEF Nil
  <2>6. QED
    BY <2>3, <2>4, <2>5
<1>4. CASE H!DestroyBegin
  BY <1>4 DEF H!DestroyBegin, H!sendVars, H!popVars
<1>5. CASE H!DestroyWake
  <2>1. hRecvQ' \in Seq(Nat)
    BY <1>5, TunnelSend DEF H!DestroyWake, H!Nil
  <2>2. QED
    BY <1>5, <2>1 DEF H!DestroyWake, H!sendVars, H!popVars
<1>6. CASE H!Take
  <2>1. hSendQ # <<>> => Head(hSendQ) \in Nat /\ Tail(hSendQ) \in Seq(Nat)
    BY TailFacts, SeqFacts
  <2>2. QED
    BY <1>6, <2>1 DEF H!Take, H!popVars
<1>7. CASE H!Deliver \/ H!Fail
  <2>1. Append(delivered, sending) \in Seq(Nat)
    BY AppendFacts
  <2>2. /\ UNCHANGED <<hSendQ, hPushed, hRecvQ, received, hPopDn, hPopped>>
        /\ sending' = Nil /\ delivered' \in {delivered, Append(delivered, sending)}
    BY <1>7 DEF H!Deliver, H!Fail, H!Nil, Nil, H!popVars
  <2>3. QED
    BY <2>1, <2>2 DEF Nil
<1>8. CASE H!Receive
  <2>1. PICK k \in received + 1 .. MaxBlocks :
                received' = k /\ hRecvQ' \in H!AfterSend(hRecvQ, k)
    BY <1>8 DEF H!Receive
  <2>2. k \in Nat
    BY TcpServerAssumption DEF TcpServerAssumption
  <2>3. hRecvQ' \in Seq(Nat)
    BY <2>1, <2>2, TunnelSend
  <2>4. QED
    BY <1>8, <2>1, <2>2, <2>3 DEF H!Receive, H!sendVars, H!popVars
<1>9. QED
  BY <1>1, <1>2, <1>3, <1>4, <1>5, <1>6, <1>7, <1>8
     DEF H!Network, Next, SendLoop, UpCheck, UpCall, UpPush, RecvLoop, DownCheck, DownCall, DownPush,
         CheckLoop, CheckTick, CheckProxy, ProxyBody, HttpBody, vars

LEMMA UpStep ==
  ASSUME P!TypeOK, P!TypeOK', P!RecvQInv', UpInv, [Next]_vars
  PROVE  UpInv'
<1>1. popped \in Seq(Nat) /\ popped' \in Seq(Nat) /\ Len(popped) \in Nat /\ P!PoppedInOrder'
  BY SeqFacts DEF P!TypeOK, P!BlocksOK, P!RecvQInv
<1>2. ASSUME T!TakeFromRecvQ
      PROVE  \/ popDn' = Nil /\ popped' = popped
             \/ popDn' # Nil /\ popDn' = Len(popped') /\ Len(popped) = Len(popped') - 1
  <2>1. CASE Head(recvQ) = Nil
    BY <1>2, <2>1 DEF T!TakeFromRecvQ, T!Nil, Nil
  <2>2. CASE Head(recvQ) # Nil
    <3>1. popDn' = Head(recvQ) /\ popped' = Append(popped, Head(recvQ))
      BY <1>2, <2>2 DEF T!TakeFromRecvQ, T!Nil, Nil
    <3>2. recvQ # <<>> /\ recvQ \in Seq(Nat)
      BY <1>2 DEF T!TakeFromRecvQ, P!TypeOK, P!QueuesOK
    <3>3. Head(recvQ) \in Nat
      BY <3>2, TailFacts, SeqFacts
    <3>4. Len(popped') = Len(popped) + 1 /\ popped'[Len(popped) + 1] = Head(recvQ)
      BY <1>1, <3>1, <3>3, AppendFacts
    <3>5. popped'[Len(popped')] = Len(popped')
      BY <1>1, <3>4, SeqFacts DEF P!PoppedInOrder, P!Consecutive
    <3>6. QED
      BY <1>1, <2>2, <3>1, <3>4, <3>5
  <2>3. QED
    BY <2>1, <2>2
<1>3. CASE UNCHANGED <<popPc, popDn, popped, hPushed>> /\ (upPc' = upPc \/ (upPc # "pop" /\ upPc' # "pop"))
  BY <1>3 DEF UpInv, UpInHand
<1>4. CASE UpCheck
  BY <1>3, <1>4 DEF UpCheck, proxyVars, httpVars
<1>5. CASE UpCall
  <2>1. /\ upPc = "call" /\ upPc' = "pop" /\ popPc = "idle" /\ hPushed' = hPushed
        /\ \/ T!TakeFromRecvQ /\ popPc' = IF popDn' = Nil THEN "check" ELSE "idle"
           \/ popDn' = Nil /\ popPc' = "check" /\ popped' = popped
    BY <1>5 DEF UpCall, T!PopCall, T!TakeFromRecvQ, T!Nil, Nil, httpVars
  <2>2. QED
    BY <1>1, <1>2, <2>1 DEF UpInv, UpInHand
<1>6. CASE UpPush
  <2>1. /\ upPc = "pop" /\ upPc' = "check" /\ popPc = "idle"
        /\ UNCHANGED <<popPc, popDn, popped>>
        /\ hPushed' = IF popDn = Nil THEN hPushed ELSE hPushed + 1
    BY <1>6 DEF UpPush, H!PushTCPRequest, proxyVars, httpVars
  <2>2. QED
    BY <1>1, <2>1 DEF UpInv, UpInHand
<1>7. CASE ProxyBody
  <2>1. upPc' = upPc /\ hPushed' = hPushed
    BY <1>7 DEF ProxyBody, httpVars, loopVars
  <2>2. \/ UNCHANGED <<popPc, popDn, popped>>
        \/ T!PopBody
    BY <1>7 DEF ProxyBody, T!SendLoop, T!SendCheck, T!SendPop, T!SendWrite, T!SendFail,
                T!notSend, T!RecvLoop, T!RecvCheck, T!RecvRead, T!RecvPush, T!RecvFail,
                T!notRecv, T!DestroyBody, T!DestroyClose, T!DestroyWake, T!notDestroy,
                T!Remote, T!RemoteSend, T!RemoteEnd, T!notRemote, T!popVars, T!historyVars
  <2>3. ASSUME T!PopBody
        PROVE  /\ popPc # "idle"
               /\ \/ UNCHANGED <<popDn, popped>>
                  \/ T!TakeFromRecvQ /\ popPc' = "idle"
    BY <2>3 DEF T!PopBody, T!PopCheck, T!PopReceive, T!PopTimeout
  <2>4. QED
    BY <1>1, <1>2, <1>3, <2>1, <2>2, <2>3 DEF UpInv, UpInHand
<1>8. CASE RecvLoop \/ CheckLoop \/ HttpBody \/ UNCHANGED vars
  <2>1. upPc' = upPc
    BY <1>8 DEF RecvLoop, DownCheck, DownCall, DownPush, CheckLoop, CheckTick, CheckProxy,
                HttpBody, loopVars, vars
  <2>2. hPushed' = hPushed
    BY <1>8 DEF RecvLoop, DownCheck, DownCall, DownPush, CheckLoop, CheckTick, CheckProxy,
                HttpBody, H!PopCall, H!notPop, H!DestroyBegin, H!Network, H!Take, H!Deliver,
                H!Fail, H!Receive, H!PopBody, H!PopCheck, H!PopReceive, H!DestroyWake,
                httpVars, vars
  <2>3. UNCHANGED <<popPc, popDn, popped>>
    BY <1>8 DEF RecvLoop, DownCheck, DownCall, DownPush, CheckLoop, CheckTick, CheckProxy,
                HttpBody, T!PushData, T!DestroyBegin, T!notDestroy, T!popVars, T!historyVars,
                proxyVars, vars
  <2>4. QED
    BY <1>3, <2>1, <2>2, <2>3
<1>9. QED
  BY <1>4, <1>5, <1>6, <1>7, <1>8 DEF Next, SendLoop
LEMMA TunnelStep ==
  ASSUME TunnelTypes, TunnelTypes', TunnelInv, UpInv, popped \in Seq(Nat), [Next]_vars
  PROVE  TunnelInv'
<1>1. /\ hSendQ \in Seq(Nat) /\ Len(hSendQ) \in Nat /\ hPushed \in Nat /\ sending \in Nat
      /\ delivered \in Seq(Nat) /\ Len(delivered) \in Nat /\ Len(popped) \in Nat
  BY SeqFacts DEF TunnelTypes
<1>2. CASE UNCHANGED <<hSendQ, sending, failed, hPushed, delivered>>
  BY <1>2 DEF TunnelInv, UpInOrder
<1>3. CASE UpInHand /\ H!PushTCPRequest(popDn)
  <2>1. /\ popDn = hPushed + 1 /\ hSendQ' = Append(hSendQ, hPushed + 1)
        /\ hPushed' = hPushed + 1 /\ UNCHANGED <<sending, failed, delivered>>
    BY <1>1, <1>3 DEF UpInv, H!PushTCPRequest, H!AfterSend, H!sendVars
  <2>2. /\ Len(hSendQ') = Len(hSendQ) + 1 /\ hSendQ'[Len(hSendQ) + 1] = hPushed + 1
        /\ \A i \in 1 .. Len(hSendQ) : hSendQ'[i] = hSendQ[i]
    BY <1>1, <2>1, AppendFacts
  <2>3. EndsWith(hSendQ', hPushed + 1)
    BY <1>1, <2>2, EndsWithAppend DEF TunnelInv
  <2>4. hPushed' - Len(hSendQ') = hPushed - Len(hSendQ)
    BY <1>1, <2>1, <2>2
  <2>5. QED
    BY <2>1, <2>3, <2>4 DEF TunnelInv, UpInOrder
<1>4. CASE H!Take
  <2>1. /\ hSendQ # <<>> /\ sending = Nil /\ ~failed /\ sending' = Head(hSendQ)
        /\ hSendQ' = Tail(hSendQ) /\ UNCHANGED <<failed, hPushed, delivered>>
    BY <1>4 DEF H!Take, H!Nil, Nil
  <2>2. /\ Len(hSendQ) \in Nat \ {0} /\ Len(hSendQ') = Len(hSendQ) - 1
        /\ sending' = hSendQ[1]
        /\ \A i \in 1 .. Len(hSendQ) - 1 : hSendQ'[i] = hSendQ[i + 1]
    BY <1>1, <2>1, TailFacts
  <2>3. EndsWith(hSendQ', hPushed) /\ sending' = hPushed - Len(hSendQ')
    BY <1>1, <2>2, EndsWithTail DEF TunnelInv
  <2>4. Len(delivered) = hPushed - Len(hSendQ) /\ Len(hSendQ) <= hPushed
    BY <2>1 DEF TunnelInv, EndsWith
  <2>5. sending' # Nil /\ Len(delivered) = sending' - 1
    BY <1>1, <2>2, <2>3, <2>4 DEF Nil
  <2>6. QED
    BY <2>1, <2>3, <2>5 DEF TunnelInv, UpInOrder
<1>5. CASE H!Deliver \/ H!Fail
  <2>1. /\ UNCHANGED <<hSendQ, hPushed>> /\ sending' = Nil
        /\ \/ delivered' = delivered /\ failed'
           \/ sending # Nil /\ delivered' = Append(delivered, sending)
    BY <1>5 DEF H!Deliver, H!Fail, H!Nil, Nil
  <2>2. ASSUME sending # Nil, delivered' = Append(delivered, sending)
        PROVE  UpInOrder' /\ Len(delivered') = hPushed - Len(hSendQ)
    <3>1. sending = Len(delivered) + 1 /\ sending = hPushed - Len(hSendQ)
      BY <1>1, <2>2 DEF TunnelInv
    <3>2. UpInOrder'
      BY <1>1, <2>2, <3>1, CountingAppend DEF TunnelInv, UpInOrder
    <3>3. QED
      BY <1>1, <2>2, <3>1, <3>2, AppendFacts
  <2>3. QED
    BY <2>1, <2>2 DEF TunnelInv, UpInOrder
<1>6. CASE SendLoop
  <2>1. UNCHANGED httpVars \/ (UpInHand /\ H!PushTCPRequest(popDn))
    BY <1>6 DEF SendLoop, UpCheck, UpCall, UpPush, UpInHand
  <2>2. QED
    BY <1>2, <1>3, <2>1 DEF httpVars
<1>7. CASE HttpBody
  BY <1>2, <1>4, <1>5, <1>7 DEF HttpBody, H!Network, H!Receive, H!PopBody, H!PopCheck,
     H!PopReceive, H!DestroyWake, H!notPop, H!sendVars
<1>8. CASE RecvLoop \/ CheckLoop \/ ProxyBody \/ UNCHANGED vars
  BY <1>2, <1>8 DEF RecvLoop, DownCheck, DownCall, DownPush, CheckLoop, CheckTick, CheckProxy,
     ProxyBody, H!PopCall, H!notPop, H!DestroyBegin, H!sendVars, httpVars, vars
<1>9. QED
  BY <1>6, <1>7, <1>8 DEF Next

LEMMA DrainStep ==
  ASSUME P!TypeOK, P!RecvQInv, P!DeadInv, UpInv, DrainInv, [Next]_vars
  PROVE  DrainInv'
<1>1. CASE upPc # "done" /\ upPc' = "done"
  <2>1. UpCheck /\ ~T!IsAlive
    BY <1>1 DEF Next, SendLoop, UpCheck, UpCall, UpPush, RecvLoop, DownCheck, DownCall,
       DownPush, CheckLoop, CheckTick, CheckProxy, ProxyBody, HttpBody, loopVars, vars
  <2>2. UNCHANGED <<recvQ, recvPc, popped, read, sendPc, destroyPc>>
    BY <2>1 DEF UpCheck, proxyVars
  <2>3. ~connAlive /\ recvQ = <<>>
    BY <2>1 DEF T!IsAlive
  <2>4. sendPc # "done" /\ destroyPc = "idle" => recvPc = "done" /\ Len(popped) = read
    <3>1. SUFFICES ASSUME sendPc # "done", destroyPc = "idle"
                   PROVE  recvPc = "done" /\ Len(popped) = read
      OBVIOUS
    <3>2. recvPc = "done"
      BY <2>3, <3>1 DEF P!DeadInv
    <3>3. read \in Nat /\ popped \in Seq(Nat)
      BY TcpServerAssumption DEF P!TypeOK, P!CountsOK, P!BlocksOK, TcpServerAssumption
    <3>4. Len(popped) \in Nat
      BY <3>3, SeqFacts
    <3>5. P!Holds(<<>>, Len(popped), read)
      BY <2>3, <3>2 DEF P!RecvQInv, P!Queued
    <3>6. Len(<<>>) = 0
      OBVIOUS
    <3>7. Len(popped) <= read /\ ~(Len(popped) + 1 \in Len(popped) + 1 .. read)
      BY <3>5, <3>6 DEF P!Holds
    <3>8. QED
      BY <3>2, <3>3, <3>4, <3>7
  <2>5. QED
    BY <2>2, <2>3, <2>4 DEF DrainInv
<1>2. CASE upPc = "done" /\ upPc' = "done"
  <2>1. popPc = "idle"
    BY <1>2 DEF UpInv
  <2>2. SUFFICES ASSUME sendPc' # "done", destroyPc' = "idle"
                 PROVE  (recvQ = <<>> /\ recvPc = "done" /\ Len(popped) = read)'
    BY DEF DrainInv
  <2>3. CASE UNCHANGED <<recvQ, recvPc, popped, read, sendPc, destroyPc>>
    BY <1>2, <2>2, <2>3 DEF DrainInv
  <2>4. CASE ProxyBody
    <3>1. T!SendLoop \/ T!RecvLoop \/ T!DestroyBody \/ T!Remote
      BY <2>1, <2>4 DEF ProxyBody, T!PopBody, T!PopCheck, T!PopReceive, T!PopTimeout
    <3>2. CASE T!SendLoop
      <4>1. sendPc # "done" /\ UNCHANGED <<recvQ, recvPc, popped, read, destroyPc>>
        BY <3>2 DEF T!SendLoop, T!SendCheck, T!SendPop, T!SendWrite, T!SendFail, T!notSend,
                    T!recvVars
      <4>2. QED
        BY <1>2, <2>2, <4>1 DEF DrainInv
    <3>3. CASE T!RecvLoop
      <4>1. recvPc # "done" /\ UNCHANGED <<sendPc, destroyPc>>
        BY <3>3 DEF T!RecvLoop, T!RecvCheck, T!RecvRead, T!RecvPush, T!RecvFail, T!notRecv,
                    T!sendVars
      <4>2. QED
        BY <1>2, <2>2, <4>1 DEF DrainInv
    <3>4. CASE T!DestroyBody
      BY <2>2, <3>4 DEF T!DestroyBody, T!DestroyClose, T!DestroyWake
    <3>5. CASE T!Remote
      BY <2>3, <3>5 DEF T!Remote, T!RemoteSend, T!RemoteEnd, T!notRemote, T!sendVars,
                        T!recvVars, T!historyVars
    <3>6. QED
      BY <3>1, <3>2, <3>3, <3>4, <3>5
  <2>5. CASE RecvLoop
    BY <2>3, <2>5 DEF RecvLoop, DownCheck, DownCall, DownPush, T!PushData, T!sendVars,
                      T!recvVars, proxyVars
  <2>6. CASE CheckLoop
    BY <2>2, <2>3, <2>6 DEF CheckLoop, CheckTick, CheckProxy, T!DestroyBegin, proxyVars
  <2>7. CASE SendLoop \/ HttpBody \/ UNCHANGED vars
    BY <1>2, <2>3, <2>7 DEF SendLoop, UpCheck, UpCall, UpPush, HttpBody, proxyVars, vars
  <2>8. QED
    BY <2>4, <2>5, <2>6, <2>7 DEF Next
<1>3. CASE upPc' # "done"
  BY <1>3 DEF DrainInv
<1>4. QED
  BY <1>1, <1>2, <1>3
LEMMA DownPopStep ==
  ASSUME TunnelTypes, DownInv, ~DownInHand, H!TakeFromRecvQ, hPopPc' \in {"check", "idle"},
         hPopPc' = "check" => hPopDn' = Nil, downPc' = "pop",
         Len(sendQ) \in Nat, Len(written) \in Nat,
         UNCHANGED <<sendQ, sendPc, sendDn, written>>
  PROVE  DownInv'
<1>1. hPopped \in Seq(Nat) /\ Len(hPopped) \in Nat /\ Given = Len(hPopped)
  BY SeqFacts DEF TunnelTypes, Given
<1>2. CASE Head(hRecvQ) = Nil
  <2>1. hPopDn' = Nil /\ hPopped' = hPopped
    BY <1>2 DEF H!TakeFromRecvQ, H!Nil, Nil
  <2>2. ~DownInHand' /\ Given' = Given
    BY <1>1, <2>1 DEF DownInHand, Given
  <2>3. QED
    BY <1>1, <2>1, <2>2 DEF DownInv
<1>3. CASE Head(hRecvQ) # Nil
  <2>1. hPopDn' = Head(hRecvQ) /\ hPopped' = Append(hPopped, Head(hRecvQ)) /\ hRecvQ # <<>>
    BY <1>3 DEF H!TakeFromRecvQ, H!Nil, Nil
  <2>2. Head(hRecvQ) \in Nat
    BY <2>1, TailFacts, SeqFacts DEF TunnelTypes
  <2>3. /\ Len(hPopped') = Len(hPopped) + 1 /\ hPopped'[Len(hPopped) + 1] = hPopDn'
        /\ \A i \in 1 .. Len(hPopped) : hPopped'[i] = hPopped[i]
    BY <1>1, <2>1, <2>2, AppendFacts
  <2>4. DownInHand' /\ Given' = Given
    BY <1>1, <1>3, <2>1, <2>3 DEF DownInHand, Given
  <2>5. /\ Len(sendQ) <= Given /\ Len(written) <= Len(hPopped)
        /\ \A i \in 1 .. Len(sendQ) : sendQ[i] = hPopped[Given - Len(sendQ) + i]
        /\ \A i \in 1 .. Len(written) : written[i] = hPopped[i]
    BY DEF DownInv
  <2>6. \A i \in 1 .. Len(sendQ) : sendQ[i] = hPopped'[Given - Len(sendQ) + i]
    <3>1. SUFFICES ASSUME NEW i \in 1 .. Len(sendQ)
                   PROVE  sendQ[i] = hPopped'[Given - Len(sendQ) + i]
      OBVIOUS
    <3>2. Given - Len(sendQ) + i \in 1 .. Len(hPopped)
      BY <1>1, <2>5
    <3>3. QED
      BY <2>3, <2>5, <3>2
  <2>7. \A i \in 1 .. Len(written) : written[i] = hPopped'[i]
    BY <1>1, <2>3, <2>5
  <2>8. sendPc = "write" => /\ Len(written) + 1 = Given - Len(sendQ)
                           /\ sendDn = hPopped'[Given - Len(sendQ)]
    <3>1. SUFFICES ASSUME sendPc = "write"
                   PROVE  /\ Len(written) + 1 = Given - Len(sendQ)
                          /\ sendDn = hPopped'[Given - Len(sendQ)]
      OBVIOUS
    <3>2. /\ Len(written) + 1 = Given - Len(sendQ) /\ sendDn = hPopped[Given - Len(sendQ)]
      BY <3>1 DEF DownInv
    <3>3. Given - Len(sendQ) \in 1 .. Len(hPopped)
      BY <1>1, <3>2
    <3>4. QED
      BY <2>3, <3>2, <3>3
  <2>9. /\ hPopDn' = hPopped'[Len(hPopped')] /\ Len(hPopped') > 0
        /\ Len(written) <= Len(hPopped')
    BY <1>1, <2>3, <2>5
  <2>10. sendPc \in {"check", "pop"} => Len(written) = Given - Len(sendQ)
    BY DEF DownInv
  <2>11. QED
    BY <2>4, <2>5, <2>6, <2>7, <2>8, <2>9, <2>10 DEF DownInv, DownInHand
<1>4. QED
  BY <1>2, <1>3

LEMMA DownStep ==
  ASSUME P!TypeOK, TunnelTypes, DownInv, [Next]_vars
  PROVE  DownInv'
<1>1. /\ sendQ \in Seq(Nat) /\ Len(sendQ) \in Nat /\ written \in Seq(Nat)
      /\ Len(written) \in Nat /\ hPopped \in Seq(Nat) /\ Len(hPopped) \in Nat
      /\ Given \in Nat /\ hPopDn \in Nat /\ sendDn \in Nat
  BY SeqFacts DEF TunnelTypes, DownInv, DownInHand, Given, P!TypeOK, P!QueuesOK, P!BlocksOK
<1>2. CASE /\ UNCHANGED <<sendQ, sendPc, sendDn, written, hPopPc, hPopDn, hPopped>>
           /\ downPc' = downPc \/ (downPc # "pop" /\ downPc' # "pop")
  <2>1. DownInHand' = DownInHand /\ Given' = Given
    BY <1>2 DEF DownInHand, Given
  <2>2. QED
    BY <1>2, <2>1 DEF DownInv
<1>3. CASE DownCheck
  BY <1>2, <1>3 DEF DownCheck, proxyVars, httpVars
<1>4. CASE DownCall
  <2>1. /\ downPc = "call" /\ downPc' = "pop" /\ hPopPc = "idle"
        /\ UNCHANGED <<sendQ, sendPc, sendDn, written>>
        /\ \/ H!TakeFromRecvQ /\ hPopPc' = IF hPopDn' = Nil THEN "check" ELSE "idle"
           \/ hPopDn' = Nil /\ hPopPc' = "check" /\ hPopped' = hPopped
    BY <1>4 DEF DownCall, H!PopCall, H!TakeFromRecvQ, H!Nil, Nil, proxyVars
  <2>2. ~DownInHand
    BY <2>1 DEF DownInHand
  <2>3. CASE H!TakeFromRecvQ
    BY <1>1, <2>1, <2>2, <2>3, DownPopStep
  <2>4. CASE hPopDn' = Nil /\ hPopPc' = "check" /\ hPopped' = hPopped
    <3>1. ~DownInHand' /\ Given' = Given
      BY <2>2, <2>4 DEF DownInHand, Given
    <3>2. QED
      BY <2>1, <2>4, <3>1 DEF DownInv
  <2>5. QED
    BY <2>1, <2>3, <2>4
<1>5. CASE DownPush
  <2>1. /\ downPc = "pop" /\ hPopPc = "idle" /\ downPc' = "check"
        /\ UNCHANGED <<hPopPc, hPopDn, hPopped>> /\ ~DownInHand' /\ Given' = Len(hPopped)
    BY <1>5 DEF DownPush, httpVars, DownInHand, Given
  <2>2. CASE hPopDn = Nil
    <3>1. UNCHANGED <<sendQ, sendPc, sendDn, written>> /\ ~DownInHand /\ Given' = Given
      BY <1>5, <2>1, <2>2 DEF DownPush, proxyVars, DownInHand, Given
    <3>2. QED
      BY <2>1, <3>1 DEF DownInv
  <2>3. CASE hPopDn # Nil
    <3>1. /\ sendQ' = Append(sendQ, hPopDn) /\ UNCHANGED <<sendPc, sendDn, written>>
          /\ DownInHand /\ Given' = Given + 1
      BY <1>1, <1>5, <2>1, <2>3 DEF DownPush, T!PushData, T!AfterSend, T!sendVars, DownInHand,
                               Given
    <3>2. /\ Len(sendQ') = Len(sendQ) + 1 /\ sendQ'[Len(sendQ) + 1] = hPopDn
          /\ \A i \in 1 .. Len(sendQ) : sendQ'[i] = sendQ[i]
      BY <1>1, <3>1, AppendFacts
    <3>3. hPopDn = hPopped[Given'] /\ Given' - Len(sendQ') = Given - Len(sendQ)
          /\ Len(sendQ') <= Given'
      BY <1>1, <2>1, <3>1, <3>2 DEF DownInv
    <3>4. \A i \in 1 .. Len(sendQ') : sendQ'[i] = hPopped[Given' - Len(sendQ') + i]
      <4>1. ASSUME NEW i \in 1 .. Len(sendQ)
            PROVE  sendQ'[i] = hPopped[Given' - Len(sendQ') + i]
        BY <3>2, <3>3 DEF DownInv
      <4>2. Given' - Len(sendQ') + (Len(sendQ) + 1) = Given'
        BY <1>1, <3>1, <3>2
      <4>3. sendQ'[Len(sendQ) + 1] = hPopped[Given' - Len(sendQ') + (Len(sendQ) + 1)]
        BY <3>2, <3>3, <4>2
      <4>4. 1 .. Len(sendQ') = 1 .. Len(sendQ) \cup {Len(sendQ) + 1}
        BY <1>1, <3>2
      <4>5. QED
        BY <4>1, <4>3, <4>4
    <3>5. QED
      BY <2>1, <3>1, <3>3, <3>4 DEF DownInv
  <2>4. QED
    BY <2>2, <2>3
<1>6. CASE H!PopBody /\ UNCHANGED <<proxyVars, loopVars>>
  <2>1. /\ hPopPc # "idle" /\ hPopDn = Nil /\ downPc = "pop" /\ downPc' = "pop"
        /\ UNCHANGED <<sendQ, sendPc, sendDn, written>> /\ ~DownInHand
        /\ \/ H!TakeFromRecvQ /\ hPopPc' = "idle"
           \/ UNCHANGED <<hPopDn, hPopped>>
    BY <1>6 DEF H!PopBody, H!PopCheck, H!PopReceive, DownInv, DownInHand, proxyVars, loopVars
  <2>2. CASE H!TakeFromRecvQ /\ hPopPc' = "idle"
    BY <1>1, <2>1, <2>2, DownPopStep
  <2>3. CASE UNCHANGED <<hPopDn, hPopped>>
    <3>1. ~DownInHand' /\ Given' = Given
      BY <2>1, <2>3 DEF DownInHand, Given
    <3>2. QED
      BY <2>1, <2>3, <3>1 DEF DownInv
  <2>4. QED
    BY <2>1, <2>2, <2>3
<1>7. CASE T!SendLoop /\ UNCHANGED <<httpVars, loopVars>>
  <2>1. UNCHANGED <<hPopPc, hPopDn, hPopped, downPc>> /\ DownInHand' = DownInHand
        /\ Given' = Given
    BY <1>7 DEF httpVars, loopVars, DownInHand, Given
  <2>2. CASE T!SendCheck \/ T!SendFail
    BY <2>1, <2>2 DEF T!SendCheck, T!SendFail, DownInv
  <2>3. CASE T!SendPop
    <3>1. CASE UNCHANGED <<sendQ, sendDn, written>> /\ sendPc' = "done"
      BY <2>1, <3>1 DEF DownInv
    <3>2. CASE /\ sendPc = "pop" /\ sendPc' = "write" /\ sendQ # <<>> /\ written' = written
               /\ sendDn' = Head(sendQ) /\ sendQ' = Tail(sendQ)
      <4>1. /\ Len(sendQ) \in Nat \ {0} /\ Len(sendQ') = Len(sendQ) - 1
            /\ sendDn' = sendQ[1] /\ \A i \in 1 .. Len(sendQ) - 1 : sendQ'[i] = sendQ[i + 1]
        BY <1>1, <3>2, TailFacts
      <4>2. /\ Len(written) = Given - Len(sendQ) /\ Len(sendQ) <= Given
            /\ \A i \in 1 .. Len(sendQ) : sendQ[i] = hPopped[Given - Len(sendQ) + i]
        BY <3>2 DEF DownInv
      <4>3. sendDn' = hPopped[Given - Len(sendQ')] /\ Len(written) + 1 = Given - Len(sendQ')
        BY <1>1, <4>1, <4>2
      <4>4. \A i \in 1 .. Len(sendQ') : sendQ'[i] = hPopped[Given - Len(sendQ') + i]
        BY <1>1, <4>1, <4>2
      <4>5. Len(sendQ') <= Given
        BY <1>1, <4>1, <4>2
      <4>6. QED
        BY <2>1, <3>2, <4>3, <4>4, <4>5 DEF DownInv
    <3>3. QED
      BY <2>3, <3>1, <3>2 DEF T!SendPop
  <2>4. CASE T!SendWrite
    <3>1. /\ sendPc = "write" /\ sendPc' = "check" /\ UNCHANGED <<sendQ, sendDn>>
          /\ written' = Append(written, sendDn)
      BY <2>4 DEF T!SendWrite
    <3>2. /\ Len(written') = Len(written) + 1 /\ written'[Len(written) + 1] = sendDn
          /\ \A i \in 1 .. Len(written) : written'[i] = written[i]
      BY <1>1, <3>1, AppendFacts
    <3>3. Len(written) + 1 = Given - Len(sendQ) /\ sendDn = hPopped[Len(written) + 1]
          /\ Given <= Len(hPopped)
      <4>1. Len(written) + 1 = Given - Len(sendQ) /\ sendDn = hPopped[Given - Len(sendQ)]
        BY <3>1 DEF DownInv
      <4>2. Given <= Len(hPopped)
        BY <1>1 DEF Given
      <4>3. QED
        BY <4>1, <4>2
    <3>4. \A i \in 1 .. Len(written') : written'[i] = hPopped[i]
      <4>1. \A i \in 1 .. Len(written) : written'[i] = hPopped[i]
        BY <3>2 DEF DownInv
      <4>2. 1 .. Len(written') = 1 .. Len(written) \cup {Len(written) + 1}
        BY <1>1, <3>2
      <4>3. QED
        BY <3>2, <3>3, <4>1, <4>2
    <3>5. Len(written') = Given - Len(sendQ) /\ Len(written') <= Len(hPopped)
      BY <1>1, <3>2, <3>3
    <3>6. QED
      BY <2>1, <3>1, <3>4, <3>5 DEF DownInv
  <2>5. QED
    BY <1>7, <2>2, <2>3, <2>4 DEF T!SendLoop
<1>8. CASE ProxyBody /\ ~T!SendLoop
  BY <1>2, <1>8 DEF ProxyBody, T!RecvLoop, T!RecvCheck, T!RecvRead, T!RecvPush, T!RecvFail,
     T!notRecv, T!DestroyBody, T!DestroyClose, T!DestroyWake, T!notDestroy, T!Remote,
     T!RemoteSend, T!RemoteEnd, T!notRemote, T!PopBody, T!PopCheck, T!PopReceive,
     T!PopTimeout, T!notPop, T!sendVars, T!historyVars, httpVars, loopVars
<1>9. CASE HttpBody /\ ~H!PopBody
  BY <1>2, <1>9 DEF HttpBody, H!Network, H!Take, H!Deliver, H!Fail, H!Receive, H!DestroyWake,
     H!popVars, proxyVars, loopVars
<1>10. CASE SendLoop \/ CheckLoop \/ UNCHANGED vars
  BY <1>2, <1>10 DEF SendLoop, UpCheck, UpCall, UpPush, CheckLoop, CheckTick, CheckProxy,
     T!PopCall, T!notPop, T!DestroyBegin, T!notDestroy, T!sendVars, T!historyVars,
     H!PushTCPRequest, H!DestroyBegin, H!popVars, proxyVars, httpVars, loopVars, vars
<1>11. QED
  BY <1>3, <1>4, <1>5, <1>6, <1>7, <1>8, <1>9, <1>10
     DEF Next, RecvLoop, HttpBody, ProxyBody

-----------------------------------------------------------------------------
LEMMA InductiveInit == Init => IInv
<1> SUFFICES ASSUME Init PROVE IInv
  OBVIOUS
<1>1. UpInv
  BY DEF Init, T!Init, H!Init, UpInv, UpInHand
<1>2. TunnelTypes
  BY DEF Init, H!Init, H!Nil, TunnelTypes
<1>3. TunnelInv
  <2>1. /\ hSendQ = <<>> /\ hPushed = 0 /\ sending = Nil /\ delivered = <<>> /\ ~failed
    BY DEF Init, H!Init, H!Nil, Nil
  <2>2. Len(hSendQ) = 0 /\ Len(delivered) = 0 /\ hPushed = 0
    BY <2>1
  <2>3. EndsWith(hSendQ, hPushed) /\ Len(delivered) = hPushed - Len(hSendQ)
    BY ONLY <2>2 DEF EndsWith
  <2>4. UpInOrder
    BY <2>1 DEF UpInOrder
  <2>5. QED
    BY ONLY <2>1, <2>3, <2>4 DEF TunnelInv
<1>4. DrainInv
  BY DEF Init, DrainInv
<1>5. DownInv
  <2>1. /\ hPopPc = "idle" /\ hPopDn = Nil /\ hPopped = <<>> /\ sendQ = <<>>
        /\ written = <<>> /\ sendPc = "check"
    BY DEF Init, H!Init, T!Init, H!Nil, Nil
  <2>2. Len(hPopped) = 0 /\ Len(sendQ) = 0 /\ Len(written) = 0 /\ ~DownInHand /\ Given = 0
    BY <2>1 DEF DownInHand, Given
  <2>3. hPopPc = "idle" /\ sendPc = "check"
    BY <2>1
  <2>4. QED
    BY ONLY <2>2, <2>3 DEF DownInv
<1>6. QED
  BY <1>1, <1>2, <1>3, <1>4, <1>5, ProxyInit DEF IInv

LEMMA InductiveStep == IInv /\ [Next]_vars => IInv'
<1> SUFFICES ASSUME P!TypeOK, P!RecvQInv, P!DeadInv, UpInv, TunnelTypes, TunnelInv, DrainInv,
                    DownInv, [Next]_vars
             PROVE  /\ P!TypeOK' /\ P!RecvQInv' /\ P!DeadInv' /\ UpInv' /\ TunnelTypes'
                    /\ TunnelInv' /\ DrainInv' /\ DownInv'
  BY DEF IInv
<1>1. hPopDn \in Nat /\ popDn \in Nat /\ popped \in Seq(Nat)
  BY DEF TunnelTypes, P!TypeOK, P!BlocksOK
<1>2. [P!AnyNext]_(P!vars)
  BY <1>1, ProxyStep
<1>3. P!TypeOK'
  BY <1>2, P!TypeStep, TcpServerAssumption DEF TcpServerAssumption
<1>4. P!RecvQInv'
  BY <1>2, P!RecvQStep, TcpServerAssumption DEF TcpServerAssumption
<1>5. P!DeadInv'
  BY <1>2, P!DeadStep, TcpServerAssumption DEF TcpServerAssumption
<1>6. UpInv'
  BY <1>3, <1>4, UpStep
<1>7. TunnelTypes'
  BY <1>1, TunnelTypesStep
<1>8. TunnelInv'
  BY <1>1, <1>7, TunnelStep
<1>9. DrainInv'
  BY DrainStep
<1>10. DownInv'
  BY DownStep
<1>11. QED
  BY <1>3, <1>4, <1>5, <1>6, <1>7, <1>8, <1>9, <1>10

\* The server gets the stream of the accepted connection in order and without a
\* gap, through the tcpProxy, sendLoop and the tunnel, for every capacity of the
\* queues and every interleaving with destroy and with requests that fail.
THEOREM UpInOrderCorrect == Spec => []UpInOrder
<1>1. IInv => UpInOrder
  BY DEF IInv, TunnelInv
<1>2. QED
  BY <1>1, InductiveInit, InductiveStep, PTL DEF Spec

\* sendLoop ends with every block of the connection pushed, unless a write failed
\* or the tunnel is being destroyed.
THEOREM UpIsDrainedCorrect == Spec => []UpIsDrained
<1>1. IInv => UpIsDrained
  BY DEF IInv, DrainInv, UpInv, UpInHand, UpIsDrained
<1>2. QED
  BY <1>1, InductiveInit, InductiveStep, PTL DEF Spec
\* The accepted connection gets the blocks that the tunnel handed out, in order
\* and none left out, up to where it ends.
THEOREM DownInOrderCorrect == Spec => []DownInOrder
<1>1. IInv => DownInOrder
  <2> SUFFICES ASSUME P!TypeOK, TunnelTypes, DownInv PROVE DownInOrder
    BY DEF IInv
  <2>1. written \in Seq(Nat) /\ hPopped \in Seq(Nat) /\ Len(written) \in Nat
        /\ Len(hPopped) \in Nat
    BY SeqFacts DEF P!TypeOK, P!BlocksOK, TunnelTypes
  <2>2. Len(written) <= Len(hPopped) /\ \A i \in 1 .. Len(written) : written[i] = hPopped[i]
    BY DEF DownInv
  <2>3. /\ SubSeq(hPopped, 1, Len(written)) \in Seq(Nat)
        /\ Len(SubSeq(hPopped, 1, Len(written))) = Len(written)
        /\ \A i \in 1 .. Len(written) : SubSeq(hPopped, 1, Len(written))[i] = hPopped[i]
    BY <2>1, <2>2, SubSeqProperties
  <2>4. QED
    BY <2>1, <2>2, <2>3, SeqEqual DEF DownInOrder
<1>2. QED
  BY <1>1, InductiveInit, InductiveStep, PTL DEF Spec

=============================================================================
