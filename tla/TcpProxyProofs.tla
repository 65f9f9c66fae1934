--------------------------- MODULE TcpProxyProofs ---------------------------
(* Proofs about TcpProxy, for every queue capacity and every bound.        *)
EXTENDS TcpProxy, QueueFacts

\* An owner that pushes any blocks: what popData and isAlive promise does not
\* depend on what goes the other way.
AnyOwner ==
    \/ \E dn \in Nat : PushData(dn)
    \/ \E w \in {"none", "timed", "forever"} : PopCall(w)
    \/ DestroyBegin

AnyNext == SendLoop \/ RecvLoop \/ PopBody \/ DestroyBody \/ Remote \/ AnyOwner

\* An owner that pushes blocks in order, as many as it likes.
OrderedOwner ==
    \/ PushData(pushed + 1)
    \/ \E w \in {"none", "timed", "forever"} : PopCall(w)
    \/ DestroyBegin

OrderedNext == SendLoop \/ RecvLoop \/ PopBody \/ DestroyBody \/ Remote \/ OrderedOwner

\* Blocks that recvLoop has put into recvQ.
Queued == IF recvPc = "push" THEN read - 1 ELSE read

Increasing(q) ==
    \A i, j \in 1 .. Len(q) : i < j /\ q[i] # Nil /\ q[j] # Nil => q[i] < q[j]

\* q holds exactly the blocks after lo up to hi, in order; a Nil may stand
\* anywhere among them.
Holds(q, lo, hi) ==
    /\ lo <= hi
    /\ \A i \in 1 .. Len(q) : q[i] = Nil \/ q[i] \in lo + 1 .. hi
    /\ Increasing(q)
    /\ \A k \in lo + 1 .. hi : \E i \in 1 .. Len(q) : q[i] = k

RecvQInv ==
    /\ recvPc = "push" => read > 0
    /\ Holds(recvQ, Len(popped), Queued)
    /\ PoppedInOrder

\* Until sendLoop stops, the blocks that left sendQ were written, except the one
\* in its hand.
SendQInv ==
    /\ EndsWith(sendQ, pushed)
    /\ sendPc = "write" =>
          /\ sendDn = pushed - Len(sendQ)
          /\ Len(written) = sendDn - 1
    /\ sendPc \in {"check", "pop"} => Len(written) = pushed - Len(sendQ)
    /\ WrittenInOrder

\* Without destroy and without a failed write only recvLoop clears connAlive.
DeadInv ==
    ~connAlive /\ destroyPc = "idle" /\ sendPc # "done" => recvPc = "done"

\* A nil comes out of recvQ only after destroy has cleared connAlive, and popData
\* gives up without a nil only on a dead tcpProxy.
NilInv ==
    /\ destroyPc # "idle" \/ (\E i \in 1 .. Len(recvQ) : recvQ[i] = Nil) => ~connAlive
    /\ recvPc = "push" => read > 0
    /\ NoSpuriousNil

-----------------------------------------------------------------------------
(* What a step does to the shared queues and to what is made of them.      *)

LEMMA SendResult ==
  ASSUME NEW q \in Seq(Nat), Len(q) <= DataQueueSize, NEW dn \in Nat,
         NEW r \in AfterSend(q, dn)
  PROVE  r \in Seq(Nat) /\ Len(r) <= DataQueueSize
  BY TcpProxyAssumption DEF AfterSend, TcpProxyAssumption

LEMMA ReceiveResult ==
  ASSUME NEW q \in Seq(Nat), Len(q) <= DataQueueSize, q # <<>>
  PROVE  Head(q) \in Nat /\ Tail(q) \in Seq(Nat) /\ Len(Tail(q)) <= DataQueueSize
  BY TcpProxyAssumption DEF TcpProxyAssumption

LEMMA NextIsOrdered == [Next]_vars => [OrderedNext]_vars
  BY DEF Next, OrderedNext, Owner, OrderedOwner

LEMMA OrderedIsAnyNext ==
  ASSUME TypeOK, [OrderedNext]_vars
  PROVE  [AnyNext]_vars
<1>1. pushed + 1 \in Nat
  BY DEF TypeOK, BlocksOK
<1>2. QED
  BY <1>1 DEF OrderedNext, AnyNext, OrderedOwner, AnyOwner

LEMMA NextIsAnyNext ==
  ASSUME TypeOK, [Next]_vars
  PROVE  [AnyNext]_vars
  BY NextIsOrdered, OrderedIsAnyNext

LEMMA Steps ==
  ASSUME [AnyNext]_vars
  PROVE  /\ \/ sendQ' = sendQ
            \/ sendQ # <<>> /\ sendQ' = Tail(sendQ)
            \/ \E dn \in Nat : sendQ' \in AfterSend(sendQ, dn)
         /\ \/ recvQ' = recvQ
            \/ recvQ # <<>> /\ recvQ' = Tail(recvQ)
            \/ recvQ' \in AfterSend(recvQ, read)
            \/ recvQ' \in AfterSend(recvQ, Nil)
         /\ sendDn' = sendDn \/ (sendQ # <<>> /\ sendDn' = Head(sendQ))
         /\ popDn' = popDn \/ popDn' = Nil \/ (recvQ # <<>> /\ popDn' = Head(recvQ))
         /\ pushed' = pushed \/ pushed' = pushed + 1
         /\ popped' = popped \/ (recvQ # <<>> /\ popped' = Append(popped, Head(recvQ)))
         /\ written' = written \/ written' = Append(written, sendDn)
         /\ \/ arrived' = arrived /\ read' = read
            \/ arrived < MaxIn /\ arrived' = arrived + 1 /\ read' = read
            \/ read < arrived /\ arrived' = arrived /\ read' = read + 1
<1> USE DEF AnyNext, vars, connVars, sendVars, recvVars, popVars, historyVars,
            SendLoop, SendCheck, SendPop, SendWrite, SendFail, notSend,
            RecvLoop, RecvCheck, RecvRead, RecvPush, RecvFail, notRecv,
            PopBody, PopCheck, PopReceive, PopTimeout, PopCall, TakeFromRecvQ, notPop,
            DestroyBody, DestroyBegin, DestroyClose, DestroyWake, notDestroy,
            AnyOwner, PushData, Remote, RemoteSend, RemoteEnd, notRemote
<1>1. \/ sendQ' = sendQ
      \/ sendQ # <<>> /\ sendQ' = Tail(sendQ)
      \/ \E dn \in Nat : sendQ' \in AfterSend(sendQ, dn)
  OBVIOUS
<1>2. \/ recvQ' = recvQ
      \/ recvQ # <<>> /\ recvQ' = Tail(recvQ)
      \/ recvQ' \in AfterSend(recvQ, read)
      \/ recvQ' \in AfterSend(recvQ, Nil)
  OBVIOUS
<1>3. sendDn' = sendDn \/ (sendQ # <<>> /\ sendDn' = Head(sendQ))
  OBVIOUS
<1>4. popDn' = popDn \/ popDn' = Nil \/ (recvQ # <<>> /\ popDn' = Head(recvQ))
  OBVIOUS
<1>5. pushed' = pushed \/ pushed' = pushed + 1
  OBVIOUS
<1>6. popped' = popped \/ (recvQ # <<>> /\ popped' = Append(popped, Head(recvQ)))
  OBVIOUS
<1>7. written' = written \/ written' = Append(written, sendDn)
  OBVIOUS
<1>8. \/ arrived' = arrived /\ read' = read
      \/ arrived < MaxIn /\ arrived' = arrived + 1 /\ read' = read
      \/ read < arrived /\ arrived' = arrived /\ read' = read + 1
  OBVIOUS
<1>9. QED
  BY ONLY <1>1, <1>2, <1>3, <1>4, <1>5, <1>6, <1>7, <1>8

-----------------------------------------------------------------------------
LEMMA TypeInit == Init => TypeOK
<1> SUFFICES ASSUME Init PROVE TypeOK
  OBVIOUS
<1> USE TcpProxyAssumption DEF TcpProxyAssumption, Init, Nil
<1>1. FlagsOK
  BY DEF FlagsOK
<1>2. QueuesOK
  BY DEF QueuesOK
<1>3. CountsOK
  BY DEF CountsOK
<1>4. BlocksOK
  BY DEF BlocksOK
<1>5. LabelsOK
  BY DEF LabelsOK
<1>6. QED
  BY <1>1, <1>2, <1>3, <1>4, <1>5 DEF TypeOK

LEMMA TypeStep == TypeOK /\ [AnyNext]_vars => TypeOK'
<1> SUFFICES ASSUME FlagsOK, QueuesOK, CountsOK, BlocksOK, LabelsOK, [AnyNext]_vars
             PROVE  FlagsOK' /\ QueuesOK' /\ CountsOK' /\ BlocksOK' /\ LabelsOK'
  BY DEF TypeOK
<1>1. FlagsOK' /\ LabelsOK'
  <2> USE DEF AnyNext, vars, connVars, sendVars, recvVars, popVars, historyVars,
              SendLoop, SendCheck, SendPop, SendWrite, SendFail, notSend,
              RecvLoop, RecvCheck, RecvRead, RecvPush, RecvFail, notRecv,
              PopBody, PopCheck, PopReceive, PopTimeout, PopCall, notPop,
              DestroyBody, DestroyBegin, DestroyClose, DestroyWake, notDestroy,
              AnyOwner, PushData, Remote, RemoteSend, RemoteEnd, notRemote
  <2>1. FlagsOK'
    BY DEF FlagsOK
  <2>2. LabelsOK'
    BY DEF LabelsOK
  <2>3. QED
    BY <2>1, <2>2
<1>2. sendQ' \in Seq(Nat) /\ Len(sendQ') <= DataQueueSize
  <2>1. sendQ \in Seq(Nat) /\ Len(sendQ) <= DataQueueSize
    BY DEF QueuesOK
  <2>2. pushed + 1 \in Nat
    BY DEF BlocksOK
  <2>3. QED
    BY <2>1, <2>2, Steps, SendResult, ReceiveResult
<1>3. recvQ' \in Seq(Nat) /\ Len(recvQ') <= DataQueueSize
  <2>1. recvQ \in Seq(Nat) /\ Len(recvQ) <= DataQueueSize
    BY DEF QueuesOK
  <2>2. read \in Nat /\ Nil \in Nat
    BY TcpProxyAssumption DEF CountsOK, Nil, TcpProxyAssumption
  <2>3. QED
    BY <2>1, <2>2, Steps, SendResult, ReceiveResult
<1>4. CountsOK'
  BY Steps, TcpProxyAssumption DEF CountsOK, TcpProxyAssumption
<1>5. BlocksOK'
  <2>1. sendQ # <<>> => Head(sendQ) \in Nat
    BY DEF QueuesOK
  <2>2. recvQ # <<>> => Head(recvQ) \in Nat
    BY DEF QueuesOK
  <2>3. sendDn' \in Nat
    BY <2>1, Steps DEF BlocksOK
  <2>4. popDn' \in Nat
    BY <2>2, Steps DEF BlocksOK, Nil
  <2>5. pushed' \in Nat
    BY Steps DEF BlocksOK
  <2>6. popped' \in Seq(Nat)
    <3>1. popped \in Seq(Nat)
      BY DEF BlocksOK
    <3>2. popped' = popped \/ (recvQ # <<>> /\ popped' = Append(popped, Head(recvQ)))
      BY Steps
    <3>3. QED
      BY ONLY <2>2, <3>1, <3>2
  <2>7. written' \in Seq(Nat)
    <3>1. written \in Seq(Nat) /\ sendDn \in Nat
      BY DEF BlocksOK
    <3>2. written' = written \/ written' = Append(written, sendDn)
      BY Steps
    <3>3. QED
      BY ONLY <3>1, <3>2
  <2>8. QED
    BY <2>3, <2>4, <2>5, <2>6, <2>7 DEF BlocksOK
<1>6. QED
  BY <1>1, <1>2, <1>3, <1>4, <1>5 DEF QueuesOK

\* Every reachable state is well typed: neither queue of a tcpProxy ever holds
\* more than DataQueueSize blocks, and recvLoop reads only what has arrived.
THEOREM TypeCorrect == Spec => []TypeOK
<1>1. TypeOK /\ [Next]_vars => TypeOK'
  BY TypeStep, NextIsAnyNext
<1>2. QED
  BY <1>1, TypeInit, PTL DEF Spec

-----------------------------------------------------------------------------
(* What sending and receiving do to a queue of blocks.                     *)

LEMMA ConsecutiveAppend ==
  ASSUME NEW s \in Seq(Nat), Consecutive(s)
  PROVE  Consecutive(Append(s, Len(s) + 1))
  BY CountingAppend DEF Consecutive

\* The four lemmas on Holds speak of r, the queue after the step, through its
\* length and its elements.
LEMMA HoldsAppendBlock ==
  ASSUME NEW q, NEW r, NEW lo \in Nat, NEW hi \in Nat, Holds(q, lo, hi),
         Len(q) \in Nat, \A i \in 1 .. Len(q) : q[i] \in Nat,
         Len(r) = Len(q) + 1, r[Len(q) + 1] = hi + 1,
         \A i \in 1 .. Len(q) : r[i] = q[i]
  PROVE  Holds(r, lo, hi + 1)
<1>1. \A i \in 1 .. Len(r) : r[i] = Nil \/ r[i] \in lo + 1 .. hi + 1
  BY DEF Holds
<1>2. Increasing(r)
  <2>1. \A i \in 1 .. Len(q) : q[i] < hi + 1
    BY DEF Holds, Nil
  <2>2. Increasing(q)
    BY DEF Holds
  <2>3. QED
    BY <2>1, <2>2 DEF Increasing
<1>3. \A k \in lo + 1 .. hi + 1 : \E i \in 1 .. Len(r) : r[i] = k
  <2> TAKE k \in lo + 1 .. hi + 1
  <2>1. CASE k = hi + 1
    BY <2>1
  <2>2. CASE k # hi + 1
    BY <2>2 DEF Holds
  <2>3. QED
    BY <2>1, <2>2
<1>4. lo <= hi + 1
  BY DEF Holds
<1>5. QED
  BY <1>1, <1>2, <1>3, <1>4 DEF Holds

LEMMA HoldsAppendNil ==
  ASSUME NEW q, NEW r, NEW lo \in Nat, NEW hi \in Nat, Holds(q, lo, hi),
         Len(q) \in Nat,
         Len(r) = Len(q) + 1, r[Len(q) + 1] = Nil,
         \A i \in 1 .. Len(q) : r[i] = q[i]
  PROVE  Holds(r, lo, hi)
<1>1. \A i \in 1 .. Len(r) : r[i] = Nil \/ r[i] \in lo + 1 .. hi
  BY DEF Holds
<1>2. Increasing(r)
  <2>1. Increasing(q)
    BY DEF Holds
  <2>2. QED
    BY <2>1 DEF Increasing
<1>3. \A k \in lo + 1 .. hi : \E i \in 1 .. Len(r) : r[i] = k
  BY DEF Holds
<1>4. QED
  BY <1>1, <1>2, <1>3 DEF Holds

LEMMA HoldsTakeNil ==
  ASSUME NEW q, NEW r, NEW lo \in Nat, NEW hi \in Nat, Holds(q, lo, hi),
         Len(q) \in Nat \ {0}, q[1] = Nil,
         Len(r) = Len(q) - 1,
         \A i \in 1 .. Len(q) - 1 : r[i] = q[i + 1]
  PROVE  Holds(r, lo, hi)
<1>1. \A i \in 1 .. Len(r) : r[i] = Nil \/ r[i] \in lo + 1 .. hi
  BY DEF Holds
<1>2. Increasing(r)
  <2>1. Increasing(q)
    BY DEF Holds
  <2>2. QED
    BY <2>1 DEF Increasing
<1>3. \A k \in lo + 1 .. hi : \E i \in 1 .. Len(r) : r[i] = k
  <2> TAKE k \in lo + 1 .. hi
  <2>1. PICK i \in 1 .. Len(q) : q[i] = k
    BY DEF Holds
  <2>2. i - 1 \in 1 .. Len(r) /\ r[i - 1] = k
    BY <2>1 DEF Nil
  <2>3. QED
    BY <2>2
<1>4. QED
  BY <1>1, <1>2, <1>3 DEF Holds

LEMMA HoldsTakeBlock ==
  ASSUME NEW q, NEW r, NEW lo \in Nat, NEW hi \in Nat, Holds(q, lo, hi),
         Len(q) \in Nat \ {0}, q[1] # Nil,
         Len(r) = Len(q) - 1,
         \A i \in 1 .. Len(q) - 1 : r[i] = q[i + 1]
  PROVE  q[1] = lo + 1 /\ Holds(r, lo + 1, hi)
<1>1. q[1] \in lo + 1 .. hi
  BY DEF Holds
<1>2. q[1] = lo + 1
  <2>1. PICK i \in 1 .. Len(q) : q[i] = lo + 1
    BY <1>1 DEF Holds
  <2>2. CASE i = 1
    BY <2>1, <2>2
  <2>3. CASE 1 < i
    <3>1. Increasing(q)
      BY DEF Holds
    <3>2. q[1] < q[i]
      BY <2>1, <2>3, <3>1 DEF Increasing, Nil
    <3>3. QED
      BY <1>1, <2>1, <3>2
  <2>4. QED
    BY <2>2, <2>3
<1>3. \A i \in 1 .. Len(r) : r[i] = Nil \/ r[i] \in lo + 2 .. hi
  <2> SUFFICES ASSUME NEW i \in 1 .. Len(r), r[i] # Nil PROVE r[i] \in lo + 2 .. hi
    OBVIOUS
  <2>1. i + 1 \in 1 .. Len(q) /\ 1 \in 1 .. Len(q) /\ r[i] = q[i + 1]
    OBVIOUS
  <2>2. q[i + 1] \in lo + 1 .. hi /\ q[1] < q[i + 1]
    BY <2>1 DEF Holds, Increasing
  <2>3. QED
    BY <1>2, <2>1, <2>2
<1>4. Increasing(r)
  <2>1. Increasing(q)
    BY DEF Holds
  <2>2. QED
    BY <2>1 DEF Increasing
<1>5. \A k \in lo + 2 .. hi : \E i \in 1 .. Len(r) : r[i] = k
  <2> TAKE k \in lo + 2 .. hi
  <2>1. PICK i \in 1 .. Len(q) : q[i] = k
    BY DEF Holds
  <2>2. i - 1 \in 1 .. Len(r) /\ r[i - 1] = k
    BY <1>2, <2>1
  <2>3. QED
    BY <2>2
<1>6. lo + 1 <= hi /\ (lo + 1) + 1 = lo + 2
  BY <1>1
<1>7. QED
  BY <1>2, <1>3, <1>4, <1>5, <1>6 DEF Holds

-----------------------------------------------------------------------------
(* The stream from the connection to popData.                              *)

LEMMA RecvQInit == Init => RecvQInv
<1> SUFFICES ASSUME Init PROVE RecvQInv
  OBVIOUS
<1>1. recvQ = <<>> /\ popped = <<>> /\ read = 0 /\ recvPc = "check"
  BY DEF Init
<1>2. Holds(<<>>, 0, 0)
  BY DEF Holds, Increasing
<1>3. QED
  BY <1>1, <1>2 DEF RecvQInv, Queued, PoppedInOrder, Consecutive

LEMMA RecvQStep ==
  ASSUME TypeOK, RecvQInv, [AnyNext]_vars
  PROVE  RecvQInv'
<1>1. /\ recvQ \in Seq(Nat) /\ popped \in Seq(Nat) /\ read \in Nat
  BY TcpProxyAssumption DEF TypeOK, QueuesOK, CountsOK, BlocksOK, TcpProxyAssumption
<1>2. Len(popped) \in Nat /\ Queued \in Nat
  BY <1>1, SeqFacts DEF RecvQInv, Queued
<1>3. CASE UNCHANGED <<recvQ, popped, recvVars>>
  BY <1>3 DEF RecvQInv, PoppedInOrder, Queued, recvVars
<1>4. CASE RecvCheck \/ RecvFail
  <2>1. UNCHANGED <<recvQ, popped, read>> /\ recvPc # "push" /\ recvPc' # "push"
    BY <1>4 DEF RecvCheck, RecvFail, notRecv, historyVars
  <2>2. QED
    BY <2>1 DEF RecvQInv, PoppedInOrder, Queued
<1>5. CASE RecvRead
  <2>1. /\ UNCHANGED <<recvQ, popped>> /\ recvPc = "read" /\ recvPc' = "push"
        /\ read' = read + 1
    BY <1>5 DEF RecvRead, notRecv, historyVars
  <2>2. Queued' = Queued /\ read' > 0
    BY <1>1, <2>1 DEF Queued
  <2>3. QED
    BY <2>1, <2>2 DEF RecvQInv, PoppedInOrder
<1>6. CASE RecvPush
  <2>1. /\ UNCHANGED <<popped, read>> /\ recvPc = "push" /\ recvPc' = "check"
        /\ recvQ' = Append(recvQ, read)
    BY <1>6 DEF RecvPush, AfterSend, notRecv, historyVars
  <2>2. Queued + 1 = read /\ Queued' = read
    BY <1>1, <2>1 DEF Queued
  <2>3. /\ Len(recvQ') = Len(recvQ) + 1 /\ recvQ'[Len(recvQ) + 1] = Queued + 1
        /\ \A i \in 1 .. Len(recvQ) : recvQ'[i] = recvQ[i]
    BY <1>1, <2>1, <2>2, AppendFacts
  <2>4. Holds(recvQ', Len(popped), Queued + 1)
    BY <1>1, <1>2, <2>3, HoldsAppendBlock, SeqFacts DEF RecvQInv
  <2>5. QED
    BY <2>1, <2>2, <2>4 DEF RecvQInv, PoppedInOrder
<1>7. CASE DestroyWake
  <2>1. UNCHANGED <<popped, recvVars>> /\ recvQ' = Append(recvQ, Nil)
    BY <1>7 DEF DestroyWake, AfterSend, notDestroy, historyVars
  <2>2. /\ Len(recvQ') = Len(recvQ) + 1 /\ recvQ'[Len(recvQ) + 1] = Nil
        /\ \A i \in 1 .. Len(recvQ) : recvQ'[i] = recvQ[i]
    BY <1>1, <2>1, AppendFacts DEF Nil
  <2>3. Holds(recvQ', Len(popped), Queued)
    BY <1>1, <1>2, <2>2, HoldsAppendNil, SeqFacts DEF RecvQInv
  <2>4. QED
    BY <2>1, <2>3 DEF RecvQInv, PoppedInOrder, Queued, recvVars
<1>8. CASE TakeFromRecvQ /\ UNCHANGED recvVars
  <2>1. Queued' = Queued /\ (recvPc' = "push" => read' > 0)
    BY <1>8 DEF Queued, recvVars, RecvQInv
  <2>2. CASE Head(recvQ) = Nil
    <3>1. recvQ # <<>> /\ recvQ' = Tail(recvQ) /\ popped' = popped
      BY <1>8, <2>2 DEF TakeFromRecvQ
    <3>2. Holds(recvQ', Len(popped), Queued)
      BY <1>1, <1>2, <2>2, <3>1, HoldsTakeNil, TailFacts DEF RecvQInv
    <3>3. QED
      BY <2>1, <3>1, <3>2 DEF RecvQInv, PoppedInOrder
  <2>3. CASE Head(recvQ) # Nil
    <3>1. /\ recvQ # <<>> /\ recvQ' = Tail(recvQ)
          /\ popped' = Append(popped, Head(recvQ))
      BY <1>8, <2>3 DEF TakeFromRecvQ
    <3>2. Head(recvQ) = Len(popped) + 1 /\ Holds(recvQ', Len(popped) + 1, Queued)
      BY <1>1, <1>2, <2>3, <3>1, HoldsTakeBlock, TailFacts DEF RecvQInv
    <3>3. Len(popped') = Len(popped) + 1 /\ Consecutive(popped')
      BY <1>1, <1>2, <3>1, <3>2, ConsecutiveAppend, AppendFacts
         DEF RecvQInv, PoppedInOrder
    <3>4. QED
      BY <2>1, <3>2, <3>3 DEF RecvQInv, PoppedInOrder
  <2>4. QED
    BY <2>2, <2>3
<1>9. \/ UNCHANGED <<recvQ, popped, recvVars>>
      \/ RecvLoop \/ DestroyWake
      \/ TakeFromRecvQ /\ UNCHANGED recvVars
  BY DEF AnyNext, vars, recvVars, historyVars, SendLoop, SendCheck, SendPop, SendWrite,
         SendFail, notSend, PopBody, PopCheck, PopReceive, PopTimeout, PopCall, notPop,
         DestroyBody, DestroyBegin, DestroyClose, notDestroy, AnyOwner, PushData,
         Remote, RemoteSend, RemoteEnd, notRemote
<1>10. QED
  BY <1>3, <1>4, <1>5, <1>6, <1>7, <1>8, <1>9 DEF RecvLoop

\* popData hands out the stream of the connection in order, no block missing and
\* none repeated, for every capacity of the queues and every interleaving.
THEOREM PoppedInOrderCorrect == Spec => []PoppedInOrder
<1>1. Init => TypeOK /\ RecvQInv
  BY TypeInit, RecvQInit
<1>2. TypeOK /\ RecvQInv /\ [Next]_vars => (TypeOK /\ RecvQInv)'
  BY NextIsAnyNext, TypeStep, RecvQStep
<1>3. RecvQInv => PoppedInOrder
  BY DEF RecvQInv
<1>4. QED
  BY <1>1, <1>2, <1>3, PTL DEF Spec

-----------------------------------------------------------------------------
(* The stream from pushData to the connection.                             *)

LEMMA SendQInit == Init => SendQInv
<1> SUFFICES ASSUME Init PROVE SendQInv
  OBVIOUS
<1>1. sendQ = <<>> /\ pushed = 0 /\ written = <<>> /\ sendPc = "check"
  BY DEF Init
<1>2. Len(sendQ) = 0 /\ Len(written) = 0 /\ pushed = 0
  BY <1>1
<1>3. EndsWith(sendQ, pushed) /\ Len(written) = pushed - Len(sendQ)
  BY ONLY <1>2 DEF EndsWith
<1>4. WrittenInOrder
  BY <1>1 DEF WrittenInOrder, Consecutive
<1>5. QED
  BY ONLY <1>1, <1>3, <1>4 DEF SendQInv

LEMMA SendQStep ==
  ASSUME TypeOK, SendQInv, [OrderedNext]_vars
  PROVE  SendQInv'
<1>1. sendQ \in Seq(Nat) /\ written \in Seq(Nat) /\ pushed \in Nat
  BY DEF TypeOK, QueuesOK, BlocksOK
<1>2. Len(sendQ) \in Nat /\ Len(written) \in Nat /\ EndsWith(sendQ, pushed)
  BY <1>1, SeqFacts DEF SendQInv
<1>3. CASE UNCHANGED <<sendQ, sendVars, pushed, written>>
  <2>1. UNCHANGED <<sendQ, sendPc, sendDn, pushed, written>>
    BY <1>3 DEF sendVars
  <2>2. QED
    BY <2>1 DEF SendQInv, WrittenInOrder
<1>4. CASE SendCheck \/ SendFail
  <2>1. /\ UNCHANGED <<sendQ, sendDn, pushed, written>>
        /\ sendPc' = "done" \/ (sendPc = "check" /\ sendPc' = "pop")
    BY <1>4 DEF SendCheck, SendFail, notSend
  <2>2. QED
    BY <2>1 DEF SendQInv, WrittenInOrder
<1>5. CASE SendPop
  <2>1. CASE sendPc' = "done" /\ UNCHANGED <<sendQ, sendDn, pushed, written>>
    BY <2>1 DEF SendQInv, WrittenInOrder
  <2>2. CASE /\ sendPc = "pop" /\ sendPc' = "write" /\ sendQ # <<>>
             /\ sendDn' = Head(sendQ) /\ sendQ' = Tail(sendQ)
             /\ UNCHANGED <<pushed, written>>
    <3>1. /\ Len(sendQ) \in Nat \ {0} /\ Len(sendQ') = Len(sendQ) - 1
          /\ sendDn' = sendQ[1] /\ \A i \in 1 .. Len(sendQ) - 1 : sendQ'[i] = sendQ[i + 1]
      BY <1>1, <2>2, TailFacts
    <3>2. EndsWith(sendQ', pushed) /\ sendDn' = pushed - Len(sendQ')
      BY <1>1, <1>2, <3>1, EndsWithTail
    <3>3. Len(written) = pushed - Len(sendQ)
      BY <2>2 DEF SendQInv
    <3>4. Len(written) = sendDn' - 1
      BY <1>1, <1>2, <3>1, <3>2, <3>3
    <3>5. QED
      BY <2>2, <3>2, <3>4 DEF SendQInv, WrittenInOrder
  <2>3. QED
    BY <1>5, <2>1, <2>2 DEF SendPop, notSend
<1>6. CASE SendWrite
  <2>1. /\ sendPc = "write" /\ sendPc' = "check" /\ UNCHANGED <<sendQ, pushed>>
        /\ written' = Append(written, sendDn)
    BY <1>6 DEF SendWrite, notSend
  <2>2. sendDn = pushed - Len(sendQ) /\ Len(written) = sendDn - 1
    BY <2>1 DEF SendQInv
  <2>3. sendDn = Len(written) + 1 /\ Len(written) + 1 \in Nat
    BY <1>1, <1>2, <2>2
  <2>4. Len(written') = pushed - Len(sendQ)
    BY <1>1, <2>1, <2>2, <2>3, AppendFacts
  <2>5. Consecutive(written')
    BY <1>1, <2>1, <2>3, ConsecutiveAppend DEF SendQInv, WrittenInOrder
  <2>6. QED
    BY <1>2, <2>1, <2>4, <2>5 DEF SendQInv, WrittenInOrder
<1>7. CASE PushData(pushed + 1)
  <2>1. /\ sendQ' = Append(sendQ, pushed + 1) /\ pushed' = pushed + 1
        /\ UNCHANGED <<sendVars, written>>
    BY <1>7 DEF PushData, AfterSend
  <2>2. /\ Len(sendQ') = Len(sendQ) + 1 /\ sendQ'[Len(sendQ) + 1] = pushed + 1
        /\ \A i \in 1 .. Len(sendQ) : sendQ'[i] = sendQ[i]
    BY <1>1, <2>1, AppendFacts
  <2>3. EndsWith(sendQ', pushed + 1)
    BY <1>1, <1>2, <2>2, EndsWithAppend
  <2>4. pushed' - Len(sendQ') = pushed - Len(sendQ)
    BY <1>1, <1>2, <2>1, <2>2
  <2>5. QED
    BY <2>1, <2>3, <2>4 DEF SendQInv, WrittenInOrder, sendVars
<1>8. \/ UNCHANGED <<sendQ, sendVars, pushed, written>>
      \/ SendLoop \/ PushData(pushed + 1)
  BY DEF OrderedNext, vars, historyVars, RecvLoop, RecvCheck, RecvRead, RecvPush, RecvFail,
         notRecv, PopBody, PopCheck, PopReceive, PopTimeout, PopCall, notPop,
         DestroyBody, DestroyBegin, DestroyClose, DestroyWake, notDestroy, OrderedOwner,
         Remote, RemoteSend, RemoteEnd, notRemote
<1>9. QED
  BY <1>3, <1>4, <1>5, <1>6, <1>7, <1>8 DEF SendLoop

\* conn.Write gets the pushed blocks in order and without a gap, for every
\* capacity of the queues and every interleaving with destroy and with errors.
THEOREM WrittenInOrderCorrect == Spec => []WrittenInOrder
<1>1. Init => TypeOK /\ SendQInv
  BY TypeInit, SendQInit
<1>2. TypeOK /\ SendQInv /\ [Next]_vars => (TypeOK /\ SendQInv)'
  BY NextIsOrdered, NextIsAnyNext, TypeStep, SendQStep
<1>3. SendQInv => WrittenInOrder
  BY DEF SendQInv
<1>4. QED
  BY <1>1, <1>2, <1>3, PTL DEF Spec

-----------------------------------------------------------------------------
(* What isAlive() tells its callers.                                       *)

LEMMA DeadStep ==
  ASSUME DeadInv, [AnyNext]_vars
  PROVE  DeadInv'
  BY DEF DeadInv, AnyNext, vars, connVars, sendVars, recvVars, popVars, historyVars,
         SendLoop, SendCheck, SendPop, SendWrite, SendFail, notSend,
         RecvLoop, RecvCheck, RecvRead, RecvPush, RecvFail, notRecv,
         PopBody, PopCheck, PopReceive, PopTimeout, PopCall, notPop,
         DestroyBody, DestroyBegin, DestroyClose, DestroyWake, notDestroy,
         AnyOwner, PushData, Remote, RemoteSend, RemoteEnd, notRemote

\* isAlive() tells the owner that the connection is finished only when every
\* block read from it was popped, unless destroy was called or a write failed.
THEOREM DrainBeforeDeadCorrect == Spec => []DrainBeforeDead
<1>1. Init => TypeOK /\ RecvQInv /\ DeadInv
  <2>1. Init => DeadInv
    BY DEF Init, DeadInv
  <2>2. QED
    BY <2>1, TypeInit, RecvQInit
<1>2. TypeOK /\ RecvQInv /\ DeadInv /\ [Next]_vars => (TypeOK /\ RecvQInv /\ DeadInv)'
  BY NextIsAnyNext, TypeStep, RecvQStep, DeadStep
<1>3. TypeOK /\ RecvQInv /\ DeadInv => DrainBeforeDead
  <2> SUFFICES ASSUME TypeOK, RecvQInv, DeadInv,
                      ~IsAlive, destroyPc = "idle", sendPc # "done"
               PROVE  Len(popped) = read
    BY DEF DrainBeforeDead
  <2>1. ~connAlive /\ recvQ = <<>>
    BY DEF IsAlive
  <2>2. Queued = read
    BY <2>1 DEF DeadInv, Queued
  <2>3. read \in Nat /\ popped \in Seq(Nat)
    BY TcpProxyAssumption DEF TypeOK, CountsOK, BlocksOK, TcpProxyAssumption
  <2>4. Len(popped) \in Nat
    BY <2>3, SeqFacts
  <2>5. Holds(<<>>, Len(popped), read)
    BY <2>1, <2>2 DEF RecvQInv
  <2>6. Len(<<>>) = 0
    OBVIOUS
  <2>7. Len(popped) <= read /\ ~(Len(popped) + 1 \in Len(popped) + 1 .. read)
    BY <2>5, <2>6 DEF Holds
  <2>8. QED
    BY <2>3, <2>4, <2>7
<1>4. QED
  BY <1>1, <1>2, <1>3, PTL DEF Spec

LEMMA NilStep ==
  ASSUME TypeOK, NilInv, [AnyNext]_vars
  PROVE  NilInv'
<1>1. recvQ \in Seq(Nat) /\ read \in Nat
  BY TcpProxyAssumption DEF TypeOK, QueuesOK, CountsOK, TcpProxyAssumption
<1>2. CASE UNCHANGED <<connAlive, recvQ, destroyPc, recvVars, popVars>>
  BY <1>2 DEF NilInv, NoSpuriousNil, recvVars, popVars
<1>3. CASE UNCHANGED <<recvQ, popVars>> /\ (connAlive' => connAlive /\ destroyPc' = "idle")
           /\ (recvPc' = "push" => read' > 0)
  BY <1>3 DEF NilInv, NoSpuriousNil, popVars
<1>4. CASE RecvPush
  <2>1. /\ UNCHANGED <<connAlive, destroyPc, read, popVars>> /\ recvPc = "push"
        /\ recvPc' = "check" /\ recvQ' = Append(recvQ, read)
    BY <1>4 DEF RecvPush, AfterSend, notRecv
  <2>2. read # Nil
    BY <2>1 DEF NilInv, Nil
  <2>3. (\E i \in 1 .. Len(recvQ') : recvQ'[i] = Nil)
           => \E i \in 1 .. Len(recvQ) : recvQ[i] = Nil
    BY <1>1, <2>1, <2>2, AppendFacts, SeqFacts
  <2>4. QED
    BY <2>1, <2>3 DEF NilInv, NoSpuriousNil, popVars
<1>5. CASE DestroyWake
  <2>1. /\ destroyPc = "wake" /\ UNCHANGED <<connAlive, recvVars, popVars>>
    BY <1>5 DEF DestroyWake, notDestroy
  <2>2. QED
    BY <2>1 DEF NilInv, NoSpuriousNil, recvVars, popVars
<1>6. CASE TakeFromRecvQ /\ UNCHANGED <<connAlive, destroyPc, recvVars>>
  <2>1. recvQ # <<>> /\ popDn' = Head(recvQ) /\ recvQ' = Tail(recvQ)
    BY <1>6 DEF TakeFromRecvQ
  <2>2. Len(recvQ) \in Nat \ {0} /\ Head(recvQ) = recvQ[1] /\ Len(recvQ') = Len(recvQ) - 1
        /\ \A i \in 1 .. Len(recvQ) - 1 : recvQ'[i] = recvQ[i + 1]
    BY <1>1, <2>1, TailFacts
  <2>3. (\E i \in 1 .. Len(recvQ') : recvQ'[i] = Nil) \/ popDn' = Nil
           => \E i \in 1 .. Len(recvQ) : recvQ[i] = Nil
    <3>1. ASSUME NEW i \in 1 .. Len(recvQ'), recvQ'[i] = Nil
          PROVE  i + 1 \in 1 .. Len(recvQ) /\ recvQ[i + 1] = Nil
      BY <2>2, <3>1
    <3>2. popDn' = Nil => 1 \in 1 .. Len(recvQ) /\ recvQ[1] = Nil
      BY <2>1, <2>2
    <3>3. QED
      BY <3>1, <3>2
  <2>4. QED
    BY <1>6, <2>3 DEF NilInv, NoSpuriousNil, recvVars
<1>7. CASE /\ popPc' = "idle" /\ UNCHANGED <<connAlive, recvQ, destroyPc, recvVars, popWait, popDn>>
           /\ popWait # "forever" \/ ~connAlive
  BY <1>7 DEF NilInv, NoSpuriousNil, recvVars
<1>8. CASE popPc' # "idle" /\ UNCHANGED <<connAlive, recvQ, destroyPc, recvVars>>
  BY <1>8 DEF NilInv, NoSpuriousNil, recvVars
<1>9. CASE SendLoop \/ UNCHANGED vars \/ Remote \/ (\E dn \in Nat : PushData(dn))
  BY <1>2, <1>3, <1>9 DEF NilInv, SendLoop, SendCheck, SendPop, SendWrite, SendFail, notSend,
     vars, recvVars, popVars, Remote, RemoteSend, RemoteEnd, notRemote, PushData
<1>10. CASE RecvLoop
  BY <1>1, <1>3, <1>4, <1>10 DEF NilInv, RecvLoop, RecvCheck, RecvRead, RecvFail, notRecv
<1>11. CASE PopBody \/ \E w \in {"none", "timed", "forever"} : PopCall(w)
  BY <1>6, <1>7, <1>8, <1>11
     DEF PopBody, PopCheck, PopReceive, PopTimeout, MayExpire, PopCall, IsAlive, notPop
<1>12. CASE DestroyBody \/ DestroyBegin
  BY <1>3, <1>5, <1>12
     DEF NilInv, DestroyBody, DestroyBegin, DestroyClose, notDestroy, recvVars
<1>13. QED
  BY <1>9, <1>10, <1>11, <1>12 DEF AnyNext, AnyOwner

\* popData(-1) returns nil only on a dead connection: the loops of its callers do
\* not spin on a live one, for every capacity of the queues.
THEOREM NoSpuriousNilCorrect == Spec => []NoSpuriousNil
<1>1. Init => TypeOK /\ NilInv
  <2>1. Init => NilInv
    BY DEF Init, NilInv, NoSpuriousNil
  <2>2. QED
    BY <2>1, TypeInit
<1>2. TypeOK /\ NilInv /\ [Next]_vars => (TypeOK /\ NilInv)'
  BY NextIsAnyNext, TypeStep, NilStep
<1>3. NilInv => NoSpuriousNil
  BY DEF NilInv
<1>4. QED
  BY <1>1, <1>2, <1>3, PTL DEF Spec

=============================================================================
