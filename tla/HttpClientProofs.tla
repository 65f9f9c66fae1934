--------------------------- MODULE HttpClientProofs ---------------------------
(***************************************************************************)
(* Theorems about HttpClient, for every capacity of the channels and every *)
(* number of blocks, requests and broken responses.                        *)
(***************************************************************************)
EXTENDS HttpClient, QueueFacts, FiniteSetTheorems

SendTypes ==
    sendQ \in Seq(Nat) /\ pushed \in Nat /\ sendDn \in Nat /\ delivered \in Seq(Nat)

\* Until a request fails, the server got the blocks that left sendQ, except the
\* one in processLoop's hand; after that processLoop takes no other.
RequestInv ==
    /\ SendTypes
    /\ EndsWith(sendQ, pushed)
    /\ procPc # "do" /\ ~failed => Len(delivered) = pushed - Len(sendQ)
    /\ procPc = "do" /\ sendDn = Nil => Len(delivered) = pushed - Len(sendQ)
    /\ procPc = "do" /\ sendDn # Nil =>
          sendDn = pushed - Len(sendQ) /\ Len(delivered) = sendDn - 1
    /\ failed => ~alive /\ procPc \in {"check", "exit", "done"}
    /\ RequestsInOrder

\* The responses that recvLoop has yet to read are those of requests that were
\* sent, and the nil that ends it comes after alive was cleared.  The last
\* conjunct is PollOutstanding with the elements of Unread spelled out.
ResponseInv ==
    /\ seq \in Nat /\ respQ \in Seq(Nat)
    /\ \A i \in 1 .. Len(respQ) : respQ[i] <= seq /\ (respQ[i] = Nil => ~alive)
    /\ recvPc \in {"read", "push"} => res \in 1 .. seq
    /\ procPc \in {"do", "push"} => seq > 0
    /\ procPc \in {"failed", "exit", "done"} => ~alive
    /\ alive /\ Created /\ procPc # "start" /\ recvPc # "look" =>
          \/ sendNop \/ Len(respQ) > 0 \/ procPc \in {"do", "push"}
          \/ recvPc \in {"read", "push", "poll"}

-----------------------------------------------------------------------------
(* The requests                                                            *)

LEMMA RequestInit == Init => RequestInv
<1> SUFFICES ASSUME Init PROVE RequestInv
  OBVIOUS
<1>1. /\ sendQ = <<>> /\ pushed = 0 /\ sendDn = 0 /\ delivered = <<>>
      /\ procPc = "connect" /\ ~failed
  BY DEF Init, Nil
<1>2. Len(sendQ) = 0 /\ Len(delivered) = 0 /\ pushed = 0 /\ SendTypes
  BY <1>1 DEF SendTypes
<1>3. EndsWith(sendQ, pushed) /\ Len(delivered) = pushed - Len(sendQ)
  BY ONLY <1>2 DEF EndsWith
<1>4. RequestsInOrder
  BY <1>1 DEF RequestsInOrder, Consecutive
<1>5. QED
  BY ONLY <1>1, <1>2, <1>3, <1>4 DEF RequestInv

\* What DoAnswered, and a DoFails whose request reached the server, do to
\* delivered.
LEMMA DeliverStep ==
  ASSUME RequestInv, procPc = "do", ServerTakes
  PROVE  /\ delivered' \in Seq(Nat) /\ Consecutive(delivered')
         /\ Len(delivered') = pushed - Len(sendQ)
<1>1. /\ delivered \in Seq(Nat) /\ sendDn \in Nat /\ Len(delivered) \in Nat
      /\ Len(sendQ) \in Nat /\ pushed \in Nat /\ Consecutive(delivered)
  BY SeqFacts DEF RequestInv, SendTypes, RequestsInOrder
<1>2. CASE sendDn = Nil
  BY <1>1, <1>2 DEF RequestInv, ServerTakes
<1>3. CASE sendDn # Nil
  <2>1. delivered' = Append(delivered, sendDn)
    BY <1>3 DEF ServerTakes
  <2>2. sendDn = pushed - Len(sendQ) /\ sendDn = Len(delivered) + 1
    BY <1>1, <1>3 DEF RequestInv
  <2>3. Consecutive(delivered')
    BY <1>1, <2>1, <2>2, CountingAppend DEF Consecutive
  <2>4. QED
    BY <1>1, <2>1, <2>2, <2>3, AppendFacts
<1>4. QED
  BY <1>2, <1>3

LEMMA RequestStep ==
  ASSUME RequestInv, [Next]_vars
  PROVE  RequestInv'
<1>1. /\ sendQ \in Seq(Nat) /\ pushed \in Nat /\ sendDn \in Nat /\ delivered \in Seq(Nat)
      /\ Len(sendQ) \in Nat /\ EndsWith(sendQ, pushed)
  BY SeqFacts DEF RequestInv, SendTypes
<1>2. CASE /\ UNCHANGED <<sendQ, pushed, sendDn, delivered, failed>>
           /\ alive' => alive
           /\ procPc' = procPc \/ (procPc # "do" /\ procPc' # "do")
           /\ failed => procPc' \in {"check", "exit", "done"}
  BY <1>2 DEF RequestInv, SendTypes, RequestsInOrder
<1>3. CASE ProcSelect
  <2>1. CASE /\ sendQ # <<>> /\ sendDn' = Head(sendQ) /\ sendQ' = Tail(sendQ)
             /\ procPc = "select" /\ procPc' = "do"
             /\ UNCHANGED <<alive, pushed, delivered, failed>>
    <3>1. /\ Len(sendQ) \in Nat \ {0} /\ Len(sendQ') = Len(sendQ) - 1
          /\ sendQ' \in Seq(Nat) /\ sendDn' = sendQ[1] /\ sendQ[1] \in Nat
          /\ \A i \in 1 .. Len(sendQ) - 1 : sendQ'[i] = sendQ[i + 1]
      BY <1>1, <2>1, TailFacts, SeqFacts
    <3>2. EndsWith(sendQ', pushed) /\ sendDn' = pushed - Len(sendQ')
      BY <1>1, <3>1, EndsWithTail
    <3>3. ~failed /\ Len(delivered) = pushed - Len(sendQ)
      BY <2>1 DEF RequestInv
    <3>4. sendDn' # Nil
      BY <1>1, <3>1, <3>2 DEF EndsWith, Nil
    <3>5. QED
      BY <1>1, <2>1, <3>1, <3>2, <3>3, <3>4 DEF RequestInv, SendTypes, RequestsInOrder
  <2>2. CASE /\ sendDn' = Nil /\ procPc = "select" /\ procPc' = "do"
             /\ UNCHANGED <<alive, sendQ, pushed, delivered, failed>>
    BY <1>1, <2>2 DEF RequestInv, SendTypes, RequestsInOrder, Nil
  <2>3. CASE /\ procPc = "select" /\ procPc' = "check"
             /\ UNCHANGED <<alive, sendQ, sendDn, pushed, delivered, failed>>
    BY <1>2, <2>3
  <2>4. QED
    BY <1>3, <2>1, <2>2, <2>3 DEF ProcSelect, notProc
<1>4. CASE DoAnswered
  <2>1. /\ procPc = "do" /\ procPc' = "push" /\ ServerTakes
        /\ UNCHANGED <<alive, sendQ, pushed, sendDn, failed>>
    BY <1>4 DEF DoAnswered, notProc, requestVars
  <2>2. /\ delivered' \in Seq(Nat) /\ Consecutive(delivered')
        /\ Len(delivered') = pushed - Len(sendQ)
    BY <2>1, DeliverStep
  <2>3. QED
    BY <1>1, <2>1, <2>2 DEF RequestInv, SendTypes, RequestsInOrder
<1>5. CASE DoFails
  <2>1. /\ procPc = "do" /\ procPc' = "check" /\ alive' = FALSE /\ failed' = TRUE
        /\ ServerTakes \/ delivered' = delivered
        /\ UNCHANGED <<sendQ, pushed, sendDn>>
    BY <1>5 DEF DoFails, notProc
  <2>2. delivered' \in Seq(Nat) /\ Consecutive(delivered')
    BY <1>1, <2>1, DeliverStep DEF RequestInv, RequestsInOrder
  <2>3. QED
    BY <1>1, <2>1, <2>2 DEF RequestInv, SendTypes, RequestsInOrder
<1>6. CASE PushTCPRequest(pushed + 1)
  <2>1. /\ sendQ' = Append(sendQ, pushed + 1) /\ pushed' = pushed + 1
        /\ UNCHANGED <<alive, procPc, sendDn, delivered, failed>>
    BY <1>6 DEF PushTCPRequest, AfterSend, procVars, requestVars
  <2>2. /\ sendQ' \in Seq(Nat) /\ Len(sendQ') = Len(sendQ) + 1
        /\ sendQ'[Len(sendQ) + 1] = pushed + 1
        /\ \A i \in 1 .. Len(sendQ) : sendQ'[i] = sendQ[i]
    BY <1>1, <2>1, AppendFacts
  <2>3. EndsWith(sendQ', pushed + 1)
    BY <1>1, <2>2, EndsWithAppend
  <2>4. pushed' - Len(sendQ') = pushed - Len(sendQ) /\ pushed' \in Nat
    BY <1>1, <2>1, <2>2
  <2>5. QED
    BY <1>1, <2>1, <2>2, <2>3, <2>4 DEF RequestInv, SendTypes, RequestsInOrder
<1>7. CASE Connect \/ ConnectFail \/ ProcStart \/ ProcCheck \/ ProcPush
  BY <1>2, <1>7 DEF RequestInv, Connect, ConnectFail, ProcStart, ProcCheck, ProcPush,
                    notProc, requestVars
<1>8. CASE RecvLoop \/ PopBody \/ PopCall \/ UNCHANGED vars
  BY <1>2, <1>8 DEF RequestInv, RecvLoop, RecvNext, RecvRead, RecvPush, RecvEnd, RecvLook,
                    RecvPoll, notRecv, PopBody, PopCall, PopCheck, PopReceive, notPop,
                    procVars, requestVars, vars
<1>9. CASE DestroyBody \/ DestroyBegin \/ Server
  BY <1>2, <1>9 DEF RequestInv, DestroyBody, DestroyBegin, DestroyClose, DestroyWake,
                    notDestroy, Server, ServerWrite, ServerFinish, Break, notServer,
                    procVars, requestVars
<1>10. QED
  BY <1>3, <1>4, <1>5, <1>6, <1>7, <1>8, <1>9 DEF Next, ProcessLoop, Do, Owner

\* The server gets the blocks of pushTCPRequest in order and without a gap, for
\* every capacity of the channels and every number of blocks, polls in between,
\* requests that fail and a concurrent destroy (httpClient.processLoop).
THEOREM RequestsInOrderCorrect == Spec => []RequestsInOrder
<1>1. RequestInv => RequestsInOrder
  BY DEF RequestInv
<1>2. QED
  BY <1>1, RequestInit, RequestStep, PTL DEF Spec
-----------------------------------------------------------------------------
(* The polls                                                               *)

LEMMA ResponseInit == Init => ResponseInv
  BY DEF Init, ResponseInv, Created, Nil

LEMMA ResponseStep ==
  ASSUME ResponseInv, [Next]_vars
  PROVE  ResponseInv'
<1>1. /\ seq \in Nat /\ respQ \in Seq(Nat) /\ Len(respQ) \in Nat
      /\ \A i \in 1 .. Len(respQ) : respQ[i] \in Nat
  BY SeqFacts DEF ResponseInv
<1>2. CASE UNCHANGED <<seq, respQ, procPc, recvPc, res, sendNop>> /\ (alive' => alive)
  BY <1>2 DEF ResponseInv, Created
<1>3. CASE Connect \/ ConnectFail \/ ProcStart \/ ProcCheck
  BY <1>3 DEF ResponseInv, Created, Connect, ConnectFail, ProcStart, ProcCheck, notProc,
              requestVars, recvVars
<1>4. CASE ProcSelect
  <2>1. CASE seq' = seq + 1 /\ procPc' = "do" /\ UNCHANGED <<alive, respQ, recvPc, res>>
    BY <1>1, <2>1 DEF ResponseInv, Created
  <2>2. CASE procPc = "select" /\ procPc' = "check"
             /\ UNCHANGED <<alive, seq, sendNop, respQ, recvPc, res>>
    BY <2>2 DEF ResponseInv, Created
  <2>3. QED
    BY <1>4, <2>1, <2>2 DEF ProcSelect, notProc, recvVars
<1>5. CASE Do
  BY <1>5 DEF ResponseInv, Created, Do, DoAnswered, DoFails, notProc, requestVars, recvVars
<1>6. CASE ProcPush
  <2>1. CASE procPc = "push" /\ respQ' = Append(respQ, seq) /\ procPc' = "check"
             /\ UNCHANGED <<alive, seq, recvPc, res>>
    <3>1. Len(respQ') > 0 /\ respQ' \in Seq(Nat) /\ seq > 0
          /\ \A i \in 1 .. Len(respQ') :
                respQ'[i] = seq \/ (i \in 1 .. Len(respQ) /\ respQ'[i] = respQ[i])
      BY <1>1, <2>1, AppendFacts DEF ResponseInv
    <3>2. QED
      BY <1>1, <2>1, <3>1 DEF ResponseInv, Nil
  <2>2. CASE procPc = "exit" /\ respQ' = Append(respQ, Nil) /\ procPc' = "done"
             /\ UNCHANGED <<alive, seq, recvPc, res>>
    <3>1. respQ' \in Seq(Nat)
          /\ \A i \in 1 .. Len(respQ') :
                respQ'[i] = Nil \/ (i \in 1 .. Len(respQ) /\ respQ'[i] = respQ[i])
      BY <1>1, <2>2, AppendFacts DEF Nil
    <3>2. QED
      BY <1>1, <2>2, <3>1 DEF ResponseInv, Nil
  <2>3. QED
    BY <1>6, <2>1, <2>2 DEF ProcPush, AfterSend, notProc, requestVars, recvVars
<1>7. CASE RecvNext
  <2>1. /\ respQ # <<>> /\ res' = Head(respQ) /\ respQ' = Tail(respQ)
        /\ recvPc' = IF Head(respQ) = Nil THEN "done" ELSE "read"
        /\ UNCHANGED <<alive, seq, procPc>>
    BY <1>7 DEF RecvNext, notRecv, procVars, requestVars
  <2>2. /\ Len(respQ) \in Nat \ {0} /\ Head(respQ) = respQ[1]
        /\ respQ' \in Seq(Nat) /\ Len(respQ') = Len(respQ) - 1
        /\ \A i \in 1 .. Len(respQ) - 1 : respQ'[i] = respQ[i + 1]
    BY <1>1, <2>1, TailFacts
  <2>3. \A i \in 1 .. Len(respQ') : respQ'[i] <= seq /\ (respQ'[i] = Nil => ~alive)
    BY <2>2 DEF ResponseInv
  <2>4. 1 \in 1 .. Len(respQ)
    BY <2>2
  <2>5. res' <= seq /\ res' \in Nat /\ (res' = Nil => ~alive)
    BY <1>1, <2>1, <2>2, <2>4 DEF ResponseInv
  <2>6. CASE res' = Nil
    BY <1>1, <2>1, <2>2, <2>3, <2>5, <2>6 DEF ResponseInv
  <2>7. CASE res' # Nil
    <3>1. recvPc' = "read" /\ res' \in 1 .. seq
      BY <1>1, <2>1, <2>5, <2>7 DEF Nil
    <3>2. QED
      BY <1>1, <2>1, <2>2, <2>3, <3>1 DEF ResponseInv
  <2>8. QED
    BY <2>6, <2>7
<1>8. CASE RecvRead \/ RecvPush \/ RecvEnd \/ RecvPoll
  BY <1>8 DEF ResponseInv, Created, RecvRead, RecvPush, RecvEnd, RecvPoll, notRecv, procVars,
              requestVars
<1>9. CASE RecvLook
  <2>1. /\ recvPc = "look" /\ recvPc' = IF respQ = <<>> THEN "poll" ELSE "next"
        /\ UNCHANGED <<alive, seq, sendNop, respQ, procPc, res>>
    BY <1>9 DEF RecvLook, IsIdle, notRecv, procVars, requestVars
  <2>2. respQ # <<>> => Len(respQ) > 0
    BY <1>1, TailFacts
  <2>3. QED
    BY <2>1, <2>2 DEF ResponseInv, Created
<1>10. CASE PopBody \/ Owner \/ UNCHANGED vars
  BY <1>2, <1>10 DEF PopBody, PopCall, PopCheck, PopReceive, notPop, Owner, PushTCPRequest,
                     DestroyBegin, notDestroy, procVars, requestVars, recvVars, vars
<1>11. CASE DestroyBody \/ Server
  BY <1>2, <1>11 DEF DestroyBody, DestroyClose, DestroyWake, notDestroy, Server,
                     ServerWrite, ServerFinish, Break, notServer, procVars, requestVars,
                     recvVars
<1>12. QED
  BY <1>3, <1>4, <1>5, <1>6, <1>7, <1>8, <1>9, <1>10, <1>11
     DEF Next, ProcessLoop, RecvLoop

\* A tunnel that is alive has a request open, or has asked for a poll, or recvLoop
\* is on its way to ask for one, for every capacity of the channels: the server
\* always has, or will be given, a response to write to
\* (httpClient.processLoop, recvLoop).
THEOREM PollOutstandingCorrect == Spec => []PollOutstanding
<1>1. ResponseInv => PollOutstanding
  <2> SUFFICES ASSUME ResponseInv, alive, Created, procPc # "start", recvPc # "look",
                      ~sendNop, recvPc # "poll"
               PROVE  Unread # {}
    BY DEF PollOutstanding
  <2>1. seq \in Nat /\ respQ \in Seq(Nat) /\ DOMAIN respQ = 1 .. Len(respQ)
    BY SeqFacts DEF ResponseInv
  <2>2. CASE Len(respQ) > 0
    <3>1. 1 \in 1 .. Len(respQ)
      BY <2>1, <2>2, SeqFacts
    <3>2. respQ[1] \in 1 .. seq
      BY <2>1, <3>1, SeqFacts DEF ResponseInv, Nil
    <3>3. respQ[1] \in Range(respQ)
      BY <2>1, <3>1 DEF Range
    <3>4. QED
      BY <3>2, <3>3 DEF Unread
  <2>3. CASE procPc \in {"do", "push"}
    <3>1. seq \in 1 .. seq
      BY <2>1, <2>3 DEF ResponseInv
    <3>2. QED
      BY <2>3, <3>1 DEF Unread
  <2>4. CASE recvPc \in {"read", "push"}
    BY <2>4 DEF ResponseInv, Unread
  <2>5. QED
    BY <2>2, <2>3, <2>4 DEF ResponseInv
<1>2. QED
  BY <1>1, ResponseInit, ResponseStep, PTL DEF Spec

-----------------------------------------------------------------------------
(* The responses                                                           *)

\* Before newHTTPClient has returned nothing has happened.
StartInv ==
    /\ procPc \in {"connect", "failed"} =>
          /\ recvPc = "none" /\ popPc = "idle" /\ seq = 0 /\ res = 0
          /\ respQ = <<>> /\ popped = <<>> /\ sendQ = <<>>
    /\ procPc = "connect" => alive = TRUE /\ recvQ = <<>> /\ destroyPc = "idle"
    /\ procPc = "failed" => recvQ = <<Nil>> /\ destroyPc = "done"

IsReading == recvPc \in {"read", "push"}

\* recvLoop is through with response s.
IsRead(s) == s < res \/ (s = res /\ ~IsReading)

\* The responses are in respQ one after the other, from the one behind that of
\* recvLoop to the last request; nothing is left, or will come, of those before.
PositionInv ==
    /\ seq <= MaxSeq /\ current \in Nat \ {0}
    /\ recvPc # "done" =>
          /\ res \in 0 .. MaxSeq
          /\ \A i \in 1 .. Len(respQ) :
                respQ[i] = res + i \/ (respQ[i] = Nil /\ i = Len(respQ) /\ procPc = "done")
          /\ procPc \in {"do", "push"} => res + Len(respQ) = seq - 1
          /\ procPc \in {"start", "check", "select"} /\ ~failed => res + Len(respQ) = seq
          /\ \A s \in 1 .. MaxSeq : IsRead(s) =>
                body[s] = <<>> /\ (s < current \/ s \in broken)

LEMMA StartInit == Init => StartInv
  BY DEF Init, StartInv, Nil

LEMMA StartStep ==
  ASSUME StartInv, [Next]_vars
  PROVE  StartInv'
<1>1. CASE UNCHANGED <<procPc, recvPc, popPc, seq, res, respQ, popped, sendQ, alive, recvQ, destroyPc>>
  BY <1>1 DEF StartInv
<1>2. CASE Created /\ Created'
  BY <1>2 DEF StartInv, Created
<1>3. CASE Connect
  BY <1>3 DEF Connect, StartInv, Created
<1>4. CASE ConnectFail
  BY <1>4 DEF ConnectFail, StartInv, recvVars, popVars, requestVars
<1>5. CASE ProcessLoop
  BY <1>2, <1>5 DEF ProcessLoop, ProcStart, ProcCheck, ProcSelect, Do, DoAnswered, DoFails,
                    ProcPush, Created
<1>6. CASE RecvLoop \/ PopBody \/ DestroyBody \/ Owner
  <2>1. Created
    BY <1>6 DEF StartInv, Created, RecvLoop, RecvNext, RecvRead, RecvPush, RecvEnd, RecvLook,
                RecvPoll, PopBody, PopCheck, PopReceive, DestroyBody, DestroyClose, DestroyWake,
                Owner, PushTCPRequest, PopCall, DestroyBegin
  <2>2. procPc' = procPc
    BY <1>6 DEF RecvLoop, RecvNext, RecvRead, RecvPush, RecvEnd, RecvLook, RecvPoll, notRecv,
                PopBody, PopCheck, PopReceive, notPop, DestroyBody, DestroyClose, DestroyWake,
                Owner, PushTCPRequest, PopCall, DestroyBegin, notDestroy, procVars
  <2>3. QED
    BY <1>2, <2>1, <2>2 DEF Created
<1>7. CASE Server \/ UNCHANGED vars
  BY <1>1, <1>7 DEF Server, ServerWrite, ServerFinish, Break, notServer, procVars, recvVars,
                    popVars, requestVars, vars
<1>8. QED
  BY <1>3, <1>4, <1>5, <1>6, <1>7 DEF Next

BodyTypes == body \in [1 .. MaxSeq -> Seq(Nat)] /\ sent \in Nat

LEMMA PositionInit == Init => PositionInv
<1> SUFFICES ASSUME Init PROVE PositionInv
  OBVIOUS
<1>1. /\ MaxSeq \in Nat /\ seq = 0 /\ current = 1 /\ res = 0 /\ procPc = "connect"
      /\ Len(respQ) = 0
  BY HttpClientAssumption DEF HttpClientAssumption, Init, Nil
<1>2. QED
  BY <1>1 DEF PositionInv, IsRead, IsReading

LEMMA PositionStep ==
  ASSUME RequestInv, ResponseInv, StartInv, PositionInv, BodyTypes, [Next]_vars
  PROVE  PositionInv'
<1>1. /\ seq \in Nat /\ respQ \in Seq(Nat) /\ Len(respQ) \in Nat /\ MaxSeq \in Nat
      /\ \A i \in 1 .. Len(respQ) : respQ[i] \in Nat
  BY SeqFacts, HttpClientAssumption DEF ResponseInv, HttpClientAssumption
<1>2. ASSUME UNCHANGED <<seq, respQ, procPc, res, failed>>,
             current' \in {current, current + 1}, broken \subseteq broken',
             recvPc' = recvPc \/ (~IsReading /\ ~IsReading' /\ recvPc # "done")
                \/ (IsReading /\ IsReading'),
             \A s \in 1 .. MaxSeq : IsRead(s) => body'[s] = body[s]
      PROVE  PositionInv'
  <2>1. \A s : IsRead(s)' <=> IsRead(s)
    BY <1>2 DEF IsRead, IsReading
  <2>2. recvPc' # "done" => recvPc # "done"
    BY <1>2 DEF IsReading
  <2>3. QED
    BY <1>2, <2>1, <2>2 DEF PositionInv
<1>3. CASE Connect
  BY <1>1, <1>3 DEF Connect, StartInv, PositionInv, IsRead, IsReading, requestVars, serverVars
<1>4. CASE ConnectFail
  BY <1>1, <1>4 DEF ConnectFail, StartInv, PositionInv, IsRead, IsReading, requestVars, recvVars, serverVars
<1>5. CASE ProcStart \/ ProcCheck \/ ProcSelect \/ Do
  <2>1. /\ UNCHANGED <<respQ, recvPc, res, body, broken, current>>
        /\ \A s : IsRead(s)' <=> IsRead(s)
    BY <1>5 DEF ProcStart, ProcCheck, ProcSelect, Do, DoAnswered, DoFails, notProc, recvVars,
                serverVars, IsRead, IsReading
  <2>2. procPc # "done" /\ (procPc \in {"do", "select"} => ~failed)
    BY <1>5 DEF ProcStart, ProcCheck, ProcSelect, Do, DoAnswered, DoFails, RequestInv
  <2>3. \/ procPc = "do" /\ procPc' \in {"push"} /\ UNCHANGED <<seq, failed>>
        \/ procPc = "do" /\ procPc' = "check" /\ failed' /\ UNCHANGED seq
        \/ procPc = "select" /\ procPc' = "do" /\ seq' = seq + 1 /\ seq < MaxSeq /\ UNCHANGED failed
        \/ procPc = "select" /\ procPc' = "check" /\ UNCHANGED <<seq, failed>>
        \/ procPc = "start" /\ procPc' = "check" /\ UNCHANGED <<seq, failed>>
        \/ procPc = "check" /\ procPc' \in {"select", "exit"} /\ UNCHANGED <<seq, failed>>
    BY <1>5 DEF ProcStart, ProcCheck, ProcSelect, Do, DoAnswered, DoFails, requestVars
  <2>4. QED
    BY <1>1, <2>1, <2>2, <2>3 DEF PositionInv
<1>6. CASE ProcPush
  <2>1. /\ UNCHANGED <<seq, failed, recvPc, res, body, broken, current>>
        /\ \A s : IsRead(s)' <=> IsRead(s)
    BY <1>6 DEF ProcPush, notProc, requestVars, recvVars, serverVars, IsRead, IsReading
  <2>2. PICK x \in Nat :
          /\ respQ' = Append(respQ, x)
          /\ \/ procPc = "push" /\ x = seq /\ procPc' = "check"
             \/ procPc = "exit" /\ x = Nil /\ procPc' = "done"
    BY <1>1, <1>6 DEF ProcPush, AfterSend, Nil
  <2>3. /\ Len(respQ') = Len(respQ) + 1 /\ respQ'[Len(respQ) + 1] = x
        /\ \A i \in 1 .. Len(respQ) : respQ'[i] = respQ[i]
    BY <1>1, <2>2, AppendFacts
  <2>4. QED
    BY <1>1, <2>1, <2>2, <2>3 DEF PositionInv
<1>7. CASE RecvNext
  <2>1. /\ UNCHANGED <<seq, failed, procPc, body, broken, current>>
        /\ recvPc = "next" /\ respQ # <<>> /\ res' = Head(respQ) /\ respQ' = Tail(respQ)
        /\ recvPc' = IF Head(respQ) = Nil THEN "done" ELSE "read"
    BY <1>7 DEF RecvNext, notRecv, procVars, requestVars, serverVars
  <2>2. /\ Len(respQ) \in Nat \ {0} /\ Head(respQ) = respQ[1] /\ Len(respQ') = Len(respQ) - 1
        /\ \A i \in 1 .. Len(respQ) - 1 : respQ'[i] = respQ[i + 1]
    BY <1>1, <2>1, TailFacts
  <2>3. CASE respQ[1] = Nil
    BY <2>1, <2>2, <2>3 DEF PositionInv
  <2>4. CASE respQ[1] # Nil
    <3>1. 1 \in 1 .. Len(respQ)
      BY <2>2
    <3>2. respQ[1] <= seq
      BY <3>1 DEF ResponseInv
    <3>3. recvPc # "done" /\ res \in Nat /\ res' = res + 1 /\ res' \in 0 .. MaxSeq /\ recvPc' = "read"
      <4>1. recvPc # "done" /\ recvPc' = "read" /\ res' = respQ[1]
        BY <2>1, <2>2, <2>4
      <4>2. res \in 0 .. MaxSeq /\ seq <= MaxSeq /\ respQ[1] = res + 1
        BY <2>4, <3>1, <4>1 DEF PositionInv
      <4>3. QED
        BY <1>1, <3>2, <4>1, <4>2
    <3>4. \A s \in 1 .. MaxSeq : IsRead(s)' => IsRead(s)
      BY <1>1, <2>1, <3>3 DEF IsRead, IsReading
    <3>5. \A i \in 1 .. Len(respQ') :
            respQ'[i] = res' + i \/ (respQ'[i] = Nil /\ i = Len(respQ') /\ procPc' = "done")
      <4> TAKE i \in 1 .. Len(respQ')
      <4>1. i + 1 \in 1 .. Len(respQ) /\ respQ'[i] = respQ[i + 1]
        BY <2>2
      <4>2. respQ[i + 1] = res + (i + 1)
            \/ (respQ[i + 1] = Nil /\ i + 1 = Len(respQ) /\ procPc = "done")
        BY <3>3, <4>1 DEF PositionInv
      <4>3. i \in Nat /\ Len(respQ) \in Nat /\ Len(respQ') = Len(respQ) - 1
        BY <2>2
      <4>4. /\ res + (i + 1) = (res + 1) + i
            /\ i + 1 = Len(respQ) => i = Len(respQ')
        BY <3>3, <4>3
      <4>5. QED
        BY <2>1, <3>3, <4>1, <4>2, <4>4
    <3>6. res' + Len(respQ') = res + Len(respQ)
      BY <2>2, <3>3
    <3>7. QED
      BY <1>1, <2>1, <2>2, <3>3, <3>4, <3>5, <3>6 DEF PositionInv
  <2>5. QED
    BY <2>3, <2>4
<1>8. CASE RecvRead
  <2>1. \A s \in 1 .. MaxSeq : IsRead(s) => body'[s] = body[s]
    BY <1>8 DEF RecvRead, BodyTypes, IsRead, IsReading
  <2>2. QED
    BY <1>2, <1>8, <2>1 DEF RecvRead, notRecv, procVars, requestVars, serverVars, IsReading
<1>9. CASE RecvPush \/ RecvLook \/ RecvPoll
  BY <1>2, <1>9 DEF RecvPush, RecvLook, RecvPoll, notRecv, procVars, requestVars, serverVars,
                    IsReading
<1>10. CASE RecvEnd
  <2>1. /\ UNCHANGED <<seq, failed, procPc, respQ, res, broken, current>>
        /\ recvPc = "read" /\ recvPc' = "look"
        /\ res < current \/ res \in broken
        /\ body' = [body EXCEPT ![res] = <<>>]
    BY <1>10 DEF RecvEnd, notRecv, procVars, requestVars, serverVars
  <2>2. res \in 1 .. MaxSeq
    BY <1>1, <2>1 DEF ResponseInv, PositionInv
  <2>3. \A s \in 1 .. MaxSeq : IsRead(s)' => body'[s] = <<>> /\ (s < current \/ s \in broken)
    <3> SUFFICES ASSUME NEW s \in 1 .. MaxSeq, IsRead(s)'
                 PROVE  body'[s] = <<>> /\ (s < current \/ s \in broken)
      OBVIOUS
    <3>1. CASE s = res
      BY <2>1, <2>2, <3>1 DEF BodyTypes
    <3>2. CASE s # res
      <4>1. IsRead(s) /\ body'[s] = body[s]
        BY <2>1, <2>2, <3>2 DEF IsRead, IsReading, BodyTypes
      <4>2. QED
        BY <2>1, <4>1 DEF PositionInv
    <3>3. QED
      BY <3>1, <3>2
  <2>4. QED
    BY <2>1, <2>3 DEF PositionInv
<1>11. CASE ServerWrite
  <2>1. /\ UNCHANGED <<seq, failed, procPc, respQ, recvPc, res, broken, current>>
        /\ body' = IF current \in broken THEN body
                   ELSE [body EXCEPT ![current] = Append(@, sent + 1)]
    BY <1>11 DEF ServerWrite, notServer, procVars, recvVars, requestVars
  <2>2. \A s \in 1 .. MaxSeq : recvPc # "done" /\ IsRead(s) => body'[s] = body[s]
    BY <1>1, <2>1 DEF PositionInv, BodyTypes
  <2>3. \A s : IsRead(s)' <=> IsRead(s)
    BY <2>1 DEF IsRead, IsReading
  <2>4. QED
    BY <2>1, <2>2, <2>3 DEF PositionInv
<1>12. CASE ServerFinish \/ Break \/ PopBody \/ DestroyBody \/ Owner \/ UNCHANGED vars
  BY <1>2, <1>12 DEF ServerFinish, Break, notServer, PopBody, PopCheck, PopReceive, notPop,
     DestroyBody, DestroyClose, DestroyWake, Owner, PushTCPRequest, PopCall, DestroyBegin,
     notDestroy, procVars, recvVars, serverVars, requestVars, vars
<1>13. QED
  BY <1>3, <1>4, <1>5, <1>6, <1>7, <1>8, <1>9, <1>10, <1>11, <1>12
     DEF Next, ProcessLoop, RecvLoop, Server

\* The blocks that left recvLoop, the one in its hand, and those still to be read.
Got(k) ==
    \/ \E i \in 1 .. Len(popped) : popped[i] = k
    \/ k # Nil /\ \E i \in 1 .. Len(recvQ) : recvQ[i] = k
InHand(k) == recvPc = "push" /\ k = recvDn
ToRead(k) == \E s \in 1 .. MaxSeq : \E i \in 1 .. Len(body[s]) : body[s][i] = k

\* What was popped and what recvQ holds without its nil is increasing.
QueueOrder ==
    /\ popped \in Seq(Nat) /\ recvQ \in Seq(Nat)
    /\ \A i, j \in 1 .. Len(popped) : i < j => popped[i] < popped[j]
    /\ \A i \in 1 .. Len(popped) : popped[i] # Nil
    /\ \A i \in 1 .. Len(popped), j \in 1 .. Len(recvQ) : recvQ[j] # Nil => popped[i] < recvQ[j]
    /\ \A i, j \in 1 .. Len(recvQ) :
          i < j /\ recvQ[i] # Nil /\ recvQ[j] # Nil => recvQ[i] < recvQ[j]

\* So are the bodies of the responses, one after the other.
BodyOrder ==
    /\ BodyTypes
    /\ \A s \in 1 .. MaxSeq : \A i \in 1 .. Len(body[s]) : body[s][i] \in 1 .. sent
    /\ \A s \in 1 .. MaxSeq : \A i, j \in 1 .. Len(body[s]) : i < j => body[s][i] < body[s][j]
    /\ \A s, t \in 1 .. MaxSeq : s < t =>
          \A i \in 1 .. Len(body[s]), j \in 1 .. Len(body[t]) : body[s][i] < body[t][j]
    /\ \A s \in 1 .. MaxSeq : s > current => body[s] = <<>>

\* And the blocks in recvQ come before the one in recvLoop's hand, that before
\* those to be read.
StreamOrder ==
    /\ recvDn \in Nat
    /\ recvPc = "push" => recvDn \in 1 .. sent
    /\ \A k \in Nat : Got(k) => k <= sent /\ (recvPc = "push" => k < recvDn)
    /\ \A j, k \in Nat : (Got(j) \/ InHand(j)) /\ ToRead(k) => j < k

\* If no response broke, none is missing.
NoLoss ==
    broken = {} =>
        /\ \A i \in 1 .. Len(popped) : popped[i] = i
        /\ \A k \in 1 .. sent : Got(k) \/ InHand(k) \/ ToRead(k)

StreamInv == QueueOrder /\ BodyOrder /\ StreamOrder /\ NoLoss

LEMMA StreamInit == Init => StreamInv
<1> SUFFICES ASSUME Init PROVE StreamInv
  OBVIOUS
<1>1. /\ Len(popped) = 0 /\ Len(recvQ) = 0 /\ popped = <<>> /\ recvQ = <<>> /\ sent = 0
      /\ recvDn = 0 /\ recvPc = "none" /\ body = [s \in 1 .. MaxSeq |-> <<>>]
  BY DEF Init, Nil
<1>2. \A s \in 1 .. MaxSeq : body[s] = <<>> /\ Len(body[s]) = 0
  BY <1>1
<1>3. BodyOrder
  BY <1>1, <1>2 DEF BodyOrder, BodyTypes
<1>4. QED
  BY <1>1, <1>2, <1>3 DEF StreamInv, QueueOrder, StreamOrder, NoLoss, Got, InHand, ToRead

\* The step may tell apart nothing but which blocks are where.
LEMMA StreamKeeps ==
  ASSUME StreamOrder, NoLoss, recvDn' \in Nat, sent' = sent, broken \subseteq broken',
         recvPc' = "push" => recvDn' \in 1 .. sent,
         \A i \in 1 .. Len(popped') : broken' = {} => popped'[i] = i,
         \A k \in Nat : Got(k)' <=> Got(k),
         \A k \in Nat : InHand(k)' <=> InHand(k),
         \A k \in Nat : ToRead(k)' => ToRead(k),
         \A k \in Nat : broken' = {} => (ToRead(k)' <=> ToRead(k))
  PROVE  StreamOrder' /\ NoLoss'
<1>1. \A k \in Nat : Got(k)' => k <= sent' /\ (recvPc' = "push" => k < recvDn')
  <2> SUFFICES ASSUME NEW k \in Nat, Got(k)'
               PROVE  k <= sent' /\ (recvPc' = "push" => k < recvDn')
    OBVIOUS
  <2>1. Got(k) /\ k <= sent'
    BY DEF StreamOrder
  <2>2. ASSUME recvPc' = "push" PROVE k < recvDn'
    <3>1. InHand(recvDn')
      BY <2>2 DEF InHand
    <3>2. QED
      BY <2>1, <3>1 DEF StreamOrder, InHand
  <2>3. QED
    BY <2>1, <2>2
<1>2. \A j, k \in Nat : (Got(j)' \/ InHand(j)') /\ ToRead(k)' => j < k
  BY DEF StreamOrder
<1>3. NoLoss'
  <2> SUFFICES ASSUME broken' = {}
               PROVE  \A k \in 1 .. sent' : Got(k)' \/ InHand(k)' \/ ToRead(k)'
    BY DEF NoLoss
  <2>1. broken = {}
    OBVIOUS
  <2>2. QED
    BY <2>1 DEF NoLoss
<1>4. QED
  BY <1>1, <1>2, <1>3 DEF StreamOrder

\* The first block in recvQ is the next one to be popped.
LEMMA TakeKeeps ==
  ASSUME QueueOrder, StreamOrder, NoLoss, sent \in Nat, TakeFromRecvQ,
         UNCHANGED <<recvPc, recvDn, body, broken, sent>>
  PROVE  QueueOrder' /\ StreamOrder' /\ NoLoss' /\ \A k \in Nat : Got(k)' <=> Got(k)
<1>1. /\ popped \in Seq(Nat) /\ Len(popped) \in Nat /\ recvQ \in Seq(Nat)
      /\ Len(recvQ) \in Nat \ {0} /\ Head(recvQ) = recvQ[1] /\ recvQ[1] \in Nat
      /\ recvQ' \in Seq(Nat) /\ Len(recvQ') = Len(recvQ) - 1
      /\ \A i \in 1 .. Len(recvQ) : recvQ[i] \in Nat
      /\ \A i \in 1 .. Len(recvQ) - 1 : recvQ'[i] = recvQ[i + 1]
      /\ \A i \in 1 .. Len(popped) : popped[i] \in Nat
      /\ 1 \in 1 .. Len(recvQ)
  BY TailFacts, SeqFacts DEF TakeFromRecvQ, QueueOrder
<1>s. \A i \in 1 .. Len(recvQ') : i \in Nat /\ i + 1 \in 1 .. Len(recvQ) /\ recvQ'[i] = recvQ[i + 1]
  BY <1>1
<1>t. ASSUME NEW i \in 1 .. Len(recvQ'), NEW j \in 1 .. Len(recvQ'), i < j,
             recvQ'[i] # Nil, recvQ'[j] # Nil
      PROVE  recvQ'[i] < recvQ'[j]
  <2>1. /\ i + 1 \in 1 .. Len(recvQ) /\ recvQ'[i] = recvQ[i + 1]
        /\ j + 1 \in 1 .. Len(recvQ) /\ recvQ'[j] = recvQ[j + 1]
        /\ i + 1 < j + 1
    BY <1>s, <1>t
  <2>2. QED
    BY <1>t, <2>1 DEF QueueOrder
<1>2. CASE recvQ[1] = Nil
  <2>1. popped' = popped
    BY <1>1, <1>2 DEF TakeFromRecvQ
  <2>2. QueueOrder'
    <3>1. \A i, j \in 1 .. Len(recvQ') :
            i < j /\ recvQ'[i] # Nil /\ recvQ'[j] # Nil => recvQ'[i] < recvQ'[j]
      BY <1>t
    <3>2. \A i \in 1 .. Len(popped), j \in 1 .. Len(recvQ') : recvQ'[j] # Nil => popped[i] < recvQ'[j]
      BY <1>s DEF QueueOrder
    <3>3. QED
      BY <1>1, <2>1, <3>1, <3>2 DEF QueueOrder
  <2>3. \A k \in Nat : Got(k)' <=> Got(k)
    <3> TAKE k \in Nat
    <3>1. ASSUME k # Nil, NEW i \in 1 .. Len(recvQ), recvQ[i] = k
          PROVE  \E j \in 1 .. Len(recvQ') : recvQ'[j] = k
      <4>1. i - 1 \in 1 .. Len(recvQ') /\ recvQ'[i - 1] = recvQ[i]
        BY <1>1, <1>2, <3>1
      <4>2. QED
        BY <3>1, <4>1
    <3>2. ASSUME NEW i \in 1 .. Len(recvQ'), recvQ'[i] = k
          PROVE  \E j \in 1 .. Len(recvQ) : recvQ[j] = k
      <4>1. i + 1 \in 1 .. Len(recvQ) /\ recvQ'[i] = recvQ[i + 1]
        BY <1>1
      <4>2. QED
        BY <3>2, <4>1
    <3>3. QED
      BY <2>1, <3>1, <3>2 DEF Got
  <2>4. StreamOrder' /\ NoLoss'
    <3>1. \A k \in Nat : (InHand(k)' <=> InHand(k)) /\ (ToRead(k)' <=> ToRead(k))
      BY DEF InHand, ToRead
    <3>2. \A i \in 1 .. Len(popped') : broken' = {} => popped'[i] = i
      BY <2>1 DEF NoLoss
    <3>3. recvDn' \in Nat /\ (recvPc' = "push" => recvDn' \in 1 .. sent)
      BY DEF StreamOrder
    <3>4. QED
      BY <2>3, <3>1, <3>2, <3>3, StreamKeeps
  <2>5. QED
    BY <2>2, <2>3, <2>4
<1>3. CASE recvQ[1] # Nil
  <2>1. /\ popped' \in Seq(Nat) /\ Len(popped') = Len(popped) + 1
        /\ popped'[Len(popped) + 1] = recvQ[1]
        /\ \A i \in 1 .. Len(popped) : popped'[i] = popped[i]
    BY <1>1, <1>3, AppendFacts DEF TakeFromRecvQ
  <2>p. \A i \in 1 .. Len(popped') : i \in 1 .. Len(popped) \/ i = Len(popped) + 1
    BY <1>1, <2>1
  <2>2. QueueOrder'
    <3>1. ASSUME NEW i \in 1 .. Len(popped'), NEW j \in 1 .. Len(popped'), i < j
          PROVE  popped'[i] < popped'[j]
      <4>1. i \in 1 .. Len(popped)
        BY <1>1, <2>1, <3>1
      <4>2. CASE j \in 1 .. Len(popped)
        BY <2>1, <3>1, <4>1, <4>2 DEF QueueOrder
      <4>3. CASE j = Len(popped) + 1
        BY <1>1, <1>3, <2>1, <4>1, <4>3 DEF QueueOrder
      <4>4. QED
        BY <2>p, <4>2, <4>3
    <3>2. ASSUME NEW i \in 1 .. Len(popped') PROVE popped'[i] # Nil
      <4>1. CASE i \in 1 .. Len(popped)
        BY <2>1, <4>1 DEF QueueOrder
      <4>2. CASE i = Len(popped) + 1
        BY <1>3, <2>1, <4>2
      <4>3. QED
        BY <2>p, <4>1, <4>2
    <3>3. ASSUME NEW i \in 1 .. Len(popped'), NEW j \in 1 .. Len(recvQ'), recvQ'[j] # Nil
          PROVE  popped'[i] < recvQ'[j]
      <4>1. j + 1 \in 1 .. Len(recvQ) /\ recvQ'[j] = recvQ[j + 1] /\ 1 < j + 1
        BY <1>1
      <4>2. recvQ[1] < recvQ[j + 1]
        BY <1>1, <1>3, <3>3, <4>1 DEF QueueOrder
      <4>3. CASE i = Len(popped) + 1
        BY <2>1, <4>1, <4>2, <4>3
      <4>4. CASE i \in 1 .. Len(popped)
        BY <2>1, <3>3, <4>1, <4>4 DEF QueueOrder
      <4>5. QED
        BY <1>1, <2>1, <4>3, <4>4
    <3>4. \A i, j \in 1 .. Len(recvQ') :
            i < j /\ recvQ'[i] # Nil /\ recvQ'[j] # Nil => recvQ'[i] < recvQ'[j]
      BY <1>t
    <3>5. QED
      BY <1>1, <2>1, <3>1, <3>2, <3>3, <3>4 DEF QueueOrder
  <2>3. \A k \in Nat : Got(k)' <=> Got(k)
    <3> TAKE k \in Nat
    <3>1. ASSUME k # Nil, NEW i \in 1 .. Len(recvQ), recvQ[i] = k
          PROVE  \/ \E j \in 1 .. Len(recvQ') : recvQ'[j] = k
                 \/ \E j \in 1 .. Len(popped') : popped'[j] = k
      <4>1. CASE i = 1
        <5>1. Len(popped) + 1 \in 1 .. Len(popped') /\ popped'[Len(popped) + 1] = k
          BY <1>1, <2>1, <3>1, <4>1
        <5>2. QED
          BY <5>1
      <4>2. CASE i # 1
        <5>1. i - 1 \in 1 .. Len(recvQ') /\ recvQ'[i - 1] = recvQ[i]
          BY <1>1, <4>2
        <5>2. QED
          BY <3>1, <5>1
      <4>3. QED
        BY <4>1, <4>2
    <3>2. ASSUME NEW i \in 1 .. Len(recvQ'), recvQ'[i] = k
          PROVE  \E j \in 1 .. Len(recvQ) : recvQ[j] = k
      <4>1. i + 1 \in 1 .. Len(recvQ) /\ recvQ'[i] = recvQ[i + 1]
        BY <1>1
      <4>2. QED
        BY <3>2, <4>1
    <3>3. ASSUME NEW i \in 1 .. Len(popped'), popped'[i] = k
          PROVE  Got(k)
      <4>1. CASE i \in 1 .. Len(popped)
        BY <2>1, <3>3, <4>1 DEF Got
      <4>2. CASE i = Len(popped) + 1
        BY <1>1, <1>3, <2>1, <3>3, <4>2 DEF Got
      <4>3. QED
        BY <2>p, <4>1, <4>2
    <3>4. ASSUME NEW i \in 1 .. Len(popped), popped[i] = k
          PROVE  \E j \in 1 .. Len(popped') : popped'[j] = k
      <4>1. i \in 1 .. Len(popped') /\ popped'[i] = k
        BY <1>1, <2>1, <3>4
      <4>2. QED
        BY <4>1
    <3>5. QED
      BY <3>1, <3>2, <3>3, <3>4 DEF Got
  <2>4. broken' = {} => \A i \in 1 .. Len(popped') : popped'[i] = i
    <3> SUFFICES ASSUME broken = {} PROVE \A i \in 1 .. Len(popped') : popped'[i] = i
      OBVIOUS
    <3> DEFINE n == Len(popped) + 1
    <3>1. recvQ[1] >= n
      <4>1. CASE Len(popped) = 0
        BY <1>1, <1>3, <4>1 DEF Nil
      <4>2. CASE Len(popped) # 0
        <5>1. Len(popped) \in 1 .. Len(popped) /\ popped[Len(popped)] = Len(popped)
          BY <1>1, <4>2 DEF NoLoss
        <5>2. popped[Len(popped)] < recvQ[1]
          BY <1>1, <1>3, <5>1 DEF QueueOrder
        <5>3. QED
          BY <1>1, <5>1, <5>2
      <4>3. QED
        BY <4>1, <4>2
    <3>2. Got(recvQ[1]) /\ recvQ[1] <= sent
      BY <1>1, <1>3 DEF Got, StreamOrder
    <3>3. n \in 1 .. sent
      BY <1>1, <3>1, <3>2
    <3>4. ASSUME NEW i \in 1 .. Len(recvQ), recvQ[i] = n PROVE recvQ[1] = n
      <4>1. CASE i = 1
        BY <3>4, <4>1
      <4>2. CASE 1 < i
        <5>1. recvQ[1] < recvQ[i]
          BY <1>1, <1>3, <3>3, <3>4, <4>2 DEF QueueOrder, Nil
        <5>2. QED
          BY <1>1, <3>1, <3>4, <5>1
      <4>3. QED
        BY <1>1, <4>1, <4>2
    <3>5. ASSUME NEW i \in 1 .. Len(popped) PROVE popped[i] # n
      BY <1>1, <3>5 DEF NoLoss
    <3>6. ~InHand(n) /\ ~ToRead(n)
      BY <1>1, <3>1, <3>2, <3>3 DEF StreamOrder, InHand
    <3>7. recvQ[1] = n
      <4>1. Got(n)
        BY <3>3, <3>6 DEF NoLoss
      <4>2. QED
        BY <3>4, <3>5, <4>1 DEF Got
    <3>8. ASSUME NEW i \in 1 .. Len(popped') PROVE popped'[i] = i
      <4>1. CASE i \in 1 .. Len(popped)
        BY <2>1, <4>1 DEF NoLoss
      <4>2. CASE i = Len(popped) + 1
        BY <2>1, <3>7, <4>2
      <4>3. QED
        BY <2>p, <4>1, <4>2
    <3>9. QED
      BY <3>8
  <2>5. StreamOrder' /\ NoLoss'
    <3>1. \A k \in Nat : (InHand(k)' <=> InHand(k)) /\ (ToRead(k)' <=> ToRead(k))
      BY DEF InHand, ToRead
    <3>2. recvDn' \in Nat /\ (recvPc' = "push" => recvDn' \in 1 .. sent)
      BY DEF StreamOrder
    <3>3. QED
      BY <2>3, <2>4, <3>1, <3>2, StreamKeeps
  <2>6. QED
    BY <2>2, <2>3, <2>5
<1>4. QED
  BY <1>2, <1>3

\* The nil of destroy is no block.
LEMMA NilKeeps ==
  ASSUME QueueOrder, recvQ' = Append(recvQ, Nil), popped' = popped
  PROVE  QueueOrder' /\ \A k \in Nat : Got(k)' <=> Got(k)
<1>1. /\ Len(recvQ) \in Nat /\ recvQ' \in Seq(Nat) /\ Len(recvQ') = Len(recvQ) + 1
      /\ recvQ'[Len(recvQ) + 1] = Nil /\ \A i \in 1 .. Len(recvQ) : recvQ'[i] = recvQ[i]
  BY AppendFacts, SeqFacts DEF QueueOrder, Nil
<1>2. \A i \in 1 .. Len(recvQ') :
        recvQ'[i] # Nil => i \in 1 .. Len(recvQ) /\ recvQ'[i] = recvQ[i]
  BY <1>1
<1>3. QueueOrder'
  BY <1>1, <1>2 DEF QueueOrder
<1>4. \A k \in Nat : Got(k)' => Got(k)
  BY <1>2 DEF Got
<1>5. \A i \in 1 .. Len(recvQ) : i \in 1 .. Len(recvQ') /\ recvQ'[i] = recvQ[i]
  BY <1>1
<1>6. \A k \in Nat : Got(k) => Got(k)'
  BY <1>5 DEF Got
<1>7. QED
  BY <1>3, <1>4, <1>6

LEMMA PushKeeps ==
  ASSUME StreamInv, RecvPush
  PROVE  StreamInv' /\ \A k \in Nat : Got(k)' <=> Got(k) \/ k = recvDn
<1>1. /\ recvPc = "push" /\ recvPc' = "read" /\ recvQ' = Append(recvQ, recvDn)
      /\ UNCHANGED <<popped, recvDn, body, broken, sent, current>>
  BY DEF RecvPush, AfterSend, notRecv, serverVars
<1>2. recvDn \in 1 .. sent /\ recvDn \in Nat /\ recvDn # Nil /\ sent \in Nat
  BY <1>1 DEF StreamInv, StreamOrder, BodyOrder, BodyTypes, Nil
<1>3. /\ Len(recvQ) \in Nat /\ recvQ' \in Seq(Nat) /\ Len(recvQ') = Len(recvQ) + 1
      /\ recvQ'[Len(recvQ) + 1] = recvDn /\ \A i \in 1 .. Len(recvQ) : recvQ'[i] = recvQ[i]
      /\ \A i \in 1 .. Len(popped) : popped[i] \in Nat
      /\ \A i \in 1 .. Len(recvQ) : recvQ[i] \in Nat
  BY <1>1, <1>2, AppendFacts, SeqFacts DEF StreamInv, QueueOrder
<1>4. \A i \in 1 .. Len(recvQ') :
        \/ i \in 1 .. Len(recvQ) /\ recvQ'[i] = recvQ[i]
        \/ i = Len(recvQ) + 1 /\ recvQ'[i] = recvDn
  BY <1>3
<1>5. /\ \A i \in 1 .. Len(popped) : popped[i] < recvDn
      /\ \A i \in 1 .. Len(recvQ) : recvQ[i] # Nil => recvQ[i] < recvDn
  BY <1>1, <1>3 DEF StreamInv, StreamOrder, Got
<1>6. QueueOrder'
  <2>1. ASSUME NEW i \in 1 .. Len(recvQ'), NEW j \in 1 .. Len(recvQ'), i < j,
               recvQ'[i] # Nil, recvQ'[j] # Nil
        PROVE  recvQ'[i] < recvQ'[j]
    <3>1. i \in 1 .. Len(recvQ) /\ recvQ'[i] = recvQ[i]
      BY <1>3, <1>4, <2>1
    <3>2. CASE j \in 1 .. Len(recvQ) /\ recvQ'[j] = recvQ[j]
      BY <2>1, <3>1, <3>2 DEF StreamInv, QueueOrder
    <3>3. CASE recvQ'[j] = recvDn
      BY <1>5, <2>1, <3>1, <3>3
    <3>4. QED
      BY <1>4, <3>2, <3>3
  <2>2. \A i \in 1 .. Len(popped), j \in 1 .. Len(recvQ') : recvQ'[j] # Nil => popped[i] < recvQ'[j]
    BY <1>4, <1>5 DEF StreamInv, QueueOrder
  <2>3. QED
    BY <1>1, <1>3, <2>1, <2>2 DEF StreamInv, QueueOrder
<1>7. \A k \in Nat : Got(k)' <=> Got(k) \/ InHand(k)
  <2> TAKE k \in Nat
  <2>1. Got(k)' => Got(k) \/ InHand(k)
    BY <1>1, <1>4 DEF Got, InHand
  <2>2. Len(recvQ) + 1 \in 1 .. Len(recvQ')
        /\ \A i \in 1 .. Len(recvQ) : i \in 1 .. Len(recvQ')
    BY <1>3
  <2>3. InHand(k) => Got(k)'
    BY <1>2, <1>3, <2>2 DEF Got, InHand
  <2>4. Got(k) => Got(k)'
    BY <1>1, <1>3, <2>2 DEF Got
  <2>5. QED
    BY <2>1, <2>3, <2>4
<1>8. \A k \in Nat : ~InHand(k)' /\ (ToRead(k)' <=> ToRead(k))
  BY <1>1 DEF InHand, ToRead
<1>9. StreamOrder'
  BY <1>1, <1>2, <1>7, <1>8 DEF StreamInv, StreamOrder, InHand
<1>10. NoLoss'
  <2> SUFFICES ASSUME broken = {}
               PROVE  /\ \A i \in 1 .. Len(popped) : popped[i] = i
                      /\ \A k \in 1 .. sent : Got(k)' \/ InHand(k)' \/ ToRead(k)'
    BY <1>1 DEF NoLoss
  <2>1. \A k \in 1 .. sent : k \in Nat
    BY <1>2
  <2>2. QED
    BY <1>7, <1>8, <2>1 DEF StreamInv, NoLoss
<1>11. StreamInv'
  BY <1>1, <1>6, <1>9, <1>10 DEF StreamInv, BodyOrder, BodyTypes
<1>12. \A k \in Nat : Got(k)' <=> Got(k) \/ k = recvDn
  BY <1>1, <1>7 DEF InHand
<1>13. QED
  BY <1>11, <1>12

LEMMA ReadKeeps ==
  ASSUME ResponseInv, PositionInv, StreamInv, RecvRead
  PROVE  StreamInv'
<1> DEFINE b == body[res]
<1>1. /\ recvPc = "read" /\ recvPc' = "push" /\ b # <<>> /\ recvDn' = Head(b)
      /\ body' = [body EXCEPT ![res] = Tail(@)]
      /\ UNCHANGED <<popped, recvQ, broken, sent, current>>
  BY DEF RecvRead, notRecv, serverVars
<1>2. res \in 1 .. MaxSeq /\ MaxSeq \in Nat /\ sent \in Nat
  BY <1>1, HttpClientAssumption
     DEF ResponseInv, PositionInv, HttpClientAssumption, StreamInv, BodyOrder, BodyTypes
<1>3. /\ body \in [1 .. MaxSeq -> Seq(Nat)] /\ body' \in [1 .. MaxSeq -> Seq(Nat)]
      /\ b \in Seq(Nat) /\ body'[res] = Tail(b)
      /\ \A s \in 1 .. MaxSeq : s # res => body'[s] = body[s]
  <2>1. b \in Seq(Nat) /\ body \in [1 .. MaxSeq -> Seq(Nat)]
    BY <1>2 DEF StreamInv, BodyOrder, BodyTypes
  <2>2. Tail(b) \in Seq(Nat)
    BY <1>1, <2>1, TailFacts
  <2>3. QED
    BY <1>1, <1>2, <2>1, <2>2
<1>4. /\ Len(b) \in Nat \ {0} /\ recvDn' = b[1] /\ 1 \in 1 .. Len(b)
      /\ Len(body'[res]) = Len(b) - 1
      /\ \A i \in 1 .. Len(b) - 1 : body'[res][i] = b[i + 1]
  BY <1>1, <1>3, TailFacts
<1>5. \A s \in 1 .. MaxSeq : \A i \in 1 .. Len(body'[s]) :
        \/ s # res /\ i \in 1 .. Len(body[s]) /\ body'[s][i] = body[s][i]
        \/ s = res /\ i \in Nat /\ i + 1 \in 1 .. Len(b) /\ body'[s][i] = b[i + 1]
  <2> TAKE s \in 1 .. MaxSeq
  <2> TAKE i \in 1 .. Len(body'[s])
  <2>1. CASE s = res
    <3>1. i \in 1 .. Len(b) - 1
      BY <1>4, <2>1
    <3>2. i \in Nat /\ i + 1 \in 1 .. Len(b) /\ i \in 1 .. Len(b) - 1
      BY ONLY <1>4, <3>1
    <3>3. body'[s][i] = b[i + 1]
      BY <1>4, <2>1, <3>2
    <3>4. QED
      BY <2>1, <3>2, <3>3
  <2>2. CASE s # res
    BY <1>3, <2>2
  <2>3. QED
    BY <2>1, <2>2
<1>6. \A s \in 1 .. MaxSeq : \A i \in 1 .. Len(body[s]) : body[s][i] \in 1 .. sent
  BY DEF StreamInv, BodyOrder
<1>7. \A s \in 1 .. MaxSeq : s < res => body[s] = <<>>
  BY <1>1 DEF PositionInv, IsRead
\* Everything that is still to be read comes after the block that was read.
<1>8. \A s \in 1 .. MaxSeq : \A i \in 1 .. Len(body'[s]) : recvDn' < body'[s][i]
  <2> SUFFICES ASSUME NEW s \in 1 .. MaxSeq, NEW i \in 1 .. Len(body'[s])
               PROVE  recvDn' < body'[s][i]
    OBVIOUS
  <2>1. CASE s = res
    <3>1. i \in Nat /\ i + 1 \in 1 .. Len(b) /\ body'[s][i] = b[i + 1] /\ i \in 1 .. Len(body'[s])
      BY <1>5, <2>1
    <3>2. 1 < i + 1
      BY ONLY <3>1
    <3>3. b[1] < b[i + 1]
      BY <1>2, <1>4, <3>1, <3>2 DEF StreamInv, BodyOrder
    <3>4. QED
      BY <1>4, <3>1, <3>3
  <2>2. CASE s # res
    <3>1. i \in 1 .. Len(body[s]) /\ body'[s][i] = body[s][i]
      BY <1>5, <2>2
    <3>2. ~(s < res)
      <4>1. ASSUME s < res PROVE FALSE
        BY <1>7, <3>1, <4>1
      <4>2. QED
        BY <4>1
    <3>3. res < s
      BY <1>2, <2>2, <3>2
    <3>4. QED
      BY <1>2, <1>4, <3>1, <3>3 DEF StreamInv, BodyOrder
  <2>3. QED
    BY <2>1, <2>2
<1>9. BodyOrder'
  <2>1. \A s \in 1 .. MaxSeq : \A i \in 1 .. Len(body'[s]) : body'[s][i] \in 1 .. sent
    BY <1>2, <1>5, <1>6
  <2>2. ASSUME NEW s \in 1 .. MaxSeq, NEW i \in 1 .. Len(body'[s]),
               NEW j \in 1 .. Len(body'[s]), i < j
        PROVE  body'[s][i] < body'[s][j]
    <3>1. CASE s = res
      <4>1. i + 1 \in 1 .. Len(b) /\ j + 1 \in 1 .. Len(b) /\ i + 1 < j + 1
            /\ body'[s][i] = b[i + 1] /\ body'[s][j] = b[j + 1]
        BY <1>5, <2>2, <3>1
      <4>2. QED
        BY <1>2, <4>1 DEF StreamInv, BodyOrder
    <3>2. CASE s # res
      BY <1>3, <2>2, <3>2 DEF StreamInv, BodyOrder
    <3>3. QED
      BY <3>1, <3>2
  <2>3. ASSUME NEW s \in 1 .. MaxSeq, NEW t \in 1 .. MaxSeq, s < t,
               NEW i \in 1 .. Len(body'[s]), NEW j \in 1 .. Len(body'[t])
        PROVE  body'[s][i] < body'[t][j]
    <3>1. PICK i1 \in 1 .. Len(body[s]) : body'[s][i] = body[s][i1]
      BY <1>5
    <3>2. PICK j1 \in 1 .. Len(body[t]) : body'[t][j] = body[t][j1]
      BY <1>5
    <3>3. QED
      BY <2>3, <3>1, <3>2 DEF StreamInv, BodyOrder
  <2>4. ASSUME NEW s \in 1 .. MaxSeq, s > current PROVE body'[s] = <<>>
    <3>1. body[s] = <<>>
      BY <2>4 DEF StreamInv, BodyOrder
    <3>2. s # res
      BY <1>1, <3>1
    <3>3. QED
      BY <1>3, <3>1, <3>2
  <2>5. QED
    BY <1>1, <1>2, <1>3, <2>1, <2>2, <2>3, <2>4 DEF BodyOrder, BodyTypes
<1>10. \A k \in Nat : /\ Got(k)' <=> Got(k)
                      /\ ToRead(k)' => ToRead(k) /\ recvDn' < k
                      /\ InHand(k)' <=> k = recvDn'
                      /\ ~InHand(k)
  <2> TAKE k \in Nat
  <2>1. (Got(k)' <=> Got(k)) /\ (InHand(k)' <=> k = recvDn') /\ ~InHand(k)
    BY <1>1 DEF Got, InHand
  <2>2. ASSUME ToRead(k)' PROVE ToRead(k) /\ recvDn' < k
    <3>1. PICK s \in 1 .. MaxSeq : \E i \in 1 .. Len(body'[s]) : body'[s][i] = k
      BY <2>2 DEF ToRead
    <3>2. PICK i \in 1 .. Len(body'[s]) : body'[s][i] = k
      BY <3>1
    <3>3. recvDn' < k
      BY <1>8, <3>2
    <3>4. \E j \in 1 .. Len(body[s]) : body[s][j] = k
      BY <1>5, <3>2
    <3>5. QED
      BY <3>3, <3>4 DEF ToRead
  <2>3. QED
    BY <2>1, <2>2
<1>11. ToRead(recvDn') /\ recvDn' \in 1 .. sent /\ recvDn' \in Nat
  BY <1>2, <1>4, <1>6 DEF ToRead
<1>12. StreamOrder'
  <2>1. \A k \in Nat : Got(k)' => k <= sent' /\ k < recvDn'
    BY <1>1, <1>10, <1>11 DEF StreamInv, StreamOrder
  <2>2. \A j, k \in Nat : (Got(j)' \/ InHand(j)') /\ ToRead(k)' => j < k
    BY <1>10 DEF StreamInv, StreamOrder
  <2>3. QED
    BY <1>1, <1>11, <2>1, <2>2 DEF StreamOrder
<1>13. NoLoss'
  <2> SUFFICES ASSUME broken = {}
               PROVE  /\ \A i \in 1 .. Len(popped) : popped[i] = i
                      /\ \A k \in 1 .. sent : Got(k)' \/ InHand(k)' \/ ToRead(k)'
    BY <1>1 DEF NoLoss
  <2>1. ASSUME NEW k \in Nat, ToRead(k) PROVE ToRead(k)' \/ k = recvDn'
    <3>1. PICK s \in 1 .. MaxSeq : \E i \in 1 .. Len(body[s]) : body[s][i] = k
      BY <2>1 DEF ToRead
    <3>2. PICK i \in 1 .. Len(body[s]) : body[s][i] = k
      BY <3>1
    <3>3. CASE s # res
      BY <1>3, <3>2, <3>3 DEF ToRead
    <3>4. CASE s = res /\ i = 1
      BY <1>4, <3>2, <3>4
    <3>5. CASE s = res /\ i # 1
      <4>1. i - 1 \in 1 .. Len(body'[s]) /\ body'[s][i - 1] = body[s][i]
        BY <1>4, <3>5
      <4>2. QED
        BY <3>2, <4>1 DEF ToRead
    <3>6. QED
      BY <3>3, <3>4, <3>5
  <2>2. \A k \in 1 .. sent : k \in Nat
    BY <1>2
  <2>3. QED
    BY <1>10, <2>1, <2>2 DEF StreamInv, NoLoss
<1>14. QED
  BY <1>1, <1>9, <1>12, <1>13 DEF StreamInv, QueueOrder

LEMMA EndKeeps ==
  ASSUME ResponseInv, PositionInv, StreamInv, RecvEnd
  PROVE  StreamInv'
<1>1. /\ recvPc = "read" /\ recvPc' = "look"
      /\ (body[res] = <<>> /\ res < current) \/ res \in broken
      /\ body' = [body EXCEPT ![res] = <<>>]
      /\ UNCHANGED <<popped, recvQ, recvDn, broken, sent, current>>
  BY DEF RecvEnd, notRecv, serverVars
<1>2. /\ res \in 1 .. MaxSeq /\ sent \in Nat /\ recvDn \in Nat
      /\ body \in [1 .. MaxSeq -> Seq(Nat)]
  BY <1>1, HttpClientAssumption DEF ResponseInv, PositionInv, HttpClientAssumption, StreamInv,
     StreamOrder, BodyOrder, BodyTypes
<1>3. /\ body' \in [1 .. MaxSeq -> Seq(Nat)] /\ Len(body'[res]) = 0 /\ body'[res] = <<>>
      /\ \A s \in 1 .. MaxSeq : s # res => body'[s] = body[s]
  BY <1>1, <1>2
<1>4. \A s \in 1 .. MaxSeq : \A i \in 1 .. Len(body'[s]) : s # res /\ body'[s] = body[s]
  BY <1>3
<1>5. BodyOrder'
  <2>1. \A s \in 1 .. MaxSeq : s > current => body'[s] = <<>>
    BY <1>3 DEF StreamInv, BodyOrder
  <2>2. \A s \in 1 .. MaxSeq : \A i \in 1 .. Len(body'[s]) : body'[s][i] \in 1 .. sent
    BY <1>4 DEF StreamInv, BodyOrder
  <2>3. \A s \in 1 .. MaxSeq : \A i, j \in 1 .. Len(body'[s]) : i < j => body'[s][i] < body'[s][j]
    BY <1>4 DEF StreamInv, BodyOrder
  <2>4. \A s, t \in 1 .. MaxSeq : s < t =>
          \A i \in 1 .. Len(body'[s]), j \in 1 .. Len(body'[t]) : body'[s][i] < body'[t][j]
    BY <1>4 DEF StreamInv, BodyOrder
  <2>5. QED
    BY <1>1, <1>2, <1>3, <2>1, <2>2, <2>3, <2>4 DEF BodyOrder, BodyTypes
<1>6. \A k \in Nat : (Got(k)' <=> Got(k)) /\ (InHand(k)' <=> InHand(k))
  BY <1>1 DEF Got, InHand
<1>7. \A k \in Nat : ToRead(k)' => ToRead(k)
  BY <1>4 DEF ToRead
<1>8. ASSUME broken' = {} PROVE body' = body /\ \A k \in Nat : ToRead(k)' <=> ToRead(k)
  <2>1. body' = body
    BY <1>1, <1>2, <1>8
  <2>2. QED
    BY <2>1 DEF ToRead
<1>9. \A i \in 1 .. Len(popped') : broken' = {} => popped'[i] = i
  BY <1>1 DEF StreamInv, NoLoss
<1>10. StreamOrder' /\ NoLoss'
  BY <1>1, <1>2, <1>6, <1>7, <1>8, <1>9, StreamKeeps DEF StreamInv
<1>11. QED
  BY <1>1, <1>5, <1>10 DEF StreamInv, QueueOrder

\* The server appends to the last response it has begun.
LEMMA WriteKeeps ==
  ASSUME ResponseInv, PositionInv, StreamInv, ServerWrite
  PROVE  StreamInv'
<1>1. /\ current <= seq /\ sent' = sent + 1
      /\ body' = IF current \in broken THEN body
                 ELSE [body EXCEPT ![current] = Append(@, sent + 1)]
      /\ UNCHANGED <<popped, recvQ, recvPc, recvDn, broken, current>>
  BY DEF ServerWrite, notServer, recvVars
<1>2. /\ current \in 1 .. MaxSeq /\ MaxSeq \in Nat /\ sent \in Nat /\ recvDn \in Nat
      /\ body \in [1 .. MaxSeq -> Seq(Nat)]
  BY <1>1, HttpClientAssumption DEF ResponseInv, PositionInv, HttpClientAssumption, StreamInv,
     StreamOrder, BodyOrder, BodyTypes
<1>3. /\ QueueOrder' /\ sent' \in Nat
      /\ \A k \in Nat : (Got(k)' <=> Got(k)) /\ (InHand(k)' <=> InHand(k))
  BY <1>1, <1>2 DEF StreamInv, QueueOrder, Got, InHand
<1>4. \A k \in Nat : Got(k) \/ InHand(k) \/ ToRead(k) => k <= sent
  BY <1>2 DEF StreamInv, StreamOrder, BodyOrder, ToRead, InHand
<1>5. CASE current \in broken
  <2>1. body' = body /\ broken' # {}
    BY <1>1, <1>5
  <2>2. BodyOrder'
    BY <1>1, <1>2, <2>1 DEF StreamInv, BodyOrder, BodyTypes
  <2>3. StreamOrder'
    BY <1>1, <1>2, <1>3, <2>1 DEF StreamInv, StreamOrder, ToRead
  <2>4. QED
    BY <1>3, <2>1, <2>2, <2>3 DEF StreamInv, NoLoss
<1>6. CASE current \notin broken
  <2> DEFINE n == Len(body[current]) + 1
  <2>1. /\ n \in Nat \ {0} /\ body[current] \in Seq(Nat)
        /\ body'[current] = Append(body[current], sent + 1)
        /\ body'[current] \in Seq(Nat)
        /\ Len(body'[current]) = n /\ body'[current][n] = sent + 1
        /\ \A i \in 1 .. n - 1 : body'[current][i] = body[current][i]
        /\ \A s \in 1 .. MaxSeq : s # current => body'[s] = body[s]
    <3>1. body[current] \in Seq(Nat) /\ Len(body[current]) \in Nat
      BY <1>2, SeqFacts
    <3>2. body'[current] = Append(body[current], sent + 1)
          /\ \A s \in 1 .. MaxSeq : s # current => body'[s] = body[s]
      BY <1>1, <1>2, <1>6
    <3>3. QED
      BY <1>2, <3>1, <3>2, AppendFacts
  <2>2. body' \in [1 .. MaxSeq -> Seq(Nat)]
    <3>1. Append(body[current], sent + 1) \in Seq(Nat)
      BY <2>1
    <3>2. QED
      BY <1>1, <1>2, <3>1
  <2>3. \A s \in 1 .. MaxSeq : \A i \in 1 .. Len(body'[s]) :
          \/ i \in 1 .. Len(body[s]) /\ body'[s][i] = body[s][i]
          \/ s = current /\ i = n /\ body'[s][i] = sent + 1
    <3> TAKE s \in 1 .. MaxSeq
    <3> TAKE i \in 1 .. Len(body'[s])
    <3>1. CASE s # current
      BY <2>1, <3>1
    <3>2. CASE s = current /\ i = n
      BY <2>1, <3>2
    <3>3. CASE s = current /\ i # n
      <4>1. i \in 1 .. n - 1 /\ n - 1 = Len(body[current])
        BY <2>1, <3>3
      <4>2. i \in 1 .. Len(body[current]) /\ body'[current][i] = body[current][i]
        BY <2>1, <4>1
      <4>3. QED
        BY <3>3, <4>2
    <3>4. QED
      BY <3>1, <3>2, <3>3
  <2>4. \A s \in 1 .. MaxSeq : \A i \in 1 .. Len(body[s]) :
          i \in 1 .. Len(body'[s]) /\ body'[s][i] = body[s][i]
    <3> TAKE s \in 1 .. MaxSeq
    <3> TAKE i \in 1 .. Len(body[s])
    <3>1. CASE s # current
      BY <2>1, <3>1
    <3>2. CASE s = current
      <4>1. i \in 1 .. n - 1 /\ i \in 1 .. n
        BY <2>1, <3>2
      <4>2. QED
        BY <2>1, <3>2, <4>1
    <3>3. QED
      BY <3>1, <3>2
  <2>5. n \in 1 .. Len(body'[current])
    BY <2>1
  <2>6. \A s \in 1 .. MaxSeq : \A i \in 1 .. Len(body[s]) : body[s][i] \in 1 .. sent
    BY DEF StreamInv, BodyOrder
  <2>7. BodyOrder'
    <3>1. \A s \in 1 .. MaxSeq : \A i \in 1 .. Len(body'[s]) : body'[s][i] \in 1 .. sent'
      BY <1>1, <1>2, <2>3, <2>6
    <3>2. ASSUME NEW s \in 1 .. MaxSeq, NEW i \in 1 .. Len(body'[s]),
                 NEW j \in 1 .. Len(body'[s]), i < j
          PROVE  body'[s][i] < body'[s][j]
      <4>1. i \in 1 .. Len(body[s]) /\ body'[s][i] = body[s][i]
        <5>1. ~(s = current /\ i = n)
          BY <2>1, <3>2
        <5>2. QED
          BY <2>3, <5>1
      <4>2. CASE j \in 1 .. Len(body[s]) /\ body'[s][j] = body[s][j]
        BY <3>2, <4>1, <4>2 DEF StreamInv, BodyOrder
      <4>3. CASE body'[s][j] = sent + 1
        BY <1>2, <2>6, <4>1, <4>3
      <4>4. QED
        BY <2>3, <4>2, <4>3
    <3>3. ASSUME NEW s \in 1 .. MaxSeq, NEW t \in 1 .. MaxSeq, s < t,
                 NEW i \in 1 .. Len(body'[s]), NEW j \in 1 .. Len(body'[t])
          PROVE  body'[s][i] < body'[t][j]
      <4>1. t <= current
        <5>1. ASSUME t > current PROVE FALSE
          <6>1. body[t] = <<>> /\ t # current
            BY <1>2, <5>1 DEF StreamInv, BodyOrder
          <6>2. body'[t] = <<>>
            BY <2>1, <6>1
          <6>3. QED
            BY <3>3, <6>2
        <5>2. QED
          BY <1>2, <5>1
      <4>2. s # current
        BY <1>2, <3>3, <4>1
      <4>3. i \in 1 .. Len(body[s]) /\ body'[s][i] = body[s][i]
        BY <2>1, <4>2
      <4>4. CASE j \in 1 .. Len(body[t]) /\ body'[t][j] = body[t][j]
        BY <3>3, <4>3, <4>4 DEF StreamInv, BodyOrder
      <4>5. CASE body'[t][j] = sent + 1
        BY <1>2, <2>6, <4>3, <4>5
      <4>6. QED
        BY <2>3, <4>4, <4>5
    <3>4. ASSUME NEW s \in 1 .. MaxSeq, s > current PROVE body'[s] = <<>>
      <4>1. s # current /\ body[s] = <<>>
        BY <1>2, <3>4 DEF StreamInv, BodyOrder
      <4>2. QED
        BY <2>1, <4>1
    <3>5. QED
      BY <1>1, <1>3, <2>2, <3>1, <3>2, <3>3, <3>4 DEF BodyOrder, BodyTypes
  <2>8. \A k \in Nat : ToRead(k)' <=> ToRead(k) \/ k = sent + 1
    <3> TAKE k \in Nat
    <3>1. ToRead(k)' => ToRead(k) \/ k = sent + 1
      BY <2>3 DEF ToRead
    <3>2. ToRead(k) => ToRead(k)'
      <4> SUFFICES ASSUME ToRead(k) PROVE ToRead(k)'
        OBVIOUS
      <4>1. PICK s \in 1 .. MaxSeq : \E i \in 1 .. Len(body[s]) : body[s][i] = k
        BY DEF ToRead
      <4>2. \E i \in 1 .. Len(body'[s]) : body'[s][i] = k
        BY <2>4, <4>1
      <4>3. QED
        BY <4>2 DEF ToRead
    <3>3. k = sent + 1 => ToRead(k)'
      BY <1>2, <2>1, <2>5 DEF ToRead
    <3>4. QED
      BY <3>1, <3>2, <3>3
  <2>9. StreamOrder'
    <3>1. \A j, k \in Nat : (Got(j)' \/ InHand(j)') /\ ToRead(k)' => j < k
      BY <1>2, <1>3, <1>4, <2>8 DEF StreamInv, StreamOrder
    <3>2. \A k \in Nat : Got(k)' => k <= sent' /\ (recvPc' = "push" => k < recvDn')
      BY <1>1, <1>2, <1>3 DEF StreamInv, StreamOrder
    <3>3. recvDn' \in Nat /\ (recvPc' = "push" => recvDn' \in 1 .. sent')
      BY <1>1, <1>2 DEF StreamInv, StreamOrder
    <3>4. QED
      BY <3>1, <3>2, <3>3 DEF StreamOrder
  <2>10. NoLoss'
    <3> SUFFICES ASSUME broken = {}
                 PROVE  /\ \A i \in 1 .. Len(popped) : popped[i] = i
                        /\ \A k \in 1 .. sent' : Got(k)' \/ InHand(k)' \/ ToRead(k)'
      BY <1>1 DEF NoLoss
    <3>1. \A k \in 1 .. sent' : k \in Nat /\ (k = sent + 1 \/ k \in 1 .. sent)
      BY <1>1, <1>2
    <3>2. QED
      BY <1>3, <2>8, <3>1 DEF StreamInv, NoLoss
  <2>11. QED
    BY <1>3, <2>7, <2>9, <2>10 DEF StreamInv
<1>7. QED
  BY <1>5, <1>6

LEMMA StreamStep ==
  ASSUME ResponseInv, StartInv, PositionInv, StreamInv, [Next]_vars
  PROVE  StreamInv'
<1>1. sent \in Nat /\ recvDn \in Nat /\ QueueOrder /\ StreamOrder /\ NoLoss /\ BodyOrder
  BY DEF StreamInv, StreamOrder, BodyOrder, BodyTypes
<1>2. ASSUME UNCHANGED <<popped, recvDn, body, sent>>,
             QueueOrder', \A k \in Nat : Got(k)' <=> Got(k),
             current' \in {current, current + 1}, broken \subseteq broken',
             recvPc' = recvPc \/ (recvPc # "push" /\ recvPc' # "push")
      PROVE  StreamInv'
  <2>1. \A k \in Nat : (InHand(k)' <=> InHand(k)) /\ (ToRead(k)' <=> ToRead(k))
    BY <1>2 DEF InHand, ToRead
  <2>2. BodyOrder'
    BY <1>1, <1>2 DEF BodyOrder, BodyTypes, PositionInv
  <2>3. /\ recvPc' = "push" => recvDn' \in 1 .. sent
        /\ \A i \in 1 .. Len(popped') : broken' = {} => popped'[i] = i
    BY <1>1, <1>2 DEF StreamOrder, NoLoss
  <2>4. StreamOrder' /\ NoLoss'
    BY <1>1, <1>2, <2>1, <2>3, StreamKeeps
  <2>5. QED
    BY <1>2, <2>2, <2>4 DEF StreamInv
<1>3. ASSUME UNCHANGED <<popped, recvQ>>
      PROVE  QueueOrder' /\ \A k \in Nat : Got(k)' <=> Got(k)
  BY <1>1, <1>3 DEF QueueOrder, Got
<1>4. CASE ConnectFail
  <2>1. recvQ = <<>> /\ recvQ' = <<Nil>> /\ popped' = popped
    BY <1>4 DEF ConnectFail, StartInv
  <2>2. recvQ' = Append(recvQ, Nil)
    BY <2>1
  <2>3. QED
    BY <1>1, <1>2, <1>4, <2>1, <2>2, NilKeeps DEF ConnectFail, recvVars, serverVars
<1>5. CASE DestroyWake
  <2>1. recvQ' = Append(recvQ, Nil) /\ popped' = popped
    BY <1>5 DEF DestroyWake, AfterSend, notDestroy
  <2>2. QED
    BY <1>1, <1>2, <1>5, <2>1, NilKeeps DEF DestroyWake, notDestroy, recvVars, serverVars
<1>6. ASSUME TakeFromRecvQ, UNCHANGED <<recvVars, body, broken, serverVars>>
      PROVE  StreamInv'
  <2>1. UNCHANGED <<recvPc, recvDn, body, broken, sent, current>>
    BY <1>6 DEF recvVars, serverVars
  <2>2. BodyOrder'
    BY <1>1, <2>1 DEF BodyOrder, BodyTypes
  <2>3. QED
    BY <1>1, <1>6, <2>1, <2>2, TakeKeeps DEF StreamInv
<1>7. CASE PopCall \/ PopReceive
  <2>1. CASE TakeFromRecvQ
    BY <1>6, <1>7, <2>1 DEF PopCall, PopReceive, notPop
  <2>2. CASE UNCHANGED <<recvQ, popped>>
    BY <1>2, <1>3, <1>7, <2>2 DEF PopCall, PopReceive, notPop, recvVars, serverVars
  <2>3. QED
    BY <1>7, <2>1, <2>2 DEF PopCall, PopReceive
<1>8. CASE Connect \/ ProcessLoop
  BY <1>2, <1>3, <1>8 DEF Connect, ProcessLoop, ProcStart, ProcCheck, ProcSelect, Do,
     DoAnswered, DoFails, ProcPush, notProc, recvVars, serverVars, StartInv
<1>9. CASE RecvNext \/ RecvLook \/ RecvPoll
  BY <1>2, <1>3, <1>9 DEF RecvNext, RecvLook, RecvPoll, notRecv, serverVars
<1>10. CASE RecvRead \/ RecvPush \/ RecvEnd
  BY <1>10, ReadKeeps, PushKeeps, EndKeeps
<1>11. CASE ServerFinish \/ Break
  BY <1>2, <1>3, <1>11 DEF ServerFinish, Break, notServer, recvVars, serverVars
<1>12. CASE ServerWrite
  BY <1>12, WriteKeeps
<1>13. CASE PopCheck \/ DestroyClose \/ DestroyBegin
  BY <1>2, <1>3, <1>13 DEF PopCheck, notPop, DestroyClose, DestroyBegin, notDestroy, recvVars,
     serverVars
<1>14. CASE pushed < MaxPush /\ PushTCPRequest(pushed + 1)
  BY <1>2, <1>3, <1>14 DEF PushTCPRequest, recvVars, serverVars
<1>15. CASE UNCHANGED vars
  BY <1>2, <1>3, <1>15 DEF vars, recvVars, serverVars
<1>16. QED
  BY <1>4, <1>5, <1>7, <1>8, <1>9, <1>10, <1>11, <1>12, <1>13, <1>14, <1>15
     DEF Next, RecvLoop, PopBody, DestroyBody, Server, Owner

\* popTCPResponse hands out the blocks in the order in which the server wrote
\* them, whatever responses break, and leaves none out if none breaks, for every
\* capacity of the channels and every number of responses that wait to be read
\* (httpClient.processLoop, recvLoop, popTCPResponse, destroy).
THEOREM ResponsesInOrderCorrect == Spec => []ResponsesInOrder
<1> DEFINE IInv == RequestInv /\ ResponseInv /\ StartInv /\ PositionInv /\ StreamInv
<1>1. Init => IInv
  BY RequestInit, ResponseInit, StartInit, PositionInit, StreamInit
<1>2. ASSUME IInv, [Next]_vars PROVE IInv'
  <2>1. BodyTypes
    BY <1>2 DEF StreamInv, BodyOrder
  <2>2. QED
    BY <1>2, <2>1, RequestStep, ResponseStep, StartStep, PositionStep, StreamStep
<1>3. IInv => ResponsesInOrder
  <2> SUFFICES ASSUME QueueOrder, NoLoss PROVE ResponsesInOrder
    BY DEF StreamInv
  <2>1. DOMAIN popped = 1 .. Len(popped)
    BY SeqFacts DEF QueueOrder
  <2>2. QED
    BY <2>1 DEF ResponsesInOrder, Consecutive, QueueOrder, NoLoss
<1>4. QED
  BY <1>1, <1>2, <1>3, PTL DEF Spec

-----------------------------------------------------------------------------
(* The number of polls                                                     *)

OpenPolls == polls \intersect Unread
Asked == IF sendNop THEN 1 ELSE 0

\* recvLoop asks for a poll only when at most one response waits, that of the
\* last request, so there is room for one more when it does.
PollInv ==
    /\ polls \subseteq 1 .. seq
    /\ procPc \in {"connect", "failed", "start"} => polls = {}
    /\ Cardinality(OpenPolls) + Asked <= IF recvPc = "poll" THEN 2 ELSE 3

LEMMA PollInit == Init => PollInv
<1> SUFFICES ASSUME Init PROVE PollInv
  OBVIOUS
<1>1. polls = {} /\ sendNop = FALSE /\ OpenPolls = {} /\ recvPc = "none"
  BY DEF Init, OpenPolls
<1>2. QED
  BY <1>1, FS_EmptySet DEF PollInv, Asked

LEMMA OpenPollsFinite ==
  ASSUME ResponseInv
  PROVE  IsFiniteSet(OpenPolls) /\ Cardinality(OpenPolls) \in Nat
<1>1. IsFiniteSet(1 .. seq)
  BY FS_Interval DEF ResponseInv
<1>2. OpenPolls \in SUBSET (1 .. seq)
  BY DEF OpenPolls, Unread
<1>3. QED
  BY <1>1, <1>2, FS_Subset, FS_CardinalityType

LEMMA FewerPolls ==
  ASSUME ResponseInv, PollInv, OpenPolls' \subseteq OpenPolls, sendNop' => sendNop,
         recvPc' = "poll" => recvPc = "poll"
  PROVE  Cardinality(OpenPolls') + Asked' <= IF recvPc' = "poll" THEN 2 ELSE 3
<1>1. IsFiniteSet(OpenPolls) /\ Cardinality(OpenPolls) \in Nat
  BY OpenPollsFinite
<1>2. Cardinality(OpenPolls') <= Cardinality(OpenPolls) /\ Cardinality(OpenPolls') \in Nat
  BY <1>1, FS_Subset, FS_CardinalityType
<1>3. QED
  BY <1>1, <1>2 DEF PollInv, Asked

\* Which responses are unread, element by element.
LEMMA UnreadElements ==
  ASSUME ResponseInv
  PROVE  \A s : s \in Unread <=>
            /\ s \in 1 .. seq
            /\ \/ \E i \in 1 .. Len(respQ) : respQ[i] = s
               \/ s = seq /\ procPc \in {"do", "push"}
               \/ s = res /\ recvPc \in {"read", "push"}
<1>1. DOMAIN respQ = 1 .. Len(respQ)
  BY SeqFacts DEF ResponseInv
<1>2. QED
  BY <1>1 DEF Unread, Range

LEMMA PollStep ==
  ASSUME ResponseInv, ResponseInv', StartInv, PollInv, [Next]_vars
  PROVE  PollInv'
<1>1. /\ seq \in Nat /\ respQ \in Seq(Nat) /\ Len(respQ) \in Nat
      /\ IsFiniteSet(OpenPolls) /\ Cardinality(OpenPolls) \in Nat
      /\ \A i \in 1 .. Len(respQ) : respQ[i] \in Nat
  BY OpenPollsFinite, SeqFacts DEF ResponseInv
<1>2. ASSUME UNCHANGED <<seq, polls>>, Unread' \subseteq Unread, sendNop' => sendNop,
             procPc' \in {"connect", "failed", "start"} => procPc \in {"connect", "failed", "start"},
             recvPc' = "poll" => recvPc = "poll"
      PROVE  PollInv'
  <2>1. OpenPolls' \subseteq OpenPolls
    BY <1>2 DEF OpenPolls
  <2>2. QED
    BY <1>2, <2>1, FewerPolls DEF PollInv
<1>3. ASSUME UNCHANGED <<seq, respQ, procPc, recvPc, res>>
      PROVE  Unread' = Unread
  BY <1>3 DEF Unread
<1>4. CASE ProcStart
  <2>1. /\ polls = {} /\ UNCHANGED <<seq, polls>> /\ procPc' = "check" /\ OpenPolls' = {}
    BY <1>4 DEF ProcStart, requestVars, PollInv, OpenPolls
  <2>2. QED
    BY <2>1, FS_EmptySet DEF PollInv, Asked
<1>5. CASE ProcSelect
  <2>1. /\ procPc = "select" /\ UNCHANGED <<respQ, recvPc, res>>
    BY <1>5 DEF ProcSelect, notProc, recvVars
  <2>2. CASE procPc' = "check" /\ UNCHANGED <<seq, polls, sendNop>>
    <3>1. Unread' \subseteq Unread
      BY <2>1, <2>2 DEF Unread
    <3>2. QED
      BY <1>2, <2>1, <2>2, <3>1
  <2>3. CASE seq' = seq + 1 /\ procPc' = "do" /\ UNCHANGED <<sendNop, polls>>
    <3>1. OpenPolls' \subseteq OpenPolls
      BY <1>1, <2>1, <2>3 DEF OpenPolls, Unread, PollInv
    <3>2. Cardinality(OpenPolls') + Asked' <= IF recvPc' = "poll" THEN 2 ELSE 3
      BY <2>1, <2>3, <3>1, FewerPolls
    <3>3. polls' \subseteq 1 .. seq'
      BY <1>1, <2>3 DEF PollInv
    <3>4. QED
      BY <2>3, <3>2, <3>3 DEF PollInv
  <2>4. CASE /\ seq' = seq + 1 /\ procPc' = "do" /\ polls' = polls \union {seq + 1}
             /\ sendNop /\ sendNop' = FALSE
    <3>1. OpenPolls' \subseteq OpenPolls \union {seq + 1}
      BY <1>1, <2>1, <2>4 DEF OpenPolls, Unread, PollInv
    <3>2. /\ IsFiniteSet(OpenPolls \union {seq + 1})
          /\ Cardinality(OpenPolls \union {seq + 1}) <= Cardinality(OpenPolls) + 1
      <4>1. /\ IsFiniteSet(OpenPolls \union {seq + 1})
            /\ Cardinality(OpenPolls \union {seq + 1}) =
                 IF seq + 1 \in OpenPolls THEN Cardinality(OpenPolls)
                                          ELSE Cardinality(OpenPolls) + 1
        BY <1>1, FS_AddElement
      <4>2. QED
        BY <1>1, <4>1
    <3>3. /\ Cardinality(OpenPolls') <= Cardinality(OpenPolls \union {seq + 1})
          /\ Cardinality(OpenPolls') \in Nat /\ Cardinality(OpenPolls \union {seq + 1}) \in Nat
      BY <3>1, <3>2, FS_Subset, FS_CardinalityType
    <3>4. Cardinality(OpenPolls') + Asked' <= Cardinality(OpenPolls) + Asked
      BY <1>1, <2>4, <3>2, <3>3 DEF Asked
    <3>5. Asked' \in Nat /\ Asked \in Nat
      BY DEF Asked
    <3>6. Cardinality(OpenPolls') + Asked' <= IF recvPc' = "poll" THEN 2 ELSE 3
      BY <1>1, <2>1, <3>3, <3>4, <3>5 DEF PollInv
    <3>7. polls' \subseteq 1 .. seq'
      BY <1>1, <2>4 DEF PollInv
    <3>8. QED
      BY <2>4, <3>6, <3>7 DEF PollInv
  <2>5. QED
    BY <1>5, <2>2, <2>3, <2>4 DEF ProcSelect
<1>6. CASE ProcPush
  <2>1. /\ UNCHANGED <<seq, polls, sendNop, recvPc, res>> /\ procPc' \in {"check", "done"}
        /\ \/ procPc = "push" /\ respQ' = Append(respQ, seq)
           \/ respQ' = Append(respQ, Nil)
    BY <1>6 DEF ProcPush, AfterSend, notProc, requestVars, recvVars
  <2>2. \A i \in 1 .. Len(respQ') :
          \/ i \in 1 .. Len(respQ) /\ respQ'[i] = respQ[i]
          \/ procPc = "push" /\ respQ'[i] = seq
          \/ respQ'[i] = Nil
    <3>1. PICK x \in Nat : respQ' = Append(respQ, x) /\ (x = Nil \/ (procPc = "push" /\ x = seq))
      BY <1>1, <2>1 DEF Nil
    <3>2. /\ Len(respQ') = Len(respQ) + 1 /\ respQ'[Len(respQ) + 1] = x
          /\ \A i \in 1 .. Len(respQ) : respQ'[i] = respQ[i]
      BY <1>1, <3>1, AppendFacts
    <3>3. QED
      BY <1>1, <3>1, <3>2
  <2>3. Unread' \subseteq Unread
    <3> SUFFICES ASSUME NEW s \in Unread' PROVE s \in Unread
      OBVIOUS
    <3>1. /\ s \in 1 .. seq
          /\ \/ \E i \in 1 .. Len(respQ') : respQ'[i] = s
             \/ s = res /\ recvPc \in {"read", "push"}
      BY <2>1, UnreadElements, SeqFacts DEF ResponseInv, Unread, Range
    <3>2. s # Nil
      BY <3>1 DEF Nil
    <3>3. QED
      BY <2>2, <3>1, <3>2, UnreadElements
  <2>4. QED
    BY <1>2, <2>1, <2>3
<1>7. CASE RecvNext
  <2>1. /\ UNCHANGED <<seq, polls, sendNop, procPc>> /\ recvPc' \in {"done", "read"}
        /\ respQ # <<>> /\ res' = Head(respQ) /\ respQ' = Tail(respQ)
    BY <1>7 DEF RecvNext, notRecv, procVars, requestVars
  <2>2. /\ Len(respQ) \in Nat \ {0} /\ res' = respQ[1] /\ respQ' \in Seq(Nat)
        /\ Len(respQ') = Len(respQ) - 1 /\ 1 \in 1 .. Len(respQ)
        /\ \A i \in 1 .. Len(respQ) - 1 : respQ'[i] = respQ[i + 1]
    BY <1>1, <2>1, TailFacts
  <2>3. \A i \in 1 .. Len(respQ') : i + 1 \in 1 .. Len(respQ) /\ respQ'[i] = respQ[i + 1]
    BY <2>2
  <2>4. Unread' \subseteq Unread
    <3> SUFFICES ASSUME NEW s \in Unread' PROVE s \in Unread
      OBVIOUS
    <3>1. DOMAIN respQ' = 1 .. Len(respQ')
      BY <2>2, SeqFacts
    <3>2. /\ s \in 1 .. seq
          /\ \/ \E i \in 1 .. Len(respQ') : respQ'[i] = s
             \/ s = seq /\ procPc \in {"do", "push"}
             \/ s = respQ[1]
      BY <2>1, <2>2, <3>1 DEF Unread, Range
    <3>3. QED
      BY <2>2, <2>3, <3>2, UnreadElements
  <2>5. QED
    BY <1>2, <2>1, <2>4
<1>8. CASE RecvLook
  <2>1. /\ UNCHANGED <<seq, polls, sendNop, procPc, respQ, res>>
        /\ recvPc = "look" /\ recvPc' = IF respQ = <<>> THEN "poll" ELSE "next"
    BY <1>8 DEF RecvLook, IsIdle, notRecv, procVars, requestVars
  <2>2. CASE respQ # <<>>
    <3>1. recvPc' = "next" /\ Unread' = Unread
      BY <2>1, <2>2 DEF Unread
    <3>2. QED
      BY <1>2, <2>1, <3>1
  <2>3. CASE respQ = <<>>
    <3>1. Len(respQ) = 0
      BY <2>3
    <3>2. OpenPolls' \subseteq {seq}
      BY <2>1, <2>3 DEF OpenPolls, Unread, Range
    <3>3. IsFiniteSet({seq}) /\ Cardinality({seq}) = 1
      BY FS_Singleton
    <3>4. Cardinality(OpenPolls') <= 1 /\ Cardinality(OpenPolls') \in Nat
      BY <3>2, <3>3, FS_Subset, FS_CardinalityType
    <3>5. QED
      BY <2>1, <3>4 DEF PollInv, Asked
  <2>4. QED
    BY <2>2, <2>3
<1>9. CASE RecvPoll
  <2>1. /\ UNCHANGED <<seq, polls, procPc, respQ, res>> /\ sendNop' = TRUE
        /\ recvPc = "poll" /\ recvPc' = "next"
    BY <1>9 DEF RecvPoll, notRecv, procVars, requestVars
  <2>2. OpenPolls' = OpenPolls
    BY <2>1 DEF OpenPolls, Unread
  <2>3. QED
    BY <1>1, <2>1, <2>2 DEF PollInv, Asked
<1>10. CASE Connect \/ ConnectFail
  <2>1. /\ UNCHANGED <<seq, polls, sendNop, respQ, res>> /\ seq = 0 /\ recvPc' # "poll"
        /\ procPc \in {"connect", "failed", "start"}
    BY <1>10 DEF Connect, ConnectFail, requestVars, recvVars, StartInv
  <2>2. Unread' = {}
    BY <2>1 DEF Unread
  <2>3. QED
    BY <1>2, <2>1, <2>2
<1>11. CASE ProcCheck \/ Do
  <2>1. /\ UNCHANGED <<seq, polls, sendNop, respQ, recvPc, res>>
        /\ procPc' \in {"select", "exit", "push", "check"}
        /\ procPc' = "push" => procPc = "do"
    BY <1>11 DEF ProcCheck, Do, DoAnswered, DoFails, notProc, requestVars, recvVars
  <2>2. Unread' \subseteq Unread
    BY <2>1 DEF Unread
  <2>3. QED
    BY <1>2, <2>1, <2>2
<1>12. CASE RecvRead \/ RecvPush \/ RecvEnd
  <2>1. /\ UNCHANGED <<seq, polls, sendNop, procPc, respQ, res>>
        /\ recvPc \in {"read", "push"} /\ recvPc' \in {"read", "push", "look"}
    BY <1>12 DEF RecvRead, RecvPush, RecvEnd, notRecv, procVars, requestVars
  <2>2. Unread' \subseteq Unread
    BY <2>1 DEF Unread
  <2>3. QED
    BY <1>2, <2>1, <2>2
<1>13. CASE PopBody \/ Owner
  BY <1>2, <1>3, <1>13 DEF PopBody, PopCheck, PopReceive, PopCall, notPop, Owner, PushTCPRequest,
     DestroyBegin, notDestroy, procVars, recvVars, requestVars
<1>14. CASE DestroyBody \/ Server \/ UNCHANGED vars
  BY <1>2, <1>3, <1>14 DEF DestroyBody, DestroyClose, DestroyWake, notDestroy, Server,
     ServerWrite, ServerFinish, Break, notServer, procVars, recvVars, requestVars, vars
<1>15. QED
  BY <1>4, <1>5, <1>6, <1>7, <1>8, <1>9, <1>10, <1>11, <1>12, <1>13, <1>14
     DEF Next, ProcessLoop, RecvLoop

\* However many data requests are answered in between, at most three polls are
\* open or asked for (httpClient.recvLoop asks for one only when respQ is empty,
\* but looks at respQ before it asks).
THEOREM FewPollsCorrect == Spec => []FewPolls
<1> DEFINE IInv == ResponseInv /\ StartInv /\ PollInv
<1>1. Init => IInv
  BY ResponseInit, StartInit, PollInit
<1>2. ASSUME IInv, [Next]_vars PROVE IInv'
  BY <1>2, ResponseStep, StartStep, PollStep
<1>3. IInv => FewPolls
  <2> SUFFICES ASSUME ResponseInv, PollInv PROVE FewPolls
    OBVIOUS
  <2>1. Cardinality(OpenPolls) \in Nat
    BY OpenPollsFinite
  <2>2. QED
    BY <2>1 DEF PollInv, FewPolls, OpenPolls, Asked
<1>4. QED
  BY <1>1, <1>2, <1>3, PTL DEF Spec

-----------------------------------------------------------------------------
(* The promise of Tunnel                                                   *)

Blocks == (Range(popped) \union Range(recvQ)) \ {Nil}
LastOf(blocks) ==
    IF blocks = {} THEN 0 ELSE CHOOSE k \in blocks : \A b \in blocks : b <= k

LEMMA LastReceivedIs == LastReceived = LastOf(Blocks)
  BY DEF LastReceived, LastOf, Blocks

LEMMA LastOfIs ==
  ASSUME NEW S \in SUBSET Nat, NEW m \in S, \A b \in S : b <= m
  PROVE  LastOf(S) = m
<1> DEFINE c == CHOOSE k \in S : \A b \in S : b <= k
<1>1. c \in S /\ \A b \in S : b <= c
  OBVIOUS
<1>2. c \in Nat /\ m \in Nat /\ c <= m /\ m <= c
  BY <1>1
<1> HIDE DEF c
<1>3. c = m
  BY <1>2
<1>4. QED
  BY <1>3 DEF LastOf, c

LEMMA LastOfBelow ==
  ASSUME NEW S \in SUBSET Nat, NEW n \in Nat, \A b \in S : b < n
  PROVE  LastOf(S) \in Nat /\ (S # {} => LastOf(S) < n)
<1>1. CASE S = {}
  BY <1>1 DEF LastOf
<1>2. CASE S # {}
  <2>1. PICK m \in S : \A b \in S : b <= m
    <3>1. \A b \in S : b <= n
      OBVIOUS
    <3>2. QED
      BY <1>2, <3>1, BoundedMax
  <2>2. LastOf(S) = m
    BY <2>1, LastOfIs
  <2>3. QED
    BY <2>2
<1>3. QED
  BY <1>1, <1>2

LEMMA BlocksAreGot ==
  ASSUME QueueOrder
  PROVE  Blocks = {k \in Nat : Got(k)}
<1>1. DOMAIN popped = 1 .. Len(popped) /\ DOMAIN recvQ = 1 .. Len(recvQ)
      /\ (\A i \in 1 .. Len(popped) : popped[i] \in Nat)
      /\ \A i \in 1 .. Len(recvQ) : recvQ[i] \in Nat
  BY SeqFacts DEF QueueOrder
<1>2. QED
  BY <1>1 DEF Blocks, Got, Range, QueueOrder

\* The same of the next state.
LEMMA BlocksAreGotNext ==
  ASSUME QueueOrder'
  PROVE  Blocks' = {k \in Nat : Got(k)'} /\ LastReceived' = LastOf(Blocks')
<1>1. DOMAIN popped' = 1 .. Len(popped') /\ DOMAIN recvQ' = 1 .. Len(recvQ')
      /\ (\A i \in 1 .. Len(popped') : popped'[i] \in Nat)
      /\ \A i \in 1 .. Len(recvQ') : recvQ'[i] \in Nat
  BY SeqFacts DEF QueueOrder
<1>2. QED
  BY <1>1 DEF Blocks, Got, Range, QueueOrder, LastReceived, LastOf

LEMMA LastReceivedKeeps ==
  ASSUME QueueOrder, QueueOrder', \A k \in Nat : Got(k)' <=> Got(k)
  PROVE  LastReceived' = LastReceived
<1>1. Blocks' = Blocks
  BY BlocksAreGot, BlocksAreGotNext
<1>2. QED
  BY <1>1, BlocksAreGotNext, LastReceivedIs

\* Only RecvPush brings a block into recvQ, and none is lost but by being popped.
LEMMA GotStep ==
  ASSUME StartInv, StreamInv, [Next]_vars, ~RecvPush
  PROVE  \A k \in Nat : Got(k)' <=> Got(k)
<1>1. ASSUME UNCHANGED <<popped, recvQ>> PROVE \A k \in Nat : Got(k)' <=> Got(k)
  BY <1>1 DEF Got
<1>2. CASE ConnectFail \/ DestroyWake
  <2>1. recvQ' = Append(recvQ, Nil) /\ popped' = popped
    <3>1. CASE ConnectFail
      <4>1. recvQ = <<>> /\ recvQ' = <<Nil>> /\ popped' = popped
        BY <3>1 DEF ConnectFail, StartInv
      <4>2. QED
        BY <4>1
    <3>2. CASE DestroyWake
      BY <3>2 DEF DestroyWake, AfterSend, notDestroy
    <3>3. QED
      BY <1>2, <3>1, <3>2
  <2>2. QED
    BY <2>1, NilKeeps DEF StreamInv
<1>3. CASE PopCall \/ PopReceive
  <2>1. CASE TakeFromRecvQ
    <3>1. UNCHANGED <<recvPc, recvDn, body, broken, sent>> /\ sent \in Nat
      BY <1>3 DEF PopCall, PopReceive, notPop, recvVars, serverVars, StreamInv, BodyOrder, BodyTypes
    <3>2. QED
      BY <2>1, <3>1, TakeKeeps DEF StreamInv
  <2>2. CASE UNCHANGED <<popped, recvQ>>
    BY <1>1, <2>2
  <2>3. QED
    BY <1>3, <2>1, <2>2 DEF PopCall, PopReceive
<1>4. CASE Connect \/ ProcessLoop \/ UNCHANGED vars
  BY <1>1, <1>4 DEF Connect, ProcessLoop, ProcStart, ProcCheck, ProcSelect, Do, DoAnswered,
     DoFails, ProcPush, notProc, vars
<1>5. CASE RecvNext \/ RecvRead \/ RecvEnd \/ RecvLook \/ RecvPoll
  BY <1>1, <1>5 DEF RecvNext, RecvRead, RecvEnd, RecvLook, RecvPoll, notRecv
<1>6. CASE PopCheck \/ DestroyClose \/ DestroyBegin \/ Server
  BY <1>1, <1>6 DEF PopCheck, notPop, DestroyClose, DestroyBegin, notDestroy, Server,
     ServerWrite, ServerFinish, Break, notServer
<1>7. CASE pushed < MaxPush /\ PushTCPRequest(pushed + 1)
  BY <1>1, <1>7 DEF PushTCPRequest
<1>8. QED
  BY <1>2, <1>3, <1>4, <1>5, <1>6, <1>7 DEF Next, RecvLoop, PopBody, DestroyBody, Owner

LEMMA SentBound ==
  ASSUME sent \in Nat, sent <= MaxBlocks, [Next]_vars
  PROVE  sent' <= MaxBlocks
<1>1. MaxBlocks \in Nat
  BY HttpClientAssumption DEF HttpClientAssumption
<1>2. CASE ServerWrite
  BY <1>1, <1>2 DEF ServerWrite
<1>3. CASE sent' = sent
  BY <1>3
<1>4. CASE Connect \/ ConnectFail \/ ProcessLoop
  BY <1>3, <1>4 DEF Connect, ConnectFail, ProcessLoop, ProcStart, ProcCheck, ProcSelect, Do,
     DoAnswered, DoFails, ProcPush, notProc, serverVars
<1>5. CASE RecvLoop \/ ServerFinish \/ Break
  BY <1>3, <1>5 DEF RecvLoop, RecvNext, RecvRead, RecvPush, RecvEnd, RecvLook, RecvPoll, notRecv,
     ServerFinish, Break, serverVars
<1>6. CASE PopBody \/ DestroyBody \/ Owner \/ UNCHANGED vars
  BY <1>3, <1>6 DEF PopBody, PopCheck, PopReceive, PopCall, notPop, DestroyBody, DestroyClose,
     DestroyWake, DestroyBegin, notDestroy, Owner, PushTCPRequest, serverVars, vars
<1>7. QED
  BY <1>2, <1>4, <1>5, <1>6 DEF Next, Server

\* The state of Tunnel as Abstract reads it off.
TunnelAlive == Created => alive
TunnelSending == IF procPc = "do" THEN sendDn ELSE Nil
TunnelRecvQ == IF Created THEN recvQ ELSE <<>>
TunnelDestroyPc ==
    IF ~Created THEN "idle" ELSE IF destroyPc = "close" THEN "wake" ELSE destroyPc

LEMMA TunnelInit == Init => Abstract!Init
<1> SUFFICES ASSUME Init PROVE Abstract!Init
  OBVIOUS
<1>1. /\ procPc = "connect" /\ ~Created /\ popped = <<>> /\ recvQ = <<>>
  BY DEF Init, Created
<1>2. LastReceived = 0
  <2>1. Range(popped) = {} /\ Range(recvQ) = {}
    BY <1>1 DEF Range
  <2>2. QED
    BY <2>1 DEF LastReceived
<1>3. QED
  BY <1>1, <1>2 DEF Init, Abstract!Init, Nil, Abstract!Nil

LEMMA TunnelStep ==
  ASSUME RequestInv, StartInv, StreamInv, StreamInv', sent <= MaxBlocks, [Next]_vars
  PROVE  Abstract!Next \/ UNCHANGED Abstract!vars
<1> USE DEF Nil, Abstract!Nil
<1>1. ASSUME ~RecvPush PROVE LastReceived' = LastReceived
  BY <1>1, GotStep, LastReceivedKeeps DEF StreamInv
<1>2. ASSUME UNCHANGED <<sendQ, failed, delivered, popPc, popDn, popped, pushed>>,
             UNCHANGED <<TunnelAlive, TunnelSending, TunnelRecvQ, TunnelDestroyPc>>, ~RecvPush
      PROVE  UNCHANGED Abstract!vars
  BY <1>1, <1>2 DEF Abstract!vars, Abstract!sendVars, Abstract!popVars, TunnelAlive, TunnelSending,
     TunnelRecvQ, TunnelDestroyPc
<1>3. CASE Connect \/ ConnectFail
  <2>1. /\ UNCHANGED <<sendQ, failed, delivered, popPc, popDn, popped, pushed>> /\ ~RecvPush
        /\ procPc = "connect" /\ procPc' \in {"start", "failed"}
        /\ procPc' = "start" => alive' = TRUE /\ recvQ' = <<>> /\ destroyPc' = "idle"
    BY <1>3 DEF Connect, ConnectFail, StartInv, requestVars, popVars, RecvPush, notRecv, procVars
  <2>2. UNCHANGED <<TunnelAlive, TunnelSending, TunnelRecvQ, TunnelDestroyPc>>
    BY <2>1 DEF TunnelAlive, TunnelSending, TunnelRecvQ, TunnelDestroyPc, Created
  <2>3. QED
    BY <1>2, <2>1, <2>2
<1>4. CASE ProcStart \/ ProcCheck \/ ProcPush
  <2>1. /\ UNCHANGED <<sendQ, failed, delivered, popPc, popDn, popped, pushed>> /\ ~RecvPush
        /\ UNCHANGED <<alive, recvQ, destroyPc>> /\ Created /\ Created'
        /\ procPc # "do" /\ procPc' # "do"
    BY <1>4 DEF ProcStart, ProcCheck, ProcPush, notProc, requestVars, popVars, Created, RecvPush,
       notRecv, procVars
  <2>2. UNCHANGED <<TunnelAlive, TunnelSending, TunnelRecvQ, TunnelDestroyPc>>
    BY <2>1 DEF TunnelAlive, TunnelSending, TunnelRecvQ, TunnelDestroyPc
  <2>3. QED
    BY <1>2, <2>1, <2>2
<1>5. CASE ProcSelect
  <2>1. /\ UNCHANGED <<failed, delivered, popPc, popDn, popped, pushed>> /\ ~RecvPush
        /\ UNCHANGED <<alive, recvQ, destroyPc>> /\ Created /\ Created' /\ procPc = "select"
        /\ ~failed
    BY <1>5 DEF ProcSelect, notProc, popVars, Created, RecvPush, notRecv, procVars, RequestInv
  <2>2. CASE sendQ # <<>> /\ sendDn' = Head(sendQ) /\ sendQ' = Tail(sendQ) /\ procPc' = "do"
    <3>1. Abstract!Take
      BY <1>1, <2>1, <2>2 DEF Abstract!Take, Abstract!popVars
    <3>2. QED
      BY <3>1 DEF Abstract!Next, Abstract!Network
  <2>3. CASE UNCHANGED sendQ /\ (procPc' = "do" => sendDn' = Nil)
    <3>1. UNCHANGED <<TunnelAlive, TunnelSending, TunnelRecvQ, TunnelDestroyPc>>
      BY <2>1, <2>3 DEF TunnelAlive, TunnelSending, TunnelRecvQ, TunnelDestroyPc
    <3>2. QED
      BY <1>2, <2>1, <2>3, <3>1
  <2>4. QED
    BY <1>5, <2>2, <2>3 DEF ProcSelect
<1>6. CASE DoAnswered
  <2>1. /\ UNCHANGED <<sendQ, failed, popPc, popDn, popped, pushed>> /\ ~RecvPush
        /\ UNCHANGED <<alive, recvQ, destroyPc>> /\ Created /\ Created' /\ procPc = "do"
        /\ procPc' = "push"
        /\ delivered' = IF sendDn = Nil THEN delivered ELSE Append(delivered, sendDn)
    BY <1>6 DEF DoAnswered, ServerTakes, notProc, requestVars, popVars, Created, RecvPush,
       notRecv, procVars
  <2>2. CASE sendDn = Nil
    <3>1. UNCHANGED <<TunnelAlive, TunnelSending, TunnelRecvQ, TunnelDestroyPc>>
      BY <2>1, <2>2 DEF TunnelAlive, TunnelSending, TunnelRecvQ, TunnelDestroyPc
    <3>2. QED
      BY <1>2, <2>1, <2>2, <3>1
  <2>3. CASE sendDn # Nil
    <3>1. Abstract!Deliver
      BY <1>1, <2>1, <2>3 DEF Abstract!Deliver, Abstract!popVars
    <3>2. QED
      BY <3>1 DEF Abstract!Next, Abstract!Network
  <2>4. QED
    BY <2>2, <2>3
<1>7. CASE DoFails
  <2>1. /\ UNCHANGED <<sendQ, popPc, popDn, popped, pushed>> /\ ~RecvPush
        /\ UNCHANGED <<recvQ, destroyPc>> /\ Created /\ Created' /\ procPc = "do"
        /\ procPc' = "check" /\ alive' = FALSE /\ failed' = TRUE /\ ~failed
        /\ \/ delivered' = delivered
           \/ sendDn # Nil /\ delivered' = Append(delivered, sendDn)
    BY <1>7 DEF DoFails, ServerTakes, notProc, popVars, Created, RecvPush, notRecv,
       procVars, RequestInv
  <2>2. Abstract!Fail
    BY <1>1, <2>1 DEF Abstract!Fail, Abstract!popVars
  <2>3. QED
    BY <2>2 DEF Abstract!Next, Abstract!Network
<1>8. CASE RecvPush
  <2>1. /\ UNCHANGED <<sendQ, sendDn, failed, delivered, popPc, popDn, popped, pushed>>
        /\ UNCHANGED <<alive, destroyPc, procPc>> /\ recvPc = "push"
        /\ recvQ' \in AfterSend(recvQ, recvDn) /\ recvQ' = Append(recvQ, recvDn)
    BY <1>8 DEF RecvPush, notRecv, procVars, requestVars, popVars, AfterSend
  <2>2. Created
    BY <2>1 DEF StartInv, Created
  <2>3. recvDn \in 1 .. sent /\ recvDn \in Nat /\ sent \in Nat
    BY <2>1 DEF StreamInv, StreamOrder, BodyOrder, BodyTypes
  <2>4. \A k \in Nat : Got(k) => k < recvDn
    BY <2>1 DEF StreamInv, StreamOrder
  <2>5. Blocks \in SUBSET Nat /\ \A b \in Blocks : b < recvDn
    BY <2>4, BlocksAreGot DEF StreamInv
  <2>6. LastReceived \in Nat /\ LastReceived < recvDn
    <3>1. LastOf(Blocks) \in Nat /\ (Blocks # {} => LastOf(Blocks) < recvDn)
      BY <2>3, <2>5, LastOfBelow
    <3>2. Blocks = {} => LastOf(Blocks) = 0
      BY DEF LastOf
    <3>3. QED
      BY <2>3, <3>1, <3>2, LastReceivedIs
  <2>7. LastReceived' = recvDn
    <3>1. \A k \in Nat : Got(k)' <=> Got(k) \/ k = recvDn
      BY <1>8, PushKeeps
    <3>2. Blocks' = {k \in Nat : Got(k)'} /\ LastReceived' = LastOf(Blocks')
      BY BlocksAreGotNext DEF StreamInv
    <3>3. Blocks' \in SUBSET Nat /\ recvDn \in Blocks' /\ \A b \in Blocks' : b <= recvDn
      BY <2>3, <2>4, <3>1, <3>2
    <3>4. QED
      BY <3>2, <3>3, LastOfIs
  <2>8. recvDn \in LastReceived + 1 .. MaxBlocks
    BY <2>3, <2>6, HttpClientAssumption DEF HttpClientAssumption
  <2>9. Abstract!Receive
    <3>1. /\ LastReceived' = recvDn
          /\ (IF Created THEN recvQ ELSE <<>>)' \in Abstract!AfterSend(IF Created THEN recvQ ELSE <<>>, recvDn)
      BY <2>1, <2>2, <2>7 DEF Created, AfterSend, Abstract!AfterSend
    <3>2. QED
      BY <2>1, <2>2, <2>8, <3>1
         DEF Abstract!Receive, Abstract!sendVars, Abstract!popVars, Created
  <2>10. QED
    BY <2>9 DEF Abstract!Next, Abstract!Network
<1>9. CASE RecvNext \/ RecvRead \/ RecvEnd \/ RecvLook \/ RecvPoll
  <2>1. /\ UNCHANGED <<sendQ, failed, delivered, popPc, popDn, popped, pushed>> /\ ~RecvPush
        /\ UNCHANGED <<alive, recvQ, destroyPc, procPc, sendDn>>
    BY <1>9 DEF RecvNext, RecvRead, RecvEnd, RecvLook, RecvPoll, notRecv, procVars, requestVars,
       popVars, RecvPush
  <2>2. UNCHANGED <<TunnelAlive, TunnelSending, TunnelRecvQ, TunnelDestroyPc>>
    BY <2>1 DEF TunnelAlive, TunnelSending, TunnelRecvQ, TunnelDestroyPc, Created
  <2>3. QED
    BY <1>2, <2>1, <2>2
<1>10. CASE Server \/ DestroyClose
  <2>1. /\ UNCHANGED <<sendQ, failed, delivered, popPc, popDn, popped, pushed>> /\ ~RecvPush
        /\ UNCHANGED <<alive, recvQ, procPc, sendDn>>
        /\ \/ destroyPc' = destroyPc
           \/ destroyPc = "close" /\ destroyPc' = "wake"
    BY <1>10 DEF Server, ServerWrite, ServerFinish, Break, notServer, DestroyClose, notDestroy,
       procVars, requestVars, popVars, recvVars, RecvPush
  <2>2. UNCHANGED <<TunnelAlive, TunnelSending, TunnelRecvQ, TunnelDestroyPc>>
    BY <2>1 DEF TunnelAlive, TunnelSending, TunnelRecvQ, TunnelDestroyPc, Created
  <2>3. QED
    BY <1>2, <2>1, <2>2
<1>11. CASE pushed < MaxPush /\ PushTCPRequest(pushed + 1)
  <2>1. /\ UNCHANGED <<failed, delivered, popPc, popDn, popped>> /\ ~RecvPush
        /\ UNCHANGED <<alive, recvQ, destroyPc, procPc, sendDn>> /\ Created
        /\ pushed' = pushed + 1 /\ sendQ' \in AfterSend(sendQ, pushed + 1)
    BY <1>11 DEF PushTCPRequest, procVars, requestVars, popVars, recvVars, RecvPush
  <2>2. Abstract!PushTCPRequest(pushed + 1)
    BY <1>1, <2>1 DEF Abstract!PushTCPRequest, Abstract!AfterSend, AfterSend, Abstract!sendVars,
       Abstract!popVars, Created
  <2>3. QED
    BY <1>11, <2>2 DEF Abstract!Next, Abstract!Owner
<1>12. CASE PopCall \/ PopCheck \/ PopReceive
  <2>1. /\ UNCHANGED <<sendQ, failed, delivered, pushed, alive, destroyPc, procPc, sendDn>>
        /\ ~RecvPush /\ Created
    BY <1>12 DEF PopCall, PopCheck, PopReceive, notPop, procVars, requestVars, recvVars, RecvPush,
       Created, StartInv
  <2>2. UNCHANGED <<TunnelAlive, TunnelSending, TunnelDestroyPc>> /\ TunnelRecvQ = recvQ
        /\ TunnelRecvQ' = recvQ'
    BY <2>1 DEF TunnelAlive, TunnelSending, TunnelRecvQ, TunnelDestroyPc, Created
  <2>3. UNCHANGED Abstract!notPop
    BY <1>1, <2>1, <2>2 DEF Abstract!notPop, Abstract!sendVars, TunnelAlive, TunnelSending,
       TunnelDestroyPc
  <2>4. TakeFromRecvQ => Abstract!TakeFromRecvQ
    BY <2>2 DEF TakeFromRecvQ, Abstract!TakeFromRecvQ, TunnelRecvQ
  <2>5. PopCall => Abstract!PopCall
    BY <2>2, <2>3, <2>4 DEF PopCall, Abstract!PopCall, TunnelRecvQ
  <2>6. PopCheck => Abstract!PopCheck
    BY <2>1, <2>2, <2>3 DEF PopCheck, Abstract!PopCheck, TunnelRecvQ
  <2>7. PopReceive => Abstract!PopReceive
    BY <2>3, <2>4 DEF PopReceive, Abstract!PopReceive
  <2>8. QED
    BY <1>12, <2>5, <2>6, <2>7 DEF Abstract!Next, Abstract!Owner, Abstract!PopBody
<1>13. CASE DestroyBegin \/ DestroyWake
  <2>1. /\ UNCHANGED <<sendQ, failed, delivered, pushed, popPc, popDn, popped, procPc, sendDn>>
        /\ ~RecvPush /\ Created /\ Created'
    BY <1>13 DEF DestroyBegin, DestroyWake, notDestroy, procVars, requestVars, recvVars, popVars,
       RecvPush, Created, StartInv
  <2>2. DestroyBegin => Abstract!DestroyBegin
    BY <1>1, <2>1 DEF DestroyBegin, Abstract!DestroyBegin, Abstract!sendVars, Abstract!popVars
  <2>3. DestroyWake => Abstract!DestroyWake
    BY <1>1, <2>1 DEF DestroyWake, Abstract!DestroyWake, Abstract!sendVars, Abstract!popVars,
       AfterSend, Abstract!AfterSend
  <2>4. QED
    BY <1>13, <2>2, <2>3 DEF Abstract!Next, Abstract!Owner
<1>14. CASE UNCHANGED vars
  <2>1. /\ UNCHANGED <<sendQ, failed, delivered, popPc, popDn, popped, pushed>>
        /\ UNCHANGED <<alive, recvQ, destroyPc, procPc, sendDn>> /\ ~RecvPush
    BY <1>14 DEF vars, procVars, requestVars, recvVars, popVars, RecvPush
  <2>2. UNCHANGED <<TunnelAlive, TunnelSending, TunnelRecvQ, TunnelDestroyPc>>
    BY <2>1 DEF TunnelAlive, TunnelSending, TunnelRecvQ, TunnelDestroyPc, Created
  <2>3. QED
    BY <1>2, <2>1, <2>2
<1>15. QED
  BY <1>3, <1>4, <1>5, <1>6, <1>7, <1>8, <1>9, <1>10, <1>11, <1>12, <1>13, <1>14
     DEF Next, ProcessLoop, Do, RecvLoop, PopBody, DestroyBody, Owner

\* The httpClient does what Tunnel promises, for every capacity of the channels
\* and whatever fails: every step of processLoop, recvLoop, the owner's calls and
\* the server is a step of Tunnel or changes nothing that the owner can tell.
THEOREM TunnelSpecCorrect == Spec => TunnelSpec
<1> DEFINE IInv == /\ RequestInv /\ ResponseInv /\ StartInv /\ PositionInv /\ StreamInv
                   /\ sent <= MaxBlocks
<1>1. Init => IInv
  <2>1. Init => sent <= MaxBlocks
    BY HttpClientAssumption DEF HttpClientAssumption, Init
  <2>2. QED
    BY <2>1, RequestInit, ResponseInit, StartInit, PositionInit, StreamInit
<1>2. ASSUME IInv, [Next]_vars PROVE IInv'
  <2>1. BodyTypes /\ sent \in Nat
    BY <1>2 DEF StreamInv, BodyOrder, BodyTypes
  <2>2. sent' <= MaxBlocks
    BY <1>2, <2>1, SentBound
  <2>3. QED
    BY <1>2, <2>1, <2>2, RequestStep, ResponseStep, StartStep, PositionStep, StreamStep
<1>3. ASSUME IInv, IInv', [Next]_vars PROVE [Abstract!Next]_(Abstract!vars)
  BY <1>3, TunnelStep
<1>4. QED
  BY <1>1, <1>2, <1>3, TunnelInit, PTL DEF Spec, TunnelSpec, Abstract!Spec
=============================================================================
