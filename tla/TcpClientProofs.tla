---------------------------- MODULE TcpClientProofs ----------------------------
(***************************************************************************)
(* Theorems about TcpClient, for every capacity of the queues and every    *)
(* number of requests, repetitions and blocks.  What the tcpProxy promises *)
(* is taken from TcpProxyProofs.                                           *)
(***************************************************************************)
EXTENDS TcpClient, QueueFacts, FiniteSetTheorems

P == INSTANCE TcpProxyProofs

HandlerPcs == {"none", "lock", "enqueue", "wait", "done"}

IsSeq(s) == \E S : s \in Seq(S)
Among(q, r) == \E i \in 1 .. Len(q) : q[i] = r
Different(q) == \A i, j \in 1 .. Len(q) : i < j /\ q[j] # Nil => q[i] # q[j]

\* Where a loop of the tcpClient may hold a request.
AtProc(r) == procReq = r /\ procPc \in {"body", "answer", "queue"}
AtResp(r) == respReq = r /\ respPc \in {"look", "pop", "again"}

RequestTypes ==
    /\ IsSeq(requests)
    /\ reqQueue \in Seq(Nat) /\ resQueue \in Seq(Nat) /\ reqPc \in [Reqs -> HandlerPcs]
    /\ \A i \in 1 .. Len(reqQueue) : reqQueue[i] \in Reqs
    /\ \A i \in 1 .. Len(resQueue) : resQueue[i] \in Reqs \cup {Nil}
    /\ procReq \in Nat /\ respReq \in Nat
    /\ procPc \in {"body", "answer", "queue"} => procReq \in Reqs
    /\ respPc \in {"look", "pop", "again"} => respReq \in Reqs
    /\ \A r \in Reqs : r > Len(requests) => reqPc[r] = "none"

\* A request is in one place at most, and its handler waits as long as it is.
PlaceInv ==
    /\ Different(reqQueue) /\ Different(resQueue)
    /\ \A r \in Reqs :
          /\ Among(reqQueue, r) \/ Among(resQueue, r) \/ AtProc(r) \/ AtResp(r) => reqPc[r] = "wait"
          /\ ~(Among(reqQueue, r) /\ Among(resQueue, r))
          /\ AtProc(r) => ~Among(reqQueue, r) /\ ~Among(resQueue, r)
          /\ AtResp(r) => ~Among(reqQueue, r) /\ ~Among(resQueue, r) /\ ~AtProc(r)

-----------------------------------------------------------------------------
LEMMA AmongAppend ==
  ASSUME NEW q \in Seq(Nat), NEW x \in Nat
  PROVE  /\ \A r : Among(Append(q, x), r) <=> Among(q, r) \/ r = x
         /\ Different(q) /\ (x = Nil \/ ~Among(q, x)) => Different(Append(q, x))
<1>1. /\ Len(q) \in Nat /\ Len(Append(q, x)) = Len(q) + 1
      /\ \A i \in 1 .. Len(q) : Append(q, x)[i] = q[i]
      /\ Append(q, x)[Len(q) + 1] = x
  BY AppendFacts, SeqFacts
<1>2. QED
  BY ONLY <1>1 DEF Among, Different

LEMMA AmongTail ==
  ASSUME NEW q \in Seq(Nat), q # <<>>
  PROVE  /\ Among(q, Head(q))
         /\ \A r : Among(q, r) <=> Among(Tail(q), r) \/ r = Head(q)
         /\ Different(q) => Different(Tail(q))
         /\ Different(q) => Head(q) = Nil \/ ~Among(Tail(q), Head(q))
<1>1. /\ Len(q) \in Nat \ {0} /\ Head(q) = q[1] /\ Len(Tail(q)) = Len(q) - 1
      /\ \A i \in 1 .. Len(q) - 1 : Tail(q)[i] = q[i + 1]
  BY TailFacts
<1>2. Among(q, Head(q))
  BY <1>1 DEF Among
<1>3. ASSUME NEW r PROVE Among(q, r) <=> Among(Tail(q), r) \/ r = Head(q)
  <2>1. ASSUME NEW i \in 1 .. Len(q), q[i] = r PROVE Among(Tail(q), r) \/ r = Head(q)
    <3>1. CASE i = 1
      BY <1>1, <2>1, <3>1
    <3>2. CASE i # 1
      <4>1. i - 1 \in 1 .. Len(Tail(q)) /\ Tail(q)[i - 1] = r
        BY <1>1, <2>1, <3>2
      <4>2. QED
        BY <4>1 DEF Among
    <3>3. QED
      BY <3>1, <3>2
  <2>2. ASSUME NEW i \in 1 .. Len(Tail(q)), Tail(q)[i] = r PROVE Among(q, r)
    <3>1. i + 1 \in 1 .. Len(q) /\ q[i + 1] = r
      BY <1>1, <2>2
    <3>2. QED
      BY <3>1 DEF Among
  <2>3. QED
    BY <1>2, <2>1, <2>2 DEF Among
<1>4. Different(q) => Different(Tail(q))
  BY <1>1 DEF Different
<1>5. Different(q) => Head(q) = Nil \/ ~Among(Tail(q), Head(q))
  BY <1>1 DEF Different, Among
<1>6. QED
  BY <1>2, <1>3, <1>4, <1>5

-----------------------------------------------------------------------------
LEMMA AnyAppend ==
  ASSUME NEW s, NEW x, IsSeq(s)
  PROVE  /\ Len(s) \in Nat
         /\ IsSeq(Append(s, x)) /\ Len(Append(s, x)) = Len(s) + 1
         /\ \A i \in 1 .. Len(s) : Append(s, x)[i] = s[i]
         /\ Append(s, x)[Len(s) + 1] = x
<1>1. PICK S : s \in Seq(S)
  BY DEF IsSeq
<1>2. s \in Seq(S \cup {x})
  BY <1>1, SeqDef
<1>3. /\ Len(s) \in Nat /\ Append(s, x) \in Seq(S \cup {x}) /\ Len(Append(s, x)) = Len(s) + 1
      /\ \A i \in 1 .. Len(s) : Append(s, x)[i] = s[i]
      /\ Append(s, x)[Len(s) + 1] = x
  BY <1>2, AppendProperties, LenProperties
<1>4. QED
  BY <1>3 DEF IsSeq

LEMMA PlaceInit == Init => RequestTypes /\ PlaceInv
<1> SUFFICES ASSUME Init PROVE RequestTypes /\ PlaceInv
  OBVIOUS
<1> USE TcpClientAssumption DEF TcpClientAssumption, Reqs
<1>1. /\ requests = <<>> /\ reqQueue = <<>> /\ resQueue = <<>> /\ reqPc = [r \in Reqs |-> "none"]
      /\ procPc = "check" /\ procReq = 0 /\ respPc = "next" /\ respReq = 0
  BY DEF Init, Nil
<1>2. RequestTypes
  <2>1. reqQueue \in Seq(Nat) /\ resQueue \in Seq(Nat)
    BY <1>1
  <2>6. IsSeq(requests)
    <3>1. requests \in Seq(Nat)
      BY <1>1
    <3>2. QED
      BY <3>1 DEF IsSeq
  <2>2. Len(reqQueue) = 0 /\ Len(resQueue) = 0
    BY <1>1
  <2>3. reqPc \in [Reqs -> HandlerPcs] /\ \A r \in Reqs : reqPc[r] = "none"
    BY <1>1 DEF HandlerPcs
  <2>4. procReq = 0 /\ respReq = 0 /\ procPc = "check" /\ respPc = "next"
    BY <1>1
  <2>5. QED
    BY <2>1, <2>2, <2>3, <2>4, <2>6 DEF RequestTypes
<1>3. PlaceInv
  BY <1>1 DEF PlaceInv, Among, Different, AtProc, AtResp
<1>4. QED
  BY <1>2, <1>3

LEMMA PlaceStep ==
  ASSUME RequestTypes, PlaceInv, [Next]_vars
  PROVE  RequestTypes' /\ PlaceInv'
<1> DEFINE reqVars == <<requests, reqQueue, resQueue, reqPc, procReq, procPc, respReq, respPc>>
<1>1. CASE /\ UNCHANGED <<requests, reqQueue, resQueue, reqPc, procReq, respReq>>
           /\ procPc' = procPc \/ procPc' \notin {"body", "answer", "queue"}
              \/ (procPc \in {"body", "answer"} /\ procPc' \in {"answer", "queue"})
           /\ respPc' = respPc \/ respPc' \notin {"look", "pop", "again"}
              \/ (respPc \in {"look", "pop", "again"} /\ respPc' \in {"pop", "again"})
  <2>1. \A r \in Reqs : (AtProc(r)' => AtProc(r)) /\ (AtResp(r)' => AtResp(r))
    BY <1>1 DEF AtProc, AtResp
  <2>2. \A r : (Among(reqQueue', r) <=> Among(reqQueue, r)) /\ (Among(resQueue', r) <=> Among(resQueue, r))
    BY <1>1
  <2>3. PlaceInv'
    BY <1>1, <2>1, <2>2 DEF PlaceInv
  <2>4. RequestTypes'
    BY <1>1 DEF RequestTypes, HandlerPcs
  <2>5. QED
    BY <2>3, <2>4
<1>t. /\ reqQueue \in Seq(Nat) /\ resQueue \in Seq(Nat)
      /\ Len(reqQueue) \in Nat /\ Len(resQueue) \in Nat
  BY SeqFacts DEF RequestTypes, HandlerPcs
<1>2. ASSUME NEW req, Arrive(req) PROVE RequestTypes' /\ PlaceInv'
  <2>1. /\ Len(requests) \in Nat /\ Len(requests) < MaxReq /\ requests' = Append(requests, req)
        /\ UNCHANGED <<reqQueue, resQueue, procReq, procPc, respReq, respPc>>
    BY <1>2, AnyAppend DEF Arrive, queueVars, loopVars, RequestTypes
  <2>2. PICK p \in {"done", "lock"} : reqPc' = [reqPc EXCEPT ![Len(requests) + 1] = p]
    BY <1>2 DEF Arrive
  <2>3. Len(requests) + 1 \in Reqs /\ reqPc[Len(requests) + 1] = "none"
    BY <2>1, TcpClientAssumption DEF RequestTypes, Reqs, TcpClientAssumption
  <2>4. \A r \in Reqs : r # Len(requests) + 1 => reqPc'[r] = reqPc[r]
    BY <2>2 DEF RequestTypes, HandlerPcs
  <2>5. IsSeq(requests') /\ Len(requests') = Len(requests) + 1
    BY <2>1, AnyAppend DEF RequestTypes
  <2>6. reqPc' \in [Reqs -> HandlerPcs]
    BY <2>2 DEF RequestTypes, HandlerPcs
  <2>7. \A r \in Reqs : r > Len(requests') => reqPc'[r] = "none"
    <3>1. \A r \in Reqs : r > Len(requests) + 1 => r > Len(requests) /\ r # Len(requests) + 1
      BY <2>1 DEF Reqs
    <3>2. QED
      BY <2>4, <2>5, <3>1 DEF RequestTypes, HandlerPcs
  <2>8. RequestTypes'
    BY <2>1, <2>5, <2>6, <2>7 DEF RequestTypes, HandlerPcs
  <2>9. \A r \in Reqs : (AtProc(r)' <=> AtProc(r)) /\ (AtResp(r)' <=> AtResp(r))
    BY <2>1 DEF AtProc, AtResp
  <2>10. PlaceInv'
    BY <2>1, <2>3, <2>4, <2>9 DEF PlaceInv
  <2>11. QED
    BY <2>8, <2>10
<1>3. ASSUME NEW r \in Reqs, HandlerPush(r) PROVE RequestTypes' /\ PlaceInv'
  <2>1. /\ reqPc[r] = "lock"
        /\ UNCHANGED <<requests, reqQueue, resQueue, procReq, procPc, respReq, respPc>>
    BY <1>3 DEF HandlerPush, loopVars
  <2>2. PICK p \in {"done", "enqueue"} : reqPc' = [reqPc EXCEPT ![r] = p]
    BY <1>3 DEF HandlerPush
  <2>3. \A q \in Reqs : q # r => reqPc'[q] = reqPc[q]
    BY <2>2 DEF RequestTypes, HandlerPcs
  <2>4. reqPc' \in [Reqs -> HandlerPcs] /\ \A q \in Reqs : q > Len(requests) => reqPc'[q] = "none"
    BY <2>1, <2>2, <2>3 DEF RequestTypes, HandlerPcs
  <2>5. \A q \in Reqs : (AtProc(q)' <=> AtProc(q)) /\ (AtResp(q)' <=> AtResp(q))
    BY <2>1 DEF AtProc, AtResp
  <2>6. PlaceInv'
    BY <2>1, <2>3, <2>5 DEF PlaceInv
  <2>7. QED
    BY <2>1, <2>4, <2>6 DEF RequestTypes, HandlerPcs
<1>4. ASSUME NEW r \in Reqs, HandlerEnqueue(r) PROVE RequestTypes' /\ PlaceInv'
  <2>1. /\ reqPc[r] = "enqueue" /\ reqQueue' = Append(reqQueue, r)
        /\ reqPc' = [reqPc EXCEPT ![r] = "wait"]
        /\ UNCHANGED <<requests, resQueue, procReq, procPc, respReq, respPc>>
    BY <1>4 DEF HandlerEnqueue, T!AfterSend, loopVars
  <2>2. r \in Nat /\ r # Nil
    BY DEF Reqs, Nil
  <2>3. /\ ~Among(reqQueue, r) /\ ~Among(resQueue, r) /\ ~AtProc(r) /\ ~AtResp(r)
    BY <2>1 DEF PlaceInv
  <2>4. /\ \A q : Among(reqQueue', q) <=> Among(reqQueue, q) \/ q = r
        /\ Different(reqQueue')
    BY <1>t, <2>1, <2>2, <2>3, AmongAppend DEF PlaceInv
  <2>5. /\ reqPc' \in [Reqs -> HandlerPcs] /\ \A q \in Reqs : q # r => reqPc'[q] = reqPc[q]
        /\ reqPc'[r] = "wait"
    BY <2>1 DEF RequestTypes, HandlerPcs
  <2>6. \A q \in Reqs : (AtProc(q)' <=> AtProc(q)) /\ (AtResp(q)' <=> AtResp(q))
    BY <2>1 DEF AtProc, AtResp
  <2>7. PlaceInv'
    BY <2>1, <2>3, <2>4, <2>5, <2>6 DEF PlaceInv
  <2>8. reqQueue' \in Seq(Nat) /\ \A i \in 1 .. Len(reqQueue') : reqQueue'[i] \in Reqs
    BY <1>t, <2>1, <2>2, AppendFacts DEF RequestTypes, HandlerPcs
  <2>9. \A q \in Reqs : q > Len(requests) => reqPc'[q] = "none"
    BY <2>1, <2>5 DEF RequestTypes, HandlerPcs
  <2>10. QED
    BY <2>1, <2>5, <2>7, <2>8, <2>9 DEF RequestTypes, HandlerPcs
<1>5. CASE ProcPop
  <2>1. CASE /\ UNCHANGED <<requests, reqQueue, resQueue, reqPc, procReq, respReq, respPc>>
             /\ procPc' \in {"wait", "exit"}
    BY <1>1, <2>1
  <2>2. CASE /\ reqQueue # <<>> /\ procReq' = Head(reqQueue) /\ reqQueue' = Tail(reqQueue)
             /\ procPc \in {"pop", "wait"} /\ procPc' = "body"
             /\ UNCHANGED <<requests, resQueue, reqPc, respReq, respPc>>
    <3>1. /\ Among(reqQueue, Head(reqQueue))
          /\ \A r : Among(reqQueue, r) <=> Among(reqQueue', r) \/ r = Head(reqQueue)
          /\ Different(reqQueue') /\ (Head(reqQueue) = Nil \/ ~Among(reqQueue', Head(reqQueue)))
      BY <1>t, <2>2, AmongTail DEF PlaceInv
    <3>2. /\ procReq' \in Reqs /\ procReq' \in Nat /\ reqQueue' \in Seq(Nat) /\ procReq' # Nil
          /\ \A i \in 1 .. Len(reqQueue') : reqQueue'[i] \in Reqs
      BY <1>t, <2>2, TailFacts, SeqFacts DEF RequestTypes, Reqs, Nil
    <3>3. \A r \in Reqs : /\ AtProc(r)' <=> r = Head(reqQueue)
                          /\ AtResp(r)' <=> AtResp(r)
      BY <2>2 DEF AtProc, AtResp
    <3>4. PlaceInv'
      BY <2>2, <3>1, <3>2, <3>3 DEF PlaceInv
    <3>5. QED
      BY <2>2, <3>2, <3>4 DEF RequestTypes, HandlerPcs
  <2>3. QED
    BY <1>5, <2>1, <2>2 DEF ProcPop, notProc
<1>6. CASE ProcQueue
  <2>1. CASE /\ procPc = "queue" /\ procPc' = "check" /\ resQueue' = Append(resQueue, procReq)
             /\ UNCHANGED <<requests, reqQueue, reqPc, procReq, respReq, respPc>>
    <3>1. procReq \in Reqs /\ procReq \in Nat /\ AtProc(procReq)
      BY <2>1 DEF RequestTypes, AtProc
    <3>2. /\ \A q : Among(resQueue', q) <=> Among(resQueue, q) \/ q = procReq
          /\ Different(resQueue')
      BY <1>t, <2>1, <3>1, AmongAppend DEF PlaceInv
    <3>3. \A q \in Reqs : ~AtProc(q)' /\ (AtResp(q)' <=> AtResp(q))
      BY <2>1 DEF AtProc, AtResp
    <3>4. PlaceInv'
      BY <2>1, <3>1, <3>2, <3>3 DEF PlaceInv
    <3>5. resQueue' \in Seq(Nat) /\ \A i \in 1 .. Len(resQueue') : resQueue'[i] \in Reqs \cup {Nil}
      <4>1. procReq \in Nat /\ procReq \in Reqs \cup {Nil}
        BY <3>1 DEF Nil
      <4>2. /\ resQueue' \in Seq(Nat) /\ Len(resQueue') = Len(resQueue) + 1
            /\ \A i \in 1 .. Len(resQueue) : resQueue'[i] = resQueue[i]
            /\ resQueue'[Len(resQueue) + 1] = procReq
        BY <1>t, <2>1, <4>1, AppendFacts
      <4>3. \A i \in 1 .. Len(resQueue) : resQueue[i] \in Reqs \cup {Nil}
        BY DEF RequestTypes
      <4>4. ASSUME NEW i \in 1 .. Len(resQueue')
            PROVE  resQueue'[i] \in Reqs \cup {Nil}
        <5>1. i \in 1 .. Len(resQueue) \/ i = Len(resQueue) + 1
          BY <1>t, <4>2
        <5>2. QED
          BY <4>1, <4>2, <4>3, <5>1
      <4>5. QED
        BY <4>2, <4>4
    <3>6. QED
      BY <2>1, <3>4, <3>5 DEF RequestTypes, HandlerPcs
  <2>2. CASE /\ procPc = "exit" /\ procPc' = "done" /\ resQueue' = Append(resQueue, Nil)
             /\ UNCHANGED <<requests, reqQueue, reqPc, procReq, respReq, respPc>>
    <3>1. /\ \A q \in Reqs : Among(resQueue', q) <=> Among(resQueue, q)
          /\ Different(resQueue')
      BY <1>t, <2>2, AmongAppend DEF PlaceInv, Nil, Reqs
    <3>2. \A q \in Reqs : (AtProc(q)' <=> AtProc(q)) /\ (AtResp(q)' <=> AtResp(q))
      BY <2>2 DEF AtProc, AtResp
    <3>3. PlaceInv'
      BY <2>2, <3>1, <3>2 DEF PlaceInv
    <3>4. resQueue' \in Seq(Nat) /\ \A i \in 1 .. Len(resQueue') : resQueue'[i] \in Reqs \cup {Nil}
      <4>1. Nil \in Nat /\ Nil \in Reqs \cup {Nil}
        BY DEF Nil
      <4>2. /\ resQueue' \in Seq(Nat) /\ Len(resQueue') = Len(resQueue) + 1
            /\ \A i \in 1 .. Len(resQueue) : resQueue'[i] = resQueue[i]
            /\ resQueue'[Len(resQueue) + 1] = Nil
        BY <1>t, <2>2, <4>1, AppendFacts
      <4>3. \A i \in 1 .. Len(resQueue) : resQueue[i] \in Reqs \cup {Nil}
        BY DEF RequestTypes
      <4>4. ASSUME NEW i \in 1 .. Len(resQueue')
            PROVE  resQueue'[i] \in Reqs \cup {Nil}
        <5>1. i \in 1 .. Len(resQueue) \/ i = Len(resQueue) + 1
          BY <1>t, <4>2
        <5>2. QED
          BY <4>1, <4>2, <4>3, <5>1
      <4>5. QED
        BY <4>2, <4>4
    <3>5. QED
      BY <2>2, <3>3, <3>4 DEF RequestTypes, HandlerPcs
  <2>3. QED
    BY <1>6, <2>1, <2>2 DEF ProcQueue, T!AfterSend, notProc
<1>7. CASE RespNext
  <2>1. /\ respPc = "next" /\ resQueue # <<>> /\ respReq' = Head(resQueue)
        /\ resQueue' = Tail(resQueue)
        /\ respPc' = IF Head(resQueue) = Nil THEN "done" ELSE "look"
        /\ UNCHANGED <<requests, reqQueue, reqPc, procReq, procPc>>
    BY <1>7 DEF RespNext, notResp
  <2>2. /\ Among(resQueue, Head(resQueue))
        /\ \A r : Among(resQueue, r) <=> Among(resQueue', r) \/ r = Head(resQueue)
        /\ Different(resQueue') /\ (Head(resQueue) = Nil \/ ~Among(resQueue', Head(resQueue)))
    BY <1>t, <2>1, AmongTail DEF PlaceInv
  <2>3. /\ respReq' \in Reqs \cup {Nil} /\ respReq' \in Nat /\ resQueue' \in Seq(Nat)
        /\ \A i \in 1 .. Len(resQueue') : resQueue'[i] \in Reqs \cup {Nil}
    BY <1>t, <2>1, TailFacts, SeqFacts DEF RequestTypes, HandlerPcs
  <2>4. \A r \in Reqs : /\ AtResp(r)' => r = Head(resQueue) /\ Head(resQueue) # Nil
                        /\ AtProc(r)' <=> AtProc(r)
    BY <2>1 DEF AtProc, AtResp
  <2>5. PlaceInv'
    BY <2>1, <2>2, <2>3, <2>4 DEF PlaceInv
  <2>6. QED
    BY <2>1, <2>3, <2>5 DEF RequestTypes, HandlerPcs
<1>8. CASE RespFinish
  <2>1. /\ respPc = "pop" /\ respPc' = "next" /\ reqPc' = [reqPc EXCEPT ![respReq] = "done"]
        /\ UNCHANGED <<requests, reqQueue, resQueue, procReq, procPc, respReq>>
    BY <1>8 DEF RespFinish, notResp
  <2>2. respReq \in Reqs /\ AtResp(respReq)
    BY <2>1 DEF RequestTypes, AtResp
  <2>3. /\ ~Among(reqQueue, respReq) /\ ~Among(resQueue, respReq) /\ ~AtProc(respReq)
        /\ reqPc[respReq] = "wait"
    BY <2>2 DEF PlaceInv
  <2>4. /\ reqPc' \in [Reqs -> HandlerPcs] /\ \A q \in Reqs : q # respReq => reqPc'[q] = reqPc[q]
    BY <2>1 DEF RequestTypes, HandlerPcs
  <2>5. \A q \in Reqs : (AtProc(q)' <=> AtProc(q)) /\ ~AtResp(q)'
    BY <2>1 DEF AtProc, AtResp
  <2>6. PlaceInv'
    BY <2>1, <2>3, <2>4, <2>5 DEF PlaceInv
  <2>7. \A q \in Reqs : q > Len(requests) => reqPc'[q] = "none"
    BY <2>1, <2>2, <2>3, <2>4 DEF RequestTypes, HandlerPcs
  <2>8. QED
    BY <2>1, <2>4, <2>6, <2>7 DEF RequestTypes, HandlerPcs
<1>9. CASE ProcCheck \/ ProcBody \/ ProcBodyCut \/ ProcAnswer
  BY <1>1, <1>9 DEF ProcCheck, ProcBody, ProcBodyCut, ProcAnswer, notProc
<1>10. CASE RespLook \/ RespWrite \/ RespAgain
  BY <1>1, <1>10 DEF RespLook, RespWrite, RespAgain, notResp
<1>11. CASE CheckLoop \/ Expire \/ ProxyBody \/ Target \/ UNCHANGED vars
  BY <1>1, <1>11 DEF CheckLoop, CheckTick, CheckSync, CheckProxy, notCheck, Expire, ProxyBody,
     Target, notProxy, queueVars, loopVars, handlerVars, vars
<1>12. CASE Client
  BY <1>2, <1>12 DEF Client, SendsNext, SendsAgain
<1>13. QED
  BY <1>3, <1>4, <1>5, <1>6, <1>7, <1>8, <1>9, <1>10, <1>11, <1>12
     DEF Next, Handler, ProcessLoop, ResponseLoop


\* No loop holds the request of a handler that returned, since a request is in
\* one place only and its handler waits for as long as it is.
THEOREM ReturnedIsUnusedCorrect == Spec => []ReturnedIsUnused
<1>1. Init => RequestTypes /\ PlaceInv
  BY PlaceInit
<1>2. (RequestTypes /\ PlaceInv) /\ [Next]_vars => (RequestTypes /\ PlaceInv)'
  BY PlaceStep
<1>3. RequestTypes /\ PlaceInv => ReturnedIsUnused
  <2>1. SUFFICES ASSUME RequestTypes, PlaceInv, NEW r \in Reqs, reqPc[r] = "done"
                 PROVE  /\ r \notin Range(reqQueue) /\ r \notin Range(resQueue)
                        /\ ~AtProc(r) /\ ~AtResp(r)
    BY DEF ReturnedIsUnused, AtProc, AtResp
  <2>2. /\ ~Among(reqQueue, r) /\ ~Among(resQueue, r) /\ ~AtProc(r) /\ ~AtResp(r)
    BY <2>1 DEF PlaceInv
  <2>3. /\ DOMAIN reqQueue = 1 .. Len(reqQueue)
        /\ DOMAIN resQueue = 1 .. Len(resQueue)
    BY <2>1, SeqFacts DEF RequestTypes
  <2>4. QED
    BY <2>2, <2>3 DEF Among, Range
<1>4. QED
  BY <1>1, <1>2, <1>3, PTL DEF Spec

-----------------------------------------------------------------------------
(* The way up: what of the requests has reached the tcpProxy.              *)

\* A request that was accepted: its body is still to be read, or it is still to
\* be answered.
Pending(r) ==
    reqPc[r] = "enqueue" \/ Among(reqQueue, r) \/ (procReq = r /\ procPc = "body")
Busy(r) == Pending(r) \/ (procReq = r /\ procPc = "answer")

LastSeq == IF requests = <<>> THEN 0 ELSE Last.seq
LastDn == IF requests = <<>> THEN Nil ELSE Last.dn

\* Seq numbers grow, a request that is sent again carries the same block, and the
\* client is one request ahead of those accepted at most.
SeqInv ==
    /\ \A r \in 1 .. Len(requests) : requests[r] \in [seq : Nat, dn : Nat]
    /\ \A r \in 1 .. Len(requests) :
          /\ requests[r].seq <= LastSeq
          /\ requests[r].seq = LastSeq => requests[r].dn = LastDn
    /\ seqNumber \in Nat /\ LastSeq \in {seqNumber, seqNumber + 1}

\* At most one accepted request is to be answered: it has the last seq number
\* accepted, and no response to that was started.
BusyInv ==
    /\ status \in [Reqs -> {"none", "ok", "error"}]
    /\ \A r \in Reqs : Busy(r) =>
          /\ r <= Len(requests)
          /\ requests[r].seq = seqNumber /\ LastSeq = seqNumber
          /\ \A q \in Reqs : Busy(q) => q = r
    /\ \A q \in Reqs : status[q] = "ok" =>
          /\ q <= Len(requests) /\ requests[q].seq <= seqNumber
          /\ requests[q].seq = seqNumber => \A r \in Reqs : ~Busy(r)

\* The blocks of the requests are 1, 2, ..., Sent.
SentInv ==
    /\ Sent \in Nat
    /\ {requests[r].dn : r \in DOMAIN requests} \ {Nil} = 1 .. Sent

\* The last request is still to be accepted, or its body to be read.
Ahead == LastSeq = seqNumber + 1 \/ \E r \in Reqs : Pending(r)

\* Every block that was sent was pushed, but for the one of such a request; once a
\* body was cut off, there is none to come.
PushInv ==
    /\ pushed \in Nat
    /\ ~Ahead /\ ~clientGone => pushed = Sent
    /\ Ahead => /\ ~clientGone
                /\ LastDn = Nil => pushed = Sent
                /\ LastDn # Nil => LastDn = Sent /\ pushed = Sent - 1

UpInv == SeqInv /\ BusyInv /\ SentInv /\ PushInv

LEMMA UpInit == Init => UpInv
<1> SUFFICES ASSUME Init PROVE UpInv
  OBVIOUS
<1>1. /\ requests = <<>> /\ Len(requests) = 0 /\ DOMAIN requests = {}
      /\ seqNumber = 0 /\ pushed = 0 /\ ~clientGone /\ LastSeq = 0
  BY DEF Init, T!Init, LastSeq
<1>2. \A r \in Reqs : ~Busy(r) /\ ~Pending(r) /\ status[r] = "none"
  <2>1. reqQueue = <<>> /\ procPc = "check" /\ \A r \in Reqs : reqPc[r] = "none" /\ status[r] = "none"
    BY DEF Init
  <2>2. Len(reqQueue) = 0
    BY <2>1
  <2>3. QED
    BY <2>1, <2>2 DEF Busy, Pending, Among
<1>3. Sent = 0
  <2>1. {requests[r].dn : r \in DOMAIN requests} \ {Nil} = {}
    BY <1>1
  <2>2. QED
    BY <2>1, FS_EmptySet DEF Sent
<1>4. SentInv
  BY <1>1, <1>3 DEF SentInv
<1>5. SeqInv
  BY <1>1 DEF SeqInv
<1>6. BusyInv
  <2>1. status = [r \in Reqs |-> "none"]
    BY DEF Init
  <2>2. QED
    BY <1>2, <2>1 DEF BusyInv
<1>7. PushInv
  BY <1>1, <1>2, <1>3 DEF PushInv, Ahead
<1>8. QED
  BY <1>4, <1>5, <1>6, <1>7 DEF UpInv

\* A step that leaves the requests alone and neither accepts nor answers one.
LEMMA UpKeeps ==
  ASSUME UpInv, UNCHANGED <<requests, seqNumber, status, pushed, clientGone>>,
         \A r \in Reqs : (Busy(r)' => Busy(r)) /\ (Pending(r)' <=> Pending(r))
  PROVE  UpInv'
<1>1. LastSeq' = LastSeq /\ LastDn' = LastDn /\ Sent' = Sent
  BY DEF LastSeq, LastDn, Last, Sent
<1>2. Ahead' <=> Ahead
  BY <1>1 DEF Ahead
<1>3. SeqInv' /\ SentInv' /\ PushInv'
  BY <1>1, <1>2 DEF UpInv, SeqInv, SentInv, PushInv
<1>4. BusyInv'
  BY <1>1 DEF UpInv, BusyInv
<1>5. QED
  BY <1>3, <1>4 DEF UpInv

\* A request arrives: a new one, after the last was answered, or the last again.
LEMMA SentStep ==
  ASSUME RequestTypes, SentInv, NEW req, requests' = Append(requests, req),
         req.dn \in {Nil, Sent + 1} \/ \E r \in DOMAIN requests : requests[r].dn = req.dn
  PROVE  /\ SentInv' 
         /\ Sent' = IF req.dn = Sent + 1 THEN Sent + 1 ELSE Sent
<1> DEFINE D == {requests[r].dn : r \in DOMAIN requests} \ {Nil}
<1>1. /\ Len(requests) \in Nat /\ DOMAIN requests = 1 .. Len(requests)
      /\ DOMAIN requests' = 1 .. Len(requests) + 1
      /\ \A i \in 1 .. Len(requests) : requests'[i] = requests[i]
      /\ requests'[Len(requests) + 1] = req
  BY AnyAppend DEF RequestTypes
<1>2. D = 1 .. Sent /\ Sent \in Nat
  BY DEF SentInv
<1>3. D' = (D \cup {req.dn}) \ {Nil}
  BY <1>1
<1>4. CASE req.dn = Sent + 1
  <2>1. D' = 1 .. Sent + 1
    <3>1. 1 .. Sent + 1 = (1 .. Sent) \cup {Sent + 1} /\ Sent + 1 # Nil /\ Nil \notin D
      BY <1>2 DEF Nil
    <3>2. QED
      BY <1>2, <1>3, <1>4, <3>1
  <2>2. Cardinality(1 .. Sent + 1) = Sent + 1
    BY <1>2, FS_Interval
  <2>3. Sent' = Sent + 1
    BY <2>1, <2>2 DEF Sent
  <2>4. QED
    BY <1>2, <1>4, <2>1, <2>3 DEF SentInv
<1>5. CASE req.dn # Sent + 1
  <2>1. req.dn = Nil \/ req.dn \in D
    BY <1>5
  <2>2. D' = D
    BY <1>2, <1>3, <2>1 DEF Nil
  <2>3. Sent' = Sent
    BY <2>2 DEF Sent
  <2>4. QED
    BY <1>2, <1>5, <2>2, <2>3 DEF SentInv
<1>6. QED
  BY <1>4, <1>5

LEMMA UpClient ==
  ASSUME RequestTypes, PlaceInv, UpInv, Client
  PROVE  UpInv'
<1>1. PICK req : Arrive(req) /\ \/ requests = <<>> /\ req \in FreshRequests
                                \/ requests # <<>> /\ LastStatus = "ok" /\ req \in FreshRequests
                                \/ requests # <<>> /\ req = Last
  <2>1. CASE SendsNext
    <3>1. PICK req \in FreshRequests : Arrive(req)
      BY <2>1 DEF SendsNext
    <3>2. requests = <<>> \/ LastStatus = "ok"
      BY <2>1 DEF SendsNext
    <3>3. QED
      BY <3>1, <3>2
  <2>2. CASE SendsAgain
    BY <2>2 DEF SendsAgain
  <2>3. QED
    BY <2>1, <2>2 DEF Client
<1>a. Arrive(req)
  BY <1>1
<1>2. /\ Len(requests) \in Nat /\ Len(requests) < MaxReq /\ ~clientGone /\ requests' = Append(requests, req)
      /\ UNCHANGED <<seqNumber, pushed, clientGone, reqQueue, procReq, procPc>>
  <2>1. Len(requests) \in Nat
    BY AnyAppend DEF RequestTypes
  <2>2. QED
    BY <1>a, <2>1 DEF Arrive, queueVars, loopVars, proxyVars
<1>3. /\ Len(requests') = Len(requests) + 1 /\ requests' # <<>>
      /\ \A i \in 1 .. Len(requests) : requests'[i] = requests[i]
      /\ requests'[Len(requests) + 1] = req
  <2>1. /\ IsSeq(requests') /\ Len(requests') = Len(requests) + 1
        /\ \A i \in 1 .. Len(requests) : requests'[i] = requests[i]
        /\ requests'[Len(requests) + 1] = req
    BY <1>2, AnyAppend DEF RequestTypes
  <2>2. Len(<<>>) = 0
    OBVIOUS
  <2>3. QED
    BY <1>2, <2>1, <2>2
<1>4. LastSeq' = req.seq /\ LastDn' = req.dn
  BY <1>3 DEF LastSeq, LastDn, Last
<1>5. requests # <<>> => Len(requests) \in 1 .. Len(requests) /\ Last = requests[Len(requests)]
  <2>1. requests # <<>> => Len(requests) # 0
    BY EmptySeq DEF RequestTypes, IsSeq
  <2>2. QED
    BY <1>2, <2>1 DEF Last
<1>6. /\ \A r \in Reqs : (Busy(r)' <=> Busy(r)) /\ (Pending(r)' <=> Pending(r))
      /\ \A r \in Reqs : status'[r] = "ok" => status[r] = "ok"
      /\ status' \in [Reqs -> {"none", "ok", "error"}]
  <2>1. Len(requests) + 1 \in Reqs /\ reqPc[Len(requests) + 1] = "none"
    BY <1>2, TcpClientAssumption DEF RequestTypes, Reqs, TcpClientAssumption
  <2>2. PICK p \in {"done", "lock"} : reqPc' = [reqPc EXCEPT ![Len(requests) + 1] = p]
    BY <1>a DEF Arrive
  <2>3. \A r \in Reqs : reqPc'[r] = "enqueue" <=> reqPc[r] = "enqueue"
    BY <2>1, <2>2 DEF RequestTypes
  <2>4. /\ \A r \in Reqs : status'[r] = "ok" => status[r] = "ok"
        /\ status' \in [Reqs -> {"none", "ok", "error"}]
    <3>1. UNCHANGED status \/ status' = [status EXCEPT ![Len(requests) + 1] = "error"]
      BY <1>a DEF Arrive
    <3>2. QED
      BY <3>1 DEF UpInv, BusyInv
  <2>5. QED
    BY <1>2, <2>3, <2>4 DEF Busy, Pending, Among
<1>7. CASE req \in FreshRequests /\ (requests = <<>> \/ LastStatus = "ok")
  <2>1. /\ req.seq = LastSeq + 1 /\ req.dn \in {Nil, Sent + 1}
        /\ req = [seq |-> req.seq, dn |-> req.dn]
    BY <1>7 DEF FreshRequests, LastSeq
  <2>2. /\ LastSeq = seqNumber /\ \A r \in Reqs : ~Busy(r)
    <3>1. CASE requests = <<>>
      <4>1. LastSeq = 0 /\ Len(requests) = 0
        BY <3>1 DEF LastSeq
      <4>2. QED
        BY <4>1 DEF UpInv, SeqInv, BusyInv, Reqs
    <3>2. CASE requests # <<>> /\ LastStatus = "ok"
      <4>1. Len(requests) \in Reqs /\ status[Len(requests)] = "ok" /\ requests[Len(requests)].seq = LastSeq
        BY <1>2, <1>5, <3>2, TcpClientAssumption DEF LastStatus, LastSeq, Reqs, TcpClientAssumption
      <4>2. QED
        BY <4>1 DEF UpInv, SeqInv, BusyInv
    <3>3. QED
      BY <1>7, <3>1, <3>2
  <2>3. ~Ahead /\ pushed = Sent /\ Sent \in Nat /\ LastSeq \in Nat
    BY <1>2, <2>2 DEF UpInv, PushInv, SentInv, SeqInv, Ahead, Busy
  <2>4. SentInv' /\ Sent' = IF req.dn = Sent + 1 THEN Sent + 1 ELSE Sent
    BY <1>2, <2>1, SentStep DEF UpInv
  <2>5. SeqInv'
    <3>1. req \in [seq : Nat, dn : Nat]
      BY <2>1, <2>3 DEF Nil
    <3>2. \A r \in 1 .. Len(requests') :
             /\ requests'[r] \in [seq : Nat, dn : Nat]
             /\ requests'[r].seq <= req.seq
             /\ requests'[r].seq = req.seq => requests'[r].dn = req.dn
      <4>1. SUFFICES ASSUME NEW r \in 1 .. Len(requests')
                     PROVE  /\ requests'[r] \in [seq : Nat, dn : Nat]
                            /\ requests'[r].seq <= req.seq
                            /\ requests'[r].seq = req.seq => requests'[r].dn = req.dn
        OBVIOUS
      <4>2. CASE r = Len(requests) + 1
        BY <1>3, <3>1, <4>2
      <4>3. CASE r \in 1 .. Len(requests)
        <5>1. requests'[r] = requests[r] /\ requests[r] \in [seq : Nat, dn : Nat]
              /\ requests[r].seq <= LastSeq
          BY <1>3, <4>3 DEF UpInv, SeqInv
        <5>2. QED
          BY <2>1, <2>3, <5>1
      <4>4. QED
        BY <1>2, <1>3, <4>2, <4>3
    <3>3. seqNumber' \in Nat /\ LastSeq' = seqNumber' + 1
      BY <1>2, <1>4, <2>1, <2>2, <2>3
    <3>4. QED
      BY <1>4, <3>2, <3>3 DEF SeqInv
  <2>6. BusyInv'
    <3>1. \A r \in Reqs : ~Busy(r)'
      BY <1>6, <2>2
    <3>2. \A q \in Reqs : status'[q] = "ok" => q <= Len(requests) /\ requests[q].seq <= seqNumber
      BY <1>6 DEF UpInv, BusyInv
    <3>3. \A q \in Reqs : q <= Len(requests) => q \in 1 .. Len(requests)
      BY <1>2 DEF Reqs
    <3>4. \A q \in Reqs : status'[q] = "ok" => q <= Len(requests') /\ requests'[q].seq <= seqNumber'
      BY <1>2, <1>3, <3>2, <3>3 DEF Reqs
    <3>5. QED
      BY <1>6, <3>1, <3>4 DEF BusyInv
  <2>7. PushInv'
    <3>1. pushed' = Sent /\ LastDn' = req.dn /\ ~clientGone' /\ LastSeq' = seqNumber' + 1
      BY <1>2, <1>4, <2>1, <2>2, <2>3
    <3>2. Ahead'
      BY <3>1 DEF Ahead
    <3>3. QED
      BY <2>1, <2>3, <2>4, <3>1, <3>2 DEF PushInv, Nil
  <2>8. QED
    BY <2>4, <2>5, <2>6, <2>7 DEF UpInv
<1>8. CASE requests # <<>> /\ req = Last
  <2>1. /\ LastSeq' = LastSeq /\ LastDn' = LastDn /\ req.seq = LastSeq /\ req.dn = LastDn
        /\ req \in [seq : Nat, dn : Nat]
    BY <1>4, <1>5, <1>8 DEF LastSeq, LastDn, UpInv, SeqInv
  <2>2. SentInv' /\ Sent' = IF req.dn = Sent + 1 THEN Sent + 1 ELSE Sent
    <3>1. \E r \in DOMAIN requests : requests[r].dn = req.dn
      <4>1. Len(requests) \in DOMAIN requests
        BY <1>5, <1>8, LenProperties DEF RequestTypes, IsSeq
      <4>2. QED
        BY <1>5, <1>8, <4>1
    <3>2. QED
      BY <1>2, <3>1, SentStep DEF UpInv
  <2>3. Sent' = Sent
    <3>1. req.dn \in {Nil} \cup 1 .. Sent /\ Sent \in Nat
      <4>1. Len(requests) \in DOMAIN requests
        BY <1>5, <1>8, LenProperties DEF RequestTypes, IsSeq
      <4>2. req.dn \in {requests[r].dn : r \in DOMAIN requests}
        BY <1>5, <1>8, <4>1
      <4>3. QED
        BY <4>2 DEF UpInv, SentInv
    <3>2. QED
      BY <2>2, <3>1 DEF Nil
  <2>4. SeqInv'
    <3>1. \A r \in 1 .. Len(requests') :
             /\ requests'[r] \in [seq : Nat, dn : Nat]
             /\ requests'[r].seq <= LastSeq
             /\ requests'[r].seq = LastSeq => requests'[r].dn = LastDn
      <4>1. SUFFICES ASSUME NEW r \in 1 .. Len(requests')
                     PROVE  /\ requests'[r] \in [seq : Nat, dn : Nat]
                            /\ requests'[r].seq <= LastSeq
                            /\ requests'[r].seq = LastSeq => requests'[r].dn = LastDn
        OBVIOUS
      <4>2. CASE r = Len(requests) + 1
        BY <1>3, <2>1, <4>2
      <4>3. CASE r \in 1 .. Len(requests)
        BY <1>3, <4>3 DEF UpInv, SeqInv
      <4>4. QED
        BY <1>2, <1>3, <4>2, <4>3
    <3>2. QED
      BY <1>2, <2>1, <3>1 DEF UpInv, SeqInv
  <2>5. BusyInv'
    <3>1. \A q \in Reqs : q <= Len(requests) => requests'[q] = requests[q] /\ q <= Len(requests')
      <4>1. \A q \in Reqs : q <= Len(requests) => q \in 1 .. Len(requests)
        BY <1>2 DEF Reqs
      <4>2. QED
        BY <1>2, <1>3, <4>1 DEF Reqs
    <3>2. QED
      BY <1>2, <1>6, <2>1, <3>1 DEF UpInv, BusyInv
  <2>6. PushInv'
    <3>1. Ahead' <=> Ahead
      BY <1>2, <1>6, <2>1 DEF Ahead
    <3>2. QED
      BY <1>2, <2>1, <2>3, <3>1 DEF UpInv, PushInv
  <2>7. QED
    BY <2>2, <2>4, <2>5, <2>6 DEF UpInv
<1>9. QED
  BY <1>1, <1>7, <1>8

\* The handler of a request is given its turn.
LEMMA UpPush ==
  ASSUME RequestTypes, PlaceInv, UpInv, NEW r \in Reqs, HandlerPush(r)
  PROVE  UpInv'
<1>1. /\ reqPc[r] = "lock" /\ r \in 1 .. Len(requests)
      /\ UNCHANGED <<requests, reqQueue, procReq, procPc, pushed, clientGone>>
  <2>1. /\ reqPc[r] = "lock"
        /\ UNCHANGED <<requests, reqQueue, procReq, procPc, pushed, clientGone>>
    BY DEF HandlerPush, loopVars, proxyVars
  <2>2. Len(requests) \in Nat /\ r \in Nat /\ r > 0 /\ ~(r > Len(requests))
    BY <2>1, AnyAppend DEF RequestTypes, Reqs
  <2>3. QED
    BY <2>1, <2>2
<1>2. LastSeq' = LastSeq /\ LastDn' = LastDn /\ Sent' = Sent
  BY <1>1 DEF LastSeq, LastDn, Last, Sent
<1>3. CASE /\ requests[r].seq = seqNumber + 1 /\ seqNumber' = seqNumber + 1
           /\ reqPc' = [reqPc EXCEPT ![r] = "enqueue"] /\ UNCHANGED status
  <2>1. /\ LastSeq = seqNumber + 1 /\ seqNumber \in Nat
        /\ requests[r] \in [seq : Nat, dn : Nat]
    BY <1>1, <1>3 DEF UpInv, SeqInv
  <2>2. \A q \in Reqs : ~Busy(q)
    BY <2>1 DEF UpInv, BusyInv
  <2>3. /\ \A q \in Reqs : Busy(q)' => q = r
        /\ Pending(r)'
    BY <1>1, <1>3, <2>2 DEF Busy, Pending, Among, RequestTypes
  <2>4. Ahead /\ Ahead'
    BY <2>1, <2>3 DEF Ahead
  <2>5. SeqInv' /\ SentInv' /\ PushInv'
    BY <1>1, <1>2, <1>3, <2>1, <2>4 DEF UpInv, SeqInv, SentInv, PushInv
  <2>6. /\ r <= Len(requests') /\ requests'[r].seq = seqNumber' /\ LastSeq' = seqNumber'
    BY <1>1, <1>2, <1>3, <2>1 DEF Reqs
  <2>7. \A q \in Reqs : status'[q] = "ok" =>
           /\ q <= Len(requests') /\ requests'[q].seq <= seqNumber' /\ requests'[q].seq # seqNumber'
    <3>1. SUFFICES ASSUME NEW q \in Reqs, status[q] = "ok"
                   PROVE  q <= Len(requests) /\ requests[q].seq <= seqNumber + 1
                          /\ requests[q].seq # seqNumber + 1
      BY <1>1, <1>3
    <3>2. q <= Len(requests) /\ requests[q].seq <= seqNumber
      BY <3>1 DEF UpInv, BusyInv
    <3>3. q \in 1 .. Len(requests)
      BY <1>1, <3>2 DEF Reqs
    <3>4. requests[q].seq \in Nat
      BY <3>3 DEF UpInv, SeqInv
    <3>5. QED
      BY <2>1, <3>2, <3>4
  <2>8. BusyInv'
    BY <1>3, <2>3, <2>6, <2>7 DEF UpInv, BusyInv
  <2>9. QED
    BY <2>5, <2>8 DEF UpInv
<1>4. CASE /\ UNCHANGED seqNumber /\ reqPc' = [reqPc EXCEPT ![r] = "done"]
           /\ status' = [status EXCEPT ![r] = "error"]
  <2>1. \A q \in Reqs : (Busy(q)' <=> Busy(q)) /\ (Pending(q)' <=> Pending(q))
    BY <1>1, <1>4 DEF Busy, Pending, Among, RequestTypes
  <2>2. Ahead' <=> Ahead
    BY <1>2, <1>4, <2>1 DEF Ahead
  <2>3. SeqInv' /\ SentInv' /\ PushInv'
    BY <1>1, <1>2, <1>4, <2>2 DEF UpInv, SeqInv, SentInv, PushInv
  <2>4. /\ \A q \in Reqs : status'[q] = "ok" => status[q] = "ok"
        /\ status' \in [Reqs -> {"none", "ok", "error"}]
    BY <1>4 DEF UpInv, BusyInv
  <2>5. BusyInv'
    BY <1>1, <1>2, <1>4, <2>1, <2>4 DEF UpInv, BusyInv
  <2>6. QED
    BY <2>3, <2>5 DEF UpInv
<1>5. QED
  BY <1>3, <1>4 DEF HandlerPush, ValidSeq

\* processLoop reads the body of a request, or what it gets of it, and goes on to
\* answer it: if it pushes a block, it is the next one.
LEMMA UpBody ==
  ASSUME RequestTypes, PlaceInv, UpInv, ProcBody \/ ProcBodyCut
  PROVE  /\ UpInv' 
         /\ UNCHANGED proxyVars \/ T!PushData(pushed + 1)
<1>1. /\ procPc = "body" /\ procPc' = "answer" /\ procReq \in Reqs
      /\ UNCHANGED <<requests, reqQueue, procReq, reqPc, seqNumber, status>>
  BY DEF ProcBody, ProcBodyCut, notProc, RequestTypes
<1>2. LastSeq' = LastSeq /\ LastDn' = LastDn /\ Sent' = Sent
  BY <1>1 DEF LastSeq, LastDn, Last, Sent
<1>3. /\ Pending(procReq) /\ Busy(procReq)
      /\ \A r \in Reqs : Busy(r) => r = procReq
      /\ procReq <= Len(requests) /\ requests[procReq].seq = LastSeq /\ LastSeq = seqNumber
  <2>1. Pending(procReq) /\ Busy(procReq)
    BY <1>1 DEF Pending, Busy
  <2>2. QED
    BY <1>1, <2>1 DEF UpInv, BusyInv
<1>4. requests[procReq].dn = LastDn /\ seqNumber \in Nat /\ Sent \in Nat /\ LastDn \in Nat
  <2>1. Len(requests) \in Nat /\ procReq \in Nat \ {0}
    BY <1>1, AnyAppend DEF RequestTypes, Reqs
  <2>2. procReq \in 1 .. Len(requests)
    BY <1>3, <2>1
  <2>3. QED
    BY <1>3, <2>2 DEF UpInv, SeqInv, SentInv
<1>5. Ahead
  BY <1>1, <1>3 DEF Ahead
<1>6. \A r \in Reqs : Busy(r)' => Busy(r)
  BY <1>1 DEF Busy, Pending, Among
<1>7. ~Ahead'
  <2>1. \A r \in Reqs : Pending(r)' => r = procReq
    BY <1>3, <1>6 DEF Busy
  <2>2. \A r \in Reqs : r = procReq => ~Pending(r)'
    <3>1. reqPc[procReq] = "wait" /\ ~Among(reqQueue, procReq)
      BY <1>1 DEF PlaceInv, AtProc
    <3>2. QED
      BY <1>1, <3>1 DEF Pending, Among
  <2>3. LastSeq' # seqNumber' + 1
    BY <1>1, <1>2, <1>3, <1>4
  <2>4. QED
    BY <2>1, <2>2, <2>3 DEF Ahead
<1>8. SeqInv' /\ SentInv' /\ BusyInv'
  <2>1. SeqInv' /\ SentInv'
    BY <1>1, <1>2 DEF UpInv, SeqInv, SentInv
  <2>2. QED
    BY <1>1, <1>2, <1>6, <2>1 DEF UpInv, BusyInv
<1>9. CASE ProcBody
  <2>1. clientGone' = clientGone
    BY <1>9 DEF ProcBody
  <2>2. CASE LastDn = Nil
    <3>1. UNCHANGED proxyVars
      BY <1>4, <1>9, <2>2 DEF ProcBody
    <3>2. pushed = Sent /\ pushed' = pushed
      BY <1>5, <2>2, <3>1 DEF UpInv, PushInv, proxyVars
    <3>3. PushInv'
      BY <1>2, <1>4, <1>7, <3>2 DEF PushInv
    <3>4. QED
      BY <1>8, <3>1, <3>3 DEF UpInv
  <2>3. CASE LastDn # Nil
    <3>1. T!PushData(LastDn)
      BY <1>4, <1>9, <2>3 DEF ProcBody
    <3>2. LastDn = Sent /\ pushed = Sent - 1
      BY <1>5, <2>3 DEF UpInv, PushInv
    <3>3. pushed' = pushed + 1 /\ LastDn = pushed + 1
      BY <1>4, <3>1, <3>2 DEF T!PushData
    <3>4. PushInv'
      BY <1>2, <1>4, <1>7, <3>2, <3>3 DEF PushInv
    <3>5. QED
      BY <1>8, <3>1, <3>3, <3>4 DEF UpInv
  <2>4. QED
    BY <2>2, <2>3
<1>10. CASE ProcBodyCut
  <2>1. clientGone' /\ UNCHANGED proxyVars /\ pushed' = pushed
    BY <1>10 DEF ProcBodyCut, proxyVars
  <2>2. PushInv'
    BY <1>7, <2>1 DEF UpInv, PushInv
  <2>3. QED
    BY <1>8, <2>1, <2>2 DEF UpInv
<1>11. QED
  BY <1>9, <1>10

LEMMA UpAnswer ==
  ASSUME RequestTypes, PlaceInv, UpInv, ProcAnswer
  PROVE  UpInv'
<1>1. /\ procPc = "answer" /\ procPc' \in {"queue", "check"} /\ procReq \in Reqs
      /\ UNCHANGED <<requests, reqQueue, procReq, reqPc, seqNumber, pushed, clientGone>>
      /\ \E st \in {"ok", "error"} : status' = [status EXCEPT ![procReq] = st]
  BY DEF ProcAnswer, notProc, proxyVars, RequestTypes
<1>2. LastSeq' = LastSeq /\ LastDn' = LastDn /\ Sent' = Sent
  BY <1>1 DEF LastSeq, LastDn, Last, Sent
<1>3. Busy(procReq) /\ ~Pending(procReq)
  <2>1. reqPc[procReq] = "wait" /\ ~Among(reqQueue, procReq)
    BY <1>1 DEF PlaceInv, AtProc
  <2>2. QED
    BY <1>1, <2>1 DEF Busy, Pending
<1>4. \A r \in Reqs : (Busy(r)' => Busy(r) /\ r # procReq) /\ (Pending(r)' <=> Pending(r))
  BY <1>1, <1>3 DEF Busy, Pending, Among
<1>5. /\ \A r \in Reqs : ~Busy(r)'
      /\ procReq <= Len(requests) /\ requests[procReq].seq = seqNumber
  BY <1>1, <1>3, <1>4 DEF UpInv, BusyInv
<1>6. Ahead' <=> Ahead
  BY <1>1, <1>2, <1>4 DEF Ahead
<1>7. SeqInv' /\ SentInv' /\ PushInv'
  BY <1>1, <1>2, <1>6 DEF UpInv, SeqInv, SentInv, PushInv
<1>8. /\ status' \in [Reqs -> {"none", "ok", "error"}]
      /\ \A q \in Reqs : status'[q] = "ok" => status[q] = "ok" \/ q = procReq
  BY <1>1 DEF UpInv, BusyInv
<1>9. seqNumber \in Nat
  BY DEF UpInv, SeqInv
<1>10. \A q \in Reqs : status'[q] = "ok" => q <= Len(requests') /\ requests'[q].seq <= seqNumber'
  BY <1>1, <1>5, <1>8, <1>9 DEF UpInv, BusyInv
<1>11. BusyInv'
  BY <1>5, <1>8, <1>10 DEF BusyInv
<1>12. QED
  BY <1>7, <1>11 DEF UpInv

LEMMA UpStep ==
  ASSUME RequestTypes, PlaceInv, UpInv, [Next]_vars
  PROVE  UpInv'
<1>t. /\ reqQueue \in Seq(Nat) /\ Len(reqQueue) \in Nat
      /\ \A i \in 1 .. Len(reqQueue) : reqQueue[i] \in Reqs
  BY SeqFacts DEF RequestTypes
<1>0. CASE UNCHANGED <<requests, seqNumber, status, pushed, clientGone, reqQueue, reqPc, procReq, procPc>>
  <2>1. \A r \in Reqs : (Busy(r)' <=> Busy(r)) /\ (Pending(r)' <=> Pending(r))
    BY <1>0 DEF Busy, Pending, Among
  <2>2. QED
    BY <1>0, <2>1, UpKeeps
<1>1. CASE /\ UNCHANGED <<requests, seqNumber, status, pushed, clientGone, reqQueue, reqPc, procReq>>
           /\ procPc' = procPc \/ (procPc' \notin {"body", "answer"} /\ procPc \notin {"body", "answer"})
  <2>1. \A r \in Reqs : (Busy(r)' <=> Busy(r)) /\ (Pending(r)' <=> Pending(r))
    BY <1>1 DEF Busy, Pending, Among
  <2>2. QED
    BY <1>1, <2>1, UpKeeps
<1>2. ASSUME NEW r \in Reqs, HandlerEnqueue(r) PROVE UpInv'
  <2>1. /\ reqPc[r] = "enqueue" /\ reqQueue' = Append(reqQueue, r)
        /\ reqPc' = [reqPc EXCEPT ![r] = "wait"]
        /\ UNCHANGED <<requests, seqNumber, status, pushed, clientGone, procReq, procPc>>
    BY <1>2 DEF HandlerEnqueue, T!AfterSend, loopVars, proxyVars
  <2>2. \A q : Among(reqQueue', q) <=> Among(reqQueue, q) \/ q = r
    BY <1>t, <2>1, AmongAppend DEF Reqs
  <2>3. \A q \in Reqs : (Busy(q)' <=> Busy(q)) /\ (Pending(q)' <=> Pending(q))
    BY <2>1, <2>2 DEF Busy, Pending, RequestTypes
  <2>4. QED
    BY <2>1, <2>3, UpKeeps
<1>3. CASE ProcPop
  <2>1. CASE /\ UNCHANGED <<requests, seqNumber, status, pushed, clientGone, reqQueue, reqPc, procReq>>
             /\ procPc' \in {"wait", "exit"} /\ procPc \in {"pop", "wait"}
    BY <1>1, <2>1
  <2>2. CASE /\ reqQueue # <<>> /\ procReq' = Head(reqQueue) /\ reqQueue' = Tail(reqQueue)
             /\ procPc \in {"pop", "wait"} /\ procPc' = "body"
             /\ UNCHANGED <<requests, seqNumber, status, pushed, clientGone, reqPc>>
    <3>1. \A r : Among(reqQueue, r) <=> Among(reqQueue', r) \/ r = procReq'
      BY <1>t, <2>2, AmongTail
    <3>2. \A q \in Reqs : (Busy(q)' <=> Busy(q)) /\ (Pending(q)' <=> Pending(q))
      BY <2>2, <3>1 DEF Busy, Pending
    <3>3. QED
      BY <2>2, <3>2, UpKeeps
  <2>3. QED
    BY <1>3, <2>1, <2>2 DEF ProcPop, notProc, proxyVars
<1>4. CASE ProcCheck \/ ProcQueue
  BY <1>1, <1>4 DEF ProcCheck, ProcQueue, notProc, proxyVars
<1>5. CASE RespFinish
  <2>1. /\ reqPc' = [reqPc EXCEPT ![respReq] = "done"] /\ respPc = "pop"
        /\ UNCHANGED <<requests, seqNumber, status, pushed, clientGone, reqQueue, procReq, procPc>>
    BY <1>5 DEF RespFinish, notResp, proxyVars
  <2>2. respReq \in Reqs /\ reqPc[respReq] = "wait"
    BY <2>1 DEF RequestTypes, PlaceInv, AtResp
  <2>3. \A q \in Reqs : (Busy(q)' <=> Busy(q)) /\ (Pending(q)' <=> Pending(q))
    BY <2>1, <2>2 DEF Busy, Pending, Among, RequestTypes
  <2>4. QED
    BY <2>1, <2>3, UpKeeps
<1>6. CASE RespNext \/ RespLook \/ RespWrite \/ RespAgain
  <2>1. \A w : T!PopCall(w) => pushed' = pushed
    BY DEF T!PopCall, T!notPop
  <2>2. UNCHANGED <<requests, seqNumber, status, pushed, clientGone, reqQueue, reqPc, procReq, procPc>>
    BY <1>6, <2>1 DEF RespNext, RespLook, RespWrite, RespAgain, notResp, proxyVars
  <2>3. QED
    BY <1>0, <2>2
<1>7. CASE CheckLoop \/ Expire \/ UNCHANGED vars
  <2>1. UNCHANGED <<requests, seqNumber, status, pushed, clientGone, reqQueue, reqPc, procReq, procPc>>
    BY <1>7 DEF CheckLoop, CheckTick, CheckSync, CheckProxy, notCheck, Expire, T!DestroyBegin,
       T!notDestroy, queueVars, loopVars, handlerVars, proxyVars, T!historyVars, vars
  <2>2. QED
    BY <1>0, <2>1
<1>8. CASE ProxyBody \/ Target
  <2>1. UNCHANGED notProxy /\ pushed' = pushed
    BY <1>8 DEF ProxyBody, Target, T!SendLoop, T!SendCheck, T!SendPop, T!SendWrite, T!SendFail,
       T!notSend, T!RecvLoop, T!RecvCheck, T!RecvRead, T!RecvPush, T!RecvFail, T!notRecv,
       T!PopBody, T!PopCheck, T!PopReceive, T!PopTimeout, T!notPop, T!TakeFromRecvQ,
       T!DestroyBody, T!DestroyClose, T!DestroyWake, T!notDestroy, T!Remote, T!RemoteSend,
       T!RemoteEnd, T!notRemote, T!historyVars
  <2>2. UNCHANGED <<requests, seqNumber, status, pushed, clientGone, reqQueue, reqPc, procReq, procPc>>
    BY <2>1 DEF notProxy, queueVars, loopVars, handlerVars
  <2>3. QED
    BY <1>0, <2>2
<1>9. QED
  BY <1>2, <1>3, <1>4, <1>5, <1>6, <1>7, <1>8, UpClient, UpPush, UpBody, UpAnswer
     DEF Next, Handler, ProcessLoop, ResponseLoop

-----------------------------------------------------------------------------
(* What the tcpClient does to its tcpProxy is what OrderedOwner may do.    *)

LEMMA SameActions ==
  /\ T!SendLoop <=> P!SendLoop
  /\ T!RecvLoop <=> P!RecvLoop
  /\ T!PopBody <=> P!PopBody
  /\ T!DestroyBody <=> P!DestroyBody
  /\ T!Remote <=> P!Remote
  /\ \A dn : T!PushData(dn) <=> P!PushData(dn)
  /\ \A w : T!PopCall(w) <=> P!PopCall(w)
  /\ T!DestroyBegin <=> P!DestroyBegin
  /\ UNCHANGED proxyVars => UNCHANGED P!vars
<1> USE DEF T!Nil, P!Nil, T!AfterSend, P!AfterSend, T!IsAlive, P!IsAlive,
            T!connVars, P!connVars, T!sendVars, P!sendVars, T!recvVars, P!recvVars,
            T!popVars, P!popVars, T!historyVars, P!historyVars
<1>1. T!SendLoop <=> P!SendLoop
  BY DEF T!SendLoop, P!SendLoop, T!SendCheck, P!SendCheck, T!SendPop, P!SendPop,
         T!SendWrite, P!SendWrite, T!SendFail, P!SendFail, T!notSend, P!notSend
<1>2. T!RecvLoop <=> P!RecvLoop
  BY DEF T!RecvLoop, P!RecvLoop, T!RecvCheck, P!RecvCheck, T!RecvRead, P!RecvRead,
         T!RecvPush, P!RecvPush, T!RecvFail, P!RecvFail, T!notRecv, P!notRecv
<1>3. T!PopBody <=> P!PopBody
  BY DEF T!PopBody, P!PopBody, T!PopCheck, P!PopCheck, T!PopReceive, P!PopReceive,
         T!TakeFromRecvQ, P!TakeFromRecvQ, T!PopTimeout, P!PopTimeout, T!MayExpire,
         P!MayExpire, T!notPop, P!notPop
<1>4. T!DestroyBody <=> P!DestroyBody
  BY DEF T!DestroyBody, P!DestroyBody, T!DestroyClose, P!DestroyClose, T!DestroyWake,
         P!DestroyWake, T!notDestroy, P!notDestroy
<1>5. T!Remote <=> P!Remote
  BY DEF T!Remote, P!Remote, T!RemoteSend, P!RemoteSend, T!RemoteEnd, P!RemoteEnd,
         T!notRemote, P!notRemote
<1>6. \A dn : T!PushData(dn) <=> P!PushData(dn)
  BY DEF T!PushData, P!PushData
<1>7. \A w : T!PopCall(w) <=> P!PopCall(w)
  BY DEF T!PopCall, P!PopCall, T!TakeFromRecvQ, P!TakeFromRecvQ, T!notPop, P!notPop
<1>8. T!DestroyBegin <=> P!DestroyBegin
  BY DEF T!DestroyBegin, P!DestroyBegin, T!notDestroy, P!notDestroy
<1>9. UNCHANGED proxyVars => UNCHANGED P!vars
  BY DEF proxyVars, P!vars
<1>10. QED
  BY <1>1, <1>2, <1>3, <1>4, <1>5, <1>6, <1>7, <1>8, <1>9

LEMMA ProxyStep ==
  ASSUME RequestTypes, PlaceInv, UpInv, [Next]_vars
  PROVE  [P!OrderedNext]_(P!vars)
<1>1. CASE UNCHANGED proxyVars
  BY <1>1, SameActions
<1>2. CASE T!PushData(pushed + 1)
  BY <1>2, SameActions DEF P!OrderedNext, P!OrderedOwner
<1>3. CASE \E r \in Reqs : Handler(r)
  BY <1>1, <1>3 DEF Handler, HandlerPush, HandlerEnqueue
<1>4. CASE ProcessLoop \/ ProcBodyCut
  BY <1>1, <1>2, <1>4, UpBody DEF ProcessLoop, ProcCheck, ProcPop, ProcAnswer, ProcQueue
<1>5. CASE ResponseLoop
  <2>1. ASSUME NEW w \in {"none", "timed", "forever"}, T!PopCall(w) PROVE P!OrderedNext
    BY <2>1, SameActions DEF P!OrderedNext, P!OrderedOwner
  <2>2. CASE RespNext \/ RespWrite \/ RespFinish
    BY <1>1, <2>2 DEF RespNext, RespWrite, RespFinish
  <2>3. CASE RespLook \/ RespAgain
    BY <2>1, <2>3 DEF RespLook, RespAgain
  <2>4. QED
    BY <1>5, <2>2, <2>3 DEF ResponseLoop
<1>6. CASE CheckLoop \/ Expire \/ Client
  BY <1>1, <1>6, SameActions DEF CheckLoop, CheckTick, CheckSync, CheckProxy, Expire, Client,
     SendsNext, SendsAgain, Arrive, P!OrderedNext, P!OrderedOwner
<1>7. CASE ProxyBody \/ Target
  BY <1>7, SameActions DEF ProxyBody, Target, P!OrderedNext
<1>8. CASE UNCHANGED vars
  BY <1>1, <1>8 DEF vars
<1>9. QED
  BY <1>3, <1>4, <1>5, <1>6, <1>7, <1>8 DEF Next

\* The target gets each block of the client once and in order, for any number of
\* requests of which any may be sent again (tcpClient.pushHTTPRequest's check of
\* the seq number, processLoop, tcpProxy.sendLoop).
THEOREM UplinkInOrderCorrect == Spec => []UplinkInOrder
<1> DEFINE UInv == RequestTypes /\ PlaceInv /\ UpInv /\ P!TypeOK /\ P!SendQInv
<1>a. DataQueueSize \in Nat \ {0} /\ MaxIn \in Nat /\ MaxOut \in Nat
  BY TcpClientAssumption DEF TcpClientAssumption
<1>1. Init => UInv
  <2>1. Init => P!Init
    BY DEF Init, T!Init, P!Init, T!Nil, P!Nil
  <2>2. P!Init => P!TypeOK /\ P!SendQInv
    BY <1>a, P!TypeInit, P!SendQInit
  <2>3. QED
    BY <2>1, <2>2, PlaceInit, UpInit
<1>2. UInv /\ [Next]_vars => UInv'
  <2>1. SUFFICES ASSUME RequestTypes, PlaceInv, UpInv, P!TypeOK, P!SendQInv, [Next]_vars
                 PROVE  UInv'
    OBVIOUS
  <2>2. RequestTypes' /\ PlaceInv' /\ UpInv'
    BY <2>1, PlaceStep, UpStep
  <2>3. [P!OrderedNext]_(P!vars)
    BY <2>1, ProxyStep
  <2>4. [P!AnyNext]_(P!vars)
    BY <1>a, <2>1, <2>3, P!OrderedIsAnyNext
  <2>5. P!TypeOK' /\ P!SendQInv'
    BY <1>a, <2>1, <2>3, <2>4, P!TypeStep, P!SendQStep
  <2>6. QED
    BY <2>2, <2>5
<1>3. UInv => UplinkInOrder
  BY DEF P!SendQInv, P!WrittenInOrder, P!Consecutive, UplinkInOrder, T!WrittenInOrder, T!Consecutive
<1>4. QED
  BY <1>1, <1>2, <1>3, PTL DEF Spec

-----------------------------------------------------------------------------
(* The way down: the order of the responses, and what they contain.        *)

Key(r) == requests[r].seq
Wrote(r) == out[r] # <<>>
Front(r) == Among(resQueue, r) \/ AtResp(r) \/ Wrote(r)
Queueing(r) == procReq = r /\ procPc = "queue"

\* From the responses written so far, over the one that responseLoop is at and
\* those in resQueue, to the one that processLoop is about to queue, the seq
\* numbers grow.
OrderInv ==
    /\ Len(requests) <= MaxReq
    /\ \A r \in Reqs : status[r] = "ok" => reqPc[r] \in {"wait", "done"}
    /\ \A r \in Reqs : Front(r) \/ Queueing(r) => status[r] = "ok"
    /\ \A r, q \in Reqs :
          /\ AtResp(r) /\ Among(resQueue, q) => Key(r) < Key(q)
          /\ Wrote(r) /\ AtResp(q) => Key(r) <= Key(q)
          /\ Wrote(r) /\ Among(resQueue, q) => Key(r) < Key(q)
          /\ Front(r) /\ Queueing(q) => Key(r) < Key(q)
    /\ \A i, j \in 1 .. Len(resQueue) :
          i < j /\ resQueue[i] # Nil /\ resQueue[j] # Nil =>
             Key(resQueue[i]) < Key(resQueue[j])

\* responseLoop holds a block that it popped and has yet to write; so many of the
\* popped blocks are in a response.
DownInHand == respPc = "pop" /\ popPc = "idle" /\ popDn # Nil
Given == IF DownInHand THEN Len(popped) - 1 ELSE Len(popped)

BlockInv ==
    /\ popPc # "idle" => respPc = "pop" /\ popDn = Nil
    /\ DownInHand => popDn = Len(popped) /\ Len(popped) > 0
    /\ out \in [Reqs -> Seq(Nat)]
    /\ \A r \in Reqs : \A i \in 1 .. Len(out[r]) : out[r][i] \in 1 .. Given
    /\ \A k \in 1 .. Given : \E r \in Reqs : Among(out[r], k)
    /\ \A q, r \in Reqs : Key(q) < Key(r) =>
          \A i \in 1 .. Len(out[q]), j \in 1 .. Len(out[r]) : out[q][i] < out[r][j]

-----------------------------------------------------------------------------
LEMMA OrderInit == Init => OrderInv
<1> SUFFICES ASSUME Init PROVE OrderInv
  OBVIOUS
<1>1. /\ Len(requests) = 0 /\ Len(resQueue) = 0 /\ procPc = "check" /\ respPc = "next"
      /\ \A r \in Reqs : status[r] = "none" /\ out[r] = <<>>
  BY DEF Init
<1>2. \A r \in Reqs : ~Front(r) /\ ~Queueing(r) /\ ~Among(resQueue, r) /\ ~AtResp(r) /\ ~Wrote(r)
  BY <1>1 DEF Front, Queueing, Among, AtResp, Wrote
<1>3. QED
  BY <1>1, <1>2, TcpClientAssumption DEF OrderInv, TcpClientAssumption

\* The request of a response that was started has a seq number.
LEMMA KeyType ==
  ASSUME UpInv, RequestTypes, NEW r \in Reqs, status[r] = "ok"
  PROVE  r \in 1 .. Len(requests) /\ Key(r) \in Nat
<1>1. Len(requests) \in Nat /\ r \in Nat \ {0} /\ r <= Len(requests)
  BY AnyAppend DEF RequestTypes, Reqs, UpInv, BusyInv
<1>2. r \in 1 .. Len(requests)
  BY <1>1
<1>3. QED
  BY <1>2 DEF UpInv, SeqInv, Key

\* A step that starts, moves and writes no response.
LEMMA OrderKeeps ==
  ASSUME OrderInv, UNCHANGED <<resQueue, out>>, Len(requests') <= MaxReq,
         \A r \in Reqs : status'[r] = "ok" <=> status[r] = "ok",
         \A r \in Reqs : status[r] = "ok" =>
            requests'[r] = requests[r] /\ reqPc'[r] \in {"wait", "done"},
         \A r \in Reqs : (AtResp(r)' => AtResp(r)) /\ (Queueing(r)' => Queueing(r)),
         RequestTypes
  PROVE  OrderInv'
<1>1. \A r \in Reqs : /\ Among(resQueue', r) <=> Among(resQueue, r)
                      /\ Wrote(r)' <=> Wrote(r)
                      /\ Front(r)' => Front(r)
  BY DEF Among, Wrote, Front
<1>2. \A r \in Reqs : Front(r) \/ Queueing(r) => Key(r)' = Key(r)
  BY DEF OrderInv, Key
<1>3. \A i \in 1 .. Len(resQueue) : resQueue[i] # Nil =>
         resQueue[i] \in Reqs /\ Front(resQueue[i])
  BY DEF Front, Among, RequestTypes
<1>4. \A i, j \in 1 .. Len(resQueue') :
          i < j /\ resQueue'[i] # Nil /\ resQueue'[j] # Nil =>
             Key(resQueue[i])' < Key(resQueue[j])'
  BY <1>2, <1>3 DEF OrderInv
<1>5. \A r, q \in Reqs :
          /\ AtResp(r)' /\ Among(resQueue', q) => Key(r)' < Key(q)'
          /\ Wrote(r)' /\ AtResp(q)' => Key(r)' <= Key(q)'
          /\ Wrote(r)' /\ Among(resQueue', q) => Key(r)' < Key(q)'
          /\ Front(r)' /\ Queueing(q)' => Key(r)' < Key(q)'
  BY <1>1, <1>2 DEF OrderInv, Front
<1>6. \A r \in Reqs : Front(r)' \/ Queueing(r)' => status'[r] = "ok"
  BY <1>1 DEF OrderInv
<1>7. \A r \in Reqs : status'[r] = "ok" => reqPc'[r] \in {"wait", "done"}
  OBVIOUS
<1>8. QED
  BY <1>4, <1>5, <1>6, <1>7 DEF OrderInv, Key

LEMMA OrderClient ==
  ASSUME RequestTypes, UpInv, OrderInv, Client
  PROVE  OrderInv'
<1>1. PICK req : Arrive(req)
  BY DEF Client, SendsNext, SendsAgain
<1>2. /\ Len(requests) < MaxReq /\ requests' = Append(requests, req) /\ Len(requests) \in Nat
      /\ UNCHANGED <<resQueue, out, procReq, procPc, respReq, respPc>>
      /\ Len(requests') = Len(requests) + 1
      /\ \A i \in 1 .. Len(requests) : requests'[i] = requests[i]
  <2>1. /\ Len(requests) < MaxReq /\ requests' = Append(requests, req)
        /\ UNCHANGED <<resQueue, out, procReq, procPc, respReq, respPc>>
    BY <1>1 DEF Arrive, queueVars, loopVars
  <2>2. QED
    BY <2>1, AnyAppend DEF RequestTypes
<1>3. Len(requests) + 1 \in Reqs /\ reqPc[Len(requests) + 1] = "none"
  BY <1>2, TcpClientAssumption DEF RequestTypes, Reqs, TcpClientAssumption
<1>4. /\ \E p \in {"done", "lock"} : reqPc' = [reqPc EXCEPT ![Len(requests) + 1] = p]
      /\ status' = status \/ status' = [status EXCEPT ![Len(requests) + 1] = "error"]
  BY <1>1 DEF Arrive
<1>5. \A r \in Reqs : status[r] = "ok" => r # Len(requests) + 1
  BY <1>3 DEF OrderInv
<1>6. /\ \A r \in Reqs : status'[r] = "ok" <=> status[r] = "ok"
      /\ \A r \in Reqs : status[r] = "ok" => reqPc'[r] = reqPc[r]
  BY <1>3, <1>4, <1>5 DEF RequestTypes, UpInv, BusyInv
<1>7. \A r \in Reqs : status[r] = "ok" =>
            requests'[r] = requests[r] /\ reqPc'[r] \in {"wait", "done"}
  BY <1>2, <1>6, KeyType DEF OrderInv
<1>8. \A r \in Reqs : (AtResp(r)' => AtResp(r)) /\ (Queueing(r)' => Queueing(r))
  BY <1>2 DEF AtResp, Queueing
<1>9. Len(requests') <= MaxReq
  BY <1>2, TcpClientAssumption DEF TcpClientAssumption
<1>10. QED
  BY <1>2, <1>6, <1>7, <1>8, <1>9, OrderKeeps

LEMMA OrderHandler ==
  ASSUME RequestTypes, UpInv, OrderInv, NEW h \in Reqs, Handler(h)
  PROVE  OrderInv'
<1>1. /\ reqPc[h] \in {"lock", "enqueue"}
      /\ UNCHANGED <<requests, resQueue, out, procReq, procPc, respReq, respPc>>
      /\ \E p \in {"done", "enqueue", "wait"} : reqPc' = [reqPc EXCEPT ![h] = p]
      /\ status' = status \/ status' = [status EXCEPT ![h] = "error"]
  BY DEF Handler, HandlerPush, HandlerEnqueue, loopVars
<1>2. \A r \in Reqs : status[r] = "ok" => r # h
  BY <1>1 DEF OrderInv
<1>3. /\ \A r \in Reqs : status'[r] = "ok" <=> status[r] = "ok"
      /\ \A r \in Reqs : status[r] = "ok" => reqPc'[r] = reqPc[r]
  BY <1>1, <1>2 DEF RequestTypes, UpInv, BusyInv
<1>4. \A r \in Reqs : status[r] = "ok" =>
            requests'[r] = requests[r] /\ reqPc'[r] \in {"wait", "done"}
  BY <1>1, <1>3 DEF OrderInv
<1>5. \A r \in Reqs : (AtResp(r)' => AtResp(r)) /\ (Queueing(r)' => Queueing(r))
  BY <1>1 DEF AtResp, Queueing
<1>6. Len(requests') <= MaxReq
  BY <1>1 DEF OrderInv
<1>7. QED
  BY <1>1, <1>3, <1>4, <1>5, <1>6, OrderKeeps

\* processLoop starts a response: those started before have smaller numbers.
LEMMA OrderAnswer ==
  ASSUME RequestTypes, PlaceInv, UpInv, OrderInv, ProcAnswer
  PROVE  OrderInv'
<1>1. /\ procPc = "answer" /\ procReq \in Reqs
      /\ UNCHANGED <<requests, reqPc, resQueue, out, procReq, respReq, respPc>>
      /\ \/ procPc' = "queue" /\ status' = [status EXCEPT ![procReq] = "ok"]
         \/ procPc' = "check" /\ status' = [status EXCEPT ![procReq] = "error"]
  BY DEF ProcAnswer, notProc, RequestTypes
<1>2. Busy(procReq) /\ reqPc[procReq] = "wait"
  BY <1>1 DEF Busy, PlaceInv, AtProc
<1>3. Key(procReq) = seqNumber
  BY <1>1, <1>2 DEF UpInv, BusyInv, Key
<1>4. \A r \in Reqs : status[r] = "ok" => Key(r) < Key(procReq) /\ r # procReq
  <2>1. SUFFICES ASSUME NEW r \in Reqs, status[r] = "ok"
                 PROVE  Key(r) < Key(procReq) /\ r # procReq
    OBVIOUS
  <2>2. Key(r) <= seqNumber /\ Key(r) # seqNumber
    BY <1>1, <1>2, <2>1 DEF UpInv, BusyInv, Key
  <2>3. Key(r) \in Nat /\ seqNumber \in Nat
    BY <2>1, KeyType DEF UpInv, SeqInv
  <2>4. QED
    BY <1>3, <2>2, <2>3
<1>5. /\ status' \in [Reqs -> {"none", "ok", "error"}]
      /\ \A r \in Reqs : r # procReq => status'[r] = status[r]
      /\ procPc' = "queue" => status'[procReq] = "ok"
      /\ procPc' # "queue" => status'[procReq] # "ok"
  BY <1>1 DEF UpInv, BusyInv
<1>6. \A r \in Reqs : /\ Among(resQueue', r) <=> Among(resQueue, r)
                      /\ Wrote(r)' <=> Wrote(r)
                      /\ AtResp(r)' <=> AtResp(r)
                      /\ Front(r)' <=> Front(r)
                      /\ Key(r)' = Key(r)
                      /\ Queueing(r)' <=> procPc' = "queue" /\ r = procReq
  BY <1>1 DEF Among, Wrote, AtResp, Front, Key, Queueing
<1>7. \A r \in Reqs : Front(r) => status[r] = "ok"
  BY DEF OrderInv
<1>8. /\ \A r \in Reqs : status'[r] = "ok" => reqPc'[r] \in {"wait", "done"}
      /\ \A r \in Reqs : Front(r)' \/ Queueing(r)' => status'[r] = "ok"
  BY <1>1, <1>2, <1>4, <1>5, <1>6, <1>7 DEF OrderInv
<1>9. \A r, q \in Reqs :
          /\ AtResp(r)' /\ Among(resQueue', q) => Key(r)' < Key(q)'
          /\ Wrote(r)' /\ AtResp(q)' => Key(r)' <= Key(q)'
          /\ Wrote(r)' /\ Among(resQueue', q) => Key(r)' < Key(q)'
          /\ Front(r)' /\ Queueing(q)' => Key(r)' < Key(q)'
  BY <1>4, <1>6, <1>7 DEF OrderInv
<1>10. \A i, j \in 1 .. Len(resQueue') :
          i < j /\ resQueue'[i] # Nil /\ resQueue'[j] # Nil =>
             requests'[resQueue'[i]].seq < requests'[resQueue'[j]].seq
  BY <1>1 DEF OrderInv, Key
<1>11. Len(requests') <= MaxReq
  BY <1>1 DEF OrderInv
<1>12. QED
  BY <1>8, <1>9, <1>10, <1>11 DEF OrderInv, Key

LEMMA OrderQueue ==
  ASSUME RequestTypes, UpInv, OrderInv, ProcQueue
  PROVE  OrderInv'
<1>1. /\ UNCHANGED <<requests, reqPc, status, out, respReq, respPc>>
      /\ procPc' \in {"check", "done"}
      /\ \/ procPc = "queue" /\ resQueue' = Append(resQueue, procReq)
         \/ resQueue' = Append(resQueue, Nil)
  BY DEF ProcQueue, notProc, T!AfterSend
<1>2. PICK x \in Nat : resQueue' = Append(resQueue, x) /\ (x = Nil \/ Queueing(x))
  BY <1>1 DEF Queueing, RequestTypes, Nil
<1>3. /\ resQueue \in Seq(Nat) /\ Len(resQueue) \in Nat /\ Len(resQueue') = Len(resQueue) + 1
      /\ \A i \in 1 .. Len(resQueue) : resQueue'[i] = resQueue[i]
      /\ resQueue'[Len(resQueue) + 1] = x
      /\ \A r : Among(resQueue', r) <=> Among(resQueue, r) \/ r = x
  BY <1>2, SeqFacts, AppendFacts, AmongAppend DEF RequestTypes
<1>4. \A r \in Reqs : /\ Wrote(r)' <=> Wrote(r)
                      /\ AtResp(r)' <=> AtResp(r)
                      /\ Key(r)' = Key(r)
                      /\ ~Queueing(r)'
                      /\ Front(r)' => Front(r) \/ Queueing(r)
  <2>1. \A r \in Reqs : r # Nil
    BY DEF Reqs, Nil
  <2>2. QED
    BY <1>1, <1>2, <1>3, <2>1 DEF Wrote, AtResp, Key, Queueing, Front
<1>5. \A r \in Reqs : Among(resQueue', r) => Among(resQueue, r) \/ Queueing(r)
  BY <1>2, <1>3 DEF Reqs, Nil
<1>6. \A r, q \in Reqs :
          /\ AtResp(r)' /\ Among(resQueue', q) => Key(r)' < Key(q)'
          /\ Wrote(r)' /\ AtResp(q)' => Key(r)' <= Key(q)'
          /\ Wrote(r)' /\ Among(resQueue', q) => Key(r)' < Key(q)'
          /\ Front(r)' /\ Queueing(q)' => Key(r)' < Key(q)'
  BY <1>4, <1>5 DEF OrderInv, Front
<1>7. \A i, j \in 1 .. Len(resQueue') :
          i < j /\ resQueue'[i] # Nil /\ resQueue'[j] # Nil =>
             requests'[resQueue'[i]].seq < requests'[resQueue'[j]].seq
  <2>1. SUFFICES ASSUME NEW i \in 1 .. Len(resQueue'), NEW j \in 1 .. Len(resQueue'),
                        i < j, resQueue'[i] # Nil, resQueue'[j] # Nil
                 PROVE  Key(resQueue'[i]) < Key(resQueue'[j])
    BY <1>1 DEF Key
  <2>2. i \in 1 .. Len(resQueue)
    BY <1>3, <2>1
  <2>3. CASE j \in 1 .. Len(resQueue)
    BY <1>3, <2>1, <2>2, <2>3 DEF OrderInv
  <2>4. CASE j = Len(resQueue) + 1
    <3>1. resQueue'[j] = x /\ Queueing(x) /\ x \in Reqs
      BY <1>2, <1>3, <2>1, <2>4 DEF RequestTypes, Queueing, OrderInv, Nil
    <3>2. resQueue'[i] = resQueue[i] /\ resQueue[i] \in Reqs /\ Front(resQueue[i])
      BY <1>3, <2>1, <2>2 DEF Front, Among, RequestTypes
    <3>3. QED
      BY <3>1, <3>2 DEF OrderInv
  <2>5. QED
    BY <1>3, <2>1, <2>3, <2>4
<1>8. /\ \A r \in Reqs : status'[r] = "ok" => reqPc'[r] \in {"wait", "done"}
      /\ \A r \in Reqs : Front(r)' \/ Queueing(r)' => status'[r] = "ok"
      /\ Len(requests') <= MaxReq
  BY <1>1, <1>4 DEF OrderInv
<1>9. QED
  BY <1>6, <1>7, <1>8 DEF OrderInv, Key

LEMMA OrderNext ==
  ASSUME RequestTypes, UpInv, OrderInv, RespNext
  PROVE  OrderInv'
<1>1. /\ UNCHANGED <<requests, reqPc, status, out, procReq, procPc>>
      /\ respPc = "next" /\ resQueue # <<>> /\ respReq' = Head(resQueue)
      /\ resQueue' = Tail(resQueue) /\ (Head(resQueue) = Nil => respPc' = "done")
  BY DEF RespNext, notResp
<1>2. /\ resQueue \in Seq(Nat) /\ Len(resQueue) \in Nat \ {0} /\ Head(resQueue) = resQueue[1]
      /\ Len(resQueue') = Len(resQueue) - 1
      /\ \A i \in 1 .. Len(resQueue) - 1 : resQueue'[i] = resQueue[i + 1]
      /\ \A r : Among(resQueue, r) <=> Among(resQueue', r) \/ r = Head(resQueue)
  BY <1>1, TailFacts, AmongTail DEF RequestTypes
<1>3. \A r \in Reqs : /\ ~AtResp(r)
                      /\ AtResp(r)' => r = Head(resQueue) /\ r # Nil
                      /\ Wrote(r)' <=> Wrote(r)
                      /\ Key(r)' = Key(r)
                      /\ Queueing(r)' <=> Queueing(r)
                      /\ Front(r)' => Front(r)
  BY <1>1, <1>2 DEF AtResp, Wrote, Key, Queueing, Front
<1>4. \A q \in Reqs : Head(resQueue) # Nil /\ Among(resQueue', q) => Key(Head(resQueue)) < Key(q)
  <2>1. SUFFICES ASSUME NEW q \in Reqs, Head(resQueue) # Nil,
                        NEW i \in 1 .. Len(resQueue'), resQueue'[i] = q
                 PROVE  Key(resQueue[1]) < Key(q)
    BY <1>2 DEF Among
  <2>2. /\ 1 \in 1 .. Len(resQueue) /\ i + 1 \in 1 .. Len(resQueue) /\ 1 < i + 1
        /\ resQueue[i + 1] = q
    BY <1>2, <2>1
  <2>3. q # Nil
    BY DEF Reqs, Nil
  <2>4. QED
    BY <1>2, <2>1, <2>2, <2>3 DEF OrderInv
<1>5. \A r, q \in Reqs :
          /\ AtResp(r)' /\ Among(resQueue', q) => Key(r)' < Key(q)'
          /\ Wrote(r)' /\ AtResp(q)' => Key(r)' < Key(q)'
          /\ Wrote(r)' /\ Among(resQueue', q) => Key(r)' < Key(q)'
          /\ Front(r)' /\ Queueing(q)' => Key(r)' < Key(q)'
  BY <1>2, <1>3, <1>4 DEF OrderInv
<1>6. \A r, q \in Reqs : Wrote(r)' /\ AtResp(q)' => Key(r)' <= Key(q)'
  <2>1. SUFFICES ASSUME NEW r \in Reqs, NEW q \in Reqs, Wrote(r), AtResp(q)'
                 PROVE  Key(r) <= Key(q)
    BY <1>3
  <2>2. Front(r) /\ Front(q)
    BY <1>2, <1>3, <2>1 DEF Front
  <2>3. Key(r) \in Nat /\ Key(q) \in Nat
    BY <2>2, KeyType DEF OrderInv
  <2>4. Key(r) < Key(q)
    BY <1>3, <1>5, <2>1
  <2>5. QED
    BY <2>3, <2>4
<1>7. \A i, j \in 1 .. Len(resQueue') :
          i < j /\ resQueue'[i] # Nil /\ resQueue'[j] # Nil =>
             requests'[resQueue'[i]].seq < requests'[resQueue'[j]].seq
  <2>1. SUFFICES ASSUME NEW i \in 1 .. Len(resQueue'), NEW j \in 1 .. Len(resQueue'),
                        i < j, resQueue'[i] # Nil, resQueue'[j] # Nil
                 PROVE  Key(resQueue'[i]) < Key(resQueue'[j])
    BY <1>1 DEF Key
  <2>2. /\ i + 1 \in 1 .. Len(resQueue) /\ j + 1 \in 1 .. Len(resQueue) /\ i + 1 < j + 1
        /\ resQueue'[i] = resQueue[i + 1] /\ resQueue'[j] = resQueue[j + 1]
    BY <1>2, <2>1
  <2>3. QED
    BY <2>1, <2>2 DEF OrderInv
<1>8. /\ \A r \in Reqs : status'[r] = "ok" => reqPc'[r] \in {"wait", "done"}
      /\ \A r \in Reqs : Front(r)' \/ Queueing(r)' => status'[r] = "ok"
      /\ Len(requests') <= MaxReq
  BY <1>1, <1>3 DEF OrderInv
<1>9. QED
  BY <1>5, <1>6, <1>7, <1>8 DEF OrderInv, Key

LEMMA OrderWrite ==
  ASSUME RequestTypes, UpInv, OrderInv, out \in [Reqs -> Seq(Nat)], RespWrite
  PROVE  OrderInv'
<1>1. /\ UNCHANGED <<requests, reqPc, status, resQueue, procReq, procPc, respReq>>
      /\ respPc = "pop" /\ respPc' = "again"
      /\ out' = [out EXCEPT ![respReq] = Append(@, popDn)]
      /\ respReq \in Reqs
  BY DEF RespWrite, notResp, RequestTypes
<1>2. /\ AtResp(respReq) /\ AtResp(respReq)' /\ status[respReq] = "ok" /\ Key(respReq) \in Nat
      /\ \A r \in Reqs : AtResp(r) => r = respReq
  <2>1. /\ AtResp(respReq) /\ AtResp(respReq)' 
        /\ \A r \in Reqs : AtResp(r) => r = respReq
    BY <1>1 DEF AtResp
  <2>2. status[respReq] = "ok"
    BY <1>1, <2>1 DEF OrderInv, Front
  <2>3. QED
    BY <1>1, <2>1, <2>2, KeyType
<1>3. \A r \in Reqs : /\ Among(resQueue', r) <=> Among(resQueue, r)
                      /\ Wrote(r)' => Wrote(r) \/ r = respReq
                      /\ AtResp(r)' <=> AtResp(r)
                      /\ Front(r)' => Front(r)
                      /\ Key(r)' = Key(r)
                      /\ Queueing(r)' <=> Queueing(r)
  BY <1>1, <1>2 DEF Among, Wrote, AtResp, Front, Key, Queueing
<1>4. \A r, q \in Reqs :
          /\ AtResp(r)' /\ Among(resQueue', q) => Key(r)' < Key(q)'
          /\ Wrote(r)' /\ AtResp(q)' => Key(r)' <= Key(q)'
          /\ Wrote(r)' /\ Among(resQueue', q) => Key(r)' < Key(q)'
          /\ Front(r)' /\ Queueing(q)' => Key(r)' < Key(q)'
  BY <1>2, <1>3 DEF OrderInv
<1>5. \A i, j \in 1 .. Len(resQueue') :
          i < j /\ resQueue'[i] # Nil /\ resQueue'[j] # Nil =>
             requests'[resQueue'[i]].seq < requests'[resQueue'[j]].seq
  BY <1>1 DEF OrderInv, Key
<1>6. /\ \A r \in Reqs : status'[r] = "ok" => reqPc'[r] \in {"wait", "done"}
      /\ \A r \in Reqs : Front(r)' \/ Queueing(r)' => status'[r] = "ok"
      /\ Len(requests') <= MaxReq
  BY <1>1, <1>3 DEF OrderInv
<1>7. QED
  BY <1>4, <1>5, <1>6 DEF OrderInv, Key

LEMMA OrderStep ==
  ASSUME RequestTypes, PlaceInv, UpInv, OrderInv, out \in [Reqs -> Seq(Nat)], [Next]_vars
  PROVE  OrderInv'
<1>1. ASSUME requests' = requests, reqPc' = reqPc, status' = status, resQueue' = resQueue,
             out' = out, respReq' = respReq,
             procPc' = "queue" => procPc = "queue" /\ procReq' = procReq,
             respPc' = respPc \/ (respPc' = "pop" /\ respPc \in {"look", "again"})
      PROVE  OrderInv'
  <2>1. \A r \in Reqs : (AtResp(r)' => AtResp(r)) /\ (Queueing(r)' => Queueing(r))
    BY <1>1 DEF AtResp, Queueing
  <2>2. Len(requests') <= MaxReq /\ \A r \in Reqs : status[r] = "ok" => reqPc[r] \in {"wait", "done"}
    BY <1>1 DEF OrderInv
  <2>3. QED
    BY <1>1, <2>1, <2>2, OrderKeeps
<1>2. CASE RespFinish
  <2>1. /\ UNCHANGED <<requests, status, resQueue, out, respReq, procPc, procReq>>
        /\ respPc' = "next" /\ reqPc' = [reqPc EXCEPT ![respReq] = "done"]
    BY <1>2 DEF RespFinish, notResp
  <2>2. \A r \in Reqs : (AtResp(r)' => AtResp(r)) /\ (Queueing(r)' => Queueing(r))
    BY <2>1 DEF AtResp, Queueing
  <2>3. Len(requests') <= MaxReq /\ \A r \in Reqs : status[r] = "ok" => reqPc'[r] \in {"wait", "done"}
    BY <2>1 DEF OrderInv, RequestTypes
  <2>4. QED
    BY <2>1, <2>2, <2>3, OrderKeeps
<1>3. CASE RespLook \/ RespAgain
  <2>1. /\ requests' = requests /\ reqPc' = reqPc /\ status' = status /\ resQueue' = resQueue
        /\ out' = out /\ respReq' = respReq
        /\ procPc' = "queue" => procPc = "queue" /\ procReq' = procReq
        /\ respPc' = respPc \/ (respPc' = "pop" /\ respPc \in {"look", "again"})
    BY <1>3 DEF RespLook, RespAgain, notResp
  <2>2. QED
    BY <1>1, <2>1
<1>4. CASE ProcCheck \/ ProcPop \/ ProcBody \/ ProcBodyCut
  <2>1. /\ requests' = requests /\ reqPc' = reqPc /\ status' = status /\ resQueue' = resQueue
        /\ out' = out /\ respReq' = respReq
        /\ procPc' = "queue" => procPc = "queue" /\ procReq' = procReq
        /\ respPc' = respPc \/ (respPc' = "pop" /\ respPc \in {"look", "again"})
    BY <1>4 DEF ProcCheck, ProcPop, ProcBody, ProcBodyCut, notProc
  <2>2. QED
    BY <1>1, <2>1
<1>5. CASE CheckLoop \/ Expire \/ UNCHANGED vars
  <2>1. /\ requests' = requests /\ reqPc' = reqPc /\ status' = status /\ resQueue' = resQueue
        /\ out' = out /\ respReq' = respReq
        /\ procPc' = "queue" => procPc = "queue" /\ procReq' = procReq
        /\ respPc' = respPc \/ (respPc' = "pop" /\ respPc \in {"look", "again"})
    BY <1>5 DEF CheckLoop, CheckTick, CheckSync, CheckProxy, notCheck, Expire, queueVars,
       loopVars, handlerVars, vars
  <2>2. QED
    BY <1>1, <2>1
<1>6. CASE ProxyBody \/ Target
  <2>1. /\ requests' = requests /\ reqPc' = reqPc /\ status' = status /\ resQueue' = resQueue
        /\ out' = out /\ respReq' = respReq
        /\ procPc' = "queue" => procPc = "queue" /\ procReq' = procReq
        /\ respPc' = respPc \/ (respPc' = "pop" /\ respPc \in {"look", "again"})
    BY <1>6 DEF ProxyBody, Target, notProxy, queueVars, loopVars, handlerVars
  <2>2. QED
    BY <1>1, <2>1
<1>7. QED
  BY <1>2, <1>3, <1>4, <1>5, <1>6, OrderClient, OrderHandler, OrderAnswer, OrderQueue, OrderNext,
     OrderWrite DEF Next, ProcessLoop, ResponseLoop

-----------------------------------------------------------------------------
LEMMA BlockInit == Init => BlockInv
<1> SUFFICES ASSUME Init PROVE BlockInv
  OBVIOUS
<1>1. /\ popPc = "idle" /\ popped = <<>> /\ Len(popped) = 0 /\ respPc = "next"
      /\ out = [r \in Reqs |-> <<>>]
  BY DEF Init, T!Init
<1>2. ~DownInHand /\ Given = 0
  BY <1>1 DEF DownInHand, Given
<1>3. out \in [Reqs -> Seq(Nat)] /\ \A r \in Reqs : Len(out[r]) = 0
  BY <1>1
<1>4. QED
  BY <1>1, <1>2, <1>3 DEF BlockInv

\* A step that writes no block to a response.
LEMMA BlockKeeps ==
  ASSUME BlockInv, out' = out, Given' = Given,
         \A r \in Reqs : Wrote(r) => Key(r)' = Key(r),
         popPc' # "idle" => respPc' = "pop" /\ popDn' = Nil,
         DownInHand' => popDn' = Len(popped') /\ Len(popped') > 0
  PROVE  BlockInv'
<1>1. \A r \in Reqs : 1 .. Len(out[r]) # {} => Wrote(r)
  BY EmptySeq DEF Wrote, BlockInv
<1>2. \A q, r \in Reqs : Key(q)' < Key(r)' =>
          \A i \in 1 .. Len(out[q]), j \in 1 .. Len(out[r]) : out[q][i] < out[r][j]
  BY <1>1 DEF BlockInv
<1>3. \A k \in 1 .. Given' : \E r \in Reqs : Among(out'[r], k)
  BY DEF BlockInv
<1>4. QED
  BY <1>2, <1>3 DEF BlockInv

\* What a receive from recvQ gives popData, when all that was popped before is 1,
\* 2, ..., Len(popped).
LEMMA TakeStep ==
  ASSUME P!TypeOK, P!TypeOK', P!RecvQInv', T!TakeFromRecvQ
  PROVE  \/ popDn' = Nil /\ popped' = popped
         \/ popDn' # Nil /\ popDn' = Len(popped') /\ Len(popped') = Len(popped) + 1
<1>1. popped \in Seq(Nat) /\ popped' \in Seq(Nat) /\ Len(popped) \in Nat /\ P!PoppedInOrder'
  BY SeqFacts DEF P!TypeOK, P!BlocksOK, P!RecvQInv
<1>2. CASE Head(recvQ) = Nil
  BY <1>2 DEF T!TakeFromRecvQ, T!Nil, Nil
<1>3. CASE Head(recvQ) # Nil
  <2>1. popDn' = Head(recvQ) /\ popped' = Append(popped, Head(recvQ))
    BY <1>3 DEF T!TakeFromRecvQ, T!Nil, Nil
  <2>2. recvQ # <<>> /\ recvQ \in Seq(Nat)
    BY DEF T!TakeFromRecvQ, P!TypeOK, P!QueuesOK
  <2>3. Head(recvQ) \in Nat
    BY <2>2, TailFacts, SeqFacts
  <2>4. Len(popped') = Len(popped) + 1 /\ popped'[Len(popped) + 1] = Head(recvQ)
    BY <1>1, <2>1, <2>3, AppendFacts
  <2>5. popped'[Len(popped')] = Len(popped')
    BY <1>1, <2>4, SeqFacts DEF P!PoppedInOrder, P!Consecutive
  <2>6. QED
    BY <1>1, <1>3, <2>1, <2>4, <2>5
<1>4. QED
  BY <1>2, <1>3

LEMMA BlockWrite ==
  ASSUME RequestTypes, UpInv, OrderInv, BlockInv, popped \in Seq(Nat), popDn \in Nat, RespWrite
  PROVE  BlockInv'
<1>1. /\ UNCHANGED <<requests, popPc, popDn, popped, respReq>>
      /\ respPc = "pop" /\ popPc = "idle" /\ popDn # Nil /\ respPc' = "again" /\ respReq \in Reqs
      /\ out' = [out EXCEPT ![respReq] = Append(@, popDn)]
  BY DEF RespWrite, notResp, RequestTypes, proxyVars
<1>2. /\ DownInHand /\ popDn = Len(popped) /\ Len(popped) \in Nat \ {0}
      /\ Given = popDn - 1 /\ ~DownInHand' /\ Given' = popDn
  <2>1. DownInHand /\ ~DownInHand' /\ Len(popped) \in Nat
    BY <1>1, SeqFacts DEF DownInHand
  <2>2. popDn = Len(popped) /\ Len(popped) # 0
    BY <2>1 DEF BlockInv
  <2>3. QED
    BY <1>1, <2>1, <2>2 DEF Given
<1>3. /\ out \in [Reqs -> Seq(Nat)] /\ out' \in [Reqs -> Seq(Nat)]
      /\ \A r \in Reqs : r # respReq => out'[r] = out[r]
      /\ Len(out[respReq]) \in Nat /\ Len(out'[respReq]) = Len(out[respReq]) + 1
      /\ \A i \in 1 .. Len(out[respReq]) : out'[respReq][i] = out[respReq][i]
      /\ out'[respReq][Len(out[respReq]) + 1] = popDn
  <2>1. out \in [Reqs -> Seq(Nat)] /\ out[respReq] \in Seq(Nat)
    BY <1>1 DEF BlockInv
  <2>2. /\ Append(out[respReq], popDn) \in Seq(Nat) /\ Len(out[respReq]) \in Nat
        /\ Len(Append(out[respReq], popDn)) = Len(out[respReq]) + 1
        /\ \A i \in 1 .. Len(out[respReq]) : Append(out[respReq], popDn)[i] = out[respReq][i]
        /\ Append(out[respReq], popDn)[Len(out[respReq]) + 1] = popDn
    BY <2>1, SeqFacts, AppendFacts
  <2>3. /\ out'[respReq] = Append(out[respReq], popDn) /\ out' \in [Reqs -> Seq(Nat)]
        /\ \A r \in Reqs : r # respReq => out'[r] = out[r]
    BY <1>1, <2>1, <2>2
  <2>4. QED
    BY <2>1, <2>2, <2>3
<1>4. \A r \in Reqs : \A i \in 1 .. Len(out'[r]) :
         \/ i \in 1 .. Len(out[r]) /\ out'[r][i] = out[r][i] /\ out[r][i] \in 1 .. Given
         \/ r = respReq /\ out'[r][i] = popDn
  <2>1. SUFFICES ASSUME NEW r \in Reqs, NEW i \in 1 .. Len(out'[r])
                 PROVE  \/ i \in 1 .. Len(out[r]) /\ out'[r][i] = out[r][i] /\ out[r][i] \in 1 .. Given
                        \/ r = respReq /\ out'[r][i] = popDn
    OBVIOUS
  <2>2. CASE r # respReq
    BY <1>3, <2>2 DEF BlockInv
  <2>3. CASE r = respReq /\ i \in 1 .. Len(out[r])
    BY <1>3, <2>3 DEF BlockInv
  <2>4. CASE r = respReq /\ i = Len(out[r]) + 1
    BY <1>3, <2>4
  <2>5. QED
    BY <1>3, <2>2, <2>3, <2>4
<1>5. \A r \in Reqs : \A i \in 1 .. Len(out'[r]) : out'[r][i] \in 1 .. Given'
  BY <1>2, <1>4
<1>6. \A k \in 1 .. Given' : \E r \in Reqs : Among(out'[r], k)
  <2>1. ASSUME NEW k \in 1 .. Given PROVE \E r \in Reqs : Among(out'[r], k)
    <3>1. PICK r \in Reqs : Among(out[r], k)
      BY DEF BlockInv
    <3>2. PICK i \in 1 .. Len(out[r]) : out[r][i] = k
      BY <3>1 DEF Among
    <3>3. i \in 1 .. Len(out'[r]) /\ out'[r][i] = k
      BY <1>1, <1>3, <3>2
    <3>4. QED
      BY <3>3 DEF Among
  <2>2. Among(out'[respReq], popDn)
    <3>1. Len(out[respReq]) + 1 \in 1 .. Len(out'[respReq])
      BY <1>3
    <3>2. QED
      BY <1>3, <3>1 DEF Among
  <2>3. \A k \in 1 .. Given' : k \in 1 .. Given \/ k = popDn
    BY <1>2
  <2>4. QED
    BY <1>1, <2>1, <2>2, <2>3
<1>7. \A q, r \in Reqs : Key(q) < Key(r) =>
          \A i \in 1 .. Len(out'[q]), j \in 1 .. Len(out'[r]) : out'[q][i] < out'[r][j]
  <2>1. SUFFICES ASSUME NEW q \in Reqs, NEW r \in Reqs, Key(q) < Key(r),
                        NEW i \in 1 .. Len(out'[q]), NEW j \in 1 .. Len(out'[r])
                 PROVE  out'[q][i] < out'[r][j]
    OBVIOUS
  <2>2. CASE /\ i \in 1 .. Len(out[q]) /\ out'[q][i] = out[q][i]
             /\ j \in 1 .. Len(out[r]) /\ out'[r][j] = out[r][j]
    BY <2>1, <2>2 DEF BlockInv
  <2>3. CASE /\ i \in 1 .. Len(out[q]) /\ out'[q][i] = out[q][i] /\ out[q][i] \in 1 .. Given
             /\ out'[r][j] = popDn
    BY <1>2, <2>3
  <2>4. CASE q = respReq /\ j \in 1 .. Len(out[r])
    <3>1. Wrote(r) /\ AtResp(q)
      BY <1>1, <2>4, EmptySeq DEF Wrote, AtResp, BlockInv
    <3>2. Key(r) <= Key(q)
      BY <3>1 DEF OrderInv
    <3>3. Key(r) \in Nat /\ Key(q) \in Nat
      BY <3>1, KeyType DEF OrderInv, Front
    <3>4. QED
      BY <2>1, <3>2, <3>3
  <2>5. CASE q = respReq /\ r = respReq
    <3>1. Key(q) \in Nat
      <4>1. AtResp(q)
        BY <1>1, <2>5 DEF AtResp
      <4>2. QED
        BY <4>1, KeyType DEF OrderInv, Front
    <3>2. QED
      BY <2>1, <2>5, <3>1
  <2>6. QED
    BY <1>4, <2>2, <2>3, <2>4, <2>5
<1>8. QED
  BY <1>1, <1>2, <1>3, <1>5, <1>6, <1>7 DEF BlockInv, Key

LEMMA BlockStep ==
  ASSUME RequestTypes, UpInv, OrderInv, BlockInv, P!TypeOK, P!TypeOK', P!RecvQInv', [Next]_vars
  PROVE  BlockInv'
<1>1. popped \in Seq(Nat) /\ Len(popped) \in Nat /\ popDn \in Nat
  BY SeqFacts DEF P!TypeOK, P!BlocksOK
<1>2. \A r \in Reqs : Wrote(r) => Key(r)' = Key(r)
  <2>1. CASE UNCHANGED requests
    BY <2>1 DEF Key
  <2>2. CASE Client
    <3>1. PICK req : requests' = Append(requests, req)
      BY <2>2 DEF Client, SendsNext, SendsAgain, Arrive
    <3>2. \A i \in 1 .. Len(requests) : requests'[i] = requests[i]
      BY <3>1, AnyAppend DEF RequestTypes
    <3>3. \A r \in Reqs : Wrote(r) => r \in 1 .. Len(requests)
      BY KeyType DEF OrderInv, Front
    <3>4. QED
      BY <3>2, <3>3 DEF Key
  <2>3. UNCHANGED requests \/ Client
    BY DEF Next, Handler, HandlerPush, HandlerEnqueue, ProcessLoop, ProcCheck, ProcPop, ProcBody,
       ProcBodyCut, ProcAnswer, ProcQueue, notProc, ResponseLoop, RespNext, RespLook, RespWrite,
       RespAgain, RespFinish, notResp, CheckLoop, CheckTick, CheckSync, CheckProxy, notCheck,
       Expire, ProxyBody, Target, notProxy, vars
  <2>4. QED
    BY <2>1, <2>2, <2>3
<1>3. ASSUME popPc' = popPc, popDn' = popDn, popped' = popped, out' = out,
             respPc' = respPc \/ (respPc' # "pop" /\ (respPc # "pop" \/ (popPc = "idle" /\ popDn = Nil)))
      PROVE  BlockInv'
  <2>1. DownInHand' <=> DownInHand
    BY <1>3 DEF DownInHand
  <2>2. Given' = Given
    BY <1>3, <2>1 DEF Given
  <2>3. popPc' # "idle" => respPc' = "pop" /\ popDn' = Nil
    BY <1>3 DEF BlockInv
  <2>4. DownInHand' => popDn' = Len(popped') /\ Len(popped') > 0
    BY <1>3, <2>1 DEF BlockInv
  <2>5. QED
    BY <1>2, <1>3, <2>2, <2>3, <2>4, BlockKeeps
<1>4. ASSUME out' = out, respPc' = "pop", ~DownInHand,
             \/ UNCHANGED <<popDn, popped>> /\ popDn = Nil
             \/ popDn' = Nil /\ popped' = popped
             \/ /\ popDn' # Nil /\ popDn' = Len(popped') /\ Len(popped') = Len(popped) + 1
                /\ popPc' = "idle"
      PROVE  BlockInv'
  <2>1. Given' = Given
    BY <1>1, <1>4 DEF Given, DownInHand
  <2>2. DownInHand' => popDn' = Len(popped') /\ Len(popped') > 0
    BY <1>1, <1>4 DEF DownInHand
  <2>3. popPc' # "idle" => respPc' = "pop" /\ popDn' = Nil
    BY <1>4
  <2>4. QED
    BY <1>2, <1>4, <2>1, <2>2, <2>3, BlockKeeps
<1>5. CASE RespLook \/ RespAgain
  <2>1. /\ out' = out /\ respPc' = "pop" /\ respPc \in {"look", "again"}
        /\ \E w : T!PopCall(w)
    BY <1>5 DEF RespLook, RespAgain
  <2>2. ~DownInHand
    BY <2>1 DEF DownInHand
  <2>3. \/ T!TakeFromRecvQ /\ (popDn' # Nil => popPc' = "idle")
        \/ popDn' = Nil /\ popped' = popped
    BY <2>1 DEF T!PopCall, T!TakeFromRecvQ, T!Nil, Nil
  <2>4. QED
    BY <1>4, <2>1, <2>2, <2>3, TakeStep
<1>6. CASE ProxyBody /\ T!PopBody
  <2>1. /\ popPc # "idle" /\ UNCHANGED <<out, respPc>>
        /\ \/ UNCHANGED <<popDn, popped>>
           \/ T!TakeFromRecvQ /\ popPc' = "idle"
    BY <1>6 DEF T!PopBody, T!PopCheck, T!PopReceive, T!PopTimeout, ProxyBody, notProxy, loopVars,
       handlerVars
  <2>2. respPc = "pop" /\ popDn = Nil /\ ~DownInHand
    BY <2>1 DEF BlockInv, DownInHand
  <2>3. QED
    BY <1>4, <2>1, <2>2, TakeStep
<1>7. CASE (ProxyBody /\ ~T!PopBody) \/ Target
  <2>1. UNCHANGED <<popPc, popDn, popped, out, respPc>>
    BY <1>7 DEF ProxyBody, Target, T!SendLoop, T!SendCheck, T!SendPop, T!SendWrite, T!SendFail,
       T!notSend, T!RecvLoop, T!RecvCheck, T!RecvRead, T!RecvPush, T!RecvFail, T!notRecv,
       T!DestroyBody, T!DestroyClose, T!DestroyWake, T!notDestroy, T!Remote, T!RemoteSend,
       T!RemoteEnd, T!notRemote, T!popVars, T!historyVars, notProxy, loopVars, handlerVars
  <2>2. QED
    BY <1>3, <2>1
<1>8. CASE RespNext \/ RespFinish
  <2>1. /\ UNCHANGED <<popPc, popDn, popped, out>> /\ respPc' # "pop"
        /\ respPc = "next" \/ (popPc = "idle" /\ popDn = Nil)
    BY <1>8 DEF RespNext, RespFinish, MayFinish, proxyVars
  <2>2. QED
    BY <1>3, <2>1
<1>9. CASE Client \/ (\E r \in Reqs : Handler(r)) \/ CheckLoop \/ Expire \/ UNCHANGED vars
  <2>1. UNCHANGED <<popPc, popDn, popped, out, respPc>>
    BY <1>9 DEF Client, SendsNext, SendsAgain, Arrive, Handler, HandlerPush, HandlerEnqueue,
       CheckLoop, CheckTick, CheckSync, CheckProxy, notCheck, Expire, T!DestroyBegin, T!notDestroy,
       T!popVars, T!historyVars, proxyVars, loopVars, handlerVars, vars
  <2>2. QED
    BY <1>3, <2>1
<1>10. CASE ProcessLoop \/ ProcBodyCut
  <2>1. \A dn : T!PushData(dn) => UNCHANGED <<popPc, popDn, popped>>
    BY DEF T!PushData, T!popVars
  <2>2. UNCHANGED <<popPc, popDn, popped, out, respPc>>
    BY <1>10, <2>1 DEF ProcessLoop, ProcCheck, ProcPop, ProcBody, ProcBodyCut, ProcAnswer,
       ProcQueue, notProc, proxyVars
  <2>3. QED
    BY <1>3, <2>2
<1>11. QED
  BY <1>1, <1>5, <1>6, <1>7, <1>8, <1>9, <1>10, BlockWrite DEF Next, ResponseLoop

\* Read in the order of their seq numbers, the responses contain what came from
\* the target, in order and with nothing missing, for any number of requests of
\* which any may be sent again (tcpClient.responseLoop).
THEOREM DownlinkInOrderCorrect == Spec => []DownlinkInOrder
<1> DEFINE DInv == /\ RequestTypes /\ PlaceInv /\ UpInv /\ OrderInv /\ BlockInv
                   /\ P!TypeOK /\ P!RecvQInv
<1>a. DataQueueSize \in Nat \ {0} /\ MaxIn \in Nat /\ MaxOut \in Nat
  BY TcpClientAssumption DEF TcpClientAssumption
<1>1. Init => DInv
  <2>1. Init => P!Init
    BY DEF Init, T!Init, P!Init, T!Nil, P!Nil
  <2>2. P!Init => P!TypeOK /\ P!RecvQInv
    BY <1>a, P!TypeInit, P!RecvQInit
  <2>3. QED
    BY <2>1, <2>2, PlaceInit, UpInit, OrderInit, BlockInit
<1>2. DInv /\ [Next]_vars => DInv'
  <2>1. SUFFICES ASSUME RequestTypes, PlaceInv, UpInv, OrderInv, BlockInv, P!TypeOK, P!RecvQInv,
                        [Next]_vars
                 PROVE  DInv'
    OBVIOUS
  <2>2. RequestTypes' /\ PlaceInv' /\ UpInv'
    BY <2>1, PlaceStep, UpStep
  <2>3. [P!AnyNext]_(P!vars)
    BY <1>a, <2>1, ProxyStep, P!OrderedIsAnyNext
  <2>4. P!TypeOK' /\ P!RecvQInv'
    BY <1>a, <2>1, <2>3, P!TypeStep, P!RecvQStep
  <2>5. OrderInv'
    <3>1. out \in [Reqs -> Seq(Nat)]
      BY <2>1 DEF BlockInv
    <3>2. QED
      BY <2>1, <3>1, OrderStep
  <2>6. BlockInv'
    BY <2>1, <2>4, BlockStep
  <2>7. QED
    BY <2>2, <2>4, <2>5, <2>6
<1>3. DInv => DownlinkInOrder
  <2>1. SUFFICES ASSUME DInv PROVE DownlinkInOrder
    OBVIOUS
  <2>2. T!PoppedInOrder
    BY <2>1 DEF P!RecvQInv, P!PoppedInOrder, P!Consecutive, T!PoppedInOrder, T!Consecutive
  <2>3. /\ popped \in Seq(Nat) /\ Len(popped) \in Nat /\ DOMAIN popped = 1 .. Len(popped)
        /\ \A i \in 1 .. Len(popped) : popped[i] = i
    BY <2>1, <2>2, SeqFacts DEF P!TypeOK, P!BlocksOK, T!PoppedInOrder, T!Consecutive
  <2>4. \A r \in Reqs : DOMAIN out[r] = 1 .. Len(out[r])
    BY <2>1, SeqFacts DEF BlockInv
  <2>5. DOMAIN requests \subseteq Reqs
    <3>1. DOMAIN requests = 1 .. Len(requests) /\ Len(requests) \in Nat
      BY <2>1, LenProperties DEF RequestTypes, IsSeq
    <3>2. QED
      BY <2>1, <3>1, TcpClientAssumption DEF OrderInv, Reqs, TcpClientAssumption
  <2>6. \A q, r \in DOMAIN requests : requests[q].seq < requests[r].seq =>
          \A i \in DOMAIN out[q], j \in DOMAIN out[r] : out[q][i] < out[r][j]
    BY <2>1, <2>4, <2>5 DEF BlockInv, Key
  <2>7. ASSUME NEW k \in Range(popped), k \notin UNION {Range(out[r]) : r \in Reqs}
        PROVE  respPc = "pop" /\ k = popDn
    <3>1. k \in 1 .. Len(popped)
      BY <2>3, <2>7 DEF Range
    <3>2. k \notin 1 .. Given
      <4>1. SUFFICES ASSUME k \in 1 .. Given PROVE FALSE
        OBVIOUS
      <4>2. PICK r \in Reqs : Among(out[r], k)
        BY <2>1, <4>1 DEF BlockInv
      <4>3. k \in Range(out[r])
        BY <2>4, <4>2 DEF Among, Range
      <4>4. QED
        BY <2>7, <4>3
    <3>3. /\ Len(popped) \in Nat /\ k \in Nat
          /\ ~(k <= Given)
      BY <2>3, <3>1, <3>2, SMT DEF Given
    <3>4. CASE ~DownInHand
      <4>1. Given = Len(popped)
        BY <3>4 DEF Given
      <4>2. QED
        BY <3>1, <3>3, <4>1, SMT
    <3>5. CASE DownInHand
      <4>1. Given = Len(popped) - 1
        BY <3>5 DEF Given
      <4>2. k = Len(popped)
        BY <3>1, <3>3, <4>1, SMT
      <4>3. QED
        BY <2>1, <3>5, <4>2 DEF BlockInv, DownInHand
    <3>6. QED
      BY <3>4, <3>5
  <2>8. QED
    BY <2>2, <2>6, <2>7 DEF DownlinkInOrder
<1>4. QED
  BY <1>1, <1>2, <1>3, PTL DEF Spec
=============================================================================
