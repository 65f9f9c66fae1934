---------------------------- MODULE StartupProofs -----------------------------
(***************************************************************************)
(* Theorems about Startup and KeepAlive: for every command line and every  *)
(* configuration file, whatever bytes it has.                              *)
(***************************************************************************)
EXTENDS Startup, QueueFacts, FiniteSetTheorems, TLAPS

-----------------------------------------------------------------------------
(* A tunnel that is kept alive                                             *)

Queued == reqs + ress

\* The seconds since the last request that no blocked push or write explains.
Idle == age - stalled

\* Where these seconds went.  While requests wait, they were spent in the response
\* that was going on when the last of them came; then in the last response, and
\* at last on the way to the client and back.
IdleInv ==
    /\ reqs > 0 => Idle <= 0
    /\ Queued > 0 => Idle <= Wait
    /\ Queued > 0 /\ respPc = "pop" /\ limit = Wait => Idle <= waited
    /\ Queued = 0 /\ respPc = "pop" /\ limit = Wait => Idle <= Wait + waited
    /\ Queued = 0 /\ respPc = "pop" => Idle <= 2 * Wait
    /\ Queued = 0 /\ respPc = "write" => Idle <= 2 * Wait
    /\ Queued = 0 /\ respPc = "next" => Idle <= 2 * Wait + away
    /\ ~gone => away <= MaxAway

IInv == TypeOK /\ IdleInv /\ IdleSurvives

LEMMA FreshIInv == Checked(G) /\ Fresh => IInv
<1> SUFFICES ASSUME Checked(G), Fresh PROVE IInv
  OBVIOUS
<1>1. Checked(G) /\ Wait \in Int /\ Wait > 0
  BY DEF Checked, Wait
<1>2. TypeOK
  <2>1. alive \in BOOLEAN /\ connAlive \in BOOLEAN /\ gone \in BOOLEAN
    BY Zenon DEF Fresh
  <2>2. /\ reqs = 0 /\ ress = 0 /\ respPc = "next" /\ limit = 0 /\ waited = 0
        /\ age = 0 /\ stalled = 0 /\ away = 0
    BY DEF Fresh
  <2> QED
    BY <1>1, <2>1, <2>2 DEF TypeOK
<1>3. IdleInv
  BY <1>1, KeepAliveAssumption DEF Fresh, IdleInv, Queued, Idle
<1> QED
  BY <1>2, <1>3 DEF Fresh, IInv, IdleSurvives

LEMMA NextTypeOK == TypeOK /\ [Next]_vars => TypeOK'
<1> SUFFICES ASSUME TypeOK, [Next]_vars PROVE TypeOK'
  OBVIOUS
<1> USE DEF TypeOK, Checked, Wait
<1>1. CASE Request
  BY <1>1 DEF Request
<1>2. CASE Process
  BY <1>2 DEF Process
<1>3. CASE ResponseLoop
  BY <1>3 DEF ResponseLoop, Start, Block, Written, NoBlock, Limit
<1>4. CASE CheckLoop \/ TargetDies \/ ClientDies
  BY <1>4 DEF CheckLoop, TargetDies, ClientDies
<1>5. CASE Tick
  BY <1>5 DEF Tick
<1>6. CASE UNCHANGED vars
  BY <1>6 DEF vars
<1> QED
  BY <1>1, <1>2, <1>3, <1>4, <1>5, <1>6 DEF Next

LEMMA NextIdleInv == TypeOK /\ IdleInv /\ [Next]_vars => IdleInv'
<1> SUFFICES ASSUME TypeOK, IdleInv, [Next]_vars PROVE IdleInv'
  OBVIOUS
<1>t. TypeOK'
  BY NextTypeOK
<1> USE KeepAliveAssumption, <1>t DEF TypeOK, Checked, IdleInv, Queued, Idle, Wait
<1>1. CASE Request
  BY <1>1 DEF Request
<1>2. CASE Process
  BY <1>2 DEF Process
<1>3. CASE Start
  BY <1>3 DEF Start, Limit
<1>4. CASE Block
  BY <1>4 DEF Block
<1>5. CASE Written
  BY <1>5 DEF Written
<1>6. CASE NoBlock
  BY <1>6 DEF NoBlock
<1>7. CASE CheckLoop \/ TargetDies \/ ClientDies
  <2>1. UNCHANGED <<G, reqs, ress, respPc, limit, waited, age, stalled, away>>
    BY <1>7 DEF CheckLoop, TargetDies, ClientDies
  <2>2. gone => gone'
    BY <1>7 DEF CheckLoop, TargetDies, ClientDies
  <2> QED
    BY <2>1, <2>2
<1>8. CASE Tick
  <2>1. CASE respPc = "pop"
    BY <1>8, <2>1 DEF Tick
  <2>2. CASE respPc = "write"
    BY <1>8, <2>2 DEF Tick
  <2>3. CASE respPc = "next"
    BY <1>8, <2>3 DEF Tick
  <2> QED
    BY <2>1, <2>2, <2>3
<1>9. CASE UNCHANGED vars
  BY <1>9 DEF vars
<1> QED
  BY <1>1, <1>2, <1>3, <1>4, <1>5, <1>6, <1>7, <1>8, <1>9 DEF Next, ResponseLoop

\* Only checkLoop ends the tunnel, and afterwards nothing changes.
LEMMA NextIdleSurvives ==
    TypeOK /\ IdleInv /\ IdleSurvives /\ [Next]_vars => IdleSurvives'
<1> SUFFICES ASSUME TypeOK, IdleInv, IdleSurvives, [Next]_vars PROVE IdleSurvives'
  OBVIOUS
<1>1. CASE alive /\ CheckLoop
  <2>1. connAlive /\ ~gone => Idle <= 2 * Wait + MaxAway
    BY KeepAliveAssumption DEF TypeOK, Checked, IdleInv, Queued, Idle, Wait
  <2> QED
    BY <1>1, <2>1, KeepAliveAssumption
       DEF CheckLoop, IsRecent, IdleSurvives, Idle, TypeOK, Checked, Wait, Timeout
<1>2. CASE alive /\ ~CheckLoop /\ Next
  <2>1. alive'
    BY <1>2 DEF Next, Request, Process, ResponseLoop, Start, Block, Written, NoBlock,
                TargetDies, ClientDies, Tick
  <2> QED
    BY <2>1 DEF IdleSurvives
<1>3. CASE UNCHANGED vars
  BY <1>3 DEF vars, IdleSurvives, Wait, Timeout
<1> QED
  BY <1>1, <1>2, <1>3 DEF Next

LEMMA NextIInv == IInv /\ [Next]_vars => IInv'
  BY NextTypeOK, NextIdleInv, NextIdleSurvives DEF IInv

LEMMA IInvCorrect == Spec => []IInv
<1>1. Init => IInv
  BY FreshIInv, KeepAliveAssumption DEF Init
<1> QED
  BY <1>1, NextIInv, PTL DEF Spec

\* An idle tunnel survives: with 2 * KeepAliveTimeSec and the way to the client and
\* back within ConnectionTimeoutSec, checkLoop destroys no tunnel whose ends live
\* and whose client polls, as long as no push or write is blocked
\* (tcpClient.isAlive, responseLoop, checkLoop).
THEOREM IdleSurvivesCorrect == Spec => []IdleSurvives
  BY IInvCorrect, PTL DEF IInv

\* The queues, the labels and the times keep to their types.
THEOREM TypeCorrect == Spec => []TypeOK
  BY IInvCorrect, PTL DEF IInv

-----------------------------------------------------------------------------
(* Numbers                                                                 *)

LEMMA DigitValueType == \A c \in Digits : DigitValue[c] \in Nat
<1> SUFFICES ASSUME NEW c \in Digits PROVE DigitValue[c] \in Nat
  OBVIOUS
<1>1. DOMAIN Decimals = 1 .. 10
  BY DEF Decimals
<1>2. \E i \in 1 .. 10 : Decimals[i] = c
  <2>1. /\ Decimals[1] = "0" /\ Decimals[2] = "1" /\ Decimals[3] = "2" /\ Decimals[4] = "3"
        /\ Decimals[5] = "4" /\ Decimals[6] = "5" /\ Decimals[7] = "6" /\ Decimals[8] = "7"
        /\ Decimals[9] = "8" /\ Decimals[10] = "9"
    BY DEF Decimals
  <2>2. 1 \in 1 .. 10 /\ 2 \in 1 .. 10 /\ 3 \in 1 .. 10 /\ 4 \in 1 .. 10 /\ 5 \in 1 .. 10
        /\ 6 \in 1 .. 10 /\ 7 \in 1 .. 10 /\ 8 \in 1 .. 10 /\ 9 \in 1 .. 10 /\ 10 \in 1 .. 10
    OBVIOUS
  <2>3. c \in {"0", "1", "2", "3", "4", "5", "6", "7", "8", "9"}
    BY DEF Digits
  <2> QED
    BY ONLY <2>1, <2>2, <2>3
<1>3. (CHOOSE i \in DOMAIN Decimals : Decimals[i] = c) \in 1 .. 10
  <2>1. \E i \in DOMAIN Decimals : Decimals[i] = c
    BY <1>1, <1>2
  <2>2. (CHOOSE i \in DOMAIN Decimals : Decimals[i] = c) \in DOMAIN Decimals
    BY ONLY <2>1, Zenon
  <2> QED
    BY <2>2, <1>1
<1>4. DigitValue[c] = (CHOOSE i \in DOMAIN Decimals : Decimals[i] = c) - 1
  BY DEF DigitValue
<1>5. PICK j \in 1 .. 10 : DigitValue[c] = j - 1
  BY ONLY <1>3, <1>4, Zenon
<1> QED
  BY <1>5

\* The function that Number reads off is there: a first length without one would have one
\* that goes on from the length before.
LEMMA ValuesAreThere ==
  ASSUME NEW s, NEW n \in Nat
  PROVE  \E v : v = [i \in 0 .. n |-> IF i = 0 THEN 0 ELSE 10 * v[i - 1] + DigitValue[s[i]]]
<1> DEFINE IsValue(v, m) ==
             v = [i \in 0 .. m |-> IF i = 0 THEN 0 ELSE 10 * v[i - 1] + DigitValue[s[i]]]
           Missing == {m \in Nat : ~\E v : IsValue(v, m)}
<1>1. SUFFICES ASSUME Missing # {} PROVE FALSE
  OBVIOUS
<1>2. PICK m \in Missing : \A k \in Missing : m <= k
  BY <1>1, LeastNat
<1>3. CASE m = 0
  <2>1. IsValue([i \in 0 .. 0 |-> 0], 0)
    OBVIOUS
  <2> QED
    BY <1>2, <1>3, <2>1
<1>4. CASE m # 0
  <2>1. m \in Nat /\ m - 1 \in Nat /\ m - 1 \notin Missing
    <3>1. m \in Nat /\ \A k \in Missing : m <= k
      BY <1>2
    <3> HIDE DEF Missing
    <3> QED
      BY ONLY <3>1, <1>4
  <2>2. PICK v : IsValue(v, m - 1)
    BY <2>1
  <2> DEFINE w == [i \in 0 .. m |-> IF i = m THEN 10 * v[m - 1] + DigitValue[s[m]] ELSE v[i]]
  <2>3. \A i \in 0 .. m : w[i] = IF i = 0 THEN 0 ELSE 10 * w[i - 1] + DigitValue[s[i]]
    <3> TAKE i \in 0 .. m
    <3> HIDE DEF w
    <3>1. CASE i = m
      <4>1. w[i - 1] = v[m - 1] /\ w[i] = 10 * v[m - 1] + DigitValue[s[m]]
        BY <3>1, <2>1, <1>4 DEF w
      <4> QED
        BY <4>1, <3>1, <1>4
    <3>2. CASE i # m /\ i # 0
      <4>1. i \in 0 .. m - 1 /\ i - 1 \in 0 .. m /\ i - 1 # m
        BY <3>2, <2>1
      <4>2. w[i] = v[i] /\ w[i - 1] = v[i - 1]
        BY <4>1, <3>2 DEF w
      <4>3. v[i] = 10 * v[i - 1] + DigitValue[s[i]]
        BY <2>2, <4>1, <3>2
      <4> QED
        BY <4>2, <4>3, <3>2
    <3>3. CASE i # m /\ i = 0
      <4>1. i \in 0 .. m - 1
        BY <3>3, <2>1
      <4>2. w[i] = v[i] /\ v[i] = 0
        BY <3>3, <4>1, <2>2 DEF w
      <4> QED
        BY <4>2, <3>3
    <3> QED
      BY <3>1, <3>2, <3>3
  <2>4. IsValue(w, m)
    BY <2>3
  <2> QED
    BY <1>2, <2>4
<1> QED
  BY <1>3, <1>4

LEMMA NumberType == ASSUME NEW s \in Seq(Digits) PROVE Number(s) \in Nat
<1> DEFINE value[n \in 0 .. Len(s)] == IF n = 0 THEN 0 ELSE 10 * value[n - 1] + DigitValue[s[n]]
<1>1. Len(s) \in Nat /\ \A i \in 1 .. Len(s) : s[i] \in Digits
  BY LenProperties
<1>2. value = [n \in 0 .. Len(s) |-> IF n = 0 THEN 0 ELSE 10 * value[n - 1] + DigitValue[s[n]]]
  BY <1>1, ValuesAreThere
<1> HIDE DEF value
<1>3. \A n \in 0 .. Len(s) : value[n] \in Nat
  <2> DEFINE Wrong == {n \in 0 .. Len(s) : value[n] \notin Nat}
  <2>1. SUFFICES ASSUME Wrong # {} PROVE FALSE
    OBVIOUS
  <2>2. PICK m \in Wrong : \A k \in Wrong : m <= k
    <3>1. Wrong \subseteq Nat
      BY <1>1
    <3> QED
      BY <2>1, <3>1, LeastNat
  <2>3. m \in 0 .. Len(s) /\ value[m] \notin Nat
    BY <2>2
  <2>4. value[m] = IF m = 0 THEN 0 ELSE 10 * value[m - 1] + DigitValue[s[m]]
    BY <1>2, <2>3
  <2>5. m # 0
    BY <2>3, <2>4
  <2>6. m - 1 \in 0 .. Len(s) /\ value[m - 1] \in Nat
    BY <2>2, <2>3, <2>5, <1>1
  <2>7. DigitValue[s[m]] \in Nat
    BY <1>1, <2>3, <2>5, DigitValueType
  <2>8. 10 * value[m - 1] + DigitValue[s[m]] \in Nat
    BY <2>6, <2>7
  <2> QED
    BY <2>3, <2>4, <2>5, <2>8
<1>4. value[Len(s)] \in Nat
  BY <1>1, <1>3
<1> QED
  BY <1>4 DEF Number, value

-----------------------------------------------------------------------------
(* The parser                                                              *)

IsParser(p) ==
    p = [lx |-> p.lx, mode |-> p.mode, key |-> p.key, context |-> p.context,
         mapping |-> p.mapping, implicits |-> p.implicits, arrays |-> p.arrays,
         said |-> p.said, made |-> p.made]

\* What a key is given is no array of tables, and an integer is one.
ProperValue(v) == v.type # "ArrayHash" /\ (v.type = "Integer" => v.val \in Int)

MappingInv(p) ==
    /\ IsFiniteSet(DOMAIN p.mapping)
    /\ \A at \in DOMAIN p.mapping : p.mapping[at].type = "Integer" => p.mapping[at].val \in Int

\* The paths of what the text defines end in a name, and those of the elements of an array
\* of tables do not.
IsSequence(s) == \E S : s \in Seq(S)
IsKeyPath(path) == IsSequence(path) /\ Len(path) > 0 /\ path[Len(path)][2] = 0
PathsInv(p) ==
    /\ IsSequence(p.context)
    /\ \A i \in DOMAIN p.said : IsKeyPath(p.said[i].path)
    /\ \A at \in DOMAIN p.mapping : p.mapping[at].type = "ArrayHash" => p.mapping[at].val \in Nat

SaidInv(p) ==
    /\ \E n \in Nat : p.said = [i \in 1 .. n |-> p.said[i]]
    /\ \A i \in DOMAIN p.said : p.said[i].path \in DOMAIN p.mapping /\ ProperValue(p.said[i].v)

\* The marks are those of tables that were made implicitly and that the text did not
\* define since.
MarksInv(p) ==
    /\ p.made \subseteq DOMAIN p.mapping
    /\ \A mark \in p.implicits : \E q \in p.made :
          Mark(q) = mark /\ \A i \in DOMAIN p.said : p.said[i].path # q

\* The two parts of KeyIsKept, while the text is read.
Kept(p) ==
    \A i \in DOMAIN p.said : \/ Same(p.mapping[p.said[i].path], p.said[i].v)
                             \/ \E q \in p.made : SameMark(p.said[i].path, q)
DefinedOnce(p) ==
    \A i, j \in DOMAIN p.said :
        i < j /\ p.said[i].path = p.said[j].path =>
            \E q \in p.made : q # p.said[i].path /\ SameMark(p.said[i].path, q)

ParserInv(p) ==
    /\ IsParser(p) /\ MappingInv(p) /\ PathsInv(p) /\ SaidInv(p) /\ MarksInv(p)
    /\ Kept(p) /\ DefinedOnce(p)

LEMMA KeyPaths ==
  ASSUME NEW c, IsSequence(c)
  PROVE  /\ \A k : IsKeyPath(At(c, k)) /\ IsSequence(At(c, k))
         /\ \A k : \A n \in Nat : /\ IsSequence(Append(c, <<k, n + 1>>))
                               /\ ~IsKeyPath(Append(c, <<k, n + 1>>))
<1>1. PICK S : c \in Seq(S)
  BY DEF IsSequence
<1>2. ASSUME NEW k, NEW n \in Nat
      PROVE  LET s == Append(c, <<k, n>>) IN
             IsSequence(s) /\ Len(s) > 0 /\ s[Len(s)][2] = n
  <2> DEFINE e == <<k, n>>
             T == S \cup {e}
             s == Append(c, e)
  <2>1. c \in Seq(T) /\ e \in T
    BY <1>1
  <2>2. e[2] = n
    OBVIOUS
  <2> HIDE DEF e, T
  <2>3. s \in Seq(T) /\ Len(s) = Len(c) + 1 /\ s[Len(c) + 1] = e /\ Len(c) \in Nat
    BY <2>1, AppendProperties, LenProperties
  <2>4. IsSequence(s) /\ Len(s) > 0 /\ s[Len(s)][2] = n
    BY <2>2, <2>3 DEF IsSequence
  <2> QED
    BY <2>4 DEF e
<1>3. ASSUME NEW k PROVE IsKeyPath(At(c, k)) /\ IsSequence(At(c, k))
  BY <1>2 DEF IsKeyPath, At
<1>4. ASSUME NEW k, NEW n \in Nat
      PROVE  /\ IsSequence(Append(c, <<k, n + 1>>))
             /\ ~IsKeyPath(Append(c, <<k, n + 1>>))
  <2>1. n + 1 \in Nat /\ n + 1 # 0
    OBVIOUS
  <2> QED
    BY <1>2, <2>1 DEF IsKeyPath
<1> QED
  BY <1>3, <1>4

LEMMA NewParserInv == ASSUME NEW text PROVE ParserInv(NewParser(text))
<1> DEFINE p == NewParser(text)
<1>1. /\ p.mapping = [path \in {<<>>} |-> Hash] /\ p.implicits = {} /\ p.made = {}
      /\ p.said = <<>> /\ p.context = <<>>
  BY DEF NewParser
<1>2. IsParser(p)
  BY DEF NewParser, IsParser
<1> HIDE DEF p
<1>3. DOMAIN p.mapping = {<<>>} /\ p.mapping[<<>>].type = "Hash" /\ DOMAIN p.said = {}
  BY <1>1 DEF Hash
<1>4. IsFiniteSet(DOMAIN p.mapping)
  BY <1>3, FS_Singleton
<1>5. MappingInv(p)
  BY <1>3, <1>4 DEF MappingInv
<1>6. p.said = [i \in 1 .. 0 |-> p.said[i]]
  BY <1>1
<1>7. SaidInv(p)
  BY <1>3, <1>6 DEF SaidInv
<1>8. PathsInv(p)
  <2>1. <<>> \in Seq({})
    OBVIOUS
  <2> QED
    BY <1>1, <1>3, <2>1 DEF PathsInv, IsSequence
<1>9. MarksInv(p) /\ Kept(p) /\ DefinedOnce(p)
  BY <1>1, <1>3 DEF MarksInv, Kept, DefinedOnce
<1>10. ParserInv(p)
  BY <1>2, <1>5, <1>7, <1>8, <1>9 DEF ParserInv
<1> QED
  BY <1>10 DEF p

\* The rest of the parser has no part in it.
LEMMA ParserFrame ==
  ASSUME NEW p, NEW q, ParserInv(p), IsParser(q), q.mapping = p.mapping,
         q.implicits = p.implicits, q.said = p.said, q.made = p.made, IsSequence(q.context)
  PROVE  ParserInv(q)
  BY DEF ParserInv, MappingInv, PathsInv, SaidInv, MarksInv, Kept, DefinedOnce

LEMMA ProperValues == ASSUME NEW it PROVE ProperValue(Value(it))
<1> USE DEF ProperValue
<1>1. \A s : ProperValue(Text(s))
  BY DEF Text
<1>2. \A s : ProperValue(Datetime(s))
  BY DEF Datetime
<1>3. ASSUME NEW s PROVE ProperValue(Integer(s))
  <2> DEFINE negative == s # <<>> /\ s[1] = "-"
             digits == IF negative THEN Tail(s) ELSE s
             Natural == Seq(Digits) \ {<<>>}
  <2>1. digits \in Natural => -Number(digits) \in Int /\ Number(digits) \in Int
    <3>1. \A d \in Seq(Digits) : Number(d) \in Nat
      BY NumberType
    <3>2. \A n \in Nat : n \in Int /\ -n \in Int
      OBVIOUS
    <3> HIDE DEF digits
    <3> QED
      BY ONLY <3>1, <3>2
  <2>2. Integer(s) = CASE digits \notin Natural -> [type |-> "bug", val |-> s]
         [] digits \in Natural /\ Exceeds(digits, Limit64(negative)) -> [type |-> "error", val |-> s]
         [] OTHER -> [type |-> "Integer", val |-> IF negative THEN -Number(digits) ELSE Number(digits)]
    BY DEF Integer
  <2> HIDE DEF digits, Natural, negative
  <2>3. CASE digits \notin Natural
    BY <2>2, <2>3
  <2>4. CASE digits \in Natural /\ Exceeds(digits, Limit64(negative))
    BY <2>2, <2>4
  <2>5. CASE digits \in Natural /\ ~(Exceeds(digits, Limit64(negative)))
    BY <2>1, <2>2, <2>5
  <2> QED
    BY <2>3, <2>4, <2>5
<1> HIDE DEF ProperValue
<1>4. ProperValue([type |-> "Bool", val |-> it.val[1] = "t"])
      /\ ProperValue([type |-> "Float", val |-> it.val])
      /\ ProperValue([type |-> "bug", val |-> <<>>])
  BY DEF ProperValue
<1> DEFINE t == it.typ
<1>5. CASE t \in {"string", "multilineString", "rawString", "rawMultilineString"}
  BY <1>1, <1>5 DEF Value
<1>6. CASE t = "bool"
  BY <1>4, <1>6 DEF Value
<1>7. CASE t = "integer"
  BY <1>3, <1>7 DEF Value
<1>8. CASE t = "float"
  BY <1>4, <1>8 DEF Value
<1>9. CASE t = "datetime"
  BY <1>2, <1>9 DEF Value
<1>10. CASE t \notin {"string", "multilineString", "rawString", "rawMultilineString", "bool",
                      "integer", "float", "datetime"}
  BY <1>4, <1>10 DEF Value
<1> QED
  BY <1>5, <1>6, <1>7, <1>8, <1>9, <1>10

LEMMA StopFields ==
  ASSUME NEW p, NEW how, IsParser(p)
  PROVE  LET q == Stop(p, how) IN
         /\ IsParser(q) /\ q.mode = how /\ q.lx = p.lx /\ q.key = p.key /\ q.context = p.context
         /\ q.mapping = p.mapping /\ q.implicits = p.implicits /\ q.said = p.said
         /\ q.made = p.made
  BY DEF Stop, IsParser

LEMMA DefineFields ==
  ASSUME NEW p, NEW path, NEW v, IsParser(p)
  PROVE  LET q == Define(p, path, v) IN
         /\ IsParser(q) /\ q.mode = p.mode /\ q.lx = p.lx /\ q.key = p.key
         /\ q.context = p.context /\ q.implicits = p.implicits /\ q.said = p.said
         /\ q.made = p.made
         /\ DOMAIN q.mapping = {path} \cup DOMAIN p.mapping
         /\ q.mapping[path] = v
         /\ \A at \in DOMAIN p.mapping : at # path => q.mapping[at] = p.mapping[at]
  BY DEF Define, IsParser

LEMMA ChangedSaid ==
  ASSUME NEW p, NEW w, NEW q, IsParser(p), q = [p EXCEPT !.said = w]
  PROVE  /\ IsParser(q) /\ q.mode = p.mode /\ q.lx = p.lx /\ q.key = p.key
         /\ q.context = p.context /\ q.mapping = p.mapping
         /\ q.implicits = p.implicits /\ q.made = p.made /\ q.said = w
  BY DEF IsParser

LEMMA ChangedImplicits ==
  ASSUME NEW p, NEW w, NEW q, IsParser(p), q = [p EXCEPT !.implicits = w]
  PROVE  /\ IsParser(q) /\ q.mode = p.mode /\ q.lx = p.lx /\ q.key = p.key
         /\ q.context = p.context /\ q.mapping = p.mapping
         /\ q.said = p.said /\ q.made = p.made /\ q.implicits = w
  BY DEF IsParser

LEMMA SaidFields ==
  ASSUME NEW p, NEW path, NEW v, IsParser(p)
  PROVE  LET q == Said(p, path, v) IN
         /\ IsParser(q) /\ q.mode = p.mode /\ q.lx = p.lx /\ q.key = p.key
         /\ q.context = p.context /\ q.mapping = p.mapping
         /\ q.implicits = p.implicits /\ q.made = p.made
         /\ q.said = Append(p.said, [path |-> path, v |-> v])
<1> DEFINE w == Append(p.said, [path |-> path, v |-> v])
           q == Said(p, path, v)
<1>1. q = [p EXCEPT !.said = w]
  BY DEF Said
<1> HIDE DEF q, w
<1>2. /\ IsParser(q) /\ q.mode = p.mode /\ q.lx = p.lx /\ q.key = p.key
      /\ q.context = p.context /\ q.mapping = p.mapping
      /\ q.implicits = p.implicits /\ q.made = p.made /\ q.said = w
  BY <1>1, ChangedSaid
<1> QED
  BY <1>2 DEF q, w

\* A path gets its first value, or an array of tables one more table.
LEMMA DefineInv ==
  ASSUME NEW p, NEW path, NEW v, ParserInv(p), v.type = "Integer" => v.val \in Int,
         v.type = "ArrayHash" => v.val \in Nat,
         path \notin DOMAIN p.mapping \/ p.mapping[path].type = "ArrayHash" \/ ~IsKeyPath(path)
  PROVE  ParserInv(Define(p, path, v))
<1> DEFINE q == Define(p, path, v)
<1>1. /\ IsParser(q) /\ q.implicits = p.implicits /\ q.said = p.said /\ q.made = p.made
      /\ q.context = p.context
      /\ DOMAIN q.mapping = {path} \cup DOMAIN p.mapping /\ q.mapping[path] = v
      /\ \A at \in DOMAIN p.mapping : at # path => q.mapping[at] = p.mapping[at]
  BY DefineFields DEF ParserInv
<1> HIDE DEF q
<1>2. MappingInv(q)
  <2>1. IsFiniteSet(DOMAIN q.mapping)
    BY <1>1, FS_AddElement DEF ParserInv, MappingInv
  <2> QED
    BY <1>1, <2>1 DEF ParserInv, MappingInv
<1>p. PathsInv(q)
  BY <1>1 DEF ParserInv, PathsInv
<1>3. SaidInv(q)
  BY <1>1 DEF ParserInv, SaidInv
<1>4. MarksInv(q)
  BY <1>1 DEF ParserInv, MarksInv
<1>5. Kept(q)
  <2> SUFFICES ASSUME NEW i \in DOMAIN p.said,
                      ~\E r \in p.made : SameMark(p.said[i].path, r)
               PROVE  Same(q.mapping[p.said[i].path], p.said[i].v)
    BY <1>1 DEF Kept
  <2>1. Same(p.mapping[p.said[i].path], p.said[i].v)
    BY DEF ParserInv, Kept
  <2>2. p.said[i].path \in DOMAIN p.mapping /\ p.said[i].v.type # "ArrayHash"
    BY DEF ParserInv, SaidInv, ProperValue
  <2>3. p.said[i].path # path
    BY <2>1, <2>2 DEF Same, ParserInv, PathsInv
  <2> QED
    BY <1>1, <2>1, <2>2, <2>3
<1>6. DefinedOnce(q)
  BY <1>1 DEF ParserInv, DefinedOnce
<1>7. ParserInv(q)
  BY <1>1, <1>2, <1>p, <1>3, <1>4, <1>5, <1>6 DEF ParserInv
<1> QED
  BY <1>7 DEF q

\* The text defines a path, which is in the mapping, and a mark may go.
LEMMA SaidIsInv ==
  ASSUME NEW p, NEW q, NEW path, NEW v, ParserInv(p), IsParser(q), ProperValue(v),
         q.mapping = p.mapping, q.made = p.made, q.implicits \subseteq p.implicits,
         q.context = p.context, IsKeyPath(path),
         q.said = Append(p.said, [path |-> path, v |-> v]),
         path \in DOMAIN p.mapping,
         Same(p.mapping[path], v) \/ \E r \in p.made : SameMark(path, r),
         \A i \in DOMAIN p.said : p.said[i].path = path =>
            \E r \in p.made : r # path /\ SameMark(path, r),
         path \in p.made => Mark(path) \notin q.implicits
  PROVE  ParserInv(q)
<1>1. PICK n \in Nat : p.said = [i \in 1 .. n |-> p.said[i]]
  BY DEF ParserInv, SaidInv
<1>2. /\ DOMAIN p.said = 1 .. n /\ q.said = [i \in 1 .. n + 1 |-> q.said[i]]
      /\ DOMAIN q.said = 1 .. n + 1
      /\ q.said[n + 1] = [path |-> path, v |-> v]
      /\ \A i \in 1 .. n : q.said[i] = p.said[i]
  <2> DEFINE e == [path |-> path, v |-> v]
             S == {p.said[i] : i \in 1 .. n} \cup {e}
  <2>1. p.said \in [1 .. n -> S]
    BY <1>1
  <2>2. p.said \in Seq(S) /\ Len(p.said) = n /\ e \in S
    BY <2>1
  <2> HIDE DEF e, S
  <2>3. Append(p.said, e) \in Seq(S) /\ Len(Append(p.said, e)) = n + 1
        /\ Append(p.said, e)[n + 1] = e
        /\ \A i \in 1 .. n : Append(p.said, e)[i] = p.said[i]
    BY <2>2, AppendProperties
  <2>4. q.said = Append(p.said, e)
    BY DEF e
  <2>5. q.said \in [1 .. n + 1 -> S]
    BY <2>3, <2>4, LenProperties
  <2> QED
    BY <1>1, <2>3, <2>4, <2>5 DEF e
<1>3. MappingInv(q)
  BY DEF ParserInv, MappingInv
<1>4. \A i \in 1 .. n : q.said[i] = p.said[i] /\ i \in DOMAIN p.said
  BY <1>2
<1>5. \A i \in DOMAIN q.said : i \in 1 .. n \/ i = n + 1
  BY <1>2
<1>6. SaidInv(q)
  <2>1. \A i \in DOMAIN q.said : q.said[i].path \in DOMAIN q.mapping /\ ProperValue(q.said[i].v)
    BY <1>2, <1>4, <1>5 DEF ParserInv, SaidInv
  <2>2. n + 1 \in Nat
    BY <1>1
  <2> QED
    BY <1>2, <2>1, <2>2 DEF SaidInv
<1>p. PathsInv(q)
  <2>1. \A i \in DOMAIN q.said : IsKeyPath(q.said[i].path)
    BY <1>2, <1>4, <1>5 DEF ParserInv, PathsInv
  <2> QED
    BY <2>1 DEF ParserInv, PathsInv
<1>7. MarksInv(q)
  <2>1. q.made \subseteq DOMAIN q.mapping
    BY DEF ParserInv, MarksInv
  <2>2. ASSUME NEW mark \in q.implicits
        PROVE  \E r \in q.made : Mark(r) = mark /\ \A i \in DOMAIN q.said : q.said[i].path # r
    <3>1. PICK r \in p.made : Mark(r) = mark /\ \A i \in DOMAIN p.said : p.said[i].path # r
      BY DEF ParserInv, MarksInv
    <3>2. r # path
      BY <3>1, <2>2
    <3>3. \A i \in DOMAIN q.said : q.said[i].path # r
      BY <3>1, <3>2, <1>2, <1>4, <1>5
    <3> QED
      BY <3>1, <3>3
  <2> QED
    BY <2>1, <2>2 DEF MarksInv
<1>8. Kept(q)
  <2> SUFFICES ASSUME NEW i \in DOMAIN q.said
               PROVE  \/ Same(q.mapping[q.said[i].path], q.said[i].v)
                      \/ \E r \in q.made : SameMark(q.said[i].path, r)
    BY DEF Kept
  <2>1. CASE i = n + 1
    BY <1>2, <2>1
  <2>2. CASE i \in 1 .. n
    BY <1>4, <2>2 DEF ParserInv, Kept
  <2> QED
    BY <1>5, <2>1, <2>2
<1>9. DefinedOnce(q)
  <2> SUFFICES ASSUME NEW i \in DOMAIN q.said, NEW j \in DOMAIN q.said, i < j,
                      q.said[i].path = q.said[j].path
               PROVE  \E r \in q.made : r # q.said[i].path /\ SameMark(q.said[i].path, r)
    BY DEF DefinedOnce
  <2>1. i \in 1 .. n
    BY <1>1, <1>2
  <2>2. CASE j = n + 1
    BY <1>2, <1>4, <2>1, <2>2
  <2>3. CASE j \in 1 .. n
    BY <1>4, <2>1, <2>3 DEF ParserInv, DefinedOnce
  <2> QED
    BY <1>5, <2>2, <2>3
<1> QED
  BY <1>3, <1>6, <1>p, <1>7, <1>8, <1>9 DEF ParserInv

\* Steps that neither define anything nor mark it.
LEMMA RestInv ==
  ASSUME NEW p, NEW q, NEW w, NEW m, NEW c, ParserInv(p), IsSequence(c),
         \/ q = [p EXCEPT !.mode = m]
         \/ q = [p EXCEPT !.mode = m, !.context = c]
         \/ q = [p EXCEPT !.mode = m, !.context = c, !.key = w]
         \/ q = [p EXCEPT !.context = c]
         \/ q = [p EXCEPT !.context = c, !.key = w]
         \/ q = [p EXCEPT !.key = w]
         \/ q = [p EXCEPT !.key = w, !.mode = m]
         \/ q = [p EXCEPT !.arrays = w]
         \/ q = [p EXCEPT !.arrays = w, !.mode = m]
         \/ q = [p EXCEPT !.lx = w]
  PROVE  ParserInv(q)
<1>1. IsParser(p)
  BY DEF ParserInv
<1>2. /\ IsParser(q) /\ q.mapping = p.mapping /\ q.implicits = p.implicits
      /\ q.said = p.said /\ q.made = p.made
      /\ q.context \in {c, p.context}
  BY <1>1 DEF IsParser
<1>3. IsSequence(q.context)
  BY <1>2 DEF ParserInv, PathsInv
<1> QED
  BY <1>2, <1>3, ParserFrame

LEMMA StopInv == ASSUME NEW p, NEW how, ParserInv(p) PROVE ParserInv(Stop(p, how))
  BY StopFields, ParserFrame DEF ParserInv, PathsInv

LEMMA SetValueInv ==
  ASSUME NEW p, NEW k, NEW v, ParserInv(p), ProperValue(v)
  PROVE  ParserInv(SetValue(p, k, v))
<1> DEFINE path == At(p.context, k)
           top == Stop(p, "top")
           q == Said(top, path, v)
<1>1. /\ IsParser(q) /\ q.mapping = p.mapping /\ q.implicits = p.implicits /\ q.made = p.made
      /\ q.said = Append(p.said, [path |-> path, v |-> v]) /\ q.context = p.context
  <2>1. /\ IsParser(top) /\ top.context = p.context /\ top.mapping = p.mapping /\ top.implicits = p.implicits
        /\ top.said = p.said /\ top.made = p.made
    BY StopFields DEF ParserInv
  <2> HIDE DEF top
  <2> QED
    BY <2>1, SaidFields
<1>2. ParserInv(Stop(p, "bug")) /\ ParserInv(Stop(p, "error"))
  BY StopInv
<1>k. IsKeyPath(path)
  BY KeyPaths DEF ParserInv, PathsInv
<1>3. SetValue(p, k, v) =
        CASE p.mapping[p.context].type # "Hash" -> Stop(p, "bug")
          [] p.mapping[p.context].type = "Hash" /\ path \notin DOMAIN p.mapping -> Define(q, path, v)
          [] p.mapping[p.context].type = "Hash" /\ path \in DOMAIN p.mapping
                /\ Mark(path) \in p.implicits -> [q EXCEPT !.implicits = @ \ {Mark(path)}]
          [] OTHER -> Stop(p, "error")
  BY DEF SetValue
<1> HIDE DEF path, q
<1>4. ASSUME path \notin DOMAIN p.mapping PROVE ParserInv(Define(q, path, v))
  <2> DEFINE d == Define(p, path, v)
             r == Define(q, path, v)
  <2>1. ParserInv(d)
    BY <1>4, DefineInv DEF ProperValue
  <2>c. d.context = p.context
    BY DefineFields DEF ParserInv
  <2>2. /\ d.mapping = [at \in {path} \cup DOMAIN p.mapping |-> IF at = path THEN v ELSE p.mapping[at]]
        /\ r.mapping = d.mapping
    BY <1>1 DEF ParserInv, Define, IsParser
  <2>3. /\ d.implicits = p.implicits /\ d.said = p.said /\ d.made = p.made
        /\ path \in DOMAIN d.mapping /\ d.mapping[path] = v
    BY DefineFields DEF ParserInv
  <2>4. /\ IsParser(r) /\ r.implicits = q.implicits /\ r.said = q.said /\ r.made = q.made
        /\ r.context = q.context
    BY <1>1, DefineFields
  <2>5. path \notin p.made /\ \A i \in DOMAIN p.said : p.said[i].path # path
    BY <1>4 DEF ParserInv, MarksInv, SaidInv
  <2>6. Same(d.mapping[path], v)
    BY <2>3 DEF Same
  <2> HIDE DEF d, r
  <2>7. ParserInv(r)
    BY <1>1, <1>k, <2>1, <2>c, <2>2, <2>3, <2>4, <2>5, <2>6, SaidIsInv
  <2> QED
    BY <2>7 DEF r
<1>5. ASSUME path \in DOMAIN p.mapping, Mark(path) \in p.implicits
      PROVE  ParserInv([q EXCEPT !.implicits = @ \ {Mark(path)}])
  <2> DEFINE r == [q EXCEPT !.implicits = @ \ {Mark(path)}]
  <2>1. /\ IsParser(r) /\ r.mapping = p.mapping /\ r.made = p.made /\ r.context = p.context
        /\ r.implicits = p.implicits \ {Mark(path)}
        /\ r.said = Append(p.said, [path |-> path, v |-> v])
    <3> DEFINE w == q.implicits \ {Mark(path)}
    <3>1. r = [q EXCEPT !.implicits = w]
      OBVIOUS
    <3> HIDE DEF r, w
    <3>0. IsParser(q)
      BY <1>1
    <3>2. /\ IsParser(r) /\ r.mapping = q.mapping /\ r.made = q.made /\ r.said = q.said
          /\ r.implicits = w /\ r.context = q.context
      BY ONLY <3>0, <3>1, ChangedImplicits
    <3> QED
      BY <1>1, <3>2 DEF w
  <2>2. PICK t \in p.made : Mark(t) = Mark(path) /\ \A i \in DOMAIN p.said : p.said[i].path # t
    BY <1>5 DEF ParserInv, MarksInv
  <2>3. SameMark(path, t)
    BY <2>2 DEF SameMark
  <2> HIDE DEF r
  <2>4. \A i \in DOMAIN p.said : p.said[i].path = path =>
            \E u \in p.made : u # path /\ SameMark(path, u)
    BY <2>2, <2>3
  <2>5. ParserInv(r)
    BY <1>5, <1>k, <2>1, <2>3, <2>4, SaidIsInv
  <2> QED
    BY <2>5 DEF r
<1> DEFINE isHash == p.mapping[p.context].type = "Hash"
<1>6. CASE ~isHash
  BY <1>2, <1>3, <1>6
<1>7. CASE isHash /\ path \notin DOMAIN p.mapping
  BY <1>3, <1>4, <1>7
<1>8. CASE isHash /\ path \in DOMAIN p.mapping /\ Mark(path) \in p.implicits
  BY <1>3, <1>5, <1>8
<1>9. CASE isHash /\ path \in DOMAIN p.mapping /\ Mark(path) \notin p.implicits
  BY <1>2, <1>3, <1>9
<1> QED
  BY <1>6, <1>7, <1>8, <1>9


LEMMA IntoIsSequence ==
  ASSUME NEW mapping, NEW path, NEW k, IsSequence(path)
  PROVE  IsSequence(Into(mapping, path, k))
<1>1. PICK S : path \in Seq(S)
  BY DEF IsSequence
<1>2. ASSUME NEW e PROVE IsSequence(Append(path, e))
  <2>1. path \in Seq(S \cup {e}) /\ e \in S \cup {e}
    BY <1>1
  <2>2. Append(path, e) \in Seq(S \cup {e})
    BY <2>1, AppendProperties
  <2> QED
    BY <2>2 DEF IsSequence
<1> QED
  BY <1>2 DEF Into, At

LEMMA EnterImplicitInv == ASSUME NEW p, ParserInv(p) PROVE ParserInv(EnterImplicit(p))
<1> DEFINE k == Head(p.key)
           w == Tail(p.key)
           here == At(p.context, k)
           q == [p EXCEPT !.key = w]
           d == Define(q, here, Hash)
           t == Into(p.mapping, p.context, k)
           made == [d EXCEPT !.implicits = @ \cup {Mark(here)}, !.made = @ \cup {here}, !.context = here]
           there == [q EXCEPT !.context = t]
<1>1. EnterImplicit(p) =
        CASE here \notin DOMAIN p.mapping -> made
          [] here \in DOMAIN p.mapping /\ p.mapping[here].type \in {"Hash", "ArrayHash"} -> there
          [] OTHER -> Stop(p, "error")
  <2>1. [q EXCEPT !.context = Into(p.mapping, @, k)] = there
    <3>1. q.context = p.context
      BY DEF ParserInv, IsParser
    <3> QED
      BY <3>1
  <2> QED
    BY <2>1 DEF EnterImplicit
<1>2. q.mapping = p.mapping
  BY DEF ParserInv, IsParser
<1>k. IsSequence(here)
  BY KeyPaths DEF ParserInv, PathsInv
<1>t. here \in DOMAIN p.mapping /\ p.mapping[here].type \in {"Hash", "ArrayHash"} => IsSequence(t)
  <2>1. IsSequence(p.context)
    BY DEF ParserInv, PathsInv
  <2> QED
    BY <2>1, IntoIsSequence
<1> HIDE DEF w, k, t
<1>3. ParserInv(q)
  <2>1. q = [p EXCEPT !.key = w]
    OBVIOUS
  <2> HIDE DEF q
  <2> QED
    BY <1>k, <2>1, RestInv
<1> HIDE DEF q, here
<1>4. ASSUME IsSequence(t) PROVE ParserInv(there)
  <2>1. there = [q EXCEPT !.context = t]
    OBVIOUS
  <2> HIDE DEF there
  <2> QED
    BY <1>3, <1>4, <2>1, RestInv
<1>5. ASSUME here \notin DOMAIN p.mapping PROVE ParserInv(made)
  <2>1. ParserInv(d)
    BY <1>2, <1>3, <1>5, DefineInv DEF Hash
  <2>2. /\ d.made = q.made /\ d.said = q.said /\ d.implicits = q.implicits
        /\ here \in DOMAIN d.mapping
    BY <1>3, DefineFields DEF ParserInv
  <2>3. \A i \in DOMAIN d.said : d.said[i].path # here
    BY <1>2, <1>3, <1>5, <2>2 DEF ParserInv, SaidInv
  <2> HIDE DEF d
  <2>4. /\ IsParser(made) /\ made.mapping = d.mapping /\ made.said = d.said
        /\ made.implicits = d.implicits \cup {Mark(here)} /\ made.made = d.made \cup {here}
        /\ made.context = here
    <3> DEFINE x == d.implicits \cup {Mark(here)}
               u == d.made \cup {here}
    <3>1. made = [d EXCEPT !.implicits = x, !.made = u, !.context = here]
      OBVIOUS
    <3>2. IsParser(d)
      BY <2>1 DEF ParserInv
    <3> HIDE DEF made, x, u
    <3>3. /\ IsParser(made) /\ made.mapping = d.mapping /\ made.said = d.said
          /\ made.implicits = x /\ made.made = u /\ made.context = here
      BY ONLY <3>1, <3>2 DEF IsParser
    <3> QED
      BY <3>3 DEF x, u
  <2> HIDE DEF made
  <2>5. MarksInv(made)
    BY <2>1, <2>2, <2>3, <2>4 DEF ParserInv, MarksInv
  <2>6. MappingInv(made) /\ SaidInv(made) /\ PathsInv(made)
    BY <1>k, <2>1, <2>4 DEF ParserInv, MappingInv, SaidInv, PathsInv
  <2>7. Kept(made) /\ DefinedOnce(made)
    BY <2>1, <2>4 DEF ParserInv, Kept, DefinedOnce
  <2> QED
    BY <2>4, <2>5, <2>6, <2>7 DEF ParserInv
<1>6. ParserInv(Stop(p, "error"))
  BY StopInv
<1>7. CASE here \notin DOMAIN p.mapping
  BY <1>1, <1>5, <1>7
<1>8. CASE here \in DOMAIN p.mapping /\ p.mapping[here].type \in {"Hash", "ArrayHash"}
  BY <1>1, <1>4, <1>8, <1>t
<1>9. CASE here \in DOMAIN p.mapping /\ p.mapping[here].type \notin {"Hash", "ArrayHash"}
  BY <1>1, <1>6, <1>9
<1> QED
  BY <1>7, <1>8, <1>9

LEMMA EnterTableInv == ASSUME NEW p, ParserInv(p) PROVE ParserInv(EnterTable(p))
<1> DEFINE k == Head(p.key)
           q == SetValue(p, k, Hash)
           t == Into(q.mapping, q.context, k)
           w == <<>>
           r == [q EXCEPT !.context = t, !.key = w]
<1>1. EnterTable(p) = IF q.mode # "top" THEN q ELSE r
  BY DEF EnterTable
<1>2. ParserInv(q)
  BY SetValueInv DEF ProperValue, Hash
<1>t. IsSequence(t)
  BY <1>2, IntoIsSequence DEF ParserInv, PathsInv
<1> HIDE DEF q, t, w
<1>3. ParserInv(r)
  <2>1. r = [q EXCEPT !.context = t, !.key = w]
    OBVIOUS
  <2> HIDE DEF r
  <2> QED
    BY <1>2, <1>t, <2>1, RestInv
<1> QED
  BY <1>1, <1>2, <1>3

LEMMA EnterArrayTableInv == ASSUME NEW p, ParserInv(p) PROVE ParserInv(EnterArrayTable(p))
<1> DEFINE k == Head(p.key)
           here == At(p.context, k)
           n == IF here \in DOMAIN p.mapping THEN p.mapping[here] ELSE ArrayHash(0)
           element == Append(p.context, <<k, n.val + 1>>)
           d == Define(p, here, ArrayHash(n.val + 1))
           q == Define(d, element, Hash)
           m == "top"
           w == <<>>
           r == [q EXCEPT !.mode = m, !.context = element, !.key = w]
<1>1. EnterArrayTable(p) = IF n.type # "ArrayHash" THEN Stop(p, "error") ELSE r
  BY DEF EnterArrayTable
<1>2. CASE n.type # "ArrayHash"
  BY <1>1, <1>2, StopInv
<1>3. CASE n.type = "ArrayHash"
  <2>1. here \notin DOMAIN p.mapping \/ p.mapping[here].type = "ArrayHash"
    BY <1>3
  <2>n. n.val \in Nat /\ n.val + 1 \in Nat
    <3>1. n.val \in Nat
      BY <1>3 DEF ParserInv, PathsInv, ArrayHash
    <3> QED
      BY <3>1
  <2> HIDE DEF here, n
  <2>2. ParserInv(d)
    BY <2>1, <2>n, DefineInv DEF ArrayHash
  <2>3. ~IsKeyPath(element) /\ IsSequence(element)
    BY <2>n, KeyPaths DEF ParserInv, PathsInv
  <2>4. ParserInv(q)
    <3> HIDE DEF d, element
    <3> QED
      BY <2>2, <2>3, DefineInv DEF Hash
  <2>5. ParserInv(r)
    <3>1. r = [q EXCEPT !.mode = m, !.context = element, !.key = w]
      OBVIOUS
    <3> HIDE DEF r, q, m, w, element
    <3> QED
      BY <2>3, <2>4, <3>1, RestInv
  <2> QED
    BY <1>1, <1>3, <2>5
<1> QED
  BY <1>2, <1>3

LEMMA EstablishContextInv ==
  ASSUME NEW p, ParserInv(p), p.mode \in {"enterTable", "enterArrayTable"}
  PROVE  ParserInv(EstablishContext(p))
<1> DEFINE more == Len(p.key) > 1
<1>1. Len(p.key) <= 1 \/ more
  BY DEF EstablishContext
<1>2. CASE more
  BY <1>2, EnterImplicitInv DEF EstablishContext
<1>3. CASE ~more
  BY <1>3, EnterTableInv, EnterArrayTableInv DEF EstablishContext
<1> QED
  BY <1>2, <1>3

LEMMA TakeInv ==
  ASSUME NEW p, NEW v, ParserInv(p), ProperValue(v)
  PROVE  ParserInv(Take(p, v))
<1> DEFINE w == Append(Front(p.arrays), Append(Last(p.arrays), v))
           m == "array"
           q == [p EXCEPT !.arrays = w, !.mode = m]
           set == SetValue(p, p.key[1], v)
           e == <<>>
           r == [set EXCEPT !.key = e]
<1>1. Take(p, v) = CASE v.type \in {"bug", "error"} -> Stop(p, v.type)
        [] v.type \notin {"bug", "error"} /\ p.arrays # <<>> -> q
        [] OTHER -> r
  BY DEF Take
<1>2. ParserInv(Stop(p, v.type))
  BY StopInv
<1>3. ParserInv(q)
  <2>1. q = [p EXCEPT !.arrays = w, !.mode = m] /\ IsSequence(p.context)
    BY DEF ParserInv, PathsInv
  <2> HIDE DEF q, w, m
  <2> QED
    BY <2>1, RestInv
<1>4. ParserInv(r)
  <2>1. ParserInv(set)
    BY SetValueInv
  <2>2. r = [set EXCEPT !.key = e] /\ IsSequence(set.context)
    BY <2>1 DEF ParserInv, PathsInv
  <2> HIDE DEF r, e, set
  <2> QED
    BY <2>1, <2>2, RestInv
<1> HIDE DEF q, r
<1>5. CASE v.type \in {"bug", "error"}
  BY <1>1, <1>2, <1>5
<1>6. CASE v.type \notin {"bug", "error"} /\ p.arrays # <<>>
  BY <1>1, <1>3, <1>6
<1>7. CASE v.type \notin {"bug", "error"} /\ p.arrays = <<>>
  BY <1>1, <1>4, <1>7
<1> QED
  BY <1>5, <1>6, <1>7

LEMMA ArraysInv ==
  ASSUME NEW p, ParserInv(p)
  PROVE  ParserInv(OpenArray(p)) /\ ParserInv(CloseArray(p))
<1>c. IsSequence(p.context)
  BY DEF ParserInv, PathsInv
<1>1. ParserInv(OpenArray(p))
  <2> DEFINE w == Append(p.arrays, <<>>)
             m == "array"
             q == [p EXCEPT !.arrays = w, !.mode = m]
  <2>1. OpenArray(p) = q
    BY DEF OpenArray
  <2>2. q = [p EXCEPT !.arrays = w, !.mode = m]
    OBVIOUS
  <2> HIDE DEF q, w, m
  <2> QED
    BY <1>c, <2>1, <2>2, RestInv
<1>2. ParserInv(CloseArray(p))
  <2> DEFINE w == Front(p.arrays)
             v == TypeOfArray(Last(p.arrays))
             q == [p EXCEPT !.arrays = w]
  <2>1. CloseArray(p) = Take(q, v)
    BY DEF CloseArray
  <2>2. ProperValue(v)
    BY DEF TypeOfArray, ProperValue
  <2>3. q = [p EXCEPT !.arrays = w]
    OBVIOUS
  <2> HIDE DEF q, w, v
  <2>4. ParserInv(q)
    BY <1>c, <2>3, RestInv
  <2> QED
    BY <2>1, <2>2, <2>4, TakeInv
<1> QED
  BY <1>1, <1>2

LEMMA AddKeyInv ==
  ASSUME NEW p, NEW it, NEW mode, ParserInv(p)
  PROVE  ParserInv(AddKey(p, it, mode))
<1> DEFINE k == KeyString(it)
           w == Append(p.key, k.val)
           q == [p EXCEPT !.key = w, !.mode = mode]
<1>1. AddKey(p, it, mode) = IF k.type = "bug" THEN Stop(p, "bug") ELSE q
  BY DEF AddKey
<1>2. q = [p EXCEPT !.key = w, !.mode = mode] /\ IsSequence(p.context)
  BY DEF ParserInv, PathsInv
<1> HIDE DEF q, w, k
<1>3. ParserInv(q)
  BY <1>2, RestInv
<1> QED
  BY <1>1, <1>3, StopInv

LEMMA StatementInv ==
  ASSUME NEW p, NEW it, ParserInv(p)
  PROVE  ParserInv(Statement(p, it))
<1>c. IsSequence(p.context)
  BY DEF ParserInv, PathsInv
<1>1. \A how : ParserInv(Stop(p, how))
  BY StopInv
<1>2. ParserInv([p EXCEPT !.mode = IF @ = "array" THEN "arrayComment" ELSE "comment"])
  <2> DEFINE m == IF p.mode = "array" THEN "arrayComment" ELSE "comment"
             q == [p EXCEPT !.mode = m]
  <2>1. q = [p EXCEPT !.mode = m]
    OBVIOUS
  <2> HIDE DEF m
  <2>2. ParserInv(q)
    <3> HIDE DEF q
    <3> QED
      BY <1>c, <2>1, RestInv
  <2> QED
    BY <2>2 DEF m
<1>3. ASSUME NEW m PROVE ParserInv(FromTheTop(p, m))
  <2> DEFINE c == <<>>
             q == [p EXCEPT !.mode = m, !.context = c]
  <2>1. FromTheTop(p, m) = q
    BY DEF FromTheTop
  <2>2. IsSequence(c)
    <3>1. <<>> \in Seq({})
      OBVIOUS
    <3> QED
      BY <3>1 DEF IsSequence
  <2>3. q = [p EXCEPT !.mode = m, !.context = c]
    OBVIOUS
  <2> HIDE DEF q, c
  <2> QED
    BY <2>1, <2>2, <2>3, RestInv
<1>4. ParserInv(OpenArray(p)) /\ ParserInv(CloseArray(p))
  BY ArraysInv
<1>5. \A m : ParserInv(AddKey(p, it, m))
  BY AddKeyInv
<1>6. ParserInv(Take(p, Value(it)))
  BY TakeInv, ProperValues
<1> HIDE DEF ParserInv
<1> QED
  BY <1>1, <1>2, <1>3, <1>4, <1>5, <1>6, Zenon DEF Statement

LEMMA ParseStepInv == ASSUME NEW p, ParserInv(p) PROVE ParserInv(ParseStep(p))
<1>c. IsSequence(p.context) /\ IsParser(p)
  BY DEF ParserInv, PathsInv
<1>1. CASE p.mode \in {"enterTable", "enterArrayTable"}
  BY <1>1, EstablishContextInv DEF ParseStep
<1>2. CASE p.mode \notin {"enterTable", "enterArrayTable"} /\ p.lx.items = <<>>
  <2> DEFINE w == LexStep(p.lx)
             q == [p EXCEPT !.lx = w]
  <2>1. ParseStep(p) = q
    BY <1>2 DEF ParseStep
  <2>2. q = [p EXCEPT !.lx = w]
    OBVIOUS
  <2> HIDE DEF q, w
  <2> QED
    BY <1>c, <2>1, <2>2, RestInv
<1>3. CASE p.mode \notin {"enterTable", "enterArrayTable"} /\ p.lx.items # <<>>
  <2> DEFINE q == [p EXCEPT !.lx.items = Tail(@)]
             l == q.lx
  <2>1. ParseStep(p) = Statement(q, p.lx.items[1])
    BY <1>3 DEF ParseStep
  <2>2. q = [p EXCEPT !.lx = l]
    BY <1>c DEF IsParser
  <2> HIDE DEF q, l
  <2>3. ParserInv(q)
    BY <1>c, <2>2, RestInv
  <2> QED
    BY <2>1, <2>3, StatementInv
<1> QED
  BY <1>1, <1>2, <1>3


-----------------------------------------------------------------------------
(* What a text is parsed to                                                *)

\* The parsers r[0], ..., r[n] of a text.
IsRun(text, n, r) ==
    /\ r[0] = NewParser(text)
    /\ \A i \in Nat : i < n => ~ParseEnded(r[i]) /\ r[i + 1] = ParseStep(r[i])
Parsed(text, p) == \E n \in Nat : \E r : IsRun(text, n, r) /\ r[n] = p

LEMMA ParsedInit == ASSUME NEW text PROVE Parsed(text, NewParser(text))
<1>1. IsRun(text, 0, [i \in Nat |-> NewParser(text)])
  BY DEF IsRun
<1> QED
  BY <1>1 DEF Parsed

LEMMA ParsedStep ==
  ASSUME NEW text, NEW p, Parsed(text, p), ~ParseEnded(p)
  PROVE  Parsed(text, ParseStep(p))
<1>1. PICK n \in Nat : \E r : IsRun(text, n, r) /\ r[n] = p
  BY DEF Parsed
<1>2. PICK r : IsRun(text, n, r) /\ r[n] = p
  BY <1>1
<1> DEFINE s == [i \in Nat |-> IF i <= n THEN r[i] ELSE ParseStep(p)]
<1>3. s[n + 1] = ParseStep(p) /\ s[0] = r[0] /\ n + 1 \in Nat
  OBVIOUS
<1>4. ASSUME NEW i \in Nat, i < n + 1 PROVE ~ParseEnded(s[i]) /\ s[i + 1] = ParseStep(s[i])
  <2>1. CASE i < n
    <3>1. s[i] = r[i] /\ s[i + 1] = r[i + 1]
      BY <2>1
    <3> QED
      BY <1>2, <2>1, <3>1 DEF IsRun
  <2>2. CASE i = n
    <3>1. s[i] = p /\ s[i + 1] = ParseStep(p)
      BY <1>2, <1>3, <2>2
    <3> QED
      BY <3>1
  <2> QED
    BY <1>4, <2>1, <2>2
<1> HIDE DEF s
<1>5. IsRun(text, n + 1, s)
  BY <1>2, <1>3, <1>4 DEF IsRun
<1> QED
  BY <1>3, <1>5 DEF Parsed

\* A text is parsed to one end at most.
LEMMA ParsedUnique ==
  ASSUME NEW text, NEW p, NEW q, Parsed(text, p), Parsed(text, q), ParseEnded(p), ParseEnded(q)
  PROVE  p = q
<1>1. PICK n \in Nat : \E r : IsRun(text, n, r) /\ r[n] = p
  BY DEF Parsed
<1>2. PICK r : IsRun(text, n, r) /\ r[n] = p
  BY <1>1
<1>3. PICK m \in Nat : \E s : IsRun(text, m, s) /\ s[m] = q
  BY DEF Parsed
<1>4. PICK s : IsRun(text, m, s) /\ s[m] = q
  BY <1>3
<1>5. \A i \in Nat : i <= n /\ i <= m => r[i] = s[i]
  <2> DEFINE Differ == {i \in Nat : i <= n /\ i <= m /\ r[i] # s[i]}
  <2>1. SUFFICES ASSUME Differ # {} PROVE FALSE
    OBVIOUS
  <2>2. PICK i \in Differ : \A j \in Differ : i <= j
    BY <2>1, LeastNat
  <2>3. i # 0
    BY <1>2, <1>4, <2>2 DEF IsRun
  <2>4. i - 1 \in Nat /\ i - 1 < n /\ i - 1 < m /\ i - 1 \notin Differ /\ (i - 1) + 1 = i
    BY <2>2, <2>3
  <2>5. r[i - 1] = s[i - 1]
    BY <2>4
  <2>6. r[i] = ParseStep(r[i - 1]) /\ s[i] = ParseStep(s[i - 1])
    BY <1>2, <1>4, <2>4 DEF IsRun
  <2> QED
    BY <2>2, <2>5, <2>6
<1>6. ~(n < m) /\ ~(m < n)
  BY <1>2, <1>4, <1>5 DEF IsRun
<1>7. n = m
  BY <1>6
<1> QED
  BY <1>2, <1>4, <1>5, <1>7

-----------------------------------------------------------------------------
(* Decoding                                                                *)

LEMMA FieldDomains ==
  /\ DOMAIN Fields = {"Server", "Client"}
  /\ DOMAIN Fields.Server = {"LogConfigFile", "BindAddress", "DebugBindAddress",
                             "ConnectionTimeoutSec", "KeepAliveTimeSec", "PrivateKeyFilePath"}
  /\ DOMAIN Fields.Client = {"LogConfigFile", "BindAddress", "DebugBindAddress",
                             "ServerAddress", "PublicKeyFilePath"}
  /\ Fields.Server.ConnectionTimeoutSec.type = "Integer"
  /\ Fields.Server.KeepAliveTimeSec.type = "Integer"
  /\ \A s \in DOMAIN Fields : \A f \in DOMAIN Fields[s] :
        /\ Fields[s][f].type \in {"String", "Integer"}
        /\ Fields[s][f].type = "Integer" <=>
               s = "Server" /\ f \in {"ConnectionTimeoutSec", "KeepAliveTimeSec"}
  BY DEF Fields, String, Integer64

\* A configuration: a value for each field.
IsConfig(g) ==
    /\ g = [s \in DOMAIN Fields |-> g[s]]
    /\ \A s \in DOMAIN Fields : g[s] = [f \in DOMAIN Fields[s] |-> g[s][f]]
    /\ \A s \in DOMAIN Fields : \A f \in DOMAIN Fields[s] :
          Fields[s][f].type = "Integer" => g[s][f] \in Int

LEMMA ZeroIsConfig ==
  /\ IsConfig(ZeroConfig)
  /\ \A s \in DOMAIN Fields : \A f \in DOMAIN Fields[s] :
        ZeroConfig[s][f] = IF Fields[s][f].type = "String" THEN <<>> ELSE 0
<1>2. \A s \in DOMAIN Fields : \A f \in DOMAIN Fields[s] :
         ZeroConfig[s][f] = IF Fields[s][f].type = "String" THEN <<>> ELSE 0
  BY DEF ZeroConfig
<1>3. IsConfig(ZeroConfig)
  BY <1>2, FieldDomains DEF IsConfig, ZeroConfig
<1> QED
  BY <1>2, <1>3

LEMMA SectionValues ==
  ASSUME NEW mapping, NEW s \in DOMAIN Fields, NEW old, NEW v \in UnifySection(mapping, s, old)
  PROVE  /\ v = [f \in DOMAIN Fields[s] |-> v[f]]
         /\ \A f \in DOMAIN Fields[s] :
               \/ v[f] \in ValuesFor(mapping, s, f)
               \/ v[f] = old[f] /\ ValuesFor(mapping, s, f) = {}
<1> DEFINE only(f) == CHOOSE at \in Keys(mapping, s, f) : TRUE
<1>1. PICK win \in Winners(mapping, s) :
         v = [f \in DOMAIN Fields[s] |->
                CASE f \in DOMAIN win -> mapping[win[f]].val
                  [] f \notin DOMAIN win /\ Keys(mapping, s, f) # {} -> mapping[only(f)].val
                  [] OTHER -> old[f]]
  BY DEF UnifySection
<1>2. \A f \in DOMAIN win : win[f] \in Keys(mapping, s, f)
  BY DEF Winners
<1>3. ASSUME NEW f \in DOMAIN Fields[s]
      PROVE  \/ v[f] \in ValuesFor(mapping, s, f)
             \/ v[f] = old[f] /\ ValuesFor(mapping, s, f) = {}
  <2>1. CASE f \in DOMAIN win
    BY <1>1, <1>2, <2>1 DEF ValuesFor
  <2>2. CASE f \notin DOMAIN win /\ Keys(mapping, s, f) # {}
    <3>1. only(f) \in Keys(mapping, s, f)
      BY <2>2
    <3>2. v[f] = mapping[only(f)].val
      BY <1>1, <2>2
    <3> QED
      BY <3>1, <3>2 DEF ValuesFor
  <2>3. CASE f \notin DOMAIN win /\ Keys(mapping, s, f) = {}
    BY <1>1, <2>3 DEF ValuesFor
  <2> QED
    BY <2>1, <2>2, <2>3
<1> QED
  BY <1>1, <1>3


LEMMA DecodedValues ==
  ASSUME NEW mapping, NEW old, NEW g \in Decoded(mapping, old), IsConfig(old),
         ~Mismatch(mapping),
         \A at \in DOMAIN mapping : mapping[at].type = "Integer" => mapping[at].val \in Int
  PROVE  /\ IsConfig(g)
         /\ \A s \in DOMAIN Fields : \A f \in DOMAIN Fields[s] :
               \/ g[s][f] \in ValuesFor(mapping, s, f)
               \/ g[s][f] = old[s][f] /\ ValuesFor(mapping, s, f) = {}
<1>1. PICK server \in UnifySection(mapping, "Server", old.Server),
           client \in UnifySection(mapping, "Client", old.Client) :
         g = [Server |-> server, Client |-> client]
  BY DEF Decoded
<1>2. g = [s \in DOMAIN Fields |-> g[s]] /\ g["Server"] = server /\ g["Client"] = client
  BY <1>1, FieldDomains
<1>3. ASSUME NEW s \in DOMAIN Fields
      PROVE  /\ g[s] = [f \in DOMAIN Fields[s] |-> g[s][f]]
             /\ \A f \in DOMAIN Fields[s] :
                   \/ g[s][f] \in ValuesFor(mapping, s, f)
                   \/ g[s][f] = old[s][f] /\ ValuesFor(mapping, s, f) = {}
  <2>1. g[s] \in UnifySection(mapping, s, old[s])
    BY <1>1, <1>2, FieldDomains
  <2> QED
    BY <2>1, SectionValues
<1>4. ASSUME NEW s \in DOMAIN Fields, NEW f \in DOMAIN Fields[s], Fields[s][f].type = "Integer"
      PROVE  g[s][f] \in Int
  <2>1. CASE g[s][f] = old[s][f]
    BY <1>4, <2>1 DEF IsConfig
  <2>2. CASE g[s][f] \in ValuesFor(mapping, s, f)
    <3>1. PICK at \in Keys(mapping, s, f) : g[s][f] = mapping[at].val
      BY <2>2 DEF ValuesFor
    <3>2. at \in DOMAIN mapping
      BY <3>1 DEF Keys, Matching
    <3>3. mapping[at].type = "Integer"
      BY <1>4, <3>1 DEF Mismatch
    <3> QED
      BY <3>1, <3>2, <3>3
  <2> QED
    BY <1>3, <2>1, <2>2
<1>5. IsConfig(g)
  BY <1>2, <1>3, <1>4 DEF IsConfig
<1> QED
  BY <1>3, <1>5

\* Of a file without two keys for a field each process reads the same values.
LEMMA OneValue ==
  ASSUME NEW mapping, IsFiniteSet(DOMAIN mapping), ~Ambiguous(mapping),
         NEW s \in DOMAIN Fields, NEW f \in DOMAIN Fields[s],
         NEW x \in ValuesFor(mapping, s, f), NEW y \in ValuesFor(mapping, s, f)
  PROVE  x = y
<1>1. PICK a \in Keys(mapping, s, f) : x = mapping[a].val
  BY DEF ValuesFor
<1>2. PICK b \in Keys(mapping, s, f) : y = mapping[b].val
  BY DEF ValuesFor
<1>3. IsFiniteSet(Keys(mapping, s, f))
  <2>1. Keys(mapping, s, f) \subseteq DOMAIN mapping
    BY DEF Keys, Matching
  <2> QED
    BY <2>1, FS_Subset
<1>4. ~(Cardinality(Keys(mapping, s, f)) > 1)
  BY DEF Ambiguous
<1>5. ASSUME a # b PROVE FALSE
  <2>1. IsFiniteSet({b}) /\ Cardinality({b}) = 1
    BY FS_Singleton
  <2>2. IsFiniteSet({b} \cup {a}) /\ Cardinality({b} \cup {a}) = 2
    <3> DEFINE S == {b}
    <3>1. a \notin S /\ IsFiniteSet(S) /\ Cardinality(S) = 1
      BY <1>5, <2>1
    <3> HIDE DEF S
    <3>2. IsFiniteSet(S \cup {a}) /\ Cardinality(S \cup {a}) = 1 + 1
      BY ONLY <3>1, FS_AddElement
    <3> QED
      BY ONLY <3>2 DEF S
  <2>3. {b} \cup {a} \subseteq Keys(mapping, s, f)
    BY <1>1, <1>2
  <2>4. /\ Cardinality({b} \cup {a}) <= Cardinality(Keys(mapping, s, f))
        /\ Cardinality(Keys(mapping, s, f)) \in Nat
    BY <1>3, <2>3, FS_Subset, FS_CardinalityType
  <2> HIDE DEF Keys
  <2> QED
    BY <1>4, <2>2, <2>4
<1> QED
  BY <1>1, <1>2, <1>5

\* What passes the checks from an empty configuration is in the file.
LEMMA CheckedValues ==
  ASSUME NEW mapping, NEW g,
         \A s \in DOMAIN Fields : \A f \in DOMAIN Fields[s] :
            \/ g[s][f] \in ValuesFor(mapping, s, f)
            \/ g[s][f] = ZeroConfig[s][f] /\ ValuesFor(mapping, s, f) = {},
         Check(g)
  PROVE  \A s \in DOMAIN Fields : \A f \in DOMAIN Fields[s] : g[s][f] \in ValuesFor(mapping, s, f)
<1> SUFFICES ASSUME NEW s \in DOMAIN Fields, NEW f \in DOMAIN Fields[s],
                    g[s][f] = ZeroConfig[s][f]
             PROVE  FALSE
  OBVIOUS
<1>1. CheckStruct(s, g[s])
  BY DEF Check
<1>2. g[s][f] = IF Fields[s][f].type = "String" THEN <<>> ELSE 0
  BY ZeroIsConfig
<1>3. IF Fields[s][f].type = "String" THEN g[s][f] # <<>> ELSE g[s][f] > 0
  BY <1>1 DEF CheckStruct
<1> QED
  BY <1>2, <1>3


LEMMA LogConfValues ==
  ASSUME NEW g, IsConfig(g)
  PROVE  /\ IsConfig(WithLogConf(g))
         /\ \A s \in DOMAIN Fields : \A f \in DOMAIN Fields[s] :
               WithLogConf(g)[s][f] =
                  IF s = Section /\ f = "LogConfigFile" /\ command.logconf # <<>>
                  THEN command.logconf ELSE g[s][f]
<1> DEFINE w == WithLogConf(g)
<1>1. Section \in {"Server", "Client"} /\ Section \in DOMAIN Fields
      /\ "LogConfigFile" \in DOMAIN Fields[Section]
  BY FieldDomains DEF Section
<1>2. ASSUME NEW s \in DOMAIN Fields, NEW f \in DOMAIN Fields[s]
      PROVE  w[s][f] = IF s = Section /\ f = "LogConfigFile" /\ command.logconf # <<>>
                       THEN command.logconf ELSE g[s][f]
  BY <1>1 DEF IsConfig, WithLogConf
<1>3. IsConfig(w)
  <2>1. w = [s \in DOMAIN Fields |-> w[s]]
    BY DEF IsConfig, WithLogConf
  <2>2. \A s \in DOMAIN Fields : w[s] = [f \in DOMAIN Fields[s] |-> w[s][f]]
    BY <1>1 DEF IsConfig, WithLogConf
  <2> HIDE DEF w
  <2>3. ASSUME NEW s \in DOMAIN Fields, NEW f \in DOMAIN Fields[s], Fields[s][f].type = "Integer"
        PROVE  w[s][f] \in Int
    <3>1. f # "LogConfigFile" /\ g[s][f] \in Int
      BY <2>3, FieldDomains DEF IsConfig
    <3> QED
      BY <1>2, <3>1
  <2> QED
    BY <2>1, <2>2, <2>3 DEF IsConfig
<1> QED
  BY <1>2, <1>3

LEMMA CheckedConfig ==
  ASSUME NEW g, IsConfig(g), Check(g)
  PROVE  Checked(WithLogConf(g))
<1>1. /\ "Server" \in DOMAIN Fields
      /\ "ConnectionTimeoutSec" \in DOMAIN Fields.Server
      /\ "KeepAliveTimeSec" \in DOMAIN Fields.Server
      /\ Fields.Server.ConnectionTimeoutSec.type = "Integer"
      /\ Fields.Server.KeepAliveTimeSec.type = "Integer"
  BY FieldDomains
<1>2. CheckStruct("Server", g.Server)
  BY <1>1 DEF Check
<1>3. ASSUME NEW f \in {"ConnectionTimeoutSec", "KeepAliveTimeSec"}
      PROVE  WithLogConf(g).Server[f] \in Int /\ WithLogConf(g).Server[f] > 0
  <2>1. WithLogConf(g).Server[f] = g.Server[f]
    BY <1>1, <1>3, LogConfValues
  <2>2. g.Server[f] \in Int
    BY <1>1, <1>3 DEF IsConfig
  <2>3. g.Server[f] > 0
    BY <1>1, <1>2, <1>3 DEF CheckStruct
  <2> QED
    BY <2>1, <2>2, <2>3
<1> QED
  BY <1>3 DEF Checked

-----------------------------------------------------------------------------
(* The start                                                               *)

Reading == stage \in {"command", "parse", "parsed"}

StartType ==
    /\ edits \in Nat /\ call \in {"base", "app"}
    /\ daemon \in BOOLEAN /\ announced \in BOOLEAN
    /\ stage \in {"command", "parse", "parsed", "serving", "exit"}

\* The parser is at some place of the file that was read, at the end once it is decoded.
ReadInv ==
    /\ ParserInv(parser)
    /\ stage \in {"parse", "parsed"} => Parsed(file, parser)
    /\ stage = "parsed" => parser.mode = "done" /\ ~Mismatch(parser.mapping)

ConfigInv ==
    /\ IsConfig(G)
    /\ call = "base" /\ stage \in {"command", "parse"} => G = ZeroConfig
    /\ stage \in {"parsed", "serving"} => Checked(G)

\* A process that starts from nothing accepts this file and may make c of it.
AcceptedAs(text, c) ==
    /\ IsConfig(c) /\ Check(c) /\ WithLogConf(c)[Section].LogConfigFile \in GoodLogs
    /\ \E q : /\ Parsed(text, q) /\ q.mode = "done" /\ ~Mismatch(q.mapping)
              /\ \A s \in DOMAIN Fields : \A f \in DOMAIN Fields[s] :
                    c[s][f] \in ValuesFor(q.mapping, s, f)

\* What goes on behind a parent or a first reading, when nobody saved the file since.
AcceptedInv ==
    /\ announced => daemon
    /\ stage # "serving" /\ (announced \/ stage \in {"parse", "parsed"}) =>
          ~BadCommand /\ (edits = 0 => file # NoFile)
    /\ Reading /\ edits = 0 /\ (announced \/ call = "app" \/ stage = "parsed") =>
          \E c : AcceptedAs(file, c)

TunnelInv == IF stage = "serving" THEN IInv ELSE Fresh

StartInv ==
    /\ StartType /\ ReadInv /\ ConfigInv /\ AcceptedInv /\ TunnelInv
    /\ ServedIsWritten /\ AnnouncedIsServed

LEMMA StartupInitInv == StartupInit => StartInv
<1> SUFFICES ASSUME StartupInit PROVE StartInv
  OBVIOUS
<1>1. /\ edits = 0 /\ daemon = FALSE /\ announced = FALSE /\ call = "base" /\ stage = "command"
      /\ parser = NoParser /\ G = ZeroConfig /\ Fresh
  BY DEF StartupInit
<1>2. StartType
  BY <1>1 DEF StartType
<1>3. ReadInv
  BY <1>1, NewParserInv DEF ReadInv, NoParser
<1>4. ConfigInv
  BY <1>1, ZeroIsConfig DEF ConfigInv
<1>5. AcceptedInv /\ TunnelInv /\ ServedIsWritten /\ AnnouncedIsServed
  BY <1>1 DEF AcceptedInv, TunnelInv, ServedIsWritten, AnnouncedIsServed
<1> QED
  BY <1>2, <1>3, <1>4, <1>5 DEF StartInv

\* A start that ends, before it serves.
LEMMA ExitInv ==
  ASSUME NEW c, StartInv, Exit(c), Reading,
         announced => c = 0 \/ edits > 0 \/ Ambiguous(parser.mapping)
  PROVE  StartInv'
<1>1. /\ stage' = "exit" /\ code' = c /\ edits' = edits /\ call' = call /\ daemon' = daemon
      /\ announced' = announced /\ parser' = parser /\ G' = G /\ command' = command
      /\ file' = file /\ tunnelVars' = tunnelVars
  BY DEF Exit
<1>2. StartType'
  BY <1>1 DEF StartInv, StartType
<1>3. ReadInv' /\ ConfigInv'
  BY <1>1 DEF StartInv, ReadInv, ConfigInv
<1>4. AcceptedInv'
  BY <1>1 DEF StartInv, AcceptedInv, Reading, BadCommand
<1>5. TunnelInv'
  BY <1>1 DEF StartInv, TunnelInv, Reading, tunnelVars, Fresh
<1>6. ServedIsWritten'
  BY <1>1 DEF ServedIsWritten
<1>7. AnnouncedIsServed'
  BY <1>1 DEF AnnouncedIsServed
<1> QED
  BY <1>2, <1>3, <1>4, <1>5, <1>6, <1>7 DEF StartInv


LEMMA SameConfig ==
  ASSUME NEW g, NEW c, IsConfig(g), IsConfig(c),
         \A s \in DOMAIN Fields : \A f \in DOMAIN Fields[s] : g[s][f] = c[s][f]
  PROVE  g = c
<1>1. ASSUME NEW s \in DOMAIN Fields PROVE g[s] = c[s]
  BY DEF IsConfig
<1> QED
  BY <1>1 DEF IsConfig

\* Who reads the same file reads the same of it, and a file that was accepted has a value
\* for each field.
LEMMA AcceptedAgain ==
  ASSUME NEW c, AcceptedAs(file, c), StartInv, stage = "parse", ParseEnded(parser)
  PROVE  /\ parser.mode = "done" /\ ~Mismatch(parser.mapping)
         /\ \A s \in DOMAIN Fields : \A f \in DOMAIN Fields[s] :
               c[s][f] \in ValuesFor(parser.mapping, s, f)
<1>1. PICK q : /\ Parsed(file, q) /\ q.mode = "done" /\ ~Mismatch(q.mapping)
               /\ \A s \in DOMAIN Fields : \A f \in DOMAIN Fields[s] :
                     c[s][f] \in ValuesFor(q.mapping, s, f)
  BY DEF AcceptedAs
<1>2. ParseEnded(q)
  BY <1>1 DEF ParseEnded
<1>3. Parsed(file, parser)
  BY DEF StartInv, ReadInv
<1>4. q = parser
  BY <1>1, <1>2, <1>3, ParsedUnique
<1> QED
  BY <1>1, <1>4

LEMMA DecodedAgain ==
  ASSUME NEW c, AcceptedAs(file, c), StartInv, stage = "parse", ParseEnded(parser),
         ~Ambiguous(parser.mapping), NEW g \in Decoded(parser.mapping, G)
  PROVE  g = c
<1>1. /\ ~Mismatch(parser.mapping)
      /\ \A s \in DOMAIN Fields : \A f \in DOMAIN Fields[s] :
            c[s][f] \in ValuesFor(parser.mapping, s, f)
  BY AcceptedAgain
<1>2. /\ IsFiniteSet(DOMAIN parser.mapping)
      /\ \A at \in DOMAIN parser.mapping :
            parser.mapping[at].type = "Integer" => parser.mapping[at].val \in Int
  BY DEF StartInv, ReadInv, ParserInv, MappingInv
<1>3. IsConfig(G) /\ IsConfig(c)
  BY DEF StartInv, ConfigInv, AcceptedAs
<1>4. /\ IsConfig(g)
      /\ \A s \in DOMAIN Fields : \A f \in DOMAIN Fields[s] :
            \/ g[s][f] \in ValuesFor(parser.mapping, s, f)
            \/ g[s][f] = G[s][f] /\ ValuesFor(parser.mapping, s, f) = {}
  BY <1>1, <1>2, <1>3, DecodedValues
<1>5. ASSUME NEW s \in DOMAIN Fields, NEW f \in DOMAIN Fields[s] PROVE g[s][f] = c[s][f]
  <2>1. g[s][f] \in ValuesFor(parser.mapping, s, f) /\ c[s][f] \in ValuesFor(parser.mapping, s, f)
    BY <1>1, <1>4
  <2> QED
    BY <1>2, <2>1, OneValue
<1> QED
  BY <1>3, <1>4, <1>5, SameConfig

LEMMA DecodeFileInv == ASSUME StartInv, DecodeFile PROVE StartInv'
<1>1. stage = "parse" /\ ParseEnded(parser) /\ Reading
  BY DEF DecodeFile, Reading
<1>2. /\ StartType /\ ParserInv(parser) /\ Parsed(file, parser) /\ IsConfig(G)
      /\ (call = "base" => G = ZeroConfig) /\ AcceptedInv /\ Fresh
      /\ ~BadCommand /\ (edits = 0 => file # NoFile)
  BY <1>1 DEF StartInv, ReadInv, ConfigInv, AcceptedInv, TunnelInv
<1>3. ASSUME announced, edits = 0 PROVE \E c : AcceptedAs(file, c)
  BY <1>2, <1>3, <1>1 DEF AcceptedInv
<1>4. CASE parser.mode \in {"error", "bug"} \/ Mismatch(parser.mapping)
  <2>1. announced => edits > 0
    <3>1. ~(announced /\ edits = 0)
      BY <1>1, <1>3, <1>4, AcceptedAgain
    <3> QED
      BY <1>2, <3>1 DEF StartType
  <2>2. PICK c : Exit(c)
    BY <1>4 DEF DecodeFile
  <2> QED
    BY <1>1, <2>1, <2>2, ExitInv
<1>5. ASSUME parser.mode = "done", ~Mismatch(parser.mapping), NEW g \in Decoded(parser.mapping, G),
             ~Check(g) \/ WithLogConf(g)[Section].LogConfigFile \notin GoodLogs, Exit(-1)
      PROVE  StartInv'
  <2>1. ASSUME announced, edits = 0, ~Ambiguous(parser.mapping) PROVE FALSE
    <3>1. PICK c : AcceptedAs(file, c)
      BY <1>3, <2>1
    <3>2. g = c
      BY <1>1, <1>5, <2>1, <3>1, DecodedAgain
    <3> QED
      BY <1>5, <3>1, <3>2 DEF AcceptedAs
  <2>2. announced => edits > 0 \/ Ambiguous(parser.mapping)
    BY <1>2, <2>1 DEF StartType
  <2> QED
    BY <1>1, <1>5, <2>2, ExitInv
<1>6. ASSUME parser.mode = "done", ~Mismatch(parser.mapping), NEW g \in Decoded(parser.mapping, G),
             Check(g), WithLogConf(g)[Section].LogConfigFile \in GoodLogs,
             G' = WithLogConf(g), stage' = "parsed",
             UNCHANGED <<tunnelVars, command, file, edits, daemon, announced, call, code, parser>>
      PROVE  StartInv'
  <2>1. \A at \in DOMAIN parser.mapping :
           parser.mapping[at].type = "Integer" => parser.mapping[at].val \in Int
    BY <1>2 DEF ParserInv, MappingInv
  <2>2. /\ IsConfig(g)
        /\ \A s \in DOMAIN Fields : \A f \in DOMAIN Fields[s] :
              \/ g[s][f] \in ValuesFor(parser.mapping, s, f)
              \/ g[s][f] = G[s][f] /\ ValuesFor(parser.mapping, s, f) = {}
    BY <1>2, <1>6, <2>1, DecodedValues
  <2>3. ASSUME edits = 0
        PROVE  \A s \in DOMAIN Fields : \A f \in DOMAIN Fields[s] :
                  g[s][f] \in ValuesFor(parser.mapping, s, f)
    <3>1. CASE call = "base"
      BY <1>2, <1>6, <2>2, <3>1, CheckedValues
    <3>2. CASE call = "app"
      <4>1. PICK c : AcceptedAs(file, c)
        BY <1>1, <1>2, <2>3, <3>2 DEF AcceptedInv
      <4> QED
        BY <1>1, <2>2, <4>1, AcceptedAgain
    <3> QED
      BY <1>2, <3>1, <3>2 DEF StartType
  <2>4. /\ command' = command /\ file' = file /\ edits' = edits /\ daemon' = daemon
        /\ announced' = announced /\ call' = call /\ parser' = parser /\ tunnelVars' = tunnelVars
    BY <1>6
  <2>5. StartType'
    BY <1>2, <1>6, <2>4 DEF StartType
  <2>6. ReadInv'
    BY <1>2, <1>6, <2>4 DEF ReadInv
  <2>7. ConfigInv'
    BY <1>6, <2>2, LogConfValues, CheckedConfig DEF ConfigInv
  <2>8. edits = 0 => AcceptedAs(file, g)
    BY <1>2, <1>6, <2>2, <2>3 DEF AcceptedAs
  <2>9. AcceptedInv'
    <3>1. \A c : AcceptedAs(file, c)' <=> AcceptedAs(file, c)
      BY <2>4 DEF AcceptedAs, WithLogConf, Section
    <3>2. BadCommand' <=> BadCommand
      BY <2>4 DEF BadCommand
    <3> QED
      BY <1>2, <1>6, <2>4, <2>8, <3>1, <3>2 DEF AcceptedInv
  <2>10. TunnelInv'
    BY <1>2, <1>6, <2>4 DEF TunnelInv, tunnelVars, Fresh
  <2>11. ServedIsWritten'
    <3> SUFFICES ASSUME NEW s \in DOMAIN Fields, NEW f \in DOMAIN Fields[s]
                 PROVE  IF s = Section /\ f = "LogConfigFile" /\ command.logconf # <<>>
                        THEN WithLogConf(g)[s][f] = command.logconf
                        ELSE \/ WithLogConf(g)[s][f] \in ValuesFor(parser.mapping, s, f)
                             \/ ValuesFor(parser.mapping, s, f) = {} /\ edits > 0
      BY <1>6, <2>4 DEF ServedIsWritten, Section
    <3>1. WithLogConf(g)[s][f] = IF s = Section /\ f = "LogConfigFile" /\ command.logconf # <<>>
                                 THEN command.logconf ELSE g[s][f]
      BY <2>2, LogConfValues
    <3>2. \/ g[s][f] \in ValuesFor(parser.mapping, s, f)
          \/ ValuesFor(parser.mapping, s, f) = {} /\ edits > 0
      BY <1>2, <2>2, <2>3 DEF StartType
    <3> QED
      BY <3>1, <3>2
  <2>12. AnnouncedIsServed'
    BY <1>6 DEF AnnouncedIsServed
  <2> QED
    BY <2>5, <2>6, <2>7, <2>9, <2>10, <2>11, <2>12 DEF StartInv
<1> QED
  BY <1>4, <1>5, <1>6 DEF DecodeFile


LEMMA ReadFileInv == ASSUME StartInv, ReadFile PROVE StartInv'
<1>1. stage = "command" /\ Reading
  BY DEF ReadFile, Reading
<1>2. CASE command.version
  BY <1>1, <1>2, ExitInv DEF ReadFile
<1>3. CASE ~command.version /\ (BadCommand \/ file = NoFile)
  <2>1. announced => edits > 0
    BY <1>1, <1>3 DEF StartInv, AcceptedInv, StartType
  <2> QED
    BY <1>1, <1>3, <2>1, ExitInv DEF ReadFile
<1>4. CASE ~command.version /\ ~BadCommand /\ file # NoFile
  <2>1. /\ stage' = "parse" /\ parser' = NewParser(file) /\ G' = G /\ command' = command
        /\ file' = file /\ edits' = edits /\ daemon' = daemon /\ announced' = announced
        /\ call' = call /\ code' = code /\ tunnelVars' = tunnelVars
    BY <1>4 DEF ReadFile
  <2>2. StartType'
    BY <2>1 DEF StartInv, StartType
  <2>3. ReadInv'
    BY <2>1, NewParserInv, ParsedInit DEF ReadInv
  <2>4. ConfigInv'
    BY <1>1, <2>1 DEF StartInv, ConfigInv
  <2>5. AcceptedInv'
    <3>1. \A c : AcceptedAs(file, c)' <=> AcceptedAs(file, c)
      BY <2>1 DEF AcceptedAs, WithLogConf, Section
    <3>2. BadCommand' <=> BadCommand
      BY <2>1 DEF BadCommand
    <3> QED
      BY <1>1, <1>4, <2>1, <3>1, <3>2 DEF StartInv, AcceptedInv, Reading
  <2>6. TunnelInv'
    BY <1>1, <2>1 DEF StartInv, TunnelInv, tunnelVars, Fresh
  <2>7. ServedIsWritten' /\ AnnouncedIsServed'
    BY <2>1 DEF ServedIsWritten, AnnouncedIsServed
  <2> QED
    BY <2>2, <2>3, <2>4, <2>5, <2>6, <2>7 DEF StartInv
<1> QED
  BY <1>2, <1>3, <1>4

LEMMA ParseInv == ASSUME StartInv, Parse PROVE StartInv'
<1>1. /\ stage = "parse" /\ ~ParseEnded(parser) /\ parser' = ParseStep(parser)
      /\ stage' = stage /\ G' = G /\ command' = command
      /\ file' = file /\ edits' = edits /\ daemon' = daemon /\ announced' = announced
      /\ call' = call /\ code' = code /\ tunnelVars' = tunnelVars
  BY DEF Parse
<1>2. StartType'
  BY <1>1 DEF StartInv, StartType
<1>3. ReadInv'
  BY <1>1, ParseStepInv, ParsedStep DEF StartInv, ReadInv
<1>4. ConfigInv'
  BY <1>1 DEF StartInv, ConfigInv
<1>5. AcceptedInv'
  <2>1. \A c : AcceptedAs(file, c)' <=> AcceptedAs(file, c)
    BY <1>1 DEF AcceptedAs, WithLogConf, Section
  <2>2. BadCommand' <=> BadCommand
    BY <1>1 DEF BadCommand
  <2> QED
    BY <1>1, <2>1, <2>2 DEF StartInv, AcceptedInv, Reading
<1>6. TunnelInv'
  BY <1>1 DEF StartInv, TunnelInv, tunnelVars, Fresh
<1>7. ServedIsWritten' /\ AnnouncedIsServed'
  BY <1>1 DEF ServedIsWritten, AnnouncedIsServed
<1> QED
  BY <1>2, <1>3, <1>4, <1>5, <1>6, <1>7 DEF StartInv

\* On to the next reader of the file, the daemon or app_main.
LEMMA NextReaderInv ==
  ASSUME StartInv, Fork \/ AppMain
  PROVE  StartInv'
<1>1. /\ stage = "parsed" /\ stage' = "command" /\ parser' = NoParser /\ command' = command
      /\ file' = file /\ edits' = edits /\ tunnelVars' = tunnelVars
  BY DEF Fork, AppMain
<1>2. /\ \/ call' = "base" /\ G' = ZeroConfig /\ daemon' = TRUE /\ announced' = TRUE
         \/ call' = "app" /\ G' = G /\ daemon' = daemon /\ announced' = announced
  BY DEF Fork, AppMain
<1>3. StartType'
  BY <1>1, <1>2 DEF StartInv, StartType
<1>4. ReadInv'
  BY <1>1, NewParserInv DEF ReadInv, NoParser
<1>5. ConfigInv'
  BY <1>1, <1>2, ZeroIsConfig DEF StartInv, ConfigInv
<1>6. AcceptedInv'
  <2>1. \A c : AcceptedAs(file, c)' <=> AcceptedAs(file, c)
    BY <1>1 DEF AcceptedAs, WithLogConf, Section
  <2>2. BadCommand' <=> BadCommand
    BY <1>1 DEF BadCommand
  <2> QED
    BY <1>1, <1>2, <2>1, <2>2 DEF StartInv, AcceptedInv, Reading
<1>7. TunnelInv'
  BY <1>1 DEF StartInv, TunnelInv, tunnelVars, Fresh
<1>8. ServedIsWritten' /\ AnnouncedIsServed'
  BY <1>1 DEF ServedIsWritten, AnnouncedIsServed
<1> QED
  BY <1>3, <1>4, <1>5, <1>6, <1>7, <1>8 DEF StartInv

LEMMA EndsInv ==
  ASSUME StartInv, ForkFails \/ ListenFails
  PROVE  StartInv'
<1>1. CASE ForkFails
  <2>1. stage = "parsed" /\ ~daemon /\ Exit(-1) /\ Reading
    BY <1>1 DEF ForkFails, Reading
  <2>2. ~announced
    BY <2>1 DEF StartInv, AcceptedInv
  <2> QED
    BY <2>1, <2>2, ExitInv
<1>2. CASE ListenFails
  BY <1>2, ExitInv DEF ListenFails, Reading
<1> QED
  BY <1>1, <1>2

LEMMA ServeInv == ASSUME StartInv, Serve PROVE StartInv'
<1>1. /\ stage = "parsed" /\ stage' = "serving" /\ parser' = NoParser /\ G' = G
      /\ edits' = edits /\ daemon' = daemon /\ announced' = announced /\ call' = call
      /\ tunnelVars' = tunnelVars /\ call = "app"
  BY DEF Serve
<1>2. StartType'
  BY <1>1 DEF StartInv, StartType
<1>3. ReadInv'
  BY <1>1, NewParserInv DEF ReadInv, NoParser
<1>4. ConfigInv'
  BY <1>1 DEF StartInv, ConfigInv
<1>5. AcceptedInv'
  BY <1>1 DEF StartInv, AcceptedInv, Reading
<1>6. TunnelInv'
  <2>1. Checked(G) /\ Fresh
    BY <1>1 DEF StartInv, ConfigInv, TunnelInv
  <2>2. IInv
    BY <2>1, FreshIInv
  <2>3. IInv'
    BY <1>1, <2>2
       DEF IInv, TypeOK, IdleInv, IdleSurvives, Queued, Idle, Wait, Timeout, tunnelVars
  <2> QED
    BY <1>1, <2>3 DEF TunnelInv
<1>7. ServedIsWritten' /\ AnnouncedIsServed'
  BY <1>1 DEF ServedIsWritten, AnnouncedIsServed
<1> QED
  BY <1>2, <1>3, <1>4, <1>5, <1>6, <1>7 DEF StartInv

LEMMA EditInv == ASSUME StartInv, Edit PROVE StartInv'
<1>1. /\ stage = "command" /\ stage' = stage /\ parser' = parser /\ G' = G /\ edits' = edits + 1
      /\ command' = command /\ daemon' = daemon /\ announced' = announced /\ call' = call
      /\ tunnelVars' = tunnelVars
  BY DEF Edit
<1>2. edits \in Nat /\ edits' \in Nat /\ edits' > 0
  BY <1>1 DEF StartInv, StartType
<1>3. StartType'
  BY <1>1, <1>2 DEF StartInv, StartType
<1>4. ReadInv' /\ ConfigInv'
  BY <1>1 DEF StartInv, ReadInv, ConfigInv
<1>5. AcceptedInv'
  BY <1>1, <1>2 DEF StartInv, AcceptedInv, BadCommand
<1>6. TunnelInv'
  BY <1>1 DEF StartInv, TunnelInv, tunnelVars, Fresh
<1>7. ServedIsWritten' /\ AnnouncedIsServed'
  BY <1>1 DEF ServedIsWritten, AnnouncedIsServed
<1> QED
  BY <1>3, <1>4, <1>5, <1>6, <1>7 DEF StartInv

LEMMA RestOfStartInv ==
  ASSUME StartInv, UNCHANGED <<G, startVars>>, TunnelInv'
  PROVE  StartInv'
<1>1. /\ stage' = stage /\ parser' = parser /\ G' = G /\ edits' = edits /\ file' = file
      /\ command' = command /\ daemon' = daemon /\ announced' = announced /\ call' = call
      /\ code' = code
  BY DEF startVars
<1>2. StartType' /\ ReadInv' /\ ConfigInv'
  BY <1>1 DEF StartInv, StartType, ReadInv, ConfigInv
<1>3. AcceptedInv'
  <2>1. \A c : AcceptedAs(file, c)' <=> AcceptedAs(file, c)
    BY <1>1 DEF AcceptedAs, WithLogConf, Section
  <2>2. BadCommand' <=> BadCommand
    BY <1>1 DEF BadCommand
  <2> QED
    BY <1>1, <2>1, <2>2 DEF StartInv, AcceptedInv, Reading
<1>4. ServedIsWritten' /\ AnnouncedIsServed'
  BY <1>1 DEF StartInv, ServedIsWritten, AnnouncedIsServed, Section
<1> QED
  BY <1>2, <1>3, <1>4 DEF StartInv

LEMMA TunnelStepInv == ASSUME StartInv, TunnelStep PROVE StartInv'
<1>1. stage = "serving" /\ startVars' = startVars /\ Next
  BY DEF TunnelStep, Tunnel, Next, ResponseLoop
<1>2. G' = G
  BY <1>1 DEF Next, Request, Process, ResponseLoop, Start, Block, Written, NoBlock,
              CheckLoop, TargetDies, ClientDies, Tick
<1>3. IInv'
  BY <1>1, NextIInv DEF StartInv, TunnelInv
<1>4. TunnelInv'
  BY <1>1, <1>3 DEF TunnelInv, startVars
<1> QED
  BY <1>1, <1>2, <1>4, RestOfStartInv

LEMMA StartupNextInv == StartInv /\ [StartupNext]_startupVars => StartInv'
<1> SUFFICES ASSUME StartInv, [StartupNext]_startupVars PROVE StartInv'
  OBVIOUS
<1>1. CASE Starting
  BY <1>1, ReadFileInv, ParseInv, DecodeFileInv, NextReaderInv, EndsInv, ServeInv DEF Starting
<1>2. CASE Edit
  BY <1>2, EditInv
<1>3. CASE TunnelStep
  BY <1>3, TunnelStepInv
<1>4. CASE UNCHANGED startupVars
  <2>1. UNCHANGED <<G, startVars, tunnelVars, stage>>
    BY <1>4 DEF startupVars, startVars
  <2>2. TunnelInv'
    BY <2>1 DEF StartInv, TunnelInv, IInv, TypeOK, IdleInv, IdleSurvives, Queued, Idle, Wait,
                Timeout, tunnelVars, Fresh
  <2> QED
    BY <2>1, <2>2, RestOfStartInv
<1> QED
  BY <1>1, <1>2, <1>3, <1>4 DEF StartupNext

LEMMA StartInvCorrect == StartupSpec => []StartInv
  BY StartupInitInv, StartupNextInv, PTL DEF StartupSpec

-----------------------------------------------------------------------------
\* A file that is accepted, whatever bytes it has, loses no value and defines no path
\* twice, but for what the mark of an implicit table of the same name lets through
\* (toml.parse, establishContext, setValue).
THEOREM KeyIsKeptCorrect == StartupSpec => []KeyIsKept
<1>1. StartInv => KeyIsKept
  BY DEF StartInv, ReadInv, ParserInv, Kept, DefinedOnce, KeyIsKept
<1> QED
  BY <1>1, StartInvCorrect, PTL

\* For every file and command line, a process goes on with what the mapping of its file has
\* for each field, or with logconf for the log's file; a field is left from an earlier
\* reading only if the file was saved in between (ParseCommandAndFile, toml.Decode).
THEOREM ServedIsWrittenCorrect == StartupSpec => []ServedIsWritten
  BY StartInvCorrect, PTL DEF StartInv

\* The daemon, and app_main in it, accept what the parent accepted, unless the file was
\* saved in between or has two keys for a field (BaseMain, ParseCommandAndFile).
THEOREM AnnouncedIsServedCorrect == StartupSpec => []AnnouncedIsServed
  BY StartInvCorrect, PTL DEF StartInv

\* Whatever configuration gets through the start, a tunnel that is served with it survives
\* as KeepAlive promises: the checks of the configuration are enough for it.
THEOREM ServedIdleSurvives == StartupSpec => []IdleSurvives
<1>1. StartInv => IdleSurvives
  BY DEF StartInv, TunnelInv, IInv, IdleSurvives, Fresh
<1> QED
  BY <1>1, StartInvCorrect, PTL


=============================================================================
