------------------------------ MODULE QueueFacts ------------------------------
(***************************************************************************)
(* What sending to a channel and receiving from it do to a sequence of     *)
(* blocks: the lemmas that the proofs about the components share.          *)
(***************************************************************************)
EXTENDS Integers, Sequences, SequenceTheorems, WellFoundedInduction, TLAPS

\* q ends with block n, and each block in it follows the one in front of it.
EndsWith(q, n) == Len(q) <= n /\ \A i \in 1 .. Len(q) : q[i] = n - Len(q) + i

LEMMA SeqFacts ==
  ASSUME NEW q \in Seq(Nat)
  PROVE  Len(q) \in Nat /\ DOMAIN q = 1 .. Len(q) /\ \A i \in 1 .. Len(q) : q[i] \in Nat
  BY LenProperties

LEMMA AppendFacts ==
  ASSUME NEW q \in Seq(Nat), NEW dn \in Nat
  PROVE  /\ Append(q, dn) \in Seq(Nat) /\ Len(Append(q, dn)) = Len(q) + 1
         /\ \A i \in 1 .. Len(q) : Append(q, dn)[i] = q[i]
         /\ Append(q, dn)[Len(q) + 1] = dn
  BY AppendProperties

LEMMA TailFacts ==
  ASSUME NEW q \in Seq(Nat), q # <<>>
  PROVE  /\ Len(q) \in Nat \ {0} /\ Head(q) = q[1]
         /\ Tail(q) \in Seq(Nat) /\ Len(Tail(q)) = Len(q) - 1
         /\ \A i \in 1 .. Len(q) - 1 : Tail(q)[i] = q[i + 1]
  BY HeadTailProperties, EmptySeq, LenProperties

LEMMA EndsWithAppend ==
  ASSUME NEW q, NEW r, NEW n \in Nat, EndsWith(q, n), Len(q) \in Nat,
         Len(r) = Len(q) + 1, r[Len(q) + 1] = n + 1,
         \A i \in 1 .. Len(q) : r[i] = q[i]
  PROVE  EndsWith(r, n + 1)
  BY DEF EndsWith

LEMMA EndsWithTail ==
  ASSUME NEW q, NEW r, NEW n \in Nat, EndsWith(q, n), Len(q) \in Nat \ {0},
         Len(r) = Len(q) - 1,
         \A i \in 1 .. Len(q) - 1 : r[i] = q[i + 1]
  PROVE  EndsWith(r, n) /\ q[1] = n - Len(r)
  BY DEF EndsWith


LEMMA CountingAppend ==
  ASSUME NEW s \in Seq(Nat), \A i \in DOMAIN s : s[i] = i
  PROVE  \A i \in DOMAIN Append(s, Len(s) + 1) : Append(s, Len(s) + 1)[i] = i
<1>1. ASSUME NEW r, NEW n \in Nat, r[n + 1] = n + 1, \A i \in 1 .. n : r[i] = s[i],
             \A i \in 1 .. n : s[i] = i
      PROVE  \A i \in 1 .. n + 1 : r[i] = i
  BY ONLY <1>1
<1>2. QED
  BY <1>1, SeqFacts, AppendFacts

\* A set of numbers that is not empty has a least element.
LEMMA LeastNat ==
  ASSUME NEW T, T \subseteq Nat, T # {}
  PROVE  \E x \in T : \A y \in T : x <= y
<1>1. IsWellFoundedOn(OpToRel(<, Nat), Nat)
  BY NatLessThanWellFounded
<1>2. PICK x \in T : \A y \in T : ~(<<y, x>> \in OpToRel(<, Nat))
  BY <1>1, WFMin
<1>3. \A y \in T : <<y, x>> \in Nat \X Nat
  BY <1>2
<1>4. \A y \in T : ~(y < x)
  BY <1>2, <1>3 DEF OpToRel
<1>5. x \in T
  BY <1>2
<1>6. \A y \in T : x <= y
  <2> TAKE y \in T
  <2>1. x \in Nat /\ y \in Nat /\ ~(y < x)
    BY <1>4, <1>5
  <2>2. QED
    BY <2>1
<1>7. QED
  BY ONLY <1>5, <1>6

\* One that has an upper bound has a greatest.
LEMMA BoundedMax ==
  ASSUME NEW S \in SUBSET Nat, S # {}, NEW n \in Nat, \A b \in S : b <= n
  PROVE  \E m \in S : \A b \in S : b <= m
<1> DEFINE T == {k \in Nat : \A b \in S : b <= k}
<1>1. PICK m \in T : \A k \in T : m <= k
  <2>1. n \in T /\ T \subseteq Nat
    OBVIOUS
  <2>2. QED
    BY <2>1, LeastNat
<1>2. ASSUME m \notin S PROVE FALSE
  <2>1. m # 0
    <3>1. PICK b \in S : TRUE
      OBVIOUS
    <3>2. b \in Nat /\ b <= m /\ m \in Nat /\ b # m
      BY <1>1, <1>2
    <3>3. QED
      BY ONLY <3>2
  <2>2. \A b \in S : b <= m - 1
    BY <1>1, <1>2
  <2>3. m - 1 \in T
    BY <1>1, <2>1, <2>2
  <2>4. QED
    BY <1>1, <2>3
<1>3. QED
  BY <1>1, <1>2

=============================================================================
