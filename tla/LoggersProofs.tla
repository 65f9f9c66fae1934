---------------------------- MODULE LoggersProofs ----------------------------
(***************************************************************************)
(* Theorems about Loggers: the order and the completeness of the files, and *)
(* how many old ones there are, for every configuration and any number of  *)
(* messages, faults, midnights and processes.                              *)
(*                                                                         *)
(* First what is true of a set of names, then of the files alone, then of a *)
(* receiver through the calls of RollingFile, and then of the loggers.     *)
(***************************************************************************)
EXTENDS Loggers, QueueFacts, FiniteSetTheorems

-----------------------------------------------------------------------------
(* The newest of a set of names                                            *)

LEMMA CardType ==
  ASSUME NEW S, IsFiniteSet(S)
  PROVE  Cardinality(S) \in Nat
  BY FS_CardinalityType

LEMMA CardSubset ==
  ASSUME NEW S, NEW T, IsFiniteSet(S), T \subseteq S
  PROVE  IsFiniteSet(T) /\ Cardinality(T) \in Nat /\ Cardinality(T) <= Cardinality(S)
  BY FS_Subset, FS_CardinalityType

\* The element with the fewest above it is the greatest.
LEMMA FiniteMax ==
  ASSUME NEW S \in SUBSET Nat, IsFiniteSet(S), S # {}
  PROVE  \E x \in S : \A y \in S : y <= x
<1> DEFINE T == {Cardinality(Newer(S, n)) : n \in S}
<1>1. \A n \in S : IsFiniteSet(Newer(S, n)) /\ Cardinality(Newer(S, n)) \in Nat
  BY CardSubset DEF Newer
<1>2. PICK k \in T : \A j \in T : k <= j
  BY <1>1, LeastNat
<1>3. PICK x \in S : k = Cardinality(Newer(S, x))
  BY <1>2
<1>4. ASSUME NEW y \in S, y > x PROVE FALSE
  <2>1. x \in Nat /\ y \in Nat /\ \A m \in S : m \in Nat /\ (m > y => m > x)
    BY <1>3, <1>4
  <2>2. Newer(S, y) \subseteq Newer(S, x) /\ y \in Newer(S, x) /\ y \notin Newer(S, y)
    BY <1>3, <1>4, <2>1 DEF Newer
  <2>3. Cardinality(Newer(S, y)) < Cardinality(Newer(S, x))
    BY <1>1, <1>3, <2>2, FS_Subset
  <2>4. QED
    BY <1>1, <1>2, <1>3, <2>3
<1>5. QED
  BY <1>4

Newest(S, k) == {n \in S : Cardinality(Newer(S, n)) < k}

LEMMA NewestAreFew ==
  ASSUME NEW S \in SUBSET Nat, IsFiniteSet(S), NEW k \in Nat
  PROVE  IsFiniteSet(Newest(S, k)) /\ Cardinality(Newest(S, k)) <= k
<1>1. IsFiniteSet(Newest(S, k)) /\ Newest(S, k) \in SUBSET Nat
  BY CardSubset DEF Newest
<1>2. CASE Newest(S, k) = {}
  BY <1>2, FS_EmptySet
<1>3. CASE Newest(S, k) # {}
  <2>1. PICK x \in Newest(S, k) : \A y \in Newest(S, k) : x <= y
    BY <1>1, <1>3, LeastNat
  <2>2. Newest(S, k) \ {x} \subseteq Newer(S, x) /\ IsFiniteSet(Newer(S, x))
    <3>1. \A y \in Newest(S, k) : y \in S /\ y \in Nat /\ x \in Nat /\ (y # x => y > x)
      BY <1>1, <2>1 DEF Newest
    <3>2. QED
      BY <3>1, CardSubset DEF Newer
  <2>3. Cardinality(Newest(S, k) \ {x}) <= Cardinality(Newer(S, x))
    BY <2>2, CardSubset
  <2>4. Cardinality(Newest(S, k) \ {x}) = Cardinality(Newest(S, k)) - 1
    BY <1>1, FS_RemoveElement
  <2>5. Cardinality(Newer(S, x)) < k
    BY <2>1 DEF Newest
  <2>6. QED
    BY <1>1, <2>2, <2>3, <2>4, <2>5, CardType
<1>4. QED
  BY <1>1, <1>2, <1>3

LEMMA NewestAreMany ==
  ASSUME NEW S \in SUBSET Nat, IsFiniteSet(S), NEW k \in Nat, Cardinality(S) >= k
  PROVE  Cardinality(Newest(S, k)) >= k
<1> SUFFICES ASSUME ~(Cardinality(Newest(S, k)) >= k) PROVE FALSE
  OBVIOUS
<1>1. IsFiniteSet(Newest(S, k)) /\ Newest(S, k) \subseteq S /\ Cardinality(Newest(S, k)) \in Nat
  BY CardSubset DEF Newest
<1>2. S \ Newest(S, k) # {}
  BY <1>1
<1>3. PICK x \in S \ Newest(S, k) : \A y \in S \ Newest(S, k) : y <= x
  <2>1. IsFiniteSet(S \ Newest(S, k)) /\ S \ Newest(S, k) \in SUBSET Nat
    BY CardSubset
  <2>2. QED
    BY <1>2, <2>1, FiniteMax
<1>4. Newer(S, x) \subseteq Newest(S, k)
  <2>1. ASSUME NEW y \in S, y > x PROVE y \in Newest(S, k)
    <3>1. x \in Nat /\ y \in Nat /\ ~(y <= x)
      BY <1>3, <2>1
    <3>2. QED
      BY <1>3, <3>1
  <2>2. QED
    BY <2>1 DEF Newer
<1>5. Cardinality(Newer(S, x)) <= Cardinality(Newest(S, k)) /\ Cardinality(Newer(S, x)) \in Nat
  BY <1>1, <1>4, CardSubset
<1>6. x \in Newest(S, k)
  BY <1>1, <1>3, <1>5 DEF Newest
<1>7. QED
  BY <1>3, <1>6

\* deleteOldRolls leaves maxRolls files and one it could not remove.
LEMMA KeptAreFew ==
  ASSUME NEW c, NEW S \in SUBSET Nat, IsFiniteSet(S), NEW fault, c.maxRolls \in Nat \ {0}
  PROVE  Cardinality(S \ TooOld(c, S, fault)) <= c.maxRolls + IF fault = "remove" THEN 1 ELSE 0
<1> DEFINE N == Newest(S, c.maxRolls)
<1>1. IsFiniteSet(N) /\ Cardinality(N) <= c.maxRolls /\ Cardinality(N) \in Nat
  BY NewestAreFew, CardType
<1>2. \A n \in S : Cardinality(Newer(S, n)) \in Nat
  BY CardSubset DEF Newer
<1>3. CASE fault # "remove"
  <2>1. S \ TooOld(c, S, fault) \subseteq N
    <3>1. ASSUME NEW n \in S, n \notin TooOld(c, S, fault) PROVE n \in N
      <4>1. ~(Cardinality(Newer(S, n)) >= c.maxRolls)
        BY <1>3, <3>1 DEF TooOld
      <4>2. QED
        BY <1>2, <4>1 DEF Newest
    <3>2. QED
      BY <3>1
  <2>2. QED
    BY <1>1, <1>3, <2>1, CardSubset
<1>4. CASE fault = "remove" /\ S # {}
  <2>1. PICK x \in S : \A y \in S : x <= y
    BY <1>4, LeastNat
  <2>2. S \ TooOld(c, S, fault) \subseteq N \cup {x}
    <3>1. ASSUME NEW n \in S, n \notin TooOld(c, S, fault), n # x PROVE n \in N
      <4>1. x \in Nat /\ n \in Nat /\ x < n
        BY <2>1, <3>1
      <4>2. ~(Cardinality(Newer(S, n)) >= c.maxRolls)
        BY <2>1, <3>1, <4>1 DEF TooOld
      <4>3. QED
        BY <1>2, <4>2 DEF Newest
    <3>2. QED
      BY <3>1
  <2>3. IsFiniteSet(N \cup {x}) /\ Cardinality(N \cup {x}) <= Cardinality(N) + 1
    <3>1. /\ IsFiniteSet(N \cup {x})
          /\ Cardinality(N \cup {x}) = IF x \in N THEN Cardinality(N) ELSE Cardinality(N) + 1
      BY <1>1, FS_AddElement
    <3>2. QED
      BY <1>1, <3>1
  <2>4. Cardinality(S \ TooOld(c, S, fault)) <= Cardinality(N \cup {x})
    BY <2>2, <2>3, CardSubset
  <2>5. Cardinality(N \cup {x}) \in Nat /\ Cardinality(S \ TooOld(c, S, fault)) \in Nat
    BY <2>3, CardType, CardSubset
  <2>6. QED
    BY <1>1, <1>4, <2>3, <2>4, <2>5
<1>5. CASE S = {}
  <2>1. S \ TooOld(c, S, fault) = {}
    BY <1>5
  <2>2. Cardinality(S \ TooOld(c, S, fault)) = 0
    BY <2>1, FS_EmptySet
  <2>3. QED
    BY <2>2
<1>6. QED
  BY <1>3, <1>4, <1>5

\* And maxRolls of those that are newer than b, if there were as many.
LEMMA KeptAreMany ==
  ASSUME NEW c, NEW S \in SUBSET Nat, IsFiniteSet(S), NEW fault, c.maxRolls \in Nat \ {0},
         NEW b \in Nat, Cardinality(Newer(S, b)) >= c.maxRolls
  PROVE  Cardinality(Newer(S \ TooOld(c, S, fault), b)) >= c.maxRolls
<1> DEFINE N == Newer(S, b)
<1>1. IsFiniteSet(N) /\ N \in SUBSET Nat
  BY CardSubset DEF Newer
<1>2. Cardinality(Newest(N, c.maxRolls)) >= c.maxRolls
  BY <1>1, NewestAreMany
<1>3. ASSUME NEW m \in N PROVE Newer(S, m) = Newer(N, m)
  <2>1. m \in Nat /\ m > b /\ \A n \in S : n \in Nat /\ (n > m => n > b)
    BY DEF Newer
  <2>2. QED
    BY <2>1 DEF Newer
<1>4. Newest(N, c.maxRolls) \subseteq Newer(S \ TooOld(c, S, fault), b)
  <2>1. ASSUME NEW m \in Newest(N, c.maxRolls) PROVE m \in S /\ m > b /\ m \notin TooOld(c, S, fault)
    <3>1. m \in N /\ Cardinality(Newer(N, m)) < c.maxRolls /\ m \in S /\ m > b
      BY DEF Newest, Newer
    <3>2. Cardinality(Newer(S, m)) < c.maxRolls /\ Cardinality(Newer(S, m)) \in Nat
      BY <1>3, <3>1, CardSubset DEF Newer
    <3>3. QED
      BY <3>1, <3>2 DEF TooOld
  <2>2. QED
    BY <2>1 DEF Newer
<1>5. IsFiniteSet(Newer(S \ TooOld(c, S, fault), b))
  BY CardSubset DEF Newer
<1>6. Cardinality(Newest(N, c.maxRolls)) \in Nat /\ Cardinality(Newer(S \ TooOld(c, S, fault), b)) \in Nat
      /\ Cardinality(Newest(N, c.maxRolls)) <= Cardinality(Newer(S \ TooOld(c, S, fault), b))
  BY <1>4, <1>5, CardSubset
<1>7. QED
  BY <1>2, <1>6

-----------------------------------------------------------------------------
(* The files                                                               *)

GoodConf(c) == c.rolling \in {"size", "date"} /\ c.maxRolls \in Int /\ c.maxSize \in Int /\ c.buffer \in Nat

GoodDisk(c, today, d) ==
    /\ DOMAIN d \subseteq Nat /\ IsFiniteSet(DOMAIN d)
    /\ \A n \in DOMAIN d : d[n] \in Seq(Nat)
    /\ c.rolling = "date" => \A n \in DOMAIN d : n <= today
    /\ InOrder(c, d)

\* A message m of the file b that was deleted: maxRolls old files came after it.
Behind(c, cur, d, b, m) ==
    /\ c.maxRolls > 0
    /\ Cardinality({n \in DOMAIN d \ {cur} : Older(c, b, n)}) >= c.maxRolls
    /\ \A n \in DOMAIN d : Older(c, b, n) => \A k \in ToSet(d[n]) : m < k

\* What becomes of the files d by a change to e that brings the messages new.
Goes(c, cur, d, e, new) ==
    /\ OnDisk(e) \subseteq OnDisk(d) \cup new /\ new \subseteq OnDisk(e)
    /\ \A b, m \in Nat : Behind(c, cur, d, b, m) /\ (\A k \in new : m < k) => Behind(c, cur, e, b, m)
    /\ \A m \in OnDisk(d) \ OnDisk(e) : \E b \in Nat : Behind(c, cur, e, b, m)

LEMMA OnDiskHas ==
  ASSUME NEW d, NEW m
  PROVE  m \in OnDisk(d) <=> \E n \in DOMAIN d : m \in ToSet(d[n])
  BY DEF OnDisk

LEMMA OnDiskNat ==
  ASSUME NEW c, NEW today, NEW d, GoodDisk(c, today, d)
  PROVE  OnDisk(d) \subseteq Nat
  BY OnDiskHas DEF GoodDisk, ToSet

LEMMA GoesNowhere ==
  ASSUME NEW c, NEW cur, NEW d
  PROVE  Goes(c, cur, d, d, {})
  BY DEF Goes

LEMMA GoesTwice ==
  ASSUME NEW c, NEW cur, NEW d, NEW e, NEW f, NEW new,
         OnDisk(d) \subseteq Nat, \A k \in OnDisk(d), l \in new : k < l,
         Goes(c, cur, d, e, {}), Goes(c, cur, e, f, new)
  PROVE  Goes(c, cur, d, f, new)
<1>1. ASSUME NEW m \in OnDisk(d) \ OnDisk(f) PROVE \E b \in Nat : Behind(c, cur, f, b, m)
  <2>1. m \in Nat /\ \A l \in new : m < l
    OBVIOUS
  <2>2. CASE m \in OnDisk(e)
    BY <2>2 DEF Goes
  <2>3. CASE m \notin OnDisk(e)
    BY <2>1, <2>3 DEF Goes
  <2>4. QED
    BY <2>2, <2>3
<1>2. QED
  BY <1>1 DEF Goes

\* A new file is begun.
LEMMA BeginFile ==
  ASSUME NEW c, NEW today \in Nat, NEW d, NEW e, NEW cur, GoodDisk(c, today, d),
         cur \in Nat, c.rolling = "date" => cur <= today, cur \notin DOMAIN d,
         DOMAIN e = DOMAIN d \cup {cur}, e[cur] = <<>>, \A n \in DOMAIN d : e[n] = d[n]
  PROVE  GoodDisk(c, today, e) /\ Goes(c, cur, d, e, {})
<1>1. ToSet(e[cur]) = {} /\ DOMAIN e[cur] = {} /\ e[cur] \in Seq(Nat)
  BY DEF ToSet
<1>2. InOrder(c, e)
  <2>1. ASSUME NEW n \in DOMAIN e, NEW i \in DOMAIN e[n], NEW j \in DOMAIN e[n], i < j
        PROVE  e[n][i] < e[n][j]
    BY <1>1, <2>1 DEF GoodDisk, InOrder
  <2>2. ASSUME NEW a \in DOMAIN e, NEW b \in DOMAIN e, Older(c, a, b),
               NEW k \in ToSet(e[a]), NEW l \in ToSet(e[b])
        PROVE  k < l
    <3>1. a \in DOMAIN d /\ b \in DOMAIN d
      BY <1>1
    <3>2. e[a] = d[a] /\ e[b] = d[b]
      BY <3>1
    <3>3. QED
      BY <2>2, <3>1, <3>2 DEF GoodDisk, InOrder
  <2>3. QED
    BY <2>1, <2>2 DEF InOrder
<1>3. GoodDisk(c, today, e)
  <2>1. IsFiniteSet(DOMAIN e)
    BY FS_AddElement DEF GoodDisk
  <2>2. QED
    BY <1>1, <1>2, <2>1 DEF GoodDisk
<1>4. OnDisk(e) = OnDisk(d)
  <2>1. \A m : m \in OnDisk(e) => m \in OnDisk(d)
    BY <1>1, OnDiskHas
  <2>2. \A m : m \in OnDisk(d) => m \in OnDisk(e)
    BY OnDiskHas
  <2>3. QED
    BY <2>1, <2>2
<1>5. ASSUME NEW b \in Nat, NEW m \in Nat, Behind(c, cur, d, b, m) PROVE Behind(c, cur, e, b, m)
  <2>1. {n \in DOMAIN d \ {cur} : Older(c, b, n)} = {n \in DOMAIN e \ {cur} : Older(c, b, n)}
    OBVIOUS
  <2>2. \A n \in DOMAIN e : Older(c, b, n) => \A k \in ToSet(e[n]) : m < k
    BY <1>1, <1>5 DEF Behind
  <2>3. QED
    BY <1>5, <2>1, <2>2 DEF Behind
<1>6. QED
  BY <1>3, <1>4, <1>5 DEF Goes

\* By size, the current file gets the next name.
LEMMA RenameFile ==
  ASSUME NEW c, NEW today \in Nat, NEW d, NEW e, NEW name, GoodDisk(c, today, d),
         c.rolling = "size", c.maxRolls \in Int, 0 \in DOMAIN d, name \in Nat \ {0},
         \A n \in DOMAIN d : n < name,
         DOMAIN e = (DOMAIN d \ {0}) \cup {name}, e[name] = d[0],
         \A n \in DOMAIN d \ {0} : e[n] = d[n]
  PROVE  GoodDisk(c, today, e) /\ Goes(c, 0, d, e, {})
<1> DEFINE Was(n) == IF n = name THEN 0 ELSE n
<1>1. \A n \in DOMAIN e : Was(n) \in DOMAIN d /\ e[n] = d[Was(n)] /\ n \in Nat \ {0}
  BY DEF GoodDisk
<1>2. ASSUME NEW a \in DOMAIN e, NEW b \in DOMAIN e, Older(c, a, b) PROVE Older(c, Was(a), Was(b))
  <2>1. a \in Nat \ {0} /\ b \in Nat \ {0} /\ a < b
    BY <1>1, <1>2 DEF Older
  <2>2. a # name
    <3>1. b = name \/ b < name
      OBVIOUS
    <3>2. QED
      BY <2>1, <3>1
  <2>3. QED
    BY <2>1, <2>2 DEF Older
<1>3. InOrder(c, e)
  <2> HIDE DEF Was
  <2>1. InOrder(c, d)
    BY DEF GoodDisk
  <2>2. ASSUME NEW n \in DOMAIN e, NEW i \in DOMAIN e[n], NEW j \in DOMAIN e[n], i < j
        PROVE  e[n][i] < e[n][j]
    <3>1. Was(n) \in DOMAIN d /\ e[n] = d[Was(n)]
      BY <1>1
    <3>2. QED
      BY <2>1, <2>2, <3>1 DEF InOrder
  <2>3. ASSUME NEW a \in DOMAIN e, NEW b \in DOMAIN e, Older(c, a, b),
               NEW k \in ToSet(e[a]), NEW l \in ToSet(e[b])
        PROVE  k < l
    <3>1. /\ Was(a) \in DOMAIN d /\ e[a] = d[Was(a)]
          /\ Was(b) \in DOMAIN d /\ e[b] = d[Was(b)]
      BY <1>1
    <3>2. Older(c, Was(a), Was(b))
      BY <1>2, <2>3
    <3>3. QED
      BY <2>1, <3>1, <3>2 DEF InOrder
  <2>4. QED
    BY <2>2, <2>3 DEF InOrder
<1>4. GoodDisk(c, today, e)
  <2>1. IsFiniteSet(DOMAIN e)
    <3>1. IsFiniteSet(DOMAIN d \ {0})
      BY FS_RemoveElement DEF GoodDisk
    <3>2. IsFiniteSet((DOMAIN d \ {0}) \cup {name})
      BY <3>1, FS_AddElement
    <3>3. QED
      BY <3>2
  <2>2. QED
    BY <1>1, <1>3, <2>1 DEF GoodDisk
<1>5. OnDisk(e) = OnDisk(d)
  <2>1. ASSUME NEW m \in OnDisk(e) PROVE m \in OnDisk(d)
    BY <1>1, OnDiskHas
  <2>2. ASSUME NEW m \in OnDisk(d) PROVE m \in OnDisk(e)
    <3>1. PICK n \in DOMAIN d : m \in ToSet(d[n])
      BY OnDiskHas
    <3>2. CASE n = 0
      BY <3>1, <3>2, OnDiskHas
    <3>3. CASE n # 0
      BY <3>1, <3>3, OnDiskHas
    <3>4. QED
      BY <3>2, <3>3
  <2>3. QED
    BY <2>1, <2>2
<1>6. ASSUME NEW b \in Nat, NEW m \in Nat, Behind(c, 0, d, b, m) PROVE Behind(c, 0, e, b, m)
  <2> DEFINE A == {n \in DOMAIN d \ {0} : Older(c, b, n)}
             B == {n \in DOMAIN e \ {0} : Older(c, b, n)}
  <2>1. IsFiniteSet(DOMAIN d) /\ IsFiniteSet(DOMAIN e)
    BY <1>4 DEF GoodDisk
  <2>2. A \subseteq B
    OBVIOUS
  <2>3. Cardinality(A) <= Cardinality(B) /\ Cardinality(A) \in Nat /\ Cardinality(B) \in Nat
    <3>1. IsFiniteSet(B) /\ Cardinality(B) \in Nat
      BY <2>1, CardSubset
    <3>2. QED
      BY <2>2, <3>1, CardSubset
  <2>4. Cardinality(A) >= c.maxRolls /\ c.maxRolls > 0
    BY <1>6 DEF Behind
  <2>5. A # {}
    <3>1. Cardinality({}) = 0
      BY FS_EmptySet
    <3>2. ASSUME A = {} PROVE FALSE
      <4>1. Cardinality(A) = 0
        BY <3>1, <3>2
      <4> HIDE DEF A
      <4>2. QED
        BY <2>4, <4>1
    <3>3. QED
      BY <3>2
  <2>6. b # 0
    BY <2>5 DEF Older
  <2>7. \A n \in DOMAIN e : Older(c, b, n) => Older(c, b, Was(n))
    BY <1>1, <2>6 DEF Older
  <2>8. \A n \in DOMAIN e : Older(c, b, n) => \A k \in ToSet(e[n]) : m < k
    <3> HIDE DEF Was
    <3>1. QED
      BY <1>1, <1>6, <2>7 DEF Behind
  <2>9. Cardinality(B) >= c.maxRolls
    <3> HIDE DEF A, B
    <3>1. QED
      BY <2>3, <2>4
  <2>10. QED
    BY <2>4, <2>8, <2>9 DEF Behind
<1>7. QED
  BY <1>4, <1>5, <1>6 DEF Goes

\* The old files are deleted, but for maxRolls of them.  There is no current file.
LEMMA DeleteOldFiles ==
  ASSUME NEW c, NEW today \in Nat, NEW d, NEW e, NEW cur, NEW fault, GoodConf(c), GoodDisk(c, today, d),
         cur \notin DOMAIN d, c.rolling = "size" => cur = 0,
         e = RemoveFiles(d, TooOld(c, DOMAIN d, fault))
  PROVE  /\ GoodDisk(c, today, e) /\ Goes(c, cur, d, e, {})
         /\ DOMAIN e \subseteq DOMAIN d
         /\ c.maxRolls > 0 =>
              Cardinality(DOMAIN e) <= c.maxRolls + IF fault = "none" THEN 0 ELSE 1
<1> DEFINE S == DOMAIN d
<1>1. DOMAIN e = S \ TooOld(c, S, fault) /\ \A n \in DOMAIN e : e[n] = d[n]
  BY DEF RemoveFiles
<1>2. S \in SUBSET Nat /\ IsFiniteSet(S)
  BY DEF GoodDisk
<1>3. IsFiniteSet(DOMAIN e) /\ Cardinality(DOMAIN e) \in Nat
  BY <1>1, <1>2, CardSubset
<1>4. GoodDisk(c, today, e)
  BY <1>1, <1>3 DEF GoodDisk, InOrder
<1>5. ASSUME c.maxRolls > 0, NEW b \in Nat, c.rolling = "size" => b # 0,
             Cardinality(Newer(S, b)) >= c.maxRolls
      PROVE  Cardinality({n \in DOMAIN e \ {cur} : Older(c, b, n)}) >= c.maxRolls
  <2>1. c.maxRolls \in Nat \ {0}
    BY <1>5 DEF GoodConf
  <2>2. Cardinality(Newer(DOMAIN e, b)) >= c.maxRolls
    BY <1>1, <1>2, <1>5, <2>1, KeptAreMany
  <2>3. \A n \in DOMAIN e : n \in Nat /\ n # cur /\ (Older(c, b, n) <=> n > b)
    BY <1>1, <1>2, <1>5 DEF Older
  <2>4. {n \in DOMAIN e \ {cur} : Older(c, b, n)} = Newer(DOMAIN e, b)
    BY <2>3 DEF Newer
  <2>5. QED
    BY <2>2, <2>4
<1>6. ASSUME NEW b \in Nat, NEW m \in Nat, Behind(c, cur, d, b, m) PROVE Behind(c, cur, e, b, m)
  <2> DEFINE A == {n \in DOMAIN d \ {cur} : Older(c, b, n)}
  <2>1. c.maxRolls > 0 /\ c.maxRolls \in Nat /\ Cardinality(A) >= c.maxRolls
    BY <1>6 DEF Behind, GoodConf
  <2>2. A # {}
    <3>1. ASSUME A = {} PROVE FALSE
      <4>1. Cardinality(A) = 0
        BY <3>1, FS_EmptySet
      <4> HIDE DEF A
      <4>2. QED
        BY <2>1, <4>1
    <3>2. QED
      BY <3>1
  <2>3. c.rolling = "size" => b # 0
    BY <2>2 DEF Older
  <2>4. A = Newer(S, b)
    <3>1. \A n \in S : n \in Nat /\ n # cur /\ (Older(c, b, n) <=> n > b)
      BY <1>2, <2>3 DEF Older
    <3>2. QED
      BY <3>1 DEF Newer
  <2>5. Cardinality({n \in DOMAIN e \ {cur} : Older(c, b, n)}) >= c.maxRolls
    BY <1>5, <2>1, <2>3, <2>4
  <2>6. \A n \in DOMAIN e : Older(c, b, n) => \A k \in ToSet(e[n]) : m < k
    BY <1>1, <1>6 DEF Behind
  <2>7. QED
    BY <2>1, <2>5, <2>6 DEF Behind
<1>7. ASSUME NEW m \in OnDisk(d) \ OnDisk(e) PROVE \E b \in Nat : Behind(c, cur, e, b, m)
  <2>1. PICK n \in S : m \in ToSet(d[n])
    BY OnDiskHas
  <2>2. n \in TooOld(c, S, fault) /\ n \in Nat
    BY <1>1, <1>2, <1>7, <2>1, OnDiskHas
  <2>3. c.maxRolls > 0 /\ Cardinality(Newer(S, n)) >= c.maxRolls
    BY <2>2 DEF TooOld
  <2>4. c.rolling = "size" => n # 0
    BY <2>1
  <2>5. Cardinality({x \in DOMAIN e \ {cur} : Older(c, n, x)}) >= c.maxRolls
    BY <1>5, <2>2, <2>3, <2>4
  <2>6. \A x \in DOMAIN e : Older(c, n, x) => \A k \in ToSet(e[x]) : m < k
    BY <1>1, <2>1 DEF GoodDisk, InOrder
  <2>7. QED
    BY <2>2, <2>3, <2>5, <2>6 DEF Behind
<1>8. Goes(c, cur, d, e, {})
  <2>1. OnDisk(e) \subseteq OnDisk(d)
    BY <1>1, OnDiskHas
  <2>2. QED
    BY <1>6, <1>7, <2>1 DEF Goes
<1>9. ASSUME c.maxRolls > 0
      PROVE  Cardinality(DOMAIN e) <= c.maxRolls + IF fault = "none" THEN 0 ELSE 1
  <2>1. c.maxRolls \in Nat \ {0}
    BY <1>9 DEF GoodConf
  <2>2. Cardinality(DOMAIN e) <= c.maxRolls + IF fault = "remove" THEN 1 ELSE 0
    BY <1>1, <1>2, <2>1, KeptAreFew
  <2>3. QED
    BY <1>3, <2>1, <2>2
<1>10. QED
  BY <1>1, <1>4, <1>8, <1>9

\* A chunk of messages is written to the newest file.
LEMMA ExtendFile ==
  ASSUME NEW c, NEW today \in Nat, NEW d, NEW e, NEW cur, NEW x, NEW chunk \in Seq(Nat),
         GoodDisk(c, today, d), x \in DOMAIN d, \A n \in DOMAIN d : n = x \/ Older(c, n, x),
         c.rolling \in {"size", "date"},
         \A i, j \in DOMAIN chunk : i < j => chunk[i] < chunk[j],
         \A k \in OnDisk(d), l \in ToSet(chunk) : k < l,
         DOMAIN e = DOMAIN d, e[x] = d[x] \o chunk, \A n \in DOMAIN d : n # x => e[n] = d[n]
  PROVE  GoodDisk(c, today, e) /\ Goes(c, cur, d, e, ToSet(chunk))
<1>1. d[x] \in Seq(Nat) /\ e[x] \in Seq(Nat)
  BY ConcatProperties DEF GoodDisk
<1>2. /\ Len(d[x]) \in Nat /\ Len(chunk) \in Nat /\ Len(e[x]) = Len(d[x]) + Len(chunk)
      /\ DOMAIN d[x] = 1 .. Len(d[x]) /\ DOMAIN chunk = 1 .. Len(chunk) /\ DOMAIN e[x] = 1 .. Len(e[x])
      /\ \A i \in 1 .. Len(e[x]) :
            e[x][i] = IF i <= Len(d[x]) THEN d[x][i] ELSE chunk[i - Len(d[x])]
  BY <1>1, ConcatProperties, LenProperties
<1>3. ToSet(e[x]) = ToSet(d[x]) \cup ToSet(chunk)
  <2>1. ASSUME NEW m \in ToSet(e[x]) PROVE m \in ToSet(d[x]) \cup ToSet(chunk)
    <3>1. PICK i \in 1 .. Len(e[x]) : m = e[x][i]
      BY <1>2 DEF ToSet
    <3>2. CASE i <= Len(d[x])
      BY <1>2, <3>1, <3>2 DEF ToSet
    <3>3. CASE ~(i <= Len(d[x]))
      <4>1. i - Len(d[x]) \in DOMAIN chunk /\ m = chunk[i - Len(d[x])]
        BY <1>2, <3>1, <3>3
      <4>2. QED
        BY <4>1 DEF ToSet
    <3>4. QED
      BY <3>2, <3>3
  <2>2. ASSUME NEW m \in ToSet(d[x]) PROVE m \in ToSet(e[x])
    <3>1. PICK i \in 1 .. Len(d[x]) : m = d[x][i]
      BY <1>2 DEF ToSet
    <3>2. i \in 1 .. Len(e[x]) /\ m = e[x][i]
      BY <1>2, <3>1
    <3>3. QED
      BY <1>2, <3>2 DEF ToSet
  <2>3. ASSUME NEW m \in ToSet(chunk) PROVE m \in ToSet(e[x])
    <3>1. PICK i \in 1 .. Len(chunk) : m = chunk[i]
      BY <1>2 DEF ToSet
    <3> DEFINE j == i + Len(d[x])
    <3>2. j \in 1 .. Len(e[x]) /\ ~(j <= Len(d[x])) /\ j - Len(d[x]) = i
      BY <1>2, <3>1
    <3>3. m = e[x][j]
      BY <1>2, <3>1, <3>2
    <3>4. QED
      BY <1>2, <3>2, <3>3 DEF ToSet
  <2>4. QED
    BY <2>1, <2>2, <2>3
<1>4. OnDisk(e) = OnDisk(d) \cup ToSet(chunk)
  <2>1. \A m : m \in OnDisk(e) => m \in OnDisk(d) \cup ToSet(chunk)
    BY <1>3, OnDiskHas
  <2>2. \A m : m \in OnDisk(d) \cup ToSet(chunk) => m \in OnDisk(e)
    BY <1>3, OnDiskHas
  <2>3. QED
    BY <2>1, <2>2
<1>5. ASSUME NEW i \in DOMAIN e[x], NEW j \in DOMAIN e[x], i < j PROVE e[x][i] < e[x][j]
  <2>1. CASE j <= Len(d[x])
    <3>1. i \in DOMAIN d[x] /\ j \in DOMAIN d[x] /\ e[x][i] = d[x][i] /\ e[x][j] = d[x][j]
      BY <1>2, <1>5, <2>1
    <3>2. QED
      BY <1>5, <3>1 DEF GoodDisk, InOrder
  <2>2. CASE i <= Len(d[x]) /\ ~(j <= Len(d[x]))
    <3>1. /\ i \in DOMAIN d[x] /\ e[x][i] = d[x][i]
          /\ j - Len(d[x]) \in DOMAIN chunk /\ e[x][j] = chunk[j - Len(d[x])]
      BY <1>2, <1>5, <2>2
    <3>2. e[x][i] \in OnDisk(d) /\ e[x][j] \in ToSet(chunk)
      BY <3>1, OnDiskHas DEF ToSet
    <3>3. QED
      BY <3>2
  <2>3. CASE ~(i <= Len(d[x])) /\ ~(j <= Len(d[x]))
    <3> DEFINE u == i - Len(d[x])
               v == j - Len(d[x])
    <3>1. u \in DOMAIN chunk /\ v \in DOMAIN chunk /\ u < v /\ e[x][i] = chunk[u] /\ e[x][j] = chunk[v]
      BY <1>2, <1>5, <2>3
    <3>2. QED
      BY <3>1
  <2>4. QED
    BY <1>2, <1>5, <2>1, <2>2, <2>3
<1>6. \A n \in DOMAIN d : n \in Nat
  BY DEF GoodDisk
<1>7. ASSUME NEW b \in DOMAIN d PROVE ~Older(c, x, b)
  BY <1>6 DEF Older
<1>8. InOrder(c, e)
  <2>1. ASSUME NEW n \in DOMAIN e, NEW i \in DOMAIN e[n], NEW j \in DOMAIN e[n], i < j
        PROVE  e[n][i] < e[n][j]
    BY <1>5, <2>1 DEF GoodDisk, InOrder
  <2>2. ASSUME NEW a \in DOMAIN e, NEW b \in DOMAIN e, Older(c, a, b),
               NEW k \in ToSet(e[a]), NEW l \in ToSet(e[b])
        PROVE  k < l
    <3>1. a # x /\ e[a] = d[a] /\ k \in OnDisk(d)
      BY <1>7, <2>2, OnDiskHas
    <3>2. CASE b # x \/ l \in ToSet(d[x])
      BY <2>2, <3>1, <3>2 DEF GoodDisk, InOrder
    <3>3. CASE b = x /\ l \in ToSet(chunk)
      BY <3>1, <3>3
    <3>4. QED
      BY <1>3, <3>2, <3>3
  <2>3. QED
    BY <2>1, <2>2 DEF InOrder
<1>9. GoodDisk(c, today, e)
  BY <1>1, <1>8 DEF GoodDisk
<1>10. ASSUME NEW b \in Nat, NEW m \in Nat, Behind(c, cur, d, b, m), \A k \in ToSet(chunk) : m < k
       PROVE  Behind(c, cur, e, b, m)
  <2>1. \A n \in DOMAIN e : Older(c, b, n) => \A k \in ToSet(e[n]) : m < k
    BY <1>3, <1>10 DEF Behind
  <2>2. QED
    BY <1>10, <2>1 DEF Behind
<1>11. QED
  BY <1>4, <1>9, <1>10 DEF Goes

-----------------------------------------------------------------------------
(* The rolling writer                                                      *)

IsReceiver(r) ==
    r = [w |-> r.w, buf |-> r.buf, disk |-> r.disk, reported |-> r.reported, ok |-> r.ok,
         rolled |-> r.rolled]
IsWriter(w) == w = [file |-> w.file, name |-> w.name, size |-> w.size]

GoodWriter(c, today, w, names) ==
    /\ IsWriter(w)
    /\ w.file \in {"nil", "open", "shut"} /\ w.name \in Nat /\ w.size \in Int
    /\ c.rolling = "size" => w.name = 0
    /\ c.rolling = "date" => w.name <= today
    /\ w.file = "open" => w.name \in names /\ \A n \in names : n = w.name \/ Older(c, n, w.name)
    /\ w.file = "shut" => NeedsToRoll(c, today, w)

GoodReceiver(c, today, r) ==
    /\ IsReceiver(r) /\ r.ok \in BOOLEAN /\ r.rolled \in BOOLEAN
    /\ GoodDisk(c, today, r.disk) /\ GoodWriter(c, today, r.w, DOMAIN r.disk)

\* A call begins no file but the current one without a roll, and a roll leaves maxRolls old
\* files and one it could not remove.
Bounded(c, cur, r, out, fault) ==
    \/ out.rolled = r.rolled /\ DOMAIN out.disk \ {cur} = DOMAIN r.disk \ {cur}
    \/ /\ out.rolled = TRUE
       /\ c.maxRolls > 0 => Cardinality(DOMAIN out.disk \ {cur})
                              <= c.maxRolls + IF fault = "none" THEN 0 ELSE 1

\* What a call of the rolling writer makes of r, where new gets into the files.
Does(c, today, r, out, new, fault) ==
    /\ GoodReceiver(c, today, out)
    /\ out.buf = r.buf /\ out.reported = r.reported
    /\ Goes(c, CurrentName(c, today), r.disk, out.disk, new)
    /\ Bounded(c, CurrentName(c, today), r, out, fault)

LEMMA CurrentType ==
  ASSUME NEW c, NEW today \in Nat
  PROVE  /\ CurrentName(c, today) \in Nat
         /\ c.rolling = "size" => CurrentName(c, today) = 0
         /\ c.rolling = "date" => CurrentName(c, today) = today
  BY DEF CurrentName

LEMMA ReceiverOf ==
  ASSUME NEW out, NEW w, NEW buf, NEW d, NEW rep, NEW ok, NEW rolled,
         out = [w |-> w, buf |-> buf, disk |-> d, reported |-> rep, ok |-> ok, rolled |-> rolled]
  PROVE  /\ IsReceiver(out)
         /\ out.w = w /\ out.buf = buf /\ out.disk = d /\ out.reported = rep
         /\ out.ok = ok /\ out.rolled = rolled
  BY DEF IsReceiver

LEMMA WriterOf ==
  ASSUME NEW w, NEW file, NEW name, NEW size, w = [file |-> file, name |-> name, size |-> size]
  PROVE  IsWriter(w) /\ w.file = file /\ w.name = name /\ w.size = size
  BY DEF IsWriter

LEMMA CreateDoes ==
  ASSUME NEW c, NEW today \in Nat, NEW r, NEW fault, GoodConf(c), GoodReceiver(c, today, r),
         r.ok, r.w.file # "open"
  PROVE  LET out == Create(c, today, r, fault) IN
         /\ Does(c, today, r, out, {}, fault)
         /\ out.ok => out.w.file = "open" /\ out.w.name = CurrentName(c, today)
         /\ out.rolled = r.rolled
         /\ DOMAIN out.disk \ {CurrentName(c, today)} = DOMAIN r.disk \ {CurrentName(c, today)}
<1> DEFINE out == Create(c, today, r, fault)
           cur == CurrentName(c, today)
           there == cur \in DOMAIN r.disk
<1>0. cur \in Nat /\ (c.rolling = "size" => cur = 0) /\ (c.rolling = "date" => cur = today)
  BY CurrentType
<1>a. /\ GoodDisk(c, today, r.disk) /\ GoodWriter(c, today, r.w, DOMAIN r.disk)
      /\ r.ok \in BOOLEAN /\ r.rolled \in BOOLEAN
  BY DEF GoodReceiver
<1>b. r = [w |-> r.w, buf |-> r.buf, disk |-> r.disk, reported |-> r.reported, ok |-> r.ok,
           rolled |-> r.rolled]
  BY DEF GoodReceiver, IsReceiver
<1>c. r.w = [file |-> r.w.file, name |-> r.w.name, size |-> r.w.size] /\ r.w.size \in Int
  BY <1>a DEF GoodWriter, IsWriter
<1> HIDE DEF cur
<1>1. CASE fault = "mkdir"
  <2>1. out = [r EXCEPT !.ok = FALSE]
    BY <1>1 DEF Create
  <2>2. out = [w |-> r.w, buf |-> r.buf, disk |-> r.disk, reported |-> r.reported, ok |-> FALSE,
               rolled |-> r.rolled]
    BY <1>b, <2>1
  <2> HIDE DEF out
  <2>3. /\ IsReceiver(out) /\ out.w = r.w /\ out.buf = r.buf /\ out.disk = r.disk
        /\ out.reported = r.reported /\ out.ok = FALSE /\ out.rolled = r.rolled
    BY <2>2, ReceiverOf
  <2>4. GoodReceiver(c, today, out)
    BY <1>a, <2>3 DEF GoodReceiver
  <2>5. Bounded(c, cur, r, out, fault)
    BY <2>3 DEF Bounded
  <2>6. Does(c, today, r, out, {}, fault)
    BY <2>3, <2>4, <2>5, GoesNowhere DEF Does, cur
  <2>7. QED
    BY <2>3, <2>6 DEF out
<1>2. CASE fault = "create"
  <2> DEFINE w == [file |-> "nil", name |-> cur, size |-> r.w.size]
  <2>1. out = [r EXCEPT !.ok = FALSE, !.w = w]
    BY <1>2 DEF Create, cur
  <2>3. out = [w |-> w, buf |-> r.buf, disk |-> r.disk, reported |-> r.reported, ok |-> FALSE,
               rolled |-> r.rolled]
    BY <1>b, <2>1
  <2>4. IsWriter(w) /\ w.file = "nil" /\ w.name = cur /\ w.size = r.w.size
    BY WriterOf
  <2> HIDE DEF out, w
  <2>5. /\ IsReceiver(out) /\ out.w = w /\ out.buf = r.buf /\ out.disk = r.disk
        /\ out.reported = r.reported /\ out.ok = FALSE /\ out.rolled = r.rolled
    BY <2>3, ReceiverOf
  <2>6. GoodWriter(c, today, w, DOMAIN r.disk)
    BY <1>0, <1>c, <2>4 DEF GoodWriter
  <2>7. GoodReceiver(c, today, out)
    BY <1>a, <2>5, <2>6 DEF GoodReceiver
  <2>8. Bounded(c, cur, r, out, fault)
    BY <2>5 DEF Bounded
  <2>9. Does(c, today, r, out, {}, fault)
    BY <2>5, <2>7, <2>8, GoesNowhere DEF Does, cur
  <2>10. QED
    BY <2>5, <2>9 DEF out
<1>3. CASE fault \notin {"mkdir", "create"}
  <2> DEFINE disk1 == Begun(r.disk, cur)
             size == Len(disk1[cur])
             w == [file |-> "open", name |-> cur, size |-> size]
  <2>1. out = [r EXCEPT !.w = w, !.disk = disk1]
    BY <1>3 DEF Create, cur
  <2>2. out = [w |-> w, buf |-> r.buf, disk |-> disk1, reported |-> r.reported, ok |-> r.ok,
               rolled |-> r.rolled]
    BY <1>b, <2>1
  <2>0. /\ DOMAIN disk1 = DOMAIN r.disk \cup {cur} /\ \A n \in DOMAIN r.disk : disk1[n] = r.disk[n]
        /\ ~there => disk1[cur] = <<>>
    BY DEF Begun
  <2>3. GoodDisk(c, today, disk1) /\ Goes(c, cur, r.disk, disk1, {}) /\ DOMAIN disk1 = DOMAIN r.disk \cup {cur}
    <3>1. CASE there
      <4>1. disk1 = r.disk
        BY <3>1 DEF Begun
      <4>2. QED
        BY <1>a, <2>0, <4>1, GoesNowhere
    <3>2. CASE ~there
      <4>1. disk1[cur] = <<>> /\ cur \notin DOMAIN r.disk
        BY <2>0, <3>2
      <4>2. c.rolling = "date" => cur <= today
        BY <1>0
      <4> HIDE DEF disk1, there
      <4>3. GoodDisk(c, today, disk1) /\ Goes(c, cur, r.disk, disk1, {})
        BY <1>0, <1>a, <2>0, <4>1, <4>2, BeginFile
      <4>4. QED
        BY <2>0, <4>3
    <3>3. QED
      BY <3>1, <3>2
  <2>4. size \in Int
    <3>1. disk1[cur] \in Seq(Nat)
      BY <2>0, <2>3 DEF GoodDisk
    <3>2. QED
      BY <3>1, LenProperties
  <2> HIDE DEF disk1, size
  <2>5. IsWriter(w) /\ w.file = "open" /\ w.name = cur /\ w.size = size
    BY WriterOf
  <2> HIDE DEF out, w
  <2>6. /\ IsReceiver(out) /\ out.w = w /\ out.buf = r.buf /\ out.disk = disk1
        /\ out.reported = r.reported /\ out.ok = r.ok /\ out.rolled = r.rolled
    BY <2>2, ReceiverOf
  <2>7. \A n \in DOMAIN disk1 : n = cur \/ Older(c, n, cur)
    BY <1>0, <2>3 DEF GoodDisk, Older, GoodConf
  <2>8. GoodWriter(c, today, w, DOMAIN disk1)
    BY <1>0, <2>3, <2>4, <2>5, <2>7 DEF GoodWriter
  <2>9. GoodReceiver(c, today, out)
    BY <1>a, <2>3, <2>6, <2>8 DEF GoodReceiver
  <2>10. Bounded(c, cur, r, out, fault)
    BY <2>3, <2>6 DEF Bounded
  <2>11. Does(c, today, r, out, {}, fault)
    BY <2>3, <2>6, <2>9, <2>10 DEF Does, cur
  <2>12. DOMAIN out.disk \ {cur} = DOMAIN r.disk \ {cur}
    BY <2>3, <2>6
  <2>13. QED
    BY <2>5, <2>6, <2>11, <2>12 DEF out, cur
<1>4. QED
  BY <1>1, <1>2, <1>3 DEF cur

LEMMA ShutOf ==
  ASSUME NEW r, IsReceiver(r), IsWriter(r.w)
  PROVE  Shut(r) = [w |-> [file |-> "shut", name |-> r.w.name, size |-> r.w.size], buf |-> r.buf,
                    disk |-> r.disk, reported |-> r.reported, ok |-> r.ok, rolled |-> r.rolled]
<1>1. r = [w |-> r.w, buf |-> r.buf, disk |-> r.disk, reported |-> r.reported, ok |-> r.ok,
           rolled |-> r.rolled]
  BY DEF IsReceiver
<1>2. r.w = [file |-> r.w.file, name |-> r.w.name, size |-> r.w.size]
  BY DEF IsWriter
<1>3. [r.w EXCEPT !.file = "shut"] = [file |-> "shut", name |-> r.w.name, size |-> r.w.size]
  BY <1>2
<1>4. Shut(r) = [r EXCEPT !.w = [r.w EXCEPT !.file = "shut"]]
  BY DEF Shut
<1>5. QED
  BY <1>1, <1>3, <1>4

\* The files of a writer that rolls, before a new one is begun.
LEMMA RolledFiles ==
  ASSUME NEW c, NEW today \in Nat, NEW r, NEW fault, GoodConf(c), GoodReceiver(c, today, r),
         r.w.file = "open", NeedsToRoll(c, today, r.w),
         NEW name, name = RolledName(c, r),
         NEW e, e = RemoveFiles(Renamed(c, r, name), TooOld(c, History(r) \cup {name}, fault))
  PROVE  /\ GoodDisk(c, today, e) /\ Goes(c, CurrentName(c, today), r.disk, e, {})
         /\ CurrentName(c, today) \notin DOMAIN e
         /\ c.maxRolls > 0 =>
              Cardinality(DOMAIN e) <= c.maxRolls + IF fault = "none" THEN 0 ELSE 1
<1> DEFINE d == r.disk
           e1 == Renamed(c, r, name)
           cur == CurrentName(c, today)
<1>1. /\ GoodDisk(c, today, d) /\ r.w.name \in DOMAIN d /\ r.w.name \in Nat
      /\ \A n \in DOMAIN d : n \in Nat /\ (n = r.w.name \/ Older(c, n, r.w.name))
      /\ IsFiniteSet(DOMAIN d)
      /\ (c.rolling = "size" => r.w.name = 0) /\ (c.rolling = "date" => r.w.name <= today)
  BY DEF GoodReceiver, GoodWriter, GoodDisk
<1>2. cur \in Nat /\ (c.rolling = "size" => cur = 0) /\ (c.rolling = "date" => cur = today)
  BY CurrentType
<1> HIDE DEF cur
<1>3. /\ GoodDisk(c, today, e1) /\ Goes(c, cur, d, e1, {})
      /\ cur \notin DOMAIN e1 /\ DOMAIN e1 = History(r) \cup {name}
  <2>1. CASE c.rolling = "size"
    <3>1. cur = 0 /\ r.w.name = 0 /\ History(r) = DOMAIN d \ {0} /\ 0 \in DOMAIN d
      BY <1>1, <1>2, <2>1 DEF History
    <3>2. name \in Nat \ {0} /\ \A n \in DOMAIN d : n < name
      <4>1. CASE History(r) = {}
        <5>1. name = 1
          BY <2>1, <4>1 DEF RolledName
        <5>2. \A n \in DOMAIN d : n = 0
          BY <3>1, <4>1
        <5>3. QED
          BY <5>1, <5>2
      <4>2. CASE History(r) # {}
        <5>1. History(r) \in SUBSET Nat /\ IsFiniteSet(History(r))
          BY <1>1, <3>1, FS_RemoveElement
        <5>2. \E x \in History(r) : \A y \in History(r) : y <= x
          BY <4>2, <5>1, FiniteMax
        <5> DEFINE x == Max(History(r))
        <5>3. x \in History(r) /\ \A y \in History(r) : x >= y
          <6>1. \E z \in History(r) : \A y \in History(r) : z >= y
            BY <5>1, <5>2
          <6>2. QED
            BY <6>1 DEF Max
        <5>4. name = x + 1
          BY <2>1, <4>2 DEF RolledName
        <5> HIDE DEF x
        <5>5. x \in Nat
          BY <5>1, <5>3
        <5>6. ASSUME NEW n \in DOMAIN d PROVE n < name
          <6>1. n = 0 \/ n \in History(r)
            BY <3>1
          <6>2. n \in Nat /\ n <= x
            BY <1>1, <5>3, <5>5, <6>1
          <6>3. QED
            BY <5>4, <5>5, <6>2
        <5>7. QED
          BY <5>4, <5>5, <5>6
      <4>3. QED
        BY <4>1, <4>2
    <3>3. e1 = [n \in (DOMAIN d \ {0}) \cup {name} |-> IF n = name THEN d[0] ELSE d[n]]
      BY <2>1, <3>1 DEF Renamed
    <3>4. /\ DOMAIN e1 = (DOMAIN d \ {0}) \cup {name} /\ e1[name] = d[0]
          /\ \A n \in DOMAIN d \ {0} : e1[n] = d[n]
      <4>1. \A n \in DOMAIN d : n # name
        BY <1>1, <3>2
      <4> HIDE DEF e1
      <4>2. QED
        BY <3>3, <4>1
    <3>5. c.maxRolls \in Int
      BY DEF GoodConf
    <3> HIDE DEF e1, d
    <3>6. GoodDisk(c, today, e1) /\ Goes(c, 0, d, e1, {})
      BY <1>1, <2>1, <3>1, <3>2, <3>4, <3>5, RenameFile
    <3>7. QED
      BY <3>1, <3>2, <3>4, <3>6
  <2>2. CASE c.rolling = "date"
    <3>1. e1 = d /\ name = r.w.name /\ cur = today
      BY <1>2, <2>2 DEF Renamed, RolledName
    <3>2. r.w.name # today
      BY <2>2 DEF NeedsToRoll
    <3>3. r.w.name < today
      BY <1>1, <2>2, <3>2
    <3>4. \A n \in DOMAIN d : n < today
      <4>1. \A n \in DOMAIN d : n \in Nat /\ (n = r.w.name \/ n < r.w.name)
        BY <1>1, <2>2 DEF Older
      <4>2. QED
        BY <1>1, <3>3, <4>1
    <3>5. today \notin DOMAIN d
      BY <3>4
    <3>6. DOMAIN d = History(r) \cup {name}
      BY <1>1, <3>1 DEF History
    <3> HIDE DEF e1
    <3>7. Goes(c, cur, d, d, {})
      BY GoesNowhere
    <3>8. QED
      BY <1>1, <3>1, <3>5, <3>6, <3>7
  <2>3. QED
    BY <2>1, <2>2 DEF GoodConf
<1> HIDE DEF e1
<1>4. e = RemoveFiles(e1, TooOld(c, DOMAIN e1, fault))
  BY <1>3 DEF e1
<1>5. /\ GoodDisk(c, today, e) /\ Goes(c, cur, e1, e, {}) /\ DOMAIN e \subseteq DOMAIN e1
      /\ c.maxRolls > 0 =>
           Cardinality(DOMAIN e) <= c.maxRolls + IF fault = "none" THEN 0 ELSE 1
  BY <1>2, <1>3, <1>4, DeleteOldFiles
<1>6. OnDisk(d) \subseteq Nat
  BY <1>1, OnDiskNat
<1>7. Goes(c, cur, d, e, {})
  BY <1>3, <1>5, <1>6, GoesTwice
<1>8. QED
  BY <1>3, <1>5, <1>7 DEF cur

LEMMA RolledOf ==
  ASSUME NEW r, IsReceiver(r), IsWriter(r.w), NEW e, NEW mid, mid = Rolled(r, e)
  PROVE  /\ IsReceiver(mid) /\ IsWriter(mid.w)
         /\ mid.w.file = "shut" /\ mid.w.name = r.w.name /\ mid.w.size = r.w.size
         /\ mid.buf = r.buf /\ mid.disk = e /\ mid.reported = r.reported
         /\ mid.ok = r.ok /\ mid.rolled = TRUE
<1> DEFINE s == Shut(r)
           w == [file |-> "shut", name |-> r.w.name, size |-> r.w.size]
           yes == TRUE
           mid1 == [w |-> w, buf |-> r.buf, disk |-> e, reported |-> r.reported, ok |-> r.ok,
                    rolled |-> r.rolled]
           mid2 == [w |-> w, buf |-> r.buf, disk |-> e, reported |-> r.reported, ok |-> r.ok,
                    rolled |-> yes]
<1>1. IsWriter(w) /\ w.file = "shut" /\ w.name = r.w.name /\ w.size = r.w.size
  BY WriterOf
<1>2. s = [w |-> w, buf |-> r.buf, disk |-> r.disk, reported |-> r.reported, ok |-> r.ok,
           rolled |-> r.rolled]
  BY ShutOf
<1>3. mid = [[s EXCEPT !.disk = e] EXCEPT !.rolled = yes]
  BY Zenon DEF Rolled
<1> HIDE DEF s, w, yes
<1>4. [s EXCEPT !.disk = e] = mid1
  BY <1>2
<1>5. [mid1 EXCEPT !.rolled = yes] = mid2
  OBVIOUS
<1> HIDE DEF mid1, mid2
<1>6. mid = mid2
  BY <1>3, <1>4, <1>5, Zenon
<1>7. /\ IsReceiver(mid) /\ mid.w = w /\ mid.buf = r.buf /\ mid.disk = e
      /\ mid.reported = r.reported /\ mid.ok = r.ok /\ mid.rolled = yes
  BY <1>6, ReceiverOf DEF mid2
<1>8. QED
  BY <1>1, <1>7 DEF yes

LEMMA RollDoes ==
  ASSUME NEW c, NEW today \in Nat, NEW r, NEW fault, GoodConf(c), GoodReceiver(c, today, r),
         r.ok, r.w.file # "nil", NeedsToRoll(c, today, r.w)
  PROVE  LET out == Roll(c, today, r, fault) IN
         /\ Does(c, today, r, out, {}, fault)
         /\ out.ok => out.w.file = "open" /\ out.w.name = CurrentName(c, today)
<1> DEFINE out == Roll(c, today, r, fault)
           cur == CurrentName(c, today)
           name == RolledName(c, r)
           disk1 == RemoveFiles(Renamed(c, r, name), TooOld(c, History(r) \cup {name}, fault))
           w == [file |-> "shut", name |-> r.w.name, size |-> r.w.size]
           shut == Shut(r)
<1>1. /\ GoodDisk(c, today, r.disk) /\ GoodWriter(c, today, r.w, DOMAIN r.disk)
      /\ r.ok \in BOOLEAN /\ r.rolled \in BOOLEAN /\ IsReceiver(r)
  BY DEF GoodReceiver
<1>2. r = [w |-> r.w, buf |-> r.buf, disk |-> r.disk, reported |-> r.reported, ok |-> r.ok,
           rolled |-> r.rolled]
  BY <1>1 DEF IsReceiver
<1>3. IsWriter(w) /\ w.file = "shut" /\ w.name = r.w.name /\ w.size = r.w.size
  BY WriterOf
<1>4. shut = [w |-> w, buf |-> r.buf, disk |-> r.disk, reported |-> r.reported, ok |-> r.ok,
              rolled |-> r.rolled]
  BY <1>1, ShutOf DEF GoodWriter
<1> HIDE DEF w, shut
<1>5. \A names : GoodWriter(c, today, w, names)
  BY <1>1, <1>3 DEF GoodWriter, NeedsToRoll
<1>6. CASE r.w.file = "shut"
  <2>1. out = [w |-> r.w, buf |-> r.buf, disk |-> r.disk, reported |-> r.reported, ok |-> FALSE,
               rolled |-> r.rolled]
    BY <1>2, <1>6 DEF Roll
  <2> HIDE DEF out
  <2>2. /\ IsReceiver(out) /\ out.w = r.w /\ out.buf = r.buf /\ out.disk = r.disk
        /\ out.reported = r.reported /\ out.ok = FALSE /\ out.rolled = r.rolled
    BY <2>1, ReceiverOf
  <2>3. GoodReceiver(c, today, out) /\ Bounded(c, cur, r, out, fault)
    BY <1>1, <2>2 DEF GoodReceiver, Bounded
  <2>4. Does(c, today, r, out, {}, fault)
    BY <2>2, <2>3, GoesNowhere DEF Does
  <2>5. QED
    BY <2>2, <2>4 DEF out
<1>7. CASE r.w.file # "shut" /\ (fault = "list" \/ (fault = "rename" /\ c.rolling = "size"))
  <2>1. out = [shut EXCEPT !.ok = FALSE]
    BY <1>7 DEF Roll, shut
  <2>2. out = [w |-> w, buf |-> r.buf, disk |-> r.disk, reported |-> r.reported, ok |-> FALSE,
               rolled |-> r.rolled]
    BY <1>4, <2>1
  <2> HIDE DEF out
  <2>3. /\ IsReceiver(out) /\ out.w = w /\ out.buf = r.buf /\ out.disk = r.disk
        /\ out.reported = r.reported /\ out.ok = FALSE /\ out.rolled = r.rolled
    BY <2>2, ReceiverOf
  <2>4. GoodReceiver(c, today, out) /\ Bounded(c, cur, r, out, fault)
    BY <1>1, <1>5, <2>3 DEF GoodReceiver, Bounded
  <2>5. Does(c, today, r, out, {}, fault)
    BY <2>3, <2>4, GoesNowhere DEF Does
  <2>6. QED
    BY <2>3, <2>5 DEF out
<1>8. CASE r.w.file # "shut" /\ ~(fault = "list" \/ (fault = "rename" /\ c.rolling = "size"))
  <2> DEFINE mid == Rolled(r, disk1)
  <2>1. out = Create(c, today, mid, fault)
    BY <1>8 DEF Roll
  <2>2. r.w.file = "open"
    BY <1>1, <1>8 DEF GoodWriter
  <2>3. /\ GoodDisk(c, today, disk1) /\ Goes(c, cur, r.disk, disk1, {})
        /\ cur \notin DOMAIN disk1
        /\ c.maxRolls > 0 =>
             Cardinality(DOMAIN disk1) <= c.maxRolls + IF fault = "none" THEN 0 ELSE 1
    BY <2>2, RolledFiles
  <2> HIDE DEF disk1
  <2>5. /\ IsReceiver(mid) /\ IsWriter(mid.w)
        /\ mid.w.file = "shut" /\ mid.w.name = r.w.name /\ mid.w.size = r.w.size
        /\ mid.buf = r.buf /\ mid.disk = disk1 /\ mid.reported = r.reported
        /\ mid.ok = r.ok /\ mid.rolled = TRUE
    BY <1>1, RolledOf DEF GoodWriter
  <2> HIDE DEF mid
  <2>6. GoodReceiver(c, today, mid)
    <3>1. GoodWriter(c, today, mid.w, DOMAIN disk1)
      BY <1>1, <2>5 DEF GoodWriter, NeedsToRoll
    <3>2. QED
      BY <1>1, <2>3, <2>5, <3>1 DEF GoodReceiver
  <2>7. mid.ok /\ mid.w.file # "open"
    BY <1>3, <2>5
  <2> HIDE DEF out, cur
  <2>8. /\ Does(c, today, mid, out, {}, fault)
        /\ out.ok => out.w.file = "open" /\ out.w.name = cur
        /\ out.rolled = TRUE /\ DOMAIN out.disk \ {cur} = DOMAIN disk1 \ {cur}
    BY <2>1, <2>5, <2>6, <2>7, CreateDoes DEF cur
  <2>9. OnDisk(r.disk) \subseteq Nat
    BY <1>1, OnDiskNat
  <2>10. Goes(c, cur, disk1, out.disk, {})
    BY <2>5, <2>8 DEF Does, cur
  <2>11. Goes(c, cur, r.disk, out.disk, {})
    BY <2>3, <2>9, <2>10, GoesTwice
  <2>12. DOMAIN out.disk \ {cur} = DOMAIN disk1
    BY <2>3, <2>8
  <2>13. Bounded(c, cur, r, out, fault)
    BY <2>3, <2>8, <2>12 DEF Bounded
  <2>14. Does(c, today, r, out, {}, fault)
    BY <2>5, <2>8, <2>11, <2>13 DEF Does, cur
  <2>15. QED
    BY <2>8, <2>14 DEF out, cur
<1>9. QED
  BY <1>6, <1>7, <1>8 DEF cur

LEMMA BoundedTwice ==
  ASSUME NEW c, NEW cur, NEW r, NEW s, NEW out, NEW fault,
         Bounded(c, cur, r, s, fault), Bounded(c, cur, s, out, fault)
  PROVE  Bounded(c, cur, r, out, fault)
<1>1. CASE out.rolled = s.rolled /\ DOMAIN out.disk \ {cur} = DOMAIN s.disk \ {cur}
  BY <1>1 DEF Bounded
<1>2. CASE ~(out.rolled = s.rolled /\ DOMAIN out.disk \ {cur} = DOMAIN s.disk \ {cur})
  BY <1>2 DEF Bounded
<1>3. QED
  BY <1>1, <1>2

LEMMA DoesTwice ==
  ASSUME NEW c, NEW today, NEW r, NEW s, NEW out, NEW new, NEW fault,
         Does(c, today, r, s, {}, fault), Does(c, today, s, out, new, fault),
         OnDisk(r.disk) \subseteq Nat, \A k \in OnDisk(r.disk), l \in new : k < l
  PROVE  Does(c, today, r, out, new, fault)
<1> DEFINE cur == CurrentName(c, today)
<1>1. Bounded(c, cur, r, out, fault)
  BY BoundedTwice DEF Does
<1>2. Goes(c, cur, r.disk, out.disk, new)
  <2>1. Goes(c, cur, r.disk, s.disk, {}) /\ Goes(c, cur, s.disk, out.disk, new)
    BY DEF Does
  <2> HIDE DEF cur
  <2>2. QED
    BY <2>1, GoesTwice
<1>3. QED
  BY <1>1, <1>2 DEF Does

LEMMA DoesNothing ==
  ASSUME NEW c, NEW today, NEW r, NEW fault, GoodReceiver(c, today, r)
  PROVE  Does(c, today, r, r, {}, fault)
  BY GoesNowhere DEF Does, Bounded

\* The answer of the last call is no part of what a receiver is.
LEMMA AnswerOf ==
  ASSUME NEW r, IsReceiver(r), NEW a, NEW s, s = [r EXCEPT !.ok = a]
  PROVE  /\ IsReceiver(s) /\ s.ok = a /\ s.w = r.w /\ s.buf = r.buf /\ s.disk = r.disk
         /\ s.reported = r.reported /\ s.rolled = r.rolled
<1>1. r = [w |-> r.w, buf |-> r.buf, disk |-> r.disk, reported |-> r.reported, ok |-> r.ok,
           rolled |-> r.rolled]
  BY DEF IsReceiver
<1>2. s = [w |-> r.w, buf |-> r.buf, disk |-> r.disk, reported |-> r.reported, ok |-> a,
           rolled |-> r.rolled]
  BY <1>1
<1>3. QED
  BY <1>2, ReceiverOf

LEMMA AnswerDoes ==
  ASSUME NEW c, NEW today, NEW r, GoodReceiver(c, today, r), NEW a \in BOOLEAN, NEW fault
  PROVE  LET s == [r EXCEPT !.ok = a] IN
         /\ Does(c, today, r, s, {}, fault) /\ s.ok = a
         /\ s.w = r.w /\ s.buf = r.buf /\ s.disk = r.disk /\ s.reported = r.reported
<1> DEFINE s == [r EXCEPT !.ok = a]
<1>1. /\ IsReceiver(s) /\ s.ok = a /\ s.w = r.w /\ s.buf = r.buf /\ s.disk = r.disk
      /\ s.reported = r.reported /\ s.rolled = r.rolled
  BY AnswerOf DEF GoodReceiver
<1> HIDE DEF s
<1>2. GoodReceiver(c, today, s)
  BY <1>1 DEF GoodReceiver
<1>3. Does(c, today, r, s, {}, fault)
  BY <1>1, <1>2, GoesNowhere DEF Does, Bounded
<1>4. QED
  BY <1>1, <1>3 DEF s

LEMMA GrownOf ==
  ASSUME NEW r, IsReceiver(r), IsWriter(r.w), NEW chunk
  PROVE  LET s == Grown(r, chunk) IN
         /\ IsReceiver(s) /\ IsWriter(s.w)
         /\ s.w.file = r.w.file /\ s.w.name = r.w.name /\ s.w.size = r.w.size + Len(chunk)
         /\ s.buf = r.buf /\ s.disk = r.disk /\ s.reported = r.reported /\ s.ok = r.ok
         /\ s.rolled = r.rolled
<1> DEFINE s == Grown(r, chunk)
           w == [file |-> r.w.file, name |-> r.w.name, size |-> r.w.size + Len(chunk)]
<1>1. IsWriter(w) /\ w.file = r.w.file /\ w.name = r.w.name /\ w.size = r.w.size + Len(chunk)
  BY WriterOf
<1>2. r = [w |-> r.w, buf |-> r.buf, disk |-> r.disk, reported |-> r.reported, ok |-> r.ok,
           rolled |-> r.rolled]
  BY DEF IsReceiver
<1>3. r.w = [file |-> r.w.file, name |-> r.w.name, size |-> r.w.size]
  BY DEF IsWriter
<1>4. [r.w EXCEPT !.size = r.w.size + Len(chunk)] = w
  BY <1>3
<1>5. s = [r EXCEPT !.w = [r.w EXCEPT !.size = r.w.size + Len(chunk)]]
  BY DEF Grown
<1> HIDE DEF s, w
<1>6. s = [w |-> w, buf |-> r.buf, disk |-> r.disk, reported |-> r.reported, ok |-> r.ok,
           rolled |-> r.rolled]
  BY <1>2, <1>4, <1>5
<1>7. /\ IsReceiver(s) /\ s.w = w /\ s.buf = r.buf /\ s.disk = r.disk
      /\ s.reported = r.reported /\ s.ok = r.ok /\ s.rolled = r.rolled
  BY <1>6, ReceiverOf
<1>8. QED
  BY <1>1, <1>7 DEF s

GoodChunk(r, chunk) ==
    /\ chunk \in Seq(Nat) /\ \A i, j \in DOMAIN chunk : i < j => chunk[i] < chunk[j]
    /\ \A k \in OnDisk(r.disk), l \in ToSet(chunk) : k < l

\* An open file grows by a chunk, or the writing of it fails.
LEMMA GrownDoes ==
  ASSUME NEW c, NEW today \in Nat, NEW r, NEW s, NEW chunk, NEW fault, GoodConf(c),
         GoodReceiver(c, today, r), r.w.file = "open", IsReceiver(s), s.ok \in BOOLEAN,
         s.w = r.w, s.buf = r.buf, s.reported = r.reported, s.rolled = r.rolled,
         GoodDisk(c, today, s.disk), DOMAIN s.disk = DOMAIN r.disk, Len(chunk) \in Nat,
         NEW new, Goes(c, CurrentName(c, today), r.disk, s.disk, new)
  PROVE  LET out == Grown(s, chunk) IN Does(c, today, r, out, new, fault) /\ out.ok = s.ok
<1> DEFINE out == Grown(s, chunk)
<1>1. /\ GoodWriter(c, today, r.w, DOMAIN s.disk) /\ IsWriter(s.w) /\ r.rolled \in BOOLEAN
      /\ r.w.size \in Int
  BY DEF GoodReceiver, GoodWriter
<1>2. /\ IsReceiver(out) /\ IsWriter(out.w)
      /\ out.w.file = r.w.file /\ out.w.name = r.w.name /\ out.w.size = r.w.size + Len(chunk)
      /\ out.buf = r.buf /\ out.disk = s.disk /\ out.reported = r.reported /\ out.ok = s.ok
      /\ out.rolled = r.rolled
  <2>1. /\ IsReceiver(out) /\ IsWriter(out.w)
        /\ out.w.file = s.w.file /\ out.w.name = s.w.name /\ out.w.size = s.w.size + Len(chunk)
        /\ out.buf = s.buf /\ out.disk = s.disk /\ out.reported = s.reported /\ out.ok = s.ok
        /\ out.rolled = s.rolled
    BY <1>1, GrownOf
  <2> HIDE DEF out
  <2>2. QED
    BY <2>1
<1> HIDE DEF out
<1>3. GoodWriter(c, today, out.w, DOMAIN s.disk)
  <2>1. out.w.size \in Int
    BY <1>1, <1>2
  <2>2. QED
    BY <1>1, <1>2, <2>1 DEF GoodWriter
<1>4. GoodReceiver(c, today, out)
  BY <1>1, <1>2, <1>3 DEF GoodReceiver
<1>5. Does(c, today, r, out, new, fault)
  BY <1>2, <1>4 DEF Does, Bounded
<1>6. QED
  BY <1>2, <1>5 DEF out

LEMMA WriteChunkDoes ==
  ASSUME NEW c, NEW today \in Nat, NEW r, NEW chunk, NEW fault, GoodConf(c),
         GoodReceiver(c, today, r), r.ok => r.w.file = "open", GoodChunk(r, chunk)
  PROVE  LET out == WriteChunk(r, chunk, fault) IN
         Does(c, today, r, out, IF out.ok THEN ToSet(chunk) ELSE {}, fault) /\ out.ok \in BOOLEAN
<1> DEFINE out == WriteChunk(r, chunk, fault)
<1>0. Len(chunk) \in Nat /\ r.ok \in BOOLEAN /\ GoodDisk(c, today, r.disk)
  BY LenProperties DEF GoodChunk, GoodReceiver
<1>1. CASE ~r.ok
  <2>1. out = r
    BY <1>1 DEF WriteChunk
  <2> HIDE DEF out
  <2>2. QED
    BY <1>0, <1>1, <2>1, DoesNothing DEF out
<1>2. CASE r.ok /\ fault = "write"
  <2> DEFINE s == [r EXCEPT !.ok = FALSE]
  <2>1. out = Grown(s, chunk)
    BY <1>2 DEF WriteChunk
  <2>2. /\ IsReceiver(s) /\ s.ok = FALSE /\ s.w = r.w /\ s.buf = r.buf /\ s.disk = r.disk
        /\ s.reported = r.reported /\ s.rolled = r.rolled
    BY AnswerOf DEF GoodReceiver
  <2> HIDE DEF out, s
  <2>3. Goes(c, CurrentName(c, today), r.disk, s.disk, {})
    BY <2>2, GoesNowhere
  <2>4. Does(c, today, r, out, {}, fault) /\ out.ok = FALSE
    <3>1. /\ GoodDisk(c, today, s.disk) /\ DOMAIN s.disk = DOMAIN r.disk /\ s.ok \in BOOLEAN
          /\ r.w.file = "open"
      BY <1>0, <1>2, <2>2
    <3>2. Does(c, today, r, Grown(s, chunk), {}, fault) /\ Grown(s, chunk).ok = s.ok
      BY <1>0, <2>2, <2>3, <3>1, GrownDoes
    <3>3. QED
      BY <2>1, <2>2, <3>2
  <2>5. QED
    BY <2>4 DEF out
<1>3. CASE r.ok /\ fault # "write"
  <2> DEFINE x == r.w.name
             disk1 == [r.disk EXCEPT ![x] = r.disk[x] \o chunk]
             s == [r EXCEPT !.disk[r.w.name] = @ \o chunk]
  <2>1. out = Grown(s, chunk)
    BY <1>3 DEF WriteChunk
  <2>2. /\ x \in DOMAIN r.disk /\ \A n \in DOMAIN r.disk : n = x \/ Older(c, n, x)
    BY <1>3 DEF GoodReceiver, GoodWriter
  <2>3. /\ DOMAIN disk1 = DOMAIN r.disk /\ disk1[x] = r.disk[x] \o chunk
        /\ \A n \in DOMAIN r.disk : n # x => disk1[n] = r.disk[n]
    BY <2>2
  <2>4. r = [w |-> r.w, buf |-> r.buf, disk |-> r.disk, reported |-> r.reported, ok |-> r.ok,
             rolled |-> r.rolled]
    BY DEF GoodReceiver, IsReceiver
  <2>5. s = [r EXCEPT !.disk = disk1]
    OBVIOUS
  <2> HIDE DEF out, s, disk1
  <2>6. s = [w |-> r.w, buf |-> r.buf, disk |-> disk1, reported |-> r.reported, ok |-> r.ok,
             rolled |-> r.rolled]
    BY <2>4, <2>5
  <2>7. /\ IsReceiver(s) /\ s.ok = r.ok /\ s.w = r.w /\ s.buf = r.buf /\ s.disk = disk1
        /\ s.reported = r.reported /\ s.rolled = r.rolled
    BY <2>6, ReceiverOf
  <2> HIDE DEF x
  <2>8. GoodDisk(c, today, disk1) /\ Goes(c, CurrentName(c, today), r.disk, disk1, ToSet(chunk))
    BY <1>0, <2>2, <2>3, ExtendFile DEF GoodChunk, GoodConf
  <2>9. Does(c, today, r, out, ToSet(chunk), fault) /\ out.ok = r.ok
    <3>1. /\ GoodDisk(c, today, s.disk) /\ DOMAIN s.disk = DOMAIN r.disk /\ s.ok \in BOOLEAN
          /\ r.w.file = "open" /\ Goes(c, CurrentName(c, today), r.disk, s.disk, ToSet(chunk))
      BY <1>0, <1>3, <2>3, <2>7, <2>8
    <3>2. Does(c, today, r, Grown(s, chunk), ToSet(chunk), fault) /\ Grown(s, chunk).ok = s.ok
      BY <1>0, <2>7, <3>1, GrownDoes
    <3>3. QED
      BY <2>1, <2>7, <3>2
  <2>10. QED
    BY <1>3, <2>9 DEF out
<1>4. QED
  BY <1>0, <1>1, <1>2, <1>3

LEMMA RollingWriteDoes ==
  ASSUME NEW c, NEW today \in Nat, NEW r, NEW chunk, NEW fault, GoodConf(c),
         GoodReceiver(c, today, r), GoodChunk(r, chunk)
  PROVE  LET out == RollingWrite(c, today, r, chunk, fault) IN
         Does(c, today, r, out, IF out.ok THEN ToSet(chunk) ELSE {}, fault) /\ out.ok \in BOOLEAN
<1> DEFINE r0 == [r EXCEPT !.ok = TRUE]
           r1 == Opened(c, today, r0, fault)
           r2 == RolledIfNeeded(c, today, r1, fault)
           out == WriteChunk(r2, chunk, fault)
           new == IF out.ok THEN ToSet(chunk) ELSE {}
<1>0. OnDisk(r.disk) \subseteq Nat /\ \A k \in OnDisk(r.disk), l \in ToSet(chunk) : k < l
  BY OnDiskNat DEF GoodChunk, GoodReceiver
<1>1. Does(c, today, r, r0, {}, fault) /\ r0.ok
  BY AnswerDoes
<1>2. RollingWrite(c, today, r, chunk, fault) = out
  BY DEF RollingWrite
<1>3. GoodReceiver(c, today, r0) /\ GoodWriter(c, today, r0.w, DOMAIN r0.disk)
  BY <1>1 DEF Does, GoodReceiver
<1> HIDE DEF r0
<1>4. Does(c, today, r0, r1, {}, fault) /\ (r1.ok => r1.w.file # "nil")
  <2>1. CASE r0.w.file = "nil"
    <3>1. r1 = Create(c, today, r0, fault)
      BY <2>1 DEF Opened
    <3>2. Does(c, today, r0, Create(c, today, r0, fault), {}, fault)
            /\ (Create(c, today, r0, fault).ok => Create(c, today, r0, fault).w.file = "open")
      BY <1>1, <1>3, <2>1, CreateDoes
    <3>3. QED
      BY <3>1, <3>2
  <2>2. CASE r0.w.file # "nil"
    <3>1. r1 = r0
      BY <2>2 DEF Opened
    <3>2. QED
      BY <1>3, <2>2, <3>1, DoesNothing
  <2>3. QED
    BY <2>1, <2>2
<1> HIDE DEF r1
<1>5. GoodReceiver(c, today, r1)
  BY <1>4 DEF Does
<1>6. Does(c, today, r1, r2, {}, fault) /\ (r2.ok => r2.w.file = "open")
  <2>1. CASE r1.ok /\ NeedsToRoll(c, today, r1.w)
    <3>1. r2 = Roll(c, today, r1, fault)
      BY <2>1 DEF RolledIfNeeded
    <3>2. Does(c, today, r1, Roll(c, today, r1, fault), {}, fault)
            /\ (Roll(c, today, r1, fault).ok => Roll(c, today, r1, fault).w.file = "open")
      BY <1>4, <1>5, <2>1, RollDoes
    <3>3. QED
      BY <3>1, <3>2
  <2>2. CASE ~(r1.ok /\ NeedsToRoll(c, today, r1.w))
    <3>1. r2 = r1
      BY <2>2 DEF RolledIfNeeded
    <3>2. r1.ok => r1.w.file = "open"
      BY <1>4, <1>5, <2>2 DEF GoodReceiver, GoodWriter
    <3>3. Does(c, today, r1, r1, {}, fault)
      BY <1>5, DoesNothing
    <3> HIDE DEF r2
    <3>4. QED
      BY <3>1, <3>2, <3>3
  <2>3. QED
    BY <2>1, <2>2
<1> HIDE DEF r2
<1>7. Does(c, today, r, r1, {}, fault)
  BY <1>0, <1>1, <1>4, DoesTwice
<1>8. Does(c, today, r, r2, {}, fault)
  BY <1>0, <1>6, <1>7, DoesTwice
<1>9. GoodReceiver(c, today, r2) /\ OnDisk(r2.disk) \subseteq OnDisk(r.disk)
  BY <1>8 DEF Does, Goes
<1>10. GoodChunk(r2, chunk)
  BY <1>9 DEF GoodChunk
<1>11. Does(c, today, r2, out, new, fault) /\ out.ok \in BOOLEAN
  BY <1>6, <1>9, <1>10, WriteChunkDoes
<1> HIDE DEF out
<1>12. \A k \in OnDisk(r.disk), l \in new : k < l
  BY <1>0
<1> HIDE DEF new
<1>13. Does(c, today, r, out, new, fault)
  BY <1>0, <1>8, <1>11, <1>12, DoesTwice
<1>14. QED
  BY <1>2, <1>11, <1>13 DEF new

-----------------------------------------------------------------------------
(* The buffer                                                              *)

GoodBuffer(c, r) ==
    /\ r.buf = [data |-> r.buf.data, err |-> r.buf.err]
    /\ r.buf.data \in Seq(Nat) /\ r.buf.err \in BOOLEAN
    /\ \A i, j \in DOMAIN r.buf.data : i < j => r.buf.data[i] < r.buf.data[j]
    /\ ~r.buf.err => \A k \in OnDisk(r.disk), l \in ToSet(r.buf.data) : k < l
    /\ c.buffer = 0 => r.buf.data = <<>> /\ ~r.buf.err

Well(c, today, r) == GoodReceiver(c, today, r) /\ GoodBuffer(c, r)

Holds(r) == OnDisk(r.disk) \cup ToSet(r.buf.data)

\* A message of a file that was deleted, older than what the buffer will write.
Gone(c, today, r, m) ==
    /\ \E b \in Nat : Behind(c, CurrentName(c, today), r.disk, b, m)
    /\ \A k \in ToSet(r.buf.data) : m < k

\* What a call that brings the messages new makes of a receiver.  Unless its buffer refuses,
\* each message is kept or was in an old file; one that refuses opens and writes nothing any more.
Calls(c, today, r, out, new, fault) ==
    /\ Well(c, today, out) /\ out.reported = r.reported
    /\ Bounded(c, CurrentName(c, today), r, out, fault)
    /\ r.buf.err => out.buf = r.buf /\ out.disk = r.disk /\ (out.w.file = "open" => out.w = r.w)
    /\ Holds(out) \subseteq Holds(r) \cup new
    /\ ~out.buf.err =>
          /\ \A m \in Holds(r) : m \in Holds(out) \/ Gone(c, today, out, m)
          /\ \A m \in new : m \in Holds(out) \/ ~out.ok
          /\ \A m \in Nat : Gone(c, today, r, m) /\ (\A k \in new : m < k) => Gone(c, today, out, m)

LEMMA HoldsNat ==
  ASSUME NEW c, NEW today, NEW r, Well(c, today, r)
  PROVE  Holds(r) \subseteq Nat
<1>1. OnDisk(r.disk) \subseteq Nat
  BY OnDiskNat DEF Well, GoodReceiver
<1>2. ToSet(r.buf.data) \subseteq Nat
  <2>1. r.buf.data \in Seq(Nat)
    BY DEF Well, GoodBuffer
  <2>2. QED
    BY <2>1, LenProperties DEF ToSet
<1>3. QED
  BY <1>1, <1>2 DEF Holds

LEMMA CallsTwice ==
  ASSUME NEW c, NEW today, NEW r, NEW s, NEW out, NEW new, NEW fault, Well(c, today, r),
         Calls(c, today, r, s, {}, fault), Calls(c, today, s, out, new, fault),
         \A k \in Holds(r), l \in new : k < l
  PROVE  Calls(c, today, r, out, new, fault)
<1>1. Bounded(c, CurrentName(c, today), r, out, fault)
  BY BoundedTwice DEF Calls
<1>2. Holds(r) \subseteq Nat
  BY HoldsNat
<1>3. ASSUME ~out.buf.err, NEW m \in Holds(r)
      PROVE  m \in Holds(out) \/ Gone(c, today, out, m)
  <2>1. ~s.buf.err
    BY <1>3 DEF Calls
  <2>2. m \in Holds(s) \/ Gone(c, today, s, m)
    BY <1>3, <2>1 DEF Calls
  <2>3. m \in Nat /\ \A k \in new : m < k
    BY <1>2, <1>3
  <2>4. QED
    BY <1>3, <2>2, <2>3 DEF Calls
<1>4. ASSUME ~out.buf.err, NEW m \in Nat, Gone(c, today, r, m), \A k \in new : m < k
      PROVE  Gone(c, today, out, m)
  BY <1>4 DEF Calls
<1>5. QED
  BY <1>1, <1>3, <1>4 DEF Calls

LEMMA CallsNothing ==
  ASSUME NEW c, NEW today, NEW r, NEW fault, Well(c, today, r), NEW a \in BOOLEAN
  PROVE  LET s == [r EXCEPT !.ok = a] IN Calls(c, today, r, s, {}, fault) /\ s.ok = a
<1> DEFINE s == [r EXCEPT !.ok = a]
<1>1. /\ Does(c, today, r, s, {}, fault) /\ s.ok = a
      /\ s.w = r.w /\ s.buf = r.buf /\ s.disk = r.disk /\ s.reported = r.reported
  BY AnswerDoes DEF Well
<1> HIDE DEF s
<1>2. Well(c, today, s)
  BY <1>1 DEF Well, GoodBuffer, Does
<1>3. Holds(s) = Holds(r) /\ \A m : Gone(c, today, s, m) <=> Gone(c, today, r, m)
  BY <1>1 DEF Holds, Gone
<1>4. QED
  BY <1>1, <1>2, <1>3 DEF Calls, Does, s

LEMMA ToSetAppend ==
  ASSUME NEW q \in Seq(Nat), NEW m \in Nat
  PROVE  ToSet(Append(q, m)) = ToSet(q) \cup {m}
<1>1. /\ Len(q) \in Nat /\ DOMAIN q = 1 .. Len(q) /\ Append(q, m) \in Seq(Nat)
      /\ Len(Append(q, m)) = Len(q) + 1 /\ DOMAIN Append(q, m) = 1 .. Len(q) + 1
      /\ \A i \in 1 .. Len(q) : Append(q, m)[i] = q[i]
      /\ Append(q, m)[Len(q) + 1] = m
  BY AppendFacts, LenProperties
<1> DEFINE a == Append(q, m)
<1> HIDE DEF a
<1>2. \A i \in 1 .. Len(q) + 1 : i \in 1 .. Len(q) \/ i = Len(q) + 1
  BY <1>1
<1>3. 1 .. Len(q) \subseteq 1 .. Len(q) + 1 /\ Len(q) + 1 \in 1 .. Len(q) + 1
  BY <1>1
<1>4. \A x : x \in ToSet(a) => x \in ToSet(q) \cup {m}
  BY <1>1, <1>2 DEF ToSet, a
<1>5. \A x : x \in ToSet(q) \cup {m} => x \in ToSet(a)
  BY <1>1, <1>3 DEF ToSet, a
<1>6. QED
  BY <1>4, <1>5 DEF a

LEMMA ToSetTail ==
  ASSUME NEW q \in Seq(Nat), q # <<>>
  PROVE  ToSet(q) = ToSet(Tail(q)) \cup {Head(q)}
<1>1. /\ Len(q) \in Nat \ {0} /\ DOMAIN q = 1 .. Len(q) /\ Head(q) = q[1]
      /\ Tail(q) \in Seq(Nat) /\ DOMAIN Tail(q) = 1 .. Len(q) - 1
      /\ \A i \in 1 .. Len(q) - 1 : Tail(q)[i] = q[i + 1]
  BY TailFacts, LenProperties
<1> DEFINE t == Tail(q)
           h == Head(q)
<1> HIDE DEF t, h
<1>2. ASSUME NEW x \in ToSet(q) PROVE x \in ToSet(t) \cup {h}
  <2>1. PICK i \in 1 .. Len(q) : x = q[i]
    BY <1>1, <1>2 DEF ToSet
  <2>2. CASE i = 1
    BY <1>1, <2>1, <2>2 DEF h
  <2>3. CASE i # 1
    <3>1. i - 1 \in 1 .. Len(q) - 1 /\ (i - 1) + 1 = i
      BY <1>1, <2>3
    <3>2. i - 1 \in DOMAIN t /\ x = t[i - 1]
      BY <1>1, <2>1, <3>1 DEF t
    <3>3. QED
      BY <3>2 DEF ToSet
  <2>4. QED
    BY <2>2, <2>3
<1>3. ASSUME NEW x \in ToSet(t) PROVE x \in ToSet(q)
  <2>1. PICK i \in 1 .. Len(q) - 1 : x = q[i + 1]
    BY <1>1, <1>3 DEF ToSet, t
  <2>2. i + 1 \in 1 .. Len(q)
    BY <1>1
  <2>3. QED
    BY <1>1, <2>1, <2>2 DEF ToSet
<1>4. h \in ToSet(q)
  BY <1>1 DEF ToSet, h
<1>5. QED
  BY <1>2, <1>3, <1>4 DEF t, h

LEMMA SingleChunk ==
  ASSUME NEW m \in Nat
  PROVE  /\ <<m>> \in Seq(Nat) /\ ToSet(<<m>>) = {m}
         /\ \A i, j \in DOMAIN <<m>> : i < j => <<m>>[i] < <<m>>[j]
<1>1. <<m>> \in Seq(Nat) /\ DOMAIN <<m>> = {1} /\ <<m>>[1] = m
  OBVIOUS
<1>2. QED
  BY <1>1 DEF ToSet

LEMMA BufferOf ==
  ASSUME NEW r, IsReceiver(r), NEW b, NEW s, s = [r EXCEPT !.buf = b]
  PROVE  /\ IsReceiver(s) /\ s.ok = r.ok /\ s.w = r.w /\ s.buf = b /\ s.disk = r.disk
         /\ s.reported = r.reported /\ s.rolled = r.rolled
<1>1. r = [w |-> r.w, buf |-> r.buf, disk |-> r.disk, reported |-> r.reported, ok |-> r.ok,
           rolled |-> r.rolled]
  BY DEF IsReceiver
<1>2. s = [w |-> r.w, buf |-> b, disk |-> r.disk, reported |-> r.reported, ok |-> r.ok,
           rolled |-> r.rolled]
  BY <1>1
<1>3. QED
  BY <1>2, ReceiverOf

\* A call that leaves the buffer, or changes it alone.
LEMMA SameFiles ==
  ASSUME NEW c, NEW today, NEW r, NEW s, GoodReceiver(c, today, r), IsReceiver(s), s.ok \in BOOLEAN,
         s.w = r.w, s.disk = r.disk, s.reported = r.reported, s.rolled = r.rolled
  PROVE  GoodReceiver(c, today, s) /\ \A cur, fault : Bounded(c, cur, r, s, fault)
<1>1. GoodReceiver(c, today, s)
  BY DEF GoodReceiver
<1>2. QED
  BY <1>1 DEF Bounded

LEMMA FieldsOf ==
  ASSUME NEW b, b = [data |-> b.data, err |-> b.err], NEW x
  PROVE  /\ [b EXCEPT !.data = x] = [data |-> x, err |-> b.err]
         /\ [b EXCEPT !.err = x] = [data |-> b.data, err |-> x]
  OBVIOUS

LEMMA EmptiedCalls ==
  ASSUME NEW c, NEW today \in Nat, NEW r, NEW fault, GoodConf(c), Well(c, today, r),
         ~r.buf.err, r.buf.data # <<>>
  PROVE  LET out == Emptied(RollingWrite(c, today, r, r.buf.data, fault)) IN
         /\ Calls(c, today, r, out, {}, fault) /\ out.ok \in BOOLEAN
         /\ out.ok => out.buf.data = <<>> /\ ~out.buf.err
         /\ ~out.ok => out.buf.err
<1> DEFINE data == r.buf.data
           s == RollingWrite(c, today, r, data, fault)
           cur == CurrentName(c, today)
           out == Emptied(s)
<1>1. /\ GoodReceiver(c, today, r) /\ GoodChunk(r, data) /\ c.buffer # 0
      /\ data \in Seq(Nat) /\ \A i, j \in DOMAIN data : i < j => data[i] < data[j]
      /\ r.buf = [data |-> data, err |-> r.buf.err]
  BY DEF Well, GoodBuffer, GoodChunk
<1>2. Does(c, today, r, s, IF s.ok THEN ToSet(data) ELSE {}, fault) /\ s.ok \in BOOLEAN
  BY <1>1, RollingWriteDoes
<1> HIDE DEF s, cur
<1>3. GoodReceiver(c, today, s) /\ s.buf = r.buf /\ s.reported = r.reported
      /\ Bounded(c, cur, r, s, fault) /\ IsReceiver(s)
  BY <1>2 DEF Does, GoodReceiver, cur
<1>4. CASE s.ok
  <2> DEFINE b == [data |-> <<>>, err |-> r.buf.err]
  <2>1. [s.buf EXCEPT !.data = <<>>] = b
    BY <1>1, <1>3, FieldsOf
  <2>2. out = [s EXCEPT !.buf = [s.buf EXCEPT !.data = <<>>]]
    BY <1>4 DEF Emptied
  <2>3. out = [s EXCEPT !.buf = b]
    BY <2>1, <2>2
  <2>4. b.data = <<>> /\ ~b.err /\ b = [data |-> b.data, err |-> b.err] /\ b.err \in BOOLEAN
    BY DEF Well, GoodBuffer
  <2> HIDE DEF out, b
  <2>5. /\ IsReceiver(out) /\ out.ok = s.ok /\ out.w = s.w /\ out.buf = b /\ out.disk = s.disk
        /\ out.reported = s.reported /\ out.rolled = s.rolled
    BY <1>3, <2>3, BufferOf
  <2>6. GoodReceiver(c, today, out) /\ Bounded(c, cur, s, out, fault)
    BY <1>2, <1>3, <2>5, SameFiles
  <2>7. ToSet(out.buf.data) = {} /\ out.buf.data \in Seq(Nat) /\ DOMAIN out.buf.data = {}
    <3>1. ToSet(<<>>) = {} /\ <<>> \in Seq(Nat) /\ DOMAIN <<>> = {}
      BY DEF ToSet
    <3>2. QED
      BY <2>4, <2>5, <3>1
  <2>8. GoodBuffer(c, out)
    BY <1>1, <2>4, <2>5, <2>7 DEF GoodBuffer
  <2>9. Goes(c, cur, r.disk, out.disk, ToSet(data))
    BY <1>2, <1>4, <2>5 DEF Does, cur
  <2>10. Holds(out) = OnDisk(out.disk) /\ Holds(out) \subseteq Holds(r) /\ ToSet(data) \subseteq OnDisk(out.disk)
    BY <2>7, <2>9 DEF Holds, Goes
  <2>11. \A m \in Holds(r) : m \in Holds(out) \/ Gone(c, today, out, m)
    BY <2>7, <2>9, <2>10 DEF Holds, Goes, Gone, cur
  <2>12. \A m \in Nat : Gone(c, today, r, m) => Gone(c, today, out, m)
    BY <2>7, <2>9 DEF Goes, Gone, cur
  <2>13. Bounded(c, cur, r, out, fault)
    BY <1>3, <2>6, BoundedTwice
  <2>14. Calls(c, today, r, out, {}, fault)
    BY <1>3, <2>5, <2>6, <2>8, <2>10, <2>11, <2>12, <2>13 DEF Calls, Well, cur
  <2>15. QED
    BY <1>4, <2>4, <2>5, <2>14 DEF out, s
<1>5. CASE ~s.ok
  <2> DEFINE yes == TRUE
             b == [data |-> data, err |-> yes]
  <2>1. [s.buf EXCEPT !.err = TRUE] = b
    <3>1. [s.buf EXCEPT !.err = yes] = [data |-> s.buf.data, err |-> yes]
      <4> HIDE DEF yes
      <4>1. QED
        BY <1>1, <1>3, FieldsOf
    <3>2. QED
      BY <1>3, <3>1
  <2>2. out = [s EXCEPT !.buf = [s.buf EXCEPT !.err = TRUE]]
    BY <1>5 DEF Emptied
  <2>3. out = [s EXCEPT !.buf = b]
    BY <2>1, <2>2
  <2>4. b.data = data /\ b.err /\ b = [data |-> b.data, err |-> b.err] /\ b.err \in BOOLEAN
    OBVIOUS
  <2> HIDE DEF out, b
  <2>5. /\ IsReceiver(out) /\ out.ok = s.ok /\ out.w = s.w /\ out.buf = b /\ out.disk = s.disk
        /\ out.reported = s.reported /\ out.rolled = s.rolled
    BY <1>3, <2>3, BufferOf
  <2>6. GoodReceiver(c, today, out) /\ Bounded(c, cur, s, out, fault)
    BY <1>2, <1>3, <2>5, SameFiles
  <2>7. GoodBuffer(c, out)
    BY <1>1, <2>4, <2>5 DEF GoodBuffer
  <2>8. Goes(c, cur, r.disk, out.disk, {})
    BY <1>2, <1>5, <2>5 DEF Does, cur
  <2>9. Holds(out) \subseteq Holds(r)
    BY <2>4, <2>5, <2>8 DEF Holds, Goes
  <2>10. Bounded(c, cur, r, out, fault)
    BY <1>3, <2>6, BoundedTwice
  <2>11. Calls(c, today, r, out, {}, fault)
    BY <1>3, <2>4, <2>5, <2>6, <2>7, <2>9, <2>10 DEF Calls, Well, cur
  <2>12. ~out.ok /\ out.buf.err /\ out.ok \in BOOLEAN
    BY <1>2, <1>5, <2>4, <2>5
  <2>13. QED
    BY <2>11, <2>12 DEF out, s
<1>6. QED
  BY <1>2, <1>4, <1>5 DEF s

LEMMA FlushInnerCalls ==
  ASSUME NEW c, NEW today \in Nat, NEW r, NEW fault, GoodConf(c), Well(c, today, r)
  PROVE  LET out == FlushInner(c, today, r, fault) IN
         /\ Calls(c, today, r, out, {}, fault) /\ out.ok \in BOOLEAN
         /\ out.ok => out.buf.data = <<>> /\ ~out.buf.err
         /\ ~out.ok => out.buf.err
<1> DEFINE out == FlushInner(c, today, r, fault)
<1>1. CASE r.buf.err
  <2>1. out = [r EXCEPT !.ok = FALSE]
    BY <1>1 DEF FlushInner
  <2>2. Calls(c, today, r, [r EXCEPT !.ok = FALSE], {}, fault) /\ [r EXCEPT !.ok = FALSE].ok = FALSE
    BY CallsNothing
  <2> HIDE DEF out
  <2>3. Calls(c, today, r, out, {}, fault) /\ out.ok = FALSE
    BY <2>1, <2>2
  <2>4. out.buf.err
    BY <1>1, <2>3 DEF Calls
  <2>5. QED
    BY <2>3, <2>4 DEF out
<1>2. CASE ~r.buf.err /\ r.buf.data = <<>>
  <2>1. out = [r EXCEPT !.ok = TRUE]
    BY <1>2 DEF FlushInner
  <2>2. Calls(c, today, r, [r EXCEPT !.ok = TRUE], {}, fault) /\ [r EXCEPT !.ok = TRUE].ok = TRUE
    BY CallsNothing
  <2>3. [r EXCEPT !.ok = TRUE].buf = r.buf
    BY AnswerDoes DEF Well
  <2> HIDE DEF out
  <2>4. QED
    BY <1>2, <2>1, <2>2, <2>3 DEF out
<1>3. CASE ~r.buf.err /\ r.buf.data # <<>>
  <2>1. out = Emptied(RollingWrite(c, today, r, r.buf.data, fault))
    BY <1>3 DEF FlushInner
  <2> HIDE DEF out
  <2>2. QED
    BY <1>3, <2>1, EmptiedCalls DEF out
<1>4. QED
  BY <1>1, <1>2, <1>3

LEMMA CallsLess ==
  ASSUME NEW c, NEW today, NEW r, NEW out, NEW new, NEW fault, GoodConf(c),
         Calls(c, today, r, out, new, "none")
  PROVE  Calls(c, today, r, out, new, fault)
<1> DEFINE cur == CurrentName(c, today)
           k == Cardinality(DOMAIN out.disk \ {cur})
<1>1. IsFiniteSet(DOMAIN out.disk)
  BY DEF Calls, Well, GoodReceiver, GoodDisk
<1>2. k \in Nat /\ c.maxRolls \in Int
  BY <1>1, CardSubset DEF GoodConf
<1>3. Bounded(c, cur, r, out, "none")
  BY DEF Calls
<1>4. Bounded(c, cur, r, out, fault)
  <2>1. CASE out.rolled = r.rolled /\ DOMAIN out.disk \ {cur} = DOMAIN r.disk \ {cur}
    BY <2>1 DEF Bounded
  <2>2. CASE out.rolled = TRUE /\ (c.maxRolls > 0 => k <= c.maxRolls + 0)
    <3>1. c.maxRolls > 0 => k <= c.maxRolls + IF fault = "none" THEN 0 ELSE 1
      <4> HIDE DEF k
      <4>1. QED
        BY <1>2, <2>2
    <3>2. QED
      BY <2>2, <3>1 DEF Bounded
  <2>3. QED
    BY <1>3, <2>1, <2>2 DEF Bounded
<1>5. QED
  BY <1>4 DEF Calls

\* A message that a buffer which refuses did not take.
LEMMA CallsRefused ==
  ASSUME NEW c, NEW today, NEW r, NEW out, NEW new, NEW fault,
         Calls(c, today, r, out, {}, fault), out.buf.err
  PROVE  Calls(c, today, r, out, new, fault)
  BY DEF Calls

LEMMA OneWriteCalls ==
  ASSUME NEW c, NEW today \in Nat, NEW r, NEW fault, GoodConf(c), Well(c, today, r),
         ~r.buf.err, r.buf.data = <<>>, NEW m \in Nat, \A k \in Holds(r) : k < m
  PROVE  LET out == RollingWrite(c, today, r, <<m>>, fault) IN
         Calls(c, today, r, out, {m}, fault) /\ out.ok \in BOOLEAN
<1> DEFINE out == RollingWrite(c, today, r, <<m>>, fault)
           cur == CurrentName(c, today)
           new == IF out.ok THEN {m} ELSE {}
<1>1. GoodReceiver(c, today, r) /\ GoodChunk(r, <<m>>) /\ ToSet(<<m>>) = {m}
  BY SingleChunk DEF Well, GoodChunk, Holds
<1>2. Does(c, today, r, out, new, fault) /\ out.ok \in BOOLEAN
  BY <1>1, RollingWriteDoes
<1>3. ToSet(<<>>) = {} /\ <<>> \in Seq(Nat) /\ DOMAIN <<>> = {}
  BY DEF ToSet
<1> HIDE DEF out, cur
<1>4. GoodReceiver(c, today, out) /\ out.buf = r.buf /\ out.reported = r.reported
      /\ Bounded(c, cur, r, out, fault) /\ Goes(c, cur, r.disk, out.disk, new)
  BY <1>2 DEF Does, cur
<1>5. ToSet(out.buf.data) = {} /\ out.buf.data = <<>> /\ ~out.buf.err
  BY <1>3, <1>4
<1>6. GoodBuffer(c, out)
  <2>1. GoodBuffer(c, r)
    BY DEF Well
  <2>2. QED
    BY <1>4, <1>5, <2>1 DEF GoodBuffer
<1>7. Holds(out) = OnDisk(out.disk) /\ Holds(r) = OnDisk(r.disk)
  BY <1>3, <1>5 DEF Holds
<1>8. Holds(out) \subseteq Holds(r) \cup {m} /\ (out.ok => m \in Holds(out))
  BY <1>4, <1>7 DEF Goes
<1>9. \A x \in Holds(r) : x \in Holds(out) \/ Gone(c, today, out, x)
  BY <1>4, <1>5, <1>7 DEF Goes, Gone, cur
<1>10. \A x \in Nat : Gone(c, today, r, x) /\ x < m => Gone(c, today, out, x)
  BY <1>4, <1>5 DEF Goes, Gone, cur
<1>11. Calls(c, today, r, out, {m}, fault)
  BY <1>4, <1>6, <1>8, <1>9, <1>10 DEF Calls, Well, cur
<1>12. QED
  BY <1>2, <1>11 DEF out

LEMMA AppendCalls ==
  ASSUME NEW c, NEW today, NEW r, NEW fault, Well(c, today, r),
         ~r.buf.err, c.buffer # 0, NEW m \in Nat, \A k \in Holds(r) : k < m
  PROVE  LET out == [r EXCEPT !.buf.data = Append(@, m)] IN
         Calls(c, today, r, out, {m}, fault) /\ out.ok = r.ok
<1> DEFINE data == r.buf.data
           a == Append(data, m)
           b == [data |-> a, err |-> r.buf.err]
           out == [r EXCEPT !.buf.data = Append(@, m)]
<1>1. /\ GoodReceiver(c, today, r) /\ IsReceiver(r) /\ r.ok \in BOOLEAN
      /\ data \in Seq(Nat) /\ \A i, j \in DOMAIN data : i < j => data[i] < data[j]
      /\ r.buf = [data |-> data, err |-> r.buf.err] /\ r.buf.err \in BOOLEAN
      /\ \A k \in OnDisk(r.disk), l \in ToSet(data) : k < l
  BY DEF Well, GoodBuffer, GoodReceiver
<1>2. /\ Len(data) \in Nat /\ DOMAIN data = 1 .. Len(data) /\ a \in Seq(Nat)
      /\ DOMAIN a = 1 .. Len(data) + 1 /\ \A i \in 1 .. Len(data) : a[i] = data[i]
      /\ a[Len(data) + 1] = m /\ ToSet(a) = ToSet(data) \cup {m}
  BY <1>1, AppendFacts, LenProperties, ToSetAppend
<1>3. \A i \in 1 .. Len(data) : data[i] \in ToSet(data)
  BY <1>2 DEF ToSet
<1>4. \A k \in OnDisk(r.disk) \cup ToSet(data) : k < m
  BY DEF Holds
<1>5. [r.buf EXCEPT !.data = a] = b
  BY <1>1, FieldsOf
<1>6. out = [r EXCEPT !.buf = [r.buf EXCEPT !.data = a]]
  OBVIOUS
<1> HIDE DEF a
<1>7. ASSUME NEW i \in DOMAIN a, NEW j \in DOMAIN a, i < j PROVE a[i] < a[j]
  <2> DEFINE n == Len(data)
  <2>0. n \in Nat /\ i \in 1 .. n + 1 /\ j \in 1 .. n + 1
    BY <1>2
  <2>1. i \in 1 .. n /\ (j \in 1 .. n \/ j = n + 1)
    <3> HIDE DEF n
    <3>1. QED
      BY <1>7, <2>0
  <2>2. CASE j \in 1 .. Len(data)
    BY <1>1, <1>2, <1>7, <2>1, <2>2
  <2>3. CASE j = Len(data) + 1
    BY <1>2, <1>3, <1>4, <2>1, <2>3
  <2>4. QED
    BY <2>1, <2>2, <2>3
<1>8. b.data = a /\ b.err = r.buf.err /\ b = [data |-> b.data, err |-> b.err]
  OBVIOUS
<1> HIDE DEF b, out
<1>9. out = [r EXCEPT !.buf = b]
  BY <1>5, <1>6
<1>10. /\ IsReceiver(out) /\ out.ok = r.ok /\ out.w = r.w /\ out.buf = b /\ out.disk = r.disk
       /\ out.reported = r.reported /\ out.rolled = r.rolled
  <2>1. IsReceiver(r)
    BY <1>1
  <2>2. QED
    BY <1>9, <2>1, BufferOf
<1>11. GoodReceiver(c, today, out) /\ Bounded(c, CurrentName(c, today), r, out, fault)
  BY <1>1, <1>10, SameFiles
<1>12. out.buf.data = a /\ out.buf.err = r.buf.err /\ out.buf = [data |-> out.buf.data, err |-> out.buf.err]
  BY <1>8, <1>10
<1>13. GoodBuffer(c, out)
  BY <1>1, <1>2, <1>4, <1>7, <1>10, <1>12 DEF GoodBuffer
<1>14. Holds(out) = Holds(r) \cup {m}
  BY <1>2, <1>10, <1>12 DEF Holds
<1>15. \A x \in Nat : Gone(c, today, r, x) /\ x < m => Gone(c, today, out, x)
  BY <1>2, <1>10, <1>12 DEF Gone
<1>16. Calls(c, today, r, out, {m}, fault)
  BY <1>10, <1>11, <1>13, <1>14, <1>15 DEF Calls, Well
<1>17. QED
  BY <1>10, <1>16 DEF out

LEMMA BufferedWriteCalls ==
  ASSUME NEW c, NEW today \in Nat, NEW r, NEW fault, GoodConf(c), Well(c, today, r),
         c.buffer # 0, NEW m \in Nat, \A k \in Holds(r) : k < m
  PROVE  LET out == BufferedWrite(c, today, r, m, fault) IN
         Calls(c, today, r, out, {m}, fault) /\ out.ok \in BOOLEAN
<1> DEFINE out == BufferedWrite(c, today, r, m, fault)
<1>1. CASE m \in c.big
  <2> DEFINE s == FlushInner(c, today, r, fault)
             fault2 == IF r.buf.data = <<>> THEN fault ELSE "none"
  <2>1. out = WriteBigChunk(c, today, s, m, fault2)
    BY <1>1 DEF BufferedWrite
  <2>2. /\ Calls(c, today, r, s, {}, fault) /\ s.ok \in BOOLEAN
        /\ s.ok => s.buf.data = <<>> /\ ~s.buf.err
        /\ ~s.ok => s.buf.err
    BY FlushInnerCalls
  <2>3. fault2 = fault \/ fault2 = "none"
    OBVIOUS
  <2> HIDE DEF s, fault2, out
  <2>4. CASE ~s.ok
    <3>1. out = s
      BY <2>1, <2>4 DEF WriteBigChunk
    <3>2. QED
      BY <2>2, <2>4, <3>1, CallsRefused DEF out
  <2>5. CASE s.ok
    <3>1. out = RollingWrite(c, today, s, <<m>>, fault2)
      BY <2>1, <2>5 DEF WriteBigChunk
    <3>2. Well(c, today, s) /\ \A k \in Holds(s) : k < m
      BY <2>2 DEF Calls
    <3>3. Calls(c, today, s, out, {m}, fault2) /\ out.ok \in BOOLEAN
      BY <2>2, <2>5, <3>1, <3>2, OneWriteCalls
    <3>4. Calls(c, today, s, out, {m}, fault)
      BY <2>3, <3>3, CallsLess
    <3>5. Calls(c, today, r, out, {m}, fault)
      BY <2>2, <3>4, CallsTwice
    <3>6. QED
      BY <3>3, <3>5 DEF out
  <2>6. QED
    BY <2>4, <2>5
<1>2. CASE m \notin c.big
  <2> DEFINE s == IF Len(r.buf.data) >= c.buffer THEN FlushInner(c, today, r, fault)
                  ELSE [r EXCEPT !.ok = TRUE]
  <2>1. out = BufferWrite(s, m)
    BY <1>2 DEF BufferedWrite
  <2>2. Calls(c, today, r, s, {}, fault) /\ s.ok \in BOOLEAN /\ (s.ok \/ s.buf.err)
    <3>1. CASE Len(r.buf.data) >= c.buffer
      BY <3>1, FlushInnerCalls
    <3>2. CASE ~(Len(r.buf.data) >= c.buffer)
      <4>1. s = [r EXCEPT !.ok = TRUE]
        BY <3>2
      <4> HIDE DEF s
      <4>2. Calls(c, today, r, [r EXCEPT !.ok = TRUE], {}, fault) /\ [r EXCEPT !.ok = TRUE].ok = TRUE
        BY CallsNothing
      <4>3. QED
        BY <4>1, <4>2
    <3>3. QED
      BY <3>1, <3>2
  <2> HIDE DEF s, out
  <2>3. CASE s.buf.err
    <3>1. out = s
      BY <2>1, <2>3 DEF BufferWrite
    <3>2. QED
      BY <2>2, <2>3, <3>1, CallsRefused DEF out
  <2>4. CASE ~s.buf.err
    <3>1. out = [s EXCEPT !.buf.data = Append(@, m)] /\ s.ok
      BY <2>1, <2>2, <2>4 DEF BufferWrite
    <3>2. Well(c, today, s) /\ \A k \in Holds(s) : k < m
      BY <2>2 DEF Calls
    <3>3. Calls(c, today, s, out, {m}, fault) /\ out.ok = s.ok
      <4> DEFINE a == [s EXCEPT !.buf.data = Append(@, m)]
      <4>1. Calls(c, today, s, a, {m}, fault) /\ a.ok = s.ok
        BY <2>4, <3>2, AppendCalls
      <4> HIDE DEF a
      <4>2. QED
        BY <3>1, <4>1 DEF a
    <3>4. Calls(c, today, r, out, {m}, fault)
      BY <2>2, <3>3, CallsTwice
    <3>5. QED
      BY <2>2, <3>3, <3>4 DEF out
  <2>5. QED
    BY <2>3, <2>4
<1>3. QED
  BY <1>1, <1>2

LEMMA ReportOf ==
  ASSUME NEW r, IsReceiver(r), NEW m
  PROVE  LET out == Report(r, m) IN
         /\ out.w = r.w /\ out.buf = r.buf /\ out.disk = r.disk /\ out.rolled = r.rolled
         /\ out.reported = r.reported \cup (IF r.ok THEN {} ELSE {m})
<1> DEFINE out == Report(r, m)
<1>1. CASE r.ok
  <2>1. out = r
    BY <1>1 DEF Report
  <2> HIDE DEF out
  <2>2. QED
    BY <1>1, <2>1 DEF out
<1>2. CASE ~r.ok
  <2> DEFINE rep == r.reported \cup {m}
  <2>1. out = [r EXCEPT !.reported = rep]
    BY <1>2 DEF Report
  <2>2. r = [w |-> r.w, buf |-> r.buf, disk |-> r.disk, reported |-> r.reported, ok |-> r.ok,
             rolled |-> r.rolled]
    BY DEF IsReceiver
  <2> HIDE DEF out, rep
  <2>3. out = [w |-> r.w, buf |-> r.buf, disk |-> r.disk, reported |-> rep, ok |-> r.ok,
               rolled |-> r.rolled]
    BY <2>1, <2>2
  <2>4. /\ out.w = r.w /\ out.buf = r.buf /\ out.disk = r.disk /\ out.rolled = r.rolled
        /\ out.reported = rep
    BY <2>3, ReceiverOf
  <2>5. QED
    BY <1>2, <2>4 DEF out, rep
<1>3. QED
  BY <1>1, <1>2

\* Dispatch reports the message if the call s for it has failed.
Dispatches(c, today, r, out, m, fault) ==
    \E s : /\ Calls(c, today, r, s, {m}, fault)
           /\ out.w = s.w /\ out.buf = s.buf /\ out.disk = s.disk /\ out.rolled = s.rolled
           /\ out.reported = r.reported \cup (IF s.ok THEN {} ELSE {m})

LEMMA DispatchCalls ==
  ASSUME NEW c, NEW today \in Nat, NEW r, NEW fault, GoodConf(c), Well(c, today, r),
         NEW m \in Nat, \A k \in Holds(r) : k < m
  PROVE  Dispatches(c, today, r, Dispatch(c, today, r, m, fault), m, fault)
<1> DEFINE s == IF c.buffer = 0 THEN RollingWrite(c, today, r, <<m>>, fault)
                ELSE BufferedWrite(c, today, r, m, fault)
<1>1. Calls(c, today, r, s, {m}, fault)
  <2>1. CASE c.buffer = 0
    <3>1. ~r.buf.err /\ r.buf.data = <<>>
      BY <2>1 DEF Well, GoodBuffer
    <3>2. QED
      BY <2>1, <3>1, OneWriteCalls
  <2>2. CASE c.buffer # 0
    BY <2>2, BufferedWriteCalls
  <2>3. QED
    BY <2>1, <2>2
<1>2. Dispatch(c, today, r, m, fault) = Report(s, m)
  BY DEF Dispatch
<1> HIDE DEF s
<1>3. IsReceiver(s) /\ s.reported = r.reported
  BY <1>1 DEF Calls, Well, GoodReceiver
<1> DEFINE out == Dispatch(c, today, r, m, fault)
<1>4. /\ out.w = s.w /\ out.buf = s.buf /\ out.disk = s.disk /\ out.rolled = s.rolled
      /\ out.reported = r.reported \cup (IF s.ok THEN {} ELSE {m})
  BY <1>2, <1>3, ReportOf
<1> HIDE DEF out
<1>5. Dispatches(c, today, r, out, m, fault)
  BY <1>1, <1>4 DEF Dispatches
<1>6. QED
  BY <1>5 DEF out

LEMMA DispatcherFlushCalls ==
  ASSUME NEW c, NEW today \in Nat, NEW r, NEW fault, GoodConf(c), Well(c, today, r)
  PROVE  LET out == DispatcherFlush(c, today, r, fault) IN
         /\ Calls(c, today, r, out, {}, fault)
         /\ out.buf.data = <<>> \/ out.buf.err
<1> DEFINE out == DispatcherFlush(c, today, r, fault)
<1>1. CASE c.buffer = 0
  <2>1. out = r
    BY <1>1 DEF DispatcherFlush
  <2>2. r.buf.data = <<>>
    BY <1>1 DEF Well, GoodBuffer
  <2>3. Calls(c, today, r, r, {}, fault)
    BY DEF Calls, Well, Bounded
  <2> HIDE DEF out
  <2>4. QED
    BY <2>1, <2>2, <2>3 DEF out
<1>2. CASE c.buffer # 0
  <2>1. out = FlushInner(c, today, r, fault)
    BY <1>2 DEF DispatcherFlush
  <2> HIDE DEF out
  <2>2. QED
    BY <2>1, FlushInnerCalls DEF out
<1>3. QED
  BY <1>1, <1>2

LEMMA RollingCloseCalls ==
  ASSUME NEW c, NEW today, NEW r, NEW fault, Well(c, today, r)
  PROVE  LET out == RollingClose(r) IN
         Calls(c, today, r, out, {}, fault) /\ out.w.file # "open" /\ out.buf = r.buf
<1> DEFINE out == RollingClose(r)
<1>1. CASE r.w.file # "open"
  <2>1. out = r
    BY <1>1 DEF RollingClose
  <2>2. Calls(c, today, r, r, {}, fault)
    BY DEF Calls, Bounded
  <2> HIDE DEF out
  <2>3. QED
    BY <1>1, <2>1, <2>2 DEF out
<1>2. CASE r.w.file = "open"
  <2> DEFINE w == [file |-> "nil", name |-> r.w.name, size |-> r.w.size]
  <2>1. /\ IsReceiver(r) /\ IsWriter(r.w) /\ r.ok \in BOOLEAN /\ r.rolled \in BOOLEAN
        /\ GoodDisk(c, today, r.disk) /\ GoodWriter(c, today, r.w, DOMAIN r.disk)
    BY DEF Well, GoodReceiver, GoodWriter
  <2>2. r = [w |-> r.w, buf |-> r.buf, disk |-> r.disk, reported |-> r.reported, ok |-> r.ok,
             rolled |-> r.rolled]
    BY <2>1 DEF IsReceiver
  <2>3. r.w = [file |-> r.w.file, name |-> r.w.name, size |-> r.w.size]
    BY <2>1 DEF IsWriter
  <2>4. [r.w EXCEPT !.file = "nil"] = w
    BY <2>3
  <2>5. out = [r EXCEPT !.w = [r.w EXCEPT !.file = "nil"]]
    BY <1>2 DEF RollingClose
  <2>6. IsWriter(w) /\ w.file = "nil" /\ w.name = r.w.name /\ w.size = r.w.size
    BY WriterOf
  <2> HIDE DEF w, out
  <2>7. out = [w |-> w, buf |-> r.buf, disk |-> r.disk, reported |-> r.reported, ok |-> r.ok,
               rolled |-> r.rolled]
    BY <2>2, <2>4, <2>5
  <2>8. /\ IsReceiver(out) /\ out.w = w /\ out.buf = r.buf /\ out.disk = r.disk
        /\ out.reported = r.reported /\ out.ok = r.ok /\ out.rolled = r.rolled
    BY <2>7, ReceiverOf
  <2>9. GoodWriter(c, today, w, DOMAIN r.disk)
    BY <2>1, <2>6 DEF GoodWriter
  <2>10. GoodReceiver(c, today, out) /\ GoodBuffer(c, out)
    BY <2>1, <2>8, <2>9 DEF GoodReceiver, Well, GoodBuffer
  <2>11. Holds(out) = Holds(r) /\ \A m : Gone(c, today, out, m) <=> Gone(c, today, r, m)
    BY <2>8 DEF Holds, Gone
  <2>12. Calls(c, today, r, out, {}, fault)
    BY <2>6, <2>8, <2>10, <2>11 DEF Calls, Bounded, Well
  <2>13. QED
    BY <2>6, <2>8, <2>12 DEF out
<1>3. QED
  BY <1>1, <1>2

-----------------------------------------------------------------------------
(* The loggers                                                             *)

Types ==
    /\ instance \in Instances
    /\ day \in Nat /\ logged \in Nat /\ begun \in Nat /\ faults \in Nat /\ current \in Generations
    /\ DOMAIN writers = Generations /\ DOMAIN buffers = Generations /\ DOMAIN queues = Generations
    /\ \A g \in Generations : queues[g] \in Seq(Nat)

\* Each receiver is well, and so are the queues, which hold later messages than the files and
\* the buffers.
Receivers ==
    /\ \A g \in Generations : Well(conf, day, Receiver(g))
    /\ \A g \in Generations : Holds(Receiver(g)) \subseteq Due \cap (1 .. logged)
    /\ reported \subseteq Due

Queued ==
    \A g \in Generations :
        /\ \A i, j \in DOMAIN queues[g] : i < j => queues[g][i] < queues[g][j]
        /\ ToSet(queues[g]) \subseteq (1 .. logged) \ conf.unused
        /\ \A k \in Holds(Receiver(g)), l \in ToSet(queues[g]) : k < l
        /\ ~conf.async => queues[g] = <<>>

\* A logger that does not serve any more, or does not yet.
IsIdle(g) == queues[g] = <<>> /\ (buffers[g].data = <<>> \/ buffers[g].err)

Replaced ==
    /\ pc \in {"flush", "close", "closing", "closed", "current"} => current = 1
    /\ pc \in {"close", "closing", "closed", "current"} \/ current = 2 => IsIdle(1)
    /\ pc \in {"closed", "current"} \/ current = 2 => writers[1].file # "open"
    /\ current = 1 => IsIdle(2) /\ writers[2].file # "open" /\ buffers[2].data = <<>>
    /\ pc = "full" => conf.async /\ logged + 1 \notin conf.unused

\* A message whose file was deleted is older than all that will be written.
Away(m) ==
    /\ \E b \in Nat : Behind(conf, CurrentName(conf, day), disk, b, m)
    /\ \A k \in InMemory : m < k

Complete ==
    ~Refusing =>
        \A m \in (1 .. logged) \cap Due :
            m \in OnDisk(disk) \cup InMemory \cup reported \cup lost \/ Away(m)

FewFiles ==
    conf.maxRolls > 0 =>
        IF conf.rolling = "size" THEN Cardinality(DOMAIN disk \ {0}) <= conf.maxRolls + faults
        ELSE Cardinality(DOMAIN disk) <= conf.maxRolls + faults + begun + 1

Inv == Types /\ Receivers /\ Queued /\ Replaced /\ Complete /\ FewFiles

InQueue(m) == \E g \in Generations : m \in ToSet(queues[g])

LEMMA ConfFacts ==
  ASSUME Types
  PROVE  /\ GoodConf(conf) /\ conf.async \in BOOLEAN /\ conf.maxRolls \in Int
         /\ conf.rolling \in {"size", "date"} /\ instance.faults \in Nat
  BY LoggersAssumption DEF Types, GoodConf, conf

LEMMA ReceiverFacts ==
  ASSUME NEW g
  PROVE  /\ IsReceiver(Receiver(g)) /\ Receiver(g).w = writers[g] /\ Receiver(g).buf = buffers[g]
         /\ Receiver(g).disk = disk /\ Receiver(g).reported = reported
         /\ Receiver(g).ok = TRUE /\ Receiver(g).rolled = FALSE
         /\ Holds(Receiver(g)) = OnDisk(disk) \cup ToSet(buffers[g].data)
  BY ReceiverOf DEF Receiver, Holds

LEMMA ReceiverFactsNext ==
  ASSUME NEW g
  PROVE  /\ IsReceiver(Receiver(g)') /\ Receiver(g)'.w = writers'[g] /\ Receiver(g)'.buf = buffers'[g]
         /\ Receiver(g)'.disk = disk' /\ Receiver(g)'.reported = reported'
         /\ Receiver(g)'.ok = TRUE /\ Receiver(g)'.rolled = FALSE
         /\ Holds(Receiver(g)') = OnDisk(disk') \cup ToSet(buffers'[g].data)
  BY ReceiverOf DEF Receiver, Holds

\* What is well does not depend on what was reported or answered.
LEMMA WellOf ==
  ASSUME NEW c, NEW today, NEW s, Well(c, today, s), NEW r, IsReceiver(r), r.ok \in BOOLEAN,
         r.rolled \in BOOLEAN, r.w = s.w, r.buf = s.buf, r.disk = s.disk
  PROVE  Well(c, today, r)
<1>1. GoodReceiver(c, today, r)
  BY DEF Well, GoodReceiver
<1>2. GoodBuffer(c, r)
  BY DEF Well, GoodBuffer
<1>3. QED
  BY <1>1, <1>2 DEF Well

\* Nor on the files, if its file is not open and its buffer holds nothing or refuses.
LEMMA IdleIsWell ==
  ASSUME NEW c, NEW today, NEW s, Well(c, today, s), NEW r, IsReceiver(r), r.ok \in BOOLEAN,
         r.rolled \in BOOLEAN, r.w = s.w, r.buf = s.buf, GoodDisk(c, today, r.disk),
         s.w.file # "open", s.buf.data = <<>> \/ s.buf.err
  PROVE  Well(c, today, r)
<1>1. ToSet(<<>>) = {}
  BY DEF ToSet
<1>2. GoodReceiver(c, today, r)
  BY DEF Well, GoodReceiver, GoodWriter
<1>3. GoodBuffer(c, r)
  BY <1>1 DEF Well, GoodBuffer
<1>4. QED
  BY <1>2, <1>3 DEF Well

LEMMA OthersAreIdle ==
  ASSUME Types, Replaced, NEW h \in Generations, h # current
  PROVE  IsIdle(h) /\ writers[h].file # "open"
  BY DEF Types, Replaced, Generations

LEMMA MemoryHas ==
  ASSUME NEW m
  PROVE  m \in InMemory <=> \E g \in Generations : m \in ToSet(queues[g]) \cup ToSet(buffers[g].data)
  BY DEF InMemory

LEMMA MemoryHasNext ==
  ASSUME NEW m
  PROVE  m \in InMemory' <=> \E g \in Generations : m \in ToSet(queues'[g]) \cup ToSet(buffers'[g].data)
  BY DEF InMemory

-----------------------------------------------------------------------------
(* A call of the receiver of g                                             *)

\* What the calls of a step make of the receiver of g, when they bring it the messages new.
Served(g, s, new, fault) ==
    /\ Calls(conf, day, Receiver(g), s, new, fault)
    /\ writers' = [writers EXCEPT ![g] = s.w] /\ buffers' = [buffers EXCEPT ![g] = s.buf]
    /\ disk' = s.disk /\ reported' = reported \cup (IF s.ok THEN {} ELSE new)
    /\ begun' = IF s.rolled THEN 0 ELSE begun + Cardinality(DOMAIN s.disk \ DOMAIN disk)
    /\ faults' = IF fault = "none" THEN faults ELSE faults + 1

LEMMA BecomesServed ==
  ASSUME NEW g, NEW s, NEW out, NEW new, NEW fault, Calls(conf, day, Receiver(g), s, new, fault),
         out.w = s.w, out.buf = s.buf, out.disk = s.disk, out.rolled = s.rolled,
         out.reported = reported \cup (IF s.ok THEN {} ELSE new),
         Becomes(g, out, fault)
  PROVE  Served(g, s, new, fault)
  BY DEF Becomes, Served

LEMMA ProcessServes ==
  ASSUME Types, Receivers, NEW g \in Generations, NEW m \in Nat, \A k \in Holds(Receiver(g)) : k < m,
         NEW fault, Becomes(g, Process(Receiver(g), m, fault), fault)
  PROVE  \E s : Served(g, s, IF m \in conf.passes THEN {m} ELSE {}, fault)
<1> DEFINE r == Receiver(g)
           out == Process(r, m, fault)
<1>1. GoodConf(conf) /\ day \in Nat /\ Well(conf, day, r)
  BY ConfFacts DEF Types, Receivers
<1>2. r.reported = reported
  BY ReceiverFacts
<1> HIDE DEF r
<1>3. CASE m \in conf.passes
  <2>1. out = Dispatch(conf, day, r, m, fault)
    BY <1>3 DEF Process
  <2> HIDE DEF out
  <2>2. PICK s : /\ Calls(conf, day, r, s, {m}, fault)
                 /\ out.w = s.w /\ out.buf = s.buf /\ out.disk = s.disk /\ out.rolled = s.rolled
                 /\ out.reported = r.reported \cup (IF s.ok THEN {} ELSE {m})
    <3>1. \A k \in Holds(r) : k < m
      BY DEF r
    <3>2. Dispatches(conf, day, r, Dispatch(conf, day, r, m, fault), m, fault)
      BY <1>1, <3>1, DispatchCalls
    <3>3. Dispatches(conf, day, r, out, m, fault)
      BY <2>1, <3>2
    <3>4. QED
      BY <3>3 DEF Dispatches
  <2>3. Served(g, s, {m}, fault)
    BY <1>2, <2>2, BecomesServed DEF r, out
  <2>4. QED
    BY <1>3, <2>3
<1>4. CASE m \notin conf.passes
  <2>1. out = r
    BY <1>4 DEF Process
  <2> HIDE DEF out
  <2>2. Calls(conf, day, r, r, {}, fault)
    BY <1>1 DEF Calls, Bounded
  <2>3. Served(g, r, {}, fault)
    BY <1>2, <2>1, <2>2, BecomesServed DEF r, out
  <2>4. QED
    BY <1>4, <2>3
<1>5. QED
  BY <1>3, <1>4

\* The receivers after a call of the one that serves, or of one whose buffer refuses.
LEMMA ServedReceivers ==
  ASSUME Types, Receivers, Replaced, NEW g \in Generations, g = current \/ buffers[g].err,
         NEW s, NEW new, NEW fault, Served(g, s, new, fault), UNCHANGED <<instance, day>>,
         logged' \in Nat, logged <= logged', new \subseteq Due \cap (1 .. logged')
  PROVE  /\ DOMAIN writers' = Generations /\ DOMAIN buffers' = Generations /\ Receivers'
         /\ \A h \in Generations : h # g => writers'[h] = writers[h] /\ buffers'[h] = buffers[h]
         /\ writers'[g] = s.w /\ buffers'[g] = s.buf
         /\ buffers[g].err => /\ buffers'[g] = buffers[g] /\ disk' = disk
                              /\ writers'[g].file = "open" => writers[g].file = "open"
         /\ \A h \in Generations : Holds(Receiver(h)') \subseteq Holds(Receiver(h)) \cup Holds(Receiver(g)) \cup new
<1> DEFINE r == Receiver(g)
<1>1. /\ Calls(conf, day, r, s, new, fault) /\ disk' = s.disk
      /\ reported' = reported \cup (IF s.ok THEN {} ELSE new)
      /\ writers' = [writers EXCEPT ![g] = s.w] /\ buffers' = [buffers EXCEPT ![g] = s.buf]
  BY DEF Served
<1>2. /\ DOMAIN writers' = Generations /\ DOMAIN buffers' = Generations
      /\ writers'[g] = s.w /\ buffers'[g] = s.buf
      /\ \A h \in Generations : h # g => writers'[h] = writers[h] /\ buffers'[h] = buffers[h]
  BY <1>1 DEF Types
<1>3. /\ r.w = writers[g] /\ r.buf = buffers[g] /\ r.disk = disk
      /\ \A h : Receiver(h).disk = disk
  BY ReceiverFacts
<1> HIDE DEF r
<1>4. /\ Well(conf, day, s) /\ Holds(s) \subseteq Holds(r) \cup new
      /\ buffers[g].err => s.buf = buffers[g] /\ s.disk = disk /\ (s.w.file = "open" => s.w = writers[g])
  BY <1>1, <1>3 DEF Calls
<1>5. GoodDisk(conf, day, disk')
  BY <1>1, <1>4 DEF Well, GoodReceiver
<1>6. conf' = conf /\ Due' = Due /\ day' = day
  BY DEF conf, Due
<1>7. Holds(Receiver(g)') = Holds(s)
  BY <1>1, <1>2, ReceiverFactsNext DEF Holds
<1>8. Well(conf, day, Receiver(g)')
  BY <1>1, <1>2, <1>4, ReceiverFactsNext, WellOf
<1>9. ASSUME NEW h \in Generations, h # g
      PROVE  Well(conf, day, Receiver(h)') /\ Holds(Receiver(h)') \subseteq Holds(Receiver(h)) \cup Holds(s)
  <2>1. Well(conf, day, Receiver(h))
    BY DEF Receivers
  <2>2. /\ IsReceiver(Receiver(h)') /\ Receiver(h)'.ok \in BOOLEAN /\ Receiver(h)'.rolled \in BOOLEAN
        /\ Receiver(h)'.w = Receiver(h).w /\ Receiver(h)'.buf = Receiver(h).buf
        /\ Receiver(h)'.disk = s.disk
    BY <1>1, <1>2, <1>9, ReceiverFacts, ReceiverFactsNext
  <2>3. Holds(Receiver(h)') \subseteq Holds(Receiver(h)) \cup Holds(s)
    BY <2>2 DEF Holds
  <2>4. CASE s.disk = disk
    BY <1>3, <2>1, <2>2, <2>3, <2>4, WellOf
  <2>5. CASE g = current
    <3>1. Receiver(h).w.file # "open" /\ (Receiver(h).buf.data = <<>> \/ Receiver(h).buf.err)
      BY <1>9, <2>5, OthersAreIdle, ReceiverFacts DEF IsIdle
    <3>2. QED
      BY <1>1, <1>5, <2>1, <2>2, <2>3, <3>1, IdleIsWell
  <2>6. QED
    BY <1>4, <2>4, <2>5
<1>10. \A h \in Generations : Well(conf, day, Receiver(h)')
  BY <1>8, <1>9
<1>11. \A h \in Generations : Holds(Receiver(h)') \subseteq Holds(Receiver(h)) \cup Holds(Receiver(g)) \cup new
  BY <1>4, <1>7, <1>9 DEF r
<1>12. \A h \in Generations : Holds(Receiver(h)') \subseteq Due \cap (1 .. logged')
  <2>1. 1 .. logged \subseteq 1 .. logged'
    BY DEF Types
  <2>2. QED
    BY <1>11, <2>1 DEF Receivers
<1>13. reported' \subseteq Due
  BY <1>1 DEF Receivers
<1>14. Receivers'
  BY <1>6, <1>10, <1>12, <1>13 DEF Receivers
<1>15. buffers[g].err => /\ buffers'[g] = buffers[g] /\ disk' = disk
                         /\ writers'[g].file = "open" => writers[g].file = "open"
  BY <1>1, <1>2, <1>4
<1>16. QED
  BY <1>2, <1>11, <1>14, <1>15

LEMMA ServedComplete ==
  ASSUME Types, Receivers, Queued, Replaced, Complete,
         NEW g \in Generations, g = current \/ buffers[g].err,
         NEW s, NEW new, NEW fault, Served(g, s, new, fault), UNCHANGED <<instance, day, lost>>,
         logged' \in Nat, logged <= logged', new \subseteq Due \cap (1 .. logged'),
         \A m \in Due \cap (1 .. logged') :
            m \in new \/ InQueue(m)' \/ (m <= logged /\ ~InQueue(m)),
         \A m : m \in new \/ InQueue(m)' => InQueue(m) \/ (m \in Nat /\ m > logged)
  PROVE  Complete'
<1> DEFINE r == Receiver(g)
<1>1. conf' = conf /\ Due' = Due /\ day' = day /\ lost' = lost /\ logged \in Nat
  BY DEF conf, Due, Types
<1> SUFFICES ASSUME ~Refusing', NEW m \in (1 .. logged') \cap Due
             PROVE  m \in OnDisk(disk') \cup InMemory' \cup reported' \cup lost \/ Away(m)'
  BY <1>1 DEF Complete
<1>2. /\ Calls(conf, day, r, s, new, fault) /\ disk' = s.disk
      /\ reported' = reported \cup (IF s.ok THEN {} ELSE new)
  BY DEF Served
<1>3. /\ buffers'[g] = s.buf /\ (buffers[g].err => buffers'[g].err)
      /\ \A h \in Generations : h # g => buffers'[h] = buffers[h]
  BY ServedReceivers
<1>4. /\ r.buf = buffers[g] /\ r.disk = disk /\ Holds(r) = OnDisk(disk) \cup ToSet(buffers[g].data)
      /\ Holds(s) = OnDisk(disk') \cup ToSet(buffers'[g].data)
  BY <1>2, <1>3, ReceiverFacts DEF Holds
<1> HIDE DEF r
<1>5. \A h \in Generations : ~buffers'[h].err
  BY DEF Refusing
<1>6. ~s.buf.err /\ ~Refusing /\ g = current
  BY <1>3, <1>5 DEF Refusing
<1>7. \A h \in Generations : h # g => /\ buffers[h].data = <<>> /\ buffers'[h].data = <<>>
                                      /\ queues[h] = <<>>
  BY <1>3, <1>5, <1>6, OthersAreIdle DEF IsIdle
<1>8. ToSet(<<>>) = {}
  BY DEF ToSet
<1>9. \A k : InQueue(k) <=> k \in ToSet(queues[g])
  BY <1>7, <1>8 DEF InQueue
<1>10. \A k : k \in InMemory <=> k \in ToSet(buffers[g].data) \/ InQueue(k)
  BY <1>7, <1>8, MemoryHas DEF InQueue
<1>11. \A k : k \in InMemory' <=> k \in ToSet(s.buf.data) \/ InQueue(k)'
  BY <1>3, <1>7, <1>8, MemoryHasNext DEF InQueue
<1>12. m \in Nat
  OBVIOUS
<1>13. ASSUME Gone(conf, day, s, m), \A k : InQueue(k)' => m < k
       PROVE  Away(m)'
  <2>1. PICK b \in Nat : Behind(conf, CurrentName(conf, day), s.disk, b, m)
    BY <1>13 DEF Gone
  <2>2. Behind(conf', CurrentName(conf', day'), disk', b, m)
    BY <1>1, <1>2, <2>1
  <2>3. \A k \in InMemory' : m < k
    BY <1>11, <1>13 DEF Gone
  <2>4. QED
    BY <2>2, <2>3 DEF Away
<1>14. CASE m \in new
  <2>1. m \in Holds(s) \/ ~s.ok
    BY <1>2, <1>6, <1>14 DEF Calls
  <2>2. QED
    BY <1>2, <1>3, <1>4, <1>11, <1>14, <2>1
<1>15. CASE InQueue(m)'
  BY <1>11, <1>15
<1>16. CASE m \in Holds(r)
  <2>1. m \in Holds(s) \/ Gone(conf, day, s, m)
    BY <1>2, <1>6, <1>16 DEF Calls
  <2>2. \A k \in ToSet(queues[g]) : m < k
    BY <1>16 DEF Queued, r
  <2>3. m <= logged
    BY <1>1, <1>16 DEF Receivers, r
  <2>4. \A k : InQueue(k)' => m < k
    BY <1>1, <1>9, <1>12, <2>2, <2>3
  <2>5. QED
    BY <1>3, <1>4, <1>11, <1>13, <2>1, <2>4
<1>17. CASE m <= logged /\ Away(m)
  <2>1. PICK b \in Nat : Behind(conf, CurrentName(conf, day), disk, b, m)
    BY <1>17 DEF Away
  <2>2. \A k \in InMemory : m < k
    BY <1>17 DEF Away
  <2>3. Gone(conf, day, r, m)
    BY <1>4, <1>10, <2>1, <2>2 DEF Gone
  <2>4. \A k : InQueue(k) \/ (k \in Nat /\ k > logged) => m < k
    BY <1>1, <1>10, <1>12, <1>17, <2>2
  <2>5. Gone(conf, day, s, m)
    BY <1>2, <1>6, <1>12, <2>3, <2>4 DEF Calls
  <2>6. QED
    BY <1>13, <2>4, <2>5
<1>18. CASE m <= logged /\ ~InQueue(m)
  <2>1. m \in OnDisk(disk) \cup InMemory \cup reported \cup lost \/ Away(m)
    BY <1>1, <1>6, <1>12, <1>18 DEF Complete
  <2>2. QED
    BY <1>2, <1>4, <1>10, <1>16, <1>17, <1>18, <2>1
<1>19. QED
  BY <1>14, <1>15, <1>18

LEMMA CardParts ==
  ASSUME NEW S, NEW T, IsFiniteSet(S), IsFiniteSet(T)
  PROVE  /\ Cardinality(T) \in Nat /\ Cardinality(S) \in Nat /\ Cardinality(T \ S) \in Nat
         /\ Cardinality(T) <= Cardinality(S) + Cardinality(T \ S)
<1>1. IsFiniteSet(T \ S) /\ Cardinality(T) \in Nat /\ Cardinality(S) \in Nat /\ Cardinality(T \ S) \in Nat
  BY CardSubset, CardType
<1>2. /\ IsFiniteSet(S \cup (T \ S))
      /\ Cardinality(S \cup (T \ S)) = Cardinality(S) + Cardinality(T \ S) - Cardinality(S \cap (T \ S))
  BY <1>1, FS_Union
<1>3. S \cap (T \ S) = {} /\ Cardinality({}) = 0
  BY FS_EmptySet
<1>4. Cardinality(T) <= Cardinality(S \cup (T \ S))
  BY <1>2, CardSubset
<1> DEFINE s == Cardinality(S)
           t == Cardinality(T)
           u == Cardinality(S \cup (T \ S))
           v == Cardinality(T \ S)
<1>5. s \in Nat /\ t \in Nat /\ v \in Nat /\ u = s + v - 0 /\ t <= u
  BY <1>1, <1>2, <1>3, <1>4
<1>6. t <= s + v
  <2> HIDE DEF s, t, u, v
  <2>1. QED
    BY <1>5
<1>7. QED
  BY <1>5, <1>6

LEMMA CardBut ==
  ASSUME NEW S, NEW x, IsFiniteSet(S)
  PROVE  /\ Cardinality(S) \in Nat /\ Cardinality(S \ {x}) \in Nat
         /\ Cardinality(S) <= Cardinality(S \ {x}) + 1
<1>1. Cardinality(S) \in Nat /\ Cardinality(S \ {x}) \in Nat
  BY CardSubset, CardType
<1>2. CASE x \in S
  BY <1>1, <1>2, FS_RemoveElement
<1>3. CASE x \notin S
  <2>1. Cardinality(S \ {x}) = Cardinality(S)
    BY <1>3, FS_RemoveElement
  <2> DEFINE s == Cardinality(S)
  <2>2. s \in Nat
    BY <1>1
  <2>3. s <= s + 1
    <3> HIDE DEF s
    <3>1. QED
      BY <2>2
  <2>4. QED
    BY <1>1, <2>1, <2>3
<1>4. QED
  BY <1>2, <1>3

LEMMA ServedFewFiles ==
  ASSUME Types, Receivers, FewFiles, NEW g \in Generations,
         NEW s, NEW new, NEW fault, Served(g, s, new, fault), UNCHANGED instance
  PROVE  FewFiles' /\ begun' \in Nat /\ faults' \in Nat
<1> DEFINE D == DOMAIN disk
           E == DOMAIN s.disk
           cur == CurrentName(conf, day)
           r == Receiver(g)
           n == conf.maxRolls
<1>1. /\ Calls(conf, day, r, s, new, fault) /\ disk' = s.disk
      /\ begun' = IF s.rolled THEN 0 ELSE begun + Cardinality(E \ D)
      /\ faults' = IF fault = "none" THEN faults ELSE faults + 1
  BY DEF Served
<1>2. day \in Nat /\ begun \in Nat /\ faults \in Nat /\ conf' = conf /\ n \in Int
      /\ conf.rolling \in {"size", "date"}
  BY ConfFacts DEF Types, conf
<1>3. r.disk = disk /\ r.rolled = FALSE
  BY ReceiverFacts
<1>4. Well(conf, day, r) /\ Well(conf, day, s) /\ Bounded(conf, cur, r, s, fault) /\ s.rolled \in BOOLEAN
  BY <1>1 DEF Calls, Receivers, Well, GoodReceiver
<1>5. IsFiniteSet(D) /\ IsFiniteSet(E)
  BY <1>3, <1>4 DEF Well, GoodReceiver, GoodDisk
<1>6. conf.rolling = "size" => cur = 0
  BY <1>2, CurrentType
<1>7. /\ Cardinality(E \ D) \in Nat /\ Cardinality(D) \in Nat /\ Cardinality(E) \in Nat
      /\ Cardinality(E) <= Cardinality(D) + Cardinality(E \ D)
      /\ Cardinality(E) <= Cardinality(E \ {cur}) + 1 /\ Cardinality(E \ {cur}) \in Nat
      /\ Cardinality(D \ {cur}) \in Nat
  BY <1>5, CardParts, CardBut
<1>8. begun' \in Nat /\ faults' \in Nat
  <2> DEFINE k == Cardinality(E \ D)
  <2>1. begun' = IF s.rolled THEN 0 ELSE begun + k
    BY <1>1
  <2>2. k \in Nat
    BY <1>7
  <2> HIDE DEF k
  <2>3. QED
    BY <1>1, <1>2, <2>1, <2>2
<1>9. ASSUME n > 0
      PROVE  IF conf.rolling = "size" THEN Cardinality(E \ {0}) <= n + faults'
             ELSE Cardinality(E) <= n + faults' + begun' + 1
  <2> DEFINE e == Cardinality(E)
             d == Cardinality(D)
             ed == Cardinality(E \ D)
             e0 == Cardinality(E \ {cur})
             d0 == Cardinality(D \ {cur})
  <2>1. /\ e \in Nat /\ d \in Nat /\ ed \in Nat /\ e0 \in Nat /\ d0 \in Nat
        /\ e <= d + ed /\ e <= e0 + 1
        /\ begun' = IF s.rolled THEN 0 ELSE begun + ed
    BY <1>1, <1>7
  <2>2. IF conf.rolling = "size" THEN d0 <= n + faults ELSE d <= n + faults + begun + 1
    BY <1>6, <1>9 DEF FewFiles
  <2>3. (s.rolled = FALSE /\ e0 = d0) \/ (s.rolled = TRUE /\ e0 <= n + IF fault = "none" THEN 0 ELSE 1)
    BY <1>3, <1>4, <1>9 DEF Bounded
  <2>4. conf.rolling = "size" => Cardinality(E \ {0}) = e0
    BY <1>6
  <2> HIDE DEF e, d, ed, e0, d0, n
  <2>5. IF conf.rolling = "size" THEN e0 <= n + faults' ELSE e <= n + faults' + begun' + 1
    BY <1>1, <1>2, <2>1, <2>2, <2>3
  <2>6. QED
    BY <2>4, <2>5 DEF e, n
<1>10. FewFiles'
  BY <1>1, <1>2, <1>9 DEF FewFiles
<1>11. QED
  BY <1>8, <1>10

-----------------------------------------------------------------------------
(* The steps                                                               *)

\* A step that no receiver takes part in.
LEMMA QuietKeeps ==
  ASSUME Types, Receivers, Complete, FewFiles,
         UNCHANGED <<instance, day, writers, buffers, disk, reported, lost, begun, faults>>,
         current' \in Generations, logged' \in Nat, logged <= logged',
         DOMAIN queues' = Generations, \A h \in Generations : queues'[h] \in Seq(Nat),
         \A m \in Due \cap (1 .. logged') : InQueue(m)' \/ (m <= logged /\ ~InQueue(m)),
         \A m : InQueue(m)' => InQueue(m) \/ (m \in Nat /\ m > logged)
  PROVE  Types' /\ Receivers' /\ Complete' /\ FewFiles'
<1>1. conf' = conf /\ Due' = Due /\ day' = day /\ lost' = lost /\ logged \in Nat
  BY DEF conf, Due, Types
<1>2. Types'
  BY DEF Types
<1>3. Receivers'
  <2>1. \A h : Receiver(h)' = Receiver(h)
    BY DEF Receiver
  <2>2. 1 .. logged \subseteq 1 .. logged'
    BY <1>1
  <2>3. QED
    BY <1>1, <2>1, <2>2 DEF Receivers
<1>4. ASSUME ~Refusing', NEW m \in (1 .. logged') \cap Due
      PROVE  m \in OnDisk(disk) \cup InMemory' \cup reported \cup lost \/ Away(m)'
  <2>1. ~Refusing
    BY <1>4 DEF Refusing
  <2>2. CASE InQueue(m)'
    BY <2>2, MemoryHasNext DEF InQueue
  <2>3. CASE m <= logged /\ ~InQueue(m)
    <3>1. m \in 1 .. logged
      BY <1>1, <2>3
    <3>2. m \in OnDisk(disk) \cup InMemory \cup reported \cup lost \/ Away(m)
      BY <2>1, <3>1 DEF Complete
    <3>3. ASSUME m \in InMemory PROVE m \in InMemory'
      BY <2>3, <3>3, MemoryHas, MemoryHasNext DEF InQueue
    <3>4. ASSUME Away(m) PROVE Away(m)'
      <4>1. ASSUME NEW k \in InMemory' PROVE m < k
        <5>1. k \in InMemory \/ (k \in Nat /\ k > logged)
          BY <4>1, MemoryHas, MemoryHasNext DEF InQueue
        <5>2. QED
          BY <1>1, <3>1, <3>4, <5>1 DEF Away
      <4>2. PICK b \in Nat : Behind(conf, CurrentName(conf, day), disk, b, m)
        BY <3>4 DEF Away
      <4>3. Behind(conf', CurrentName(conf', day'), disk', b, m)
        BY <1>1, <4>2
      <4>4. QED
        BY <4>1, <4>3 DEF Away
    <3>5. QED
      BY <3>2, <3>3, <3>4
  <2>4. QED
    BY <2>2, <2>3
<1>5. Complete'
  BY <1>1, <1>4 DEF Complete
<1>6. FewFiles'
  BY <1>1 DEF FewFiles
<1>7. QED
  BY <1>2, <1>3, <1>5, <1>6

LEMMA ServeKeeps ==
  ASSUME Inv, NEW g \in Generations, g = current \/ buffers[g].err,
         NEW s, NEW new, NEW fault, Served(g, s, new, fault),
         UNCHANGED <<instance, day, lost, current>>,
         logged' \in Nat, logged <= logged', new \subseteq Due \cap (1 .. logged'),
         DOMAIN queues' = Generations, \A h \in Generations : queues'[h] \in Seq(Nat),
         \A m \in Due \cap (1 .. logged') :
            m \in new \/ InQueue(m)' \/ (m <= logged /\ ~InQueue(m)),
         \A m : m \in new \/ InQueue(m)' => InQueue(m) \/ (m \in Nat /\ m > logged)
  PROVE  Types' /\ Receivers' /\ Complete' /\ FewFiles'
<1>1. /\ DOMAIN writers' = Generations /\ DOMAIN buffers' = Generations /\ Receivers'
  BY ServedReceivers DEF Inv
<1>2. Complete'
  BY ServedComplete DEF Inv
<1>3. FewFiles' /\ begun' \in Nat /\ faults' \in Nat
  BY ServedFewFiles DEF Inv
<1>4. Types'
  BY <1>1, <1>3 DEF Types, Inv
<1>5. QED
  BY <1>1, <1>2, <1>3, <1>4

\* The queues, when one of them is shorter by its head.
LEMMA TakeKeeps ==
  ASSUME Types, Queued, NEW g \in Generations, TakeElement(g)
  PROVE  /\ Head(queues[g]) \in Nat /\ Head(queues[g]) \in ToSet(queues[g])
         /\ DOMAIN queues' = Generations /\ \A h \in Generations : queues'[h] \in Seq(Nat)
         /\ \A h \in Generations : h # g => queues'[h] = queues[h]
         /\ queues[g] # <<>> /\ ToSet(queues[g]) = ToSet(queues'[g]) \cup {Head(queues[g])}
         /\ \A i, j \in DOMAIN queues'[g] : i < j => queues'[g][i] < queues'[g][j]
         /\ \A l \in ToSet(queues'[g]) : Head(queues[g]) < l
<1> DEFINE q == queues[g]
           t == Tail(q)
<1>1. q \in Seq(Nat) /\ q # <<>> /\ queues' = [queues EXCEPT ![g] = t]
  BY DEF TakeElement, Types
<1>2. /\ Len(q) \in Nat \ {0} /\ Head(q) = q[1] /\ t \in Seq(Nat) /\ Len(t) = Len(q) - 1
      /\ \A i \in 1 .. Len(q) - 1 : t[i] = q[i + 1]
      /\ DOMAIN q = 1 .. Len(q) /\ DOMAIN t = 1 .. Len(q) - 1 /\ Head(q) \in Nat
      /\ ToSet(q) = ToSet(t) \cup {Head(q)}
  BY <1>1, TailFacts, LenProperties, ToSetTail
<1>3. \A i, j \in 1 .. Len(q) : i < j => q[i] < q[j]
  BY <1>2 DEF Queued
<1>4. DOMAIN queues' = Generations /\ queues'[g] = t /\ \A h \in Generations : h # g => queues'[h] = queues[h]
  BY <1>1 DEF Types
<1>5. \A h \in Generations : queues'[h] \in Seq(Nat)
  BY <1>2, <1>4 DEF Types
<1> HIDE DEF t
<1> DEFINE n == Len(q)
<1>6. ASSUME NEW i \in DOMAIN t, NEW j \in DOMAIN t, i < j PROVE t[i] < t[j]
  <2>1. i \in 1 .. n - 1 /\ j \in 1 .. n - 1 /\ n \in Nat
    BY <1>2
  <2>2. i + 1 \in 1 .. n /\ j + 1 \in 1 .. n /\ i + 1 < j + 1
    <3> HIDE DEF n
    <3>1. QED
      BY <1>6, <2>1
  <2>3. q[i + 1] < q[j + 1]
    BY <1>3, <2>2
  <2>4. QED
    BY <1>2, <2>1, <2>3
<1>7. ASSUME NEW l \in ToSet(t) PROVE Head(q) < l
  <2>1. PICK i \in 1 .. n - 1 : l = t[i]
    BY <1>2, <1>7 DEF ToSet
  <2>2. n \in Nat
    BY <1>2
  <2>3. i + 1 \in 1 .. n /\ 1 \in 1 .. n /\ 1 < i + 1
    <3> HIDE DEF n
    <3>1. QED
      BY <2>1, <2>2
  <2>4. q[1] < q[i + 1]
    BY <1>3, <2>3
  <2>5. QED
    BY <1>2, <2>1, <2>4
<1>8. QED
  BY <1>1, <1>2, <1>4, <1>5, <1>6, <1>7

LEMMA EmptyQueue ==
  ASSUME NEW q, q = <<>>
  PROVE  ToSet(q) = {} /\ DOMAIN q = {}
  BY DEF ToSet

\* A logger that has something to do serves, or its buffer refuses.
LEMMA BusyServes ==
  ASSUME Types, Replaced, NEW g \in Generations
  PROVE  /\ queues[g] # <<>> => g = current
         /\ buffers[g].data # <<>> => g = current \/ buffers[g].err
  BY OthersAreIdle DEF IsIdle

LEMMA ProcessElementKeeps ==
  ASSUME Inv, NEW g \in Generations, ProcessElement(g),
         UNCHANGED <<instance, day, current, pc, logged, lost>>
  PROVE  Inv'
<1> DEFINE m == Head(queues[g])
           new == IF m \in conf.passes THEN {m} ELSE {}
           r == Receiver(g)
<1>1. Types /\ Receivers /\ Queued /\ Replaced /\ TakeElement(g)
  BY DEF Inv, ProcessElement
<1>2. /\ m \in Nat /\ m \in ToSet(queues[g])
      /\ DOMAIN queues' = Generations /\ \A h \in Generations : queues'[h] \in Seq(Nat)
      /\ \A h \in Generations : h # g => queues'[h] = queues[h]
      /\ queues[g] # <<>> /\ ToSet(queues[g]) = ToSet(queues'[g]) \cup {m}
      /\ \A i, j \in DOMAIN queues'[g] : i < j => queues'[g][i] < queues'[g][j]
      /\ \A l \in ToSet(queues'[g]) : m < l
  BY <1>1, TakeKeeps
<1>3. g = current
  BY <1>1, <1>2, BusyServes
<1>4. \A h \in Generations : h # g => queues[h] = <<>> /\ ToSet(queues[h]) = {} /\ DOMAIN queues[h] = {}
  BY <1>1, <1>3, OthersAreIdle, EmptyQueue DEF IsIdle
<1>5. /\ \A k \in Holds(r) : k < m
      /\ m \in (1 .. logged) \ conf.unused
  BY <1>1, <1>2 DEF Queued
<1>6. PICK fault \in Faults : Becomes(g, Process(r, m, fault), fault)
  BY DEF ProcessElement
<1> HIDE DEF m
<1>7. PICK s : Served(g, s, new, fault)
  BY <1>1, <1>2, <1>5, <1>6, ProcessServes
<1>8. conf' = conf /\ Due' = Due /\ logged' = logged /\ logged \in Nat /\ logged <= logged'
  BY <1>1 DEF conf, Due, Types
<1>9. new \subseteq Due \cap (1 .. logged')
  BY <1>5, <1>8 DEF Due
<1>10. \A k : InQueue(k) <=> k \in ToSet(queues'[g]) \cup {m}
  BY <1>2, <1>4 DEF InQueue
<1>11. \A k : InQueue(k)' <=> k \in ToSet(queues'[g])
  BY <1>2, <1>4 DEF InQueue
<1>12. \A k \in Due \cap (1 .. logged') : k \in new \/ InQueue(k)' \/ (k <= logged /\ ~InQueue(k))
  BY <1>8, <1>10, <1>11 DEF Due
<1>13. \A k : k \in new \/ InQueue(k)' => InQueue(k) \/ (k \in Nat /\ k > logged)
  BY <1>10, <1>11
<1> HIDE DEF new, r
<1>14. Types' /\ Receivers' /\ Complete' /\ FewFiles'
  BY <1>2, <1>3, <1>7, <1>8, <1>9, <1>12, <1>13, ServeKeeps
<1>15. /\ \A h \in Generations : h # g => writers'[h] = writers[h] /\ buffers'[h] = buffers[h]
       /\ \A h \in Generations : Holds(Receiver(h)') \subseteq Holds(Receiver(h)) \cup Holds(r) \cup new
  BY <1>1, <1>3, <1>7, <1>8, <1>9, ServedReceivers DEF r
<1>16. Queued'
  <2>1. ASSUME NEW h \in Generations, h # g
        PROVE  queues'[h] = <<>> /\ ToSet(queues'[h]) = {} /\ DOMAIN queues'[h] = {}
    BY <1>2, <1>4, <2>1
  <2>2. \A k \in Holds(Receiver(g)'), l \in ToSet(queues'[g]) : k < l
    <3>1. \A k \in Holds(r), l \in ToSet(queues[g]) : k < l
      BY <1>1 DEF Queued, r
    <3>2. \A k \in Holds(Receiver(g)') : k \in Holds(r) \/ k = m
      BY <1>15 DEF r, new
    <3>3. QED
      BY <1>2, <3>1, <3>2
  <2>3. ToSet(queues'[g]) \subseteq (1 .. logged') \ conf'.unused
    BY <1>1, <1>2, <1>8 DEF Queued
  <2>4. conf'.async
    BY <1>1, <1>2, <1>8 DEF Queued
  <2>5. QED
    BY <1>2, <2>1, <2>2, <2>3, <2>4 DEF Queued
<1>17. Replaced'
  <2>1. ~IsIdle(g)
    BY <1>2 DEF IsIdle
  <2>2. \A h \in Generations : h # g => (IsIdle(h)' <=> IsIdle(h)) /\ writers'[h] = writers[h] /\ buffers'[h] = buffers[h]
    BY <1>2, <1>15 DEF IsIdle
  <2>3. pc' = pc /\ current' = current
    OBVIOUS
  <2>4. QED
    BY <1>1, <1>3, <1>8, <2>1, <2>2, <2>3 DEF Replaced, Generations
<1>18. QED
  BY <1>14, <1>16, <1>17 DEF Inv

\* Infof and its like without a queue: the queues are empty.
LEMMA LogNowKeeps ==
  ASSUME Inv, pc = "idle", LogNow, UNCHANGED <<instance, day, lost>>
  PROVE  Inv'
<1> DEFINE g == current
           m == logged + 1
           new == IF m \in conf.passes THEN {m} ELSE {}
           r == Receiver(g)
<1>1. Types /\ Receivers /\ Queued /\ Replaced
  BY DEF Inv
<1>2. /\ ~conf.async /\ m \notin conf.unused /\ logged' = m /\ g \in Generations /\ logged \in Nat
      /\ queues' = queues /\ current' = current /\ pc' = pc
  BY <1>1 DEF LogNow, Types
<1>3. m \in Nat /\ m \in 1 .. m /\ logged <= m /\ \A k \in 1 .. logged : k < m
  BY <1>2
<1> HIDE DEF m
<1>4. \A k \in Holds(r) : k < m
  BY <1>1, <1>2, <1>3 DEF Receivers
<1>5. PICK fault \in Faults : Becomes(g, Process(r, m, fault), fault)
  BY DEF LogNow, m
<1> HIDE DEF g
<1>6. PICK s : Served(g, s, new, fault)
  BY <1>1, <1>2, <1>3, <1>4, <1>5, ProcessServes
<1>7. conf' = conf /\ Due' = Due
  BY DEF conf, Due
<1>8. \A h \in Generations : queues[h] = <<>> /\ ToSet(queues[h]) = {} /\ DOMAIN queues[h] = {}
  BY <1>1, <1>2, EmptyQueue DEF Queued
<1>9. \A k : ~InQueue(k) /\ ~InQueue(k)'
  BY <1>2, <1>8 DEF InQueue
<1>10. new \subseteq Due \cap (1 .. logged')
  BY <1>2, <1>3 DEF Due
<1>11. \A k \in Due \cap (1 .. logged') : k \in new \/ InQueue(k)' \/ (k <= logged /\ ~InQueue(k))
  <2>1. \A k \in 1 .. m : k <= logged \/ k = m
    BY <1>2 DEF m
  <2>2. QED
    BY <1>2, <1>9, <2>1 DEF Due
<1>12. \A k : k \in new \/ InQueue(k)' => InQueue(k) \/ (k \in Nat /\ k > logged)
  <2>1. m > logged
    BY <1>2 DEF m
  <2>2. QED
    BY <1>3, <1>9, <2>1
<1>13. DOMAIN queues' = Generations /\ \A h \in Generations : queues'[h] \in Seq(Nat)
  BY <1>1, <1>2 DEF Types
<1> HIDE DEF new, r
<1>14. g = current \/ buffers[g].err
  BY DEF g
<1>15. logged' \in Nat /\ logged <= logged'
  BY <1>2, <1>3
<1>16. Types' /\ Receivers' /\ Complete' /\ FewFiles'
  BY <1>2, <1>6, <1>10, <1>11, <1>12, <1>13, <1>14, <1>15, ServeKeeps
<1>17. \A h \in Generations : h # g => writers'[h] = writers[h] /\ buffers'[h] = buffers[h]
  BY <1>1, <1>2, <1>6, <1>10, <1>14, <1>15, ServedReceivers
<1>18. Queued'
  BY <1>2, <1>7, <1>8 DEF Queued
<1>19. Replaced'
  <2>1. \A h \in Generations : h # g => (IsIdle(h)' <=> IsIdle(h)) /\ writers'[h] = writers[h] /\ buffers'[h] = buffers[h]
    BY <1>2, <1>17 DEF IsIdle
  <2>2. pc' = "idle" /\ current' = g
    BY <1>2 DEF g
  <2>3. QED
    BY <1>1, <1>2, <2>1, <2>2 DEF Replaced, Generations, g
<1>20. QED
  BY <1>16, <1>18, <1>19 DEF Inv

\* A step that flushes the receiver of g and takes nothing from the queues.
LEMMA FlushKeeps ==
  ASSUME Inv, NEW g \in Generations, g = current \/ buffers[g].err,
         NEW out, NEW fault, Calls(conf, day, Receiver(g), out, {}, fault), Becomes(g, out, fault),
         UNCHANGED <<instance, day, lost, current, logged, queues>>
  PROVE  /\ Types' /\ Receivers' /\ Complete' /\ FewFiles' /\ Queued' /\ conf' = conf
         /\ \A h \in Generations : h # g => writers'[h] = writers[h] /\ buffers'[h] = buffers[h]
         /\ writers'[g] = out.w /\ buffers'[g] = out.buf
         /\ buffers[g].err => /\ buffers'[g] = buffers[g]
                              /\ writers'[g].file = "open" => writers[g].file = "open"
<1> DEFINE r == Receiver(g)
<1>1. Types /\ Receivers /\ Queued /\ Replaced
  BY DEF Inv
<1>2. r.reported = reported /\ out.reported = r.reported
  BY ReceiverFacts DEF Calls
<1> HIDE DEF r
<1>3. Served(g, out, {}, fault)
  BY <1>2, BecomesServed
<1>4. /\ logged' = logged /\ logged \in Nat /\ logged <= logged' /\ queues' = queues
      /\ DOMAIN queues' = Generations /\ \A h \in Generations : queues'[h] \in Seq(Nat)
      /\ conf' = conf
  BY <1>1 DEF Types, conf
<1>5. \A m : InQueue(m)' <=> InQueue(m)
  BY <1>4 DEF InQueue
<1>6. \A m \in Due \cap (1 .. logged') : m \in {} \/ InQueue(m)' \/ (m <= logged /\ ~InQueue(m))
  BY <1>4, <1>5
<1>7. Types' /\ Receivers' /\ Complete' /\ FewFiles'
  BY <1>3, <1>4, <1>5, <1>6, ServeKeeps
<1>8. /\ \A h \in Generations : h # g => writers'[h] = writers[h] /\ buffers'[h] = buffers[h]
      /\ writers'[g] = out.w /\ buffers'[g] = out.buf
      /\ buffers[g].err => /\ buffers'[g] = buffers[g] /\ disk' = disk
                           /\ writers'[g].file = "open" => writers[g].file = "open"
      /\ \A h \in Generations : Holds(Receiver(h)') \subseteq Holds(Receiver(h)) \cup Holds(Receiver(g)) \cup {}
  BY <1>1, <1>3, <1>4, ServedReceivers
<1>9. ASSUME NEW h \in Generations, NEW k \in Holds(Receiver(h)'), NEW l \in ToSet(queues[h])
      PROVE  k < l
  <2>1. k \in Holds(Receiver(h))
    <3>1. CASE h = g
      BY <1>8, <3>1
    <3>2. CASE h # g /\ g = current
      <4>1. queues[h] = <<>>
        BY <1>1, <3>2, BusyServes
      <4>2. QED
        BY <4>1, EmptyQueue
    <3>3. CASE h # g /\ buffers[g].err
      <4>1. buffers'[h] = buffers[h] /\ disk' = disk
        BY <1>8, <3>3
      <4>2. Holds(Receiver(h)) = OnDisk(disk) \cup ToSet(buffers[h].data)
        BY ReceiverFacts
      <4>3. Holds(Receiver(h)') = OnDisk(disk') \cup ToSet(buffers'[h].data)
        BY ReceiverFactsNext
      <4>4. Holds(Receiver(h)') = Holds(Receiver(h))
        BY <4>1, <4>2, <4>3
      <4>5. QED
        BY <1>9, <4>4
    <3>4. QED
      BY <3>1, <3>2, <3>3
  <2>2. QED
    BY <1>1, <2>1 DEF Queued
<1>10. Queued'
  BY <1>1, <1>4, <1>9 DEF Queued
<1>11. QED
  BY <1>4, <1>7, <1>8, <1>10

LEMMA FlushPeriodicallyKeeps ==
  ASSUME Inv, NEW g \in Generations, FlushPeriodically(g)
  PROVE  Inv'
<1>1. Types /\ Receivers /\ Replaced
  BY DEF Inv
<1>2. /\ buffers[g].data # <<>>
      /\ UNCHANGED <<instance, day, lost, current, logged, queues, pc>>
  BY DEF FlushPeriodically
<1>3. PICK fault \in Faults : Becomes(g, FlushInner(conf, day, Receiver(g), fault), fault)
  BY DEF FlushPeriodically
<1> DEFINE out == FlushInner(conf, day, Receiver(g), fault)
<1>4. g = current \/ buffers[g].err
  BY <1>1, <1>2, BusyServes
<1>5. Calls(conf, day, Receiver(g), out, {}, fault)
  <2>1. GoodConf(conf) /\ day \in Nat /\ Well(conf, day, Receiver(g))
    BY <1>1, ConfFacts DEF Types, Receivers
  <2>2. QED
    BY <2>1, FlushInnerCalls
<1> HIDE DEF out
<1>6. /\ Types' /\ Receivers' /\ Complete' /\ FewFiles' /\ Queued' /\ conf' = conf
      /\ \A h \in Generations : h # g => writers'[h] = writers[h] /\ buffers'[h] = buffers[h]
      /\ buffers[g].err => /\ buffers'[g] = buffers[g]
                           /\ writers'[g].file = "open" => writers[g].file = "open"
  BY <1>2, <1>3, <1>4, <1>5, FlushKeeps DEF out
<1>7. \A h \in Generations : IsIdle(h) => IsIdle(h)' /\ (writers[h].file # "open" => writers'[h].file # "open")
  BY <1>2, <1>6 DEF IsIdle
<1>8. current = 1 => buffers'[2].data = <<>>
  <2>1. current = 1 => g # 2
    BY <1>1, <1>2 DEF Replaced
  <2>2. QED
    BY <1>1, <1>6, <2>1 DEF Replaced, Generations
<1>9. Replaced'
  BY <1>1, <1>2, <1>6, <1>7, <1>8 DEF Replaced, Generations
<1>10. QED
  BY <1>6, <1>9 DEF Inv

LEMMA ReplaceFlushedKeeps ==
  ASSUME Inv, ReplaceFlushed
  PROVE  Inv'
<1>1. Types /\ Receivers /\ Replaced
  BY DEF Inv
<1>2. /\ pc = "flush" /\ queues[1] = <<>> /\ pc' = "close" /\ current = 1 /\ 1 \in Generations
      /\ UNCHANGED <<instance, day, lost, current, logged, queues>>
  BY <1>1 DEF ReplaceFlushed, Replaced, Generations
<1>3. PICK fault \in Faults : Becomes(1, DispatcherFlush(conf, day, Receiver(1), fault), fault)
  BY DEF ReplaceFlushed
<1> DEFINE out == DispatcherFlush(conf, day, Receiver(1), fault)
<1>4. Calls(conf, day, Receiver(1), out, {}, fault) /\ (out.buf.data = <<>> \/ out.buf.err)
  <2>1. GoodConf(conf) /\ day \in Nat /\ Well(conf, day, Receiver(1))
    BY <1>1, <1>2, ConfFacts DEF Types, Receivers
  <2>2. QED
    BY <2>1, DispatcherFlushCalls
<1> HIDE DEF out
<1>5. /\ Types' /\ Receivers' /\ Complete' /\ FewFiles' /\ Queued' /\ conf' = conf
      /\ \A h \in Generations : h # 1 => writers'[h] = writers[h] /\ buffers'[h] = buffers[h]
      /\ buffers'[1] = out.buf
  BY <1>2, <1>3, <1>4, FlushKeeps DEF out
<1>6. IsIdle(1)' /\ (IsIdle(2) => IsIdle(2)') /\ writers'[2] = writers[2] /\ buffers'[2] = buffers[2]
  BY <1>2, <1>4, <1>5 DEF IsIdle, Generations
<1>7. Replaced'
  BY <1>1, <1>2, <1>5, <1>6 DEF Replaced
<1>8. QED
  BY <1>5, <1>7 DEF Inv

LEMMA CloseFileKeeps ==
  ASSUME Inv, CloseFile
  PROVE  Inv'
<1>1. Types /\ Receivers /\ Replaced
  BY DEF Inv
<1>2. /\ pc = "closing" /\ queues[1] = <<>> /\ pc' = "closed" /\ current = 1 /\ 1 \in Generations
      /\ UNCHANGED <<instance, day, lost, current, logged, queues>>
  BY <1>1 DEF CloseFile, Replaced, Generations
<1>3. PICK fault \in Faults :
        Becomes(1, DispatcherClose(conf, day, DispatcherFlush(conf, day, Receiver(1), fault), "none"), fault)
  BY DEF CloseFile
<1> DEFINE r == Receiver(1)
           s == DispatcherFlush(conf, day, r, fault)
           t == DispatcherFlush(conf, day, s, "none")
           out == RollingClose(t)
<1>4. GoodConf(conf) /\ day \in Nat /\ Well(conf, day, r)
  BY <1>1, <1>2, ConfFacts DEF Types, Receivers
<1>5. Becomes(1, out, fault)
  BY <1>3 DEF DispatcherClose
<1> HIDE DEF r
<1>6. Calls(conf, day, r, s, {}, fault)
  BY <1>4, DispatcherFlushCalls
<1> HIDE DEF s
<1>7. Well(conf, day, s)
  BY <1>6 DEF Calls
<1>8. Calls(conf, day, s, t, {}, "none") /\ (t.buf.data = <<>> \/ t.buf.err)
  BY <1>4, <1>7, DispatcherFlushCalls
<1> HIDE DEF t
<1>9. Calls(conf, day, s, t, {}, fault)
  BY <1>4, <1>8, CallsLess
<1>10. Calls(conf, day, r, t, {}, fault)
  BY <1>4, <1>6, <1>9, CallsTwice
<1>11. Well(conf, day, t)
  BY <1>10 DEF Calls
<1>12. Calls(conf, day, t, out, {}, fault) /\ out.w.file # "open" /\ out.buf = t.buf
  BY <1>11, RollingCloseCalls
<1> HIDE DEF out
<1>13. Calls(conf, day, r, out, {}, fault)
  BY <1>4, <1>10, <1>12, CallsTwice
<1>14. /\ Types' /\ Receivers' /\ Complete' /\ FewFiles' /\ Queued' /\ conf' = conf
       /\ \A h \in Generations : h # 1 => writers'[h] = writers[h] /\ buffers'[h] = buffers[h]
       /\ writers'[1] = out.w /\ buffers'[1] = out.buf
  BY <1>2, <1>5, <1>13, FlushKeeps DEF r
<1>15. /\ IsIdle(1)' /\ (IsIdle(2) => IsIdle(2)') /\ writers'[2] = writers[2] /\ buffers'[2] = buffers[2]
       /\ writers'[1].file # "open"
  BY <1>2, <1>8, <1>12, <1>14 DEF IsIdle, Generations
<1>16. Replaced'
  BY <1>1, <1>2, <1>14, <1>15 DEF Replaced
<1>17. QED
  BY <1>14, <1>16 DEF Inv

\* A step that changes neither the receivers nor the queues.
LEMMA StillKeeps ==
  ASSUME Inv, current' \in Generations,
         UNCHANGED <<instance, day, writers, buffers, disk, reported, lost, begun, faults, queues, logged>>
  PROVE  /\ Types' /\ Receivers' /\ Complete' /\ FewFiles' /\ Queued' /\ conf' = conf
         /\ \A h \in Generations : IsIdle(h)' <=> IsIdle(h)
<1>1. Types /\ Receivers /\ Queued /\ Complete /\ FewFiles
  BY DEF Inv
<1>2. /\ conf' = conf /\ Due' = Due /\ logged \in Nat /\ logged <= logged' /\ logged' \in Nat
      /\ DOMAIN queues' = Generations /\ \A h \in Generations : queues'[h] \in Seq(Nat)
  BY <1>1 DEF conf, Due, Types
<1>3. \A m : InQueue(m)' <=> InQueue(m)
  BY DEF InQueue
<1>4. /\ \A m \in Due \cap (1 .. logged') : InQueue(m)' \/ (m <= logged /\ ~InQueue(m))
      /\ \A m : InQueue(m)' => InQueue(m) \/ (m \in Nat /\ m > logged)
  BY <1>2, <1>3
<1>5. Types' /\ Receivers' /\ Complete' /\ FewFiles'
  BY <1>1, <1>2, <1>4, QuietKeeps
<1>6. \A h : Receiver(h)' = Receiver(h)
  BY DEF Receiver
<1>7. Queued'
  BY <1>1, <1>2, <1>6 DEF Queued
<1>8. \A h \in Generations : IsIdle(h)' <=> IsIdle(h)
  BY DEF IsIdle
<1>9. QED
  BY <1>2, <1>5, <1>7, <1>8

\* A message is put at the end of the queue of the logger that serves.
LEMMA PushKeeps ==
  ASSUME Inv, Push, conf.async, logged + 1 \notin conf.unused, pc' = "idle",
         pc \in {"idle", "full"}, UNCHANGED <<instance, day, lost>>
  PROVE  Inv'
<1> DEFINE g == current
           m == logged + 1
           q == queues[g]
<1>1. Types /\ Receivers /\ Queued /\ Replaced /\ Complete /\ FewFiles
  BY DEF Inv
<1>2. /\ UNCHANGED <<writers, buffers, disk, reported, begun, faults, current>>
      /\ logged' = m /\ queues' = [queues EXCEPT ![g] = Append(@, m)]
  BY DEF Push, files
<1>3. /\ g \in Generations /\ logged \in Nat /\ m \in Nat /\ logged <= m
      /\ q \in Seq(Nat) /\ DOMAIN queues' = Generations /\ queues'[g] = Append(q, m)
      /\ \A h \in Generations : h # g => queues'[h] = queues[h]
  BY <1>1, <1>2 DEF Types
<1>4. /\ Len(q) \in Nat /\ DOMAIN q = 1 .. Len(q) /\ Append(q, m) \in Seq(Nat)
      /\ DOMAIN Append(q, m) = 1 .. Len(q) + 1
      /\ \A i \in 1 .. Len(q) : Append(q, m)[i] = q[i]
      /\ Append(q, m)[Len(q) + 1] = m
      /\ ToSet(Append(q, m)) = ToSet(q) \cup {m}
  BY <1>3, AppendFacts, LenProperties, ToSetAppend
<1>5. /\ \A k \in 1 .. logged : k < m
      /\ \A k \in 1 .. m : k <= logged \/ k = m
      /\ 1 .. logged \subseteq 1 .. m /\ m \in 1 .. m /\ m > logged
  BY <1>3
<1> DEFINE a == Append(q, m)
<1> HIDE DEF a, m
<1>6. /\ queues'[g] = a /\ a \in Seq(Nat) /\ ToSet(a) = ToSet(q) \cup {m}
      /\ DOMAIN a = 1 .. Len(q) + 1 /\ a[Len(q) + 1] = m /\ \A i \in 1 .. Len(q) : a[i] = q[i]
      /\ m \notin conf.unused
  BY <1>3, <1>4 DEF a, m
<1>7. \A h \in Generations : queues'[h] \in Seq(Nat)
  BY <1>1, <1>3, <1>6 DEF Types
<1>8. \A k : InQueue(k)' <=> InQueue(k) \/ k = m
  <2>1. \A h \in Generations : ToSet(queues'[h]) = IF h = g THEN ToSet(queues[h]) \cup {m} ELSE ToSet(queues[h])
    BY <1>3, <1>6
  <2>2. QED
    BY <1>3, <2>1 DEF InQueue
<1>9. \A k \in Due \cap (1 .. logged') : InQueue(k)' \/ (k <= logged /\ ~InQueue(k))
  BY <1>2, <1>5, <1>8
<1>10. \A k : InQueue(k)' => InQueue(k) \/ (k \in Nat /\ k > logged)
  BY <1>3, <1>5, <1>8
<1>11. Types' /\ Receivers' /\ Complete' /\ FewFiles'
  BY <1>1, <1>2, <1>3, <1>7, <1>9, <1>10, QuietKeeps
<1>12. conf' = conf /\ \A h : Receiver(h)' = Receiver(h)
  BY <1>2 DEF conf, Receiver
<1>13. Queued'
  <2>1. \A k \in ToSet(q) : k < m
    BY <1>1, <1>3, <1>5 DEF Queued
  <2>2. ASSUME NEW i \in DOMAIN a, NEW j \in DOMAIN a, i < j PROVE a[i] < a[j]
    <3>1. i \in 1 .. Len(q) /\ (j \in 1 .. Len(q) \/ j = Len(q) + 1)
      <4> DEFINE n == Len(q)
      <4>1. n \in Nat /\ i \in 1 .. n + 1 /\ j \in 1 .. n + 1
        BY <1>4, <1>6
      <4> HIDE DEF n
      <4>2. i \in 1 .. n /\ (j \in 1 .. n \/ j = n + 1)
        BY <2>2, <4>1
      <4>3. QED
        BY <4>2 DEF n
    <3>2. q[i] \in ToSet(q)
      BY <1>4, <3>1 DEF ToSet
    <3>3. CASE j \in 1 .. Len(q)
      BY <1>1, <1>3, <1>4, <1>6, <2>2, <3>1, <3>3 DEF Queued
    <3>4. CASE j = Len(q) + 1
      BY <1>6, <2>1, <3>1, <3>2, <3>4
    <3>5. QED
      BY <3>1, <3>3, <3>4
  <2>3. ToSet(a) \subseteq (1 .. logged') \ conf.unused
    BY <1>1, <1>2, <1>3, <1>5, <1>6 DEF Queued
  <2>4. \A k \in Holds(Receiver(g)), l \in ToSet(a) : k < l
    <3>1. \A k \in Holds(Receiver(g)) : k < m
      BY <1>1, <1>3, <1>5 DEF Receivers
    <3>2. QED
      BY <1>1, <1>3, <1>6, <3>1 DEF Queued
  <2>5. ASSUME NEW h \in Generations
        PROVE  /\ \A i, j \in DOMAIN queues'[h] : i < j => queues'[h][i] < queues'[h][j]
               /\ ToSet(queues'[h]) \subseteq (1 .. logged') \ conf.unused
               /\ \A k \in Holds(Receiver(h)), l \in ToSet(queues'[h]) : k < l
    <3>1. CASE h = g
      <4>1. queues'[h] = a
        BY <1>6, <3>1
      <4>2. QED
        BY <2>2, <2>3, <2>4, <3>1, <4>1
    <3>2. CASE h # g
      <4>1. queues'[h] = queues[h]
        BY <1>3, <3>2
      <4>2. QED
        BY <1>1, <1>2, <1>5, <4>1 DEF Queued
    <3>3. QED
      BY <3>1, <3>2
  <2>6. QED
    BY <1>12, <2>5 DEF Queued
<1>14. Replaced'
  <2>1. \A h \in Generations : h # g => (IsIdle(h)' <=> IsIdle(h)) /\ writers'[h] = writers[h] /\ buffers'[h] = buffers[h]
    BY <1>2, <1>3 DEF IsIdle
  <2>2. pc' = "idle" /\ current' = g
    BY <1>2
  <2>3. QED
    BY <1>1, <1>3, <2>1, <2>2 DEF Replaced, Generations
<1>15. QED
  BY <1>11, <1>13, <1>14 DEF Inv

LEMMA LogUnusedKeeps ==
  ASSUME Inv, LogUnused, pc = "idle", UNCHANGED <<instance, day, lost>>
  PROVE  Inv'
<1>1. Types /\ Receivers /\ Queued /\ Replaced /\ Complete /\ FewFiles
  BY DEF Inv
<1>2. /\ UNCHANGED <<writers, buffers, disk, reported, begun, faults, current, queues, pc>>
      /\ logged' = logged + 1 /\ logged + 1 \in conf.unused
  BY DEF LogUnused, files, process
<1>3. logged \in Nat /\ logged' \in Nat /\ logged <= logged' /\ 1 .. logged \subseteq 1 .. logged'
  BY <1>1, <1>2 DEF Types
<1>4. \A m : InQueue(m)' <=> InQueue(m)
  BY <1>2 DEF InQueue
<1>5. \A m \in Due \cap (1 .. logged') : InQueue(m)' \/ (m <= logged /\ ~InQueue(m))
  <2>1. \A m \in 1 .. logged' : m <= logged \/ m = logged + 1
    BY <1>2, <1>3
  <2>2. QED
    BY <1>2, <1>4, <2>1 DEF Due
<1>6. Types' /\ Receivers' /\ Complete' /\ FewFiles'
  BY <1>1, <1>2, <1>3, <1>4, <1>5, QuietKeeps DEF Types
<1>7. conf' = conf /\ \A h : Receiver(h)' = Receiver(h)
  BY <1>2 DEF conf, Receiver
<1>8. Queued'
  BY <1>1, <1>2, <1>3, <1>7 DEF Queued
<1>9. Replaced'
  BY <1>1, <1>2 DEF Replaced, IsIdle
<1>10. QED
  BY <1>6, <1>8, <1>9 DEF Inv

LEMMA LogKeeps ==
  ASSUME Inv, Log
  PROVE  Inv'
<1>1. pc = "idle" /\ UNCHANGED <<instance, day, lost>>
  BY DEF Log
<1>2. CASE LogUnused
  BY <1>1, <1>2, LogUnusedKeeps
<1>3. CASE LogNow
  BY <1>1, <1>3, LogNowKeeps
<1>4. CASE AddMsgToQueue
  <2>1. conf.async /\ logged + 1 \notin conf.unused
    BY <1>4 DEF AddMsgToQueue
  <2>2. CASE Push /\ UNCHANGED pc
    BY <1>1, <2>1, <2>2, PushKeeps
  <2>3. CASE pc' = "full" /\ UNCHANGED <<files, writers, buffers, queues, loops, closed, current, logged>>
    <3>1. Types /\ Replaced
      BY DEF Inv
    <3>2. /\ UNCHANGED <<writers, buffers, disk, reported, begun, faults, queues, logged, current>>
          /\ current' \in Generations
      BY <2>3, <3>1 DEF files, Types
    <3>3. /\ Types' /\ Receivers' /\ Complete' /\ FewFiles' /\ Queued' /\ conf' = conf
          /\ \A h \in Generations : IsIdle(h)' <=> IsIdle(h)
      BY <1>1, <3>2, StillKeeps
    <3>4. Replaced'
      BY <1>1, <2>1, <2>3, <3>1, <3>2, <3>3 DEF Replaced, Generations
    <3>5. QED
      BY <3>3, <3>4 DEF Inv
  <2>4. QED
    BY <1>4, <2>2, <2>3 DEF AddMsgToQueue
<1>5. QED
  BY <1>2, <1>3, <1>4 DEF Log

LEMMA FlushQueueKeeps ==
  ASSUME Inv, FlushQueue
  PROVE  Inv'
<1>1. current \in Generations
  BY DEF Inv, Types
<1>2. QED
  BY <1>1, ProcessElementKeeps DEF FlushQueue

LEMMA AddFlushedKeeps ==
  ASSUME Inv, AddFlushed
  PROVE  Inv'
<1>1. conf.async /\ logged + 1 \notin conf.unused
  BY DEF Inv, Replaced, AddFlushed
<1>2. QED
  BY <1>1, PushKeeps DEF AddFlushed

LEMMA ReplaceLoggerKeeps ==
  ASSUME Inv, ReplaceLogger
  PROVE  Inv'
<1>1. Types /\ Replaced /\ 1 \in Generations /\ 2 \in Generations
  BY DEF Inv, Generations
<1>2. CASE ReplaceFlushed
  BY <1>2, ReplaceFlushedKeeps
<1>3. CASE CloseFile
  BY <1>3, CloseFileKeeps
<1>4. CASE ReplaceFlush \/ ReplaceClose \/ ReplaceClosed \/ ReplaceCurrent
  <2>1. /\ UNCHANGED <<instance, day, writers, buffers, disk, reported, lost, begun, faults, queues, logged>>
        /\ current' \in Generations
    BY <1>1, <1>4 DEF ReplaceFlush, ReplaceClose, ReplaceClosed, ReplaceCurrent, files, Types
  <2>2. /\ Types' /\ Receivers' /\ Complete' /\ FewFiles' /\ Queued' /\ conf' = conf
        /\ \A h \in Generations : IsIdle(h)' <=> IsIdle(h)
    BY <2>1, StillKeeps
  <2>3. /\ IsIdle(1)' <=> IsIdle(1)
        /\ IsIdle(2)' <=> IsIdle(2)
        /\ pc \in {"idle", "close", "closed", "current"}
        /\ pc \in {"close", "closed", "current"} \/ current = 1
        /\ pc' = CASE pc = "idle" -> "flush" [] pc = "close" -> "closing"
                   [] pc = "closed" -> "current" [] pc = "current" -> "idle"
        /\ current' = IF pc = "current" THEN 2 ELSE current
    BY <1>1, <1>4, <2>2 DEF ReplaceFlush, ReplaceClose, ReplaceClosed, ReplaceCurrent
  <2>4. Replaced'
    <3> USE <1>1, <2>1, <2>3
    <3>1. CASE pc = "idle"
      BY <3>1 DEF Replaced
    <3>2. CASE pc = "close"
      BY <3>2 DEF Replaced
    <3>3. CASE pc = "closed"
      BY <3>3 DEF Replaced
    <3>4. CASE pc = "current"
      BY <3>4 DEF Replaced
    <3>5. QED
      BY <3>1, <3>2, <3>3, <3>4
  <2>5. QED
    BY <2>2, <2>4 DEF Inv
<1>5. QED
  BY <1>2, <1>3, <1>4 DEF ReplaceLogger

LEMMA LoopKeeps ==
  ASSUME Inv, NEW g \in Generations, Loop(g)
  PROVE  Inv'
<1>1. UNCHANGED <<instance, day, current, pc, logged, lost>>
  BY DEF Loop
<1>2. CASE ProcessElement(g)
  BY <1>1, <1>2, ProcessElementKeeps
<1>3. CASE UNCHANGED <<files, writers, buffers, queues>>
  <2>1. Types /\ Replaced
    BY DEF Inv
  <2>2. /\ UNCHANGED <<writers, buffers, disk, reported, begun, faults, queues>>
        /\ current' \in Generations
    BY <1>1, <1>3, <2>1 DEF files, Types
  <2>3. /\ Types' /\ Receivers' /\ Complete' /\ FewFiles' /\ Queued' /\ conf' = conf
        /\ \A h \in Generations : IsIdle(h)' <=> IsIdle(h)
    BY <1>1, <2>2, StillKeeps
  <2>4. Replaced'
    BY <1>1, <2>1, <2>2, <2>3 DEF Replaced, Generations
  <2>5. QED
    BY <2>3, <2>4 DEF Inv
<1>4. QED
  BY <1>2, <1>3 DEF Loop, LoopEnds, LoopFindsNothing, LoopSleeps

-----------------------------------------------------------------------------
(* Midnight, a restart, and the beginning                                  *)

LEMMA LaterIsWell ==
  ASSUME NEW c, NEW today \in Nat, NEW r, c.rolling = "date", Well(c, today, r)
  PROVE  Well(c, today + 1, r)
<1>1. GoodDisk(c, today + 1, r.disk)
  BY DEF Well, GoodReceiver, GoodDisk
<1>2. GoodWriter(c, today + 1, r.w, DOMAIN r.disk)
  BY DEF Well, GoodReceiver, GoodWriter, NeedsToRoll
<1>3. QED
  BY <1>1, <1>2 DEF Well, GoodReceiver

LEMMA MidnightKeeps ==
  ASSUME Inv, Midnight
  PROVE  Inv'
<1> DEFINE D == DOMAIN disk
<1>1. Types /\ Receivers /\ Queued /\ Replaced /\ Complete /\ FewFiles
  BY DEF Inv
<1>2. /\ conf.rolling = "date" /\ day \in Nat /\ day' = day + 1 /\ day' \in Nat
      /\ UNCHANGED <<instance, writers, buffers, queues, current, pc, disk, reported, begun, faults, logged, lost>>
  BY <1>1 DEF Midnight, process, files, Types
<1>3. conf' = conf /\ Due' = Due /\ InMemory' = InMemory /\ \A h : Receiver(h)' = Receiver(h)
  BY <1>2 DEF conf, Due, InMemory, Receiver
<1>4. \A h \in Generations : Well(conf, day', Receiver(h))
  BY <1>1, <1>2, LaterIsWell DEF Receivers
<1>5. Types' /\ Queued' /\ Replaced'
  BY <1>1, <1>2, <1>3 DEF Types, Queued, Replaced, IsIdle
<1>6. Receivers'
  BY <1>1, <1>2, <1>3, <1>4 DEF Receivers
<1>7. IsFiniteSet(D) /\ \A n \in D : n \in Nat /\ n <= day
  <2>1. Well(conf, day, Receiver(1)) /\ Receiver(1).disk = disk
    BY <1>1, ReceiverFacts DEF Receivers, Generations
  <2>2. QED
    BY <1>2, <2>1 DEF Well, GoodReceiver, GoodDisk
<1>8. CurrentName(conf, day) = day /\ CurrentName(conf, day') = day'
  BY <1>2 DEF CurrentName
<1>9. ASSUME NEW m, Away(m) PROVE Away(m)'
  <2>1. PICK b \in Nat : Behind(conf, day, disk, b, m)
    BY <1>8, <1>9 DEF Away
  <2> DEFINE S == {n \in D \ {day} : Older(conf, b, n)}
             T == {n \in D \ {day'} : Older(conf, b, n)}
  <2>2. S \subseteq T
    BY <1>2, <1>7
  <2>3. IsFiniteSet(T)
    BY <1>7, CardSubset
  <2>4. Cardinality(S) <= Cardinality(T) /\ Cardinality(S) \in Nat /\ Cardinality(T) \in Nat
    BY <2>2, <2>3, CardSubset
  <2>5. conf.maxRolls > 0 /\ Cardinality(S) >= conf.maxRolls /\ conf.maxRolls \in Int
    BY <1>1, <2>1, ConfFacts DEF Behind
  <2>6. Cardinality(T) >= conf.maxRolls
    <3> DEFINE s == Cardinality(S)
               u == Cardinality(T)
               n == conf.maxRolls
    <3>1. s <= u /\ s >= n /\ s \in Nat /\ u \in Nat /\ n \in Int
      BY <2>4, <2>5
    <3> HIDE DEF s, u, n
    <3>2. u >= n
      BY <3>1
    <3>3. QED
      BY <3>2 DEF u, n
  <2>7. Behind(conf, day', disk, b, m)
    BY <2>1, <2>6 DEF Behind
  <2>8. Behind(conf', CurrentName(conf', day'), disk', b, m)
    BY <1>2, <1>3, <1>8, <2>7
  <2>9. \A k \in InMemory' : m < k
    BY <1>3, <1>9 DEF Away
  <2>10. QED
    BY <2>8, <2>9 DEF Away
<1>10. Complete'
  BY <1>1, <1>2, <1>3, <1>9 DEF Complete, Refusing
<1>11. FewFiles'
  BY <1>1, <1>2, <1>3 DEF FewFiles
<1>12. QED
  BY <1>5, <1>6, <1>10, <1>11 DEF Inv

\* The receiver of a new process, which finds the files.
LEMMA FreshIsWell ==
  ASSUME NEW c, NEW today \in Nat, NEW r, IsReceiver(r), r.ok \in BOOLEAN, r.rolled \in BOOLEAN,
         r.w = NewWriter, r.buf = NewBuffer, GoodDisk(c, today, r.disk)
  PROVE  Well(c, today, r) /\ Holds(r) = OnDisk(r.disk)
<1>1. /\ IsWriter(r.w) /\ r.w.file = "nil" /\ r.w.name = 0 /\ r.w.size = 0
      /\ r.buf = [data |-> <<>>, err |-> FALSE] /\ r.buf.data = <<>>
  BY WriterOf DEF NewWriter, NewBuffer
<1>2. ~r.buf.err /\ r.buf.err \in BOOLEAN /\ r.buf = [data |-> r.buf.data, err |-> r.buf.err]
  <2> DEFINE no == FALSE
  <2>1. r.buf = [data |-> <<>>, err |-> no]
    BY <1>1
  <2>2. ~no /\ no \in BOOLEAN
    OBVIOUS
  <2> HIDE DEF no
  <2>3. QED
    BY <2>1, <2>2
<1>3. ToSet(r.buf.data) = {} /\ DOMAIN r.buf.data = {} /\ r.buf.data \in Seq(Nat)
  BY <1>1, EmptyQueue
<1>4. GoodReceiver(c, today, r)
  BY <1>1 DEF GoodReceiver, GoodWriter
<1>5. GoodBuffer(c, r)
  BY <1>1, <1>2, <1>3 DEF GoodBuffer
<1>6. QED
  BY <1>3, <1>4, <1>5 DEF Well, Holds

LEMMA RestartKeeps ==
  ASSUME Inv, Restart
  PROVE  Inv'
<1>1. Types /\ Receivers /\ Queued /\ Replaced /\ Complete /\ FewFiles
  BY DEF Inv
<1>2. /\ UNCHANGED <<instance, day, disk, reported, begun, faults, logged>>
      /\ lost' = lost \cup ((1 .. logged) \ (OnDisk(disk) \cup reported))
      /\ writers' = [g \in Generations |-> NewWriter] /\ buffers' = [g \in Generations |-> NewBuffer]
      /\ queues' = [g \in Generations |-> <<>>] /\ current' = 1 /\ pc' = "idle"
  BY DEF Restart, NewLoggers, files
<1>3. conf' = conf /\ Due' = Due
  BY <1>2 DEF conf, Due
<1>4. /\ DOMAIN writers' = Generations /\ DOMAIN buffers' = Generations /\ DOMAIN queues' = Generations
      /\ \A g \in Generations : queues'[g] = <<>> /\ writers'[g] = NewWriter /\ buffers'[g] = NewBuffer
  BY <1>2
<1>5. Types'
  BY <1>1, <1>2, <1>4 DEF Types, Generations
<1>6. GoodDisk(conf, day, disk) /\ day \in Nat /\ OnDisk(disk) \subseteq Due \cap (1 .. logged)
  <2>1. /\ Well(conf, day, Receiver(1)) /\ Receiver(1).disk = disk
        /\ OnDisk(disk) \subseteq Holds(Receiver(1)) /\ Holds(Receiver(1)) \subseteq Due \cap (1 .. logged)
    BY <1>1, ReceiverFacts DEF Receivers, Generations
  <2>2. QED
    BY <1>1, <2>1 DEF Well, GoodReceiver, Types
<1>7. ASSUME NEW g \in Generations
      PROVE  Well(conf, day, Receiver(g)') /\ Holds(Receiver(g)') = OnDisk(disk)
  <2>1. /\ IsReceiver(Receiver(g)') /\ Receiver(g)'.w = NewWriter /\ Receiver(g)'.buf = NewBuffer
        /\ Receiver(g)'.disk = disk /\ Receiver(g)'.ok \in BOOLEAN /\ Receiver(g)'.rolled \in BOOLEAN
    BY <1>2, <1>4, ReceiverFactsNext
  <2>2. QED
    BY <1>6, <2>1, FreshIsWell
<1>8. Receivers'
  BY <1>1, <1>2, <1>3, <1>6, <1>7 DEF Receivers
<1>9. Queued'
  BY <1>4, EmptyQueue DEF Queued
<1>10. Replaced'
  BY <1>2, <1>4 DEF Replaced, IsIdle, Generations, NewWriter, NewBuffer
<1>11. Complete'
  BY <1>2, <1>3 DEF Complete
<1>12. FewFiles'
  BY <1>1, <1>2, <1>3 DEF FewFiles
<1>13. QED
  BY <1>5, <1>8, <1>9, <1>10, <1>11, <1>12 DEF Inv

LEMMA InvInit ==
  ASSUME Init
  PROVE  Inv
<1>1. /\ instance \in Instances /\ pc \in {"idle", "refused", "nil"}
      /\ writers = [g \in Generations |-> NewWriter] /\ buffers = [g \in Generations |-> NewBuffer]
      /\ queues = [g \in Generations |-> <<>>] /\ current = 1
      /\ disk = <<>> /\ reported = {} /\ lost = {}
      /\ day = 0 /\ logged = 0 /\ begun = 0 /\ faults = 0
  BY LoggersAssumption DEF Init
<1>2. /\ DOMAIN writers = Generations /\ DOMAIN buffers = Generations /\ DOMAIN queues = Generations
      /\ \A g \in Generations : queues[g] = <<>> /\ writers[g] = NewWriter /\ buffers[g] = NewBuffer
  BY <1>1
<1>3. Types
  BY <1>1, <1>2 DEF Types, Generations
<1>4. DOMAIN disk = {} /\ OnDisk(disk) = {}
  BY <1>1 DEF OnDisk
<1>5. GoodDisk(conf, day, disk)
  BY <1>4, FS_EmptySet DEF GoodDisk, InOrder
<1>6. ASSUME NEW g \in Generations
      PROVE  Well(conf, day, Receiver(g)) /\ Holds(Receiver(g)) = {}
  <2>1. /\ IsReceiver(Receiver(g)) /\ Receiver(g).w = NewWriter /\ Receiver(g).buf = NewBuffer
        /\ Receiver(g).disk = disk /\ Receiver(g).ok \in BOOLEAN /\ Receiver(g).rolled \in BOOLEAN
    BY <1>2, ReceiverFacts
  <2>2. QED
    BY <1>1, <1>4, <1>5, <2>1, FreshIsWell
<1>7. Receivers
  BY <1>1, <1>6 DEF Receivers
<1>8. Queued
  BY <1>2, EmptyQueue DEF Queued
<1>9. Replaced
  BY <1>1, <1>2 DEF Replaced, IsIdle, Generations, NewWriter, NewBuffer
<1>10. Complete
  BY <1>1 DEF Complete
<1>11. FewFiles
  <2>1. Cardinality(DOMAIN disk) = 0 /\ Cardinality(DOMAIN disk \ {0}) = 0
    BY <1>4, FS_EmptySet
  <2>2. conf.maxRolls \in Int
    BY <1>3, ConfFacts
  <2> DEFINE n == conf.maxRolls
  <2>3. n > 0 => 0 <= n + 0 /\ 0 <= n + 0 + 0 + 1
    <3> HIDE DEF n
    <3>1. QED
      BY <2>2 DEF n
  <2>4. QED
    BY <1>1, <2>1, <2>3 DEF FewFiles
<1>12. QED
  BY <1>3, <1>7, <1>8, <1>9, <1>10, <1>11 DEF Inv

LEMMA InvStep ==
  ASSUME Inv, [Next]_vars
  PROVE  Inv'
<1>1. CASE Log
  BY <1>1, LogKeeps
<1>2. CASE FlushQueue
  BY <1>2, FlushQueueKeeps
<1>3. CASE AddFlushed
  BY <1>3, AddFlushedKeeps
<1>4. CASE ReplaceLogger
  BY <1>4, ReplaceLoggerKeeps
<1>5. CASE \E g \in Generations : Loop(g) \/ FlushPeriodically(g)
  BY <1>5, LoopKeeps, FlushPeriodicallyKeeps
<1>6. CASE Midnight
  BY <1>6, MidnightKeeps
<1>7. CASE Restart
  BY <1>7, RestartKeeps
<1>8. CASE UNCHANGED vars
  <2>1. Replaced /\ current \in Generations
    BY DEF Inv, Types
  <2>2. UNCHANGED <<instance, day, writers, buffers, disk, reported, lost, begun, faults, queues, logged, current, pc>>
    BY <1>8 DEF vars, process, files
  <2>3. /\ Types' /\ Receivers' /\ Complete' /\ FewFiles' /\ Queued' /\ conf' = conf
        /\ \A h \in Generations : IsIdle(h)' <=> IsIdle(h)
    BY <2>1, <2>2, StillKeeps
  <2>4. Replaced'
    BY <2>1, <2>2, <2>3 DEF Replaced, Generations
  <2>5. QED
    BY <2>3, <2>4 DEF Inv
<1>9. QED
  BY <1>1, <1>2, <1>3, <1>4, <1>5, <1>6, <1>7, <1>8 DEF Next

-----------------------------------------------------------------------------
(* The theorems                                                            *)

\* The inductive invariant.
THEOREM InvCorrect == Spec => []Inv
  BY InvInit, InvStep, PTL DEF Spec

\* The files hold the messages that are for them, in the order they were logged; and a message
\* that is not in them is in a queue or a buffer, or its failure was reported, or its process
\* stopped first, or its file was deleted and maxRolls newer ones are there: whatever the calls
\* of Infof, the loops, the tickers, ReplaceLogger and the file system do one after the other.
THEOREM LogIsKeptCorrect == Spec => []LogIsKept
<1>1. Inv => LogIsKept
  <2> SUFFICES ASSUME Inv PROVE LogIsKept
    OBVIOUS
  <2>1. Types /\ Receivers /\ Complete
    BY DEF Inv
  <2>2. /\ GoodDisk(conf, day, disk) /\ OnDisk(disk) \subseteq Due
    <3>1. /\ Well(conf, day, Receiver(1)) /\ Receiver(1).disk = disk
          /\ OnDisk(disk) \subseteq Holds(Receiver(1)) /\ Holds(Receiver(1)) \subseteq Due \cap (1 .. logged)
      BY <2>1, ReceiverFacts DEF Receivers, Generations
    <3>2. QED
      BY <3>1 DEF Well, GoodReceiver
  <2>3. InOrder(conf, disk) /\ OnDisk(disk) \cup reported \subseteq Due
    BY <2>1, <2>2 DEF GoodDisk, Receivers
  <2>4. ASSUME NEW m \in (1 .. logged) \cap Due, Away(m) PROVE IsRolledAway(m)
    <3> DEFINE cur == CurrentName(conf, day)
    <3>1. PICK b \in Nat : Behind(conf, cur, disk, b, m)
      BY <2>4 DEF Away
    <3> DEFINE S == {n \in DOMAIN disk \ {cur} : Older(conf, b, n)}
               T == {n \in OldFiles : \A k \in ToSet(disk[n]) : k > m}
               n == conf.maxRolls
               s == Cardinality(S)
               u == Cardinality(T)
    <3>2. S \subseteq T
      <4>1. ASSUME NEW x \in S, NEW k \in ToSet(disk[x]) PROVE k > m
        <5>1. m < k
          BY <3>1, <4>1 DEF Behind
        <5>2. QED
          BY <5>1
      <4>2. S \subseteq OldFiles
        BY DEF OldFiles
      <4>3. QED
        BY <4>1, <4>2
    <3>3. IsFiniteSet(T)
      BY <2>2, CardSubset DEF GoodDisk, OldFiles
    <3>4. s <= u /\ s \in Nat /\ u \in Nat
      BY <3>2, <3>3, CardSubset
    <3>5. n > 0 /\ s >= n /\ n \in Int
      BY <2>1, <3>1, ConfFacts DEF Behind
    <3> HIDE DEF s, u, n
    <3>6. n > 0 /\ u >= n
      BY <3>4, <3>5
    <3>7. QED
      BY <3>6 DEF IsRolledAway, u, n
  <2>5. QED
    BY <2>1, <2>3, <2>4 DEF Complete, LogIsKept
<1>2. QED
  BY <1>1, InvCorrect, PTL

\* There are at most maxRolls old files, those that a failed removal or rename has left, those
\* that were begun without a roll, and the one whose roll is due since midnight.
THEOREM OldFilesAreBoundedCorrect == Spec => []OldFilesAreBounded
<1>1. Inv => OldFilesAreBounded
  <2> SUFFICES ASSUME Inv, conf.maxRolls > 0
               PROVE  Cardinality(OldFiles) <= conf.maxRolls + faults + IF conf.rolling = "size" THEN 0 ELSE begun + 1
    BY DEF OldFilesAreBounded
  <2> DEFINE cur == CurrentName(conf, day)
             n == conf.maxRolls
             o == Cardinality(OldFiles)
             d == Cardinality(DOMAIN disk)
  <2>1. /\ n \in Int /\ faults \in Nat /\ begun \in Nat /\ n > 0
        /\ IF conf.rolling = "size" THEN Cardinality(DOMAIN disk \ {0}) <= n + faults ELSE d <= n + faults + begun + 1
    BY ConfFacts DEF Inv, Types, FewFiles
  <2>2. IsFiniteSet(DOMAIN disk)
    <3>1. Well(conf, day, Receiver(1)) /\ Receiver(1).disk = disk
      BY ReceiverFacts DEF Inv, Receivers, Generations
    <3>2. QED
      BY <3>1 DEF Well, GoodReceiver, GoodDisk
  <2>3. OldFiles = DOMAIN disk \ {cur}
    BY DEF OldFiles
  <2>4. o <= d /\ o \in Nat /\ d \in Nat
    BY <2>2, <2>3, CardSubset, CardType
  <2>5. conf.rolling = "size" => o <= n + faults
    BY <2>1, <2>3 DEF CurrentName
  <2> HIDE DEF n, o, d
  <2>6. o <= n + faults + IF conf.rolling = "size" THEN 0 ELSE begun + 1
    BY <2>1, <2>4, <2>5
  <2>7. QED
    BY <2>6 DEF n, o
<1>2. QED
  BY <1>1, InvCorrect, PTL

=============================================================================
