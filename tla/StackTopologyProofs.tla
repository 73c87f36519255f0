-------------------------- MODULE StackTopologyProofs --------------------------
(***************************************************************************)
(* StackTopology for any set of sessions: what the bounded walks compute,  *)
(* the edits as steps of the abstract forest of StackForest, and what no   *)
(* edit does to the stacks.  The walks are recursive functions: one lemma  *)
(* says that they have values, each other reads off what it needs.         *)
(***************************************************************************)
EXTENDS StackTopology, TLAPS, FiniteSetTheorems, WellFoundedInduction

(* Every set of naturals has a least element.                              *)
LEMMA LeastNat ==
  ASSUME NEW S \in SUBSET Nat, S # {}
  PROVE  \E x \in S : \A y \in S : x <= y
<1>1. PICK x \in S : \A y \in S : ~ (<<y, x>> \in OpToRel(<, Nat))
  BY NatLessThanWellFounded, WFMin
<1>2. ASSUME NEW y \in S, y < x PROVE FALSE
  <2>1. <<y, x>> \in Nat \X Nat /\ <<y, x>>[1] < <<y, x>>[2]
    BY <1>2
  <2>2. <<y, x>> \in OpToRel(<, Nat)
    BY <2>1 DEF OpToRel
  <2>3. QED BY <1>1, <1>2, <2>2
<1>3. QED BY <1>2

(* Induction up to N, over a set.                                          *)
LEMMA UpTo ==
  ASSUME NEW N \in Nat, NEW G, 0 \in G, \A n \in 1..N : n - 1 \in G => n \in G
  PROVE  0..N \subseteq G
<1> DEFINE Bad == {n \in 0..N : n \notin G}
<1>1. SUFFICES ASSUME Bad # {} PROVE FALSE
  OBVIOUS
<1>2. PICK n \in Bad : \A m \in Bad : n <= m
  <2>1. Bad \in SUBSET Nat
    OBVIOUS
  <2> HIDE DEF Bad
  <2>2. QED BY <1>1, <2>1, LeastNat
<1>3. n \in 1..N /\ n - 1 \in 0..N
  BY <1>2
<1>4. n - 1 \notin Bad
  BY <1>2, <1>3
<1>5. QED BY <1>2, <1>3, <1>4

(* A walk of N steps has a value at each.                                  *)
Walks(N, S, x, step) ==
  {f \in [0..N -> S] : f[0] = x /\ \A n \in 1..N : f[n] = step[n][f[n-1]]}

LEMMA Iterates ==
  ASSUME NEW N \in Nat, NEW S, NEW x \in S, NEW step \in [1..N -> [S -> S]]
  PROVE  Walks(N, S, x, step) # {}
<1> DEFINE W(k) == Walks(k, S, x, step) # {}
           G == {k \in 0..N : W(k)}
<1>1. 0 \in G
  <2> DEFINE f == [k \in 0..0 |-> x]
  <2>1. f \in [0..0 -> S] /\ f[0] = x /\ \A n \in 1..0 : f[n] = step[n][f[n-1]]
    OBVIOUS
  <2> HIDE DEF f
  <2>2. W(0)
    BY <2>1 DEF Walks
  <2>3. QED BY <2>2
<1>2. ASSUME NEW k \in 1..N, k - 1 \in G PROVE k \in G
  <2>1. PICK f \in [0..(k-1) -> S] :
          f[0] = x /\ \A n \in 1..(k-1) : f[n] = step[n][f[n-1]]
    BY <1>2 DEF Walks
  <2> DEFINE g == [n \in 0..k |-> IF n = k THEN step[k][f[k-1]] ELSE f[n]]
  <2>2. step[k][f[k-1]] \in S
    BY <2>1
  <2>3. g \in [0..k -> S] /\ g[0] = x
    BY <2>1, <2>2
  <2>4. \A n \in 1..k : g[n] = step[n][g[n-1]]
    BY <2>1
  <2> HIDE DEF g
  <2>5. W(k)
    BY <2>3, <2>4 DEF Walks
  <2>6. QED BY <2>5
<1>3. N \in G
  <2> HIDE DEF G
  <2>1. 0..N \subseteq G
    BY <1>1, <1>2, UpTo
  <2>2. QED BY <2>1
<1>4. QED BY <1>3

(* A finite set of naturals has a greatest element, which is its Max.      *)
LEMMA GreatestNat ==
  ASSUME NEW S \in SUBSET Nat, IsFiniteSet(S), S # {}
  PROVE  Max(S) \in S
<1>1. PICK n \in Nat : Surjection(1..n, S) # {}
  BY FS_NatSurjection DEF ExistsSurjection
<1>2. PICK f \in Surjection(1..n, S) : TRUE
  BY <1>1
<1>3. f \in [1..n -> S] /\ \A x \in S : \E i \in 1..n : f[i] = x
  BY <1>2 DEF Surjection
<1> DEFINE G == {k \in Nat : \E b \in Nat : \A i \in 1..k : i <= n => f[i] <= b}
<1>4. 0 \in G
  OBVIOUS
<1>5. ASSUME NEW k \in 1..n, k - 1 \in G PROVE k \in G
  <2>1. PICK b \in Nat : \A i \in 1..k-1 : i <= n => f[i] <= b
    BY <1>5
  <2>2. f[k] \in Nat
    BY <1>3
  <2>3. PICK c \in Nat : b <= c /\ f[k] <= c
    BY <2>2
  <2>4. ASSUME NEW i \in 1..k, i <= n PROVE f[i] <= c
    <3>1. i = k \/ i \in 1..k-1
      OBVIOUS
    <3>2. i \in 1..n /\ f[i] \in S /\ f[i] \in Nat
      <4>1. i \in 1..n
        BY <2>4
      <4>2. QED BY <1>3, <4>1
    <3>3. QED BY <2>1, <2>3, <2>4, <3>1, <3>2
  <2>5. QED BY <2>4
<1>6. n \in G
  <2> HIDE DEF G
  <2>1. 0..n \subseteq G
    BY <1>4, <1>5, UpTo
  <2>2. QED BY <2>1
<1> DEFINE B == {b \in Nat : \A x \in S : x <= b}
<1>7. B # {}
  <2>1. PICK b \in Nat : \A i \in 1..n : f[i] <= b
    BY <1>6
  <2>2. \A x \in S : x <= b
    BY <1>3, <2>1
  <2>3. QED BY <2>2
<1>8. PICK b \in B : \A c \in B : b <= c
  BY <1>7, LeastNat
<1>9. b \in S
  <2>1. SUFFICES ASSUME b \notin S PROVE FALSE
    OBVIOUS
  <2>2. PICK y \in S : TRUE
    OBVIOUS
  <2>3. b - 1 \in Nat /\ \A x \in S : x <= b - 1
    BY <2>1, <2>2, <1>8
  <2>4. QED BY <1>8, <2>3
<1>10. QED BY <1>8, <1>9 DEF Max
-----------------------------------------------------------------------------
(* Parents and bounds.                                                     *)
LEMMA ParentsLive ==
  ASSUME TypeOK
  PROVE  /\ live \subseteq Session /\ live \subseteq Nat /\ None \notin live /\ Main \notin live
         /\ None \notin Session
         /\ IsFiniteSet(live) /\ Bound \in Nat
         /\ \A s \in Session : Resolve(s) \in live \cup {None}
         /\ Parent \in [Session -> Session \cup {None}]
         /\ \A s \in live : Parent[s] = Resolve(s)
<1>1. live \subseteq Session
  BY DEF TypeOK
<1>2. IsFiniteSet(live)
  BY <1>1, TopologyAssumption, FS_Subset
<1>3. Bound \in Nat
  BY <1>2, FS_CardinalityType DEF Bound
<1>4. \A s \in Session : Resolve(s) \in live \cup {None}
  BY DEF Resolve
<1>5. QED BY <1>1, <1>2, <1>3, <1>4, TopologyAssumption DEF Parent

(* One more session than there are is one twice.                           *)
LEMMA TooMany ==
  ASSUME TypeOK, NEW f \in [0..Bound -> live]
  PROVE  \E i, j \in 0..Bound : i < j /\ f[i] = f[j]
<1>1. IsFiniteSet(0..Bound) /\ Cardinality(0..Bound) = Bound + 1
  BY ParentsLive, FS_Interval
<1>2. IsFiniteSet(live) /\ Bound \in Nat /\ Cardinality(live) = Bound
  BY ParentsLive DEF Bound
<1>3. Cardinality(live) < Cardinality(0..Bound)
  BY <1>1, <1>2
<1>4. PICK i, j \in 0..Bound : i # j /\ f[i] = f[j]
  BY <1>1, <1>2, <1>3, FS_PigeonHole
<1>5. i < j \/ j < i
  BY <1>2, <1>4
<1>6. QED BY <1>4, <1>5

(* The climb of the cycle check: from a session to its parent, and nowhere *)
(* from a root.                                                            *)
Above(at) == IF at \in live THEN Resolve(at) ELSE None

LEMMA Climb ==
  ASSUME TypeOK, NEW c \in Session \cup {None}
  PROVE  \E f \in [0..Bound -> Session \cup {None}] :
           /\ f[0] = c /\ \A n \in 1..Bound : f[n] = Above(f[n-1])
           /\ \A a : IsDescendant(c, a) <=> \E n \in 1..Bound : f[n] = a
<1> DEFINE S == Session \cup {None}
           Rule(g) == [n \in 0..Bound |->
                         IF n = 0 THEN c
                         ELSE LET at == g[n-1] IN IF at \in live THEN Resolve(at) ELSE None]
<1>1. Bound \in Nat /\ \A at \in S : Above(at) \in S
  BY ParentsLive DEF Above
<1>2. PICK f \in [0..Bound -> S] : f[0] = c /\ \A n \in 1..Bound : f[n] = Above(f[n-1])
  <2> DEFINE step == [n \in 1..Bound |-> [at \in S |-> Above(at)]]
  <2>1. step \in [1..Bound -> [S -> S]]
    BY <1>1
  <2>2. \A n \in 1..Bound, at \in S : step[n][at] = Above(at)
    OBVIOUS
  <2> HIDE DEF step
  <2>3. PICK f \in [0..Bound -> S] : f[0] = c /\ \A n \in 1..Bound : f[n] = step[n][f[n-1]]
    <3>1. c \in S
      OBVIOUS
    <3> HIDE DEF S
    <3>2. Walks(Bound, S, c, step) # {}
      BY <1>1, <2>1, <3>1, Iterates
    <3>3. QED BY <3>2 DEF Walks
  <2>4. \A n \in 1..Bound : f[n-1] \in S
    BY <1>1
  <2>5. QED BY <2>2, <2>3, <2>4
<1>3. f = Rule(f)
  BY <1>1, <1>2 DEF Above
<1> DEFINE g == CHOOSE g : g = Rule(g)
<1>4. g = Rule(g)
  BY <1>3
<1>5. \A a : IsDescendant(c, a) <=> \E n \in 1..Bound : g[n] = a
  BY DEF IsDescendant
<1> HIDE DEF g
<1>6. g[0] = c /\ \A n \in 1..Bound : g[n] = Above(g[n-1])
  BY <1>1, <1>4 DEF Above
<1>7. 0..Bound \subseteq {n \in 0..Bound : g[n] \in S}
  <2> DEFINE G == {n \in 0..Bound : g[n] \in S}
  <2>1. 0 \in G /\ \A n \in 1..Bound : n - 1 \in G => n \in G
    BY <1>1, <1>6
  <2> HIDE DEF G
  <2>2. 0..Bound \subseteq G
    BY <1>1, <2>1, UpTo
  <2>3. QED BY <2>2 DEF G
<1>8. g \in [0..Bound -> S]
  BY <1>4, <1>7
<1>9. QED BY <1>5, <1>6, <1>8

(* The walk to the base of a stack stays at the first root.                *)
Higher(at) == IF Resolve(at) = None THEN at ELSE Resolve(at)

LEMMA BaseWalk ==
  ASSUME TypeOK, NEW s \in live
  PROVE  \E f \in [0..Bound -> live] :
           /\ f[0] = s /\ \A n \in 1..Bound : f[n] = Higher(f[n-1])
           /\ StackBase(s) = f[Bound]
<1> DEFINE Rule(g) == [n \in 0..Bound |->
                         IF n = 0 THEN s
                         ELSE LET at == g[n-1]
                                  above == Resolve(at)
                              IN IF above = None THEN at ELSE above]
<1>1. Bound \in Nat /\ \A at \in live : Higher(at) \in live
  BY ParentsLive DEF Higher
<1>2. PICK f \in [0..Bound -> live] : f[0] = s /\ \A n \in 1..Bound : f[n] = Higher(f[n-1])
  <2> DEFINE step == [n \in 1..Bound |-> [at \in live |-> Higher(at)]]
  <2>1. step \in [1..Bound -> [live -> live]]
    BY <1>1
  <2>2. \A n \in 1..Bound, at \in live : step[n][at] = Higher(at)
    OBVIOUS
  <2> HIDE DEF step
  <2>3. PICK f \in Walks(Bound, live, s, step) : TRUE
    BY <1>1, <2>1, Iterates
  <2>4. \A n \in 1..Bound : f[n-1] \in live
    BY <1>1, <2>3 DEF Walks
  <2>5. QED BY <2>2, <2>3, <2>4 DEF Walks
<1>3. f = Rule(f)
  BY <1>1, <1>2 DEF Higher
<1> DEFINE g == CHOOSE g : g = Rule(g)
<1>4. g = Rule(g)
  BY <1>3
<1>5. StackBase(s) = g[Bound]
  BY DEF StackBase
<1> HIDE DEF g
<1>6. g[0] = s /\ \A n \in 1..Bound : g[n] = Higher(g[n-1])
  BY <1>1, <1>4 DEF Higher
<1> DEFINE G == {n \in 0..Bound : g[n] \in live}
<1>7. 0 \in G /\ \A n \in 1..Bound : n - 1 \in G => n \in G
  BY <1>1, <1>6
<1>8. 0..Bound \subseteq G
  <2> HIDE DEF G
  <2>1. QED BY <1>1, <1>7, UpTo
<1>9. g \in [0..Bound -> live]
  BY <1>4, <1>8
<1>10. QED BY <1>5, <1>6, <1>9

(* A stretch of a stack: each session is stacked on the one before it.     *)
Stretch(w) == /\ w \in Seq(live) /\ Len(w) \in Nat \ {0}
              /\ \A i \in 1..Len(w) - 1 : Resolve(w[i+1]) = w[i]

Grown(w, n) == LET next == Children(w[Len(w)])
               IN IF Len(w) < n \/ next = {} THEN w ELSE Append(w, Max(next))

Top(w) == w[Len(w)]

(* One step of the walk up a stack.                                        *)
LEMMA Grows ==
  ASSUME TypeOK, NEW w, Stretch(w), NEW n \in Nat \ {0},
         Len(w) <= n, Len(w) = n \/ Children(Top(w)) = {}
  PROVE  /\ Stretch(Grown(w, n)) /\ Grown(w, n)[1] = w[1]
         /\ Len(Grown(w, n)) <= n + 1
         /\ Len(Grown(w, n)) = n + 1 \/ Children(Top(Grown(w, n))) = {}
<1> DEFINE next == Children(Top(w))
<1>1. CASE Len(w) < n \/ next = {}
  <2>1. Grown(w, n) = w /\ next = {}
    BY <1>1 DEF Grown, Top, Stretch
  <2>2. QED BY <2>1 DEF Stretch
<1>2. CASE Len(w) = n /\ next # {}
  <2>1. next \in SUBSET live
    BY DEF Children
  <2>2. IsFiniteSet(next) /\ next \in SUBSET Nat
    BY <2>1, ParentsLive, FS_Subset
  <2>3. Max(next) \in next
    BY <1>2, <2>2, GreatestNat
  <2>4. PICK m \in live : m = Max(next) /\ Resolve(m) = Top(w)
    BY <2>1, <2>3 DEF Children
  <2>5. Grown(w, n) = Append(w, m)
    BY <1>2, <2>4 DEF Grown, Top
  <2>6. w \in Seq(live) /\ Len(w) = n
    BY <1>2 DEF Stretch
  <2>7. /\ Append(w, m) \in Seq(live) /\ Len(Append(w, m)) = n + 1
        /\ Append(w, m)[n+1] = m
        /\ \A i \in 1..n : Append(w, m)[i] = w[i]
    BY <2>6
  <2>8. ASSUME NEW i \in 1..n PROVE Resolve(Append(w, m)[i+1]) = Append(w, m)[i]
    <3>1. CASE i = n
      BY <2>4, <2>6, <2>7, <3>1 DEF Top
    <3>2. CASE i < n
      <4>1. i \in 1..Len(w) - 1 /\ i + 1 \in 1..n
        BY <2>6, <3>2
      <4>2. Resolve(w[i+1]) = w[i]
        BY <4>1 DEF Stretch
      <4>3. Append(w, m)[i+1] = w[i+1] /\ Append(w, m)[i] = w[i]
        BY <2>7, <4>1
      <4>4. QED BY <4>2, <4>3
    <3>3. i = n \/ i < n
      BY <2>8
    <3>4. QED BY <3>1, <3>2, <3>3
  <2>9. Stretch(Append(w, m))
    BY <2>7, <2>8 DEF Stretch
  <2>10. QED BY <2>5, <2>7, <2>9
<1>3. QED BY <1>1, <1>2 DEF Stretch

(* The chain from a base is a stretch from there, as long as the bound     *)
(* allows or up to a leaf.                                                 *)
LEMMA ChainWalk ==
  ASSUME TypeOK, NEW b \in live
  PROVE  LET chain == ChainFrom(b)
         IN /\ Stretch(chain) /\ chain[1] = b
            /\ Len(chain) <= Bound + 1
            /\ Len(chain) = Bound + 1 \/ Children(Top(chain)) = {}
<1> DEFINE Rule(g) == [n \in 0..Bound |->
                         IF n = 0 THEN <<b>> ELSE Grown(g[n-1], n)]
           Fits(w, n) == /\ Stretch(w) /\ w[1] = b
                         /\ Len(w) <= n + 1
                         /\ Len(w) = n + 1 \/ Children(Top(w)) = {}
<1>1. Bound \in Nat
  BY ParentsLive
<1>2. Fits(<<b>>, 0)
  BY DEF Stretch
<1>3. ASSUME NEW w, NEW n \in 1..Bound, Fits(w, n - 1) PROVE Fits(Grown(w, n), n)
  <2>1. n \in Nat \ {0} /\ n - 1 + 1 = n
    BY <1>1
  <2>2. Stretch(w) /\ Len(w) <= n /\ (Len(w) = n \/ Children(Top(w)) = {})
    BY <1>3, <2>1
  <2>3. QED BY <1>3, <2>1, <2>2, Grows
<1>4. \E f : f = Rule(f)
  <2> DEFINE T == {w \in Seq(live) : Stretch(w)}
             step == [n \in 1..Bound |-> [w \in T |-> IF Grown(w, n) \in T THEN Grown(w, n) ELSE w]]
  <2>1. step \in [1..Bound -> [T -> T]]
    OBVIOUS
  <2>2. \A n \in 1..Bound, w \in T :
          step[n][w] = IF Grown(w, n) \in T THEN Grown(w, n) ELSE w
    OBVIOUS
  <2>3. <<b>> \in T
    BY <1>2 DEF Stretch
  <2> HIDE DEF step, T
  <2>4. PICK f \in Walks(Bound, T, <<b>>, step) : TRUE
    BY <1>1, <2>1, <2>3, Iterates
  <2>5. /\ f \in [0..Bound -> T] /\ f[0] = <<b>>
        /\ \A n \in 1..Bound : f[n] = step[n][f[n-1]]
    BY <2>4 DEF Walks
  <2> DEFINE G == {n \in 0..Bound : Fits(f[n], n)}
  <2>6. 0 \in G
    BY <1>1, <1>2, <2>5
  <2>7. ASSUME NEW n \in 1..Bound, n - 1 \in G PROVE n \in G /\ f[n] = Grown(f[n-1], n)
    <3>1. Fits(Grown(f[n-1], n), n)
      BY <1>3, <2>7
    <3>2. Grown(f[n-1], n) \in T
      BY <3>1 DEF T, Stretch
    <3>3. f[n-1] \in T
      BY <1>1, <2>5
    <3>4. f[n] = Grown(f[n-1], n)
      BY <2>2, <2>5, <3>2, <3>3
    <3>5. QED BY <3>1, <3>4
  <2>8. \A n \in 0..Bound : n \in G
    <3> HIDE DEF G
    <3>1. 0..Bound \subseteq G
      BY <1>1, <2>6, <2>7, UpTo
    <3>2. QED BY <3>1
  <2>9. ASSUME NEW n \in 1..Bound PROVE f[n] = Grown(f[n-1], n)
    <3>1. n - 1 \in 0..Bound
      BY <1>1
    <3>2. n - 1 \in G
      BY <2>8, <3>1
    <3> HIDE DEF G
    <3>3. QED BY <2>7, <3>2
  <2>10. f = Rule(f)
    BY <1>1, <2>5, <2>9
  <2>11. QED BY <2>10
<1> DEFINE g == CHOOSE g : g = Rule(g)
<1>5. g = Rule(g)
  BY <1>4
<1>6. ChainFrom(b) = g[Bound]
  BY DEF ChainFrom, Grown
<1> HIDE DEF g
<1>7. g[0] = <<b>> /\ \A n \in 1..Bound : g[n] = Grown(g[n-1], n)
  BY <1>1, <1>5
<1> DEFINE G == {n \in 0..Bound : Fits(g[n], n)}
<1>8. 0 \in G /\ \A n \in 1..Bound : n - 1 \in G => n \in G
  <2>1. 0 \in G
    <3>1. Fits(g[0], 0)
      BY <1>2, <1>7
    <3>2. QED BY <1>1, <3>1
  <2>2. ASSUME NEW n \in 1..Bound, n - 1 \in G PROVE n \in G
    <3>1. Fits(Grown(g[n-1], n), n)
      BY <1>3, <2>2
    <3>2. QED BY <1>7, <3>1
  <2>3. QED BY <2>1, <2>2
<1>9. Bound \in G
  <2> HIDE DEF G
  <2>1. 0..Bound \subseteq G
    BY <1>1, <1>8, UpTo
  <2>2. QED BY <1>1, <2>1
<1>10. QED BY <1>6, <1>9

(* No session comes twice in a stretch that starts at a root: what is      *)
(* stacked on what would lead back to the root.                            *)
LEMMA NoneTwice ==
  ASSUME TypeOK, NEW w, Stretch(w), Resolve(w[1]) = None,
         NEW i \in 1..Len(w), NEW j \in 1..Len(w), w[i] = w[j]
  PROVE  i = j
<1> DEFINE Bad == {k \in 1..Len(w) : \E l \in 1..Len(w) : k < l /\ w[k] = w[l]}
<1>1. Len(w) \in Nat /\ \A k \in 1..Len(w) : w[k] \in live
  BY DEF Stretch
<1>2. SUFFICES ASSUME Bad # {} PROVE FALSE
  <2>1. i < j => i \in Bad
    OBVIOUS
  <2>2. j < i => j \in Bad
    OBVIOUS
  <2>3. QED BY <1>1, <1>2, <2>1, <2>2
<1>3. PICK k \in Bad : \A m \in Bad : k <= m
  <2>1. Bad \in SUBSET Nat
    OBVIOUS
  <2> HIDE DEF Bad
  <2>2. QED BY <1>2, <2>1, LeastNat
<1>4. PICK l \in 1..Len(w) : k < l /\ w[k] = w[l]
  BY <1>3
<1>5. l - 1 \in 1..Len(w) - 1 /\ Resolve(w[l]) = w[l-1] /\ w[l-1] \in live
  <2>1. l - 1 \in 1..Len(w) - 1 /\ l - 1 + 1 = l
    BY <1>1, <1>3, <1>4
  <2>2. Resolve(w[l - 1 + 1]) = w[l-1]
    BY <2>1 DEF Stretch
  <2>3. QED BY <1>1, <2>1, <2>2
<1>6. CASE k = 1
  BY <1>4, <1>5, <1>6, ParentsLive
<1>7. CASE k # 1
  <2>1. k - 1 \in 1..Len(w) - 1 /\ k - 1 + 1 = k
    BY <1>1, <1>3, <1>7
  <2>2. Resolve(w[k - 1 + 1]) = w[k-1]
    BY <2>1 DEF Stretch
  <2>3. w[k-1] = w[l-1]
    BY <1>4, <1>5, <2>1, <2>2
  <2>4. k - 1 \in Bad
    BY <1>1, <1>3, <1>4, <1>5, <2>1, <2>3
  <2>5. QED BY <1>1, <1>3, <2>1, <2>4
<1>8. QED BY <1>6, <1>7

LEMMA ChainEnds ==
  ASSUME TypeOK, NEW b \in live, Resolve(b) = None
  PROVE  LET chain == ChainFrom(b)
         IN /\ Stretch(chain) /\ chain[1] = b /\ Len(chain) <= Bound
            /\ Children(Top(chain)) = {}
<1> DEFINE w == ChainFrom(b)
<1>1. /\ Stretch(w) /\ w[1] = b /\ Len(w) <= Bound + 1
      /\ Len(w) = Bound + 1 \/ Children(Top(w)) = {}
  BY ChainWalk
<1> HIDE DEF w
<1>2. Bound \in Nat
  BY ParentsLive
<1>3. ASSUME Len(w) = Bound + 1 PROVE FALSE
  <2> DEFINE f == [k \in 0..Bound |-> w[k+1]]
  <2>1. \A k \in 0..Bound : k + 1 \in 1..Len(w) /\ w[k+1] \in live
    <3>1. w \in Seq(live)
      BY <1>1 DEF Stretch
    <3>2. QED BY <1>2, <1>3, <3>1
  <2>2. f \in [0..Bound -> live]
    BY <2>1
  <2>3. \A k \in 0..Bound : f[k] = w[k+1]
    OBVIOUS
  <2> HIDE DEF f
  <2>4. PICK i, j \in 0..Bound : i < j /\ f[i] = f[j]
    BY <2>2, TooMany
  <2>5. w[i+1] = w[j+1] /\ Resolve(w[1]) = None
    BY <1>1, <2>3, <2>4
  <2>6. i + 1 = j + 1
    BY <1>1, <2>1, <2>5, NoneTwice
  <2>7. QED BY <1>2, <2>4, <2>6
<1>4. Len(w) \in Nat
  BY <1>1 DEF Stretch
<1>5. QED BY <1>1, <1>2, <1>3, <1>4 DEF w

(* A cascade started anywhere covers its stack from the base to a leaf: in *)
(* every state, since it follows from what the fields are.                 *)
LEMMA ChainsCover == TypeOK => ChainCoversStack
<1>1. SUFFICES ASSUME TypeOK, Listed = live, NEW s \in live
               PROVE  LET chain == ChainFrom(StackBase(s))
                      IN /\ Resolve(chain[1]) = None
                         /\ \A i \in 1..Len(chain) - 1 : Resolve(chain[i+1]) = chain[i]
                         /\ Children(chain[Len(chain)]) = {}
  BY DEF ChainCoversStack
<1>2. StackBase(s) \in live
  <2>1. PICK f \in [0..Bound -> live] : StackBase(s) = f[Bound]
    BY <1>1, BaseWalk
  <2>2. QED BY <1>1, <2>1, ParentsLive
<1>3. Resolve(StackBase(s)) = None
  BY <1>1 DEF Listed
<1>4. QED BY <1>1, <1>2, <1>3, ChainEnds DEF Stretch, Top
-----------------------------------------------------------------------------
(* The variables keep their types.                                         *)
LEMMA TopologyInit == Init => TypeOK
BY DEF Init, TypeOK

LEMMA RetargetTyped ==
  ASSUME TypeOK, NEW d \in Session, Retarget(d)
  PROVE  /\ hint' \in [Session -> Session \cup {None}]
         /\ prBase' \in [Session -> Branch \cup {None}]
<1>1. Resolve(d) \in Session \cup {None} /\ BranchOf(Resolve(d)) \in Branch
  BY ParentsLive DEF BranchOf, Branch
<1>2. QED BY <1>1 DEF Retarget, TypeOK

LEMMA TopologyTyped == TypeOK /\ [Next]_vars => TypeOK'
<1>1. SUFFICES ASSUME TypeOK, [Next]_vars PROVE TypeOK'
  OBVIOUS
<1>2. CASE UNCHANGED vars
  BY <1>1, <1>2 DEF TypeOK, vars, topology
<1>3. ASSUME NEW s \in Session, Delete(s) PROVE TypeOK'
  BY <1>1, <1>3, RetargetTyped DEF Delete, TypeOK
<1>4. ASSUME NEW s \in Session, Drop(s) PROVE TypeOK'
  BY <1>1, <1>4 DEF Drop, TypeOK
<1>5. ASSUME NEW s \in Session, NEW p \in Session \cup {None}, Create(s, p) PROVE TypeOK'
  BY <1>1, <1>5 DEF Create, TypeOK
<1>6. ASSUME NEW s \in Session, NEW p \in Session \cup {None}, SetBase(s, p) PROVE TypeOK'
  BY <1>1, <1>6 DEF SetBase, Rebase, TypeOK, BranchOf, Branch
<1>7. ASSUME NEW s \in Session, NEW b \in Branch \cup {None}, NEW closed \in BOOLEAN,
             PrSync(s, b, closed)
      PROVE  TypeOK'
  BY <1>1, <1>7 DEF PrSync, TypeOK
<1>8. CASE ForgetReviews
  BY <1>1, <1>8 DEF ForgetReviews, TypeOK
<1>9. CASE PauseElsewhere
  BY <1>1, <1>9 DEF PauseElsewhere, topology, TypeOK
<1>10. QED BY <1>1, <1>2, <1>3, <1>4, <1>5, <1>6, <1>7, <1>8, <1>9 DEF Next, Edits, Polls

(* Creation, rebasing, deletion, drops, PR answers and pauses keep the     *)
(* types of the stack fields, for any set of sessions.                     *)
THEOREM StacksTyped == Spec => []TypeOK
BY TopologyInit, TopologyTyped, PTL DEF Spec

(* Whatever was created, rebased, deleted, dropped and reported, a cascade *)
(* started anywhere in a stack on the board goes from its base to a leaf,  *)
(* each session stacked on the one before it: the walks' bound is enough.  *)
THEOREM CascadesCoverStacks == Spec => []ChainCoversStack
BY StacksTyped, ChainsCover, PTL
-----------------------------------------------------------------------------
(* The edits as steps of the forest.  A record that is gone leaves no PR   *)
(* base behind for a later session of that number, and no hint names a     *)
(* session that was never there.                                           *)
NoTraces == /\ \A s \in Session : s \notin live => prBase[s] = None
            /\ \A s \in Session : hint[s] \in ever \cup {None}

TopologyInv == TypeOK /\ NoTraces

LEMMA ResolveLive ==
  ASSUME TypeOK, NEW s \in Session
  PROVE  /\ Resolve(s) \in live \cup {None}
         /\ Resolve(s) # None => Resolve(s) \in Session \cap ever
  BY ParentsLive DEF TypeOK

LEMMA TracesInit == Init => NoTraces
BY DEF Init, NoTraces

LEMMA TracesStep == TopologyInv /\ [Next]_vars => NoTraces'
<1>1. SUFFICES ASSUME TopologyInv, [Next]_vars PROVE NoTraces'
  OBVIOUS
<1>2. TypeOK /\ NoTraces
  BY <1>1 DEF TopologyInv
<1>3. CASE UNCHANGED vars
  BY <1>2, <1>3 DEF NoTraces, vars, topology
<1>4. ASSUME NEW s \in Session, Delete(s) PROVE NoTraces'
  <2>1. Resolve(s) \in ever \cup {None}
    BY <1>2, ResolveLive
  <2>2. ASSUME NEW c \in Session PROVE hint'[c] \in ever' \cup {None}
    BY <1>2, <1>4, <2>1 DEF Delete, Retarget, NoTraces
  <2>3. ASSUME NEW c \in Session, c \notin live' PROVE prBase'[c] = None
    BY <1>2, <1>4, <2>3 DEF Delete, Retarget, NoTraces, Children
  <2>4. QED BY <2>2, <2>3 DEF NoTraces
<1>5. ASSUME NEW s \in Session, Drop(s) PROVE NoTraces'
  BY <1>2, <1>5 DEF Drop, NoTraces, TypeOK
<1>6. ASSUME NEW s \in Session, NEW p \in Session \cup {None}, Create(s, p) PROVE NoTraces'
  BY <1>2, <1>6 DEF Create, NoTraces, TypeOK
<1>7. ASSUME NEW s \in Session, NEW p \in Session \cup {None}, SetBase(s, p) PROVE NoTraces'
  BY <1>2, <1>7 DEF SetBase, Rebase, MayRebase, NoTraces, TypeOK
<1>8. ASSUME NEW s \in Session, NEW b \in Branch \cup {None}, NEW closed \in BOOLEAN,
             PrSync(s, b, closed)
      PROVE  NoTraces'
  BY <1>2, <1>8 DEF PrSync, NoTraces, TypeOK
<1>9. CASE ForgetReviews
  BY <1>2, <1>9 DEF ForgetReviews, NoTraces, TypeOK
<1>10. CASE PauseElsewhere
  BY <1>2, <1>10 DEF PauseElsewhere, topology, NoTraces
<1>11. QED BY <1>1, <1>3, <1>4, <1>5, <1>6, <1>7, <1>8, <1>9, <1>10 DEF Next, Edits, Polls

(* In a forest a parent is another session, and no two are each other's.   *)
LEMMA NoShortLoop ==
  ASSUME TypeOK, Forest!Acyclic, NEW s \in live
  PROVE  /\ Resolve(s) # s
         /\ Resolve(s) # None => Resolve(Resolve(s)) # s
<1>1. ASSUME Resolve(s) = s PROVE FALSE
  <2>1. {s} \in SUBSET live /\ {s} # {} /\ \A x \in {s} : Parent[x] \in {s}
    BY <1>1, ParentsLive
  <2>2. QED BY <2>1 DEF Forest!Acyclic
<1>2. ASSUME Resolve(s) # None, Resolve(Resolve(s)) = s PROVE FALSE
  <2>1. Resolve(s) \in live
    BY <1>2, ParentsLive
  <2> DEFINE D == {s, Resolve(s)}
  <2>2. D \in SUBSET live /\ D # {} /\ \A x \in D : Parent[x] \in D
    BY <1>2, <2>1, ParentsLive
  <2>3. QED BY <2>2 DEF Forest!Acyclic
<1>3. QED BY <1>1, <1>2

LEMMA DeleteSplices ==
  ASSUME TopologyInv, NEW s \in Session, Delete(s)
  PROVE  Forest!Splice(s)
<1>1. TypeOK /\ live \subseteq Session /\ s \in live /\ live' = live \ {s}
  BY ParentsLive DEF TopologyInv, Delete
<1>2. TypeOK'
  BY <1>1, RetargetTyped DEF Delete, TypeOK
<1>3. Parent' \in [Session -> Session \cup {None}]
  <2>1. \A m \in Session : Resolve(m)' \in live' \cup {None}
    BY DEF Resolve
  <2>2. live' \subseteq Session
    BY <1>1
  <2>3. QED BY <2>1, <2>2 DEF Parent
<1>4. ASSUME Forest!Acyclic, NEW m \in live \ {s}
      PROVE  Parent'[m] = IF Parent[m] = s THEN Parent[s] ELSE Parent[m]
  <2>1. /\ Parent[m] = Resolve(m) /\ Parent[s] = Resolve(s) /\ Parent'[m] = Resolve(m)'
        /\ m \in Session
    BY <1>1 DEF Parent
  <2>2. /\ None \notin live /\ Main \notin live
        /\ Resolve(s) \in live \cup {None} /\ Resolve(m) \in live \cup {None}
    BY <1>1, ParentsLive
  <2>3. Resolve(s) # s
    BY <1>1, <1>4, NoShortLoop
  <2>4. /\ hint'[m] = IF Resolve(m) = s THEN Resolve(s) ELSE hint[m]
        /\ prBase'[m] = IF Resolve(m) = s /\ prBase[m] = s THEN BranchOf(Resolve(s)) ELSE prBase[m]
    BY <1>4, <2>1 DEF Delete, Retarget, Children
  <2>5. CASE Resolve(m) = s
    <3>1. Resolve(s) # m
      BY <1>1, <1>4, <2>5, <2>2, NoShortLoop
    <3>2. CASE prBase[m] = None
      <4>1. prBase'[m] = None /\ hint'[m] = Resolve(s)
        BY <1>1, <2>2, <2>4, <2>5, <3>2
      <4>2. Resolve(s) \in live' \cup {None}
        BY <1>1, <2>2, <2>3
      <4>3. Resolve(m)' = Resolve(s)
        BY <1>1, <2>2, <4>1, <4>2 DEF Resolve
      <4>4. QED BY <2>1, <2>5, <4>3
    <3>3. CASE prBase[m] # None
      <4>1. prBase[m] = s
        BY <1>1, <2>2, <2>5, <3>3 DEF Resolve
      <4>2. prBase'[m] = BranchOf(Resolve(s))
        BY <2>4, <2>5, <4>1
      <4>3. CASE Resolve(s) = None
        <5>1. prBase'[m] = Main /\ Main # None
          BY <4>2, <4>3, TopologyAssumption DEF BranchOf
        <5>2. Resolve(m)' = None
          BY <1>1, <2>2, <5>1 DEF Resolve
        <5>3. QED BY <2>1, <2>5, <4>3, <5>2
      <4>4. CASE Resolve(s) # None
        <5>1. prBase'[m] = Resolve(s) /\ Resolve(s) \in live' \ {m}
          BY <1>1, <2>2, <2>3, <3>1, <4>2, <4>4 DEF BranchOf
        <5>2. Resolve(m)' = Resolve(s)
          BY <4>4, <5>1 DEF Resolve
        <5>3. QED BY <2>1, <2>5, <5>2
      <4>5. QED BY <4>3, <4>4
    <3>4. QED BY <3>2, <3>3
  <2>6. CASE Resolve(m) # s
    <3>1. hint'[m] = hint[m] /\ prBase'[m] = prBase[m]
      BY <2>4, <2>6
    <3>2. Resolve(m)' = Resolve(m)
      BY <1>1, <1>4, <2>6, <3>1 DEF Resolve
    <3>3. QED BY <2>1, <2>6, <3>2
  <2>7. QED BY <2>5, <2>6
<1>5. QED BY <1>1, <1>3, <1>4 DEF Forest!Splice

LEMMA DropPrunes ==
  ASSUME TopologyInv, NEW s \in Session, Drop(s)
  PROVE  Forest!Prune(s)
<1>1. TypeOK /\ live \subseteq Session /\ s \in live /\ live' = live \ {s} /\ None \notin live
  BY ParentsLive DEF TopologyInv, Drop
<1>2. ASSUME NEW m \in Session
      PROVE  Parent'[m] = IF m = s \/ Parent[m] = s THEN None ELSE Parent[m]
  <2>1. CASE m = s
    BY <1>1, <2>1 DEF Parent
  <2>2. CASE m # s
    <3>1. hint'[m] = hint[m] /\ prBase'[m] = prBase[m]
      BY <1>1, <2>2 DEF Drop, TypeOK
    <3>2. Resolve(m)' = IF Resolve(m) = s THEN None ELSE Resolve(m)
      BY <1>1, <3>1 DEF Resolve
    <3>3. QED BY <1>1, <2>2, <3>2 DEF Parent
  <2>3. QED BY <2>1, <2>2
<1>3. Parent' = [m \in Session |-> IF m = s \/ Parent[m] = s THEN None ELSE Parent[m]]
  BY <1>2 DEF Parent
<1>4. QED BY <1>1, <1>3 DEF Forest!Prune

LEMMA CreateJoins ==
  ASSUME TopologyInv, NEW s \in Session, NEW p \in Session \cup {None}, Create(s, p)
  PROVE  \E adopted \in SUBSET live : Forest!Join(s, p, adopted)
<1> DEFINE adopted == {m \in live : prBase[m] = s}
<1>1. /\ TypeOK /\ NoTraces /\ live \subseteq Session /\ None \notin Session
      /\ s \notin live /\ s \notin ever /\ p \in live \cup {None}
      /\ live' = live \cup {s} /\ prBase' = prBase /\ hint' = [hint EXCEPT ![s] = p]
      /\ p # None => adopted = {}
  BY ParentsLive DEF TopologyInv, Create, TypeOK
<1>2. /\ prBase[s] = None /\ hint'[s] = p
      /\ \A m \in live : hint[m] # s /\ hint'[m] = hint[m] /\ m # s
  BY <1>1 DEF NoTraces, TypeOK
<1>3. \A m \in live : Resolve(m) # s /\ Parent[m] = Resolve(m)
  BY <1>1, <1>2 DEF Resolve, Parent
<1>4. \A m \in adopted : Resolve(m) = None
  BY <1>1 DEF Resolve
<1>5. ASSUME NEW m \in Session
      PROVE  Parent'[m] = IF m = s THEN p ELSE IF m \in adopted THEN s ELSE Parent[m]
  <2>1. CASE m = s
    <3>1. Resolve(m)' = p
      BY <1>1, <1>2, <2>1 DEF Resolve
    <3>2. QED BY <1>1, <2>1, <3>1 DEF Parent
  <2>2. CASE m \in adopted
    <3>1. Resolve(m)' = s
      BY <1>1, <1>2, <2>2 DEF Resolve
    <3>2. QED BY <1>1, <1>2, <2>2, <3>1 DEF Parent
  <2>3. CASE m \in live /\ m \notin adopted
    <3>1. Resolve(m)' = Resolve(m)
      BY <1>1, <1>2, <2>3 DEF Resolve
    <3>2. QED BY <1>1, <1>2, <2>3, <3>1 DEF Parent
  <2>4. CASE m \notin live /\ m # s
    BY <1>1, <2>4 DEF Parent
  <2>5. QED BY <2>1, <2>2, <2>3, <2>4
<1>6. Parent' = [m \in Session |-> IF m = s THEN p ELSE IF m \in adopted THEN s ELSE Parent[m]]
  BY <1>5 DEF Parent
<1>7. Forest!Join(s, p, adopted)
  BY <1>1, <1>3, <1>4, <1>6 DEF Forest!Join
<1>8. QED BY <1>7

(* The bounded climb of the cycle check misses nobody: if p climbs to s in *)
(* some number of steps then in at most Bound, since the shortest climb    *)
(* meets no session twice.  So what has a parent that IsDescendant of s    *)
(* finds is found as well.                                                 *)
LEMMA ShortestClimb ==
  ASSUME TypeOK, NEW s \in live, NEW f \in [0..Bound -> Session \cup {None}],
         \A n \in 1..Bound : f[n] = Above(f[n-1]),
         f[0] # s, NEW n \in 1..Bound, f[n] = s
  PROVE  \E k \in 1..Bound - 1 : f[k] = s
<1> DEFINE Hits == {k \in 1..Bound : f[k] = s}
<1>1. Bound \in Nat /\ None \notin live /\ s # None
  BY ParentsLive
<1>2. PICK m \in Hits : \A k \in Hits : m <= k
  <2>1. Hits \in SUBSET Nat /\ Hits # {}
    OBVIOUS
  <2> HIDE DEF Hits
  <2>2. QED BY <2>1, LeastNat
<1>3. SUFFICES ASSUME m = Bound PROVE FALSE
  BY <1>1, <1>2
(* Once the climb has left the sessions it does not come back.             *)
<1>4. \A k \in 0..Bound : f[k] \in live
  <2> DEFINE Gone == {k \in 0..Bound : f[k] \notin live}
  <2>1. SUFFICES ASSUME Gone # {} PROVE FALSE
    OBVIOUS
  <2>2. PICK j \in Gone : TRUE
    BY <2>1
  <2> DEFINE G == {k \in 0..(Bound - j) : f[j+k] \notin live}
  <2>3. 0 \in G
    BY <1>1, <2>2
  <2>4. ASSUME NEW k \in 1..(Bound - j), k - 1 \in G PROVE k \in G
    <3>1. j + k \in 1..Bound /\ j + k - 1 = j + (k - 1)
      BY <1>1, <2>2
    <3>2. f[j + (k - 1)] \notin live
      BY <2>4
    <3>3. f[j+k] = Above(f[j + k - 1])
      BY <3>1
    <3>4. f[j+k] = None
      BY <3>1, <3>2, <3>3 DEF Above
    <3>5. QED BY <1>1, <3>4
  <2>5. Bound - j \in G
    <3>1. Bound - j \in Nat
      BY <1>1, <2>2
    <3> HIDE DEF G
    <3>2. 0..(Bound - j) \subseteq G
      BY <2>3, <2>4, <3>1, UpTo
    <3>3. QED BY <3>1, <3>2
  <2>6. j + (Bound - j) = Bound
    BY <1>1, <2>2
  <2>7. QED BY <1>2, <1>3, <2>5, <2>6
<1>5. f \in [0..Bound -> live]
  BY <1>4
<1>6. PICK i, j \in 0..Bound : i < j /\ f[i] = f[j]
  BY <1>5, TooMany
(* From i on the climb runs as from j on, and so meets s earlier.          *)
<1> DEFINE G == {k \in 0..(Bound - j) : f[i+k] = f[j+k]}
<1>7. Bound - j \in G
  <2>1. Bound - j \in Nat
    BY <1>1, <1>6
  <2>2. 0 \in G
    BY <1>1, <1>6
  <2>3. ASSUME NEW k \in 1..(Bound - j), k - 1 \in G PROVE k \in G
    <3>1. /\ i + k \in 1..Bound /\ i + k - 1 = i + (k - 1)
          /\ j + k \in 1..Bound /\ j + k - 1 = j + (k - 1)
      BY <1>1, <1>6
    <3>2. f[i + (k - 1)] = f[j + (k - 1)]
      BY <2>3
    <3>3. f[i+k] = Above(f[i + k - 1]) /\ f[j+k] = Above(f[j + k - 1])
      BY <3>1
    <3>4. f[i+k] = f[j+k]
      BY <3>1, <3>2, <3>3
    <3>5. QED BY <3>4
  <2> HIDE DEF G
  <2>4. 0..(Bound - j) \subseteq G
    BY <2>1, <2>2, <2>3, UpTo
  <2>5. QED BY <2>1, <2>4
<1>8. /\ i + (Bound - j) \in 0..Bound /\ i + (Bound - j) < Bound
      /\ j + (Bound - j) = Bound
  BY <1>1, <1>6
<1>9. f[i + (Bound - j)] = s
  BY <1>2, <1>3, <1>7, <1>8
<1>10. i + (Bound - j) \in 1..Bound
  BY <1>1, <1>8, <1>9
<1>11. QED BY <1>1, <1>2, <1>3, <1>8, <1>9, <1>10

LEMMA ClimbsOn ==
  ASSUME TypeOK, NEW s \in live, NEW m \in live,
         Resolve(m) = s \/ IsDescendant(Resolve(m), s)
  PROVE  IsDescendant(m, s)
<1>1. /\ Bound \in Nat /\ m \in Session /\ Resolve(m) \in Session \cup {None}
      /\ Above(m) = Resolve(m) /\ None \notin live
  BY ParentsLive DEF Above
<1>2. Bound # 0
  BY ParentsLive, FS_EmptySet DEF Bound
<1>3. PICK h \in [0..Bound -> Session \cup {None}] :
        /\ h[0] = m /\ \A n \in 1..Bound : h[n] = Above(h[n-1])
        /\ IsDescendant(m, s) <=> \E n \in 1..Bound : h[n] = s
  BY <1>1, Climb
<1>4. h[1] = Resolve(m)
  BY <1>1, <1>2, <1>3
<1>5. CASE Resolve(m) = s
  BY <1>1, <1>2, <1>3, <1>4, <1>5
<1>6. CASE Resolve(m) # s /\ IsDescendant(Resolve(m), s)
  <2>1. PICK f \in [0..Bound -> Session \cup {None}] :
          /\ f[0] = Resolve(m) /\ \A n \in 1..Bound : f[n] = Above(f[n-1])
          /\ IsDescendant(Resolve(m), s) <=> \E n \in 1..Bound : f[n] = s
    BY <1>1, Climb
  <2>2. PICK k \in 1..Bound - 1 : f[k] = s
    BY <1>6, <2>1, ShortestClimb
  <2> DEFINE G == {j \in 0..k : h[j+1] = f[j]}
  <2>3. 0 \in G
    BY <1>1, <1>4, <2>1, <2>2
  <2>4. ASSUME NEW j \in 1..k, j - 1 \in G PROVE j \in G
    <3>1. j \in 1..Bound /\ j + 1 \in 1..Bound /\ j + 1 - 1 = j /\ j - 1 + 1 = j
      BY <1>1, <2>2
    <3>2. h[j - 1 + 1] = f[j-1]
      BY <2>4
    <3>3. h[j+1] = Above(h[j]) /\ f[j] = Above(f[j-1])
      BY <1>3, <2>1, <3>1
    <3>4. h[j+1] = f[j]
      BY <3>1, <3>2, <3>3
    <3>5. QED BY <3>4
  <2>5. k \in G
    <3>1. k \in Nat
      BY <1>1, <2>2
    <3> HIDE DEF G
    <3>2. 0..k \subseteq G
      BY <2>3, <2>4, <3>1, UpTo
    <3>3. QED BY <3>1, <3>2
  <2>6. k + 1 \in 1..Bound /\ h[k+1] = s
    BY <1>1, <2>2, <2>5
  <2>7. QED BY <1>3, <2>6
<1>7. QED BY <1>5, <1>6

LEMMA BelowIsDescendant ==
  ASSUME TypeOK, NEW s \in live, NEW p, Forest!Below(p, s)
  PROVE  p \in live /\ IsDescendant(p, s)
<1> DEFINE D == {m \in live : IsDescendant(m, s)}
<1>1. ASSUME NEW m \in live, Parent[m] = s \/ Parent[m] \in D PROVE m \in D
  BY <1>1, ParentsLive, ClimbsOn
<1>2. D \in SUBSET live
  OBVIOUS
<1> HIDE DEF D
<1>3. p \in D
  BY <1>1, <1>2 DEF Forest!Below
<1>4. QED BY <1>3 DEF D

LEMMA SetBaseMoves ==
  ASSUME TopologyInv, NEW s \in Session, NEW p \in Session \cup {None}, SetBase(s, p)
  PROVE  Forest!Move(s, p)
<1>1. /\ TypeOK /\ live \subseteq Session /\ None \notin Session /\ Main \notin live
      /\ s \in live /\ p \in (live \ {s}) \cup {None} /\ live' = live /\ ~IsDescendant(p, s)
      /\ Main # None
  BY ParentsLive, TopologyAssumption DEF TopologyInv, SetBase, MayRebase
<1>2. ~Forest!Below(p, s)
  BY <1>1, BelowIsDescendant
<1>3. ASSUME NEW m \in Session PROVE Parent'[m] = IF m = s THEN p ELSE Parent[m]
  <2>1. CASE m # s
    <3>1. hint'[m] = hint[m] /\ prBase'[m] = prBase[m]
      BY <1>1, <2>1 DEF SetBase, Rebase, TypeOK
    <3>2. QED BY <1>1, <2>1, <3>1 DEF Parent, Resolve
  <2>2. CASE m = s
    <3>1. /\ hint'[s] = p
          /\ prBase'[s] = IF prBase[s] = None THEN None ELSE IF p = None THEN Main ELSE p
      BY <1>1 DEF SetBase, Rebase, TypeOK, BranchOf
    <3>2. Resolve(s)' = p
      BY <1>1, <3>1 DEF Resolve
    <3>3. QED BY <1>1, <2>2, <3>2 DEF Parent
  <2>3. QED BY <2>1, <2>2
<1>4. Parent' = [Parent EXCEPT ![s] = p]
  BY <1>3 DEF Parent
<1>5. QED BY <1>1, <1>2, <1>4 DEF Forest!Move

LEMMA EditsMove == TopologyInv => MovesTheForest
BY DeleteSplices, DropPrunes, SetBaseMoves, CreateJoins DEF MovesTheForest
-----------------------------------------------------------------------------
(* The board lists everybody exactly when the stacks have no loop.         *)
LEMMA ListedIffAcyclic ==
  ASSUME TypeOK
  PROVE  Listed = live <=> Forest!Acyclic
<1>1. ASSUME Listed = live, NEW D \in SUBSET live, D # {}, \A x \in D : Parent[x] \in D
      PROVE  FALSE
  <2>1. PICK s \in D : TRUE
    BY <1>1
  <2>2. PICK f \in [0..Bound -> live] :
          /\ f[0] = s /\ \A n \in 1..Bound : f[n] = Higher(f[n-1])
          /\ StackBase(s) = f[Bound]
    BY <1>1, BaseWalk
  <2> DEFINE G == {n \in 0..Bound : f[n] \in D}
  <2>3. Bound \in Nat /\ \A x \in D : Resolve(x) \in D /\ Resolve(x) # None
    BY <1>1, ParentsLive
  <2>4. 0 \in G /\ \A n \in 1..Bound : n - 1 \in G => n \in G
    BY <2>1, <2>2, <2>3 DEF Higher
  <2>5. Bound \in G
    <3> HIDE DEF G
    <3>1. 0..Bound \subseteq G
      BY <2>3, <2>4, UpTo
    <3>2. QED BY <2>3, <3>1
  <2>6. Resolve(StackBase(s)) # None
    BY <2>2, <2>3, <2>5
  <2>7. s \in Listed
    BY <1>1, <2>1
  <2>8. QED BY <2>6, <2>7 DEF Listed
<1>2. ASSUME Forest!Acyclic, NEW s \in live PROVE Resolve(StackBase(s)) = None
  <2>1. SUFFICES ASSUME Resolve(StackBase(s)) # None PROVE FALSE
    OBVIOUS
  <2>2. PICK f \in [0..Bound -> live] :
          /\ f[0] = s /\ \A n \in 1..Bound : f[n] = Higher(f[n-1])
          /\ StackBase(s) = f[Bound]
    BY <1>2, BaseWalk
  <2>3. Bound \in Nat
    BY ParentsLive
  (* The walk has not stopped anywhere.                                    *)
  <2>4. ASSUME NEW j \in 0..Bound, Resolve(f[j]) = None PROVE FALSE
    <3> DEFINE G == {k \in 0..(Bound - j) : f[j+k] = f[j]}
    <3>1. 0 \in G
      BY <2>3
    <3>2. ASSUME NEW k \in 1..(Bound - j), k - 1 \in G PROVE k \in G
      <4>1. j + k \in 1..Bound /\ j + k - 1 = j + (k - 1)
        BY <2>3
      <4>2. f[j + (k - 1)] = f[j]
        BY <3>2
      <4>3. f[j+k] = Higher(f[j + k - 1])
        BY <2>2, <4>1
      <4>4. QED BY <2>4, <4>1, <4>2, <4>3 DEF Higher
    <3>3. Bound - j \in G
      <4>1. Bound - j \in Nat
        BY <2>3
      <4> HIDE DEF G
      <4>2. 0..(Bound - j) \subseteq G
        BY <3>1, <3>2, <4>1, UpTo
      <4>3. QED BY <4>1, <4>2
    <3>4. j + (Bound - j) = Bound
      BY <2>3
    <3>5. QED BY <2>1, <2>2, <2>4, <3>3, <3>4
  <2>5. ASSUME NEW n \in 1..Bound PROVE f[n] = Resolve(f[n-1])
    <3>1. n - 1 \in 0..Bound
      BY <2>3
    <3>2. QED BY <2>2, <2>4, <3>1 DEF Higher
  <2>6. PICK i, j \in 0..Bound : i < j /\ f[i] = f[j]
    BY <1>2, TooMany
  <2> DEFINE D == {f[n] : n \in i..(j-1)}
  <2>7. D \in SUBSET live /\ D # {}
    <3>1. i \in i..(j-1) /\ \A n \in i..(j-1) : n \in 0..Bound
      BY <2>3, <2>6
    <3>2. QED BY <3>1
  <2>8. ASSUME NEW n \in i..(j-1) PROVE Parent[f[n]] \in D
    <3>1. n \in 0..Bound /\ n + 1 \in 1..Bound /\ n + 1 - 1 = n
      BY <2>3, <2>6
    <3>2. Parent[f[n]] = f[n+1]
      <4>1. f[n] \in live /\ Parent[f[n]] = Resolve(f[n])
        BY <1>2, <3>1, ParentsLive
      <4>2. f[n+1] = Resolve(f[n + 1 - 1])
        BY <2>5, <3>1
      <4>3. QED BY <3>1, <4>1, <4>2
    <3>3. CASE n + 1 = j
      <4>1. i \in i..(j-1) /\ Parent[f[n]] = f[i]
        BY <2>3, <2>6, <3>2, <3>3
      <4>2. QED BY <4>1
    <3>4. CASE n + 1 # j
      <4>1. n + 1 \in i..(j-1)
        BY <2>3, <2>6, <3>4
      <4>2. QED BY <3>2, <4>1
    <3>5. QED BY <3>3, <3>4
  <2>9. \A x \in D : Parent[x] \in D
    BY <2>8
  <2> HIDE DEF D
  <2>10. QED BY <1>2, <2>7, <2>9 DEF Forest!Acyclic
<1>3. QED BY <1>1, <1>2 DEF Forest!Acyclic, Listed

(* The lemmas about the abstract forest, for the stacks.                   *)
Stacks == INSTANCE StackForestProofs WITH members <- live, parent <- Parent

LEMMA EditsHide == ASSUME TopologyInv, TypeOK' PROVE HidesNobody
<1>1. SUFFICES ASSUME Edits, Listed = live PROVE Listed' = live'
  BY DEF HidesNobody
<1>2. /\ TypeOK /\ Forest!Acyclic /\ Stacks!Acyclic /\ None \notin Session
      /\ Stacks!ForestTypeOK
  BY <1>1, ListedIffAcyclic, ParentsLive
     DEF TopologyInv, Forest!Acyclic, Stacks!Acyclic, Stacks!ForestTypeOK
<1>3. Stacks!Acyclic'
  <2>1. ASSUME NEW s \in Session, Delete(s) PROVE Stacks!Acyclic'
    <3>1. Stacks!Splice(s)
      BY <2>1, DeleteSplices DEF Forest!Splice, Stacks!Splice, Forest!Acyclic, Stacks!Acyclic
    <3>2. QED BY <1>2, <3>1, Stacks!SpliceKeepsAcyclic
  <2>2. ASSUME NEW s \in Session, Drop(s) PROVE Stacks!Acyclic'
    <3>1. Stacks!Prune(s)
      BY <2>2, DropPrunes DEF Forest!Prune, Stacks!Prune
    <3>2. QED BY <1>2, <3>1, Stacks!PruneKeepsAcyclic
  <2>3. ASSUME NEW s \in Session, NEW p \in Session \cup {None}, Create(s, p)
        PROVE  Stacks!Acyclic'
    <3>1. PICK adopted \in SUBSET live : Stacks!Join(s, p, adopted)
      BY <2>3, CreateJoins DEF Forest!Join, Stacks!Join
    <3>2. QED BY <1>2, <3>1, Stacks!JoinKeepsAcyclic
  <2>4. ASSUME NEW s \in Session, NEW p \in Session \cup {None}, SetBase(s, p)
        PROVE  Stacks!Acyclic'
    <3>1. Stacks!Move(s, p)
      BY <2>4, SetBaseMoves DEF Forest!Move, Stacks!Move, Forest!Below, Stacks!Below
    <3>2. QED BY <1>2, <3>1, Stacks!MoveKeepsAcyclic
  <2>5. QED BY <1>1, <2>1, <2>2, <2>3, <2>4 DEF Edits
<1>4. Forest!Acyclic'
  BY <1>3 DEF Forest!Acyclic, Stacks!Acyclic
<1>5. (Listed = live <=> Forest!Acyclic)'
  BY TypeOK', ListedIffAcyclic, PTL
<1>6. QED BY <1>4, <1>5

(* While a cascade is paused no edit moves a session of the stacks, but    *)
(* for the children of one that goes and the roots below one that comes.   *)
LEMMA EditsKeepPaused == TopologyInv => KeepsPausedStack
<1>1. SUFFICES ASSUME TopologyInv, Edits, pausedAt \in live, NEW m \in live \cap live'
               PROVE  \/ Parent'[m] = Parent[m]
                      \/ Parent[m] \in live \ live' /\ Parent'[m] \in {None, Parent[Parent[m]]}
                      \/ Parent[m] = None /\ Parent'[m] \in live' \ live
  BY DEF KeepsPausedStack
<1>2. /\ TypeOK /\ NoTraces /\ live \subseteq Session /\ m \in Session
      /\ None \notin live /\ Main \notin live
      /\ \A s \in Session : Resolve(s) \in live \cup {None}
      /\ \A s \in live : Parent[s] = Resolve(s)
      /\ \A s \in Session : s \in live' => Parent'[s] = Resolve(s)'
  BY <1>1, ParentsLive DEF TopologyInv, Parent
<1>3. ASSUME NEW s \in Session, Delete(s)
      PROVE  \/ Parent'[m] = Parent[m]
             \/ Parent[m] \in live \ live' /\ Parent'[m] \in {None, Parent[Parent[m]]}
  <2>1. s \in live /\ live' = live \ {s} /\ m # s
    BY <1>1, <1>3 DEF Delete
  <2>2. /\ hint'[m] = IF Resolve(m) = s THEN Resolve(s) ELSE hint[m]
        /\ prBase'[m] = IF Resolve(m) = s /\ prBase[m] = s THEN BranchOf(Resolve(s)) ELSE prBase[m]
    BY <1>1, <1>2, <1>3, <2>1 DEF Delete, Retarget, Children
  <2>3. CASE Resolve(m) = s
    <3>1. Resolve(m)' \in {None, Resolve(s)}
      <4>1. CASE prBase[m] = None
        <5>1. prBase'[m] = None /\ hint'[m] = Resolve(s)
          BY <1>2, <2>1, <2>2, <2>3, <4>1
        <5>2. QED BY <5>1 DEF Resolve
      <4>2. CASE prBase[m] # None
        <5>1. prBase[m] = s
          BY <1>2, <2>1, <2>3, <4>2 DEF Resolve
        <5>2. prBase'[m] = IF Resolve(s) = None THEN Main ELSE Resolve(s)
          BY <2>2, <2>3, <5>1 DEF BranchOf
        <5>3. Main # None /\ Main \notin live'
          BY <1>2, <2>1, TopologyAssumption
        <5>4. QED BY <5>2, <5>3 DEF Resolve
      <4>3. QED BY <4>1, <4>2
    <3>2. Parent[m] = s /\ Parent[s] = Resolve(s) /\ Parent'[m] = Resolve(m)'
      BY <1>1, <1>2, <2>1, <2>3
    <3>3. QED BY <2>1, <3>1, <3>2
  <2>4. CASE Resolve(m) # s
    <3>1. hint'[m] = hint[m] /\ prBase'[m] = prBase[m]
      BY <2>2, <2>4
    <3>2. Resolve(m)' = Resolve(m)
      BY <1>2, <2>1, <2>4, <3>1 DEF Resolve
    <3>3. QED BY <1>1, <1>2, <3>2
  <2>5. QED BY <2>3, <2>4
<1>4. ASSUME NEW s \in Session, Drop(s)
      PROVE  \/ Parent'[m] = Parent[m]
             \/ Parent[m] \in live \ live' /\ Parent'[m] = None
  <2>1. Parent'[m] = IF m = s \/ Parent[m] = s THEN None ELSE Parent[m]
    BY <1>1, <1>2, <1>4, DropPrunes DEF Forest!Prune
  <2>2. s \in live /\ live' = live \ {s} /\ m # s
    BY <1>1, <1>4 DEF Drop
  <2>3. QED BY <2>1, <2>2
<1>5. ASSUME NEW s \in Session, NEW p \in Session \cup {None}, Create(s, p)
      PROVE  \/ Parent'[m] = Parent[m]
             \/ Parent[m] = None /\ Parent'[m] \in live' \ live
  <2>1. PICK adopted \in SUBSET live : Forest!Join(s, p, adopted)
    BY <1>1, <1>5, CreateJoins
  <2>2. /\ m # s /\ s \in live' /\ s \notin live
        /\ Parent'[m] = IF m \in adopted THEN s ELSE Parent[m]
        /\ m \in adopted => Parent[m] = None
    BY <1>1, <1>2, <2>1 DEF Forest!Join
  <2>3. QED BY <2>2
<1>6. ASSUME NEW s \in Session, NEW p \in Session \cup {None}, SetBase(s, p) PROVE FALSE
  BY <1>1, <1>6 DEF SetBase, MayRebase
<1>7. QED BY <1>1, <1>3, <1>4, <1>5, <1>6 DEF Edits

LEMMA InvInit == Init => TopologyInv
BY TopologyInit, TracesInit DEF TopologyInv

LEMMA InvStep == TopologyInv /\ [Next]_vars => TopologyInv'
BY TopologyTyped, TracesStep DEF TopologyInv

(* Stacks are a parent function, whatever fields encode it: for any set of *)
(* sessions creation, re-parenting, deletion and drops move exactly the    *)
(* sessions they name as the abstract forest allows, and the bounded climb *)
(* of the cycle check is a check for descendants.                          *)
THEOREM EditsFollowTheForest == Spec => EditsMoveTheForest
<1>1. TopologyInv /\ [Next]_vars => [UNCHANGED topology \/ MovesTheForest]_vars
  BY EditsMove
<1>2. QED BY <1>1, InvInit, InvStep, PTL DEF Spec, EditsMoveTheForest

(* No edit takes a session off the board, for any set of sessions: with    *)
(* everybody listed before it, everybody is listed after it.               *)
THEOREM EditsLoseNobody == Spec => EditsHideNobody
<1>1. TopologyInv /\ TopologyInv' /\ [Next]_vars => [UNCHANGED topology \/ HidesNobody]_vars
  BY EditsHide DEF TopologyInv
<1>2. QED BY <1>1, InvInit, InvStep, PTL DEF Spec, EditsHideNobody

(* The stack in which a paused cascade resumes is left as it is by every   *)
(* edit, but for sessions that come or go, for any set of sessions.        *)
THEOREM PausedStacksStay == Spec => StackFrozenWhilePaused
<1>1. TopologyInv /\ [Next]_vars => [UNCHANGED topology \/ KeepsPausedStack]_vars
  BY EditsKeepPaused
<1>2. QED BY <1>1, InvInit, InvStep, PTL DEF Spec, StackFrozenWhilePaused

LEMMA StackStepRefines ==
  TopologyInv /\ [Next]_vars => [Forest!ForestNext]_(Forest!fvars)
<1>1. SUFFICES ASSUME TopologyInv, [Next]_vars
               PROVE  [Forest!ForestNext]_(Forest!fvars)
  OBVIOUS
<1>2. TypeOK' /\ TypeOK
  BY <1>1, InvStep DEF TopologyInv
<1>3. (Parent \in [Session -> Session \cup {None}])'
  BY <1>2, ParentsLive, PTL
<1>4. CASE Edits
  <2>1. ASSUME NEW s \in Session, Delete(s) PROVE Forest!Edit
    BY <1>1, <2>1, DeleteSplices DEF Forest!Edit
  <2>2. ASSUME NEW s \in Session, Drop(s) PROVE Forest!Edit
    BY <1>1, <2>2, DropPrunes DEF Forest!Edit
  <2>3. ASSUME NEW s \in Session, NEW p \in Session \cup {None}, Create(s, p)
        PROVE  Forest!Edit
    BY <1>1, <2>3, CreateJoins DEF Forest!Edit
  <2>4. ASSUME NEW s \in Session, NEW p \in Session \cup {None}, SetBase(s, p)
        PROVE  Forest!Edit
    BY <1>1, <2>4, SetBaseMoves DEF Forest!Edit
  <2>5. QED BY <1>4, <2>1, <2>2, <2>3, <2>4 DEF Edits, Forest!ForestNext
<1>5. CASE Polls
  <2>1. live' = live
    BY <1>5 DEF Polls, PrSync, ForgetReviews
  <2>2. QED BY <1>3, <2>1 DEF Forest!ForestNext, Forest!Drift
<1>6. CASE UNCHANGED topology
  <2>1. live' = live /\ hint' = hint /\ prBase' = prBase
    BY <1>6 DEF topology
  <2>2. Parent' = Parent
    BY <2>1 DEF Parent, Resolve
  <2>3. QED BY <2>1, <2>2 DEF Forest!fvars
<1>7. QED BY <1>1, <1>4, <1>5, <1>6 DEF Next, PauseElsewhere, vars

(* The stack fields of the records implement the abstract forest: every    *)
(* creation, edit, deletion, drop and PR poll is a step of StackForest.    *)
THEOREM StacksAreForests == Spec => Forest!ForestSpec
<1>1. Init => Forest!ForestInit
  BY DEF Init, Forest!ForestInit, Parent
<1>2. QED BY <1>1, InvInit, InvStep, StackStepRefines, PTL DEF Spec, Forest!ForestSpec
===============================================================================
