---------------------------- MODULE LedgerProofs ----------------------------
(***************************************************************************)
(* Facts about sums over finite sets and about validation that the proofs  *)
(* about the ledger, the node and the network rest on.                     *)
(***************************************************************************)
EXTENDS Ledger, TLAPS, NaturalsInduction, WellFoundedInduction, FiniteSetTheorems

(* Sets of numbers have a least element,                                   *)
LEMMA LeastMember ==
  ASSUME NEW S \in SUBSET Nat, S # {}
  PROVE  \E x \in S : \A y \in S : x =< y
<1> DEFINE R == {ss \in Nat \X Nat : ss[1] < ss[2]}
<1>1. IsWellFoundedOn(R, Nat)
  BY NatLessThanWellFounded DEF OpToRel
<1>2. PICK x \in S : \A y \in S : ~ (<<y, x>> \in R)
  BY <1>1, WFMin
<1>3. ASSUME NEW y \in S
      PROVE  x =< y
  <2>1. <<y, x>> \in Nat \X Nat
    OBVIOUS
  <2>2. ~ (<<y, x>>[1] < <<y, x>>[2])
    BY <1>2, <2>1
  <2>3. QED
    BY <2>2
<1>4. QED
  BY <1>3

(* which Min chooses.                                                      *)
LEMMA MinMember ==
  ASSUME NEW S \in SUBSET Nat, S # {}
  PROVE  Min(S) \in S
BY LeastMember DEF Min

-----------------------------------------------------------------------------
(* A family of finite sets that is not empty has a smallest member.        *)
LEMMA SmallestSet ==
  ASSUME NEW S, IsFiniteSet(S), NEW F \in SUBSET SUBSET S, F # {}
  PROVE  \E s \in F : \A t \in SUBSET s : t # s => t \notin F
<1> DEFINE N == {n \in Nat : \E s \in F : n = Cardinality(s)}
<1>1. \A s \in F : IsFiniteSet(s) /\ Cardinality(s) \in Nat
  BY FS_Subset, FS_CardinalityType
<1>2. PICK n \in N : \A m \in N : n <= m
  BY <1>1, LeastMember
<1>3. PICK s \in F : n = Cardinality(s)
  OBVIOUS
<1>4. ASSUME NEW t \in SUBSET s, t # s, t \in F PROVE FALSE
  <2>1. Cardinality(t) <= Cardinality(s) /\ (Cardinality(s) = Cardinality(t) => s = t)
    BY <1>1, FS_Subset
  <2>2. Cardinality(t) \in N
    BY <1>1, <1>4
  <2>3. n <= Cardinality(t)
    BY <1>2, <2>2
  <2>4. QED
    BY <1>1, <1>3, <1>4, <2>1, <2>3
<1>5. QED
  BY <1>3, <1>4

(* The sums that validation takes are folds of FiniteSetsExt.  This is the *)
(* element that such a fold takes next.                                    *)
First(s) == CHOOSE x \in s : TRUE

(* There is one unless the set is empty.                                   *)
LEMMA FirstIn == \A s : s # {} => First(s) \in s
  BY DEF First

(* The sums of v over the subsets of S, as the fold computes them.         *)
Sums(v, S, g) ==
  g = [s \in SUBSET S |-> IF s = {} THEN 0 ELSE v[First(s)] + g[s \ {First(s)}]]

(* The sum of v over S.                                                    *)
Total(v, S) == MapThenSumSet(LAMBDA x : v[x], S)

(* It is the value at S of the function that has these sums.               *)
LEMMA TotalDef ==
  ASSUME NEW v, NEW S PROVE Total(v, S) = (CHOOSE g : Sums(v, S, g))[S]
  BY DEF Total, MapThenSumSet, MapThenFoldSet, Sums, First

(* There is at most one function with these sums,                          *)
LEMMA SumsUnique ==
  ASSUME NEW v, NEW S, IsFiniteSet(S), NEW g, NEW h, Sums(v, S, g), Sums(v, S, h)
  PROVE  g = h
<1> DEFINE F == {s \in SUBSET S : g[s] # h[s]}
<1>1. F = {}
  <2> SUFFICES ASSUME F # {} PROVE FALSE
    OBVIOUS
  <2>1. PICK s \in F : \A t \in SUBSET s : t # s => t \notin F
    <3>1. F \in SUBSET SUBSET S
      OBVIOUS
    <3> HIDE DEF F
    <3>2. QED
      BY <3>1, SmallestSet
  <2>2. s # {}
    BY <2>1 DEF Sums
  <2>3. s \ {First(s)} \in SUBSET S /\ g[s \ {First(s)}] = h[s \ {First(s)}]
    BY <2>1, <2>2, FirstIn
  <2>4. g[s] = h[s]
    BY <2>2, <2>3 DEF Sums
  <2>5. QED
    BY <2>4
<1>2. QED
  BY <1>1 DEF Sums

(* and, if v has integer values, there is one.  The pairs of a subset and  *)
(* its sum are the smallest relation that the fold can fill; it has one    *)
(* sum for each subset, by the smallest subset for which it has not.       *)
LEMMA SumsExist ==
  ASSUME NEW S, IsFiniteSet(S), NEW v, \A x \in S : v[x] \in Int
  PROVE  \E g \in [SUBSET S -> Int] : Sums(v, S, g)
<1> DEFINE P == (SUBSET S) \X Int
           Rest(s) == s \ {First(s)}
           Closed(R) == /\ <<{}, 0>> \in R
                        /\ \A s \in SUBSET S, m \in Int :
                             s # {} /\ <<Rest(s), m>> \in R => <<s, v[First(s)] + m>> \in R
           Val(s, m) == \A R \in SUBSET P : Closed(R) => <<s, m>> \in R
<1>1. \A s \in SUBSET S : s # {} => First(s) \in S /\ Rest(s) \in SUBSET S /\ v[First(s)] \in Int
                                    /\ Rest(s) # s
  BY FirstIn
<1>2. Val({}, 0)
  OBVIOUS
<1>3. ASSUME NEW s \in SUBSET S, NEW m \in Int, s # {}, Val(Rest(s), m)
      PROVE  Val(s, v[First(s)] + m)
  BY <1>3
<1>4. ASSUME NEW s \in SUBSET S, NEW m \in Int, Val(s, m)
      PROVE  IF s = {} THEN m = 0 ELSE \E k \in Int : Val(Rest(s), k) /\ m = v[First(s)] + k
  <2> DEFINE Good(t, n) == IF t = {} THEN n = 0
                           ELSE \E k \in Int : Val(Rest(t), k) /\ n = v[First(t)] + k
             R == {p \in P : Val(p[1], p[2]) /\ Good(p[1], p[2])}
  <2>1. \A t \in SUBSET S, n \in Int : <<t, n>> \in R <=> Val(t, n) /\ Good(t, n)
    <3> HIDE DEF Val, Good
    <3> QED
      OBVIOUS
  <2>2. R \in SUBSET P
    OBVIOUS
  <2>3. Closed(R)
    <3>1. <<{}, 0>> \in R
      BY <1>2, <2>1
    <3>2. ASSUME NEW t \in SUBSET S, NEW n \in Int, t # {}, <<Rest(t), n>> \in R
          PROVE  <<t, v[First(t)] + n>> \in R
      <4>1. Rest(t) \in SUBSET S /\ v[First(t)] + n \in Int
        BY <1>1, <3>2
      <4>2. Val(Rest(t), n)
        BY <2>1, <3>2, <4>1
      <4>3. Val(t, v[First(t)] + n)
        BY <1>3, <3>2, <4>2
      <4>4. Good(t, v[First(t)] + n)
        BY <3>2, <4>2
      <4> HIDE DEF R, Val, Good
      <4>5. QED
        BY <2>1, <4>1, <4>3, <4>4
    <3> HIDE DEF R
    <3>3. QED
      BY <3>1, <3>2
  <2>4. <<s, m>> \in R
    <3> HIDE DEF R, Closed
    <3> QED
      BY <1>4, <2>2, <2>3
  <2>5. QED
    BY <2>1, <2>4
<1> HIDE DEF Val, Closed
<1>5. \A s \in SUBSET S : /\ \E m \in Int : Val(s, m)
                          /\ \A m, n \in Int : Val(s, m) /\ Val(s, n) => m = n
  <2> DEFINE Fine(s) == /\ \E m \in Int : Val(s, m)
                        /\ \A m, n \in Int : Val(s, m) /\ Val(s, n) => m = n
             F == {s \in SUBSET S : ~ Fine(s)}
  <2> SUFFICES ASSUME F # {} PROVE FALSE
    OBVIOUS
  <2>1. PICK s \in F : \A t \in SUBSET s : t # s => t \notin F
    <3>1. F \in SUBSET SUBSET S
      OBVIOUS
    <3> HIDE DEF F
    <3>2. QED
      BY <3>1, SmallestSet
  <2>2. s # {}
    <3>1. \A m \in Int : Val({}, m) => m = 0
      BY <1>4
    <3>2. Fine({})
      BY <1>2, <3>1
    <3> HIDE DEF Fine
    <3>3. QED
      BY <2>1, <3>2
  <2>3. Rest(s) \in SUBSET S /\ Fine(Rest(s)) /\ v[First(s)] \in Int
    BY <1>1, <2>1, <2>2
  <2>4. \E m \in Int : Val(s, m)
    BY <1>3, <2>2, <2>3
  <2>5. ASSUME NEW m \in Int, NEW n \in Int, Val(s, m), Val(s, n) PROVE m = n
    <3>1. PICK k \in Int : Val(Rest(s), k) /\ m = v[First(s)] + k
      BY <1>4, <2>2, <2>5
    <3>2. PICK j \in Int : Val(Rest(s), j) /\ n = v[First(s)] + j
      BY <1>4, <2>2, <2>5
    <3>3. QED
      BY <2>3, <3>1, <3>2
  <2>6. Fine(s)
    BY <2>4, <2>5
  <2> HIDE DEF Fine
  <2>7. QED
    BY <2>1, <2>6
<1> DEFINE g == [s \in SUBSET S |-> CHOOSE m \in Int : Val(s, m)]
<1>6. \A s \in SUBSET S : g[s] \in Int /\ Val(s, g[s])
  BY <1>5
<1>7. \A s \in SUBSET S : g[s] = IF s = {} THEN 0 ELSE v[First(s)] + g[Rest(s)]
  <2> SUFFICES ASSUME NEW s \in SUBSET S
               PROVE  g[s] = IF s = {} THEN 0 ELSE v[First(s)] + g[Rest(s)]
    OBVIOUS
  <2> HIDE DEF g
  <2>1. CASE s = {}
    BY <1>4, <1>6, <2>1
  <2>2. CASE s # {}
    <3>1. PICK k \in Int : Val(Rest(s), k) /\ g[s] = v[First(s)] + k
      BY <1>4, <1>6, <2>2
    <3>2. k = g[Rest(s)]
      BY <1>1, <1>5, <1>6, <2>2, <3>1
    <3>3. QED
      BY <2>2, <3>1, <3>2
  <2>3. QED
    BY <2>1, <2>2
<1>8. g \in [SUBSET S -> Int] /\ Sums(v, S, g)
  BY <1>6, <1>7 DEF Sums
<1>9. QED
  BY <1>8

(* So MapThenSumSet computes what its recursion says,                      *)
LEMMA TotalSums ==
  ASSUME NEW S, IsFiniteSet(S), NEW v, \A x \in S : v[x] \in Int
  PROVE  \A g : Sums(v, S, g) => Total(v, S) = g[S] /\ g \in [SUBSET S -> Int]
<1> SUFFICES ASSUME NEW g, Sums(v, S, g) PROVE Total(v, S) = g[S] /\ g \in [SUBSET S -> Int]
  OBVIOUS
<1> DEFINE h == CHOOSE h : Sums(v, S, h)
<1>1. Sums(v, S, h)
  OBVIOUS
<1>2. Total(v, S) = h[S]
  BY TotalDef
<1> HIDE DEF h
<1>3. h = g
  BY <1>1, SumsUnique
<1>4. PICK k \in [SUBSET S -> Int] : Sums(v, S, k)
  BY SumsExist
<1>5. k = g
  BY <1>4, SumsUnique
<1>6. QED
  BY <1>2, <1>3, <1>4, <1>5

(* one element at a time,                                                  *)
LEMMA TotalFirst ==
  ASSUME NEW S, IsFiniteSet(S), NEW v, \A x \in S : v[x] \in Int
  PROVE  /\ Total(v, S) \in Int
         /\ S = {} => Total(v, S) = 0
         /\ S # {} => Total(v, S) = v[First(S)] + Total(v, S \ {First(S)})
<1>1. PICK g \in [SUBSET S -> Int] : Sums(v, S, g)
  BY SumsExist
<1>2. Total(v, S) = g[S]
  BY <1>1, TotalSums
<1>3. g[S] = IF S = {} THEN 0 ELSE v[First(S)] + g[S \ {First(S)}]
  BY <1>1 DEF Sums
<1>4. ASSUME S # {} PROVE Total(v, S \ {First(S)}) = g[S \ {First(S)}]
  <2> DEFINE T == S \ {First(S)}
             h == [s \in SUBSET T |-> g[s]]
  <2>1. IsFiniteSet(T) /\ T \subseteq S
    BY FS_Subset
  <2>2. \A s \in SUBSET T : h[s] = IF s = {} THEN 0 ELSE v[First(s)] + h[s \ {First(s)}]
    BY <1>1, <2>1, FirstIn DEF Sums
  <2>3. Sums(v, T, h)
    BY <2>2 DEF Sums
  <2>4. Total(v, T) = h[T]
    <3> HIDE DEF T, h
    <3> QED
      BY <2>1, <2>3, TotalSums
  <2>5. QED
    BY <2>4
<1>5. QED
  BY <1>1, <1>2, <1>3, <1>4

(* in whatever order: the sum over a larger set is larger by what was      *)
(* added. The fold may take another element first; it then does so in a    *)
(* smaller set.                                                            *)
LEMMA TotalAdd ==
  ASSUME NEW S, IsFiniteSet(S), NEW x, x \notin S, NEW v, \A y \in S \cup {x} : v[y] \in Int
  PROVE  Total(v, S \cup {x}) = Total(v, S) + v[x]
<1> DEFINE A == S \cup {x}
           F == {s \in SUBSET A : \E y \in A \ s : Total(v, s \cup {y}) # Total(v, s) + v[y]}
<1>1. IsFiniteSet(A) /\ \A s \in SUBSET A : IsFiniteSet(s)
  BY FS_AddElement, FS_Subset
<1>2. F = {}
  <2> SUFFICES ASSUME F # {} PROVE FALSE
    OBVIOUS
  <2>1. PICK s \in F : \A t \in SUBSET s : t # s => t \notin F
    <3>1. F \in SUBSET SUBSET A
      OBVIOUS
    <3> HIDE DEF F
    <3>2. QED
      BY <1>1, <3>1, SmallestSet
  <2>2. PICK y \in A \ s : Total(v, s \cup {y}) # Total(v, s) + v[y]
    BY <2>1
  <2> DEFINE c == First(s \cup {y})
             t == s \ {c}
  <2>3. s \in SUBSET A /\ c \in s \cup {y} /\ y \in A /\ v[y] \in Int /\ y \notin s
    BY <2>1, <2>2, FirstIn
  <2>4. /\ Total(v, s \cup {y}) = v[c] + Total(v, (s \cup {y}) \ {c})
        /\ Total(v, s) \in Int
    <3>1. s \cup {y} # {} /\ s \cup {y} \in SUBSET A /\ \A z \in A : v[z] \in Int
      BY <2>3
    <3> HIDE DEF A
    <3>2. QED
      BY <1>1, <2>3, <3>1, TotalFirst
  <2> HIDE DEF c
  <2>5. CASE c = y
    <3>1. (s \cup {y}) \ {c} = s
      BY <2>3, <2>5
    <3>2. Total(v, s \cup {y}) = v[y] + Total(v, s)
      BY <2>4, <2>5, <3>1
    <3>3. v[y] \in Int /\ Total(v, s) \in Int
      BY <2>3, <2>4
    <3> HIDE DEF F, A
    <3>4. QED
      BY <2>2, <3>2, <3>3
  <2>6. CASE c # y
    <3>1. c \in s /\ (s \cup {y}) \ {c} = t \cup {y} /\ t \cup {c} = s
      BY <2>3, <2>6
    <3>2. t \in SUBSET A /\ t \notin F /\ y \in A \ t /\ c \in A \ t
      BY <2>1, <2>3, <3>1
    <3>3. Total(v, t \cup {y}) = Total(v, t) + v[y] /\ Total(v, t \cup {c}) = Total(v, t) + v[c]
      BY <3>2
    <3>4. Total(v, t) \in Int /\ v[c] \in Int
      BY <1>1, <3>2, TotalFirst
    <3>5. QED
      BY <2>2, <2>3, <2>4, <3>1, <3>3, <3>4
  <2>7. QED
    BY <2>5, <2>6
<1>3. S \notin F /\ x \in A \ S
  BY <1>2
<1>4. QED
  BY <1>3

(* The same, taking an element away.                                       *)
LEMMA TotalRemove ==
  ASSUME NEW S, IsFiniteSet(S), NEW x \in S, NEW v, \A y \in S : v[y] \in Int
  PROVE  Total(v, S) = Total(v, S \ {x}) + v[x]
<1>1. IsFiniteSet(S \ {x}) /\ S = (S \ {x}) \cup {x}
  BY FS_Subset
<1>2. QED
  BY <1>1, TotalAdd

(* Sums over disjoint sets add up,                                         *)
LEMMA TotalUnion ==
  ASSUME NEW S, IsFiniteSet(S), NEW T, IsFiniteSet(T), S \cap T = {},
         NEW v, \A y \in S \cup T : v[y] \in Int
  PROVE  Total(v, S \cup T) = Total(v, S) + Total(v, T)
<1> DEFINE F == {s \in SUBSET T : Total(v, S \cup s) # Total(v, S) + Total(v, s)}
<1>1. F = {}
  <2> SUFFICES ASSUME F # {} PROVE FALSE
    OBVIOUS
  <2>1. PICK s \in F : \A t \in SUBSET s : t # s => t \notin F
    <3>1. F \in SUBSET SUBSET T
      OBVIOUS
    <3> HIDE DEF F
    <3>2. QED
      BY <3>1, SmallestSet
  <2>2. /\ s \in SUBSET T /\ Total(v, S \cup s) # Total(v, S) + Total(v, s)
        /\ \A y \in s : v[y] \in Int /\ y \notin S
    BY <2>1
  <2>3. Total(v, S) \in Int /\ Total(v, {}) = 0
    BY FS_EmptySet, TotalFirst
  <2>4. s # {}
    BY <2>2, <2>3
  <2>5. PICK x \in s : TRUE
    BY <2>4
  <2> DEFINE t == s \ {x}
  <2>6. t \notin F /\ t \in SUBSET T
    BY <2>1, <2>2
  <2>7. Total(v, S \cup t) = Total(v, S) + Total(v, t)
    BY <2>6
  <2>8. IsFiniteSet(s) /\ IsFiniteSet(S \cup s)
    BY <2>2, FS_Subset, FS_Union
  <2>9. Total(v, s) = Total(v, t) + v[x]
    BY <2>2, <2>8, TotalRemove
  <2>10. Total(v, S \cup s) = Total(v, (S \cup s) \ {x}) + v[x]
    BY <2>2, <2>8, TotalRemove
  <2>11. (S \cup s) \ {x} = S \cup t
    BY <2>2
  <2>12. Total(v, t) \in Int /\ v[x] \in Int
    <3>1. IsFiniteSet(t) /\ \A y \in t : v[y] \in Int
      BY <2>2, <2>8, FS_Subset
    <3> HIDE DEF t
    <3>2. QED
      BY <2>2, <3>1, TotalFirst
  <2> HIDE DEF t, F
  <2>13. Total(v, S \cup s) = (Total(v, S) + Total(v, t)) + v[x]
    BY <2>7, <2>10, <2>11
  <2>14. QED
    BY <2>2, <2>3, <2>9, <2>12, <2>13
<1>2. T \notin F
  BY <1>1
<1>3. QED
  BY <1>2


(* and sums of differences are differences of sums.                        *)
LEMMA TotalDiff ==
  ASSUME NEW S, IsFiniteSet(S), NEW u, NEW v, NEW w,
         \A x \in S : v[x] \in Int /\ w[x] \in Int /\ u[x] = v[x] - w[x]
  PROVE  Total(u, S) = Total(v, S) - Total(w, S)
<1> DEFINE F == {s \in SUBSET S : Total(u, s) # Total(v, s) - Total(w, s)}
<1>1. F = {}
  <2> SUFFICES ASSUME F # {} PROVE FALSE
    OBVIOUS
  <2>1. PICK s \in F : \A t \in SUBSET s : t # s => t \notin F
    <3>1. F \in SUBSET SUBSET S
      OBVIOUS
    <3> HIDE DEF F
    <3>2. QED
      BY <3>1, SmallestSet
  <2>2. /\ s \in SUBSET S /\ Total(u, s) # Total(v, s) - Total(w, s)
        /\ \A x \in s : v[x] \in Int /\ w[x] \in Int /\ u[x] \in Int
        /\ IsFiniteSet(s)
    BY <2>1, FS_Subset
  <2>3. s # {}
    <3>1. Total(u, {}) = 0 /\ Total(v, {}) = 0 /\ Total(w, {}) = 0
      BY FS_EmptySet, TotalFirst
    <3> HIDE DEF F
    <3>2. QED
      BY <2>2, <3>1
  <2> DEFINE x == First(s)
             t == s \ {x}
  <2>4. x \in s /\ t \in SUBSET s /\ t # s
    BY <2>3, FirstIn
  <2>5. t \in SUBSET S /\ t \notin F
    BY <2>1, <2>2, <2>4
  <2>6. Total(u, t) = Total(v, t) - Total(w, t)
    BY <2>5
  <2>7. /\ Total(u, s) = u[x] + Total(u, t) /\ Total(v, s) = v[x] + Total(v, t)
        /\ Total(w, s) = w[x] + Total(w, t)
    BY <2>2, <2>3, TotalFirst
  <2>8. Total(v, t) \in Int /\ Total(w, t) \in Int
    <3>1. IsFiniteSet(t) /\ \A y \in t : v[y] \in Int /\ w[y] \in Int
      BY <2>2, <2>4, FS_Subset
    <3> HIDE DEF t
    <3>2. QED
      BY <3>1, TotalFirst
  <2>9. v[x] \in Int /\ w[x] \in Int /\ u[x] = v[x] - w[x]
    BY <2>2, <2>4
  <2> HIDE DEF t, x, F
  <2>10. Total(u, s) = (v[x] - w[x]) + (Total(v, t) - Total(w, t))
    BY <2>6, <2>7, <2>9
  <2>11. Total(v, s) - Total(w, s) = (v[x] + Total(v, t)) - (w[x] + Total(w, t))
    BY <2>7
  <2>12. QED
    BY <2>2, <2>8, <2>9, <2>10, <2>11
<1>2. S \notin F
  BY <1>1
<1>3. QED
  BY <1>2

(* The union of a family of sets.                                         *)
Joined(D, S) == UNION {D[x] : x \in S}

(* The sum over a disjoint union is the sum of the sums.                   *)
LEMMA TotalFamily ==
  ASSUME NEW S, IsFiniteSet(S), NEW D, \A x \in S : IsFiniteSet(D[x]),
         \A x, y \in S : x # y => D[x] \cap D[y] = {},
         NEW u, NEW v, \A x \in S : \A y \in D[x] : v[y] \in Int,
         \A x \in S : u[x] = Total(v, D[x])
  PROVE  Total(v, Joined(D, S)) = Total(u, S) /\ IsFiniteSet(Joined(D, S))
<1> DEFINE All(s) == Joined(D, s)
           Fine(s) == Total(v, All(s)) = Total(u, s) /\ IsFiniteSet(All(s))
           F == {s \in SUBSET S : ~ Fine(s)}
<1>1. F = {}
  <2> SUFFICES ASSUME F # {} PROVE FALSE
    OBVIOUS
  <2>1. PICK s \in F : \A t \in SUBSET s : t # s => t \notin F
    <3>1. F \in SUBSET SUBSET S
      OBVIOUS
    <3> HIDE DEF F
    <3>2. QED
      BY <3>1, SmallestSet
  <2>2. s \in SUBSET S /\ ~ Fine(s) /\ IsFiniteSet(s)
    <3> HIDE DEF Fine
    <3> QED
      BY <2>1, FS_Subset
  <2>3. \A x \in S : u[x] \in Int
    BY TotalFirst
  <2>4. s # {}
    <3>1. All({}) = {}
      BY DEF Joined
    <3>2. Total(v, {}) = 0 /\ Total(u, {}) = 0 /\ IsFiniteSet({})
      BY FS_EmptySet, TotalFirst
    <3> HIDE DEF All
    <3>3. QED
      BY <2>2, <3>1, <3>2
  <2>5. PICK x \in s : TRUE
    BY <2>4
  <2> DEFINE t == s \ {x}
  <2>6. Fine(t)
    <3>1. t \in SUBSET s /\ t # s /\ t \in SUBSET S /\ t \notin F
      BY <2>1, <2>2
    <3> HIDE DEF Fine, t
    <3>2. QED
      BY <3>1
  <2>7. x \in S /\ IsFiniteSet(t) /\ t \subseteq S /\ x \notin t /\ s = t \cup {x}
    BY <2>2, FS_Subset
  <2>8. Total(u, s) = Total(u, t) + u[x]
    <3>1. \A y \in t \cup {x} : u[y] \in Int
      BY <2>3, <2>7
    <3> HIDE DEF t
    <3>2. QED
      BY <2>7, <3>1, TotalAdd
  <2>9. All(s) = All(t) \cup D[x] /\ All(t) \cap D[x] = {}
    BY <2>7 DEF Joined
  <2>10. \A y \in All(t) \cup D[x] : v[y] \in Int
    BY <2>7 DEF Joined
  <2> HIDE DEF All, t
  <2>11. Total(v, All(s)) = Total(v, All(t)) + Total(v, D[x]) /\ IsFiniteSet(All(s))
    <3>1. IsFiniteSet(All(t)) /\ IsFiniteSet(D[x])
      BY <2>6, <2>7
    <3>2. Total(v, All(t) \cup D[x]) = Total(v, All(t)) + Total(v, D[x])
      BY <2>9, <2>10, <3>1, TotalUnion
    <3>3. IsFiniteSet(All(t) \cup D[x])
      BY <3>1, FS_Union
    <3>4. QED
      BY <2>9, <3>2, <3>3
  <2>12. u[x] = Total(v, D[x])
    BY <2>7
  <2>13. Fine(s)
    BY <2>6, <2>8, <2>11, <2>12
  <2>14. QED
    BY <2>2, <2>13
<1>2. Fine(S)
  <2> HIDE DEF Fine
  <2> QED
    BY <1>1
<1>3. QED
  BY <1>2

(* The sum over one element.                                               *)
LEMMA TotalOne ==
  ASSUME NEW v, NEW x, v[x] \in Int
  PROVE  Total(v, {x}) = v[x] /\ IsFiniteSet({x})
<1>1. IsFiniteSet({}) /\ IsFiniteSet({x}) /\ Total(v, {}) = 0
  BY FS_EmptySet, FS_Singleton, TotalFirst
<1>2. Total(v, {} \cup {x}) = Total(v, {}) + v[x]
  BY <1>1, TotalAdd
<1>3. {} \cup {x} = {x}
  OBVIOUS
<1>4. QED
  BY <1>1, <1>2, <1>3

(* What f maps S to.                                                       *)
Mapped(f, S) == {f[x] : x \in S}

(* A sum may be taken over indices or over what they stand for.            *)
LEMMA TotalMap ==
  ASSUME NEW S, IsFiniteSet(S), NEW f,
         \A x, y \in S : x # y => f[x] # f[y],
         NEW v, NEW w, \A x \in S : w[f[x]] \in Int /\ v[x] = w[f[x]]
  PROVE  Total(w, Mapped(f, S)) = Total(v, S) /\ IsFiniteSet(Mapped(f, S))
<1> DEFINE D == [x \in S |-> {f[x]}]
<1>1. Joined(D, S) = Mapped(f, S)
  BY DEF Joined, Mapped
<1>2. \A x \in S : Total(w, {f[x]}) = w[f[x]] /\ IsFiniteSet({f[x]})
  BY TotalOne
<1>3. /\ \A x \in S : IsFiniteSet(D[x])
      /\ \A x, y \in S : x # y => D[x] \cap D[y] = {}
      /\ \A x \in S : \A y \in D[x] : w[y] \in Int
      /\ \A x \in S : v[x] = Total(w, D[x])
  BY <1>2
<1> HIDE DEF D
<1>4. Total(w, Joined(D, S)) = Total(v, S) /\ IsFiniteSet(Joined(D, S))
  BY <1>3, TotalFamily
<1>5. QED
  BY <1>1, <1>4

-----------------------------------------------------------------------------
(* The outputs of an object are outpoints.                                 *)
LEMMA OutsType ==
  ASSUME NEW x
  PROVE  Outs(x) \in SUBSET Outpoint
BY FieldTypes DEF Outs, Outpoint, HashID

(* Likewise the inputs.                                                    *)
LEMMA InsType ==
  ASSUME NEW x
  PROVE  Ins(x) \in SUBSET Outpoint
BY FieldTypes DEF Ins

(* The UTXO set that a block leaves is a set of outpoints.                 *)
LEMMA UnspentType ==
  ASSUME NEW b \in Block, NEW parent \in SUBSET Outpoint
  PROVE  NewUTXOs(b, parent) \in SUBSET Outpoint
BY OutsType DEF NewUTXOs, UnspentAfter

(* A failed validation is a ValidationResult,                              *)
LEMMA FailType ==
  ASSUME NEW code \in Code, NEW missing \in HashID \cup {nil}
  PROVE  Fail(code, missing) \in ValidationResult
BY DEF Fail, ValidationResult

(* and so is a passed one.                                                 *)
LEMMA ValidType == Valid \in ValidationResult
BY FailType DEF Valid, Code

(* A transaction that passes has all its inputs among the stored objects.  *)
LEMMA TransactionResult ==
  ASSUME NEW t \in Tx, NEW objs, NEW spent
  PROVE  LET r == ValidateTransaction(t, objs, spent)
         IN  /\ r \in ValidationResult
             /\ r.code = "NONE" => \A o \in Ins(t) : o[1] \in objs
<1> DEFINE Err(k) == InputError(t, k, objs, spent)
           bad == {k \in DOMAIN Inputs[t] : Err(k) # "NONE"}
<1>1. \A k : Err(k) \in Code
  BY DEF InputError, Code
<1>2. \A k \in DOMAIN Inputs[t] : Err(k) = "NONE" => Inputs[t][k][1] \in objs
  BY DEF InputError
<1>3. CASE bad # {}
  <2>1. ValidateTransaction(t, objs, spent) = Fail(Err(Min(bad)), nil)
    BY <1>3 DEF ValidateTransaction
  <2>2. Err(Min(bad)) # "NONE"
    <3>1. bad \in SUBSET Nat
      BY FieldTypes
    <3>2. Min(bad) \in bad
      BY <3>1, <1>3, MinMember
    <3>3. QED
      BY <3>2
  <2>3. QED
    BY <1>1, <2>1, <2>2, FailType DEF Fail
<1>4. CASE bad = {}
  <2>1. \A o \in Ins(t) : o[1] \in objs
    BY <1>2, <1>4 DEF Ins
  <2>2. ValidateTransaction(t, objs, spent) \in
          {Fail("INVALID_TX_CONSERVATION", nil), Fail("INVALID_TX_SIGNATURE", nil), Valid}
    BY <1>4 DEF ValidateTransaction
  <2>3. QED
    BY <2>1, <2>2, FailType, ValidType DEF Code
<1>5. QED
  BY <1>3, <1>4

(* A block that passes has its parent and its transactions among the       *)
(* stored objects and a stored set to start from, each of its transactions *)
(* passed its turn of the loop, and the result is that set changed by the  *)
(* transactions.                                                           *)
LEMMA BlockResult ==
  ASSUME NEW b \in Block, NEW objs, NEW tip,
         NEW utxo \in [Block -> UTXOSet \cup {NoUTXO}]
  PROVE  LET r == ValidateBlock(b, objs, utxo, tip)
         IN  /\ r \in ValidationResult
             /\ r.code = "UNKNOWN_OBJECT" => r.missing \in HashID
             /\ r.code = "NONE" =>
                  /\ HeaderError(b, objs, utxo) = "NONE"
                  /\ Ids(b) \subseteq objs
                  /\ \A i \in DOMAIN Txids[b] : TxidError(b, i, objs, ParentUTXOs(b, utxo),
                                                       NewHeight(b, utxo)) = "NONE"
                  /\ r.utxos = NewUTXOs(b, ParentUTXOs(b, utxo))
                  /\ r.height = NewHeight(b, utxo)
                  /\ r.isNewTip = IsNewTip(r.height, tip)
<1> DEFINE header == HeaderError(b, objs, utxo)
           parent == ParentUTXOs(b, utxo)
           height == NewHeight(b, utxo)
           Err(i) == TxidError(b, i, objs, parent, height)
           bad == {i \in DOMAIN Txids[b] : Err(i) # "NONE"}
           r == ValidateBlock(b, objs, utxo, tip)
<1>1. header \in Code
  BY DEF HeaderError, Code
<1>2. \A i : Err(i) \in Code
  BY DEF TxidError, Code
<1>3. \A i \in DOMAIN Txids[b] : Err(i) = "NONE" => Txids[b][i] \in objs
  BY DEF TxidError
<1>4. Previd[b] \in HashID \cup {nil} /\ Txids[b] \in Seq(HashID)
  BY FieldTypes
<1>5. CASE header # "NONE"
  <2>1. r = Fail(header, IF header = "UNKNOWN_OBJECT" THEN Previd[b] ELSE nil)
    BY <1>5 DEF ValidateBlock
  <2>2. header = "UNKNOWN_OBJECT" => Previd[b] # nil
    BY DEF HeaderError
  <2>3. r \in ValidationResult
    BY <1>1, <1>4, <2>1, FailType
  <2>4. r.code = header /\ (header = "UNKNOWN_OBJECT" => r.missing = Previd[b])
    BY <2>1 DEF Fail
  <2> HIDE DEF r, header
  <2>5. /\ r.code = "UNKNOWN_OBJECT" => r.missing \in HashID
        /\ r.code # "NONE"
    BY <1>4, <1>5, <2>2, <2>4
  <2>6. QED
    BY <2>3, <2>5 DEF r
<1>6. CASE header = "NONE" /\ bad # {}
  <2>1. Min(bad) \in bad
    <3>1. bad \in SUBSET Nat
      BY <1>4
    <3>2. QED
      BY <1>6, <3>1, MinMember
  <2>2. r = Fail(Err(Min(bad)), IF Err(Min(bad)) = "UNKNOWN_OBJECT"
                                 THEN Txids[b][Min(bad)] ELSE nil)
    BY <1>6 DEF ValidateBlock
  <2>3. Txids[b][Min(bad)] \in HashID
    <3>1. \A i \in DOMAIN Txids[b] : Txids[b][i] \in HashID
      BY <1>4
    <3>2. QED
      BY <2>1, <3>1
  <2>4. r \in ValidationResult
    BY <1>2, <2>2, <2>3, FailType
  <2>5. /\ r.code = Err(Min(bad))
        /\ Err(Min(bad)) = "UNKNOWN_OBJECT" => r.missing = Txids[b][Min(bad)]
    BY <2>2 DEF Fail
  <2>6. Err(Min(bad)) # "NONE"
    BY <2>1
  <2> HIDE DEF r, bad, Err
  <2>7. /\ r.code = "UNKNOWN_OBJECT" => r.missing \in HashID
        /\ r.code # "NONE"
    BY <2>3, <2>5, <2>6
  <2>8. QED
    BY <2>4, <2>7 DEF r
<1>7. CASE header = "NONE" /\ bad = {}
  <2>1. Ids(b) \subseteq objs
    BY <1>3, <1>7 DEF Ids
  <2>2. CASE CoinbaseValue(b) > CoinbaseLimit(b)
    <3>1. r = Fail("INVALID_BLOCK_COINBASE", nil)
      BY <1>7, <2>2 DEF ValidateBlock
    <3>2. QED
      BY <3>1, FailType DEF Fail, Code
  <2>3. CASE ~ (CoinbaseValue(b) > CoinbaseLimit(b))
    <3>1. r = [code |-> "NONE", missing |-> nil, utxos |-> NewUTXOs(b, parent),
               height |-> height, isNewTip |-> IsNewTip(height, tip)]
      BY <1>7, <2>3 DEF ValidateBlock
    <3>2. parent \in SUBSET Outpoint /\ height \in Nat
      <4>1. CASE Previd[b] = nil
        BY <4>1 DEF ParentUTXOs, NewHeight
      <4>2. CASE Previd[b] # nil
        <5>1. Previd[b] \in Block /\ utxo[Previd[b]] # NoUTXO
          BY <1>7, <4>2 DEF HeaderError
        <5>2. utxo[Previd[b]] \in UTXOSet
          BY <5>1
        <5>3. QED
          BY <4>2, <5>2 DEF ParentUTXOs, NewHeight, UTXOSet
      <4>3. QED
        BY <4>1, <4>2
    <3>3. NewUTXOs(b, parent) \in SUBSET Outpoint
      BY <3>2, UnspentType
    <3>4. IsNewTip(height, tip) \in BOOLEAN
      BY DEF IsNewTip
    <3>5. r \in ValidationResult
      BY <3>1, <3>2, <3>3, <3>4 DEF ValidationResult, Code
    <3>6. QED
      BY <1>7, <2>1, <3>1, <3>5
  <2>4. QED
    BY <2>2, <2>3
<1>8. QED
  BY <1>5, <1>6, <1>7

-----------------------------------------------------------------------------
(* ValidateTransaction passes exactly if all its checks do.                *)
LEMMA TransactionPasses ==
  ASSUME NEW t \in Tx, NEW objs, NEW spent
  PROVE  ValidateTransaction(t, objs, spent).code = "NONE" <=>
           /\ \A k \in DOMAIN Inputs[t] : InputError(t, k, objs, spent) = "NONE"
           /\ ~ (SumOutputs(t) > SumInputs(t))
           /\ \A k \in DOMAIN Sig[t] : Sig[t][k] = "valid"
<1> DEFINE Err(k) == InputError(t, k, objs, spent)
           bad == {k \in DOMAIN Inputs[t] : Err(k) # "NONE"}
<1>1. CASE bad # {}
  <2>1. ValidateTransaction(t, objs, spent) = Fail(Err(Min(bad)), nil)
    BY <1>1 DEF ValidateTransaction
  <2>2. Err(Min(bad)) # "NONE"
    <3>1. Inputs[t] \in Seq(Outpoint)
      BY FieldTypes
    <3>2. bad \in SUBSET Nat
      BY <3>1
    <3>3. QED
      BY <1>1, <3>2, MinMember
  <2> HIDE DEF bad, Err
  <2>3. ValidateTransaction(t, objs, spent).code # "NONE"
    BY <2>1, <2>2 DEF Fail
  <2>4. QED
    BY <1>1, <2>3 DEF bad, Err
<1>2. CASE bad = {}
  BY <1>2 DEF ValidateTransaction, Valid, Fail
<1>3. QED
  BY <1>1, <1>2

(* So does ValidateBlock.                                                  *)
LEMMA BlockPasses ==
  ASSUME NEW b \in Block, NEW objs, NEW utxo, NEW tip
  PROVE  ValidateBlock(b, objs, utxo, tip).code = "NONE" <=>
           /\ HeaderError(b, objs, utxo) = "NONE"
           /\ \A i \in DOMAIN Txids[b] : TxidError(b, i, objs, ParentUTXOs(b, utxo),
                                                NewHeight(b, utxo)) = "NONE"
           /\ ~ (CoinbaseValue(b) > CoinbaseLimit(b))
<1> DEFINE header == HeaderError(b, objs, utxo)
           Err(i) == TxidError(b, i, objs, ParentUTXOs(b, utxo), NewHeight(b, utxo))
           bad == {i \in DOMAIN Txids[b] : Err(i) # "NONE"}
           r == ValidateBlock(b, objs, utxo, tip)
<1>1. CASE header # "NONE"
  <2>1. r.code = header
    BY <1>1 DEF ValidateBlock, Fail
  <2>2. QED
    BY <1>1, <2>1
<1>2. CASE header = "NONE" /\ bad # {}
  <2>1. Err(Min(bad)) # "NONE"
    <3>1. Txids[b] \in Seq(HashID)
      BY FieldTypes
    <3>2. bad \in SUBSET Nat
      BY <3>1
    <3>3. QED
      BY <1>2, <3>2, MinMember
  <2>2. r.code = Err(Min(bad))
    BY <1>2 DEF ValidateBlock, Fail
  <2>3. QED
    BY <1>2, <2>1, <2>2
<1>3. CASE header = "NONE" /\ bad = {}
  <2>1. r.code = "NONE" <=> ~ (CoinbaseValue(b) > CoinbaseLimit(b))
    BY <1>3 DEF ValidateBlock, Fail
  <2>2. QED
    BY <1>3, <2>1
<1>4. QED
  BY <1>1, <1>2, <1>3

(* A transaction that passes still does when more transactions are stored  *)
(* and the mempool spends less.                                            *)
LEMMA TransactionKept ==
  ASSUME NEW t \in Tx, NEW objs, NEW spent, NEW objs2, NEW spent2,
         \A x \in Tx \cup Coinbase : x \in objs => x \in objs2, spent2 \subseteq spent,
         ValidateTransaction(t, objs, spent).code = "NONE"
  PROVE  ValidateTransaction(t, objs2, spent2).code = "NONE"
<1>1. ASSUME NEW k, InputError(t, k, objs, spent) = "NONE"
      PROVE  InputError(t, k, objs2, spent2) = "NONE"
  BY <1>1 DEF InputError
<1>2. QED
  BY <1>1, TransactionPasses

(* A block that passes still does when more transactions are stored and    *)
(* the set of its parent is the same.                                      *)
LEMMA BlockKept ==
  ASSUME NEW b \in Block, NEW objs, NEW utxo, NEW tip, NEW objs2, NEW utxo2, NEW tip2,
         \A x \in Tx \cup Coinbase : x \in objs => x \in objs2,
         Previd[b] # nil => Previd[b] \in objs2 /\ utxo2[Previd[b]] = utxo[Previd[b]],
         ValidateBlock(b, objs, utxo, tip).code = "NONE"
  PROVE  ValidateBlock(b, objs2, utxo2, tip2).code = "NONE"
<1>1. HeaderError(b, objs2, utxo2) = "NONE"
  <2>1. HeaderError(b, objs, utxo) = "NONE"
    BY BlockPasses
  <2>2. QED
    BY <2>1 DEF HeaderError
<1>2. ParentUTXOs(b, utxo2) = ParentUTXOs(b, utxo) /\ NewHeight(b, utxo2) = NewHeight(b, utxo)
  BY DEF ParentUTXOs, NewHeight
<1>3. ASSUME NEW i, NEW P, NEW h, TxidError(b, i, objs, P, h) = "NONE"
      PROVE  TxidError(b, i, objs2, P, h) = "NONE"
  BY <1>3 DEF TxidError
<1>4. QED
  BY <1>1, <1>2, <1>3, BlockPasses

(* What ValidateBlock names as missing is not stored, or is a block whose  *)
(* UTXO set is not.                                                        *)
LEMMA MissingObject ==
  ASSUME NEW b \in Block, NEW objs, NEW utxo, NEW tip,
         ValidateBlock(b, objs, utxo, tip).code = "UNKNOWN_OBJECT"
  PROVE  LET m == ValidateBlock(b, objs, utxo, tip).missing
         IN  m \notin objs \/ (m \in Block /\ utxo[m] = NoUTXO)
<1> DEFINE header == HeaderError(b, objs, utxo)
           Err(i) == TxidError(b, i, objs, ParentUTXOs(b, utxo), NewHeight(b, utxo))
           bad == {i \in DOMAIN Txids[b] : Err(i) # "NONE"}
           r == ValidateBlock(b, objs, utxo, tip)
<1>1. CASE header # "NONE"
  <2>1. r.code = header /\ (header = "UNKNOWN_OBJECT" => r.missing = Previd[b])
    BY <1>1 DEF ValidateBlock, Fail
  <2>2. header = "UNKNOWN_OBJECT" =>
          Previd[b] \notin objs \/ (Previd[b] \in Block /\ utxo[Previd[b]] = NoUTXO)
    BY DEF HeaderError
  <2> HIDE DEF r, header
  <2>3. r.missing \notin objs \/ (r.missing \in Block /\ utxo[r.missing] = NoUTXO)
    BY <2>1, <2>2 DEF r
  <2>4. QED
    BY <2>3 DEF r
<1>2. CASE header = "NONE" /\ bad # {}
  <2>1. r.code = Err(Min(bad)) /\
        (Err(Min(bad)) = "UNKNOWN_OBJECT" => r.missing = Txids[b][Min(bad)])
    BY <1>2 DEF ValidateBlock, Fail
  <2>2. \A i : Err(i) = "UNKNOWN_OBJECT" => Txids[b][i] \notin objs
    BY DEF TxidError
  <2> HIDE DEF r, bad, Err
  <2>3. r.missing \notin objs
    BY <2>1, <2>2 DEF r
  <2>4. QED
    BY <2>3 DEF r
<1>3. CASE header = "NONE" /\ bad = {}
  <2>1. r.code \in {"NONE", "INVALID_BLOCK_COINBASE"}
    BY <1>3 DEF ValidateBlock, Fail
  <2>2. QED
    BY <2>1
<1>4. QED
  BY <1>1, <1>2, <1>3
=============================================================================
