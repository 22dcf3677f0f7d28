---------------------------- MODULE MatchingProofs ----------------------------
(***************************************************************************)
(* Proofs about the matching engine, for any tree, evidence and jobs.      *)
(*                                                                         *)
(* The prover takes no induction principle with a formula for a parameter, *)
(* so induction is here a smallest or a greatest counterexample of a set,  *)
(* and a recursive function is first shown to exist.                       *)
(***************************************************************************)
EXTENDS MatchEvaluation, MatchSelection, FiniteSetTheorems, TLAPS

-------------------------------------------------------------------------------
(* Induction and recursion over numbers.                                     *)

\* A set of numbers has a smallest element.
LEMMA LeastNumber ==
  ASSUME NEW T \in SUBSET Nat, T # {}
  PROVE  \E x \in T : \A y \in T : x <= y
<1> DEFINE R == OpToRel(<, Nat)
<1>1. IsWellFoundedOn(R, Nat)
  BY NatLessThanWellFounded
<1>2. \A x, y \in Nat : <<x, y>> \in R <=> x < y
  BY DEF OpToRel
<1> HIDE DEF R
<1>3. PICK x \in T : \A y \in T : ~ (<<y, x>> \in R)
  BY <1>1, WFMin, Zenon
<1>4. ASSUME NEW y \in T PROVE x <= y
  <2>1. x \in Nat /\ y \in Nat
    OBVIOUS
  <2>2. ~(y < x)
    BY <1>2, <1>3, <2>1, Zenon
  <2> QED  BY <2>1, <2>2
<1> QED  BY <1>4

\* A set below a number, and its members above one.
Bounded(S)   == \E N \in Nat : S \subseteq 0 .. N
Larger(S, n) == {c \in S : c > n}

\* A bounded set has a greatest element.
LEMMA GreatestNumber ==
  ASSUME NEW S, Bounded(S), NEW T \in SUBSET S, T # {}
  PROVE  \E x \in T : \A y \in Larger(S, x) : y \notin T
<1> PICK N \in Nat : S \subseteq 0 .. N
  BY DEF Bounded
<1> DEFINE mirror == {N - y : y \in T}
<1>1. mirror \in SUBSET Nat /\ mirror # {}
  <2>1. \A y \in T : y \in 0 .. N
    OBVIOUS
  <2>2. \A y \in T : N - y \in Nat
    BY <2>1
  <2> QED  BY <2>2
<1>2. PICK m \in mirror : \A y \in mirror : m <= y
  BY <1>1, LeastNumber
<1>3. PICK x \in T : m = N - x
  BY <1>2
<1>4. \A y \in T : N - x <= N - y
  BY <1>2, <1>3
<1> QED  BY <1>4 DEF Larger

\* A family of subsets of a finite set has a smallest one.
LEMMA SmallestSubset ==
  ASSUME NEW S, IsFiniteSet(S), NEW F \in SUBSET SUBSET S, F # {}
  PROVE  \E U \in F : \A W \in F : W \subseteq U => W = U
<1> DEFINE R == StrictSubsetOrdering(S)
<1>1. IsWellFoundedOn(R, SUBSET S)
  BY FS_StrictSubsetOrderingWellFounded, FS_FiniteSubsetsOfFinite
<1>2. \A W, U \in SUBSET S : W \subseteq U /\ W # U => <<W, U>> \in R
  BY DEF StrictSubsetOrdering
<1> HIDE DEF R
<1>3. PICK U \in F : \A W \in F : ~ (<<W, U>> \in R)
  BY <1>1, WFMin, Zenon
<1> QED  BY <1>2, <1>3

\* A finite set of numbers is bounded.
LEMMA FiniteIsBounded ==
  ASSUME NEW S, IsFiniteSet(S)
  PROVE  S \subseteq Nat => Bounded(S)
<1> DEFINE unbounded == {U \in SUBSET S : \A N \in Nat : ~(U \subseteq 0 .. N)}
<1>1. unbounded \in SUBSET SUBSET S
  OBVIOUS
<1>2. unbounded # {} => \E U \in unbounded : \A W \in unbounded : W \subseteq U => W = U
  <2> HIDE DEF unbounded
  <2> QED  BY <1>1, SmallestSubset
<1> SUFFICES ASSUME S \subseteq Nat, unbounded # {} PROVE FALSE
  BY DEF Bounded
<1>3. PICK U \in unbounded : \A W \in unbounded : W \subseteq U => W = U
  <2> HIDE DEF unbounded
  <2> QED  BY <1>2
<1>4. PICK x \in U : x \in Nat
  BY <1>3
<1>5. U \ {x} \notin unbounded
  BY <1>3, <1>4
<1>6. PICK N \in Nat : U \ {x} \subseteq 0 .. N
  BY <1>3, <1>5
<1>7. CASE x <= N
  BY <1>3, <1>4, <1>6, <1>7
<1>8. CASE x > N
  <2>1. U \subseteq 0 .. x
    BY <1>4, <1>6, <1>8
  <2> QED  BY <1>3, <1>4, <2>1
<1> QED  BY <1>4, <1>6, <1>7, <1>8

\* R leads down: every part of S has a member that nothing in it precedes.
LeadsDown(S, R) == \A T \in SUBSET S : T # {} => \E x \in T : \A y \in T : <<y, x>> \notin R

\* A step gives a value at x from the values at what precedes it alone, and a
\* function that takes that step everywhere.
LooksDown(S, V, R, step) ==
  /\ step \in [S \X [S -> V] -> V]
  /\ \A x \in S : \A g, h \in [S -> V] :
       (\A y \in S : <<y, x>> \in R => g[y] = h[y]) => step[<<x, g>>] = step[<<x, h>>]
Solves(S, V, step, g) == g \in [S -> V] /\ \A x \in S : g[x] = step[<<x, g>>]

\* There is one: what it may be wrong at shrinks until nothing is left.
LEMMA RecursionOnFinite ==
  ASSUME NEW S, IsFiniteSet(S), NEW V, V # {}, NEW R, LeadsDown(S, R),
         NEW step, LooksDown(S, V, R, step)
  PROVE  \E g : Solves(S, V, step, g)
<1> DEFINE Right(g, x) == g[x] = step[<<x, g>>]
           Left(g, D) == \A x \in S \ D : /\ Right(g, x)
                                          /\ \A y \in S : <<y, x>> \in R => y \notin D
           lefts == {D \in SUBSET S : \E g \in [S -> V] : Left(g, D)}
<1>1. S \in lefts
  <2>1. PICK v \in V : TRUE
    OBVIOUS
  <2>2. [x \in S |-> v] \in [S -> V]
    BY <2>1
  <2> QED  BY <2>2
<1>2. PICK D \in lefts : \A E \in lefts : E \subseteq D => E = D
  <2>1. lefts \in SUBSET SUBSET S /\ lefts # {}
    BY <1>1
  <2> HIDE DEF lefts
  <2> QED  BY <2>1, SmallestSubset
<1>3. PICK g \in [S -> V] : Left(g, D)
  BY <1>2
<1>4. D \in SUBSET S
  BY <1>2
<1>5. ASSUME D # {} PROVE FALSE
  <2>1. PICK w \in D : \A y \in D : <<y, w>> \notin R
    BY <1>4, <1>5 DEF LeadsDown
  <2> DEFINE h == [g EXCEPT ![w] = step[<<w, g>>]]
  <2>2. w \in S /\ step[<<w, g>>] \in V
    BY <1>4 DEF LooksDown
  <2>3. h \in [S -> V] /\ h[w] = step[<<w, g>>] /\ \A x \in S : x # w => h[x] = g[x]
    BY <2>2
  <2> HIDE DEF h
  <2>4. ASSUME NEW x \in S \ (D \ {w})
        PROVE  Right(h, x) /\ \A y \in S : <<y, x>> \in R => y \notin D
    <3>1. \A y \in S : <<y, x>> \in R => y \notin D
      BY <1>3, <2>1, <2>4
    <3>2. \A y \in S : <<y, x>> \in R => h[y] = g[y]
      BY <2>1, <2>3, <3>1
    <3>3. step[<<x, h>>] = step[<<x, g>>]
      BY <2>3, <3>2 DEF LooksDown
    <3>4. h[x] = step[<<x, g>>]
      BY <1>3, <2>3, <2>4
    <3> QED  BY <3>1, <3>3, <3>4
  <2>5. Left(h, D \ {w})
    <3> HIDE DEF Right
    <3> QED  BY <2>4
  <2>6. D \ {w} \in lefts
    <3> HIDE DEF Left
    <3> QED  BY <1>4, <2>3, <2>5
  <2>7. D \ {w} = D
    <3> HIDE DEF lefts
    <3> QED  BY <1>2, <2>6
  <2> QED  BY <2>1, <2>7
<1>6. \A x \in S : Right(g, x)
  BY <1>3, <1>5
<1> QED  BY <1>6 DEF Solves

\* On numbers, from the values at the larger ones.
LooksUp(S, V, step) ==
  /\ step \in [S \X [S -> V] -> V]
  /\ \A n \in S : \A g, h \in [S -> V] :
       (\A c \in Larger(S, n) : g[c] = h[c]) => step[<<n, g>>] = step[<<n, h>>]

\* A function given at each number by its values at the larger ones exists.
LEMMA RecursiveFunction ==
  ASSUME NEW S, NEW V, NEW step, Bounded(S), V # {}, LooksUp(S, V, step)
  PROVE  \E g : Solves(S, V, step, g)
<1> DEFINE R == {p \in S \X S : p[1] > p[2]}
<1>1. IsFiniteSet(S)
  <2>1. PICK N \in Nat : S \subseteq 0 .. N
    BY DEF Bounded
  <2>2. IsFiniteSet(0 .. N)
    BY FS_Interval
  <2> QED  BY <2>1, <2>2, FS_Subset
<1>2. \A x, y \in S : <<y, x>> \in R <=> y \in Larger(S, x)
  BY DEF Larger
<1> HIDE DEF R
<1>3. LeadsDown(S, R)
  <2>1. ASSUME NEW T \in SUBSET S, T # {} PROVE \E x \in T : \A y \in T : <<y,
               x>> \notin R
    BY <1>2, <2>1, GreatestNumber
  <2> QED  BY <2>1 DEF LeadsDown
<1>4. LooksDown(S, V, R, step)
  <2>1. ASSUME NEW n \in S, NEW g \in [S -> V], NEW h \in [S -> V],
               \A y \in S : <<y, n>> \in R => g[y] = h[y]
        PROVE  step[<<n, g>>] = step[<<n, h>>]
    <3>1. \A c \in Larger(S, n) : g[c] = h[c]
      BY <1>2, <2>1 DEF Larger
    <3> QED  BY <3>1 DEF LooksUp
  <2> QED  BY <2>1 DEF LooksDown, LooksUp
<1> QED  BY <1>1, <1>3, <1>4, RecursionOnFinite

\* On sets, from the values at smaller sets,
Within(S) == {p \in (SUBSET S) \X (SUBSET S) : p[1] \subseteq p[2] /\ p[1] # p[2]}

\* sets that are taken from the smaller to the larger lead down to a first one;
LEMMA WithinLeadsDown ==
  ASSUME NEW S, IsFiniteSet(S)
  PROVE  LeadsDown(SUBSET S, Within(S))
<1>1. ASSUME NEW T \in SUBSET SUBSET S, T # {} PROVE \E x \in T : \A y \in T : <<y,
             x>> \notin Within(S)
  <2>1. PICK U \in T : \A W \in T : W \subseteq U => W = U
    BY <1>1, SmallestSubset
  <2> QED  BY <2>1 DEF Within
<1> QED  BY <1>1 DEF LeadsDown

\* or at larger ones.
Around(S) == {p \in (SUBSET S) \X (SUBSET S) : p[2] \subseteq p[1] /\ p[1] # p[2]}

\* so do those taken from the larger to the smaller.
LEMMA AroundLeadsDown ==
  ASSUME NEW S, IsFiniteSet(S)
  PROVE  LeadsDown(SUBSET S, Around(S))
<1>1. ASSUME NEW T \in SUBSET SUBSET S, T # {} PROVE \E x \in T : \A y \in T : <<y,
             x>> \notin Around(S)
  <2> DEFINE mirror == {S \ U : U \in T}
  <2>1. mirror \in SUBSET SUBSET S /\ mirror # {}
    <3>1. PICK U \in T : TRUE
      BY <1>1
    <3>2. S \ U \in mirror
      OBVIOUS
    <3>3. \A M \in mirror : M \in SUBSET S
      OBVIOUS
    <3> HIDE DEF mirror
    <3> QED  BY <3>2, <3>3
  <2>2. PICK M \in mirror : \A W \in mirror : W \subseteq M => W = M
    <3> HIDE DEF mirror
    <3> QED  BY <2>1, SmallestSubset
  <2>3. PICK U \in T : M = S \ U
    BY <2>2
  <2>4. ASSUME NEW W \in T, U \subseteq W PROVE W = U
    <3>1. S \ W \in mirror /\ S \ W \subseteq M
      BY <2>3, <2>4
    <3>2. S \ W = S \ U
      BY <2>2, <2>3, <3>1
    <3>3. W \in SUBSET S /\ U \in SUBSET S
      OBVIOUS
    <3> QED  BY <3>2, <3>3
  <2> QED  BY <2>3, <2>4 DEF Around
<1> QED  BY <1>1 DEF LeadsDown

\* R orders the members of S, one before the other.
Orders(S, R) ==
  /\ \A x, y \in S : x # y => <<x, y>> \in R \/ <<y, x>> \in R
  /\ \A x, y, z \in S : <<x, y>> \in R /\ <<y, z>> \in R => <<x, z>> \in R

\* Then one of any of them is before all the others.
LEMMA FirstExists ==
  ASSUME NEW S, IsFiniteSet(S), NEW R, Orders(S, R), NEW T \in SUBSET S, T # {}
  PROVE  \E x \in T : \A y \in T \ {x} : <<x, y>> \in R
<1> DEFINE First(U, x) == \A y \in U \ {x} : <<x, y>> \in R
           none == {U \in SUBSET S : U # {} /\ \A x \in U : ~First(U, x)}
<1> SUFFICES ASSUME none # {} PROVE FALSE
  OBVIOUS
<1>1. PICK U \in none : \A W \in none : W \subseteq U => W = U
  <2>1. none \in SUBSET SUBSET S
    OBVIOUS
  <2> HIDE DEF none
  <2> QED  BY <2>1, SmallestSubset
<1>2. U \in SUBSET S /\ U # {} /\ \A x \in U : ~First(U, x)
  BY <1>1
<1>3. PICK x \in U : U \ {x} # {}
  BY <1>2
<1>4. U \ {x} \notin none
  BY <1>1, <1>3
<1>5. PICK b \in U \ {x} : First(U \ {x}, b)
  BY <1>2, <1>3, <1>4
<1>6. CASE <<b, x>> \in R
  <2>1. First(U, b)
    BY <1>5, <1>6
  <2> QED  BY <1>2, <1>5, <2>1
<1>7. CASE <<x, b>> \in R
  <2>1. ASSUME NEW o \in U \ {x} PROVE <<x, o>> \in R
    <3>1. CASE o = b
      BY <1>7, <3>1
    <3>2. CASE o # b
      <4>1. <<b, o>> \in R /\ x \in S /\ b \in S /\ o \in S
        BY <1>2, <1>3, <1>5, <2>1, <3>2
      <4> QED  BY <1>7, <4>1 DEF Orders
    <3> QED  BY <3>1, <3>2
  <2> QED  BY <1>2, <1>3, <2>1
<1>8. <<b, x>> \in R \/ <<x, b>> \in R
  BY <1>2, <1>3, <1>5 DEF Orders
<1> QED  BY <1>6, <1>7, <1>8

-------------------------------------------------------------------------------
(* Requirement trees, for any finite number of operators and criteria.       *)

\* The operators and criteria are numbered as the constants say.
NumberedTree ==
  /\ Inner \subseteq Nat /\ Leaf \subseteq Nat /\ IsFiniteSet(Node) /\ 0 \in Inner
  /\ \A n \in Inner, l \in Leaf : n < l

\* The nodes of a tree that are in use, the root first.
InTree(t) == DOMAIN t.parent \cup {0}

\* Children of a node in use are in use and larger, and an operator has some.
LEMMA TreeShape ==
  ASSUME NumberedTree, NEW t \in Trees
  PROVE  /\ t.kind \in [Inner -> {"ALL_OF", "ANY_OF"}]
         /\ InTree(t) \subseteq Node /\ 0 \in InTree(t)
         /\ Leaves(t) = InTree(t) \cap Leaf /\ Leaves(t) = InTree(t) \ Inner
         /\ \A n \in Node : Children(t, n) \subseteq InTree(t) \ {0}
         /\ \A n \in Node : \A c \in Children(t, n) : c > n
         /\ \A n \in InTree(t) \cap Inner : Children(t, n) # {}
         /\ \A l \in Leaf : Children(t, l) = {}
<1>1. PICK used \in SUBSET (Node \ {0}) :
        /\ t \in [parent : [used -> Inner], kind : [Inner -> {"ALL_OF", "ANY_OF"}]]
        /\ \A c \in used : t.parent[c] < c
        /\ \A n \in (used \cap Inner) \cup {0} : Children(t, n) # {}
  BY DEF Trees
<1>2. DOMAIN t.parent = used /\ \A c \in used : t.parent[c] \in Inner
  BY <1>1
<1>3. Inner \cap Leaf = {} /\ 0 \in Inner /\ Inner \subseteq Nat /\ Leaf \subseteq Nat
  BY DEF NumberedTree
<1>4. t.kind \in [Inner -> {"ALL_OF", "ANY_OF"}]
  BY <1>1
<1>5. used \subseteq Node \ {0} /\ InTree(t) = used \cup {0} /\ Leaves(t) = used \ Inner
  BY <1>2 DEF InTree, Leaves
<1>6. InTree(t) \subseteq Node /\ Leaves(t) = InTree(t) \cap Leaf /\ Leaves(t) = InTree(t) \ Inner
  BY <1>3, <1>5 DEF Node
<1>7. \A n : Children(t, n) = {c \in used : t.parent[c] = n}
  BY <1>2 DEF Children
<1>8. ASSUME NEW n \in Node, NEW c \in Children(t, n)
      PROVE  c \in InTree(t) \ {0} /\ c > n
  <2>1. c \in used /\ t.parent[c] = n /\ t.parent[c] < c
    BY <1>1, <1>7
  <2>2. c \in Nat /\ n \in Nat /\ c # 0
    BY <1>1, <1>3, <2>1 DEF Node
  <2> QED  BY <1>5, <2>1, <2>2
<1>9. \A n \in InTree(t) \cap Inner : Children(t, n) # {}
  BY <1>1, <1>5
<1>10. ASSUME NEW l \in Leaf PROVE Children(t, l) = {}
  <2>1. \A c \in used : t.parent[c] # l
    BY <1>2, <1>3
  <2> QED  BY <1>7, <2>1
<1> QED  BY <1>4, <1>5, <1>6, <1>8, <1>9, <1>10

\* The nodes are bounded, and children are among the larger ones.
LEMMA NodesBounded ==
  ASSUME NumberedTree
  PROVE  /\ Bounded(Node)
         /\ \A t \in Trees : \A n \in Node : Children(t, n) \subseteq Larger(Node, n)
<1>1. Node \subseteq Nat /\ IsFiniteSet(Node)
  BY DEF NumberedTree, Node
<1>2. Bounded(Node)
  BY <1>1, FiniteIsBounded
<1> QED  BY <1>2, TreeShape DEF Larger

\* The results of the nodes are those of their children.
LEMMA ResultsAre ==
  ASSUME NumberedTree, NEW t \in Trees, NEW d
  PROVE  /\ \A n \in Inner : Results(t, d)[n] = Join(t.kind[n], {Results(t, d)[c] : c \in Children(t, n)})
         /\ \A l \in Leaf : Results(t, d)[l] = d[l]
<1> DEFINE V == Three \cup {d[n] : n \in Node}
           value(n, g) == IF n \in Inner THEN Join(t.kind[n], {g[c] : c \in Children(t, n)}) ELSE d[n]
           step == [p \in Node \X [Node -> V] |-> value(p[1], p[2])]
<1>2. ASSUME NEW n \in Node, NEW g PROVE value(n, g) \in V
  <2>1. CASE n \in Inner
    <3>1. t.kind[n] \in {"ALL_OF", "ANY_OF"}
      BY <2>1, TreeShape
    <3> QED  BY <2>1, <3>1 DEF Join, Three
  <2> QED  BY <2>1
<1>3. LooksUp(Node, V, step)
  <2>1. step \in [Node \X [Node -> V] -> V]
    <3> HIDE DEF V, value
    <3> QED  BY <1>2
  <2>2. ASSUME NEW n \in Node, NEW g \in [Node -> V], NEW h \in [Node -> V],
               \A c \in Larger(Node, n) : g[c] = h[c]
        PROVE  step[<<n, g>>] = step[<<n, h>>]
    <3>1. \A c \in Children(t, n) : g[c] = h[c]
      BY <2>2, NodesBounded
    <3>2. {g[c] : c \in Children(t, n)} = {h[c] : c \in Children(t, n)}
      BY <3>1
    <3>3. value(n, g) = value(n, h)
      BY <3>2
    <3> HIDE DEF V, value
    <3> QED  BY <3>3
  <2> HIDE DEF V, step
  <2> QED  BY <2>1, <2>2 DEF LooksUp
<1>4. PICK g : Solves(Node, V, step, g)
  <2>1. V # {} /\ Bounded(Node)
    BY NodesBounded DEF Three
  <2> HIDE DEF V, step
  <2> QED  BY <1>3, <2>1, RecursiveFunction
<1>5. g = [n \in Node |-> g[n]]
  <2> HIDE DEF V, step
  <2> QED  BY <1>4 DEF Solves
<1>6. \A n \in Node : g[n] = value(n, g)
  <2>1. \A n \in Node : <<n, g>> \in Node \X [Node -> V]
    BY <1>4 DEF Solves
  <2> HIDE DEF V, value
  <2> QED  BY <1>4, <2>1 DEF Solves
<1>7. g = [n \in Node |-> IF n \in Inner THEN Join(t.kind[n], {g[c] : c \in Children(t, n)})
                          ELSE d[n]]
  BY <1>5, <1>6
<1>8. Results(t, d) = [n \in Node |-> IF n \in Inner
                THEN Join(t.kind[n], {Results(t, d)[c] : c \in Children(t, n)}) ELSE d[n]]
  BY <1>7 DEF Results
<1>9. Inner \cap Leaf = {}
  BY DEF NumberedTree
<1> QED  BY <1>8, <1>9 DEF Node

\* What a candidate with these facts satisfies, node by node.
Truth(t, facts, h) ==
  /\ h \in [Node -> BOOLEAN]
  /\ \A l \in Leaf : h[l] <=> l \in facts
  /\ \A n \in Inner : h[n] <=> IF t.kind[n] = "ALL_OF" THEN \A c \in Children(t, n) : h[c]
                                                      ELSE \E c \in Children(t, n) : h[c]

\* The reference is the truth of the root.
LEMMA HoldsAre ==
  ASSUME NumberedTree, NEW t \in Trees, NEW facts
  PROVE  \E h : Truth(t, facts, h) /\ Holds(t, facts) = h[0]
<1> DEFINE value(n, g) ==
             CASE n \in Leaf -> n \in facts
               [] n \in Inner /\ t.kind[n] = "ALL_OF" -> \A c \in Children(t, n) : g[c]
               [] OTHER -> \E c \in Children(t, n) : g[c]
           step == [p \in Node \X [Node -> BOOLEAN] |-> value(p[1], p[2])]
<1>1. ASSUME NEW n \in Node, NEW g PROVE value(n, g) \in BOOLEAN
  <2>1. CASE n \in Leaf
    <3>1. n \notin Inner
      BY <2>1 DEF NumberedTree
    <3>2. value(n, g) = (n \in facts)
      BY <2>1, <3>1
    <3>3. (n \in facts) \in BOOLEAN
      OBVIOUS
    <3> HIDE DEF value
    <3> QED  BY <3>2, <3>3, Zenon
  <2>2. CASE n \notin Leaf /\ n \in Inner /\ t.kind[n] = "ALL_OF"
    BY <2>2
  <2>3. CASE n \notin Leaf /\ ~(n \in Inner /\ t.kind[n] = "ALL_OF")
    BY <2>3
  <2> QED  BY <2>1, <2>2, <2>3
<1>2. LooksUp(Node, BOOLEAN, step)
  <2>1. step \in [Node \X [Node -> BOOLEAN] -> BOOLEAN]
    <3> HIDE DEF value
    <3> QED  BY <1>1
  <2>2. ASSUME NEW n \in Node, NEW g \in [Node -> BOOLEAN],
               NEW h \in [Node -> BOOLEAN],
               \A c \in Larger(Node, n) : g[c] = h[c]
        PROVE  step[<<n, g>>] = step[<<n, h>>]
    <3>1. \A c \in Children(t, n) : g[c] = h[c]
      BY <2>2, NodesBounded
    <3>2. (\A c \in Children(t, n) : g[c]) = (\A c \in Children(t, n) : h[c])
      BY <3>1
    <3>3. (\E c \in Children(t, n) : g[c]) = (\E c \in Children(t, n) : h[c])
      BY <3>1
    <3>4. value(n, g) = value(n, h)
      BY <3>2, <3>3
    <3> HIDE DEF value
    <3> QED  BY <3>4
  <2> HIDE DEF step
  <2> QED  BY <2>1, <2>2 DEF LooksUp
<1>3. PICK g : Solves(Node, BOOLEAN, step, g)
  <2>1. BOOLEAN # {} /\ Bounded(Node)
    BY NodesBounded
  <2> HIDE DEF step
  <2> QED  BY <1>2, <2>1, RecursiveFunction
<1>4. g = [n \in Node |-> g[n]]
  BY <1>3 DEF Solves
<1>5. \A n \in Node : g[n] = value(n, g)
  <2>1. \A n \in Node : <<n, g>> \in Node \X [Node -> BOOLEAN]
    BY <1>3 DEF Solves
  <2> HIDE DEF value
  <2> QED  BY <1>3, <2>1 DEF Solves
<1>6. g = [n \in Node |->
             CASE n \in Leaf -> n \in facts
               [] n \in Inner /\ t.kind[n] = "ALL_OF" -> \A c \in Children(t, n) : g[c]
               [] OTHER -> \E c \in Children(t, n) : g[c]]
  BY <1>4, <1>5, Zenon
<1> DEFINE holds == CHOOSE holds : holds = [n \in Node |->
             CASE n \in Leaf -> n \in facts
               [] n \in Inner /\ t.kind[n] = "ALL_OF" -> \A c \in Children(t, n) : holds[c]
               [] OTHER -> \E c \in Children(t, n) : holds[c]]
<1>7. holds = [n \in Node |->
             CASE n \in Leaf -> n \in facts
               [] n \in Inner /\ t.kind[n] = "ALL_OF" -> \A c \in Children(t, n) : holds[c]
               [] OTHER -> \E c \in Children(t, n) : holds[c]]
  BY <1>6, Zenon
<1>8. Holds(t, facts) = holds[0]
  BY Zenon DEF Holds
<1> HIDE DEF holds
<1>9. Truth(t, facts, holds)
  <2>1. Inner \cap Leaf = {} /\ Node = Inner \cup Leaf
    BY DEF NumberedTree, Node
  <2>2. \A n \in Node : holds[n] = value(n, holds)
    BY <1>7
  <2>3. holds \in [Node -> BOOLEAN]
    BY <1>1, <1>7
  <2> QED  BY <2>1, <2>2, <2>3 DEF Truth
<1> QED  BY <1>8, <1>9

\* An ALL_OF passes when all of its children do and fails when one does; an ANY_OF
\* the other way round.
LEMMA ResultOf ==
  ASSUME NumberedTree, NEW t \in Trees, NEW d, NEW n \in Inner
  PROVE  LET result == Results(t, d) IN
         /\ result[n] \in Three
         /\ t.kind[n] = "ALL_OF" =>
              /\ (result[n] = "PASS") <=> \A c \in Children(t, n) : result[c] = "PASS"
              /\ (result[n] = "FAIL") <=> \E c \in Children(t, n) : result[c] = "FAIL"
         /\ t.kind[n] # "ALL_OF" =>
              /\ (result[n] = "PASS") <=> \E c \in Children(t, n) : result[c] = "PASS"
              /\ (result[n] = "FAIL") <=> \A c \in Children(t, n) : result[c] = "FAIL"
<1> DEFINE result  == Results(t, d)
           results == {result[c] : c \in Children(t, n)}
<1>1. result[n] = Join(t.kind[n], results)
  BY ResultsAre, Zenon
<1>2. t.kind[n] \in {"ALL_OF", "ANY_OF"}
  BY TreeShape
<1>3. \A s : /\ s \in results <=> \E c \in Children(t, n) : result[c] = s
             /\ results \subseteq {s} <=> \A c \in Children(t, n) : result[c] = s
  OBVIOUS
<1> HIDE DEF result, results
<1>4. CASE t.kind[n] = "ALL_OF"
  BY <1>1, <1>3, <1>4 DEF Join, Three, result
<1>5. CASE t.kind[n] = "ANY_OF"
  BY <1>1, <1>3, <1>5 DEF Join, Three, result
<1> QED  BY <1>2, <1>4, <1>5 DEF result

\* The nodes of a tree that lack it have a greatest, whose children have it.
LEMMA LastNode ==
  ASSUME NumberedTree, NEW t \in Trees, NEW lacking \in SUBSET InTree(t), lacking # {}
  PROVE  \E n \in lacking : \A c \in Children(t, n) : c \in InTree(t) /\ c \notin lacking
<1>1. lacking \in SUBSET Node /\ Bounded(Node)
  BY TreeShape, NodesBounded
<1>2. PICK n \in lacking : \A c \in Larger(Node, n) : c \notin lacking
  BY <1>1, GreatestNumber
<1>3. n \in Node
  BY <1>1
<1> QED  BY <1>2, <1>3, TreeShape, NodesBounded

\* A result that is decided is what every possible candidate has,
LEMMA DecidedIsTrue ==
  ASSUME NumberedTree, NEW t \in Trees, NEW d \in [Leaves(t) -> Three],
         NEW facts \in Candidates(t, d), NEW h, Truth(t, facts, h)
  PROVE  \A n \in InTree(t) : /\ Results(t, d)[n] = "PASS" => h[n]
                              /\ Results(t, d)[n] = "FAIL" => ~h[n]
<1> DEFINE result   == Results(t, d)
           right(n) == (result[n] = "PASS" => h[n]) /\ (result[n] = "FAIL" => ~h[n])
           wrong    == {n \in InTree(t) : ~right(n)}
<1> SUFFICES ASSUME wrong # {} PROVE FALSE
  OBVIOUS
<1>1. PICK n \in wrong : \A c \in Children(t, n) : c \in InTree(t) /\ c \notin wrong
  <2>1. wrong \in SUBSET InTree(t)
    OBVIOUS
  <2> HIDE DEF wrong
  <2> QED  BY <2>1, LastNode
<1>2. n \in InTree(t) /\ n \in Node /\ \A c \in Children(t, n) : right(c)
  BY <1>1, TreeShape
<1>3. CASE n \in Leaf
  <2>1. n \in Leaves(t) /\ result[n] = d[n] /\ (h[n] <=> n \in facts)
    BY <1>2, <1>3, TreeShape, ResultsAre DEF Truth
  <2>2. (d[n] = "PASS" => n \in facts) /\ (d[n] = "FAIL" => n \notin facts)
    BY <2>1 DEF Candidates
  <2> QED  BY <1>1, <2>1, <2>2
<1>4. CASE n \in Inner
  <2> HIDE DEF result
  <2>1. h[n] <=> IF t.kind[n] = "ALL_OF" THEN \A c \in Children(t, n) : h[c]
                                         ELSE \E c \in Children(t, n) : h[c]
    BY <1>4 DEF Truth
  <2>2. right(n)
    BY <1>2, <1>4, <2>1, ResultOf DEF result
  <2> QED  BY <1>1, <2>2
<1> QED  BY <1>2, <1>3, <1>4 DEF Node

\* and what is not decided is open: who has only what is sure satisfies no more
\* than what passes, who has all that is possible whatever does not fail.
LEMMA SureIsPassing ==
  ASSUME NumberedTree, NEW t \in Trees, NEW d \in [Leaves(t) -> Three],
         NEW h, Truth(t, {l \in Leaves(t) : d[l] = "PASS"}, h)
  PROVE  \A n \in InTree(t) : h[n] <=> Results(t, d)[n] = "PASS"
<1> DEFINE result   == Results(t, d)
           facts    == {l \in Leaves(t) : d[l] = "PASS"}
           right(n) == h[n] <=> result[n] = "PASS"
           wrong    == {n \in InTree(t) : ~right(n)}
<1> SUFFICES ASSUME wrong # {} PROVE FALSE
  OBVIOUS
<1>1. PICK n \in wrong : \A c \in Children(t, n) : c \in InTree(t) /\ c \notin wrong
  <2>1. wrong \in SUBSET InTree(t)
    OBVIOUS
  <2> HIDE DEF wrong
  <2> QED  BY <2>1, LastNode
<1>2. n \in InTree(t) /\ n \in Node /\ \A c \in Children(t, n) : right(c)
  BY <1>1, TreeShape
<1>3. CASE n \in Leaf
  <2>1. n \in Leaves(t) /\ result[n] = d[n] /\ (h[n] <=> n \in facts)
    BY <1>2, <1>3, TreeShape, ResultsAre DEF Truth
  <2> QED  BY <1>1, <2>1
<1>4. CASE n \in Inner
  <2> HIDE DEF result
  <2>1. h[n] <=> IF t.kind[n] = "ALL_OF" THEN \A c \in Children(t, n) : h[c]
                                         ELSE \E c \in Children(t, n) : h[c]
    BY <1>4 DEF Truth
  <2>2. right(n)
    BY <1>2, <1>4, <2>1, ResultOf DEF result
  <2> QED  BY <1>1, <2>2
<1> QED  BY <1>2, <1>3, <1>4 DEF Node

\* Nor does the one who has what is unknown, where nothing fails.
LEMMA PossibleIsNotFailing ==
  ASSUME NumberedTree, NEW t \in Trees, NEW d \in [Leaves(t) -> Three],
         NEW h, Truth(t, {l \in Leaves(t) : d[l] # "FAIL"}, h)
  PROVE  \A n \in InTree(t) : h[n] <=> Results(t, d)[n] # "FAIL"
<1> DEFINE result   == Results(t, d)
           facts    == {l \in Leaves(t) : d[l] # "FAIL"}
           right(n) == h[n] <=> result[n] # "FAIL"
           wrong    == {n \in InTree(t) : ~right(n)}
<1> SUFFICES ASSUME wrong # {} PROVE FALSE
  OBVIOUS
<1>1. PICK n \in wrong : \A c \in Children(t, n) : c \in InTree(t) /\ c \notin wrong
  <2>1. wrong \in SUBSET InTree(t)
    OBVIOUS
  <2> HIDE DEF wrong
  <2> QED  BY <2>1, LastNode
<1>2. n \in InTree(t) /\ n \in Node /\ \A c \in Children(t, n) : right(c)
  BY <1>1, TreeShape
<1>3. CASE n \in Leaf
  <2>1. n \in Leaves(t) /\ result[n] = d[n] /\ (h[n] <=> n \in facts)
    BY <1>2, <1>3, TreeShape, ResultsAre DEF Truth
  <2> QED  BY <1>1, <2>1
<1>4. CASE n \in Inner
  <2> HIDE DEF result
  <2>1. h[n] <=> IF t.kind[n] = "ALL_OF" THEN \A c \in Children(t, n) : h[c]
                                         ELSE \E c \in Children(t, n) : h[c]
    BY <1>4 DEF Truth
  <2>2. right(n)
    BY <1>2, <1>4, <2>1, ResultOf DEF result
  <2> QED  BY <1>1, <2>2
<1> QED  BY <1>2, <1>3, <1>4 DEF Node

\* The decided part of TreeSound, for every tree: a listing's requirements pass
\* exactly for candidates of whom every completion satisfies them, and fail
\* exactly for those of whom none does.
LEMMA ResultIsSound ==
  ASSUME NumberedTree, NEW t \in Trees, NEW d \in [Leaves(t) -> Three]
  PROVE  ResultSound(t, d)
<1> DEFINE sure     == {l \in Leaves(t) : d[l] = "PASS"}
           possible == {l \in Leaves(t) : d[l] # "FAIL"}
<1>1. sure \in Candidates(t, d) /\ possible \in Candidates(t, d)
  BY DEF Candidates
<1>2. 0 \in InTree(t)
  BY TreeShape
<1>3. ASSUME NEW facts \in Candidates(t, d)
      PROVE  (Root(t, d) = "PASS" => Holds(t, facts)) /\ (Root(t, d) = "FAIL" => ~Holds(t, facts))
  <2>1. PICK h : Truth(t, facts, h) /\ Holds(t, facts) = h[0]
    BY HoldsAre
  <2> QED  BY <1>2, <2>1, DecidedIsTrue DEF Root
<1>4. Holds(t, sure) <=> Root(t, d) = "PASS"
  <2>1. PICK h : Truth(t, sure, h) /\ Holds(t, sure) = h[0]
    BY HoldsAre
  <2> QED  BY <1>2, <2>1, SureIsPassing DEF Root
<1>5. Holds(t, possible) <=> Root(t, d) # "FAIL"
  <2>1. PICK h : Truth(t, possible, h) /\ Holds(t, possible) = h[0]
    BY HoldsAre
  <2> QED  BY <1>2, <2>1, PossibleIsNotFailing DEF Root
<1> HIDE DEF sure, possible
<1> QED  BY <1>1, <1>3, <1>4, <1>5 DEF ResultSound

\* The root of a tree has a result.
LEMMA RootType ==
  ASSUME NumberedTree, NEW t \in Trees, NEW d
  PROVE  Root(t, d) \in Three
<1>1. 0 \in Inner
  BY DEF NumberedTree
<1> QED  BY <1>1, ResultOf DEF Root

\* The unknowns that are asked for are those with an answer that settles the tree.
LEMMA DeterminativeIsSound ==
  ASSUME NumberedTree, NEW t \in Trees, NEW d \in [Leaves(t) -> Three]
  PROVE  DeterminativeSound(t, d)
<1> DEFINE Settles(l) ==
             \E answer \in BOOLEAN : \E outcome \in BOOLEAN :
               \A facts \in Candidates(t, d) : (l \in facts) = answer => Holds(t, facts) = outcome
<1>1. ASSUME NEW l \in Leaves(t), d[l] = "UNKNOWN", NEW r \in {"PASS", "FAIL"}
      PROVE  Root(t, [d EXCEPT ![l] = r]) # "UNKNOWN" <=>
               \E outcome \in BOOLEAN : \A facts \in Candidates(t, d) :
                 (l \in facts) = (r = "PASS") => Holds(t, facts) = outcome
  <2> DEFINE e == [d EXCEPT ![l] = r]
  <2>1. e \in [Leaves(t) -> Three]
    BY DEF Three
  <2>2. Candidates(t, e) = {facts \in Candidates(t, d) : (l \in facts) = (r = "PASS")}
    BY <1>1 DEF Candidates, Three
  <2> HIDE DEF e
  <2>3. ResultSound(t, e) /\ Root(t, e) \in Three
    BY <2>1, ResultIsSound, RootType
  <2>4. \A facts : Holds(t, facts) \in BOOLEAN
    BY HoldsAre, TreeShape DEF Truth
  <2>5. Root(t, e) # "UNKNOWN" <=>
          \/ \A facts \in Candidates(t, e) : Holds(t, facts)
          \/ \A facts \in Candidates(t, e) : ~Holds(t, facts)
    BY <2>3 DEF ResultSound, Three
  <2>6. Root(t, e) # "UNKNOWN" <=>
          \/ \A facts \in Candidates(t, d) : (l \in facts) = (r = "PASS") => Holds(t, facts)
          \/ \A facts \in Candidates(t, d) : (l \in facts) = (r = "PASS") => ~Holds(t, facts)
    BY <2>2, <2>5
  <2> QED  BY <2>4, <2>6 DEF e
<1>2. ASSUME NEW l \in Leaves(t), d[l] = "UNKNOWN"
      PROVE  (\E r \in {"PASS", "FAIL"} : Root(t, [d EXCEPT ![l] = r]) # "UNKNOWN") <=> Settles(l)
  BY <1>1, <1>2
<1>3. CASE Root(t, d) = "UNKNOWN"
  BY <1>2, <1>3 DEF Determinative, DeterminativeSound
<1>4. CASE Root(t, d) # "UNKNOWN"
  BY <1>4 DEF Determinative, DeterminativeSound
<1> QED  BY <1>3, <1>4

-------------------------------------------------------------------------------
(* Sums over sets, and the child that an alternative is satisfied by.        *)

\* The sums of the weights w over the subsets of a set, as Folds takes them.
Sums(S, w, g) ==
  /\ g \in [SUBSET S -> Nat]
  /\ \A s \in SUBSET S :
       g[s] = IF s = {} THEN 0 ELSE w[CHOOSE x \in s : TRUE] + g[s \ {CHOOSE x \in s : TRUE}]

\* They exist.
LEMMA SumsExist ==
  ASSUME NEW S, IsFiniteSet(S), NEW w \in [S -> Nat]
  PROVE  \E g : Sums(S, w, g)
<1> DEFINE First(s) == CHOOSE x \in s : TRUE
           value(s, g) == IF s = {} THEN 0 ELSE w[First(s)] + g[s \ {First(s)}]
           step == [p \in (SUBSET S) \X [SUBSET S -> Nat] |-> value(p[1], p[2])]
<1>1. \A s \in SUBSET S : s # {} => /\ First(s) \in s /\ First(s) \in S
                                    /\ s \ {First(s)} \in SUBSET S
                                    /\ <<s \ {First(s)}, s>> \in Within(S)
  BY DEF Within
<1>2. ASSUME NEW s \in SUBSET S, NEW g \in [SUBSET S -> Nat] PROVE value(s, g) \in Nat
  <2>1. CASE s = {}
    BY <2>1
  <2>2. CASE s # {}
    <3>1. w[First(s)] \in Nat /\ g[s \ {First(s)}] \in Nat
      BY <1>1, <2>2
    <3> HIDE DEF First
    <3> QED  BY <2>2, <3>1
  <2> QED  BY <2>1, <2>2
<1>3. LooksDown(SUBSET S, Nat, Within(S), step)
  <2>1. step \in [(SUBSET S) \X [SUBSET S -> Nat] -> Nat]
    <3> HIDE DEF value
    <3> QED  BY <1>2
  <2>2. ASSUME NEW s \in SUBSET S, NEW g \in [SUBSET S -> Nat],
               NEW h \in [SUBSET S -> Nat],
               \A r \in SUBSET S : <<r, s>> \in Within(S) => g[r] = h[r]
        PROVE  step[<<s, g>>] = step[<<s, h>>]
    <3>1. value(s, g) = value(s, h)
      <4> HIDE DEF First
      <4> QED  BY <1>1, <2>2
    <3> HIDE DEF value
    <3> QED  BY <3>1
  <2> HIDE DEF step
  <2> QED  BY <2>1, <2>2 DEF LooksDown
<1>4. PICK g : Solves(SUBSET S, Nat, step, g)
  <2>1. IsFiniteSet(SUBSET S) /\ Nat # {} /\ LeadsDown(SUBSET S, Within(S))
    BY FS_SUBSET, WithinLeadsDown
  <2> HIDE DEF step
  <2> QED  BY <1>3, <2>1, RecursionOnFinite
<1>5. g \in [SUBSET S -> Nat] /\ \A s \in SUBSET S : g[s] = value(s, g)
  <2>1. g \in [SUBSET S -> Nat]
    BY <1>4 DEF Solves
  <2>2. \A s \in SUBSET S : <<s, g>> \in (SUBSET S) \X [SUBSET S -> Nat]
    BY <2>1
  <2> HIDE DEF value
  <2> QED  BY <1>4, <2>1, <2>2 DEF Solves
<1> QED  BY <1>5, Zenon DEF Sums

\* A sum of natural numbers over a finite set of criteria is one.
LEMMA SumIsNatural ==
  ASSUME NEW S, IsFiniteSet(S), NEW w \in [S -> Nat], NEW g,
         \A s \in SUBSET S :
           g[s] = IF s = {} THEN 0 ELSE w[CHOOSE x \in s : TRUE] + g[s \ {CHOOSE x \in s : TRUE}]
  PROVE  g[S] \in Nat
<1> DEFINE wrong == {s \in SUBSET S : g[s] \notin Nat}
<1> SUFFICES ASSUME wrong # {} PROVE FALSE
  OBVIOUS
<1>1. PICK s \in wrong : \A r \in wrong : r \subseteq s => r = s
  <2>1. wrong \in SUBSET SUBSET S
    OBVIOUS
  <2> HIDE DEF wrong
  <2> QED  BY <2>1, SmallestSubset
<1> DEFINE x == CHOOSE x \in s : TRUE
<1>2. CASE s = {}
  BY <1>1, <1>2
<1>3. CASE s # {}
  <2>1. x \in s /\ x \in S /\ s \ {x} \subseteq s /\ s \ {x} # s /\ s \ {x} \in SUBSET S
    BY <1>1, <1>3
  <2>2. g[s \ {x}] \in Nat /\ w[x] \in Nat
    BY <1>1, <2>1
  <2>3. g[s] = w[x] + g[s \ {x}]
    BY <1>1, <1>3
  <2> HIDE DEF x
  <2>4. g[s] \in Nat
    BY <2>2, <2>3
  <2> QED  BY <1>1, <2>4
<1> QED  BY <1>2, <1>3

\* So the weight of a finite set of criteria is a natural number,
LEMMA WeightIs ==
  ASSUME NEW q, IsFiniteSet(q), q \subseteq Nat
  PROVE  Sum(Importance, q) \in Nat
<1> DEFINE w == [l \in q |-> Importance(l)]
           iter == CHOOSE iter : iter = [s \in SUBSET q |-> IF s = {} THEN 0
                     ELSE Importance(CHOOSE x \in s : TRUE) + iter[s \ {CHOOSE x \in s : TRUE}]]
<1>1. w \in [q -> Nat]
  BY DEF Importance
<1>2. \A s \in SUBSET q : s # {} => w[CHOOSE x \in s : TRUE] = Importance(CHOOSE x \in s : TRUE)
  OBVIOUS
<1>3. PICK g : Sums(q, w, g)
  <2> HIDE DEF w
  <2> QED  BY <1>1, SumsExist
<1>4. g = [s \in SUBSET q |-> IF s = {} THEN 0
             ELSE Importance(CHOOSE x \in s : TRUE) + g[s \ {CHOOSE x \in s : TRUE}]]
  <2> HIDE DEF w
  <2>1. \A s \in SUBSET q : g[s] = IF s = {} THEN 0
             ELSE Importance(CHOOSE x \in s : TRUE) + g[s \ {CHOOSE x \in s : TRUE}]
    BY <1>2, <1>3, Zenon DEF Sums
  <2>2. g = [s \in SUBSET q |-> g[s]]
    BY <1>3 DEF Sums
  <2> QED  BY <2>1, <2>2, Zenon
<1>5. iter = [s \in SUBSET q |-> IF s = {} THEN 0
                ELSE Importance(CHOOSE x \in s : TRUE) + iter[s \ {CHOOSE x \in s : TRUE}]]
  BY <1>4, Zenon
<1>6. Sum(Importance, q) = iter[q]
  BY Zenon DEF Sum, MapThenSumSet, MapThenFoldSet
<1> HIDE DEF iter, w
<1>7. \A s \in SUBSET q : iter[s] = IF s = {} THEN 0
        ELSE w[CHOOSE x \in s : TRUE] + iter[s \ {CHOOSE x \in s : TRUE}]
  <2>1. \A s \in SUBSET q : iter[s] = IF s = {} THEN 0
          ELSE Importance(CHOOSE x \in s : TRUE) + iter[s \ {CHOOSE x \in s : TRUE}]
    BY <1>5
  <2>2. ASSUME NEW s \in SUBSET q
        PROVE  iter[s] = IF s = {} THEN 0
                 ELSE w[CHOOSE x \in s : TRUE] + iter[s \ {CHOOSE x \in s : TRUE}]
    <3>1. CASE s = {}
      BY <2>1, <3>1
    <3>2. CASE s # {}
      BY <1>2, <2>1, <3>2, Zenon
    <3> QED  BY <3>1, <3>2
  <2> QED  BY <2>2
<1>8. iter[q] \in Nat
  BY <1>1, <1>7, SumIsNatural, Zenon
<1> QED  BY <1>6, <1>8

\* and so is its confidence.
LEMMA TotalIs ==
  ASSUME NEW q, IsFiniteSet(q), q \subseteq Nat
  PROVE  Sum(Confidence, q) \in Nat
<1> DEFINE w == [l \in q |-> Confidence(l)]
           iter == CHOOSE iter : iter = [s \in SUBSET q |-> IF s = {} THEN 0
                     ELSE Confidence(CHOOSE x \in s : TRUE) + iter[s \ {CHOOSE x \in s : TRUE}]]
<1>1. w \in [q -> Nat]
  BY DEF Confidence
<1>2. \A s \in SUBSET q : s # {} => w[CHOOSE x \in s : TRUE] = Confidence(CHOOSE x \in s : TRUE)
  OBVIOUS
<1>3. PICK g : Sums(q, w, g)
  <2> HIDE DEF w
  <2> QED  BY <1>1, SumsExist
<1>4. g = [s \in SUBSET q |-> IF s = {} THEN 0
             ELSE Confidence(CHOOSE x \in s : TRUE) + g[s \ {CHOOSE x \in s : TRUE}]]
  <2> HIDE DEF w
  <2>1. \A s \in SUBSET q : g[s] = IF s = {} THEN 0
             ELSE Confidence(CHOOSE x \in s : TRUE) + g[s \ {CHOOSE x \in s : TRUE}]
    BY <1>2, <1>3, Zenon DEF Sums
  <2>2. g = [s \in SUBSET q |-> g[s]]
    BY <1>3 DEF Sums
  <2> QED  BY <2>1, <2>2, Zenon
<1>5. iter = [s \in SUBSET q |-> IF s = {} THEN 0
                ELSE Confidence(CHOOSE x \in s : TRUE) + iter[s \ {CHOOSE x \in s : TRUE}]]
  BY <1>4, Zenon
<1>6. Sum(Confidence, q) = iter[q]
  BY Zenon DEF Sum, MapThenSumSet, MapThenFoldSet
<1> HIDE DEF iter, w
<1>7. \A s \in SUBSET q : iter[s] = IF s = {} THEN 0
        ELSE w[CHOOSE x \in s : TRUE] + iter[s \ {CHOOSE x \in s : TRUE}]
  <2>1. \A s \in SUBSET q : iter[s] = IF s = {} THEN 0
          ELSE Confidence(CHOOSE x \in s : TRUE) + iter[s \ {CHOOSE x \in s : TRUE}]
    BY <1>5
  <2>2. ASSUME NEW s \in SUBSET q
        PROVE  iter[s] = IF s = {} THEN 0
                 ELSE w[CHOOSE x \in s : TRUE] + iter[s \ {CHOOSE x \in s : TRUE}]
    <3>1. CASE s = {}
      BY <2>1, <3>1
    <3>2. CASE s # {}
      BY <1>2, <2>1, <3>2, Zenon
    <3> QED  BY <3>1, <3>2
  <2> QED  BY <2>2
<1>8. iter[q] \in Nat
  BY <1>1, <1>7, SumIsNatural, Zenon
<1> QED  BY <1>6, <1>8


\* Ratios of natural numbers, compared by cross multiplication, are ordered.
LEMMA RatiosAreOrdered ==
  ASSUME NEW x \in Nat, NEW y \in Nat, NEW z \in Nat,
         NEW i \in Nat \ {0}, NEW j \in Nat \ {0}, NEW k \in Nat \ {0}
  PROVE  /\ x * j - y * i >= 0 /\ y * k - z * j >= 0 => x * k - z * i >= 0
         /\ x * j - y * i > 0 /\ y * k - z * j >= 0 => x * k - z * i > 0
         /\ x * j - y * i >= 0 /\ y * k - z * j > 0 => x * k - z * i > 0
<1> DEFINE a == x * j - y * i
           b == y * k - z * j
           c == x * k - z * i
<1>1. a \in Int /\ b \in Int /\ c \in Int
  OBVIOUS
<1>2. c * j = a * k + b * i
  OBVIOUS
<1> HIDE DEF a, b, c
<1>3. \A p \in Int, q \in Nat \ {0} : (p >= 0 => p * q >= 0) /\ (p > 0 => p * q > 0)
  OBVIOUS
<1>4. (a >= 0 => a * k >= 0) /\ (a > 0 => a * k > 0) /\ (b >= 0 => b * i >= 0) /\ (b > 0 => b * i > 0)
  BY <1>1, <1>3
<1>5. \A p \in Int, q \in Nat \ {0} : (p * q >= 0 => p >= 0) /\ (p * q > 0 => p > 0)
  OBVIOUS
<1>6. (c * j >= 0 => c >= 0) /\ (c * j > 0 => c > 0)
  BY <1>1, <1>5
<1>7. a * k \in Int /\ b * i \in Int
  BY <1>1
<1>8. /\ a >= 0 /\ b >= 0 => c >= 0
      /\ a > 0 /\ b >= 0 => c > 0
      /\ a >= 0 /\ b > 0 => c > 0
  BY <1>2, <1>4, <1>6, <1>7
<1> QED  BY <1>8 DEF a, b, c

\* The criteria of a node that are weighed against those of another.
Weighed(q) == IsFiniteSet(q) /\ q # {} /\ q \subseteq Nat

\* Their weights are numbers, and there is at least one of them.
LEMMA WeighedNumbers ==
  ASSUME NEW q, Weighed(q)
  PROVE  /\ Sum(Importance, q) \in Nat /\ Sum(Confidence, q) \in Nat
         /\ Cardinality(q) \in Nat \ {0}
<1>1. Cardinality(q) \in Nat /\ Cardinality(q) # 0
  BY FS_CardinalityType, FS_EmptySet DEF Weighed
<1> QED  BY <1>1, WeightIs, TotalIs DEF Weighed

\* Of two children one is the better.
LEMMA BetterIsTotal ==
  ASSUME NEW a \in Nat, NEW b \in Nat, a # b, NEW p, NEW q, Weighed(p), Weighed(q)
  PROVE  Better(a, p, b, q) \/ Better(b, q, a, p)
<1> DEFINE wp == Sum(Importance, p)
           wq == Sum(Importance, q)
           x == Sum(Confidence, p) * Cardinality(q)
           y == Sum(Confidence, q) * Cardinality(p)
<1>1. wp \in Nat /\ wq \in Nat /\ x \in Int /\ y \in Int
  BY WeighedNumbers
<1>2. /\ Better(a, p, b, q) <=> wp > wq \/ (wp = wq /\ (x - y > 0 \/ (x - y = 0 /\ a < b)))
      /\ Better(b, q, a, p) <=> wq > wp \/ (wq = wp /\ (y - x > 0 \/ (y - x = 0 /\ b < a)))
  BY Zenon DEF Better
<1> HIDE DEF wp, wq, x, y
<1> QED  BY <1>1, <1>2

\* What is better than the better of two is better than both.
LEMMA BetterIsTransitive ==
  ASSUME NEW a \in Nat, NEW b \in Nat, NEW c \in Nat,
         NEW p, NEW q, NEW r, Weighed(p), Weighed(q), Weighed(r),
         Better(a, p, b, q), Better(b, q, c, r)
  PROVE  Better(a, p, c, r)
<1> DEFINE wp == Sum(Importance, p)
           wq == Sum(Importance, q)
           wr == Sum(Importance, r)
           x == Sum(Confidence, p)
           y == Sum(Confidence, q)
           z == Sum(Confidence, r)
           i == Cardinality(p)
           j == Cardinality(q)
           k == Cardinality(r)
<1>1. /\ wp \in Nat /\ wq \in Nat /\ wr \in Nat
      /\ x \in Nat /\ y \in Nat /\ z \in Nat
      /\ i \in Nat \ {0} /\ j \in Nat \ {0} /\ k \in Nat \ {0}
  BY WeighedNumbers
<1>2. /\ Better(a, p, b, q) <=>
           wp > wq \/ (wp = wq /\ (x * j - y * i > 0 \/ (x * j - y * i = 0 /\ a < b)))
      /\ Better(b, q, c, r) <=>
           wq > wr \/ (wq = wr /\ (y * k - z * j > 0 \/ (y * k - z * j = 0 /\ b < c)))
      /\ Better(a, p, c, r) <=>
           wp > wr \/ (wp = wr /\ (x * k - z * i > 0 \/ (x * k - z * i = 0 /\ a < c)))
  BY Zenon DEF Better
<1> HIDE DEF wp, wq, wr, x, y, z, i, j, k
<1> DEFINE A == x * j - y * i
           B == y * k - z * j
           C == x * k - z * i
<1>3. /\ A >= 0 /\ B >= 0 => C >= 0
      /\ A > 0 /\ B >= 0 => C > 0
      /\ A >= 0 /\ B > 0 => C > 0
  BY <1>1, RatiosAreOrdered, Zenon
<1>4. A \in Int /\ B \in Int /\ C \in Int
  BY <1>1
<1>5. /\ wp > wq \/ (wp = wq /\ (A > 0 \/ (A = 0 /\ a < b)))
      /\ wq > wr \/ (wq = wr /\ (B > 0 \/ (B = 0 /\ b < c)))
      /\ Better(a, p, c, r) <=> wp > wr \/ (wp = wr /\ (C > 0 \/ (C = 0 /\ a < c)))
  BY <1>2, Zenon
<1> HIDE DEF A, B, C
<1> QED  BY <1>1, <1>3, <1>4, <1>5

\* Of any number of children one is better than all others.
LEMMA BestExists ==
  ASSUME NEW S, Weighed(S), NEW g, \A c \in S : Weighed(g[c].for)
  PROVE  \E c \in S : \A o \in S \ {c} : Better(c, g[c].for, o, g[o].for)
<1> DEFINE R == {p \in S \X S : Better(p[1], g[p[1]].for, p[2], g[p[2]].for)}
<1>1. \A x, y \in S : <<x, y>> \in R <=> Better(x, g[x].for, y, g[y].for)
  OBVIOUS
<1>2. IsFiniteSet(S) /\ S # {} /\ \A c \in S : c \in Nat
  BY DEF Weighed
<1> HIDE DEF R
<1>3. \A x, y \in S : x # y => <<x, y>> \in R \/ <<y, x>> \in R
  BY <1>1, <1>2, BetterIsTotal
<1>4. \A x, y, z \in S : <<x, y>> \in R /\ <<y, z>> \in R => <<x, z>> \in R
  BY <1>1, <1>2, BetterIsTransitive
<1>5. Orders(S, R)
  BY <1>3, <1>4 DEF Orders
<1>6. \E c \in S : \A o \in S \ {c} : <<c, o>> \in R
  <2>1. S \in SUBSET S
    OBVIOUS
  <2> QED  BY <1>2, <1>5, <2>1, FirstExists
<1> QED  BY <1>1, <1>6

\* The criteria of a node are those of its children.
LEMMA LeavesUnderAre ==
  ASSUME NumberedTree, NEW t \in Trees
  PROVE  /\ LeavesUnder(t) \in [Node -> SUBSET Leaf]
         /\ \A n \in Inner : LeavesUnder(t)[n] = UNION {LeavesUnder(t)[c] : c \in Children(t, n)}
         /\ \A l \in Leaf : LeavesUnder(t)[l] = {l}
<1> DEFINE V == SUBSET Leaf
           value(n, g) == IF n \in Inner THEN UNION {g[c] : c \in Children(t, n)} ELSE {n}
           step == [p \in Node \X [Node -> V] |-> value(p[1], p[2])]
<1>1. ASSUME NEW n \in Node PROVE Children(t, n) \subseteq Node
  BY TreeShape
<1>2. ASSUME NEW n \in Node, NEW g \in [Node -> V] PROVE value(n, g) \in V
  <2>1. CASE n \in Inner
    BY <1>1, <2>1
  <2>2. CASE n \notin Inner
    BY <2>2 DEF Node
  <2> QED  BY <2>1, <2>2
<1>3. LooksUp(Node, V, step)
  <2>1. step \in [Node \X [Node -> V] -> V]
    <3> HIDE DEF V, value
    <3> QED  BY <1>2
  <2>2. ASSUME NEW n \in Node, NEW g \in [Node -> V], NEW h \in [Node -> V],
               \A c \in Larger(Node, n) : g[c] = h[c]
        PROVE  step[<<n, g>>] = step[<<n, h>>]
    <3>1. \A c \in Children(t, n) : g[c] = h[c]
      BY <2>2, NodesBounded
    <3>2. {g[c] : c \in Children(t, n)} = {h[c] : c \in Children(t, n)}
      BY <3>1
    <3>3. value(n, g) = value(n, h)
      BY <3>2
    <3> HIDE DEF V, value
    <3> QED  BY <3>3
  <2> HIDE DEF V, step
  <2> QED  BY <2>1, <2>2 DEF LooksUp
<1>4. PICK g : Solves(Node, V, step, g)
  <2>1. V # {} /\ Bounded(Node)
    BY NodesBounded
  <2> HIDE DEF V, step
  <2> QED  BY <1>3, <2>1, RecursiveFunction
<1>5. g = [n \in Node |-> g[n]]
  <2> HIDE DEF V, step
  <2> QED  BY <1>4 DEF Solves
<1>6. \A n \in Node : g[n] = value(n, g)
  <2>1. \A n \in Node : <<n, g>> \in Node \X [Node -> V]
    BY <1>4 DEF Solves
  <2> HIDE DEF V, value
  <2> QED  BY <1>4, <2>1 DEF Solves
<1>7. g = [n \in Node |-> IF n \in Inner THEN UNION {g[c] : c \in Children(t, n)} ELSE {n}]
  BY <1>5, <1>6
<1> DEFINE under == CHOOSE under : under =
             [n \in Node |-> IF n \in Inner THEN UNION {under[c] : c \in Children(t, n)} ELSE {n}]
<1>8. under = [n \in Node |-> IF n \in Inner THEN UNION {under[c] : c \in Children(t, n)} ELSE {n}]
  BY <1>7, Zenon
<1>9. LeavesUnder(t) = under
  BY Zenon DEF LeavesUnder
<1> HIDE DEF under
<1>10. Inner \cap Leaf = {} /\ Node = Inner \cup Leaf
  BY DEF NumberedTree, Node
<1>11. \A n \in Inner : under[n] = UNION {under[c] : c \in Children(t, n)}
  BY <1>8, <1>10
<1>12. \A l \in Leaf : under[l] = {l}
  BY <1>8, <1>10
<1>13. DOMAIN under = Node /\ under = [n \in Node |-> under[n]]
  BY <1>8
<1>14. under \in [Node -> SUBSET Leaf]
  <2> DEFINE wrong == {n \in Node : ~(under[n] \subseteq Leaf)}
  <2> SUFFICES ASSUME wrong # {} PROVE FALSE
    BY <1>13
  <2>1. PICK n \in wrong : \A c \in Larger(Node, n) : c \notin wrong
    <3>1. wrong \in SUBSET Node /\ Bounded(Node)
      BY NodesBounded
    <3> HIDE DEF wrong
    <3> QED  BY <3>1, GreatestNumber
  <2>2. n \in Node /\ ~(under[n] \subseteq Leaf)
    BY <2>1
  <2>3. \A c \in Children(t, n) : under[c] \subseteq Leaf
    <3>1. \A c \in Children(t, n) : c \in Node /\ c \in Larger(Node, n)
      BY <1>1, <2>2, NodesBounded
    <3> QED  BY <2>1, <3>1
  <2> QED  BY <1>10, <1>11, <1>12, <2>2, <2>3
<1> QED  BY <1>9, <1>11, <1>12, <1>14

\* The children of an operator that pass and the best of them, when g says which
\* criteria speak for each node.
Passing(t, d, n)   == {c \in Children(t, n) : Results(t, d)[c] = "PASS"}
Chosen(t, d, n, g) == {c \in Passing(t, d, n) : \A o \in Passing(t, d, n) \ {c} :
                         Better(c, g[c].for, o, g[o].for)}
Satisfying(t, d, n, g) ==
  IF t.kind[n] = "ANY_OF" /\ Passing(t, d, n) # {} THEN Chosen(t, d, n, g) ELSE Children(t, n)

\* A node speaks with the criteria under the children that satisfy it.
LEMMA SelectionIs ==
  ASSUME NumberedTree, NEW t \in Trees, NEW d
  PROVE  /\ \A l \in Leaf : Selection(t, d)[l] = [for |-> {l}, via |-> {l}]
         /\ \A n \in Inner :
              /\ Selection(t, d)[n].via = Satisfying(t, d, n, Selection(t, d))
              /\ Selection(t, d)[n].for =
                   UNION {LeavesUnder(t)[c] : c \in Satisfying(t, d, n, Selection(t, d))}
<1> DEFINE V == [for : SUBSET Leaf, via : SUBSET Node]
           spoken(v) == [for |-> UNION {LeavesUnder(t)[c] : c \in v}, via |-> v]
           value(n, g) == IF n \in Leaf THEN [for |-> {n}, via |-> {n}]
                          ELSE spoken(Satisfying(t, d, n, g))
           step == [p \in Node \X [Node -> V] |-> value(p[1], p[2])]
<1>1. ASSUME NEW n \in Node, NEW g
      PROVE  /\ Chosen(t, d, n, g) \subseteq Passing(t, d, n)
             /\ Passing(t, d, n) \subseteq Children(t, n)
             /\ Children(t, n) \subseteq Node
             /\ Satisfying(t, d, n, g) \subseteq Children(t, n)
  BY TreeShape DEF Chosen, Passing, Satisfying
<1>2. ASSUME NEW n \in Node, NEW g PROVE value(n, g) \in V
  <2>1. CASE n \in Leaf
    BY <2>1 DEF Node
  <2>2. CASE n \notin Leaf
    <3>1. Satisfying(t, d, n, g) \in SUBSET Node
      BY <1>1
    <3>2. \A v \in SUBSET Node : spoken(v) \in V
      BY LeavesUnderAre
    <3> HIDE DEF V, spoken
    <3> QED  BY <2>2, <3>1, <3>2
  <2> QED  BY <2>1, <2>2
<1>3. LooksUp(Node, V, step)
  <2>1. step \in [Node \X [Node -> V] -> V]
    <3> HIDE DEF V, value
    <3> QED  BY <1>2
  <2>2. ASSUME NEW n \in Node, NEW g \in [Node -> V], NEW h \in [Node -> V],
               \A c \in Larger(Node, n) : g[c] = h[c]
        PROVE  step[<<n, g>>] = step[<<n, h>>]
    <3>1. \A c \in Passing(t, d, n) : g[c] = h[c]
      BY <2>2, NodesBounded, <1>1
    <3>2. Chosen(t, d, n, g) = Chosen(t, d, n, h)
      BY <3>1 DEF Chosen
    <3>3. Satisfying(t, d, n, g) = Satisfying(t, d, n, h)
      BY <3>2 DEF Satisfying
    <3>4. value(n, g) = value(n, h)
      <4> HIDE DEF spoken
      <4> QED  BY <3>3
    <3> HIDE DEF V, value
    <3> QED  BY <3>4
  <2> HIDE DEF V, step
  <2> QED  BY <2>1, <2>2 DEF LooksUp
<1>4. PICK g : Solves(Node, V, step, g)
  <2>1. V # {} /\ Bounded(Node)
    <3>1. [for |-> {}, via |-> {}] \in V
      OBVIOUS
    <3> QED  BY <3>1, NodesBounded
  <2> HIDE DEF V, step
  <2> QED  BY <1>3, <2>1, RecursiveFunction
<1>5. g = [n \in Node |-> g[n]]
  <2> HIDE DEF V, step
  <2> QED  BY <1>4 DEF Solves
<1>6. \A n \in Node : g[n] = value(n, g)
  <2>1. \A n \in Node : <<n, g>> \in Node \X [Node -> V]
    BY <1>4 DEF Solves
  <2> HIDE DEF V, value
  <2> QED  BY <1>4, <2>1 DEF Solves
<1>7. \A best : [n \in Node |-> value(n, best)] =
        [n \in Node |-> IF n \in Leaf THEN [for |-> {n}, via |-> {n}]
           ELSE LET passing == {c \in Children(t, n) : Results(t, d)[c] = "PASS"}
                    chosen  == {c \in passing : \A o \in passing \ {c} :
                                 Better(c, best[c].for, o, best[o].for)}
                    via == IF t.kind[n] = "ANY_OF" /\ passing # {} THEN chosen ELSE Children(t, n)
                IN [for |-> UNION {LeavesUnder(t)[c] : c \in via}, via |-> via]]
  BY Zenon DEF Satisfying, Chosen, Passing
<1> DEFINE best == CHOOSE best : best =
        [n \in Node |-> IF n \in Leaf THEN [for |-> {n}, via |-> {n}]
           ELSE LET passing == {c \in Children(t, n) : Results(t, d)[c] = "PASS"}
                    chosen  == {c \in passing : \A o \in passing \ {c} :
                                 Better(c, best[c].for, o, best[o].for)}
                    via == IF t.kind[n] = "ANY_OF" /\ passing # {} THEN chosen ELSE Children(t, n)
                IN [for |-> UNION {LeavesUnder(t)[c] : c \in via}, via |-> via]]
<1>8. Selection(t, d) = best
  BY Zenon DEF Selection
<1>9. best = [n \in Node |-> value(n, best)]
  <2>1. g = [n \in Node |-> value(n, g)]
    <3> HIDE DEF V, value
    <3> QED  BY <1>5, <1>6
  <2> HIDE DEF value
  <2>2. g = [n \in Node |-> IF n \in Leaf THEN [for |-> {n}, via |-> {n}]
           ELSE LET passing == {c \in Children(t, n) : Results(t, d)[c] = "PASS"}
                    chosen  == {c \in passing : \A o \in passing \ {c} :
                                 Better(c, g[c].for, o, g[o].for)}
                    via == IF t.kind[n] = "ANY_OF" /\ passing # {} THEN chosen ELSE Children(t, n)
                IN [for |-> UNION {LeavesUnder(t)[c] : c \in via}, via |-> via]]
    BY <1>7, <2>1, Zenon
  <2>3. best = [n \in Node |-> IF n \in Leaf THEN [for |-> {n}, via |-> {n}]
           ELSE LET passing == {c \in Children(t, n) : Results(t, d)[c] = "PASS"}
                    chosen  == {c \in passing : \A o \in passing \ {c} :
                                 Better(c, best[c].for, o, best[o].for)}
                    via == IF t.kind[n] = "ANY_OF" /\ passing # {} THEN chosen ELSE Children(t, n)
                IN [for |-> UNION {LeavesUnder(t)[c] : c \in via}, via |-> via]]
    BY <2>2, Zenon
  <2> HIDE DEF best
  <2> QED  BY <1>7, <2>3, Zenon
<1> HIDE DEF best
<1>10. \A n \in Node : best[n] = value(n, best)
  <2> HIDE DEF value
  <2> QED  BY <1>9
<1>11. Inner \cap Leaf = {} /\ Node = Inner \cup Leaf
  BY DEF NumberedTree, Node
<1>12. \A l \in Leaf : best[l] = [for |-> {l}, via |-> {l}]
  BY <1>10, <1>11
<1>13. \A n \in Inner : best[n] = spoken(Satisfying(t, d, n, best))
  BY <1>10, <1>11
<1>14. \A n \in Inner : /\ best[n].via = Satisfying(t, d, n, best)
                        /\ best[n].for = UNION {LeavesUnder(t)[c] : c \in Satisfying(t, d, n, best)}
  <2>1. ASSUME NEW n \in Inner
        PROVE  /\ best[n].via = Satisfying(t, d, n, best)
               /\ best[n].for = UNION {LeavesUnder(t)[c] : c \in Satisfying(t, d, n, best)}
    <3>1. best[n] = spoken(Satisfying(t, d, n, best))
      BY <1>13
    <3> DEFINE v == Satisfying(t, d, n, best)
               f == UNION {LeavesUnder(t)[c] : c \in v}
    <3>2. best[n] = [for |-> f, via |-> v]
      BY <3>1
    <3> HIDE DEF f, v
    <3>3. best[n].via = v /\ best[n].for = f
      BY <3>2
    <3> QED  BY <3>3 DEF f, v
  <2> QED  BY <2>1
<1> QED  BY <1>8, <1>12, <1>14, Zenon

\* There are criteria under every node in use.
LEMMA UnderIsWeighed ==
  ASSUME NumberedTree, NEW t \in Trees
  PROVE  \A n \in InTree(t) : Weighed(LeavesUnder(t)[n])
<1> DEFINE under == LeavesUnder(t)
           wrong == {n \in InTree(t) : under[n] = {}}
<1>1. ASSUME wrong # {} PROVE FALSE
  <2>1. PICK n \in wrong : \A c \in Children(t, n) : c \in InTree(t) /\ c \notin wrong
    <3>1. wrong \in SUBSET InTree(t)
      OBVIOUS
    <3> HIDE DEF wrong
    <3> QED  BY <1>1, <3>1, LastNode
  <2>2. n \in Node /\ n \in InTree(t) /\ under[n] = {} /\ \A c \in Children(t, n) : under[c] # {}
    BY <2>1, TreeShape
  <2>3. CASE n \in Leaf
    BY <2>2, <2>3, LeavesUnderAre
  <2>4. CASE n \in Inner
    <3>1. PICK c \in Children(t, n) : TRUE
      BY <2>2, <2>4, TreeShape
    <3>2. under[c] \subseteq under[n]
      BY <2>4, LeavesUnderAre
    <3> QED  BY <2>2, <3>1, <3>2
  <2> QED  BY <2>2, <2>3, <2>4 DEF Node
<1>2. IsFiniteSet(Leaf) /\ Leaf \subseteq Nat
  BY FS_Subset DEF NumberedTree, Node
<1>3. ASSUME NEW n \in InTree(t) PROVE Weighed(under[n])
  <2>1. under[n] \subseteq Leaf /\ under[n] # {}
    BY <1>1, TreeShape, LeavesUnderAre
  <2> QED  BY <1>2, <2>1, FS_Subset DEF Weighed
<1> QED  BY <1>3

\* Some children satisfy an operator in use: one that passes for an ANY_OF that
\* does, all of them otherwise.
LEMMA SomeSatisfy ==
  ASSUME NumberedTree, NEW t \in Trees, NEW d, NEW n \in InTree(t) \cap Inner, NEW g,
         \A c \in Children(t, n) : Weighed(g[c].for)
  PROVE  LET via == Satisfying(t, d, n, g) IN
         /\ via # {} /\ via \subseteq Children(t, n)
         /\ t.kind[n] = "ALL_OF" => via = Children(t, n)
         /\ Results(t, d)[n] = "PASS" => \A c \in via : Results(t, d)[c] = "PASS"
<1>1. n \in Node /\ Children(t, n) # {} /\ t.kind[n] \in {"ALL_OF", "ANY_OF"}
  BY TreeShape
<1>2. Chosen(t, d, n, g) \subseteq Passing(t, d, n) /\ Passing(t, d, n) \subseteq Children(t, n)
  BY DEF Chosen, Passing
<1>3. ASSUME Passing(t, d, n) # {} PROVE Chosen(t, d, n, g) # {}
  <2> DEFINE S == Passing(t, d, n)
  <2>1. S \subseteq Children(t, n) /\ S \subseteq Node /\ S \subseteq Nat /\ IsFiniteSet(S)
    <3>1. S \subseteq Node
      BY <1>1, <1>2, TreeShape
    <3> QED  BY <1>2, <3>1, FS_Subset DEF NumberedTree, Node
  <2>2. Weighed(S) /\ \A c \in S : Weighed(g[c].for)
    BY <1>3, <2>1 DEF Weighed
  <2> HIDE DEF S
  <2>3. \E c \in S : \A o \in S \ {c} : Better(c, g[c].for, o, g[o].for)
    BY <2>2, BestExists
  <2> QED  BY <2>3 DEF Chosen, S
<1>4. t.kind[n] # "ALL_OF" /\ Results(t, d)[n] = "PASS" => Passing(t, d, n) # {}
  BY ResultOf DEF Passing
<1>5. t.kind[n] = "ALL_OF" /\ Results(t, d)[n] = "PASS" =>
        \A c \in Children(t, n) : Results(t, d)[c] = "PASS"
  BY ResultOf
<1>6. \A c \in Passing(t, d, n) : Results(t, d)[c] = "PASS"
  BY DEF Passing
<1>7. CASE t.kind[n] = "ALL_OF"
  BY <1>1, <1>5, <1>7 DEF Satisfying
<1>8. CASE t.kind[n] = "ANY_OF" /\ Passing(t, d, n) # {}
  <2>1. Satisfying(t, d, n, g) = Chosen(t, d, n, g)
    BY <1>8 DEF Satisfying
  <2> QED  BY <1>2, <1>3, <1>6, <1>8, <2>1
<1>9. CASE t.kind[n] = "ANY_OF" /\ Passing(t, d, n) = {}
  <2>1. Satisfying(t, d, n, g) = Children(t, n)
    BY <1>9 DEF Satisfying
  <2> QED  BY <1>1, <1>4, <1>9, <2>1
<1> QED  BY <1>1, <1>7, <1>8, <1>9

\* So some criteria speak for every node in use,
LEMMA SomeSpeak ==
  ASSUME NumberedTree, NEW t \in Trees, NEW d
  PROVE  \A n \in InTree(t) : Weighed(Selection(t, d)[n].for)
<1> DEFINE best == Selection(t, d)
           wrong == {n \in InTree(t) : ~Weighed(best[n].for)}
<1> SUFFICES ASSUME wrong # {} PROVE FALSE
  OBVIOUS
<1>1. PICK n \in wrong : \A c \in Children(t, n) : c \in InTree(t) /\ c \notin wrong
  <2>1. wrong \in SUBSET InTree(t)
    OBVIOUS
  <2> HIDE DEF wrong
  <2> QED  BY <2>1, LastNode
<1>2. /\ n \in Node /\ n \in InTree(t) /\ ~Weighed(best[n].for)
      /\ \A c \in Children(t, n) : Weighed(best[c].for)
  BY <1>1, TreeShape
<1> HIDE DEF wrong
<1>3. CASE n \in Leaf
  <2>1. best[n] = [for |-> {n}, via |-> {n}]
    BY <1>3, SelectionIs
  <2>2. n \in Nat
    BY <1>3 DEF NumberedTree
  <2> HIDE DEF best
  <2>3. best[n].for = {n}
    BY <2>1
  <2>4. IsFiniteSet({n}) /\ {n} # {} /\ {n} \subseteq Nat
    BY <2>2, FS_Singleton
  <2> QED  BY <1>2, <2>3, <2>4 DEF Weighed
<1>4. CASE n \in Inner
  <2> DEFINE via == Satisfying(t, d, n, best)
  <2>1. best[n].for = UNION {LeavesUnder(t)[c] : c \in via}
    BY <1>4, SelectionIs
  <2>2. via # {} /\ via \subseteq Children(t, n)
    BY <1>2, <1>4, SomeSatisfy
  <2> HIDE DEF via, best
  <2>3. \A c \in via : Weighed(LeavesUnder(t)[c]) /\ LeavesUnder(t)[c] \in SUBSET Leaf
    BY <1>1, <2>2, TreeShape, UnderIsWeighed, LeavesUnderAre
  <2>4. best[n].for # {} /\ best[n].for \subseteq Leaf
    BY <2>1, <2>2, <2>3 DEF Weighed
  <2>5. IsFiniteSet(Leaf) /\ Leaf \subseteq Nat
    BY FS_Subset DEF NumberedTree, Node
  <2>6. IsFiniteSet(best[n].for)
    BY <2>4, <2>5, FS_Subset
  <2> QED  BY <1>2, <2>4, <2>5, <2>6 DEF Weighed
<1> QED  BY <1>2, <1>3, <1>4 DEF Node

\* and the children that satisfy an operator are those of SomeSatisfy.
LEMMA ViaIs ==
  ASSUME NumberedTree, NEW t \in Trees, NEW d, NEW n \in InTree(t) \cap Inner
  PROVE  LET via == Selection(t, d)[n].via IN
         /\ via # {} /\ via \subseteq Children(t, n)
         /\ t.kind[n] = "ALL_OF" => via = Children(t, n)
         /\ Results(t, d)[n] = "PASS" => \A c \in via : Results(t, d)[c] = "PASS"
<1> DEFINE best == Selection(t, d)
<1>1. best[n].via = Satisfying(t, d, n, best)
  BY SelectionIs
<1>2. \A c \in Children(t, n) : Weighed(best[c].for)
  BY TreeShape, SomeSpeak
<1> HIDE DEF best
<1>3. LET via == Satisfying(t, d, n, best) IN
      /\ via # {} /\ via \subseteq Children(t, n)
      /\ t.kind[n] = "ALL_OF" => via = Children(t, n)
      /\ Results(t, d)[n] = "PASS" => \A c \in via : Results(t, d)[c] = "PASS"
  BY <1>2, SomeSatisfy
<1> QED  BY <1>1, <1>3 DEF best

\* The path of a node that passes: through the children that satisfy it.
Follows(t, d, path) ==
  /\ \A l \in Leaf : path[l] = {l}
  /\ \A n \in Inner : path[n] = UNION {path[c] : c \in Selection(t, d)[n].via}

\* selectedSatisfactionPath follows the children that the selection names.
LEMMA PathIs ==
  ASSUME NumberedTree, NEW t \in Trees, NEW d
  PROVE  \E path : /\ Follows(t, d, path)
                   /\ Path(t, d) = IF Root(t, d) = "PASS" THEN path[0] ELSE {}
<1> DEFINE V == SUBSET Leaf
           best == Selection(t, d)
           value(n, g) == IF n \in Leaf THEN {n} ELSE UNION {g[c] : c \in best[n].via}
           step == [p \in Node \X [Node -> V] |-> value(p[1], p[2])]
<1>1. ASSUME NEW n \in Node \ Leaf PROVE best[n].via \subseteq Larger(Node,
             n) /\ best[n].via \subseteq Node
  <2>1. n \in Inner
    BY DEF Node
  <2>2. best[n].via = Satisfying(t, d, n, best)
    BY <2>1, SelectionIs
  <2>3. Satisfying(t, d, n, best) \subseteq Children(t, n)
    BY DEF Satisfying, Chosen, Passing
  <2> HIDE DEF best
  <2> QED  BY <2>2, <2>3, NodesBounded, TreeShape
<1>2. ASSUME NEW n \in Node, NEW g \in [Node -> V] PROVE value(n, g) \in V
  <2> HIDE DEF best
  <2> QED  BY <1>1
<1>3. LooksUp(Node, V, step)
  <2>1. step \in [Node \X [Node -> V] -> V]
    <3> HIDE DEF V, value
    <3> QED  BY <1>2
  <2>2. ASSUME NEW n \in Node, NEW g \in [Node -> V], NEW h \in [Node -> V],
               \A c \in Larger(Node, n) : g[c] = h[c]
        PROVE  step[<<n, g>>] = step[<<n, h>>]
    <3>1. n \notin Leaf => {g[c] : c \in best[n].via} = {h[c] : c \in best[n].via}
      <4> HIDE DEF best
      <4> QED  BY <2>2, <1>1
    <3>2. value(n, g) = value(n, h)
      <4> HIDE DEF best
      <4> QED  BY <3>1
    <3> HIDE DEF V, value
    <3> QED  BY <3>2
  <2> HIDE DEF V, step
  <2> QED  BY <2>1, <2>2 DEF LooksUp
<1>4. PICK g : Solves(Node, V, step, g)
  <2>1. V # {} /\ Bounded(Node)
    BY NodesBounded
  <2> HIDE DEF V, step
  <2> QED  BY <1>3, <2>1, RecursiveFunction
<1>5. g = [n \in Node |-> g[n]]
  <2> HIDE DEF V, step
  <2> QED  BY <1>4 DEF Solves
<1>6. \A n \in Node : g[n] = value(n, g)
  <2>1. \A n \in Node : <<n, g>> \in Node \X [Node -> V]
    BY <1>4 DEF Solves
  <2> HIDE DEF V, value
  <2> QED  BY <1>4, <2>1 DEF Solves
<1> DEFINE path == CHOOSE path : path =
             [n \in Node |-> IF n \in Leaf THEN {n} ELSE UNION {path[c] : c \in Selection(t, d)[n].via}]
<1>7. g = [n \in Node |-> IF n \in Leaf THEN {n} ELSE UNION {g[c] : c \in Selection(t, d)[n].via}]
  BY <1>5, <1>6, Zenon
<1>8. path = [n \in Node |-> IF n \in Leaf THEN {n} ELSE UNION {path[c] : c \in Selection(t, d)[n].via}]
  BY <1>7, Zenon
<1>9. Path(t, d) = IF Root(t, d) = "PASS" THEN path[0] ELSE {}
  BY Zenon DEF Path
<1>10. Inner \cap Leaf = {} /\ Node = Inner \cup Leaf
  BY DEF NumberedTree, Node
<1> HIDE DEF path
<1>11. Follows(t, d, path)
  BY <1>8, <1>10 DEF Follows
<1> QED  BY <1>9, <1>11

\* PathSound, for every tree.
LEMMA PathIsSound ==
  ASSUME NumberedTree, NEW t \in Trees, NEW d \in [Leaves(t) -> Three]
  PROVE  PathSound(t, d)
<1> DEFINE passes(n) == Results(t, d)[n] = "PASS"
<1>1. PICK path : Follows(t, d, path) /\ Path(t, d) = IF Root(t, d) = "PASS" THEN path[0] ELSE {}
  BY PathIs
<1>2. ASSUME NEW n \in InTree(t), passes(n)
      PROVE  path[n] # {} /\ \A l \in path[n] : l \in Leaves(t) /\ d[l] = "PASS"
  <2> DEFINE right(m) == passes(m) => path[m] # {} /\ \A l \in path[m] : l \in Leaves(t) /\ d[l] = "PASS"
             wrong == {m \in InTree(t) : ~right(m)}
  <2> SUFFICES ASSUME wrong # {} PROVE FALSE
    BY <1>2
  <2>1. PICK m \in wrong : \A c \in Children(t, m) : c \in InTree(t) /\ c \notin wrong
    <3>1. wrong \in SUBSET InTree(t)
      OBVIOUS
    <3> HIDE DEF wrong
    <3> QED  BY <3>1, LastNode
  <2>2. m \in Node /\ m \in InTree(t) /\ ~right(m) /\ \A c \in Children(t, m) : right(c)
    BY <2>1, TreeShape
  <2> HIDE DEF wrong
  <2>3. CASE m \in Leaf
    <3>1. path[m] = {m} /\ m \in Leaves(t) /\ Results(t, d)[m] = d[m]
      BY <1>1, <2>2, <2>3, TreeShape, ResultsAre DEF Follows
    <3> QED  BY <2>2, <3>1
  <2>4. CASE m \in Inner
    <3> DEFINE via == Selection(t, d)[m].via
    <3>1. path[m] = UNION {path[c] : c \in via}
      BY <1>1, <2>4 DEF Follows
    <3>2. via # {} /\ via \subseteq Children(t, m) /\ \A c \in via : passes(c)
      BY <2>2, <2>4, ViaIs
    <3> HIDE DEF via, passes
    <3>3. \A c \in via : path[c] # {} /\ \A l \in path[c] : l \in Leaves(t) /\ d[l] = "PASS"
      BY <2>2, <3>2
    <3>4. path[m] # {} /\ \A l \in path[m] : l \in Leaves(t) /\ d[l] = "PASS"
      BY <3>1, <3>2, <3>3
    <3> QED  BY <2>2, <3>4
  <2> QED  BY <2>2, <2>3, <2>4 DEF Node
<1>3. ASSUME NEW h, Truth(t, Path(t, d), h), Root(t, d) = "PASS" PROVE h[0]
  <2> DEFINE right(m) == passes(m) /\ path[m] \subseteq Path(t, d) => h[m]
             wrong == {m \in InTree(t) : ~right(m)}
  <2>1. ASSUME wrong # {} PROVE FALSE
    <3>1. PICK m \in wrong : \A c \in Children(t, m) : c \in InTree(t) /\ c \notin wrong
      <4>1. wrong \in SUBSET InTree(t)
        OBVIOUS
      <4> HIDE DEF wrong
      <4> QED  BY <2>1, <4>1, LastNode
    <3>2. m \in Node /\ m \in InTree(t) /\ ~right(m) /\ \A c \in Children(t, m) : right(c)
      BY <3>1, TreeShape
    <3> HIDE DEF wrong
    <3>3. CASE m \in Leaf
      BY <1>1, <1>3, <3>2, <3>3 DEF Follows, Truth
    <3>4. CASE m \in Inner
      <4> DEFINE via == Selection(t, d)[m].via
      <4>1. path[m] = UNION {path[c] : c \in via}
        BY <1>1, <3>4 DEF Follows
      <4>2. /\ via # {} /\ via \subseteq Children(t, m) /\ \A c \in via : passes(c)
            /\ t.kind[m] = "ALL_OF" => via = Children(t, m)
        BY <3>2, <3>4, ViaIs
      <4>3. h[m] <=> IF t.kind[m] = "ALL_OF" THEN \A c \in Children(t, m) : h[c]
                                             ELSE \E c \in Children(t, m) : h[c]
        BY <1>3, <3>4 DEF Truth
      <4> HIDE DEF via, passes
      <4>4. \A c \in via : h[c]
        BY <3>2, <4>1, <4>2
      <4> QED  BY <3>2, <4>2, <4>3, <4>4
    <3> QED  BY <3>2, <3>3, <3>4 DEF Node
  <2>2. 0 \in InTree(t) /\ passes(0) /\ path[0] = Path(t, d)
    BY <1>1, <1>3, TreeShape DEF Root
  <2> QED  BY <2>1, <2>2
<1>4. PICK h : Truth(t, Path(t, d), h) /\ Holds(t, Path(t, d)) = h[0]
  BY HoldsAre
<1>5. ASSUME Root(t, d) = "PASS"
      PROVE  Path(t, d) # {} /\ Holds(t, Path(t, d)) /\ \A l \in Path(t, d) : d[l] = "PASS"
  <2>1. 0 \in InTree(t) /\ passes(0) /\ path[0] = Path(t, d)
    BY <1>1, <1>5, TreeShape DEF Root
  <2> QED  BY <1>2, <1>3, <1>4, <1>5, <2>1
<1> QED  BY <1>5 DEF PathSound

\* TreeSound, for every finite tree of operators and criteria: requirements pass
\* exactly for the candidates of whom every completion satisfies them, and fail
\* exactly for those of whom none does; the path that the customer is shown
\* suffices; and who is asked is asked for what settles the tree.
THEOREM TreesAreSound == NumberedTree => TreeSound
<1> SUFFICES ASSUME NumberedTree, NEW t \in Trees, NEW d \in [Leaves(t) -> Three]
             PROVE  ResultSound(t, d) /\ PathSound(t, d) /\ DeterminativeSound(t, d)
  BY DEF TreeSound, TreeSoundFor
<1> QED  BY ResultIsSound, PathIsSound, DeterminativeIsSound

-------------------------------------------------------------------------------
(* Eligibility, for any tree, decisions and reasons why a fact is not known. *)

Issues  == {"NONE", "CANDIDATE_MISSING", "PARSER_UNCERTAIN", "EVIDENCE_CONFLICT",
            "EMPLOYER_OMITTED"}
Gates   == [result : Three, issue : Issues, consented : BOOLEAN]
Reasons == {"CANDIDATE_MISSING", "EVIDENCE_CONFLICT"}
Salaries == [status : {"PUBLISHED_MEETS_MINIMUM", "PUBLISHED_BELOW_MINIMUM",
                       "PUBLISHED_OVERLAPS_MINIMUM", "PUBLISHED_NONCOMPARABLE", "UNPUBLISHED"},
             disposition : {"PASS", "FAIL", "ALLOWED_WITH_WARNING", "NOT_APPLICABLE"}]

\* What the answer says of the gates it is derived from.
LEMMA AnswerIs ==
  ASSUME NEW gates \in SUBSET Gates,
         \A g \in gates : g.result = "UNKNOWN" <=> g.issue # "NONE"
  PROVE  LET answer == deriveEligibility(gates) IN
         /\ answer \in Eligible =>
              \A g \in gates : g.result = "PASS" \/
                               (g.result = "UNKNOWN" /\ g.issue = "EMPLOYER_OMITTED" /\ g.consented)
         /\ answer = "NEEDS_CANDIDATE_INPUT" =>
              \E g \in gates : g.result = "UNKNOWN" /\ g.issue = "CANDIDATE_MISSING"
         /\ answer = "INELIGIBLE" =>
              \E g \in gates : g.result = "FAIL" \/
                               (g.result = "UNKNOWN" /\ g.issue = "EMPLOYER_OMITTED" /\ ~g.consented)
<1> DEFINE unknown == {g \in gates : g.result = "UNKNOWN"}
           fails   == \E g \in gates : g.result = "FAIL"
           asks    == \E g \in unknown : g.issue = "CANDIDATE_MISSING"
           doubts  == \E g \in unknown : g.issue \in {"PARSER_UNCERTAIN", "EVIDENCE_CONFLICT"}
           refuses == \E g \in unknown : ~g.consented
           open    == \A g \in gates : g.result = "PASS" \/ (g \in unknown /\ g.issue = "EMPLOYER_OMITTED")
           nofail  == \A g \in gates : g.result # "FAIL"
           noask   == \A g \in gates : g.result # "FAIL" /\ g.issue # "CANDIDATE_MISSING"
           answer  == deriveEligibility(gates)
<1>1. answer = CASE fails -> "INELIGIBLE"
                 [] nofail /\ asks -> "NEEDS_CANDIDATE_INPUT"
                 [] noask /\ doubts -> "NEEDS_HUMAN_REVIEW"
                 [] open /\ refuses -> "INELIGIBLE"
                 [] OTHER -> IF unknown # {} THEN "ELIGIBLE_WITH_ALLOWED_UNKNOWNS" ELSE "ELIGIBLE"
  BY Zenon DEF deriveEligibility
<1>2. \A g \in gates : g.result \in Three /\ g.issue \in Issues /\ g.consented \in BOOLEAN
  BY DEF Gates
<1>3. /\ nofail <=> ~fails
      /\ noask <=> ~fails /\ ~asks
      /\ open => ~fails /\ ~asks /\ ~doubts
      /\ ~fails /\ ~asks /\ ~doubts => open
  <2>1. nofail <=> ~fails
    OBVIOUS
  <2>2. noask <=> ~fails /\ ~asks
    OBVIOUS
  <2>3. open => ~fails /\ ~asks /\ ~doubts
    OBVIOUS
  <2>4. ~fails /\ ~asks /\ ~doubts => open
    BY <1>2 DEF Three, Issues
  <2> QED  BY <2>1, <2>2, <2>3, <2>4
<1>4. /\ fails => answer = "INELIGIBLE"
      /\ ~fails /\ asks => answer = "NEEDS_CANDIDATE_INPUT"
      /\ ~fails /\ ~asks /\ doubts => answer = "NEEDS_HUMAN_REVIEW"
      /\ open /\ refuses => answer = "INELIGIBLE"
      /\ open /\ ~refuses => answer \in Eligible
  <2> HIDE DEF fails, asks, doubts, refuses, open, nofail, noask, unknown, answer
  <2> QED  BY <1>1, <1>3 DEF Eligible
<1>5. /\ fails => \E g \in gates : g.result = "FAIL"
      /\ asks => \E g \in gates : g.result = "UNKNOWN" /\ g.issue = "CANDIDATE_MISSING"
      /\ open /\ refuses =>
           \E g \in gates : g.result = "UNKNOWN" /\ g.issue = "EMPLOYER_OMITTED" /\ ~g.consented
      /\ open /\ ~refuses =>
           \A g \in gates : g.result = "PASS" \/
                            (g.result = "UNKNOWN" /\ g.issue = "EMPLOYER_OMITTED" /\ g.consented)
  OBVIOUS
<1> DEFINE sure   == \A g \in gates : g.result = "PASS" \/
                       (g.result = "UNKNOWN" /\ g.issue = "EMPLOYER_OMITTED" /\ g.consented)
           missed == \E g \in gates : g.result = "UNKNOWN" /\ g.issue = "CANDIDATE_MISSING"
           against == \E g \in gates : g.result = "FAIL" \/
                       (g.result = "UNKNOWN" /\ g.issue = "EMPLOYER_OMITTED" /\ ~g.consented)
<1>6. (fails => against) /\ (asks => missed) /\ (open /\ refuses => against) /\ (open /\ ~refuses => sure)
  BY <1>5
<1> HIDE DEF fails, asks, doubts, refuses, open, nofail, noask, unknown, answer, sure, missed, against
<1>7. /\ answer \in Eligible => sure
      /\ answer = "NEEDS_CANDIDATE_INPUT" => missed
      /\ answer = "INELIGIBLE" => against
  BY <1>3, <1>4, <1>6 DEF Eligible
<1> QED  BY <1>7 DEF sure, missed, against, answer

\* The issue of an undecided tree is that of a criterion that decides it alone.
LEMMA IssueIs ==
  ASSUME NumberedTree, NEW t \in Trees, NEW d, NEW issue \in [Leaf -> Reasons]
  PROVE  LET i == Issue(t, d, issue) IN
         /\ Root(t, d) # "UNKNOWN" => i = "NONE"
         /\ Root(t, d) = "UNKNOWN" => i \in Reasons \cup {"PARSER_UNCERTAIN"}
         /\ i = "CANDIDATE_MISSING" => \E l \in Determinative(t, d) : issue[l] = "CANDIDATE_MISSING"
<1> DEFINE alone == Determinative(t, d)
<1>1. CASE Root(t, d) # "UNKNOWN"
  BY <1>1 DEF Issue
<1>2. CASE Root(t, d) = "UNKNOWN" /\ alone = {}
  BY <1>2 DEF Issue
<1>3. CASE Root(t, d) = "UNKNOWN" /\ alone # {}
  <2>1. alone \in SUBSET Nat /\ alone \subseteq Leaf
    BY TreeShape DEF Determinative, NumberedTree
  <2> HIDE DEF alone
  <2>2. Min(alone) \in alone
    <3>1. \E x \in alone : \A y \in alone : x <= y
      BY <1>3, <2>1, LeastNumber
    <3> QED  BY <3>1 DEF Min
  <2>3. Issue(t, d, issue) = issue[Min(alone)]
    BY <1>3 DEF Issue, alone
  <2>4. Min(alone) \in Leaf
    BY <2>1, <2>2
  <2>5. issue[Min(alone)] \in Reasons
    BY <2>4
  <2> QED  BY <1>3, <2>2, <2>3, <2>5 DEF alone, Reasons
<1> QED  BY <1>1, <1>2, <1>3

\* What a customer's criterion comes to when it neither passes nor fails.
LEMMA CustomerGateIs ==
  ASSUME NEW c \in Criterion, NEW r \in Reviews
  PROVE  LET gate == CustomerGate(c, r) IN
         /\ gate \in Gates /\ (gate.result = "UNKNOWN" <=> gate.issue # "NONE")
         /\ gate.issue # "CANDIDATE_MISSING"
         /\ gate.result = "PASS" =>
              c.listing = c.wanted \/ (c.listing = "SILENT" /\ r = "SETTLED" /\ c.wanted = "PRESENT")
         /\ gate.result = "UNKNOWN" /\ gate.issue = "EMPLOYER_OMITTED" /\ gate.consented =>
              c.listing = "SILENT" /\ (r = "ALLOWED" \/ (r = "NONE" /\ c.waived))
<1>1. /\ c.wanted \in {"PRESENT", "ABSENT"} /\ c.listing \in {"PRESENT", "ABSENT", "SILENT"}
      /\ c.waived \in BOOLEAN
  BY DEF Criterion
<1>2. \A b \in BOOLEAN : Settled(b) = [result |-> IF b THEN "PASS" ELSE "FAIL", issue |-> "NONE", consented |-> FALSE]
  BY DEF Settled, Gate
<1>3. CASE c.listing # "SILENT"
  <2> DEFINE gate == CustomerGate(c, r)
  <2>1. gate = Settled(c.listing = c.wanted)
    BY <1>3 DEF CustomerGate
  <2>2. /\ gate.result = (IF c.listing = c.wanted THEN "PASS" ELSE "FAIL")
        /\ gate.issue = "NONE" /\ gate.consented = FALSE
        /\ gate = [result |-> gate.result, issue |-> gate.issue, consented |-> gate.consented]
    BY <2>1 DEF Settled, Gate
  <2> HIDE DEF gate
  <2>3. gate \in Gates
    BY <2>2 DEF Gates, Three, Issues
  <2> QED  BY <2>2, <2>3 DEF gate
<1>4. CASE c.listing = "SILENT"
  <2> DEFINE gate == CustomerGate(c, r)
             result == IF r = "SETTLED" THEN IF c.wanted = "PRESENT" THEN "PASS" ELSE "FAIL" ELSE "UNKNOWN"
             why == CASE r = "SETTLED" -> "NONE"
                      [] r \in {"NONE", "ALLOWED", "BLOCKED"} -> "EMPLOYER_OMITTED"
                      [] OTHER -> r
             agreed == r = "ALLOWED" \/ (r = "NONE" /\ c.waived)
  <2>1. gate.result = result /\ gate.issue = why /\ gate.consented = agreed
        /\ gate = [result |-> gate.result, issue |-> gate.issue, consented |-> gate.consented]
    BY <1>1, <1>4 DEF CustomerGate, Settled, Gate, Reviews
  <2>2. result \in Three /\ why \in Issues /\ agreed \in BOOLEAN /\ why # "CANDIDATE_MISSING"
        /\ (result = "UNKNOWN" <=> why # "NONE")
    BY <1>1 DEF Reviews, Three, Issues
  <2>3. /\ result = "PASS" => r = "SETTLED" /\ c.wanted = "PRESENT"
        /\ agreed => (r = "ALLOWED" \/ (r = "NONE" /\ c.waived))
    OBVIOUS
  <2> HIDE DEF gate, result, why, agreed
  <2>4. gate \in Gates
    BY <2>1, <2>2 DEF Gates
  <2> QED  BY <1>4, <2>1, <2>2, <2>3, <2>4 DEF gate
<1> QED  BY <1>3, <1>4

\* EligibleIsCertain for every tree, whatever the reason why a fact of it is not
\* known, and every salary.
LEMMA EligibilityIsCertain ==
  ASSUME NumberedTree, NEW t \in Trees, NEW d \in [Leaves(t) -> Three],
         NEW issue \in [Leaf -> Reasons]
  PROVE  EligibilityHolds(t, d, issue, Salaries)
<1> DEFINE required == RequirementGate(t, d, issue)
           certain  == \A facts \in Candidates(t, d) : Holds(t, facts)
           hopeless == \A facts \in Candidates(t, d) : ~Holds(t, facts)
           asked    == {l \in Determinative(t, d) : issue[l] = "CANDIDATE_MISSING"}
<1>1. Root(t, d) \in Three /\ (Root(t, d) = "PASS" <=> certain) /\ (Root(t, d) = "FAIL" <=> hopeless)
  BY RootType, ResultIsSound DEF ResultSound
<1>2. /\ required.result = Root(t, d) /\ required.issue = Issue(t, d, issue)
      /\ required.consented = FALSE
      /\ required = [result |-> required.result, issue |-> required.issue, consented |-> required.consented]
  BY DEF RequirementGate, Gate
<1>3. /\ required.result = "UNKNOWN" <=> required.issue # "NONE"
      /\ required.issue \in Issues \ {"EMPLOYER_OMITTED"}
      /\ required.issue = "CANDIDATE_MISSING" => asked # {}
  BY <1>1, <1>2, IssueIs DEF Reasons, Issues, Three
<1> HIDE DEF required, certain, hopeless, asked
<1>4. required \in Gates
  BY <1>1, <1>2, <1>3 DEF Gates
<1>5. ASSUME NEW c \in Criterion, NEW r \in Reviews, NEW s \in Salaries
      PROVE  AnswerHolds(required, certain, hopeless, asked, c, r, s)
  <2> DEFINE customer == CustomerGate(c, r)
             salary   == SalaryGate(s)
             gates    == {required, customer, salary}
             answer   == deriveEligibility(gates)
  <2>1. /\ salary \in Gates /\ (salary.result = "UNKNOWN" <=> salary.issue # "NONE")
        /\ salary.issue # "CANDIDATE_MISSING"
        /\ salary.result = "FAIL" <=> s.disposition = "FAIL"
        /\ salary.result = "UNKNOWN" => salary.consented
    <3>1. \A x \in BOOLEAN : Settled(x) \in Gates
      BY DEF Settled, Gate, Gates, Three, Issues
    <3>2. Gate("UNKNOWN", "EMPLOYER_OMITTED", TRUE) \in Gates
      BY DEF Gate, Gates, Three, Issues
    <3>3. salary \in Gates
      BY <3>1, <3>2 DEF SalaryGate
    <3> QED  BY <3>3 DEF SalaryGate, Settled, Gate
  <2>2. /\ customer \in Gates /\ (customer.result = "UNKNOWN" <=> customer.issue # "NONE")
        /\ customer.issue # "CANDIDATE_MISSING"
        /\ customer.result = "PASS" =>
              c.listing = c.wanted \/ (c.listing = "SILENT" /\ r = "SETTLED" /\ c.wanted = "PRESENT")
        /\ customer.result = "UNKNOWN" /\ customer.issue = "EMPLOYER_OMITTED" /\ customer.consented =>
              c.listing = "SILENT" /\ (r = "ALLOWED" \/ (r = "NONE" /\ c.waived))
    BY CustomerGateIs
  <2>3. AnswerHolds(required, certain, hopeless, asked, c, r, s) <=>
          /\ answer \in Eligible =>
               /\ certain /\ s.disposition # "FAIL"
               /\ c.listing = c.wanted \/ (c.listing = "SILENT" /\
                    (r = "ALLOWED" \/ (r = "NONE" /\ c.waived) \/ (r = "SETTLED" /\ c.wanted = "PRESENT")))
          /\ answer = "NEEDS_CANDIDATE_INPUT" => asked # {}
          /\ answer = "INELIGIBLE" =>
               \/ hopeless \/ customer.result = "FAIL" \/ s.disposition = "FAIL"
               \/ customer.issue = "EMPLOYER_OMITTED" /\ ~customer.consented
    BY Zenon DEF AnswerHolds
  <2> HIDE DEF customer, salary
  <2>4. gates \in SUBSET Gates /\ \A g \in gates : g.result = "UNKNOWN" <=> g.issue # "NONE"
    BY <1>3, <1>4, <2>1, <2>2
  <2>5. \A g : g \in gates <=> g = required \/ g = customer \/ g = salary
    OBVIOUS
  <2> HIDE DEF gates
  <2>6. /\ answer \in Eligible =>
             \A g \in gates : g.result = "PASS" \/
                              (g.result = "UNKNOWN" /\ g.issue = "EMPLOYER_OMITTED" /\ g.consented)
        /\ answer = "NEEDS_CANDIDATE_INPUT" =>
             \E g \in gates : g.result = "UNKNOWN" /\ g.issue = "CANDIDATE_MISSING"
        /\ answer = "INELIGIBLE" =>
             \E g \in gates : g.result = "FAIL" \/
                              (g.result = "UNKNOWN" /\ g.issue = "EMPLOYER_OMITTED" /\ ~g.consented)
    BY <2>4, AnswerIs
  <2> HIDE DEF answer
  <2>7. ASSUME answer \in Eligible
        PROVE  /\ certain /\ s.disposition # "FAIL"
               /\ c.listing = c.wanted \/ (c.listing = "SILENT" /\
                    (r = "ALLOWED" \/ (r = "NONE" /\ c.waived) \/ (r = "SETTLED" /\ c.wanted = "PRESENT")))
    BY <1>1, <1>2, <1>3, <2>1, <2>2, <2>5, <2>6, <2>7
  <2>8. answer = "NEEDS_CANDIDATE_INPUT" => asked # {}
    BY <1>3, <2>1, <2>2, <2>5, <2>6
  <2>9. answer = "INELIGIBLE" =>
               \/ hopeless \/ customer.result = "FAIL" \/ s.disposition = "FAIL"
               \/ customer.issue = "EMPLOYER_OMITTED" /\ ~customer.consented
    BY <1>1, <1>2, <1>3, <2>1, <2>2, <2>5, <2>6
  <2> QED  BY <2>3, <2>7, <2>8, <2>9
<1> QED  BY <1>5, Zenon DEF EligibilityHolds, required, certain, hopeless, asked

\* So the eligible are certain, for every tree: whatever the listing requires, the
\* candidate has confirmed, the customer or a review has settled and the listing
\* pays, and also for the trees of the run.
THEOREM EligibleAreCertain ==
  ASSUME NumberedTree
  PROVE  /\ EligibleIsCertain
         /\ \A t \in Trees : \A d \in [Leaves(t) -> Three], issue \in [Leaf -> Reasons] :
              EligibilityHolds(t, d, issue, Salaries)
<1>1. SomeSalary \subseteq Salaries
  BY DEF SomeSalary, Salaries, Salary
<1>2. ASSUME NEW t \in Trees, NEW d \in [Leaves(t) -> Three],
             NEW issue \in [Leaf -> Reasons]
      PROVE  EligibilityHolds(t, d, issue, SomeSalary)
  <2>1. EligibilityHolds(t, d, issue, Salaries)
    BY EligibilityIsCertain
  <2> QED  BY <1>1, <2>1, Zenon DEF EligibilityHolds
<1>3. ASSUME NEW conflicts
      PROVE  [l \in Leaf |-> IF l \in conflicts THEN "EVIDENCE_CONFLICT" ELSE "CANDIDATE_MISSING"]
               \in [Leaf -> Reasons]
  BY DEF Reasons
<1>4. EligibleIsCertain
  BY <1>2, <1>3 DEF EligibleIsCertain
<1> QED  BY <1>4, EligibilityIsCertain

\* CountedAsReleased: the worker and the count of an accepted request read an
\* evaluation alike.
THEOREM CountedIsReleased == CountedAsReleased
<1> SUFFICES ASSUME NEW e \in EvaluationRow, NEW authorized \in BOOLEAN, NEW active \in BOOLEAN,
                    NEW linked \in BOOLEAN
             PROVE  /\ Releasable(e, authorized, active, linked) => Classified(e, authorized) = "DELIVERABLE"
                    /\ Classified(e, authorized) = "DELIVERABLE" /\ active /\ linked
                         => Releasable(e, authorized, active, linked)
                    /\ Classified(e, FALSE) = "EXCLUDED" => ~Releasable(e, TRUE, active, linked)
  BY DEF CountedAsReleased
<1> DEFINE good == /\ e.eligibility \in Eligible /\ e.sufficient /\ e.usefulness = "PASS"
                   /\ e.salary # "FAIL" /\ e.readiness # "BLOCKED" /\ e.listing = "PASS"
           bad  == \/ e.eligibility \in {"INELIGIBLE", "INVALID"} \/ ~e.sufficient
                   \/ e.usefulness = "FAIL" \/ e.salary = "FAIL" \/ e.listing = "FAIL"
<1>1. good => ~bad
  BY DEF Eligible
<1>2. \A a \in BOOLEAN : Classified(e, a) = CASE a /\ good -> "DELIVERABLE"
                                           [] bad -> "EXCLUDED" [] OTHER -> "REVIEWABLE"
  BY DEF Classified
<1>3. \A a \in BOOLEAN : Releasable(e, a, active, linked) <=> good /\ a /\ active /\ linked
  BY DEF Releasable
<1> HIDE DEF good, bad
<1>4. \A a \in BOOLEAN : /\ Classified(e, a) = "DELIVERABLE" <=> a /\ good
                         /\ Classified(e, a) = "EXCLUDED" <=> bad
  BY <1>1, <1>2
<1> QED  BY <1>1, <1>3, <1>4

-------------------------------------------------------------------------------
(* Salaries, for any amounts, hours of a conversion and permissions.         *)

Money    == {Null} \cup Nat
Periods  == {"HOUR", "YEAR"}
AnyPay   ==
  {pay \in [published : BOOLEAN, estimate : BOOLEAN, currency : {"USD", "OTHER", "NONE"},
            variable : BOOLEAN, period : Periods \cup {"NONE"},
            basis : {"BASE", "GUARANTEED_TOTAL", "VARIABLE_OTE", "NONE"}, lower : Money, upper : Money,
            meaning : {"RANGE", "STARTING_AT", "UP_TO", "FIXED"}] :
     pay.upper = Null \/ pay.lower <= pay.upper}
AnyFloor  == [amount : Nat, firm : BOOLEAN, period : Periods, basis : {"BASE", "GUARANTEED_TOTAL"},
              variable : BOOLEAN]
AnyReview == [confirmed : BOOLEAN, hours : Nat]
Permits   == {"OVERLAP", "NONCOMPARABLE", "UNPUBLISHED"}

\* A year's pay rounded to hours reaches a floor exactly when it does up to half a
\* cent.
LEMMA Rounding ==
  ASSUME NEW x \in Nat, NEW h \in Nat \ {0}, NEW f \in Nat
  PROVE  LET q == (2 * x + h) \div (2 * h) IN
         q \in Nat /\ (q >= f <=> 2 * x >= (2 * f - 1) * h)
<1> DEFINE a == 2 * x + h
           b == 2 * h
           q == a \div b
<1>1. a \in Nat /\ b \in Nat \ {0}
  OBVIOUS
<1> HIDE DEF a, b
<1>2. q \in Int /\ b * q <= a /\ a < b * (q + 1)
  BY <1>1
<1> HIDE DEF q
<1>3. q \in Nat
  <2>1. q < 0 => b * (q + 1) <= 0
    BY <1>1, <1>2
  <2> QED  BY <1>1, <1>2, <2>1
<1>4. q >= f <=> a >= b * f
  <2>1. q >= f => b * q >= b * f
    BY <1>1, <1>3
  <2>2. q < f => b * (q + 1) <= b * f
    <3>1. q < f => q + 1 <= f
      BY <1>3
    <3>2. \A m, n \in Nat : m <= n => b * m <= b * n
      BY <1>1
    <3> QED  BY <1>3, <3>1, <3>2
  <2>3. b * q \in Int /\ b * f \in Int /\ b * (q + 1) \in Int
    BY <1>1, <1>3
  <2> QED  BY <1>1, <1>2, <1>3, <2>1, <2>2, <2>3
<1>5. a >= b * f <=> 2 * x >= (2 * f - 1) * h
  BY DEF a, b
<1> QED  BY <1>3, <1>4, <1>5 DEF a, b, q

\* Pay and a floor that can be compared: hours are known where periods differ.
Alike(pay, floor, hours) ==
  /\ pay.period \in Periods /\ floor.period \in Periods /\ floor.amount \in Nat /\ hours \in Nat
  /\ pay.period # floor.period => hours > 0

\* What is compared with the floor reaches it exactly when the pay does.
LEMMA ConvertedReaches ==
  ASSUME NEW pay, NEW floor, NEW hours, Alike(pay, floor, hours), NEW x \in Nat
  PROVE  /\ Convert(x, pay, floor, hours) \in Nat
         /\ Convert(x, pay, floor, hours) >= floor.amount <=> Reaches(x, pay, floor, hours)
<1>1. x # Null
  BY DEF Null
<1>2. CASE pay.period = floor.period
  BY <1>2 DEF Convert, Reaches, Alike
<1>3. CASE pay.period = "HOUR" /\ floor.period = "YEAR"
  <2>1. Convert(x, pay, floor, hours) = x * hours
    BY <1>1, <1>3 DEF Convert
  <2>2. Reaches(x, pay, floor, hours) <=> x * hours >= floor.amount
    BY <1>3 DEF Reaches
  <2> QED  BY <2>1, <2>2 DEF Alike
<1>4. CASE pay.period = "YEAR" /\ floor.period = "HOUR"
  <2>1. Convert(x, pay, floor, hours) = (2 * x + hours) \div (2 * hours)
    BY <1>1, <1>4 DEF Convert
  <2>2. Reaches(x, pay, floor, hours) <=> 2 * x >= (2 * floor.amount - 1) * hours
    BY <1>4 DEF Reaches
  <2>3. hours \in Nat \ {0} /\ floor.amount \in Nat
    BY <1>4 DEF Alike
  <2> QED  BY <2>1, <2>2, <2>3, Rounding
<1> QED  BY <1>2, <1>3, <1>4 DEF Alike, Periods

\* What pays more than what reaches the floor does too, and nothing reaches a floor
\* above nothing with no pay.
LEMMA MoreReaches ==
  ASSUME NEW pay, NEW floor, NEW hours, Alike(pay, floor, hours), NEW x \in Nat,
         NEW y \in Nat,
         x <= y
  PROVE  /\ Reaches(x, pay, floor, hours) => Reaches(y, pay, floor, hours)
         /\ floor.amount > 0 => ~Reaches(0, pay, floor, hours)
<1>1. hours \in Nat /\ floor.amount \in Nat
  BY DEF Alike
<1>2. CASE pay.period = floor.period
  BY <1>1, <1>2 DEF Reaches
<1>3. CASE pay.period = "HOUR" /\ floor.period = "YEAR"
  <2>1. \A z \in Nat : Reaches(z, pay, floor, hours) <=> z * hours >= floor.amount
    BY <1>3 DEF Reaches
  <2>2. x * hours <= y * hours /\ x * hours \in Nat /\ y * hours \in Nat /\ 0 * hours = 0
    BY <1>1
  <2> QED  BY <1>1, <2>1, <2>2
<1>4. CASE pay.period = "YEAR" /\ floor.period = "HOUR"
  <2> DEFINE least == (2 * floor.amount - 1) * hours
  <2>1. \A z \in Nat : Reaches(z, pay, floor, hours) <=> 2 * z >= least
    BY <1>4 DEF Reaches
  <2>2. least \in Int /\ (floor.amount > 0 => least > 0)
    <3>1. hours > 0
      BY <1>4 DEF Alike
    <3>2. \A m \in Nat : m > 0 => m * hours > 0
      BY <1>1, <3>1
    <3>3. floor.amount > 0 => 2 * floor.amount - 1 \in Nat /\ 2 * floor.amount - 1 > 0
      BY <1>1
    <3> QED  BY <1>1, <3>2, <3>3
  <2> HIDE DEF least
  <2> QED  BY <2>1, <2>2
<1> QED  BY <1>2, <1>3, <1>4 DEF Alike, Periods

\* The ends that are compared with the floor say what every pay on offer does.
SaysOf(ends, pay, floor, hours, most) ==
  LET reach == {x \in Offers(pay, most) : Reaches(x, pay, floor, hours)}
      above == ends[1] # Null /\ ends[1] >= floor.amount
      below == ends[2] # Null /\ ends[2] < floor.amount
  IN /\ ends[1] \in Money /\ ends[2] \in Money /\ ~(above /\ below)
     /\ above => reach = Offers(pay, most)
     /\ below => reach = {}
     /\ ends[2] # Null /\ ~above /\ ~below /\ pay.meaning # "UP_TO" /\ floor.amount > 0 =>
          reach # {} /\ reach # Offers(pay, most)

\* The converted ends of a published pay say of its offers what they are compared for.
LEMMA EndsSay ==
  ASSUME NEW pay \in AnyPay, Published(pay), NEW floor, NEW hours, Alike(pay, floor,
         hours),
         NEW most \in Nat
  PROVE  SaysOf(Ends(pay, Convert(pay.lower, pay, floor, hours),
                          Convert(pay.upper, pay, floor, hours)), pay, floor, hours, most)
<1> DEFINE L == pay.lower
           U == pay.upper
           CL == Convert(L, pay, floor, hours)
           CU == Convert(U, pay, floor, hours)
           R(x) == Reaches(x, pay, floor, hours)
           F == floor.amount
<1>1. /\ L \in Money /\ U \in Money /\ (L # Null \/ U # Null) /\ (U = Null \/ L <= U) /\ F \in Nat
      /\ pay.meaning \in {"RANGE", "STARTING_AT", "UP_TO", "FIXED"}
  BY DEF AnyPay, Published, Alike
<1>2. /\ L = Null => CL = Null
      /\ U = Null => CU = Null
  BY DEF Convert
<1>3. /\ L # Null => L \in Nat /\ CL \in Nat /\ (CL >= F <=> R(L))
      /\ U # Null => U \in Nat /\ CU \in Nat /\ (CU >= F <=> R(U))
  BY <1>1, ConvertedReaches DEF Money
<1>4. \A x, y \in Nat : x <= y /\ R(x) => R(y)
  BY MoreReaches
<1>5. F > 0 => ~R(0)
  BY MoreReaches
<1>6. Null \notin Nat /\ Null \in Money /\ Nat \subseteq Money
  BY DEF Null, Money
<1> DEFINE offers == Offers(pay, most)
           low  == IF L = Null THEN 0 ELSE L
           high == IF U = Null THEN most ELSE U
<1>7. offers = CASE pay.meaning = "STARTING_AT" /\ L # Null -> L .. most
                 [] pay.meaning = "FIXED" -> IF L # Null THEN {L} ELSE {U}
                 [] pay.meaning = "UP_TO" -> 0 .. (IF U # Null THEN U ELSE L)
                 [] OTHER -> low .. high
  BY Zenon DEF Offers
<1> DEFINE ends == Ends(pay, CL, CU)
<1>8. ends = CASE pay.meaning = "STARTING_AT" -> <<CL, Null>>
               [] pay.meaning = "FIXED" -> IF CL = Null THEN <<CU, CU>> ELSE <<CL, CL>>
               [] pay.meaning = "UP_TO" -> <<Null, IF CU = Null THEN CL ELSE CU>>
               [] OTHER -> <<CL, CU>>
  BY Zenon DEF Ends
<1> DEFINE reach == {x \in offers : R(x)}
           above == ends[1] # Null /\ ends[1] >= F
           below == ends[2] # Null /\ ends[2] < F
           says  == /\ ends[1] \in Money /\ ends[2] \in Money /\ ~(above /\ below)
                    /\ above => reach = offers
                    /\ below => reach = {}
                    /\ ends[2] # Null /\ ~above /\ ~below /\ pay.meaning # "UP_TO" /\ F > 0 =>
                         reach # {} /\ reach # offers
<1>9. SaysOf(ends, pay, floor, hours, most) <=> says
  BY Zenon DEF SaysOf
<1>10. ASSUME pay.meaning = "STARTING_AT" /\ L # Null PROVE says
  <2>1. ends[1] = CL /\ ends[2] = Null /\ offers = L .. most
    BY <1>7, <1>8, <1>10
  <2> HIDE DEF ends, offers, CL, R
  <2>2. L \in Nat /\ CL \in Nat /\ (CL >= F <=> R(L))
    BY <1>3, <1>10
  <2>3. ASSUME NEW x \in offers, R(L) PROVE R(x)
    <3>1. x \in Nat /\ L <= x
      BY <2>1, <2>2
    <3> QED  BY <1>4, <2>2, <2>3, <3>1
  <2> QED  BY <1>1, <1>6, <2>1, <2>2, <2>3
<1>11. ASSUME pay.meaning = "STARTING_AT" /\ L = Null PROVE says
  <2>1. ends[1] = Null /\ ends[2] = Null
    BY <1>2, <1>8, <1>11
  <2> HIDE DEF ends, offers, CL, R
  <2> QED  BY <1>6, <2>1
<1>12. ASSUME pay.meaning = "FIXED" PROVE says
  <2> DEFINE P == IF L # Null THEN L ELSE U
             C == IF L # Null THEN CL ELSE CU
  <2>1. /\ P \in Nat /\ C \in Nat /\ (C >= F <=> R(P))
        /\ CL = Null <=> L = Null
    <3> HIDE DEF CL, CU, R
    <3> QED  BY <1>1, <1>2, <1>3, <1>6
  <2>2. ends[1] = C /\ ends[2] = C /\ offers = {P}
    <3> HIDE DEF CL, CU
    <3> QED  BY <1>7, <1>8, <1>12, <2>1
  <2> HIDE DEF ends, offers, CL, CU, R, P, C
  <2> QED  BY <1>1, <1>6, <2>1, <2>2
<1>13. ASSUME pay.meaning = "UP_TO" PROVE says
  <2> DEFINE P == IF U # Null THEN U ELSE L
             C == IF U # Null THEN CU ELSE CL
  <2>1. /\ P \in Nat /\ C \in Nat /\ (C >= F <=> R(P))
        /\ CU = Null <=> U = Null
    <3> HIDE DEF CL, CU, R
    <3> QED  BY <1>1, <1>2, <1>3, <1>6
  <2>2. ends[1] = Null /\ ends[2] = C /\ offers = 0 .. P
    <3> HIDE DEF CL, CU
    <3> QED  BY <1>7, <1>8, <1>13, <2>1
  <2> HIDE DEF ends, offers, CL, CU, R, P, C
  <2>3. ASSUME NEW x \in offers, ~R(P) PROVE ~R(x)
    <3>1. x \in Nat /\ x <= P
      BY <2>1, <2>2
    <3> QED  BY <1>4, <2>1, <2>3, <3>1
  <2> QED  BY <1>1, <1>6, <1>13, <2>1, <2>2, <2>3
<1>14. ASSUME pay.meaning = "RANGE" PROVE says
  <2>1. ends[1] = CL /\ ends[2] = CU /\ offers = low .. high
    BY <1>7, <1>8, <1>14
  <2>2. low \in Nat /\ high \in Nat /\ (U # Null => low <= high)
    BY <1>1, <1>3, <1>6
  <2> HIDE DEF ends, offers, CL, CU, R
  <2>3. CL \in Money /\ CU \in Money /\ (CL = Null <=> L = Null) /\ (CU = Null <=> U = Null)
    BY <1>2, <1>3, <1>6
  <2>4. L # Null /\ R(L) => \A x \in offers : R(x)
    BY <1>3, <1>4, <2>1, <2>2
  <2>5. U # Null /\ ~R(U) => \A x \in offers : ~R(x)
    BY <1>3, <1>4, <2>1, <2>2
  <2>6. U # Null => low \in offers /\ U \in offers
    BY <1>3, <2>1, <2>2
  <2>7. F > 0 /\ (L = Null \/ ~R(L)) => ~R(low)
    BY <1>5
  <2>8. above => L # Null /\ R(L)
    BY <1>3, <2>1, <2>3
  <2>9. below => U # Null /\ ~R(U)
    BY <1>1, <1>3, <2>1, <2>3
  <2>10. ~above /\ ~below /\ ends[2] # Null => U # Null /\ R(U) /\ (L = Null \/ ~R(L))
    BY <1>1, <1>3, <2>1, <2>3
  <2>11. ~(above /\ below)
    BY <2>4, <2>6, <2>8, <2>9
  <2>12. ends[1] \in Money /\ ends[2] \in Money
    BY <2>1, <2>3
  <2> HIDE DEF above, below, low, high, F
  <2> QED  BY <2>4, <2>5, <2>6, <2>7, <2>8, <2>9, <2>10, <2>11, <2>12
<1>15. says
  <2> HIDE DEF says
  <2> QED  BY <1>1, <1>10, <1>11, <1>12, <1>13, <1>14
<1> QED  BY <1>9, <1>15, Zenon

\* What is compared, by where the floor lies.
LEMMA ComparedIs ==
  ASSUME NEW ends, NEW meaning, NEW floor, NEW permitted,
         floor.amount \in Nat, ends[1] \in Money, ends[2] \in Money,
         ~(ends[1] # Null /\ ends[1] >= floor.amount /\ ends[2] # Null /\ ends[2] < floor.amount)
  PROVE  LET above == ends[1] # Null /\ ends[1] >= floor.amount
             below == ends[2] # Null /\ ends[2] < floor.amount
             over  == ends[2] # Null /\ meaning # "UP_TO"
         IN Compared(ends, meaning, floor, permitted) =
              IF above THEN Salary("PUBLISHED_MEETS_MINIMUM", "PASS")
              ELSE IF below THEN Salary("PUBLISHED_BELOW_MINIMUM", "FAIL")
              ELSE IF over THEN Permitted("PUBLISHED_OVERLAPS_MINIMUM", "OVERLAP", permitted)
              ELSE Permitted("PUBLISHED_NONCOMPARABLE", "NONCOMPARABLE", permitted)
<1> DEFINE above == ends[1] # Null /\ ends[1] >= floor.amount
           below == ends[2] # Null /\ ends[2] < floor.amount
           over  == ends[2] # Null /\ meaning # "UP_TO"
           between == /\ ends[2] # Null /\ ends[2] >= floor.amount /\ meaning # "UP_TO"
                      /\ (ends[1] = Null \/ ends[1] < floor.amount)
<1>1. Compared(ends, meaning, floor, permitted) =
        CASE above -> Salary("PUBLISHED_MEETS_MINIMUM", "PASS")
          [] below -> Salary("PUBLISHED_BELOW_MINIMUM", "FAIL")
          [] between -> Permitted("PUBLISHED_OVERLAPS_MINIMUM", "OVERLAP", permitted)
          [] OTHER -> Permitted("PUBLISHED_NONCOMPARABLE", "NONCOMPARABLE", permitted)
  BY Zenon DEF Compared
<1>2. /\ ~(above /\ below)
      /\ between <=> over /\ ~above /\ ~below
  BY DEF Money
<1> HIDE DEF above, below, over, between
<1>3. Compared(ends, meaning, floor, permitted) =
        IF above THEN Salary("PUBLISHED_MEETS_MINIMUM", "PASS")
        ELSE IF below THEN Salary("PUBLISHED_BELOW_MINIMUM", "FAIL")
        ELSE IF over THEN Permitted("PUBLISHED_OVERLAPS_MINIMUM", "OVERLAP", permitted)
        ELSE Permitted("PUBLISHED_NONCOMPARABLE", "NONCOMPARABLE", permitted)
  BY <1>1, <1>2
<1> QED  BY <1>3 DEF above, below, over

\* A salary's rank, and that of one that needs a permission.
LEMMA Ranks ==
  ASSUME NEW status, NEW permission, NEW permitted
  PROVE  /\ Permitted(status, permission, permitted).status = status
         /\ Rank(Permitted(status, permission, permitted)) =
              (IF permission \in permitted THEN 1 ELSE 0)
         /\ Rank(Salary(status, "PASS")) = 2 /\ Rank(Salary(status, "FAIL")) = 0
         /\ Rank(Salary(status, "NOT_APPLICABLE")) = 2
         /\ Salary(status, "PASS").status = status /\ Salary(status, "FAIL").status = status
         /\ Salary(status, "NOT_APPLICABLE").status = status
  BY DEF Permitted, Rank, Salary

\* What is evaluated: without a comparison, or with one.
Evaluated(pay, floor, review, permitted) ==
  Compared(Ends(pay, Convert(pay.lower, pay, floor, review.hours),
                     Convert(pay.upper, pay, floor, review.hours)), pay.meaning, floor, permitted)

\* evaluateSalary, with that comparison as one term.
LEMMA EvaluationIs ==
  ASSUME NEW pay, NEW floor, NEW review, NEW permitted
  PROVE  LET refused  == Salary("PUBLISHED_NONCOMPARABLE", "FAIL")
             unlike   == Permitted("PUBLISHED_NONCOMPARABLE", "NONCOMPARABLE", permitted)
             untested == IF pay.estimate THEN "ESTIMATE_ONLY"
                         ELSE IF Published(pay) THEN "PUBLISHED_NONCOMPARABLE" ELSE "UNPUBLISHED"
         IN evaluateSalary(pay, floor, review, permitted) =
              IF (Published(pay) \/ pay.estimate) /\ pay.currency = "OTHER" THEN refused
              ELSE IF ~floor.firm THEN Salary(untested, "NOT_APPLICABLE")
              ELSE IF pay.estimate \/ ~Published(pay) THEN Permitted(untested, "UNPUBLISHED", permitted)
              ELSE IF pay.currency # "USD" THEN refused
              ELSE IF ~Comparable(pay, floor, review) THEN unlike
              ELSE IF pay.variable /\ ~floor.variable THEN refused
              ELSE IF Unconverted(pay, floor, review) THEN unlike
              ELSE Evaluated(pay, floor, review, permitted)
  BY Zenon DEF evaluateSalary, Evaluated

\* The salary gate is sound for all amounts, hours and permissions.
LEMMA SalaryIsSound ==
  ASSUME NEW pay \in AnyPay, NEW floor \in AnyFloor, NEW review \in AnyReview,
         NEW permitted \in SUBSET Permits, NEW most \in Nat
  PROVE  SalaryHolds(pay, floor, review, permitted, most)
<1> DEFINE higher == [floor EXCEPT !.amount = @ + 1]
           offers == Offers(pay, most)
           reach  == {x \in offers : Reaches(x, pay, floor, review.hours)}
           salary == evaluateSalary(pay, floor, review, permitted)
           raised == evaluateSalary(pay, higher, review, permitted)
           fewer(p) == evaluateSalary(pay, floor, review, permitted \ {p})
           shown == Published(pay) \/ pay.estimate
           kind  == IF pay.estimate THEN "ESTIMATE_ONLY"
                    ELSE IF Published(pay) THEN "PUBLISHED_NONCOMPARABLE" ELSE "UNPUBLISHED"
           compared == /\ ~pay.estimate /\ Published(pay) /\ pay.currency = "USD" /\ floor.firm
                       /\ Comparable(pay, floor, review) /\ ~(pay.variable /\ ~floor.variable)
                       /\ ~Unconverted(pay, floor, review)
<1>1. /\ higher.amount = floor.amount + 1 /\ higher.firm = floor.firm
      /\ higher.period = floor.period /\ higher.basis = floor.basis
      /\ higher.variable = floor.variable
      /\ floor.amount \in Nat /\ higher.amount \in Nat /\ review.hours \in Nat
  BY DEF AnyFloor, AnyReview
<1> HIDE DEF higher
<1>2. SalaryHolds(pay, floor, review, permitted, most) <=>
        /\ salary.status = "PUBLISHED_MEETS_MINIMUM" => reach = offers
        /\ salary.status = "PUBLISHED_BELOW_MINIMUM" => reach = {}
        /\ salary.status = "PUBLISHED_OVERLAPS_MINIMUM" /\ floor.amount > 0 =>
             reach # {} /\ reach # offers
        /\ Rank(salary) >= Rank(raised)
        /\ \A p \in permitted : Rank(salary) >= Rank(fewer(p))
  BY Zenon DEF SalaryHolds, higher
<1>3. /\ Comparable(pay, higher, review) <=> Comparable(pay, floor, review)
      /\ Unconverted(pay, higher, review) <=> Unconverted(pay, floor, review)
  BY <1>1 DEF Comparable, Unconverted
<1>4. CASE ~compared
  <2> DEFINE status ==
               IF shown /\ pay.currency = "OTHER" THEN "PUBLISHED_NONCOMPARABLE"
               ELSE IF ~floor.firm \/ pay.estimate \/ ~Published(pay) THEN kind
               ELSE "PUBLISHED_NONCOMPARABLE"
             disposition ==
               IF shown /\ pay.currency = "OTHER" THEN "FAIL"
               ELSE IF ~floor.firm THEN "NOT_APPLICABLE"
               ELSE IF pay.estimate \/ ~Published(pay) THEN "BY PERMISSION"
               ELSE IF pay.currency # "USD" THEN "FAIL"
               ELSE IF ~Comparable(pay, floor, review) THEN "BY PERMISSION"
               ELSE IF pay.variable /\ ~floor.variable THEN "FAIL" ELSE "BY PERMISSION"
             permission ==
               IF pay.estimate \/ ~Published(pay) THEN "UNPUBLISHED" ELSE "NONCOMPARABLE"
             result(ps) == IF disposition = "BY PERMISSION" THEN Permitted(status, permission, ps)
                           ELSE Salary(status, disposition)
  <2>1. ASSUME NEW ps
        PROVE  evaluateSalary(pay, floor, review, ps) = result(ps)
    <3> DEFINE refused == Salary("PUBLISHED_NONCOMPARABLE", "FAIL")
               unlike  == Permitted("PUBLISHED_NONCOMPARABLE", "NONCOMPARABLE", ps)
    <3>1. evaluateSalary(pay, floor, review, ps) =
            IF shown /\ pay.currency = "OTHER" THEN refused
            ELSE IF ~floor.firm THEN Salary(kind, "NOT_APPLICABLE")
            ELSE IF pay.estimate \/ ~Published(pay) THEN Permitted(kind, "UNPUBLISHED", ps)
            ELSE IF pay.currency # "USD" THEN refused
            ELSE IF ~Comparable(pay, floor, review) THEN unlike
            ELSE IF pay.variable /\ ~floor.variable THEN refused
            ELSE IF Unconverted(pay, floor, review) THEN unlike
            ELSE Evaluated(pay, floor, review, ps)
      BY EvaluationIs
    <3> QED  BY <1>4, <3>1
  <2>2. raised = result(permitted)
    <3> DEFINE refused == Salary("PUBLISHED_NONCOMPARABLE", "FAIL")
               unlike  == Permitted("PUBLISHED_NONCOMPARABLE", "NONCOMPARABLE", permitted)
    <3>1. evaluateSalary(pay, higher, review, permitted) =
            IF shown /\ pay.currency = "OTHER" THEN refused
            ELSE IF ~higher.firm THEN Salary(kind, "NOT_APPLICABLE")
            ELSE IF pay.estimate \/ ~Published(pay) THEN Permitted(kind, "UNPUBLISHED", permitted)
            ELSE IF pay.currency # "USD" THEN refused
            ELSE IF ~Comparable(pay, higher, review) THEN unlike
            ELSE IF pay.variable /\ ~higher.variable THEN refused
            ELSE IF Unconverted(pay, higher, review) THEN unlike
            ELSE Evaluated(pay, higher, review, permitted)
      BY EvaluationIs
    <3> QED  BY <1>1, <1>3, <1>4, <3>1
  <2>3. /\ status # "PUBLISHED_MEETS_MINIMUM" /\ status # "PUBLISHED_BELOW_MINIMUM"
        /\ status # "PUBLISHED_OVERLAPS_MINIMUM"
        /\ disposition \in {"FAIL", "NOT_APPLICABLE", "BY PERMISSION"}
    OBVIOUS
  <2>4. salary = result(permitted) /\ \A p : fewer(p) = result(permitted \ {p})
    BY <2>1
  <2> HIDE DEF salary, raised, fewer, status, disposition, permission
  <2> DEFINE low(ps) == IF permission \in ps THEN 1 ELSE 0
  <2>5. ASSUME NEW ps
        PROVE  /\ result(ps).status = status
               /\ disposition = "BY PERMISSION" => Rank(result(ps)) = low(ps)
               /\ disposition = "FAIL" => Rank(result(ps)) = 0
               /\ disposition = "NOT_APPLICABLE" => Rank(result(ps)) = 2
    <3>1. /\ Permitted(status, permission, ps).status = status
          /\ Rank(Permitted(status, permission, ps)) = low(ps)
      BY Ranks
    <3>2. /\ Rank(Salary(status, "FAIL")) = 0 /\ Rank(Salary(status, "NOT_APPLICABLE")) = 2
          /\ Salary(status, "FAIL").status = status
          /\ Salary(status, "NOT_APPLICABLE").status = status
      BY Ranks
    <3> HIDE DEF low
    <3> QED  BY <2>3, <3>1, <3>2
  <2> HIDE DEF result
  <2>6. Rank(salary) >= Rank(raised) /\ \A p : Rank(salary) >= Rank(fewer(p))
    <3>1. low(permitted) \in Nat
          /\ \A p : low(permitted \ {p}) \in Nat /\ low(permitted) >= low(permitted \ {p})
      OBVIOUS
    <3> HIDE DEF low
    <3>2. ASSUME NEW p
          PROVE  /\ Rank(result(permitted)) >= Rank(result(permitted))
                 /\ Rank(result(permitted)) >= Rank(result(permitted \ {p}))
      <4>1. CASE disposition = "BY PERMISSION"
        <5>1. /\ Rank(result(permitted)) = low(permitted)
              /\ Rank(result(permitted \ {p})) = low(permitted \ {p})
          BY <2>5, <4>1
        <5> QED  BY <3>1, <5>1
      <4>2. CASE disposition \in {"FAIL", "NOT_APPLICABLE"}
        <5>1. PICK n \in Nat : \A ps : Rank(result(ps)) = n
          BY <2>5, <4>2
        <5> QED  BY <5>1
      <4> QED  BY <2>3, <4>1, <4>2
    <3> QED  BY <2>2, <2>4, <3>2
  <2> QED  BY <1>2, <2>3, <2>4, <2>5, <2>6
<1>5. CASE compared
  <2> DEFINE ends == Ends(pay, Convert(pay.lower, pay, floor, review.hours),
                               Convert(pay.upper, pay, floor, review.hours))
  <2>1. ends = Ends(pay, Convert(pay.lower, pay, higher, review.hours),
                         Convert(pay.upper, pay, higher, review.hours))
    BY <1>1 DEF Convert
  <2>2. /\ salary = Compared(ends, pay.meaning, floor, permitted)
        /\ raised = Compared(ends, pay.meaning, higher, permitted)
        /\ \A p : fewer(p) = Compared(ends, pay.meaning, floor, permitted \ {p})
    <3>1. /\ salary = Evaluated(pay, floor, review, permitted)
          /\ raised = Evaluated(pay, higher, review, permitted)
          /\ \A p : fewer(p) = Evaluated(pay, floor, review, permitted \ {p})
      BY <1>1, <1>3, <1>5, EvaluationIs
    <3> HIDE DEF salary, raised, fewer, ends
    <3> QED  BY <2>1, <3>1 DEF Evaluated, ends
  <2>3. Alike(pay, floor, review.hours) /\ Alike(pay, higher, review.hours) /\ Published(pay)
    BY <1>1, <1>5 DEF Alike, Comparable, Unconverted, Periods, AnyPay, AnyFloor
  <2>4. SaysOf(ends, pay, floor, review.hours, most) /\ SaysOf(ends, pay, higher, review.hours, most)
    BY <2>1, <2>3, EndsSay, Zenon
  <2> HIDE DEF ends, salary, raised, fewer
  <2> DEFINE above(f) == ends[1] # Null /\ ends[1] >= f
             below(f) == ends[2] # Null /\ ends[2] < f
             over     == ends[2] # Null /\ pay.meaning # "UP_TO"
             F == floor.amount
             result(f, ps) ==
               IF above(f) THEN Salary("PUBLISHED_MEETS_MINIMUM", "PASS")
               ELSE IF below(f) THEN Salary("PUBLISHED_BELOW_MINIMUM", "FAIL")
               ELSE IF over THEN Permitted("PUBLISHED_OVERLAPS_MINIMUM", "OVERLAP", ps)
               ELSE Permitted("PUBLISHED_NONCOMPARABLE", "NONCOMPARABLE", ps)
  <2>5. /\ ends[1] \in Money /\ ends[2] \in Money
        /\ ~(above(F) /\ below(F)) /\ ~(above(F + 1) /\ below(F + 1))
    BY <1>1, <2>4 DEF SaysOf
  <2>6. /\ above(F) => reach = offers
        /\ below(F) => reach = {}
        /\ ends[2] # Null /\ ~above(F) /\ ~below(F) /\ pay.meaning # "UP_TO" /\ F > 0 =>
             reach # {} /\ reach # offers
    BY <2>4 DEF SaysOf
  <2>7. /\ salary = result(F, permitted) /\ raised = result(F + 1, permitted)
        /\ \A p : fewer(p) = result(F, permitted \ {p})
    <3>1. ASSUME NEW ps PROVE Compared(ends, pay.meaning, floor, ps) = result(F, ps)
      BY <1>1, <2>5, ComparedIs, Zenon
    <3>2. Compared(ends, pay.meaning, higher, permitted) = result(higher.amount, permitted)
      BY <1>1, <2>5, ComparedIs
    <3> HIDE DEF result
    <3> QED  BY <1>1, <2>2, <3>1, <3>2
  <2>8. /\ above(F + 1) => above(F)
        /\ below(F) => below(F + 1)
    BY <1>1, <2>5 DEF Money
  <2> DEFINE can(ps) == IF over THEN "OVERLAP" \in ps ELSE "NONCOMPARABLE" \in ps
             rank(f, ps) == IF above(f) THEN 2 ELSE IF below(f) THEN 0 ELSE IF can(ps) THEN 1 ELSE 0
  <2> HIDE DEF above, below, over, F, reach, offers
  <2>9. ASSUME NEW f, NEW ps
        PROVE  /\ Rank(result(f, ps)) = rank(f, ps)
               /\ result(f, ps).status = "PUBLISHED_MEETS_MINIMUM" => above(f)
               /\ result(f, ps).status = "PUBLISHED_BELOW_MINIMUM" => ~above(f) /\ below(f)
               /\ result(f, ps).status = "PUBLISHED_OVERLAPS_MINIMUM" => over /\ ~above(f) /\ ~below(f)
    BY Ranks
  <2> HIDE DEF result
  <2>10. /\ rank(F, permitted) >= rank(F + 1, permitted)
         /\ \A p : rank(F, permitted) >= rank(F, permitted \ {p})
    BY <2>8
  <2>11. Rank(salary) >= Rank(raised) /\ \A p \in permitted : Rank(salary) >= Rank(fewer(p))
    <3> HIDE DEF rank
    <3> QED  BY <2>7, <2>9, <2>10
  <2>12. /\ salary.status = "PUBLISHED_MEETS_MINIMUM" => reach = offers
         /\ salary.status = "PUBLISHED_BELOW_MINIMUM" => reach = {}
         /\ salary.status = "PUBLISHED_OVERLAPS_MINIMUM" /\ floor.amount > 0 =>
              reach # {} /\ reach # offers
    <3>1. over => ends[2] # Null /\ pay.meaning # "UP_TO"
      BY DEF over
    <3> QED  BY <2>6, <2>7, <2>9, <3>1 DEF F
  <2> QED  BY <1>2, <2>11, <2>12
<1> QED  BY <1>4, <1>5

\* SalarySound, and the same for every amount, number of hours and set of
\* permissions: a job passes evaluateSalary's comparison only if every pay it may
\* offer reaches the floor, fails it only if none does, and neither a higher floor
\* nor one permission less lets a job in.
THEOREM SalariesAreSound ==
  /\ SalarySound
  /\ \A pay \in AnyPay, floor \in AnyFloor, review \in AnyReview, permitted \in SUBSET Permits,
        most \in Nat : SalaryHolds(pay, floor, review, permitted, most)
<1>1. PlainPay \cup MixedPay \subseteq AnyPay
  <2>1. Amount \subseteq Money /\ 1 \in Money /\ 3 \in Money /\ 1 <= 3
    BY DEF Amount, Money
  <2>2. PlainPay \subseteq AnyPay
    BY <2>1 DEF PlainPay, Meanings, AnyPay, Periods
  <2>3. MixedPay \subseteq AnyPay
    BY <2>1 DEF MixedPay, AnyPay, Periods
  <2> QED  BY <2>2, <2>3
<1>2. Floor \subseteq AnyFloor /\ Review \subseteq AnyReview
  <2>1. 0 .. 6 \subseteq Nat /\ {TRUE} \subseteq BOOLEAN /\ {0, 2} \subseteq Nat
    OBVIOUS
  <2>2. Floor \subseteq AnyFloor
    BY <2>1 DEF Floor, AnyFloor, Periods
  <2>3. Review \subseteq AnyReview
    BY <2>1 DEF Review, AnyReview
  <2> QED  BY <2>2, <2>3
<1>3. Permissions \subseteq SUBSET Permits
  BY DEF Permissions, Permits
<1>4. SalarySound
  BY <1>1, <1>2, <1>3, SalaryIsSound DEF SalarySound
<1> QED  BY <1>4, SalaryIsSound

-------------------------------------------------------------------------------
(* Independent listings, for any finite number of any listings.              *)

Listing ==
  [employer : Int, requisition : Int, application : Int, listing : Int, fingerprint : Int,
   official : BOOLEAN, verified : Int, complete : Int, seen : Int]

Listed(S, jobs) == S \in SUBSET Nat /\ jobs \in [S -> Listing] /\ IsFiniteSet(S)

\* Of two sequences of numbers one precedes, and what precedes the preceding does.
LEMMA Lexicographic ==
  ASSUME NEW n \in Nat
  PROVE  /\ \A a, b \in [1 .. n -> Int] : a # b => Precedes(a, b) \/ Precedes(b, a)
         /\ \A a, b, c \in [1 .. n -> Int] : Precedes(a, b) /\ Precedes(b, c) => Precedes(a, c)
         /\ \A a, b \in [1 .. n -> Int] : Precedes(a, b) => ~Precedes(b, a)
<1>1. \A a, b \in [1 .. n -> Int] : Precedes(a, b) <=>
        \E m \in 1 .. n : a[m] < b[m] /\ \A l \in 1 .. n : l < m => a[l] = b[l]
  BY DEF Precedes
<1>2. ASSUME NEW a \in [1 .. n -> Int], NEW b \in [1 .. n -> Int], a # b
      PROVE  Precedes(a, b) \/ Precedes(b, a)
  <2> DEFINE D == {m \in 1 .. n : a[m] # b[m]}
  <2>1. D \in SUBSET Nat /\ D # {}
    BY <1>2
  <2>2. PICK m \in D : \A l \in D : m <= l
    <3> HIDE DEF D
    <3> QED  BY <2>1, LeastNumber
  <2>3. m \in 1 .. n /\ a[m] # b[m] /\ \A l \in 1 .. n : l < m => a[l] = b[l]
    BY <2>2
  <2>4. a[m] < b[m] \/ b[m] < a[m]
    BY <2>3
  <2> QED  BY <1>1, <2>3, <2>4
<1>3. ASSUME NEW a \in [1 .. n -> Int], NEW b \in [1 .. n -> Int],
             NEW c \in [1 .. n -> Int],
             Precedes(a, b), Precedes(b, c)
      PROVE  Precedes(a, c)
  <2>1. PICK m \in 1 .. n : a[m] < b[m] /\ \A l \in 1 .. n : l < m => a[l] = b[l]
    BY <1>1, <1>3
  <2>2. PICK k \in 1 .. n : b[k] < c[k] /\ \A l \in 1 .. n : l < k => b[l] = c[l]
    BY <1>1, <1>3
  <2>3. CASE m <= k
    <3>1. a[m] < c[m] /\ \A l \in 1 .. n : l < m => a[l] = c[l]
      BY <2>1, <2>2, <2>3
    <3> QED  BY <1>1, <3>1
  <2>4. CASE k < m
    <3>1. a[k] < c[k] /\ \A l \in 1 .. n : l < k => a[l] = c[l]
      BY <2>1, <2>2, <2>4
    <3> QED  BY <1>1, <3>1
  <2> QED  BY <2>3, <2>4
<1>4. ASSUME NEW a \in [1 .. n -> Int], NEW b \in [1 .. n -> Int], Precedes(a, b),
             Precedes(b, a)
      PROVE  FALSE
  <2>1. PICK m \in 1 .. n : a[m] < b[m] /\ \A l \in 1 .. n : l < m => a[l] = b[l]
    BY <1>1, <1>4
  <2>2. PICK k \in 1 .. n : b[k] < a[k] /\ \A l \in 1 .. n : l < k => b[l] = a[l]
    BY <1>1, <1>4
  <2> QED  BY <2>1, <2>2
<1> QED  BY <1>2, <1>3, <1>4

\* The quality of a record is eight numbers, the last three of which are its id.
LEMMA QualityIs ==
  ASSUME NEW job \in Listing
  PROVE  /\ Quality(job) \in [1 .. 8 -> Int]
         /\ StableId(job) = <<Quality(job)[6], Quality(job)[7], Quality(job)[8]>>
<1> DEFINE id == StableId(job)
<1>1. id = <<id[1], id[2], id[3]>> /\ id[1] \in Int /\ id[2] \in Int /\ id[3] \in Int
  BY DEF StableId, Listing, Strong, Urls
<1>2. PICK s \in Int, o \in Int, v \in Int, c \in Int, t \in Int :
        Quality(job) = <<s, o, v, c, t, id[1], id[2], id[3]>>
  BY DEF Quality, Listing
<1> HIDE DEF id
<1> QED  BY <1>1, <1>2 DEF id

\* No two of the records have one id.
Distinct(jobs, R) == \A i, j \in R : StableId(jobs[i]) = StableId(jobs[j]) => i = j

\* Then one of two is the better record, and the better of the better is.
LEMMA RecordsAreOrdered ==
  ASSUME NEW S, NEW jobs, Listed(S, jobs), NEW R \in SUBSET S, Distinct(jobs, R)
  PROVE  /\ \A i, j \in R : i # j => BetterRecord(jobs[i], jobs[j]) \/ BetterRecord(jobs[j], jobs[i])
         /\ \A i, j, k \in R : BetterRecord(jobs[i], jobs[j]) /\ BetterRecord(jobs[j], jobs[k])
                                 => BetterRecord(jobs[i], jobs[k])
         /\ \A i, j \in R : BetterRecord(jobs[i], jobs[j]) => ~BetterRecord(jobs[j], jobs[i])
<1> DEFINE q(i) == Quality(jobs[i])
<1>1. \A i \in R : /\ q(i) \in [1 .. 8 -> Int]
                   /\ StableId(jobs[i]) = <<q(i)[6], q(i)[7], q(i)[8]>>
  BY QualityIs DEF Listed
<1>2. \A i, j \in R : BetterRecord(jobs[i], jobs[j]) <=> Precedes(q(i), q(j))
  BY DEF BetterRecord
<1>3. \A i, j \in R : i # j => q(i) # q(j)
  <2> HIDE DEF q
  <2> QED  BY <1>1 DEF Distinct
<1> HIDE DEF q
<1>4. 8 \in Nat
  OBVIOUS
<1>5. \A i, j \in R : i # j => Precedes(q(i), q(j)) \/ Precedes(q(j), q(i))
  BY <1>1, <1>3, <1>4, Lexicographic
<1>6. \A i, j, k \in R : Precedes(q(i), q(j)) /\ Precedes(q(j), q(k)) => Precedes(q(i), q(k))
  BY <1>1, <1>4, Lexicographic
<1>7. \A i, j \in R : Precedes(q(i), q(j)) => ~Precedes(q(j), q(i))
  BY <1>1, <1>4, Lexicographic
<1> QED  BY <1>2, <1>5, <1>6, <1>7

\* The first arrivals are such records, and each listing has one of its id.
LEMMA FirstsAre ==
  ASSUME NEW S, NEW jobs, Listed(S, jobs)
  PROVE  /\ FirstArrivals(jobs) \in SUBSET S /\ Distinct(jobs, FirstArrivals(jobs))
         /\ \A i \in S : \E f \in FirstArrivals(jobs) :
              f <= i /\ StableId(jobs[f]) = StableId(jobs[i])
<1> DEFINE id(i) == StableId(jobs[i])
           F == FirstArrivals(jobs)
<1>1. DOMAIN jobs = S /\ S \in SUBSET Nat
  BY DEF Listed
<1>2. F = {i \in S : \A j \in S : j < i => id(j) # id(i)}
  BY <1>1 DEF FirstArrivals
<1> HIDE DEF F, id
<1>3. \A i, j \in F : id(i) = id(j) => i = j
  BY <1>1, <1>2
<1>4. ASSUME NEW i \in S PROVE \E f \in F : f <= i /\ id(f) = id(i)
  <2> DEFINE L == {j \in S : id(j) = id(i)}
  <2>1. L \in SUBSET Nat /\ L # {}
    BY <1>1
  <2>2. PICK f \in L : \A j \in L : f <= j
    <3> HIDE DEF L
    <3> QED  BY <2>1, LeastNumber
  <2>3. f \in S /\ id(f) = id(i) /\ f <= i
    BY <2>2
  <2>4. \A j \in S : j < f => id(j) # id(f)
    <3>1. ASSUME NEW j \in S, j < f, id(j) = id(f) PROVE FALSE
      <4>1. j \in L
        BY <2>3, <3>1
      <4>2. f <= j /\ f \in Nat /\ j \in Nat
        BY <1>1, <2>2, <2>3, <4>1
      <4> QED  BY <3>1, <4>2
    <3> QED  BY <3>1
  <2> QED  BY <1>2, <2>3, <2>4
<1> QED  BY <1>2, <1>3, <1>4 DEF F, id, Distinct

\* The worst record of those that are not among rest.
Worst(jobs, R, rest) ==
  CHOOSE i \in R \ rest : \A j \in (R \ rest) \ {i} : BetterRecord(jobs[j], jobs[i])

\* Of the listings left there is a worst record.
LEMMA WorstIs ==
  ASSUME NEW S, NEW jobs, Listed(S, jobs), NEW R \in SUBSET S, Distinct(jobs, R),
         NEW rest \in SUBSET R, rest # R
  PROVE  /\ Worst(jobs, R, rest) \in R \ rest
         /\ \A j \in (R \ rest) \ {Worst(jobs, R, rest)} :
              BetterRecord(jobs[j], jobs[Worst(jobs, R, rest)])
<1> DEFINE O == {p \in R \X R : BetterRecord(jobs[p[2]], jobs[p[1]])}
           T == R \ rest
<1>1. \A x, y \in R : <<x, y>> \in O <=> BetterRecord(jobs[y], jobs[x])
  OBVIOUS
<1> HIDE DEF O
<1>2. Orders(R, O)
  <2>1. \A x, y \in R : x # y => <<x, y>> \in O \/ <<y, x>> \in O
    BY <1>1, RecordsAreOrdered
  <2>2. \A x, y, z \in R : <<x, y>> \in O /\ <<y, z>> \in O => <<x, z>> \in O
    BY <1>1, RecordsAreOrdered
  <2> QED  BY <2>1, <2>2 DEF Orders
<1>3. T \in SUBSET R /\ T # {} /\ IsFiniteSet(R)
  BY FS_Subset DEF Listed
<1>4. Worst(jobs, R, rest) = CHOOSE i \in T : \A j \in T \ {i} : BetterRecord(jobs[j], jobs[i])
  BY DEF Worst
<1> HIDE DEF T
<1>5. \E x \in T : \A y \in T \ {x} : <<x, y>> \in O
  BY <1>2, <1>3, FirstExists
<1>6. \E x \in T : \A y \in T \ {x} : BetterRecord(jobs[y], jobs[x])
  BY <1>1, <1>3, <1>5
<1> QED  BY <1>4, <1>6 DEF T

\* What is kept of the records that are not among rest.
Keeps(jobs, R, kept) ==
  \A rest \in SUBSET R :
    kept[rest] =
      IF rest = R THEN {}
      ELSE LET last   == Worst(jobs, R, rest)
               before == kept[rest \cup {last}]
           IN IF \E k \in before : Duplicates(jobs[last], jobs[k])
              THEN before ELSE before \cup {last}

\* What is independent is what the listings kept one after the other are.
LEMMA IndependentIs ==
  ASSUME NEW T, NEW jobs, Listed(T, jobs), NEW S \in SUBSET T, Distinct(jobs, S)
  PROVE  \E kept : Keeps(jobs, S, kept) /\ Independent(jobs, S) = kept[{}]
<1> DEFINE V == SUBSET S
           value(rest, g) ==
             IF rest = S THEN {}
             ELSE LET last   == Worst(jobs, S, rest)
                      before == g[rest \cup {last}]
                  IN IF \E k \in before : Duplicates(jobs[last], jobs[k])
                     THEN before ELSE before \cup {last}
           step == [p \in (SUBSET S) \X [SUBSET S -> V] |-> value(p[1], p[2])]
<1>1. IsFiniteSet(S)
  BY FS_Subset DEF Listed
<1>2. ASSUME NEW rest \in SUBSET S, rest # S
      PROVE  /\ Worst(jobs, S, rest) \in S
             /\ rest \cup {Worst(jobs, S, rest)} \in SUBSET S
             /\ <<rest \cup {Worst(jobs, S, rest)}, rest>> \in Around(S)
  <2> DEFINE last == Worst(jobs, S, rest)
  <2>1. last \in S \ rest
    BY <1>2, WorstIs
  <2> HIDE DEF last
  <2>2. last \in S /\ rest \cup {last} \in SUBSET S /\ <<rest \cup {last}, rest>> \in Around(S)
    BY <2>1 DEF Around
  <2> QED  BY <2>2 DEF last
<1>3. ASSUME NEW rest \in SUBSET S, NEW g \in [SUBSET S -> V] PROVE value(rest,
             g) \in V
  <2>1. CASE rest = S
    BY <1>1, <2>1
  <2>2. CASE rest # S
    <3> DEFINE last == Worst(jobs, S, rest)
               before == g[rest \cup {last}]
    <3>1. last \in S /\ rest \cup {last} \in SUBSET S
      BY <1>2, <2>2
    <3>2. before \in V
      <4> HIDE DEF last, V
      <4> QED  BY <3>1
    <3>3. value(rest, g) = before \/ value(rest, g) = before \cup {last}
      BY <1>1, <2>2
    <3> HIDE DEF last, before, value
    <3> QED  BY <3>1, <3>2, <3>3
  <2> QED  BY <2>1, <2>2
<1>4. LooksDown(SUBSET S, V, Around(S), step)
  <2>1. step \in [(SUBSET S) \X [SUBSET S -> V] -> V]
    <3> HIDE DEF value, V
    <3> QED  BY <1>3
  <2>2. ASSUME NEW rest \in SUBSET S, NEW g \in [SUBSET S -> V],
               NEW h \in [SUBSET S -> V],
               \A r \in SUBSET S : <<r, rest>> \in Around(S) => g[r] = h[r]
        PROVE  step[<<rest, g>>] = step[<<rest, h>>]
    <3>1. rest # S => g[rest \cup {Worst(jobs, S, rest)}] = h[rest \cup {Worst(jobs, S, rest)}]
      BY <1>2, <2>2
    <3>2. value(rest, g) = value(rest, h)
      BY <1>1, <3>1
    <3> HIDE DEF value, V
    <3> QED  BY <3>2
  <2> HIDE DEF step, V
  <2> QED  BY <2>1, <2>2 DEF LooksDown
<1>5. PICK g : Solves(SUBSET S, V, step, g)
  <2>1. IsFiniteSet(SUBSET S) /\ V # {} /\ LeadsDown(SUBSET S, Around(S))
    BY <1>1, FS_SUBSET, AroundLeadsDown
  <2> HIDE DEF step, V
  <2> QED  BY <1>4, <2>1, RecursionOnFinite
<1>6. g \in [SUBSET S -> V] /\ \A rest \in SUBSET S : g[rest] = value(rest, g)
  <2>1. g \in [SUBSET S -> V]
    BY <1>5 DEF Solves
  <2>2. \A rest \in SUBSET S : <<rest, g>> \in (SUBSET S) \X [SUBSET S -> V]
    BY <2>1
  <2> HIDE DEF value
  <2> QED  BY <1>5, <2>1, <2>2 DEF Solves
<1> DEFINE body(f) ==
      [rest \in SUBSET S |->
        IF rest = S THEN {}
        ELSE LET last   == CHOOSE i \in S \ rest :
                             \A j \in (S \ rest) \ {i} : BetterRecord(jobs[j], jobs[i])
                 before == f[rest \cup {last}]
             IN IF \E k \in before : Duplicates(jobs[last], jobs[k])
                THEN before ELSE before \cup {last}]
           kept == CHOOSE kept : kept = body(kept)
<1>7. \A f : body(f) = [rest \in SUBSET S |-> value(rest, f)]
  BY Zenon DEF Worst
<1>8. Independent(jobs, S) = kept[{}]
  BY Zenon DEF Independent
<1> HIDE DEF body
<1>9. kept = body(kept)
  <2>1. g = [rest \in SUBSET S |-> g[rest]]
    BY <1>6
  <2> HIDE DEF value
  <2>2. g = body(g)
    BY <1>1, <1>6, <1>7, <2>1
  <2> QED  BY <2>2
<1> HIDE DEF kept
<1>10. \A rest \in SUBSET S : kept[rest] = value(rest, kept)
  <2> HIDE DEF value
  <2> QED  BY <1>7, <1>9
<1>11. Keeps(jobs, S, kept)
  BY <1>10, Zenon DEF Keeps
<1> QED  BY <1>8, <1>11

\* Those kept are independent, and each that is left out doubles a better one that is
\* kept.
LEMMA IndependentIsSound ==
  ASSUME NEW T, NEW jobs, Listed(T, jobs), NEW S \in SUBSET T, Distinct(jobs, S)
  PROVE  LET kept == Independent(jobs, S) IN
         /\ kept \subseteq S
         /\ \A i, j \in kept : i # j => ~Duplicates(jobs[i], jobs[j])
         /\ \A i \in S \ kept :
              \E k \in kept : Duplicates(jobs[i], jobs[k]) /\ BetterRecord(jobs[k], jobs[i])
<1>1. PICK kept : Keeps(jobs, S, kept) /\ Independent(jobs, S) = kept[{}]
  BY IndependentIs
<1> DEFINE right(rest) ==
             /\ kept[rest] \subseteq S \ rest
             /\ \A i, j \in kept[rest] : i # j => ~Duplicates(jobs[i], jobs[j])
             /\ \A i \in (S \ rest) \ kept[rest] :
                  \E k \in kept[rest] : Duplicates(jobs[i], jobs[k]) /\ BetterRecord(jobs[k], jobs[i])
           wrong == {rest \in SUBSET S : ~right(rest)}
<1>2. IsFiniteSet(S)
  BY FS_Subset DEF Listed
<1>3. ASSUME wrong # {} PROVE FALSE
  <2>1. PICK rest \in wrong : \A r \in wrong : <<r, rest>> \notin Around(S)
    <3>1. wrong \in SUBSET SUBSET S
      OBVIOUS
    <3> HIDE DEF wrong
    <3> QED  BY <1>2, <1>3, <3>1, AroundLeadsDown DEF LeadsDown
  <2>2. rest \in SUBSET S /\ ~right(rest)
    BY <2>1
  <2>3. rest # S
    <3>1. rest = S => kept[rest] = {}
      BY <1>1, <1>2, <2>2 DEF Keeps
    <3> QED  BY <2>2, <3>1
  <2> DEFINE last == Worst(jobs, S, rest)
             next == rest \cup {last}
             before == kept[next]
  <2>4. last \in S \ rest /\ \A j \in (S \ rest) \ {last} : BetterRecord(jobs[j], jobs[last])
    BY <2>2, <2>3, WorstIs
  <2>5. kept[rest] = IF \E k \in before : Duplicates(jobs[last], jobs[k])
                     THEN before ELSE before \cup {last}
    BY <1>1, <1>2, <2>2, <2>3 DEF Keeps
  <2> HIDE DEF last
  <2>6. next \in SUBSET S /\ <<next, rest>> \in Around(S)
    BY <2>2, <2>4 DEF Around
  <2>7. right(next)
    BY <2>1, <2>6
  <2> HIDE DEF wrong
  <2>8. /\ before \subseteq S \ next
        /\ \A i, j \in before : i # j => ~Duplicates(jobs[i], jobs[j])
        /\ \A i \in (S \ next) \ before :
             \E k \in before : Duplicates(jobs[i], jobs[k]) /\ BetterRecord(jobs[k], jobs[i])
    BY <2>7
  <2>9. S \ rest = (S \ next) \cup {last} /\ last \notin before
    BY <2>2, <2>4, <2>8
  <2>10. \A k \in before : BetterRecord(jobs[k], jobs[last])
    BY <2>4, <2>8, <2>9
  <2>11. \A i, j : Duplicates(jobs[i], jobs[j]) => Duplicates(jobs[j], jobs[i])
    BY DEF Duplicates
  <2> HIDE DEF before, next
  <2>12. CASE \E k \in before : Duplicates(jobs[last], jobs[k])
    <3>1. kept[rest] = before
      BY <2>5, <2>12
    <3>2. \A i \in (S \ rest) \ before : i = last \/ i \in (S \ next) \ before
      BY <2>9
    <3>3. \A i \in (S \ rest) \ before :
            \E k \in before : Duplicates(jobs[i], jobs[k]) /\ BetterRecord(jobs[k], jobs[i])
      BY <2>8, <2>10, <2>12, <3>2
    <3>4. before \subseteq S \ rest
      BY <2>8, <2>9
    <3> QED  BY <2>2, <2>8, <3>1, <3>3, <3>4
  <2>13. CASE ~ \E k \in before : Duplicates(jobs[last], jobs[k])
    <3>1. kept[rest] = before \cup {last}
      BY <2>5, <2>13
    <3> QED  BY <2>2, <2>8, <2>9, <2>11, <2>13, <3>1
  <2> QED  BY <2>12, <2>13
<1>4. right({})
  BY <1>3
<1>5. S \ {} = S
  OBVIOUS
<1> QED  BY <1>1, <1>4, <1>5

\* A record is kept exactly when no better one that is kept has it for a double.
Kernel(jobs, R, K) ==
  /\ K \in SUBSET R
  /\ \A i \in R : i \in K <=>
       ~ \E k \in K : Duplicates(jobs[i], jobs[k]) /\ BetterRecord(jobs[k], jobs[i])

\* This says what is kept,
LEMMA IndependentIsKernel ==
  ASSUME NEW S, NEW jobs, Listed(S, jobs), NEW R \in SUBSET S, Distinct(jobs, R)
  PROVE  Kernel(jobs, R, Independent(jobs, R))
<1> DEFINE K == Independent(jobs, R)
<1>1. /\ K \subseteq R
      /\ \A i, j \in K : i # j => ~Duplicates(jobs[i], jobs[j])
      /\ \A i \in R \ K : \E k \in K : Duplicates(jobs[i], jobs[k]) /\ BetterRecord(jobs[k], jobs[i])
  BY IndependentIsSound
<1>2. \A i, j \in R : BetterRecord(jobs[i], jobs[j]) => ~BetterRecord(jobs[j], jobs[i])
  BY RecordsAreOrdered
<1> HIDE DEF K
<1>3. \A i \in K : ~ \E k \in K : Duplicates(jobs[i], jobs[k]) /\ BetterRecord(jobs[k], jobs[i])
  BY <1>1, <1>2
<1> QED  BY <1>1, <1>3 DEF Kernel, K

\* and it says all of it.
LEMMA KernelIsUnique ==
  ASSUME NEW S, NEW jobs, Listed(S, jobs), NEW R \in SUBSET S, Distinct(jobs, R),
         NEW K, NEW L, Kernel(jobs, R, K), Kernel(jobs, R, L)
  PROVE  K = L
<1> DEFINE O == {p \in R \X R : BetterRecord(jobs[p[1]], jobs[p[2]])}
           D == {i \in R : ~(i \in K <=> i \in L)}
<1>1. \A x, y \in R : <<x, y>> \in O <=> BetterRecord(jobs[x], jobs[y])
  OBVIOUS
<1> HIDE DEF O
<1>2. Orders(R, O) /\ \A x, y \in R : <<x, y>> \in O => <<y, x>> \notin O
  <2>1. \A x, y \in R : x # y => <<x, y>> \in O \/ <<y, x>> \in O
    BY <1>1, RecordsAreOrdered
  <2>2. \A x, y, z \in R : <<x, y>> \in O /\ <<y, z>> \in O => <<x, z>> \in O
    BY <1>1, RecordsAreOrdered
  <2>3. \A x, y \in R : <<x, y>> \in O => <<y, x>> \notin O
    BY <1>1, RecordsAreOrdered
  <2> QED  BY <2>1, <2>2, <2>3 DEF Orders
<1>3. IsFiniteSet(R) /\ D \in SUBSET R
  BY FS_Subset DEF Listed
<1>4. ASSUME D # {} PROVE FALSE
  <2>1. PICK x \in D : \A y \in D \ {x} : <<x, y>> \in O
    <3> HIDE DEF D
    <3> QED  BY <1>2, <1>3, <1>4, FirstExists
  <2>2. \A k \in R : BetterRecord(jobs[k], jobs[x]) => (k \in K <=> k \in L)
    BY <1>1, <1>2, <2>1
  <2>3. x \in R /\ ~(x \in K <=> x \in L)
    BY <2>1
  <2>4. \A k : k \in K \/ k \in L => k \in R
    BY DEF Kernel
  <2>5. x \in K <=> ~ \E k \in K : Duplicates(jobs[x], jobs[k]) /\ BetterRecord(jobs[k], jobs[x])
    BY <2>3 DEF Kernel
  <2>6. x \in L <=> ~ \E k \in L : Duplicates(jobs[x], jobs[k]) /\ BetterRecord(jobs[k], jobs[x])
    BY <2>3 DEF Kernel
  <2> QED  BY <2>2, <2>3, <2>4, <2>5, <2>6
<1> QED  BY <1>3, <1>4 DEF Kernel

\* An order in which the listings may arrive.
Reorders(p, S) ==
  /\ p \in [S -> S]
  /\ \A i, j \in S : p[i] = p[j] => i = j
  /\ \A j \in S : \E i \in S : p[i] = j

\* What is kept and left out of any listings,
LEMMA InventoryIsSound ==
  ASSUME NEW S, NEW jobs, Listed(S, jobs)
  PROVE  InventoryHolds(jobs)
<1> DEFINE F == FirstArrivals(jobs)
           kept == IndependentInventory(jobs)
<1>1. /\ F \in SUBSET S /\ Distinct(jobs, F)
      /\ \A i \in S : \E f \in F : f <= i /\ StableId(jobs[f]) = StableId(jobs[i])
  BY FirstsAre
<1>2. kept = Independent(jobs, F) /\ DOMAIN jobs = S
  BY DEF IndependentInventory, Listed
<1> HIDE DEF F
<1>3. /\ kept \subseteq F
      /\ \A i, j \in kept : i # j => ~Duplicates(jobs[i], jobs[j])
      /\ \A i \in F \ kept : \E k \in kept : Duplicates(jobs[i], jobs[k]) /\ BetterRecord(jobs[k], jobs[i])
  BY <1>1, <1>2, IndependentIsSound
<1> HIDE DEF kept
<1>4. \A i \in S : \E f \in F :
        /\ f <= i /\ StableId(jobs[f]) = StableId(jobs[i])
        /\ f \in kept \/ \E k \in kept : Duplicates(jobs[f], jobs[k]) /\ BetterRecord(jobs[k], jobs[f])
  BY <1>1, <1>3
<1> QED  BY <1>2, <1>3, <1>4, Zenon DEF InventoryHolds, F, kept

\* and the orders that do not change it.
LEMMA OrderIsImmaterial ==
  ASSUME NEW S, NEW jobs, Listed(S, jobs), NEW p, Reorders(p, S)
  PROVE  OrderHolds(jobs, p)
<1> DEFINE moved == [i \in S |-> jobs[p[i]]]
           same  == {i \in S : p[i] \in IndependentInventory(jobs)}
           F     == FirstArrivals(jobs)
           M     == FirstArrivals(moved)
           id(i) == StableId(jobs[i])
           K     == Independent(jobs, F)
<1>1. DOMAIN jobs = S /\ S \in SUBSET Nat /\ p \in [S -> S]
  BY DEF Listed, Reorders
<1>2. Listed(S, moved) /\ \A i \in S : moved[i] = jobs[p[i]]
  BY <1>1 DEF Listed
<1> HIDE DEF moved
<1> SUFFICES ASSUME \A i, j \in S : i < j /\ id(p[i]) = id(p[j]) => p[i] < p[j]
             PROVE  IndependentInventory(moved) = same
  BY <1>1, <1>2 DEF OrderHolds, moved
<1>3. F \in SUBSET S /\ Distinct(jobs, F) /\ M \in SUBSET S /\ Distinct(moved, M)
  BY <1>2, FirstsAre
<1>4. DOMAIN moved = S
  BY DEF moved
<1>5. /\ F = {i \in S : \A j \in S : j < i => id(j) # id(i)}
      /\ M = {i \in S : \A j \in S : j < i => id(p[j]) # id(p[i])}
  <2>1. F = {i \in S : \A j \in S : j < i => id(j) # id(i)}
    BY <1>1 DEF FirstArrivals
  <2>2. M = {i \in S : \A j \in S : j < i => StableId(moved[j]) # StableId(moved[i])}
    BY <1>4, Zenon DEF FirstArrivals
  <2>3. \A i \in S : StableId(moved[i]) = id(p[i])
    BY <1>2
  <2> HIDE DEF id, F, M
  <2>4. M = {i \in S : \A j \in S : j < i => id(p[j]) # id(p[i])}
    BY <2>2, <2>3
  <2> QED  BY <2>1, <2>4
<1> HIDE DEF F, M, id
<1>6. \A i \in S : i \in M <=> p[i] \in F
  <2>1. ASSUME NEW i \in S, i \in M PROVE p[i] \in F
    <3>1. ASSUME NEW n \in S, n < p[i], id(n) = id(p[i]) PROVE FALSE
      <4>1. PICK j \in S : p[j] = n
        BY DEF Reorders
      <4>2. ~(j < i) /\ j # i
        BY <1>1, <1>5, <2>1, <3>1, <4>1
      <4>3. i < j
        BY <1>1, <4>2
      <4>4. p[i] < p[j] /\ p[i] \in Nat /\ p[j] \in Nat
        BY <1>1, <3>1, <4>1, <4>3
      <4> QED  BY <3>1, <4>1, <4>4
    <3> QED  BY <1>1, <1>5, <3>1
  <2>2. ASSUME NEW i \in S, p[i] \in F PROVE i \in M
    <3>1. ASSUME NEW j \in S, j < i, id(p[j]) = id(p[i]) PROVE FALSE
      <4>1. p[j] < p[i] /\ p[j] \in S
        BY <1>1, <3>1
      <4> QED  BY <1>5, <2>2, <3>1, <4>1
    <3> QED  BY <1>5, <3>1
  <2> QED  BY <2>1, <2>2
<1>7. Kernel(jobs, F, K)
  BY <1>3, IndependentIsKernel
<1>8. same = {i \in S : p[i] \in K}
  BY DEF IndependentInventory, F
<1> HIDE DEF K, same
<1>9. Kernel(moved, M, same)
  <2>1. same \in SUBSET M
    BY <1>6, <1>7, <1>8 DEF Kernel
  <2>2. ASSUME NEW i \in M
        PROVE  i \in same <=>
                 ~ \E k \in same : Duplicates(moved[i], moved[k]) /\ BetterRecord(moved[k], moved[i])
    <3>1. i \in S /\ p[i] \in F
      BY <1>3, <1>6
    <3>2. i \in same <=>
            ~ \E k \in K : Duplicates(jobs[p[i]], jobs[k]) /\ BetterRecord(jobs[k], jobs[p[i]])
      BY <1>7, <1>8, <3>1 DEF Kernel
    <3>3. \A k \in K : \E m \in same : p[m] = k
      <4>1. \A k \in K : k \in S
        BY <1>3, <1>7 DEF Kernel
      <4> QED  BY <1>8, <4>1 DEF Reorders
    <3>4. \A m \in same : m \in S /\ p[m] \in K
      BY <1>8
    <3> QED  BY <1>2, <3>1, <3>2, <3>3, <3>4
  <2> QED  BY <2>1, <2>2 DEF Kernel
<1>10. Kernel(moved, M, Independent(moved, M))
  BY <1>2, <1>3, IndependentIsKernel
<1>11. Independent(moved, M) = same
  BY <1>2, <1>3, <1>9, <1>10, KernelIsUnique
<1> QED  BY <1>11 DEF IndependentInventory, M

-------------------------------------------------------------------------------
(* Selection, for any finite number of jobs of any rank and any slots.       *)

Standing == [fit : Int, preference : Int, label : Int, employer : Int, family : Int,
             source : Int]
Jobs(S, jobs) == S \in SUBSET Nat /\ jobs \in [S -> Standing] /\ IsFiniteSet(S)

\* The jobs that are left have a first by rank,
LEMMA RanksAreOrdered ==
  ASSUME NEW S, NEW jobs, Jobs(S, jobs)
  PROVE  Orders(S, {p \in S \X S : RanksBefore(jobs, p[1], p[2])})
<1> DEFINE R == {p \in S \X S : RanksBefore(jobs, p[1], p[2])}
           f(i) == jobs[i].fit
           q(i) == jobs[i].preference
           l(i) == jobs[i].label
<1>1. \A x, y \in S : <<x, y>> \in R <=> RanksBefore(jobs, x, y)
  OBVIOUS
<1>2. \A i \in S : f(i) \in Int /\ q(i) \in Int /\ l(i) \in Int /\ i \in Nat
  BY DEF Jobs, Standing
<1>3. \A i, j \in S : RanksBefore(jobs, i, j) <=>
        \/ f(i) > f(j)
        \/ f(i) = f(j) /\ q(i) > q(j)
        \/ f(i) = f(j) /\ q(i) = q(j) /\ l(i) > l(j)
        \/ f(i) = f(j) /\ q(i) = q(j) /\ l(i) = l(j) /\ i < j
  BY Zenon DEF RanksBefore
<1> HIDE DEF f, q, l, R
<1>4. \A x, y \in S : x # y => RanksBefore(jobs, x, y) \/ RanksBefore(jobs, y, x)
  BY <1>2, <1>3
<1>5. \A x, y, z \in S : RanksBefore(jobs, x, y) /\ RanksBefore(jobs, y, z) => RanksBefore(jobs, x, z)
  BY <1>2, <1>3
<1>6. Orders(S, R)
  BY <1>1, <1>4, <1>5 DEF Orders
<1> QED  BY <1>6 DEF R

\* and by how crowded their employers, titles and sources are.
LEMMA CrowdsAreOrdered ==
  ASSUME NEW S, NEW jobs, Jobs(S, jobs), NEW taken \in SUBSET S
  PROVE  /\ Orders(S, {p \in S \X S : LessCrowded(jobs, p[1], p[2], taken)})
         /\ \A i, j \in S : Crowded(jobs, i, taken)[1] \in Nat /\
              (LessCrowded(jobs, i, j, taken) =>
                 Crowded(jobs, i, taken)[1] <= Crowded(jobs, j, taken)[1])
<1> DEFINE R == {p \in S \X S : LessCrowded(jobs, p[1], p[2], taken)}
           e(i) == Crowded(jobs, i, taken)[1]
           f(i) == Crowded(jobs, i, taken)[2]
           s(i) == Crowded(jobs, i, taken)[3]
<1>1. \A x, y \in S : <<x, y>> \in R <=> LessCrowded(jobs, x, y, taken)
  OBVIOUS
<1>2. ASSUME NEW i \in S
      PROVE  e(i) \in Nat /\ f(i) \in Nat /\ s(i) \in Nat /\ i \in Nat
  <2> DEFINE E == {x \in taken : jobs[x].employer = jobs[i].employer}
             F == {x \in taken : jobs[x].family = jobs[i].family}
             Q == {x \in taken : jobs[x].source = jobs[i].source}
  <2>1. IsFiniteSet(taken) /\ E \subseteq taken /\ F \subseteq taken /\ Q \subseteq taken
    BY FS_Subset DEF Jobs
  <2>2. Crowded(jobs, i, taken) = <<Cardinality(E), Cardinality(F), Cardinality(Q)>>
    BY Zenon DEF Crowded
  <2> HIDE DEF E, F, Q
  <2>3. Cardinality(E) \in Nat /\ Cardinality(F) \in Nat /\ Cardinality(Q) \in Nat
    BY <2>1, FS_Subset, FS_CardinalityType
  <2>4. i \in Nat
    BY DEF Jobs
  <2> QED  BY <2>2, <2>3, <2>4
<1>3. \A i, j \in S : LessCrowded(jobs, i, j, taken) <=>
        Precedes(<<e(i), f(i), s(i), i>>, <<e(j), f(j), s(j), j>>)
  BY Zenon DEF LessCrowded
<1> HIDE DEF e, f, s, R
<1>5. \A i, j \in S : LessCrowded(jobs, i, j, taken) <=>
        \/ e(i) < e(j)
        \/ e(i) = e(j) /\ f(i) < f(j)
        \/ e(i) = e(j) /\ f(i) = f(j) /\ s(i) < s(j)
        \/ e(i) = e(j) /\ f(i) = f(j) /\ s(i) = s(j) /\ i < j
  <2> SUFFICES ASSUME NEW i \in S, NEW j \in S
      PROVE  Precedes(<<e(i), f(i), s(i), i>>, <<e(j), f(j), s(j), j>>) <=>
        \/ e(i) < e(j)
        \/ e(i) = e(j) /\ f(i) < f(j)
        \/ e(i) = e(j) /\ f(i) = f(j) /\ s(i) < s(j)
        \/ e(i) = e(j) /\ f(i) = f(j) /\ s(i) = s(j) /\ i < j
    BY <1>3
  <2>1. DOMAIN <<e(i), f(i), s(i), i>> = {1, 2, 3, 4}
    OBVIOUS
  <2> QED  BY <2>1 DEF Precedes
<1>6. \A x, y \in S : x # y => LessCrowded(jobs, x, y, taken) \/ LessCrowded(jobs, y, x, taken)
  BY <1>2, <1>5
<1>7. \A x, y, z \in S : LessCrowded(jobs, x, y, taken) /\ LessCrowded(jobs, y, z, taken)
                           => LessCrowded(jobs, x, z, taken)
  BY <1>2, <1>5
<1>8. Orders(S, R)
  BY <1>1, <1>6, <1>7 DEF Orders
<1>9. \A i, j \in S : e(i) \in Nat /\ (LessCrowded(jobs, i, j, taken) => e(i) <= e(j))
  BY <1>2, <1>5
<1> QED  BY <1>8, <1>9 DEF R, e

\* The job a slot goes to when these are taken.
Anchor(jobs, rest) == CHOOSE i \in rest : \A j \in rest \ {i} : RanksBefore(jobs, i, j)
Taker(jobs, rest, preferences, taken) ==
  LET near == NearEquals(jobs, Anchor(jobs, rest), rest, preferences)
  IN IF near = {} THEN Anchor(jobs, rest)
     ELSE CHOOSE i \in near : \A j \in near \ {i} : LessCrowded(jobs, i, j, taken)
Preferring(jobs) == \E i \in DOMAIN jobs : jobs[i].preference # Missing

\* SlotHolds of a slot by itself.
SlotRight(jobs, before, chosen, anchor) ==
  /\ \A i \in DOMAIN jobs \ before :
       /\ jobs[i].fit - jobs[chosen].fit <= 5
       /\ (\A j \in DOMAIN jobs \ before : j # i => jobs[i].fit - jobs[j].fit > 5) => chosen = i
  /\ jobs[chosen].label >= jobs[anchor].label
  /\ jobs[anchor].preference # Missing => jobs[anchor].preference - jobs[chosen].preference <= 5
  /\ Crowded(jobs, chosen, before)[1] <= Crowded(jobs, anchor, before)[1]

\* Who takes a slot is near the best one left, or is it.
LEMMA TakerIsRight ==
  ASSUME NEW S, NEW jobs, Jobs(S, jobs), NEW taken \in SUBSET S, S \ taken # {}
  PROVE  LET rest   == S \ taken
             anchor == Anchor(jobs, rest)
             chosen == Taker(jobs, rest, Preferring(jobs), taken)
         IN anchor \in rest /\ chosen \in rest /\ SlotRight(jobs, taken, chosen, anchor)
<1> DEFINE rest   == S \ taken
           anchor == Anchor(jobs, rest)
           near   == NearEquals(jobs, anchor, rest, Preferring(jobs))
           chosen == Taker(jobs, rest, Preferring(jobs), taken)
           R      == {p \in S \X S : RanksBefore(jobs, p[1], p[2])}
           L      == {p \in S \X S : LessCrowded(jobs, p[1], p[2], taken)}
<1>1. /\ \A x, y \in S : <<x, y>> \in R <=> RanksBefore(jobs, x, y)
      /\ \A x, y \in S : <<x, y>> \in L <=> LessCrowded(jobs, x, y, taken)
  OBVIOUS
<1>2. Orders(S, R) /\ Orders(S, L) /\ IsFiniteSet(S) /\ DOMAIN jobs = S
  <2>1. Orders(S, R)
    BY RanksAreOrdered
  <2>2. Orders(S, L)
    BY CrowdsAreOrdered
  <2>3. IsFiniteSet(S) /\ DOMAIN jobs = S
    BY DEF Jobs
  <2> QED  BY <2>1, <2>2, <2>3
<1>3. rest \in SUBSET S /\ rest # {}
  OBVIOUS
<1> HIDE DEF R, L, rest
<1>4. anchor \in rest /\ \A j \in rest \ {anchor} : RanksBefore(jobs, anchor, j)
  <2>1. \E x \in rest : \A y \in rest \ {x} : <<x, y>> \in R
    BY <1>2, <1>3, FirstExists
  <2>2. \E x \in rest : \A y \in rest \ {x} : RanksBefore(jobs, x, y)
    BY <1>1, <1>3, <2>1
  <2> QED  BY <2>2 DEF Anchor
<1>5. near \in SUBSET S /\ near \subseteq rest
  BY <1>3 DEF NearEquals
<1>6. \A i \in rest : i \in near <=>
        /\ jobs[anchor].fit - jobs[i].fit <= 5
        /\ jobs[i].label >= jobs[anchor].label
        /\ Preferring(jobs) => /\ jobs[anchor].preference # Missing /\ jobs[i].preference # Missing
                               /\ jobs[anchor].preference - jobs[i].preference <= 5
  BY DEF NearEquals
<1>7. chosen = IF near = {} THEN anchor
               ELSE CHOOSE i \in near : \A j \in near \ {i} : LessCrowded(jobs, i, j, taken)
  BY Zenon DEF Taker
<1> HIDE DEF anchor, near, chosen
<1>8. near # {} => chosen \in near /\ \A j \in near \ {chosen} : LessCrowded(jobs, chosen, j, taken)
  <2> SUFFICES ASSUME near # {} PROVE chosen \in near /\ \A j \in near \ {chosen} : LessCrowded(jobs, chosen, j, taken)
    OBVIOUS
  <2>1. \E x \in near : \A y \in near \ {x} : <<x, y>> \in L
    BY <1>2, <1>5, FirstExists
  <2>2. \E x \in near : \A y \in near \ {x} : LessCrowded(jobs, x, y, taken)
    BY <1>1, <1>5, <2>1
  <2> QED  BY <1>7, <2>2
<1>9. chosen \in rest
  BY <1>4, <1>5, <1>7, <1>8
<1>10. \A i \in S : /\ jobs[i].fit \in Int /\ jobs[i].label \in Int /\ jobs[i].preference \in Int
                    /\ Crowded(jobs, i, taken)[1] \in Nat
  BY CrowdsAreOrdered DEF Jobs, Standing
<1>11. anchor \in S /\ chosen \in S
  BY <1>3, <1>4, <1>9
<1>12. \A i \in rest : jobs[anchor].fit >= jobs[i].fit
  <2>1. \A i, j \in S : RanksBefore(jobs, i, j) => jobs[i].fit >= jobs[j].fit
    BY <1>10 DEF RanksBefore
  <2> QED  BY <1>3, <1>4, <1>10, <1>11, <2>1
<1>13. near # {} => /\ jobs[anchor].fit - jobs[chosen].fit <= 5
                    /\ jobs[chosen].label >= jobs[anchor].label
                    /\ jobs[anchor].preference # Missing =>
                         jobs[anchor].preference - jobs[chosen].preference <= 5
  <2>1. jobs[anchor].preference # Missing => Preferring(jobs)
    BY <1>2, <1>11 DEF Preferring
  <2> QED  BY <1>5, <1>6, <1>8, <2>1
<1>14. /\ jobs[anchor].fit - jobs[chosen].fit <= 5
       /\ jobs[chosen].label >= jobs[anchor].label
       /\ jobs[anchor].preference # Missing => jobs[anchor].preference - jobs[chosen].preference <= 5
  <2>1. CASE near = {}
    <3>1. chosen = anchor
      BY <1>7, <2>1
    <3> QED  BY <1>10, <1>11, <3>1
  <2> QED  BY <1>13, <2>1
<1>15. \A i \in rest : jobs[i].fit - jobs[chosen].fit <= 5
  BY <1>3, <1>10, <1>11, <1>12, <1>14
<1>16. ASSUME NEW i \in rest, \A j \in rest : j # i => jobs[i].fit - jobs[j].fit > 5
       PROVE  chosen = i
  BY <1>3, <1>9, <1>10, <1>11, <1>15, <1>16
<1>17. Crowded(jobs, chosen, taken)[1] <= Crowded(jobs, anchor, taken)[1]
  <2>1. CASE chosen = anchor
    BY <1>10, <1>11, <2>1
  <2>2. CASE chosen # anchor
    <3>1. near # {}
      BY <1>7, <2>2
    <3>2. anchor \in near
      <4>1. Preferring(jobs) => jobs[anchor].preference # Missing
        BY <1>5, <1>6, <1>8, <3>1
      <4> QED  BY <1>4, <1>6, <1>10, <1>11, <4>1
    <3>3. LessCrowded(jobs, chosen, anchor, taken)
      BY <1>8, <2>2, <3>1, <3>2
    <3> QED  BY <1>11, <3>3, CrowdsAreOrdered
  <2> QED  BY <2>1, <2>2
<1>18. SlotRight(jobs, taken, chosen, anchor)
  BY <1>2, <1>14, <1>15, <1>16, <1>17 DEF SlotRight, rest
<1> QED  BY <1>4, <1>9, <1>18 DEF rest, anchor, chosen

\* The jobs of the slots that are filled.
Taken(slots) == {slots[k].job : k \in DOMAIN slots}

\* The slots, filled one by one.
Fills(jobs, count, slots) ==
  /\ slots[0] = <<>>
  /\ \A n \in 1 .. count :
       LET before == slots[n - 1]
           rest   == DOMAIN jobs \ Taken(before)
       IN slots[n] = IF rest = {} THEN before
                     ELSE Append(before, [job |-> Taker(jobs, rest, Preferring(jobs), Taken(before)),
                                          anchor |-> Anchor(jobs, rest)])

\* The selection is what the slots filled one after the other are.
LEMMA SelectionFills ==
  ASSUME NEW S, NEW jobs, Jobs(S, jobs), NEW count \in Nat
  PROVE  \E slots : Fills(jobs, count, slots) /\ BoundedDiversity(jobs, count) = slots[count]
<1> DEFINE N == 0 .. count
           E == [job : S, anchor : S]
           V == Seq(E)
           R == {p \in N \X N : p[1] < p[2]}
           filled(before) ==
             LET rest == DOMAIN jobs \ Taken(before)
             IN IF rest = {} THEN before
                ELSE Append(before, [job |-> Taker(jobs, rest, Preferring(jobs), Taken(before)),
                                     anchor |-> Anchor(jobs, rest)])
           value(n, g) == IF n = 0 THEN <<>> ELSE filled(g[n - 1])
           step == [p \in N \X [N -> V] |-> value(p[1], p[2])]
<1>1. DOMAIN jobs = S
  BY DEF Jobs
<1>2. \A n \in N : n # 0 => n - 1 \in N /\ <<n - 1, n>> \in R
  OBVIOUS
<1>3. ASSUME NEW before \in V PROVE filled(before) \in V
  <2> DEFINE taken == Taken(before)
             rest  == S \ taken
             slot  == [job |-> Taker(jobs, rest, Preferring(jobs), taken), anchor |-> Anchor(jobs, rest)]
  <2>1. \A k \in DOMAIN before : before[k] \in E
    <3> HIDE DEF E
    <3> QED  BY <1>3
  <2>2. taken \in SUBSET S
    <3>1. \A k \in DOMAIN before : before[k].job \in S
      BY <2>1
    <3> QED  BY <3>1 DEF Taken
  <2>3. filled(before) = IF rest = {} THEN before ELSE Append(before, slot)
    BY <1>1, Zenon
  <2> HIDE DEF taken, filled
  <2>4. rest # {} => slot \in E
    BY <2>2, TakerIsRight
  <2> HIDE DEF rest, slot, E
  <2> QED  BY <1>3, <2>3, <2>4
<1>4. LooksDown(N, V, R, step)
  <2>1. ASSUME NEW n \in N, NEW g \in [N -> V] PROVE value(n, g) \in V
    <3>1. n # 0 => g[n - 1] \in V
      <4> HIDE DEF N, V
      <4> QED  BY <1>2
    <3>2. <<>> \in V
      <4> HIDE DEF E
      <4> QED  OBVIOUS
    <3> HIDE DEF filled, V
    <3> QED  BY <1>3, <3>1, <3>2
  <2>2. step \in [N \X [N -> V] -> V]
    <3> HIDE DEF value, V, N
    <3> QED  BY <2>1
  <2>3. ASSUME NEW n \in N, NEW g \in [N -> V], NEW h \in [N -> V],
               \A m \in N : <<m, n>> \in R => g[m] = h[m]
        PROVE  step[<<n, g>>] = step[<<n, h>>]
    <3>1. n # 0 => g[n - 1] = h[n - 1]
      BY <1>2, <2>3
    <3>2. value(n, g) = value(n, h)
      <4> HIDE DEF filled
      <4> QED  BY <3>1
    <3> HIDE DEF value, V, N
    <3> QED  BY <3>2
  <2> HIDE DEF step, V, N, R
  <2> QED  BY <2>2, <2>3 DEF LooksDown
<1>5. LeadsDown(N, R)
  <2>1. ASSUME NEW T \in SUBSET N, T # {} PROVE \E x \in T : \A y \in T : <<y,
               x>> \notin R
    <3>1. T \in SUBSET Nat
      OBVIOUS
    <3>2. PICK x \in T : \A y \in T : x <= y
      BY <2>1, <3>1, LeastNumber
    <3> QED  BY <3>1, <3>2
  <2> QED  BY <2>1 DEF LeadsDown
<1>6. PICK g : Solves(N, V, step, g)
  <2>1. IsFiniteSet(N) /\ V # {}
    <3>1. <<>> \in V
      <4> HIDE DEF E
      <4> QED  OBVIOUS
    <3>2. IsFiniteSet(N)
      BY FS_Interval
    <3> HIDE DEF V, N
    <3> QED  BY <3>1, <3>2
  <2> HIDE DEF step, V, N, R
  <2> QED  BY <1>4, <1>5, <2>1, RecursionOnFinite
<1>7. g \in [N -> V] /\ \A n \in N : g[n] = value(n, g)
  <2>1. g \in [N -> V]
    BY <1>6 DEF Solves
  <2>2. \A n \in N : <<n, g>> \in N \X [N -> V]
    BY <2>1
  <2> HIDE DEF value, N, V
  <2> QED  BY <1>6, <2>1, <2>2 DEF Solves
<1> DEFINE body(f) ==
             [n \in 0 .. count |->
               IF n = 0 THEN <<>>
               ELSE LET before == f[n - 1]
                        rest   == DOMAIN jobs \ {before[k].job : k \in DOMAIN before}
                        anchor == CHOOSE i \in rest : \A j \in rest \ {i} : RanksBefore(jobs, i, j)
                        near   == NearEquals(jobs, anchor, rest, \E i \in DOMAIN jobs : jobs[i].preference # Missing)
                        chosen == IF near = {} THEN anchor
                                  ELSE CHOOSE i \in near : \A j \in near \ {i} :
                                         LessCrowded(jobs, i, j, {before[k].job : k \in DOMAIN before})
                    IN IF rest = {} THEN before ELSE Append(before, [job |-> chosen, anchor |-> anchor])]
           slots == CHOOSE slots : slots = body(slots)
<1>8. \A f : body(f) = [n \in N |-> value(n, f)]
  BY Zenon DEF Taker, Anchor, Taken, Preferring
<1>9. BoundedDiversity(jobs, count) = slots[count]
  BY Zenon DEF BoundedDiversity
<1> HIDE DEF body
<1>10. slots = body(slots)
  <2>1. g = [n \in N |-> g[n]]
    BY <1>7
  <2> HIDE DEF value, V, N
  <2>2. g = body(g)
    BY <1>7, <1>8, <2>1
  <2> QED  BY <2>2
<1>11. \A n \in N : slots[n] = value(n, slots)
  <2> HIDE DEF value, N
  <2> QED  BY <1>8, <1>10
<1> HIDE DEF slots
<1>12. slots[0] = <<>> /\ \A n \in 1 .. count : slots[n] = filled(slots[n - 1])
  <2>1. 0 \in N /\ \A n \in 1 .. count : n \in N /\ n # 0
    OBVIOUS
  <2> HIDE DEF filled, N
  <2> QED  BY <1>11, <2>1
<1>13. Fills(jobs, count, slots)
  BY <1>12, Zenon DEF Fills
<1> QED  BY <1>9, <1>13

\* Another slot leaves those before it as they are.
LEMMA OneMoreSlot ==
  ASSUME NEW E, NEW slots \in Seq(E), NEW slot \in E
  PROVE  LET more == Append(slots, slot) IN
         /\ more \in Seq(E) /\ Len(more) = Len(slots) + 1
         /\ Taken(more) = Taken(slots) \cup {slot.job}
         /\ more[Len(more)] = slot /\ \A k \in 1 .. Len(slots) : more[k] = slots[k]
         /\ {more[m].job : m \in 1 .. (Len(more) - 1)} = Taken(slots)
<1> DEFINE more == Append(slots, slot)
           n == Len(slots)
<1>1. n \in Nat /\ DOMAIN slots = 1 .. n
  OBVIOUS
<1>2. more \in Seq(E) /\ Len(more) = n + 1 /\ DOMAIN more = 1 .. (n + 1)
  OBVIOUS
<1>3. more[n + 1] = slot /\ \A k \in 1 .. n : more[k] = slots[k]
  OBVIOUS
<1> HIDE DEF more, n
<1>4. \A k : k \in 1 .. (n + 1) <=> k \in 1 .. n \/ k = n + 1
  BY <1>1
<1>5. Taken(more) = Taken(slots) \cup {slot.job}
  <2>1. \A x : x \in Taken(more) <=> \E k \in 1 .. (n + 1) : x = more[k].job
    BY <1>2 DEF Taken
  <2>2. \A x : x \in Taken(slots) <=> \E k \in 1 .. n : x = slots[k].job
    BY <1>1 DEF Taken
  <2> QED  BY <1>3, <1>4, <2>1, <2>2
<1>6. {more[m].job : m \in 1 .. ((n + 1) - 1)} = Taken(slots)
  <2>1. (n + 1) - 1 = n
    BY <1>1
  <2>2. {more[m].job : m \in 1 .. n} = {slots[m].job : m \in 1 .. n}
    BY <1>3
  <2> QED  BY <1>1, <2>1, <2>2 DEF Taken
<1> QED  BY <1>2, <1>3, <1>5, <1>6 DEF more, n

\* SlotHolds says of a slot and those before it what SlotRight does.
LEMMA SlotHoldsIs ==
  ASSUME NEW jobs, NEW slots, NEW k
  PROVE  SlotHolds(jobs, slots, k) <=>
           SlotRight(jobs, {slots[m].job : m \in 1 .. (k - 1)}, slots[k].job, slots[k].anchor)
  BY Zenon DEF SlotHolds, SlotRight

\* SelectionSound, for any jobs and as many slots as there are jobs for.
LEMMA SelectionIsSound ==
  ASSUME NEW S, NEW jobs, Jobs(S, jobs), NEW count \in Nat, count <= Cardinality(S)
  PROVE  SelectionHolds(jobs, count)
<1>1. PICK slots : Fills(jobs, count, slots) /\ BoundedDiversity(jobs, count) = slots[count]
  BY SelectionFills
<1> DEFINE E == [job : S, anchor : S]
           right(n) == /\ slots[n] \in Seq(E) /\ Len(slots[n]) = n
                       /\ Taken(slots[n]) \subseteq S /\ Cardinality(Taken(slots[n])) = n
                       /\ \A k \in 1 .. n : SlotHolds(jobs, slots[n], k)
           wrong == {n \in 0 .. count : ~right(n)}
<1>2. DOMAIN jobs = S /\ IsFiniteSet(S) /\ Cardinality(S) \in Nat
  BY FS_CardinalityType DEF Jobs
<1>3. right(0)
  <2>1. slots[0] = <<>>
    BY <1>1 DEF Fills
  <2>2. <<>> \in Seq(E) /\ Len(<<>>) = 0 /\ DOMAIN <<>> = {}
    <3> HIDE DEF E
    <3> QED  OBVIOUS
  <2>3. Taken(<<>>) = {}
    BY <2>2 DEF Taken
  <2>4. Cardinality({}) = 0
    BY FS_EmptySet
  <2> HIDE DEF E
  <2> QED  BY <2>1, <2>2, <2>3, <2>4
<1>4. ASSUME NEW n \in 1 .. count, right(n - 1) PROVE right(n)
  <2> DEFINE before == slots[n - 1]
             taken  == Taken(before)
             rest   == S \ taken
             anchor == Anchor(jobs, rest)
             chosen == Taker(jobs, rest, Preferring(jobs), taken)
             slot   == [job |-> chosen, anchor |-> anchor]
  <2>1. /\ before \in Seq(E) /\ Len(before) = n - 1
        /\ taken \in SUBSET S /\ Cardinality(taken) = n - 1
        /\ \A k \in 1 .. (n - 1) : SlotHolds(jobs, before, k)
    BY <1>4
  <2>2. rest # {}
    <3>1. taken # S
      BY <1>2, <1>4, <2>1
    <3> QED  BY <2>1, <3>1
  <2>3. anchor \in rest /\ chosen \in rest /\ SlotRight(jobs, taken, chosen, anchor)
    <3> HIDE DEF taken
    <3> QED  BY <2>1, <2>2, TakerIsRight
  <2>4. slots[n] = Append(before, slot)
    <3>1. slots[n] = IF rest = {} THEN before ELSE Append(before, slot)
      BY <1>1, <1>2, <1>4 DEF Fills
    <3> HIDE DEF before, rest, slot
    <3> QED  BY <2>2, <3>1
  <2> HIDE DEF before, taken, chosen, anchor
  <2>5. slot \in E
    BY <2>3
  <2>6. slot.job = chosen /\ slot.anchor = anchor
    OBVIOUS
  <2> HIDE DEF rest, slot, E, right
  <2> DEFINE more == slots[n]
  <2>7. /\ more \in Seq(E) /\ Len(more) = Len(before) + 1
        /\ Taken(more) = Taken(before) \cup {slot.job}
        /\ more[Len(more)] = slot /\ \A k \in 1 .. Len(before) : more[k] = before[k]
        /\ {more[m].job : m \in 1 .. (Len(more) - 1)} = Taken(before)
    BY <2>1, <2>4, <2>5, OneMoreSlot
  <2>8. n \in Nat /\ Len(more) = n /\ n - 1 + 1 = n /\ 1 .. n = (1 .. (n - 1)) \cup {n}
    BY <1>4, <2>1, <2>7
  <2>9. Taken(more) = taken \cup {chosen}
    BY <2>6, <2>7 DEF taken
  <2>10. chosen \in S /\ chosen \notin taken
    BY <2>3 DEF rest
  <2>11. Cardinality(Taken(more)) = n
    <3>1. IsFiniteSet(taken)
      BY <1>2, <2>1, FS_Subset
    <3>2. Cardinality(taken \cup {chosen}) = Cardinality(taken) + 1
      BY <2>10, <3>1, FS_AddElement
    <3> QED  BY <2>1, <2>8, <2>9, <3>2
  <2>12. SlotHolds(jobs, more, n)
    <3>1. more[n] = slot /\ {more[m].job : m \in 1 .. (n - 1)} = taken
      BY <2>7, <2>8 DEF taken
    <3> HIDE DEF more
    <3> QED  BY <2>3, <2>6, <3>1, SlotHoldsIs
  <2>13. ASSUME NEW k \in 1 .. (n - 1) PROVE SlotHolds(jobs, more, k)
    <3>1. more[k] = before[k]
      BY <2>1, <2>7, <2>13
    <3>2. \A m \in 1 .. (k - 1) : more[m] = before[m]
      BY <2>1, <2>7, <2>8, <2>13
    <3> HIDE DEF more
    <3>3. {more[m].job : m \in 1 .. (k - 1)} = {before[m].job : m \in 1 .. (k - 1)}
      BY <3>2
    <3>4. SlotHolds(jobs, before, k)
      BY <2>1, <2>13
    <3> QED  BY <3>1, <3>3, <3>4, SlotHoldsIs
  <2>14. Taken(more) \subseteq S
    BY <2>1, <2>9, <2>10
  <2> HIDE DEF more
  <2>15. \A k \in 1 .. n : SlotHolds(jobs, more, k)
    BY <2>8, <2>12, <2>13
  <2> QED  BY <2>7, <2>8, <2>11, <2>14, <2>15 DEF more, right
<1>5. right(count)
  <2> HIDE DEF right
  <2> SUFFICES ASSUME wrong # {} PROVE FALSE
    OBVIOUS
  <2>1. wrong \in SUBSET Nat
    OBVIOUS
  <2>2. PICK n \in wrong : \A m \in wrong : n <= m
    <3> HIDE DEF wrong
    <3> QED  BY <2>1, LeastNumber
  <2>3. n # 0 /\ n \in 1 .. count
    BY <1>3, <2>2
  <2>4. n - 1 \in 0 .. count /\ n - 1 \notin wrong
    BY <2>2, <2>3
  <2> QED  BY <1>4, <2>2, <2>3, <2>4
<1> HIDE DEF E
<1>6. {slots[count][k].job : k \in 1 .. count} = Taken(slots[count])
  <2>1. DOMAIN slots[count] = 1 .. count
    BY <1>5
  <2> QED  BY <2>1 DEF Taken
<1> QED  BY <1>1, <1>5, <1>6 DEF SelectionHolds

\* The jobs of the inputs that the runs check.
LEMMA ThreeJobs == IsFiniteSet(1 .. 3) /\ Cardinality(1 .. 3) = 3
<1>1. 1 \in Int /\ 3 \in Int /\ ~(1 > 3) /\ (3 - 1) + 1 = 3
  OBVIOUS
<1>2. \A a, b \in Int : /\ IsFiniteSet(a .. b)
                        /\ Cardinality(a .. b) = IF a > b THEN 0 ELSE (b - a) + 1
  BY FS_Interval
<1>3. IsFiniteSet(1 .. 3) /\ Cardinality(1 .. 3) = IF 1 > 3 THEN 0 ELSE (3 - 1) + 1
  BY <1>1, <1>2
<1> QED  BY <1>1, <1>3

\* InventorySound, for any finite number of listings and every order of arrival:
\* selectIndependentInventory keeps no two that double each other; of whatever it
\* leaves out, the first to arrive under its id is kept or doubles a better record
\* that is; and only the order among listings of one id changes what it keeps.
THEOREM InventoriesAreSound ==
  /\ InventorySound
  /\ \A S, jobs : Listed(S, jobs) =>
       InventoryHolds(jobs) /\ \A p : Reorders(p, S) => OrderHolds(jobs, p)
<1>1. Record \subseteq Listing
  <2>1. /\ 1 .. 2 \subseteq Int /\ 1 .. 3 \subseteq Int /\ {Missing, 1} \subseteq Int
        /\ {Missing, 1, 2} \subseteq Int /\ {0} \subseteq Int
    BY DEF Missing
  <2> QED  BY <2>1 DEF Record, Listing
<1>2. ASSUME NEW jobs \in [1 .. 3 -> Record] PROVE Listed(1 .. 3, jobs)
  <2>1. jobs \in [1 .. 3 -> Listing]
    BY <1>1
  <2>2. 1 .. 3 \in SUBSET Nat
    OBVIOUS
  <2> QED  BY <2>1, <2>2, ThreeJobs DEF Listed
<1>3. ASSUME NEW p \in Swaps PROVE Reorders(p, 1 .. 3)
  <2>1. 1 .. 3 = {1, 2, 3}
    OBVIOUS
  <2>2. /\ DOMAIN p = {1, 2, 3}
        /\ \/ p[1] = 2 /\ p[2] = 1 /\ p[3] = 3
           \/ p[1] = 1 /\ p[2] = 3 /\ p[3] = 2
    BY DEF Swaps
  <2>3. p \in [{1, 2, 3} -> {1, 2, 3}]
    <3>1. CASE p = <<2, 1, 3>>
      BY <3>1
    <3>2. CASE p = <<1, 3, 2>>
      BY <3>2
    <3> QED  BY <3>1, <3>2 DEF Swaps
  <2> QED  BY <2>1, <2>2, <2>3 DEF Reorders
<1>4. InventorySound
  BY <1>2, <1>3, InventoryIsSound, OrderIsImmaterial DEF InventorySound
<1> QED  BY <1>4, InventoryIsSound, OrderIsImmaterial

\* SelectionSound, for any finite number of jobs and slots for them:
\* selectWithBoundedDiversity fills every slot, takes no job twice, and passes over
\* nobody who is more than five points fitter.
THEOREM SelectionsAreSound ==
  /\ SelectionSound
  /\ \A S, jobs : \A count \in Nat :
       Jobs(S, jobs) /\ count <= Cardinality(S) => SelectionHolds(jobs, count)
<1>1. Ranked \subseteq Standing
  <2>1. /\ {0, 4, 8} \subseteq Int /\ {Missing, 0, 8} \subseteq Int /\ {0, 2} \subseteq Int
        /\ 1 .. 2 \subseteq Int /\ {1} \subseteq Int
    BY DEF Missing
  <2> QED  BY <2>1 DEF Ranked, Standing
<1>2. ASSUME NEW jobs \in [1 .. 3 -> Ranked] PROVE Jobs(1 .. 3,
             jobs) /\ 2 <= Cardinality(1 .. 3)
  <2>1. jobs \in [1 .. 3 -> Standing]
    BY <1>1
  <2>2. 1 .. 3 \in SUBSET Nat /\ 2 <= 3
    OBVIOUS
  <2> QED  BY <2>1, <2>2, ThreeJobs DEF Jobs
<1> QED  BY <1>2, SelectionIsSound DEF SelectionSound
===============================================================================
