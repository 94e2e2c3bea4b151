--------------------------- MODULE EditGraphProofs ---------------------------
(***************************************************************************)
(* For every set of ids and every node limit: what either validator        *)
(* accepts is one chain from the source to the output, a chain is accepted *)
(* by both and compiled as it stands, an exposure lengthens it by one      *)
(* node, and the text of a graph is the same however it came about.        *)
(***************************************************************************)
EXTENDS GraphDocuments, FiniteSetTheorems, SequenceTheorems, TLAPS

(***************************************************************************)
(* Induction and iteration                                                 *)
(***************************************************************************)

\* A set of natural numbers that is not empty has a least element.
LEMMA LeastElement ==
  ASSUME NEW S \in SUBSET Nat, S # {}
  PROVE  \E n \in S : \A m \in S : n <= m
<1> DEFINE Below    == {1..n : n \in S}
           Order    == StrictSubsetOrdering(Nat)
           Subsets  == FiniteSubsetsOf(Nat)
<1>1. \A n \in S : 1..n \in Subsets
  <2> TAKE n \in S
  <2>1. n \in Int /\ 1 \in Int /\ 1..n \subseteq Nat
    OBVIOUS
  <2>2. IsFiniteSet(1..n)
    BY <2>1, FS_Interval
  <2> QED
    BY <2>1, <2>2 DEF FiniteSubsetsOf
<1>2. \A m, n \in S : m < n => <<1..m, 1..n>> \in Order
  <2> SUFFICES ASSUME NEW m \in S, NEW n \in S, m < n
               PROVE  <<1..m, 1..n>> \in Order
    OBVIOUS
  <2>1. 1..m \subseteq 1..n /\ n \in 1..n /\ n \notin 1..m
    OBVIOUS
  <2>2. 1..m \in SUBSET Nat /\ 1..n \in SUBSET Nat
    OBVIOUS
  <2> QED
    BY <2>1, <2>2 DEF StrictSubsetOrdering
<1>3. \E x \in Below : \A y \in Below : ~ (<<y, x>> \in Order)
  <2>1. Below \subseteq Subsets /\ Below # {}
    BY <1>1
  <2>2. IsWellFoundedOn(Order, Subsets)
    BY FS_StrictSubsetOrderingWellFounded
  <2> HIDE DEF Below, Order, Subsets
  <2> QED
    BY <2>1, <2>2, WFMin, Zenon
<1> HIDE DEF Order
<1>4. PICK n \in S : \A m \in S : ~ (<<1..m, 1..n>> \in Order)
  BY <1>3
<1>5. \A m \in S : ~ (m < n)
  BY <1>2, <1>4
<1> QED
  BY <1>5

\* Induction for a set of natural numbers.
LEMMA SetInduction ==
  ASSUME NEW S, 0 \in S, \A n \in Nat : n \in S => n + 1 \in S
  PROVE  \A n \in Nat : n \in S
<1>1. SUFFICES ASSUME Nat \ S # {} PROVE FALSE
  OBVIOUS
<1>2. PICK n \in Nat \ S : \A m \in Nat \ S : n <= m
  BY <1>1, LeastElement
<1> QED
  BY <1>2

\* f holds the states of n rounds.
Rounds(step, start, n, f) == f[0] = start /\ \A i \in 1..n : f[i] = step[f[i - 1]]

\* Any number of rounds can be made.
LEMMA RoundsExist ==
  ASSUME NEW U, NEW step \in [U -> U], NEW start \in U
  PROVE  \A n \in Nat : \E f \in [0..n -> U] : Rounds(step, start, n, f)
<1> DEFINE S == {n \in Nat : \E f \in [0..n -> U] : Rounds(step, start, n, f)}
<1>1. 0 \in S
  <2>1. [i \in 0..0 |-> start] \in [0..0 -> U] /\ Rounds(step, start, 0, [i \in 0..0 |-> start])
    BY DEF Rounds
  <2> QED
    BY <2>1
<1>2. \A n \in Nat : n \in S => n + 1 \in S
  <2> SUFFICES ASSUME NEW n \in Nat, n \in S PROVE n + 1 \in S
    OBVIOUS
  <2>1. PICK f \in [0..n -> U] : Rounds(step, start, n, f)
    OBVIOUS
  <2> DEFINE g == [i \in 0..(n + 1) |-> IF i <= n THEN f[i] ELSE step[f[n]]]
  <2>2. g \in [0..(n + 1) -> U]
    OBVIOUS
  <2>3. Rounds(step, start, n + 1, g)
    BY <2>1 DEF Rounds
  <2> QED
    BY <2>2, <2>3
<1> HIDE DEF S
<1>3. \A n \in Nat : n \in S
  BY <1>1, <1>2, SetInduction
<1> QED
  BY <1>3 DEF S

\* Iterated is where the rounds end.
LEMMA IteratedRounds ==
  ASSUME NEW U, NEW step \in [U -> U], NEW start \in U, NEW n \in Nat
  PROVE  \E f \in [0..n -> U] : Rounds(step, start, n, f) /\ Iterated(step, start, n) = f[n]
<1> DEFINE After(g) == g = [i \in 0..n |-> IF i = 0 THEN start ELSE step[g[i - 1]]]
           after    == CHOOSE g : After(g)
<1>1. PICK f \in [0..n -> U] : Rounds(step, start, n, f)
  BY RoundsExist
<1>2. After(f)
  BY <1>1 DEF Rounds
<1>3. After(after)
  BY <1>2
<1>4. Iterated(step, start, n) = after[n]
  BY DEF Iterated
<1> HIDE DEF after
<1>5. /\ after[0] = start
      /\ \A i \in 1..n : after[i] = step[after[i - 1]]
  BY <1>3
<1> HIDE DEF After
<1> DEFINE S == {i \in Nat : i <= n => after[i] = f[i]}
<1>6. 0 \in S
  BY <1>1, <1>5 DEF Rounds
<1>7. \A i \in Nat : i \in S => i + 1 \in S
  <2> SUFFICES ASSUME NEW i \in Nat, i \in S, i + 1 <= n PROVE after[i + 1] = f[i + 1]
    OBVIOUS
  <2>1. i + 1 \in 1..n /\ (i + 1) - 1 = i
    OBVIOUS
  <2> QED
    BY <1>1, <1>5, <2>1 DEF Rounds
<1> HIDE DEF S
<1>8. n \in S
  BY <1>6, <1>7, SetInduction
<1>9. after[n] = f[n]
  BY <1>8 DEF S
<1> QED
  BY <1>1, <1>4, <1>9

(***************************************************************************)
(* Chains                                                                  *)
(***************************************************************************)

\* The graph is one chain c, from its source to its output.
IsChain(d, c) ==
  /\ c \in Seq(IdsOf(d)) /\ Len(c) = Cardinality(IdsOf(d)) /\ Len(c) > 1
  /\ \A id \in IdsOf(d) : \E i \in 1..Len(c) : c[i] = id
  /\ \A i, j \in 1..Len(c) : c[i] = c[j] => i = j
  /\ c[1] = d.source /\ c[Len(c)] = d.output
  /\ Inputs(d, c[1]) = {}
  /\ \A i \in 2..Len(c) : Inputs(d, c[i]) = {c[i - 1]}
  /\ \A i \in 1..Len(c) : /\ d.nodes[c[i]].kind = "source" <=> i = 1
                          /\ d.nodes[c[i]].kind = "output" <=> i = Len(c)

\* w follows inputs for n steps.
Walk(d, w, n) ==
  /\ w \in [0..n -> IdsOf(d)]
  /\ \A i \in 1..n : w[i] \in Inputs(d, w[i - 1])

Acyclic(d) == \A n \in Nat \ {0} : \A w : Walk(d, w, n) => w[0] # w[n]

\* In a well-shaped graph only a source has no input, the others have one.
LEMMA InputsOfShape ==
  ASSUME NEW d, IsFiniteSet(IdsOf(d)), WellShaped(d), InputsPresent(d), NEW id \in IdsOf(d)
  PROVE  /\ d.nodes[id].kind = "source" => Inputs(d, id) = {}
         /\ d.nodes[id].kind # "source" => \E input \in IdsOf(d) : Inputs(d, id) = {input}
<1>1. Inputs(d, id) \in SUBSET IdsOf(d)
  BY DEF InputsPresent
<1>2. IsFiniteSet(Inputs(d, id))
  BY <1>1, FS_Subset
<1>3. Cardinality(Inputs(d, id)) = Arity(d.nodes[id].kind)
  BY DEF WellShaped
<1>4. CASE d.nodes[id].kind = "source"
  <2>1. Cardinality(Inputs(d, id)) = 0
    BY <1>3, <1>4 DEF Arity
  <2> QED
    BY <1>2, <1>4, <2>1, FS_EmptySet
<1>5. CASE d.nodes[id].kind # "source"
  <2>1. Cardinality(Inputs(d, id)) = 1
    BY <1>3, <1>5 DEF Arity
  <2>2. PICK input : Inputs(d, id) = {input}
    BY <1>2, <2>1, FS_Singleton
  <2> QED
    BY <1>1, <1>5, <2>2
<1> QED
  BY <1>4, <1>5

\* The walk from the output, which stays where there is no input.
Before(d) ==
  [id \in IdsOf(d) |-> IF Inputs(d, id) = {} THEN id ELSE CHOOSE input \in Inputs(d, id) : TRUE]

LEMMA BeforeType ==
  ASSUME NEW d, IsFiniteSet(IdsOf(d)), WellShaped(d), InputsPresent(d)
  PROVE  /\ Before(d) \in [IdsOf(d) -> IdsOf(d)]
         /\ \A id \in IdsOf(d) :
              IF d.nodes[id].kind = "source" THEN Inputs(d, id) = {} /\ Before(d)[id] = id
              ELSE Inputs(d, id) = {Before(d)[id]}
<1>1. \A id \in IdsOf(d) :
        /\ Before(d)[id] \in IdsOf(d)
        /\ IF d.nodes[id].kind = "source" THEN Inputs(d, id) = {} /\ Before(d)[id] = id
           ELSE Inputs(d, id) = {Before(d)[id]}
  <2> TAKE id \in IdsOf(d)
  <2>1. CASE d.nodes[id].kind = "source"
    BY <2>1, InputsOfShape DEF Before
  <2>2. CASE d.nodes[id].kind # "source"
    <3>1. PICK input \in IdsOf(d) : Inputs(d, id) = {input}
      BY <2>2, InputsOfShape
    <3>2. (CHOOSE i \in Inputs(d, id) : TRUE) = input
      BY <3>1
    <3> QED
      BY <2>2, <3>1, <3>2 DEF Before
  <2> QED
    BY <2>1, <2>2
<1> QED
  BY <1>1 DEF Before

\* The rounds of collect_ancestors and those of the second validator.
LEMMA AncestorsRounds ==
  ASSUME NEW d, IsFiniteSet(IdsOf(d)), InputsPresent(d), d.output \in IdsOf(d),
         NEW N \in Nat, N = Cardinality(IdsOf(d))
  PROVE  \E f \in [0..N -> SUBSET IdsOf(d)] :
           /\ f[0] = {d.output}
           /\ \A i \in 1..N : f[i] = f[i - 1] \cup UNION {Inputs(d, id) : id \in f[i - 1]}
           /\ Ancestors(d) = f[N]
<1> DEFINE U    == SUBSET IdsOf(d)
           step == [seen \in U |-> seen \cup UNION {Inputs(d, id) : id \in seen}]
<1>1. step \in [U -> U] /\ {d.output} \in U
  BY DEF InputsPresent
<1>2. Ancestors(d) = Iterated(step, {d.output}, N)
  BY DEF Ancestors
<1>3. PICK f \in [0..N -> U] :
        Rounds(step, {d.output}, N, f) /\ Iterated(step, {d.output}, N) = f[N]
  <2> HIDE DEF step, U
  <2> QED
    BY ONLY <1>1, N \in Nat, IteratedRounds
<1>4. \A i \in 1..N : f[i] = f[i - 1] \cup UNION {Inputs(d, id) : id \in f[i - 1]}
  <2> TAKE i \in 1..N
  <2>1. i - 1 \in 0..N
    OBVIOUS
  <2>2. f[i - 1] \in U
    BY <1>3, <2>1
  <2>3. f[i] = step[f[i - 1]]
    <3> HIDE DEF step, U
    <3> QED
      BY <1>3 DEF Rounds
  <2> QED
    BY <2>2, <2>3
<1> HIDE DEF step
<1> QED
  BY <1>2, <1>3, <1>4 DEF Rounds

LEMMA PeeledRounds ==
  ASSUME NEW d, IsFiniteSet(IdsOf(d)), NEW N \in Nat, N = Cardinality(IdsOf(d))
  PROVE  \E f \in [0..N -> SUBSET IdsOf(d)] :
           /\ f[0] = {}
           /\ \A i \in 1..N :
                f[i] = f[i - 1] \cup {id \in IdsOf(d) : Inputs(d, id) \subseteq f[i - 1]}
           /\ Peeled(d) = f[N]
<1> DEFINE U    == SUBSET IdsOf(d)
           step == [done \in U |-> done \cup {id \in IdsOf(d) : Inputs(d, id) \subseteq done}]
<1>1. step \in [U -> U] /\ {} \in U
  OBVIOUS
<1>2. Peeled(d) = Iterated(step, {}, N)
  BY DEF Peeled
<1>3. PICK f \in [0..N -> U] : Rounds(step, {}, N, f) /\ Iterated(step, {}, N) = f[N]
  <2> HIDE DEF step, U
  <2> QED
    BY ONLY <1>1, N \in Nat, IteratedRounds
<1>4. \A i \in 1..N : f[i] = f[i - 1] \cup {id \in IdsOf(d) : Inputs(d, id) \subseteq f[i - 1]}
  <2> TAKE i \in 1..N
  <2>1. i - 1 \in 0..N
    OBVIOUS
  <2>2. f[i - 1] \in U
    BY <1>3, <2>1
  <2>3. f[i] = step[f[i - 1]]
    <3> HIDE DEF step, U
    <3> QED
      BY <1>3 DEF Rounds
  <2> QED
    BY <2>2, <2>3
<1> HIDE DEF step
<1> QED
  BY <1>2, <1>3, <1>4 DEF Rounds

\* The ancestors of the output are the nodes on that walk.
LEMMA AncestorsWalked ==
  ASSUME NEW d, IsFiniteSet(IdsOf(d)), WellShaped(d), InputsPresent(d),
         d.output \in IdsOf(d), NEW w \in [0..Cardinality(IdsOf(d)) -> IdsOf(d)],
         Rounds(Before(d), d.output, Cardinality(IdsOf(d)), w)
  PROVE  \A id \in Ancestors(d) : \E i \in 0..Cardinality(IdsOf(d)) : w[i] = id
<1> DEFINE N == Cardinality(IdsOf(d))
<1>1. N \in Nat
  BY FS_CardinalityType
<1>4. PICK f \in [0..N -> SUBSET IdsOf(d)] :
        /\ f[0] = {d.output}
        /\ \A i \in 1..N : f[i] = f[i - 1] \cup UNION {Inputs(d, id) : id \in f[i - 1]}
        /\ Ancestors(d) = f[N]
  BY <1>1, AncestorsRounds
<1>5. w \in [0..N -> IdsOf(d)] /\ Rounds(Before(d), d.output, N, w)
  OBVIOUS
<1> HIDE DEF N
<1> DEFINE S == {n \in Nat : n <= N => \A id \in f[n] : \E i \in 0..n : w[i] = id}
<1>6. 0 \in S
  BY <1>4, <1>5 DEF Rounds
<1>7. \A n \in Nat : n \in S => n + 1 \in S
  <2> SUFFICES ASSUME NEW n \in Nat, n \in S, n + 1 <= N, NEW id \in f[n + 1]
               PROVE  \E i \in 0..(n + 1) : w[i] = id
    OBVIOUS
  <2>1. n + 1 \in 1..N /\ (n + 1) - 1 = n /\ n \in 0..N
    BY <1>1
  <2>2. /\ f[n] \in SUBSET IdsOf(d)
        /\ f[n + 1] = f[n] \cup UNION {Inputs(d, seen) : seen \in f[n]}
    BY <1>4, <2>1
  <2>3. \A seen \in f[n] : \E i \in 0..n : w[i] = seen
    BY <1>1, <2>1
  <2>4. CASE id \in f[n]
    BY <2>3, <2>4
  <2>5. CASE id \notin f[n]
    <3>1. PICK seen \in f[n] : id \in Inputs(d, seen)
      BY <2>2, <2>5
    <3>2. PICK i \in 0..n : w[i] = seen
      BY <2>3
    <3>3. Inputs(d, seen) = {} \/ Inputs(d, seen) = {Before(d)[seen]}
      BY <2>2, BeforeType
    <3>4. i + 1 \in 1..N /\ (i + 1) - 1 = i /\ i + 1 \in 0..(n + 1)
      BY <1>1, <2>1, <3>2
    <3>5. w[i + 1] = Before(d)[w[i]]
      BY <1>5, <3>4 DEF Rounds
    <3> QED
      BY <3>1, <3>2, <3>3, <3>4, <3>5
  <2> QED
    BY <2>4, <2>5
<1> HIDE DEF S
<1>8. N \in S
  BY <1>1, <1>6, <1>7, SetInduction
<1> QED
  BY <1>1, <1>4, <1>8 DEF S, N

\* The ends differ, and no other node is of their kinds.
LEMMA Ends ==
  ASSUME NEW d, EndsDeclared(d)
  PROVE  /\ d.source \in IdsOf(d) /\ d.output \in IdsOf(d) /\ d.source # d.output
         /\ \A id \in IdsOf(d) : /\ d.nodes[id].kind = "source" <=> id = d.source
                                 /\ d.nodes[id].kind = "output" <=> id = d.output
<1>1. /\ \A id : id \in OfKind(d, "source") <=> id = d.source
      /\ \A id : id \in OfKind(d, "output") <=> id = d.output
  BY DEF EndsDeclared
<1> QED
  BY <1>1 DEF OfKind

\* A sequence of the ids without repetition has as many elements as there are ids.
LEMMA CountIds ==
  ASSUME NEW S, NEW n \in Nat, NEW c \in [1..n -> S],
         \A x \in S : \E i \in 1..n : c[i] = x,
         \A i, j \in 1..n : c[i] = c[j] => i = j
  PROVE  Cardinality(S) = n
<1>1. c \in Bijection(1..n, S)
  BY DEF Bijection, Injection, Surjection, IsInjective
<1> QED
  BY <1>1, FS_CountingElements DEF ExistsBijection

\* Without a cycle, and with every node an ancestor of the output, the walk
\* back from the output is the whole graph.
LEMMA AcyclicIsChain ==
  ASSUME NEW d, IsFiniteSet(IdsOf(d)), WellShaped(d), EndsDeclared(d), InputsPresent(d),
         Acyclic(d), Ancestors(d) = IdsOf(d)
  PROVE  \E c : IsChain(d, c)
<1> DEFINE N   == Cardinality(IdsOf(d))
           Ids1 == IdsOf(d)
           step == Before(d)
<1>1. N \in Nat
  BY FS_CardinalityType
<1>2. /\ step \in [Ids1 -> Ids1]
      /\ \A id \in Ids1 :
           IF d.nodes[id].kind = "source" THEN Inputs(d, id) = {} /\ step[id] = id
           ELSE Inputs(d, id) = {step[id]}
  BY BeforeType
<1>3. /\ d.source \in Ids1 /\ d.output \in Ids1 /\ d.source # d.output
      /\ \A id \in Ids1 : /\ d.nodes[id].kind = "source" <=> id = d.source
                          /\ d.nodes[id].kind = "output" <=> id = d.output
  BY Ends
<1>4. \A n \in Nat : \E f \in [0..n -> Ids1] : Rounds(step, d.output, n, f)
  <2> HIDE DEF step, Ids1
  <2> QED
    BY ONLY <1>2, <1>3, RoundsExist
<1>5. PICK w \in [0..N -> Ids1] : Rounds(step, d.output, N, w)
  BY <1>1, <1>4
<1>6. \A id \in Ids1 : \E i \in 0..N : w[i] = id
  <2>1. \A v \in [0..Cardinality(IdsOf(d)) -> IdsOf(d)] :
          Rounds(Before(d), d.output, Cardinality(IdsOf(d)), v) =>
            \A id \in Ancestors(d) : \E i \in 0..Cardinality(IdsOf(d)) : v[i] = id
    <3>1. d.output \in IdsOf(d)
      BY <1>3
    <3> QED
      BY ONLY <3>1, AncestorsWalked, IsFiniteSet(IdsOf(d)), WellShaped(d), InputsPresent(d)
  <2> QED
    BY <1>5, <2>1
<1> HIDE DEF N, step
<1>7. w[0] = d.output /\ \A i \in 0..(N - 1) : w[i + 1] = step[w[i]]
  <2>1. \A i \in 0..(N - 1) : i + 1 \in 1..N /\ (i + 1) - 1 = i
    BY <1>1
  <2> QED
    BY <1>5, <2>1 DEF Rounds
<1>8. PICK k \in 0..N : w[k] = d.source /\ \A i \in 0..(k - 1) : w[i] # d.source
  <2> DEFINE at == {i \in 0..N : w[i] = d.source}
  <2>1. at \in SUBSET Nat /\ at # {}
    BY <1>1, <1>3, <1>6
  <2>2. PICK k \in at : \A i \in at : k <= i
    BY <2>1, LeastElement
  <2>3. k \in 0..N /\ w[k] = d.source
    BY <2>2
  <2>4. \A i \in 0..(k - 1) : i \in 0..N /\ ~ (k <= i)
    BY <1>1, <2>3
  <2> QED
    BY <2>2, <2>3, <2>4
<1>9. \A i \in Nat : k <= i /\ i <= N => w[i] = d.source
  <2> DEFINE S == {i \in Nat : k <= i /\ i <= N => w[i] = d.source}
  <2>1. 0 \in S
    BY <1>1, <1>8
  <2>2. \A i \in Nat : i \in S => i + 1 \in S
    <3> SUFFICES ASSUME NEW i \in Nat, i \in S, k <= i + 1, i + 1 <= N
                 PROVE  w[i + 1] = d.source
      BY <1>1
    <3>1. CASE k = i + 1
      BY <1>8, <3>1
    <3>2. CASE k # i + 1
      <4>1. i \in 0..(N - 1) /\ k <= i /\ i <= N
        BY <1>1, <1>8, <3>2
      <4>2. w[i] = d.source
        BY <4>1
      <4> QED
        BY <1>2, <1>3, <1>7, <4>1, <4>2
    <3> QED
      BY <3>1, <3>2
  <2> HIDE DEF S
  <2>3. \A i \in Nat : i \in S
    BY <2>1, <2>2, SetInduction
  <2> QED
    BY <2>3 DEF S
<1>10. \A id \in Ids1 : \E i \in 0..k : w[i] = id
  <2> TAKE id \in Ids1
  <2>1. PICK i \in 0..N : w[i] = id
    BY <1>6
  <2> QED
    BY <1>1, <1>8, <1>9, <2>1
<1>11. \A i \in 0..(k - 1) : w[i] \in Ids1 /\ i + 1 \in 0..N /\ Inputs(d, w[i]) = {w[i + 1]}
  <2> TAKE i \in 0..(k - 1)
  <2>1. i \in 0..N /\ i + 1 \in 0..N /\ i \in 0..(N - 1)
    BY <1>1, <1>8
  <2> QED
    BY <1>2, <1>3, <1>5, <1>7, <1>8, <2>1
<1>12. \A i, j \in 0..k : i < j => w[i] # w[j]
  <2> SUFFICES ASSUME NEW i \in 0..k, NEW j \in 0..k, i < j, w[i] = w[j] PROVE FALSE
    OBVIOUS
  <2> DEFINE n == j - i
             v == [m \in 0..n |-> w[i + m]]
  <2>1. n \in Nat \ {0} /\ \A m \in 0..n : i + m \in 0..N
    BY <1>1, <1>8
  <2>2. v \in [0..n -> Ids1]
    BY <1>5, <2>1
  <2>3. \A m \in 1..n : v[m] \in Inputs(d, v[m - 1])
    <3> TAKE m \in 1..n
    <3>1. i + (m - 1) \in 0..(k - 1) /\ m - 1 \in 0..n /\ (i + (m - 1)) + 1 = i + m /\ m \in 0..n
      BY <1>1, <1>8
    <3> QED
      BY <1>11, <3>1
  <2>4. v[0] = w[i] /\ v[n] = w[j]
    BY <2>1
  <2>5. Walk(d, v, n)
    BY <2>2, <2>3 DEF Walk
  <2> HIDE DEF v, n
  <2> QED
    BY <2>1, <2>4, <2>5 DEF Acyclic
<1> DEFINE M == k + 1
           c == [i \in 1..M |-> w[M - i]]
<1>13. /\ M \in Nat /\ M > 1
       /\ \A i \in 1..M : M - i \in 0..k /\ M - i \in 0..N
       /\ \A i \in 2..M : M - i \in 0..(k - 1) /\ (M - i) + 1 = M - (i - 1) /\ i - 1 \in 1..M
       /\ M - 1 = k /\ M - M = 0 /\ 1 \in 1..M /\ M \in 1..M
  <2>1. k # 0
    BY <1>3, <1>7, <1>8
  <2> QED
    BY <1>1, <1>8, <2>1
<1>14. c \in [1..M -> Ids1]
  BY <1>5, <1>13
<1>15. \A id \in Ids1 : \E i \in 1..M : c[i] = id
  <2> TAKE id \in Ids1
  <2>1. PICK i \in 0..k : w[i] = id
    BY <1>10
  <2>2. M - i \in 1..M /\ M - (M - i) = i
    BY <1>8, <1>13
  <2>3. c[M - i] = id
    BY <2>1, <2>2
  <2> QED
    BY <2>2, <2>3
<1>16. \A i, j \in 1..M : c[i] = c[j] => i = j
  <2> SUFFICES ASSUME NEW i \in 1..M, NEW j \in 1..M, c[i] = c[j] PROVE i = j
    OBVIOUS
  <2>1. ~ (M - i < M - j) /\ ~ (M - j < M - i)
    BY <1>12, <1>13
  <2> QED
    BY <1>13, <2>1
<1>17. c[1] = d.source /\ c[M] = d.output
  BY <1>7, <1>8, <1>13
<1>18. Inputs(d, c[1]) = {} /\ \A i \in 2..M : Inputs(d, c[i]) = {c[i - 1]}
  <2>1. Inputs(d, c[1]) = {}
    BY <1>2, <1>3, <1>17
  <2>2. ASSUME NEW i \in 2..M PROVE Inputs(d, c[i]) = {c[i - 1]}
    <3>1. i \in 1..M
      BY <1>13
    <3> QED
      BY <1>11, <1>13, <3>1
  <2> QED
    BY <2>1, <2>2
<1> HIDE DEF c, M
<1>19. Cardinality(Ids1) = M
  BY <1>13, <1>14, <1>15, <1>16, CountIds
<1>20. c \in Seq(Ids1) /\ Len(c) = M
  BY <1>13, <1>14, SeqDef
<1>21. \A i \in 1..M : /\ d.nodes[c[i]].kind = "source" <=> i = 1
                       /\ d.nodes[c[i]].kind = "output" <=> i = M
  BY <1>3, <1>13, <1>14, <1>16, <1>17
<1>22. /\ c \in Seq(IdsOf(d)) /\ Len(c) = Cardinality(IdsOf(d)) /\ Len(c) > 1
       /\ \A id \in IdsOf(d) : \E i \in 1..Len(c) : c[i] = id
       /\ \A i, j \in 1..Len(c) : c[i] = c[j] => i = j
       /\ c[Len(c)] = d.output
       /\ \A i \in 2..Len(c) : Inputs(d, c[i]) = {c[i - 1]}
       /\ \A i \in 1..Len(c) : /\ d.nodes[c[i]].kind = "source" <=> i = 1
                               /\ d.nodes[c[i]].kind = "output" <=> i = Len(c)
  <2>1. /\ c \in Seq(IdsOf(d)) /\ Len(c) = Cardinality(IdsOf(d)) /\ Len(c) > 1
    BY <1>13, <1>19, <1>20
  <2>2. Len(c) = M
    BY <1>20
  <2> QED
    BY ONLY <1>15, <1>16, <1>17, <1>18, <1>21, <2>1, <2>2
<1> QED
  BY <1>17, <1>18, <1>22 DEF IsChain

(***************************************************************************)
(* The two searches for cycles                                             *)
(***************************************************************************)

\* What the depth-first visit of a node finds while the nodes of visiting are
\* open: a walk into one of them, or one that comes back to itself.
Reenters(d, visiting, w, n) ==
  Walk(d, w, n) /\ (w[n] \in visiting \/ \E j \in 0..(n - 1) : w[j] = w[n])
Meets(d, visiting, id) == \E n \in Nat : \E w : Reenters(d, visiting, w, n) /\ w[0] = id

LEMMA MeetsStep ==
  ASSUME NEW d, InputsPresent(d), NEW visiting \in SUBSET IdsOf(d), NEW id \in IdsOf(d)
  PROVE  Meets(d, visiting, id) <=>
           id \in visiting \/ \E input \in Inputs(d, id) : Meets(d, visiting \cup {id}, input)
<1>1. ASSUME Meets(d, visiting, id), id \notin visiting
      PROVE  \E input \in Inputs(d, id) : Meets(d, visiting \cup {id}, input)
  <2>1. PICK n \in Nat : \E w : Reenters(d, visiting, w, n) /\ w[0] = id
    BY <1>1 DEF Meets
  <2> PICK w : Reenters(d, visiting, w, n) /\ w[0] = id
    BY <2>1
  <2>2. Walk(d, w, n) /\ (w[n] \in visiting \/ \E j \in 0..(n - 1) : w[j] = w[n])
    BY <2>1 DEF Reenters
  <2>3. n # 0
    BY <1>1, <2>1, <2>2
  <2> DEFINE v == [m \in 0..(n - 1) |-> w[m + 1]]
  <2>4. n - 1 \in Nat /\ \A m \in 0..(n - 1) : m + 1 \in 0..n
    BY <2>3
  <2>5. w \in [0..n -> IdsOf(d)] /\ \A i \in 1..n : w[i] \in Inputs(d, w[i - 1])
    BY <2>2 DEF Walk
  <2>6. v \in [0..(n - 1) -> IdsOf(d)]
    BY <2>4, <2>5
  <2>7. \A i \in 1..(n - 1) : v[i] \in Inputs(d, v[i - 1])
    <3> TAKE i \in 1..(n - 1)
    <3>1. i + 1 \in 1..n /\ (i + 1) - 1 = i /\ (i - 1) + 1 = i
          /\ i \in 0..(n - 1) /\ i - 1 \in 0..(n - 1)
      OBVIOUS
    <3> QED
      BY <2>5, <3>1
  <2>8. v[n - 1] = w[n] /\ v[0] = w[1] /\ w[1] \in Inputs(d, id)
    <3>1. 1 \in 1..n /\ 1 - 1 = 0 /\ (n - 1) + 1 = n /\ 0 \in 0..(n - 1) /\ n - 1 \in 0..(n - 1)
      BY <2>3
    <3> QED
      BY <2>1, <2>5, <3>1
  <2>9. v[n - 1] \in visiting \cup {id} \/ \E j \in 0..((n - 1) - 1) : v[j] = v[n - 1]
    <3>1. CASE w[n] \in visiting
      BY <2>8, <3>1
    <3>2. CASE \E j \in 0..(n - 1) : w[j] = w[n]
      <4>1. PICK j \in 0..(n - 1) : w[j] = w[n]
        BY <3>2
      <4>2. CASE j = 0
        BY <2>1, <2>8, <4>1, <4>2
      <4>3. CASE j # 0
        <5>1. j - 1 \in 0..((n - 1) - 1) /\ (j - 1) + 1 = j /\ j - 1 \in 0..(n - 1)
          BY <4>3
        <5>2. v[j - 1] = w[j]
          BY <5>1
        <5> QED
          BY <2>8, <4>1, <5>1, <5>2
      <4> QED
        BY <4>2, <4>3
    <3> QED
      BY <2>2, <3>1, <3>2
  <2> HIDE DEF v
  <2>10. Reenters(d, visiting \cup {id}, v, n - 1)
    BY <2>6, <2>7, <2>9 DEF Reenters, Walk
  <2>11. Meets(d, visiting \cup {id}, w[1])
    BY <2>4, <2>8, <2>10 DEF Meets
  <2> QED
    BY <2>8, <2>11
<1>2. ASSUME id \in visiting
      PROVE  Meets(d, visiting, id)
  <2> DEFINE w == [m \in 0..0 |-> id]
  <2>1. Walk(d, w, 0) /\ w[0] = id
    BY DEF Walk
  <2>2. Reenters(d, visiting, w, 0)
    BY <1>2, <2>1 DEF Reenters
  <2> HIDE DEF w
  <2> QED
    BY <2>1, <2>2 DEF Meets
<1>3. ASSUME NEW input \in Inputs(d, id), Meets(d, visiting \cup {id}, input)
      PROVE  Meets(d, visiting, id)
  <2>1. PICK n \in Nat : \E v : Reenters(d, visiting \cup {id}, v, n) /\ v[0] = input
    BY <1>3 DEF Meets
  <2> PICK v : Reenters(d, visiting \cup {id}, v, n) /\ v[0] = input
    BY <2>1
  <2>2. Walk(d, v, n) /\ (v[n] \in visiting \cup {id} \/ \E j \in 0..(n - 1) : v[j] = v[n])
    BY <2>1 DEF Reenters
  <2>3. v \in [0..n -> IdsOf(d)] /\ \A i \in 1..n : v[i] \in Inputs(d, v[i - 1])
    BY <2>2 DEF Walk
  <2> DEFINE w == [m \in 0..(n + 1) |-> IF m = 0 THEN id ELSE v[m - 1]]
  <2>4. w \in [0..(n + 1) -> IdsOf(d)]
    BY <2>3
  <2>5. \A i \in 1..(n + 1) : w[i] \in Inputs(d, w[i - 1])
    <3> TAKE i \in 1..(n + 1)
    <3>1. CASE i = 1
      BY <1>3, <2>1, <3>1
    <3>2. CASE i # 1
      <4>1. i - 1 \in 1..n /\ i \in 0..(n + 1) /\ i - 1 \in 0..(n + 1)
        BY <3>2
      <4>2. w[i] = v[i - 1] /\ w[i - 1] = v[(i - 1) - 1]
        BY <4>1
      <4> QED
        BY <2>3, <4>1, <4>2
    <3> QED
      BY <3>1, <3>2
  <2>6. w[0] = id /\ w[n + 1] = v[n]
    OBVIOUS
  <2>7. w[n + 1] \in visiting \/ \E j \in 0..((n + 1) - 1) : w[j] = w[n + 1]
    <3>1. CASE v[n] \in visiting
      BY <2>6, <3>1
    <3>2. CASE v[n] = id
      <4>1. 0 \in 0..((n + 1) - 1)
        OBVIOUS
      <4> HIDE DEF w
      <4> QED
        BY <2>6, <3>2, <4>1
    <3>3. CASE \E j \in 0..(n - 1) : v[j] = v[n]
      <4>1. PICK j \in 0..(n - 1) : v[j] = v[n]
        BY <3>3
      <4>2. j + 1 \in 0..((n + 1) - 1) /\ w[j + 1] = v[j]
        OBVIOUS
      <4> HIDE DEF w
      <4> QED
        BY <2>6, <4>1, <4>2
    <3> QED
      BY <2>2, <3>1, <3>2, <3>3
  <2> HIDE DEF w
  <2>8. Reenters(d, visiting, w, n + 1)
    BY <2>4, <2>5, <2>7 DEF Reenters, Walk
  <2> QED
    BY <2>6, <2>8 DEF Meets
<1> QED
  BY <1>1, <1>2, <1>3

\* The equation that the recursive function of MeetsCycle solves.
Visit(d, meets) ==
  \A visiting \in SUBSET IdsOf(d), id \in IdsOf(d) :
    id \in meets[visiting] <=>
      id \in visiting \/ \E input \in Inputs(d, id) : input \in meets[visiting \cup {id}]

LEMMA MeetsCycleVisits ==
  ASSUME NEW d, InputsPresent(d)
  PROVE  \E meets \in [SUBSET IdsOf(d) -> SUBSET IdsOf(d)] :
           Visit(d, meets) /\ (MeetsCycle(d) <=> meets[{}] # {})
<1> DEFINE Solves(m) ==
             m = [visiting \in SUBSET IdsOf(d) |->
                    {id \in IdsOf(d) :
                       \/ id \in visiting
                       \/ \E input \in Inputs(d, id) : input \in m[visiting \cup {id}]}]
           closed == [visiting \in SUBSET IdsOf(d) |-> {id \in IdsOf(d) : Meets(d, visiting, id)}]
           meets  == CHOOSE m : Solves(m)
<1>1. Solves(closed)
  <2>1. ASSUME NEW visiting \in SUBSET IdsOf(d)
        PROVE  {id \in IdsOf(d) : Meets(d, visiting, id)} =
                 {id \in IdsOf(d) :
                    \/ id \in visiting
                    \/ \E input \in Inputs(d, id) : input \in closed[visiting \cup {id}]}
    <3>1. ASSUME NEW id \in IdsOf(d)
          PROVE  Meets(d, visiting, id) <=>
                   \/ id \in visiting
                   \/ \E input \in Inputs(d, id) : input \in closed[visiting \cup {id}]
      <4>1. visiting \cup {id} \in SUBSET IdsOf(d) /\ Inputs(d, id) \subseteq IdsOf(d)
        BY DEF InputsPresent
      <4>2. closed[visiting \cup {id}] = {node \in IdsOf(d) : Meets(d, visiting \cup {id}, node)}
        BY <4>1
      <4> HIDE DEF closed
      <4>3. (\E input \in Inputs(d, id) : Meets(d, visiting \cup {id}, input)) <=>
              (\E input \in Inputs(d, id) : input \in closed[visiting \cup {id}])
        BY <4>1, <4>2
      <4> QED
        BY <4>3, MeetsStep
    <3> HIDE DEF closed
    <3> QED
      BY <3>1
  <2> QED
    BY <2>1
<1>2. Solves(meets)
  <2> HIDE DEF Solves, closed
  <2> QED
    BY <1>1
<1>3. MeetsCycle(d) <=> meets[{}] # {}
  BY DEF MeetsCycle
<1> HIDE DEF meets
<1>4. /\ meets \in [SUBSET IdsOf(d) -> SUBSET IdsOf(d)]
      /\ \A visiting \in SUBSET IdsOf(d) :
           meets[visiting] =
             {id \in IdsOf(d) :
                \/ id \in visiting
                \/ \E input \in Inputs(d, id) : input \in meets[visiting \cup {id}]}
  BY <1>2
<1> HIDE DEF Solves
<1>5. Visit(d, meets)
  BY <1>4 DEF Visit
<1> QED
  BY <1>3, <1>4, <1>5

\* What the depth-first visit passes has no cycle: on one, it would come back
\* to the node it began with.
LEMMA VisitedIsAcyclic ==
  ASSUME NEW d, InputsPresent(d), ~ MeetsCycle(d)
  PROVE  Acyclic(d)
<1>1. PICK meets \in [SUBSET IdsOf(d) -> SUBSET IdsOf(d)] : Visit(d, meets) /\ meets[{}] = {}
  BY MeetsCycleVisits
<1>2. SUFFICES ASSUME NEW n \in Nat \ {0}, NEW w, Walk(d, w, n), w[0] = w[n]
               PROVE  FALSE
  BY DEF Acyclic
<1>3. w \in [0..n -> IdsOf(d)] /\ \A i \in 1..n : w[i] \in Inputs(d, w[i - 1])
  BY <1>2 DEF Walk
<1> DEFINE Open(m) == {w[j] : j \in 0..(m - 1)}
           S == {i \in Nat : i <= n => w[n - i] \in meets[Open(n - i)]}
<1>4. \A m \in 0..n : Open(m) \in SUBSET IdsOf(d)
  BY <1>3
<1>5. 0 \in S
  <2>1. n - 0 = n /\ n \in 0..n /\ 0 \in 0..(n - 1)
    OBVIOUS
  <2>2. w[n] \in Open(n) /\ w[n] \in IdsOf(d)
    BY <1>2, <1>3, <2>1
  <2>3. w[n] \in meets[Open(n)]
    <3> HIDE DEF Open
    <3> QED
      BY <1>1, <1>4, <2>1, <2>2 DEF Visit
  <2> QED
    BY <2>1, <2>3
<1>6. \A i \in Nat : i \in S => i + 1 \in S
  <2> SUFFICES ASSUME NEW i \in Nat, i \in S, i + 1 <= n
               PROVE  w[n - (i + 1)] \in meets[Open(n - (i + 1))]
    <3> HIDE DEF Open
    <3> QED
      OBVIOUS
  <2> DEFINE m == n - (i + 1)
  <2>1. m \in 0..(n - 1) /\ m \in 0..n /\ n - i = m + 1 /\ m + 1 \in 1..n /\ (m + 1) - 1 = m
    OBVIOUS
  <2>2. w[m + 1] \in meets[Open(m + 1)]
    BY <2>1
  <2> HIDE DEF m
  <2>3. Open(m + 1) = Open(m) \cup {w[m]}
    <3>1. 0..((m + 1) - 1) = 0..(m - 1) \cup {m}
      BY <2>1
    <3> QED
      BY <3>1
  <2>4. w[m] \in IdsOf(d) /\ w[m + 1] \in Inputs(d, w[m])
    BY <1>3, <2>1
  <2>5. w[m] \in meets[Open(m)]
    <3> HIDE DEF Open
    <3> QED
      BY <1>1, <1>4, <2>1, <2>2, <2>3, <2>4 DEF Visit
  <2> QED
    BY <2>5 DEF m
<1> HIDE DEF S
<1>7. n \in S
  BY <1>5, <1>6, SetInduction
<1>8. w[0] \in meets[Open(0)]
  <2>1. n - n = 0
    OBVIOUS
  <2> HIDE DEF Open
  <2> QED
    BY <1>7, <2>1 DEF S
<1>9. Open(0) = {}
  OBVIOUS
<1> HIDE DEF Open
<1> QED
  BY <1>1, <1>8, <1>9

\* What is peeled off entirely has no cycle: of the nodes on one, none could be
\* the first to go.
LEMMA PeeledIsAcyclic ==
  ASSUME NEW d, IsFiniteSet(IdsOf(d)), Peeled(d) = IdsOf(d)
  PROVE  Acyclic(d)
<1> DEFINE N == Cardinality(IdsOf(d))
<1>1. N \in Nat
  BY FS_CardinalityType
<1>2. PICK f \in [0..N -> SUBSET IdsOf(d)] :
        /\ f[0] = {}
        /\ \A i \in 1..N :
             f[i] = f[i - 1] \cup {id \in IdsOf(d) : Inputs(d, id) \subseteq f[i - 1]}
        /\ Peeled(d) = f[N]
  BY <1>1, PeeledRounds
<1> HIDE DEF N
<1>3. SUFFICES ASSUME NEW n \in Nat \ {0}, NEW w, Walk(d, w, n), w[0] = w[n]
               PROVE  FALSE
  BY DEF Acyclic
<1>4. w \in [0..n -> IdsOf(d)] /\ \A i \in 1..n : w[i] \in Inputs(d, w[i - 1])
  BY <1>3 DEF Walk
<1> DEFINE gone == {i \in 0..N : \E j \in 0..n : w[j] \in f[i]}
<1>5. gone \in SUBSET Nat /\ gone # {}
  <2>1. N \in 0..N /\ 0 \in 0..n /\ w[0] \in f[N]
    BY <1>1, <1>2, <1>4
  <2> QED
    BY <2>1
<1>6. PICK i \in gone : \A k \in gone : i <= k
  BY <1>5, LeastElement
<1>7. i \in 1..N /\ i - 1 \in 0..N /\ i - 1 \notin gone
  <2>1. i # 0
    BY <1>2, <1>6
  <2> QED
    BY <1>1, <1>6, <2>1
<1>8. PICK j \in 0..n : w[j] \in f[i]
  BY <1>6
<1>9. \A k \in 0..n : w[k] \notin f[i - 1]
  BY <1>7
<1>10. Inputs(d, w[j]) \subseteq f[i - 1]
  BY <1>2, <1>7, <1>8, <1>9
<1>11. \E k \in 0..n : w[k] \in Inputs(d, w[j])
  <2>1. CASE j = n
    <3>1. 1 \in 1..n /\ 1 \in 0..n /\ 1 - 1 = 0
      OBVIOUS
    <3> QED
      BY <1>3, <1>4, <2>1, <3>1
  <2>2. CASE j # n
    <3>1. j + 1 \in 1..n /\ j + 1 \in 0..n /\ (j + 1) - 1 = j
      BY <2>2
    <3> QED
      BY <1>4, <3>1
  <2> QED
    BY <2>1, <2>2
<1> QED
  BY <1>9, <1>10, <1>11

\* Either validator accepts chains only.
LEMMA CreatedIsChain ==
  ASSUME NEW d, IsFiniteSet(IdsOf(d)), CreateAccepts(d)
  PROVE  \E c : IsChain(d, c)
BY AcyclicIsChain, VisitedIsAcyclic DEF CreateAccepts, ValidTopology

LEMMA CheckedIsChain ==
  ASSUME NEW d, IsFiniteSet(IdsOf(d)), StoreChecks(d)
  PROVE  \E c : IsChain(d, c)
<1>1. \A kind : IsFiniteSet(OfKind(d, kind))
  <2> TAKE kind
  <2>1. OfKind(d, kind) \in SUBSET IdsOf(d)
    BY DEF OfKind
  <2> QED
    BY <2>1, FS_Subset
<1>2. \A S : \A x \in S : IsFiniteSet(S) /\ Cardinality(S) = 1 => S = {x}
  BY FS_Singleton
<1>3. EndsDeclared(d)
  BY <1>1, <1>2 DEF StoreChecks, EndsDeclared
<1>4. WellShaped(d) /\ InputsPresent(d) /\ Peeled(d) = IdsOf(d) /\ Ancestors(d) = IdsOf(d)
  BY DEF StoreChecks, InputsPresent
<1> QED
  BY <1>3, <1>4, AcyclicIsChain, PeeledIsAcyclic

(***************************************************************************)
(* A chain is accepted                                                     *)
(***************************************************************************)

\* The parts of IsChain, with the length named.
Linked(d, c, N) ==
  /\ N > 1 /\ N = Cardinality(IdsOf(d)) /\ N = Len(c) /\ c \in [1..N -> IdsOf(d)]
  /\ \A id \in IdsOf(d) : \E i \in 1..N : c[i] = id
  /\ \A i, j \in 1..N : c[i] = c[j] => i = j
  /\ c[1] = d.source /\ c[N] = d.output
  /\ Inputs(d, c[1]) = {} /\ \A i \in 2..N : Inputs(d, c[i]) = {c[i - 1]}
  /\ \A i \in 1..N : /\ d.nodes[c[i]].kind = "source" <=> i = 1
                     /\ d.nodes[c[i]].kind = "output" <=> i = N

LEMMA ChainParts ==
  ASSUME NEW d, NEW c, IsChain(d, c)
  PROVE  \E N \in Nat : Linked(d, c, N)
<1> DEFINE N == Len(c)
<1>1. N \in Nat /\ c \in [1..N -> IdsOf(d)]
  <2>1. c \in Seq(IdsOf(d))
    BY DEF IsChain
  <2> QED
    BY <2>1, LenProperties
<1>2. Linked(d, c, N)
  BY <1>1 DEF IsChain, Linked
<1> QED
  BY <1>1, <1>2

\* The checks of a node and of the ends.
LEMMA ChainShape ==
  ASSUME NEW d, NEW c, IsFiniteSet(IdsOf(d)), IsChain(d, c)
  PROVE  /\ IdsOf(d) # {} /\ WellShaped(d) /\ EndsDeclared(d)
         /\ \A id \in IdsOf(d) : Inputs(d, id) \subseteq IdsOf(d) \ {id}
<1>0. PICK N \in Nat : Linked(d, c, N)
  BY ChainParts
<1>1. /\ N > 1 /\ c \in [1..N -> IdsOf(d)]
      /\ \A id \in IdsOf(d) : \E i \in 1..N : c[i] = id
      /\ \A i, j \in 1..N : c[i] = c[j] => i = j
      /\ c[1] = d.source /\ c[N] = d.output
      /\ Inputs(d, c[1]) = {} /\ \A i \in 2..N : Inputs(d, c[i]) = {c[i - 1]}
      /\ \A i \in 1..N : /\ d.nodes[c[i]].kind = "source" <=> i = 1
                         /\ d.nodes[c[i]].kind = "output" <=> i = N
  BY <1>0 DEF Linked
<1>2. 1 \in 1..N /\ N \in 1..N /\ \A i \in 1..N : i = 1 \/ (i \in 2..N /\ i - 1 \in 1..N)
  BY <1>1
<1>3. ASSUME NEW id \in IdsOf(d)
      PROVE  /\ Cardinality(Inputs(d, id)) = Arity(d.nodes[id].kind)
             /\ Inputs(d, id) \subseteq IdsOf(d) \ {id}
  <2>1. PICK i \in 1..N : c[i] = id
    BY <1>1
  <2>2. CASE i = 1
    <3>1. Inputs(d, id) = {} /\ d.nodes[id].kind = "source"
      BY <1>1, <2>1, <2>2
    <3> QED
      BY <3>1, FS_EmptySet DEF Arity
  <2>3. CASE i # 1
    <3>1. Inputs(d, id) = {c[i - 1]} /\ d.nodes[id].kind # "source"
      BY <1>1, <1>2, <2>1, <2>3
    <3>2. c[i - 1] \in IdsOf(d) /\ c[i - 1] # id
      BY <1>1, <1>2, <2>1, <2>3
    <3>3. Cardinality({c[i - 1]}) = 1
      BY FS_Singleton
    <3> QED
      BY <3>1, <3>2, <3>3 DEF Arity
  <2> QED
    BY <2>2, <2>3
<1>4. OfKind(d, "source") = {d.source} /\ OfKind(d, "output") = {d.output}
  <2>1. ASSUME NEW id \in IdsOf(d)
        PROVE  /\ d.nodes[id].kind = "source" <=> id = d.source
               /\ d.nodes[id].kind = "output" <=> id = d.output
    <3>1. PICK i \in 1..N : c[i] = id
      BY <1>1
    <3> QED
      BY <1>1, <1>2, <3>1
  <2>2. d.source \in IdsOf(d) /\ d.output \in IdsOf(d)
    BY <1>1, <1>2
  <2> QED
    BY <2>1, <2>2 DEF OfKind
<1> QED
  BY <1>1, <1>2, <1>3, <1>4 DEF WellShaped, EndsDeclared

\* The depth-first visit goes down the chain and meets no open node.
LEMMA ChainVisited ==
  ASSUME NEW d, NEW c, IsFiniteSet(IdsOf(d)), IsChain(d, c)
  PROVE  ~ MeetsCycle(d)
<1>0. PICK N \in Nat : Linked(d, c, N)
  BY ChainParts
<1>1. /\ N > 1 /\ c \in [1..N -> IdsOf(d)]
      /\ \A id \in IdsOf(d) : \E i \in 1..N : c[i] = id
      /\ \A i, j \in 1..N : c[i] = c[j] => i = j
      /\ Inputs(d, c[1]) = {} /\ \A i \in 2..N : Inputs(d, c[i]) = {c[i - 1]}
  BY <1>0 DEF Linked
<1>2. InputsPresent(d)
  BY ChainShape DEF InputsPresent
<1>3. PICK meets \in [SUBSET IdsOf(d) -> SUBSET IdsOf(d)] :
        Visit(d, meets) /\ (MeetsCycle(d) <=> meets[{}] # {})
  BY <1>2, MeetsCycleVisits
<1> DEFINE Open(i, k) == {c[j] : j \in (i + 1)..k}
           S == {i \in Nat : \A k \in 1..N : 1 <= i /\ i <= k => c[i] \notin meets[Open(i, k)]}
<1>4. 0 \in S
  OBVIOUS
<1>5. \A i \in Nat : i \in S => i + 1 \in S
  <2> SUFFICES ASSUME NEW i \in Nat, i \in S, NEW k \in 1..N, i + 1 <= k
               PROVE  c[i + 1] \notin meets[Open(i + 1, k)]
    <3> HIDE DEF Open
    <3> QED
      OBVIOUS
  <2> HIDE DEF Open
  <2>1. i + 1 \in 1..N /\ c[i + 1] \in IdsOf(d)
    BY <1>1
  <2>2. Open(i + 1, k) \in SUBSET IdsOf(d) /\ c[i + 1] \notin Open(i + 1, k)
    <3>1. \A j \in ((i + 1) + 1)..k : j \in 1..N /\ j # i + 1
      OBVIOUS
    <3> QED
      BY <1>1, <2>1, <3>1 DEF Open
  <2>3. \A input \in Inputs(d, c[i + 1]) :
          input \notin meets[Open(i + 1, k) \cup {c[i + 1]}]
    <3>1. CASE i = 0
      BY <1>1, <3>1
    <3>2. CASE i # 0
      <4>1. Inputs(d, c[i + 1]) = {c[i]}
        <5>1. i + 1 \in 2..N /\ (i + 1) - 1 = i
          BY <3>2
        <5> QED
          BY <1>1, <5>1
      <4>2. Open(i + 1, k) \cup {c[i + 1]} = Open(i, k)
        <5>1. (i + 1)..k = (((i + 1) + 1)..k) \cup {i + 1}
          OBVIOUS
        <5> QED
          BY <5>1 DEF Open
      <4>3. c[i] \notin meets[Open(i, k)]
        BY <3>2
      <4> QED
        BY <4>1, <4>2, <4>3
    <3> QED
      BY <3>1, <3>2
  <2> QED
    BY <1>3, <2>1, <2>2, <2>3 DEF Visit
<1> HIDE DEF S
<1>6. \A i \in Nat : i \in S
  BY <1>4, <1>5, SetInduction
<1>7. ASSUME NEW id \in IdsOf(d)
      PROVE  id \notin meets[{}]
  <2>1. PICK i \in 1..N : c[i] = id
    BY <1>1
  <2>2. c[i] \notin meets[Open(i, i)]
    <3> HIDE DEF Open
    <3> QED
      BY <1>6 DEF S
  <2>3. Open(i, i) = {}
    OBVIOUS
  <2> HIDE DEF Open
  <2> QED
    BY <2>1, <2>2, <2>3
<1>8. meets[{}] \in SUBSET IdsOf(d)
  BY <1>3
<1> QED
  BY <1>3, <1>7, <1>8

\* All of a chain are ancestors of its output, and all of it can be peeled off.
LEMMA ChainAncestors ==
  ASSUME NEW d, NEW c, IsFiniteSet(IdsOf(d)), IsChain(d, c)
  PROVE  Ancestors(d) = IdsOf(d)
<1> DEFINE M == Cardinality(IdsOf(d))
<1>0. PICK N \in Nat : Linked(d, c, N)
  BY ChainParts
<1>1. /\ N > 1 /\ N = M /\ c \in [1..N -> IdsOf(d)]
      /\ \A id \in IdsOf(d) : \E i \in 1..N : c[i] = id
      /\ c[N] = d.output
      /\ \A i \in 2..N : Inputs(d, c[i]) = {c[i - 1]}
  BY <1>0 DEF Linked
<1>2. M \in Nat /\ InputsPresent(d) /\ d.output \in IdsOf(d)
  <2>1. N \in 1..N
    BY <1>1
  <2> QED
    BY <1>1, <2>1, ChainShape DEF InputsPresent
<1>3. PICK f \in [0..M -> SUBSET IdsOf(d)] :
        /\ f[0] = {d.output}
        /\ \A i \in 1..M : f[i] = f[i - 1] \cup UNION {Inputs(d, id) : id \in f[i - 1]}
        /\ Ancestors(d) = f[M]
  BY <1>2, AncestorsRounds
<1> HIDE DEF M
<1> DEFINE S == {n \in Nat : n < N => \A i \in 0..n : c[N - i] \in f[n]}
<1>4. 0 \in S
  BY <1>1, <1>3
<1>5. \A n \in Nat : n \in S => n + 1 \in S
  <2> SUFFICES ASSUME NEW n \in Nat, n \in S, n + 1 < N, NEW i \in 0..(n + 1)
               PROVE  c[N - i] \in f[n + 1]
    OBVIOUS
  <2>1. n + 1 \in 1..M /\ (n + 1) - 1 = n /\ n \in 0..M
    BY <1>1
  <2>2. f[n + 1] = f[n] \cup UNION {Inputs(d, id) : id \in f[n]}
    BY <1>3, <2>1
  <2>3. \A j \in 0..n : c[N - j] \in f[n]
    OBVIOUS
  <2>4. CASE i \in 0..n
    BY <2>2, <2>3, <2>4
  <2>5. CASE i = n + 1
    <3>1. N - n \in 2..N /\ (N - n) - 1 = N - i /\ n \in 0..n
      BY <1>1, <2>5
    <3>2. c[N - n] \in f[n] /\ c[N - i] \in Inputs(d, c[N - n])
      BY <1>1, <2>3, <3>1
    <3> QED
      BY <2>2, <3>2
  <2> QED
    BY <2>4, <2>5
<1> HIDE DEF S
<1>6. \A n \in Nat : n \in S
  BY <1>4, <1>5, SetInduction
<1>7. \A i \in 0..(N - 1) : c[N - i] \in f[N - 1]
  <2>1. N - 1 \in Nat /\ N - 1 < N
    BY <1>1
  <2> QED
    BY <1>6, <2>1 DEF S
<1>8. f[N - 1] \subseteq f[M]
  BY <1>1, <1>3
<1>9. IdsOf(d) \subseteq f[M]
  <2> SUFFICES ASSUME NEW id \in IdsOf(d) PROVE id \in f[M]
    OBVIOUS
  <2>1. PICK i \in 1..N : c[i] = id
    BY <1>1
  <2>2. N - i \in 0..(N - 1) /\ N - (N - i) = i
    OBVIOUS
  <2> QED
    BY <1>7, <1>8, <2>1, <2>2
<1>10. f[M] \in SUBSET IdsOf(d)
  BY <1>2, <1>3
<1>11. f[M] = IdsOf(d)
  BY ONLY <1>9, <1>10
<1> QED
  BY ONLY <1>3, <1>11

LEMMA ChainPeeled ==
  ASSUME NEW d, NEW c, IsFiniteSet(IdsOf(d)), IsChain(d, c)
  PROVE  Peeled(d) = IdsOf(d)
<1> DEFINE M == Cardinality(IdsOf(d))
<1>0. PICK N \in Nat : Linked(d, c, N)
  BY ChainParts
<1>1. /\ N > 1 /\ N = M /\ c \in [1..N -> IdsOf(d)]
      /\ \A id \in IdsOf(d) : \E i \in 1..N : c[i] = id
      /\ Inputs(d, c[1]) = {} /\ \A i \in 2..N : Inputs(d, c[i]) = {c[i - 1]}
  BY <1>0 DEF Linked
<1>2. M \in Nat
  BY <1>1
<1>3. PICK f \in [0..M -> SUBSET IdsOf(d)] :
        /\ f[0] = {}
        /\ \A i \in 1..M :
             f[i] = f[i - 1] \cup {id \in IdsOf(d) : Inputs(d, id) \subseteq f[i - 1]}
        /\ Peeled(d) = f[M]
  BY <1>2, PeeledRounds
<1> HIDE DEF M
<1> DEFINE S == {n \in Nat : n <= N => \A i \in 1..n : c[i] \in f[n]}
<1>4. 0 \in S
  OBVIOUS
<1>5. \A n \in Nat : n \in S => n + 1 \in S
  <2> SUFFICES ASSUME NEW n \in Nat, n \in S, n + 1 <= N, NEW i \in 1..(n + 1)
               PROVE  c[i] \in f[n + 1]
    OBVIOUS
  <2>1. n + 1 \in 1..M /\ (n + 1) - 1 = n /\ n \in 0..M
    BY <1>1
  <2>2. f[n + 1] = f[n] \cup {id \in IdsOf(d) : Inputs(d, id) \subseteq f[n]}
    BY <1>3, <2>1
  <2>3. \A j \in 1..n : c[j] \in f[n]
    OBVIOUS
  <2>4. c[i] \in IdsOf(d)
    BY <1>1
  <2>5. CASE i = 1
    BY <1>1, <2>2, <2>4, <2>5
  <2>6. CASE i # 1
    <3>1. i \in 2..N /\ i - 1 \in 1..n
      BY <2>6
    <3>2. Inputs(d, c[i]) = {c[i - 1]} /\ c[i - 1] \in f[n]
      BY <1>1, <2>3, <3>1
    <3>3. Inputs(d, c[i]) \subseteq f[n]
      BY <3>2
    <3> QED
      BY <2>2, <2>4, <3>3
  <2> QED
    BY <2>5, <2>6
<1> HIDE DEF S
<1>6. N \in S
  BY <1>4, <1>5, SetInduction
<1>7. \A i \in 1..N : c[i] \in f[M]
  BY <1>1, <1>6 DEF S
<1>8. f[M] \in SUBSET IdsOf(d)
  BY <1>2, <1>3
<1>9. IdsOf(d) \subseteq f[M]
  BY <1>1, <1>7
<1>10. f[M] = IdsOf(d)
  BY ONLY <1>8, <1>9
<1> QED
  BY ONLY <1>3, <1>10

\* Both validators accept a chain of an allowed length.
LEMMA ChainAccepted ==
  ASSUME NEW d, NEW c, IsFiniteSet(IdsOf(d)), IsChain(d, c), Cardinality(IdsOf(d)) <= MaxNodes
  PROVE  CreateAccepts(d) /\ StoreChecks(d)
<1>1. /\ IdsOf(d) # {} /\ WellShaped(d) /\ EndsDeclared(d)
      /\ \A id \in IdsOf(d) : Inputs(d, id) \subseteq IdsOf(d) \ {id}
  BY ChainShape
<1>2. CreateAccepts(d)
  BY <1>1, ChainVisited, ChainAncestors DEF CreateAccepts, ValidTopology, InputsPresent
<1>3. /\ Cardinality(OfKind(d, "source")) = 1 /\ Cardinality(OfKind(d, "output")) = 1
      /\ d.source \in OfKind(d, "source") /\ d.output \in OfKind(d, "output")
  BY <1>1, FS_Singleton DEF EndsDeclared
<1> QED
  BY <1>1, <1>2, <1>3, ChainPeeled, ChainAncestors DEF StoreChecks

(***************************************************************************)
(* A chain is compiled and ordered as it stands                            *)
(***************************************************************************)

LEMMA ChainIsSeq ==
  ASSUME NEW d, NEW c, NEW N \in Nat, Linked(d, c, N)
  PROVE  c \in Seq(IdsOf(d)) /\ Len(c) = N
<1>1. c \in [1..N -> IdsOf(d)] /\ Len(c) = N
  BY DEF Linked
<1> QED
  BY <1>1, SeqDef

\* nodes_in_topological_order gives the chain.
LEMMA ChainOrdered ==
  ASSUME NEW d, NEW c, IsChain(d, c)
  PROVE  OrderTo(d, d.output) = c
<1>0. PICK N \in Nat : Linked(d, c, N)
  BY ChainParts
<1>1. /\ N > 1 /\ c \in [1..N -> IdsOf(d)] /\ c[N] = d.output
      /\ \A id \in IdsOf(d) : \E i \in 1..N : c[i] = id
      /\ \A i, j \in 1..N : c[i] = c[j] => i = j
      /\ Inputs(d, c[1]) = {} /\ \A i \in 2..N : Inputs(d, c[i]) = {c[i - 1]}
  BY <1>0 DEF Linked
<1>2. c \in Seq(IdsOf(d)) /\ Len(c) = N
  BY <1>0, ChainIsSeq
<1> DEFINE Part(i) == SubSeq(c, 1, i)
           at(id)  == CHOOSE i \in 1..N : c[i] = id
           Solves(o) ==
             o = [id \in IdsOf(d) |->
                    IF Inputs(d, id) = {} THEN <<id>>
                    ELSE Append(o[CHOOSE input \in Inputs(d, id) : TRUE], id)]
           closed == [id \in IdsOf(d) |-> Part(at(id))]
           order  == CHOOSE o : Solves(o)
<1>3. Part(1) = <<c[1]>> /\ \A i \in 2..N : Part(i) = Append(Part(i - 1), c[i])
  <2>1. ASSUME NEW i \in 1..N
        PROVE  /\ c[i] \in IdsOf(d)
               /\ SubSeq(c, 1, i - 1) \in Seq(IdsOf(d))
               /\ Part(i) = Append(SubSeq(c, 1, i - 1), c[i])
    <3>1. 1 \in 1..Len(c) /\ i \in 1..Len(c) /\ i \in Int /\ i - 1 \in Int
      BY <1>1, <1>2
    <3>2. c[i] \in IdsOf(d) /\ \A j \in 1..(i - 1) : c[j] \in IdsOf(d)
      BY <1>1
    <3>3. SubSeq(c, 1, i - 1) \in Seq(IdsOf(d))
      BY <3>1, <3>2, SubSeqProperties
    <3>4. SubSeq(c, 1, i) = SubSeq(c, 1, i - 1) \o <<c[i]>>
      BY <1>2, <3>1, SubSeqRecursiveSecond
    <3>5. Append(SubSeq(c, 1, i - 1), c[i]) = SubSeq(c, 1, i - 1) \o <<c[i]>>
      BY <3>2, <3>3, AppendIsConcat
    <3> QED
      BY <3>2, <3>3, <3>4, <3>5
  <2>2. SubSeq(c, 1, 0) = <<>> /\ Append(<<>>, c[1]) = <<c[1]>>
    BY SubSeqEmpty
  <2>3. 1 \in 1..N /\ 1 - 1 = 0 /\ \A i \in 2..N : i \in 1..N
    BY <1>1
  <2>4. Part(1) = <<c[1]>>
    <3>1. Part(1) = Append(SubSeq(c, 1, 0), c[1])
      BY <2>1, <2>3, Zenon
    <3> QED
      BY <2>2, <3>1, Zenon
  <2>5. \A i \in 2..N : Part(i) = Append(Part(i - 1), c[i])
    BY <2>1, <2>3, Zenon
  <2> QED
    BY <2>4, <2>5, Zenon
<1> HIDE DEF Part
<1>4. \A i \in 1..N : at(c[i]) = i
  BY <1>1
<1> HIDE DEF at
<1>5. \A i \in 1..N : closed[c[i]] = Part(i)
  BY <1>1, <1>4
<1>6. Solves(closed)
  <2>1. ASSUME NEW id \in IdsOf(d)
        PROVE  closed[id] = IF Inputs(d, id) = {} THEN <<id>>
                            ELSE Append(closed[CHOOSE input \in Inputs(d, id) : TRUE], id)
    <3>1. PICK i \in 1..N : c[i] = id
      BY <1>1
    <3> HIDE DEF closed
    <3>2. CASE i = 1
      BY <1>1, <1>3, <1>5, <3>1, <3>2
    <3>3. CASE i # 1
      <4>1. i \in 2..N /\ i - 1 \in 1..N
        BY <3>3
      <4>2. Inputs(d, id) = {c[i - 1]}
        BY <1>1, <3>1, <4>1
      <4>3. (CHOOSE input \in Inputs(d, id) : TRUE) = c[i - 1]
        BY <4>2
      <4>4. Inputs(d, id) # {}
        BY <4>2
      <4>5. closed[id] = Append(closed[c[i - 1]], id)
        BY <1>3, <1>5, <3>1, <4>1
      <4> QED
        BY <4>3, <4>4, <4>5
    <3> QED
      BY <3>2, <3>3
  <2> QED
    BY <2>1
<1>7. Solves(order)
  <2> HIDE DEF Solves, closed
  <2> QED
    BY <1>6
<1>8. OrderTo(d, d.output) = order[d.output]
  BY DEF OrderTo
<1> HIDE DEF order, closed
<1>9. \A id \in IdsOf(d) :
        order[id] = IF Inputs(d, id) = {} THEN <<id>>
                    ELSE Append(order[CHOOSE input \in Inputs(d, id) : TRUE], id)
  BY <1>7
<1> HIDE DEF Solves
<1> DEFINE S == {i \in Nat : 1 <= i /\ i <= N => order[c[i]] = Part(i)}
<1>10. 0 \in S
  OBVIOUS
<1>11. \A i \in Nat : i \in S => i + 1 \in S
  <2> SUFFICES ASSUME NEW i \in Nat, i \in S, i + 1 <= N
               PROVE  order[c[i + 1]] = Part(i + 1)
    OBVIOUS
  <2>1. i + 1 \in 1..N /\ c[i + 1] \in IdsOf(d)
    BY <1>1
  <2>2. CASE i = 0
    <3>1. i + 1 = 1 /\ c[1] \in IdsOf(d)
      BY <2>1, <2>2
    <3>2. order[c[1]] = <<c[1]>>
      BY <1>1, <1>9, <3>1
    <3> QED
      BY <1>3, <3>1, <3>2
  <2>3. CASE i # 0
    <3>1. i + 1 \in 2..N /\ (i + 1) - 1 = i /\ order[c[i]] = Part(i)
      BY <2>3
    <3>2. Inputs(d, c[i + 1]) = {c[i]}
      BY <1>1, <3>1
    <3>3. (CHOOSE input \in Inputs(d, c[i + 1]) : TRUE) = c[i] /\ Inputs(d, c[i + 1]) # {}
      BY <3>2
    <3>4. order[c[i + 1]] = Append(order[c[i]], c[i + 1])
      BY <1>9, <2>1, <3>3
    <3> QED
      BY <1>3, <3>1, <3>4
  <2> QED
    BY <2>2, <2>3
<1> HIDE DEF S
<1>12. N \in S
  BY <1>10, <1>11, SetInduction
<1>13. order[c[N]] = Part(N)
  BY <1>1, <1>12 DEF S
<1>14. Part(N) = c
  BY <1>2, SubSeqFull DEF Part
<1> QED
  BY <1>1, <1>8, <1>13, <1>14

\* A round of the renderer's loop keeps to the ids.
LEMMA LengthenedType ==
  ASSUME NEW d, NEW chain \in Seq(IdsOf(d))
  PROVE  Lengthened(d, chain) \in Seq(IdsOf(d))
<1>1. CASE Lengthened(d, chain) = Refuse \/ Lengthened(d, chain) = chain
  BY <1>1, EmptySeq DEF Refuse
<1>2. CASE Lengthened(d, chain) # Refuse /\ Lengthened(d, chain) # chain
  <2> DEFINE input == CHOOSE i \in Inputs(d, chain[1]) : TRUE
  <2>1. /\ Cardinality(Inputs(d, chain[1])) = 1
        /\ Inputs(d, chain[1]) \subseteq IdsOf(d)
        /\ Lengthened(d, chain) = <<input>> \o chain
    BY <1>2 DEF Lengthened
  <2>2. Inputs(d, chain[1]) # {}
    <3> SUFFICES ASSUME Inputs(d, chain[1]) = {} PROVE FALSE
      OBVIOUS
    <3>1. Cardinality({}) = 1
      BY <2>1
    <3> QED
      BY ONLY <3>1, FS_EmptySet
  <2>3. input \in IdsOf(d)
    BY <2>1, <2>2
  <2> HIDE DEF input
  <2>4. <<input>> \in Seq(IdsOf(d))
    BY <2>3
  <2> QED
    BY <2>1, <2>4, ConcatProperties
<1> QED
  BY <1>1, <1>2

\* In the middle of a chain a round goes one node further back.
LEMMA LengthenedChain ==
  ASSUME NEW d, NEW c, NEW N \in Nat, Linked(d, c, N), NEW m \in 2..N
  PROVE  Lengthened(d, SubSeq(c, m, N)) = SubSeq(c, m - 1, N)
<1>1. /\ c \in [1..N -> IdsOf(d)]
      /\ \A i, j \in 1..N : c[i] = c[j] => i = j
      /\ \A i \in 2..N : Inputs(d, c[i]) = {c[i - 1]}
      /\ \A i \in 1..N : d.nodes[c[i]].kind = "source" <=> i = 1
  BY DEF Linked
<1>2. c \in Seq(IdsOf(d)) /\ Len(c) = N
  BY ChainIsSeq
<1> DEFINE part == SubSeq(c, m, N)
<1>3. /\ Len(part) = N - m + 1
      /\ \A i \in 1..(N - m + 1) : part[i] = c[m + i - 1]
  <2>1. m \in Int /\ N \in Int /\ m <= N /\ \A i \in m..N : c[i] \in IdsOf(d)
    BY <1>1
  <2> QED
    BY <2>1, SubSeqProperties
<1>4. part # Refuse
  <2>1. Len(part) # 0
    BY <1>3
  <2> HIDE DEF part
  <2> QED
    BY <2>1, EmptySeq DEF Refuse
<1>5. SubSeq(c, m - 1, N) = <<c[m - 1]>> \o part
  <2>1. m - 1 \in 1..Len(c) /\ N \in (m - 1)..Len(c) /\ (m - 1) + 1 = m
    BY <1>2
  <2> QED
    BY <1>2, <2>1, SubSeqRecursiveFirst
<1> HIDE DEF part
<1>6. part[1] = c[m]
  BY <1>3
<1>7. d.nodes[c[m]].kind # "source" /\ Inputs(d, c[m]) = {c[m - 1]} /\ c[m - 1] \in IdsOf(d)
  BY <1>1
<1>8. \A i \in 2..Len(part) : part[i] # part[1]
  <2> TAKE i \in 2..Len(part)
  <2>1. i \in 1..(N - m + 1) /\ m + i - 1 \in 1..N /\ m + i - 1 # m /\ m \in 1..N
    BY <1>3
  <2> QED
    BY <1>1, <1>3, <1>6, <2>1
<1>9. Cardinality(Inputs(d, c[m])) = 1 /\ (CHOOSE input \in Inputs(d, c[m]) : TRUE) = c[m - 1]
  BY <1>7, FS_Singleton
<1>10. Lengthened(d, part) = <<c[m - 1]>> \o part
  BY <1>4, <1>6, <1>7, <1>8, <1>9 DEF Lengthened
<1> QED
  BY <1>5, <1>10 DEF part

\* compile_linear_chain gives the chain.
LEMMA ChainCompiled ==
  ASSUME NEW d, NEW c, IsChain(d, c)
  PROVE  Compiled(d) = c
<1>0. PICK N \in Nat : Linked(d, c, N)
  BY ChainParts
<1>1. /\ N > 1 /\ N = Cardinality(IdsOf(d)) /\ c \in [1..N -> IdsOf(d)]
      /\ c[1] = d.source /\ c[N] = d.output /\ Inputs(d, c[1]) = {}
      /\ \A i \in 1..N : /\ d.nodes[c[i]].kind = "source" <=> i = 1
                         /\ d.nodes[c[i]].kind = "output" <=> i = N
  BY <1>0 DEF Linked
<1>2. c \in Seq(IdsOf(d)) /\ Len(c) = N /\ c # Refuse
  <2>1. c \in Seq(IdsOf(d)) /\ Len(c) = N
    BY <1>0, ChainIsSeq
  <2> QED
    BY <1>1, <2>1, EmptySeq DEF Refuse
<1> DEFINE U    == Seq(IdsOf(d))
           step == [part \in U |-> Lengthened(d, part)]
<1>3. step \in [U -> U]
  BY LengthenedType
<1>4. <<d.output>> \in U
  BY <1>1
<1>5. PICK f \in [0..N -> U] :
        Rounds(step, <<d.output>>, N, f) /\ Iterated(step, <<d.output>>, N) = f[N]
  <2> HIDE DEF step, U
  <2> QED
    BY <1>3, <1>4, IteratedRounds
<1>6. \A n \in 1..N : f[n] = Lengthened(d, f[n - 1])
  <2> TAKE n \in 1..N
  <2>1. n - 1 \in 0..N
    OBVIOUS
  <2>2. f[n - 1] \in U
    BY <1>5, <2>1
  <2>3. f[n] = step[f[n - 1]]
    <3> HIDE DEF step, U
    <3> QED
      BY <1>5 DEF Rounds
  <2> QED
    BY <2>2, <2>3
<1>7. f[0] = <<d.output>>
  BY <1>5 DEF Rounds
<1>8. \A g : g = Iterated(step, <<d.output>>, N) =>
        Compiled(d) = IF /\ g # Refuse
                         /\ d.nodes[d.output].kind = "output"
                         /\ g[1] = d.source /\ Inputs(d, d.source) = {}
                         /\ Len(g) = N
                      THEN g ELSE Refuse
  BY <1>1 DEF Compiled
<1> HIDE DEF step
<1> DEFINE Back(n) == SubSeq(c, N - n, N)
           S       == {n \in Nat : n < N => f[n] = Back(n)}
<1>9. 0 \in S
  <2>1. N \in 1..Len(c) /\ N \in N..Len(c)
    BY <1>1, <1>2
  <2>2. SubSeq(c, N, N) = <<c[N]>> \o SubSeq(c, N + 1, N)
    BY <1>2, <2>1, SubSeqRecursiveFirst
  <2>3. SubSeq(c, N + 1, N) = <<>>
    BY SubSeqEmpty
  <2>4. <<c[N]>> \o <<>> = <<c[N]>>
    BY <1>1, <1>4, ConcatEmptySeq
  <2>5. f[0] = SubSeq(c, N - 0, N)
    <3>1. N - 0 = N
      BY <1>1
    <3> QED
      BY <1>1, <1>7, <2>2, <2>3, <2>4, <3>1, Zenon
  <2> QED
    BY <2>5
<1>10. \A n \in Nat : n \in S => n + 1 \in S
  <2> SUFFICES ASSUME NEW n \in Nat, n \in S, n + 1 < N
               PROVE  f[n + 1] = SubSeq(c, N - (n + 1), N)
    <3> HIDE DEF Back
    <3>1. \A n \in Nat : n \in S /\ n + 1 < N => f[n + 1] = Back(n + 1)
      BY DEF Back
    <3> QED
      BY <3>1
  <2>1. n + 1 \in 1..N /\ (n + 1) - 1 = n /\ N - n \in 2..N /\ (N - n) - 1 = N - (n + 1)
    OBVIOUS
  <2>2. f[n] = SubSeq(c, N - n, N)
    BY <2>1
  <2>3. Lengthened(d, SubSeq(c, N - n, N)) = SubSeq(c, (N - n) - 1, N)
    BY <1>0, <2>1, LengthenedChain
  <2>4. f[n + 1] = Lengthened(d, f[n])
    BY <1>6, <2>1
  <2> QED
    BY <2>1, <2>2, <2>3, <2>4
<1> HIDE DEF S
<1>11. \A n \in Nat : n \in S
  BY <1>9, <1>10, SetInduction
<1>12. f[N - 1] = c
  <2>1. N - 1 \in Nat /\ N - 1 < N /\ N - (N - 1) = 1
    BY <1>1
  <2>2. f[N - 1] = SubSeq(c, 1, N)
    BY <1>11, <2>1 DEF S
  <2> QED
    BY <1>2, <2>2, SubSeqFull
<1>13. f[N] = c
  <2>1. N \in 1..N /\ 1 \in 1..N
    BY <1>1
  <2>2. Lengthened(d, c) = c
    BY <1>1, <1>2, <2>1 DEF Lengthened
  <2> QED
    BY <1>6, <1>12, <2>1, <2>2
<1>14. d.nodes[d.output].kind = "output"
  <2>1. N \in 1..N
    BY <1>1
  <2> QED
    BY <1>1, <2>1
<1> QED
  BY <1>1, <1>2, <1>5, <1>8, <1>13, <1>14

(***************************************************************************)
(* An exposure makes the chain one node longer                             *)
(***************************************************************************)

\* A definition over finitely many numbers.
Typed(d) ==
  /\ d = Definition(d.nodes, d.source, d.output)
  /\ IsFiniteSet(IdsOf(d)) /\ IdsOf(d) \subseteq Nat
  /\ d.nodes \in [IdsOf(d) -> [kind : Kinds, inputs : SUBSET Nat]]

\* Among as many candidates as there are nodes, and one more, one is free.
LEMMA FreeIdIsFree ==
  ASSUME NEW d, IsFiniteSet(IdsOf(d)), NEW requested \in Nat
  PROVE  FreeId(d, requested) \in Nat /\ FreeId(d, requested) \notin IdsOf(d)
<1> DEFINE N == Cardinality(IdsOf(d))
           candidates == requested..(requested + N)
           free == {k \in candidates : k \notin IdsOf(d)}
<1>1. N \in Nat
  BY FS_CardinalityType
<1>2. free \in SUBSET Nat /\ free # {}
  <2>1. ~ (candidates \subseteq IdsOf(d))
    <3>1. Cardinality(candidates) = N + 1
      BY <1>1, FS_Interval
    <3> HIDE DEF candidates, N
    <3> QED
      BY <1>1, <3>1, FS_Subset DEF N
  <2>2. candidates \in SUBSET Nat
    BY <1>1
  <2> QED
    BY <2>1, <2>2
<1>3. PICK k \in free : \A j \in free : k <= j
  BY <1>2, LeastElement
<1>4. k \in requested..(requested + N) /\ k \notin IdsOf(d)
  BY <1>3
<1>5. \A j \in requested..(k - 1) : j \in IdsOf(d)
  <2> TAKE j \in requested..(k - 1)
  <2>1. j \in candidates /\ ~ (k <= j)
    BY <1>1, <1>4
  <2> QED
    BY <1>3, <2>1
<1>6. \A free_ : free_ = FreeId(d, requested) =>
        free_ \in requested..(requested + N) /\ free_ \notin IdsOf(d)
  BY <1>4, <1>5 DEF FreeId
<1> QED
  BY <1>1, <1>6

\* What WithNode makes of a definition that has its output.
LEMMA WithNodeParts ==
  ASSUME NEW d, d = Definition(d.nodes, d.source, d.output), d.output \in IdsOf(d),
         NEW id, id \notin IdsOf(d), NEW input
  PROVE  LET e == WithNode(d, id, input) IN
           /\ e = Definition(e.nodes, d.source, d.output)
           /\ e.source = d.source /\ e.output = d.output
           /\ IdsOf(e) = IdsOf(d) \cup {id}
           /\ e.nodes[id] = [kind |-> "adjust", inputs |-> {input}]
           /\ e.nodes[d.output] = [kind |-> "output", inputs |-> {id}]
           /\ \A n \in IdsOf(d) : n # d.output => e.nodes[n] = d.nodes[n]
<1> DEFINE e     == WithNode(d, id, input)
           longer == [n \in IdsOf(d) \cup {id, d.output} |->
                         IF n = id THEN [kind |-> "adjust", inputs |-> {input}]
                         ELSE IF n = d.output THEN [kind |-> "output", inputs |-> {id}]
                         ELSE d.nodes[n]]
<1>1. e = [d EXCEPT !.nodes = longer]
  BY DEF WithNode
<1>2. IdsOf(d) \cup {id, d.output} = IdsOf(d) \cup {id} /\ id # d.output
  OBVIOUS
<1>3. /\ DOMAIN longer = IdsOf(d) \cup {id}
      /\ longer[id] = [kind |-> "adjust", inputs |-> {input}]
      /\ longer[d.output] = [kind |-> "output", inputs |-> {id}]
      /\ \A n \in IdsOf(d) : n # d.output => longer[n] = d.nodes[n]
  <2> HIDE DEF e
  <2> QED
    BY <1>2
<1> HIDE DEF longer, e
<1>4. e = Definition(longer, d.source, d.output)
  BY <1>1 DEF Definition
<1>5. e.nodes = longer /\ e.source = d.source /\ e.output = d.output
  BY <1>4 DEF Definition
<1>6. IdsOf(e) = DOMAIN longer
  BY <1>5 DEF IdsOf
<1>7. /\ e = Definition(e.nodes, d.source, d.output)
      /\ e.source = d.source /\ e.output = d.output
      /\ IdsOf(e) = IdsOf(d) \cup {id}
      /\ e.nodes[id] = [kind |-> "adjust", inputs |-> {input}]
      /\ e.nodes[d.output] = [kind |-> "output", inputs |-> {id}]
      /\ \A n \in IdsOf(d) : n # d.output => e.nodes[n] = d.nodes[n]
  BY <1>3, <1>4, <1>5, <1>6
<1> QED
  BY <1>7 DEF e

\* The chain with a node put before its output.
Lengthening(c, N, id) ==
  [i \in 1..(N + 1) |-> IF i < N THEN c[i] ELSE IF i = N THEN id ELSE c[N]]

LEMMA WithNodeIsChain ==
  ASSUME NEW d, Typed(d), NEW c, NEW N \in Nat, Linked(d, c, N),
         NEW id \in Nat, id \notin IdsOf(d), NEW e, e = WithNode(d, id, c[N - 1])
  PROVE  /\ Typed(e)
         /\ Cardinality(IdsOf(e)) = N + 1
         /\ IsChain(e, Lengthening(c, N, id))
<1> DEFINE b == Lengthening(c, N, id)
<1>1. /\ N > 1 /\ N = Cardinality(IdsOf(d)) /\ c \in [1..N -> IdsOf(d)]
      /\ \A n \in IdsOf(d) : \E i \in 1..N : c[i] = n
      /\ \A i, j \in 1..N : c[i] = c[j] => i = j
      /\ c[1] = d.source /\ c[N] = d.output
      /\ Inputs(d, c[1]) = {} /\ \A i \in 2..N : Inputs(d, c[i]) = {c[i - 1]}
      /\ \A i \in 1..N : /\ d.nodes[c[i]].kind = "source" <=> i = 1
                         /\ d.nodes[c[i]].kind = "output" <=> i = N
  BY DEF Linked
<1>2. 1 \in 1..N /\ N \in 1..N /\ N - 1 \in 1..N
  BY <1>1
<1>3. d.output \in IdsOf(d) /\ c[N - 1] \in IdsOf(d)
  BY <1>1, <1>2
<1>4. /\ e = Definition(e.nodes, d.source, d.output)
      /\ e.source = d.source /\ e.output = d.output
      /\ IdsOf(e) = IdsOf(d) \cup {id}
      /\ e.nodes[id] = [kind |-> "adjust", inputs |-> {c[N - 1]}]
      /\ e.nodes[d.output] = [kind |-> "output", inputs |-> {id}]
      /\ \A n \in IdsOf(d) : n # d.output => e.nodes[n] = d.nodes[n]
  BY <1>3, WithNodeParts DEF Typed
<1>5. /\ e.nodes[id].kind = "adjust" /\ Inputs(e, id) = {c[N - 1]}
      /\ e.nodes[d.output].kind = "output" /\ Inputs(e, d.output) = {id}
  BY <1>4 DEF Inputs
<1>6. \A n \in IdsOf(d) : n # d.output =>
        e.nodes[n].kind = d.nodes[n].kind /\ Inputs(e, n) = Inputs(d, n)
  BY <1>4 DEF Inputs
<1>7. IsFiniteSet(IdsOf(e)) /\ Cardinality(IdsOf(e)) = N + 1
  BY <1>1, <1>4, FS_AddElement DEF Typed
<1>8. Typed(e)
  <2>1. IdsOf(d) \subseteq Nat /\ d.nodes \in [IdsOf(d) -> [kind : Kinds, inputs : SUBSET Nat]]
    BY DEF Typed
  <2>2. \A n \in IdsOf(e) : e.nodes[n] \in [kind : Kinds, inputs : SUBSET Nat]
    <3> TAKE n \in IdsOf(e)
    <3>1. CASE n = id
      BY <1>3, <1>4, <2>1, <3>1 DEF Kinds
    <3>2. CASE n = d.output
      BY <1>3, <1>4, <2>1, <3>2 DEF Kinds
    <3>3. CASE n \in IdsOf(d) /\ n # d.output
      BY <1>4, <2>1, <3>3
    <3> QED
      BY <1>4, <3>1, <3>2, <3>3
  <2>3. e.nodes \in [IdsOf(e) -> [kind : Kinds, inputs : SUBSET Nat]]
    <3>1. e.nodes = [n \in IdsOf(e) |-> e.nodes[n]]
      <4> DEFINE longer == [n \in IdsOf(d) \cup {id, d.output} |->
                              IF n = id THEN [kind |-> "adjust", inputs |-> {c[N - 1]}]
                              ELSE IF n = d.output THEN [kind |-> "output", inputs |-> {id}]
                              ELSE d.nodes[n]]
      <4>1. longer = [n \in DOMAIN longer |-> longer[n]]
        OBVIOUS
      <4>2. e.nodes = longer
        BY DEF WithNode, Typed, Definition
      <4> HIDE DEF longer
      <4> QED
        BY <4>1, <4>2 DEF IdsOf
    <3> QED
      BY <2>2, <3>1
  <2> QED
    BY <1>4, <1>7, <2>1, <2>3 DEF Typed
<1>9. /\ \A i \in 1..(N - 1) : i \in 1..N /\ b[i] = c[i] /\ c[i] # d.output
      /\ b[N] = id /\ b[N + 1] = d.output
  <2>1. \A i \in 1..(N - 1) : i \in 1..(N + 1) /\ i \in 1..N /\ i < N /\ i # N
    OBVIOUS
  <2>2. N \in 1..(N + 1) /\ N + 1 \in 1..(N + 1) /\ ~ (N + 1 < N) /\ N + 1 # N /\ ~ (N < N)
    BY <1>1
  <2> QED
    BY <1>1, <1>2, <2>1, <2>2 DEF Lengthening
<1>10. \A i \in 1..(N + 1) : i \in 1..(N - 1) \/ i = N \/ i = N + 1
  OBVIOUS
<1> HIDE DEF b
<1>11. b \in Seq(IdsOf(e)) /\ Len(b) = N + 1
  <2>1. b = [i \in 1..(N + 1) |-> b[i]]
    BY DEF b, Lengthening
  <2>2. \A i \in 1..(N + 1) : b[i] \in IdsOf(e)
    BY <1>1, <1>3, <1>4, <1>9, <1>10
  <2>3. b \in [1..(N + 1) -> IdsOf(e)] /\ N + 1 \in Nat
    BY <2>1, <2>2
  <2> QED
    BY <2>3, SeqDef
<1>12. \A n \in IdsOf(e) : \E i \in 1..(N + 1) : b[i] = n
  <2> TAKE n \in IdsOf(e)
  <2>1. CASE n = id
    <3>1. N \in 1..(N + 1)
      BY <1>1
    <3> QED
      BY <1>9, <2>1, <3>1
  <2>2. CASE n \in IdsOf(d)
    <3>1. PICK i \in 1..N : c[i] = n
      BY <1>1, <2>2
    <3>2. CASE i = N
      <4>1. b[N + 1] = n /\ N + 1 \in 1..(N + 1)
        BY <1>1, <1>9, <3>1, <3>2
      <4> QED
        BY <4>1
    <3>3. CASE i # N
      <4>1. i \in 1..(N - 1) /\ i \in 1..(N + 1)
        BY <3>3
      <4> QED
        BY <1>9, <3>1, <4>1
    <3> QED
      BY <3>2, <3>3
  <2> QED
    BY <1>4, <2>1, <2>2
<1>13. \A i, j \in 1..(N + 1) : b[i] = b[j] => i = j
  <2> SUFFICES ASSUME NEW i \in 1..(N + 1), NEW j \in 1..(N + 1), b[i] = b[j] PROVE i = j
    OBVIOUS
  <2>1. \A k \in 1..(N - 1) : b[k] \in IdsOf(d) /\ b[k] # id /\ b[k] # d.output
    BY <1>1, <1>9
  <2>2. id # d.output
    BY <1>3
  <2>3. CASE i \in 1..(N - 1) /\ j \in 1..(N - 1)
    BY <1>1, <1>9, <2>3
  <2> QED
    BY <1>9, <1>10, <2>1, <2>2, <2>3
<1>14. \A i \in 2..(N + 1) : Inputs(e, b[i]) = {b[i - 1]}
  <2> TAKE i \in 2..(N + 1)
  <2>1. CASE i \in 1..(N - 1)
    <3>1. i \in 2..N /\ i - 1 \in 1..(N - 1) /\ c[i] \in IdsOf(d)
      BY <1>1, <1>9, <2>1
    <3>2. b[i] = c[i] /\ b[i - 1] = c[i - 1] /\ c[i] # d.output
      BY <1>9, <2>1, <3>1
    <3>3. Inputs(e, c[i]) = Inputs(d, c[i])
      BY <1>6, <3>1, <3>2
    <3>4. Inputs(d, c[i]) = {c[i - 1]}
      BY <1>1, <3>1
    <3> QED
      BY <3>2, <3>3, <3>4
  <2>2. CASE i = N
    <3>1. N - 1 \in 1..(N - 1)
      BY <1>1
    <3> QED
      BY <1>5, <1>9, <2>2, <3>1
  <2>3. CASE i = N + 1
    <3>1. i - 1 = N
      BY <2>3
    <3> QED
      BY <1>5, <1>9, <2>3, <3>1
  <2> QED
    BY <1>10, <2>1, <2>2, <2>3
<1>15. \A i \in 1..(N + 1) : /\ e.nodes[b[i]].kind = "source" <=> i = 1
                             /\ e.nodes[b[i]].kind = "output" <=> i = N + 1
  <2> TAKE i \in 1..(N + 1)
  <2>1. CASE i \in 1..(N - 1)
    <3>1. c[i] \in IdsOf(d) /\ i \in 1..N /\ i # N /\ i # N + 1
      BY <1>1, <1>9, <2>1
    <3>2. e.nodes[b[i]].kind = d.nodes[c[i]].kind
      BY <1>6, <1>9, <2>1, <3>1
    <3> QED
      BY <1>1, <3>1, <3>2
  <2>2. CASE i = N
    BY <1>1, <1>5, <1>9, <2>2
  <2>3. CASE i = N + 1
    BY <1>1, <1>5, <1>9, <2>3
  <2> QED
    BY <1>10, <2>1, <2>2, <2>3
<1>16. b[1] = d.source /\ Inputs(e, b[1]) = {} /\ b[N + 1] = d.output
  <2>1. 1 \in 1..(N - 1) /\ c[1] \in IdsOf(d)
    BY <1>1, <1>2
  <2>2. b[1] = c[1] /\ c[1] # d.output
    BY <1>9, <2>1
  <2> QED
    BY <1>1, <1>6, <1>9, <2>1, <2>2
<1>17. IsChain(e, b)
  <2>1. /\ Len(b) = Cardinality(IdsOf(e)) /\ Len(b) > 1
    BY <1>1, <1>7, <1>11
  <2>2. /\ \A n \in IdsOf(e) : \E i \in 1..Len(b) : b[i] = n
        /\ \A i, j \in 1..Len(b) : b[i] = b[j] => i = j
        /\ b[1] = e.source /\ b[Len(b)] = e.output
        /\ \A i \in 2..Len(b) : Inputs(e, b[i]) = {b[i - 1]}
        /\ \A i \in 1..Len(b) : /\ e.nodes[b[i]].kind = "source" <=> i = 1
                                /\ e.nodes[b[i]].kind = "output" <=> i = Len(b)
    <3>1. Len(b) = N + 1
      BY <1>11
    <3>2. b[1] = e.source /\ b[N + 1] = e.output
      BY <1>4, <1>16
    <3> QED
      BY ONLY <1>12, <1>13, <1>14, <1>15, <3>1, <3>2
  <2> QED
    BY <1>11, <1>16, <2>1, <2>2 DEF IsChain
<1> QED
  BY <1>7, <1>8, <1>17 DEF b

\* The exposure of an accepted graph.
LEMMA ExposedIsChain ==
  ASSUME NEW g, Typed(g), NEW c, NEW N \in Nat, Linked(g, c, N), NEW requested \in Nat
  PROVE  /\ Typed(Exposed(g, requested))
         /\ Cardinality(IdsOf(Exposed(g, requested))) = N + 1
         /\ IsChain(Exposed(g, requested), Lengthening(c, N, FreeId(g, requested)))
<1>1. FreeId(g, requested) \in Nat /\ FreeId(g, requested) \notin IdsOf(g)
  BY FreeIdIsFree DEF Typed
<1>2. Inputs(g, g.output) = {c[N - 1]}
  <2>1. N > 1 /\ c[N] = g.output /\ \A i \in 2..N : Inputs(g, c[i]) = {c[i - 1]}
    BY DEF Linked
  <2>2. N \in 2..N
    BY <2>1
  <2> QED
    BY <2>1, <2>2
<1>3. (CHOOSE i \in Inputs(g, g.output) : TRUE) = c[N - 1]
  BY <1>2
<1>4. Exposed(g, requested) = WithNode(g, FreeId(g, requested), c[N - 1])
  BY <1>3 DEF Exposed
<1> QED
  BY <1>1, <1>4, WithNodeIsChain

LEMMA AcceptedIsLinked ==
  ASSUME NEW d, IsFiniteSet(IdsOf(d)), CreateAccepts(d)
  PROVE  \E c : \E N \in Nat : IsChain(d, c) /\ Linked(d, c, N)
BY CreatedIsChain, ChainParts

\* The store refuses it at the node limit only.
LEMMA ExposedAccepted ==
  ASSUME NEW g, Typed(g), NEW c, NEW N \in Nat, Linked(g, c, N), NEW requested \in Nat
  PROVE  StoreAccepts(Exposed(g, requested)) <=> N < MaxNodes
<1> DEFINE e == Exposed(g, requested)
<1>1. /\ Typed(e) /\ Cardinality(IdsOf(e)) = N + 1
      /\ IsChain(e, Lengthening(c, N, FreeId(g, requested)))
  BY ExposedIsChain
<1> HIDE DEF e
<1>2. MaxNodes \in Nat
  BY GraphAssumption
<1>3. ASSUME StoreAccepts(e) PROVE N < MaxNodes
  <2>1. Cardinality(IdsOf(e)) <= MaxNodes
    BY <1>3 DEF StoreAccepts, CreateAccepts
  <2> QED
    BY <1>1, <1>2, <2>1
<1>4. ASSUME N < MaxNodes PROVE StoreAccepts(e)
  <2>1. Cardinality(IdsOf(e)) <= MaxNodes /\ IsFiniteSet(IdsOf(e))
    BY <1>1, <1>2, <1>4 DEF Typed
  <2> QED
    BY <1>1, <2>1, ChainAccepted DEF StoreAccepts
<1> QED
  BY <1>3, <1>4 DEF e

(***************************************************************************)
(* The builder and the store                                               *)
(***************************************************************************)

\* The builder has finitely many nodes, and what was
\* built or stored is a definition that create_edit_graph accepts.
BuilderTyped ==
  /\ IsFiniteSet(DOMAIN nodes) /\ DOMAIN nodes \subseteq Ids
  /\ nodes \in [DOMAIN nodes -> [kind : Kinds, inputs : SUBSET Ids]]
GraphsAccepted == \A g \in graphs : Typed(g) /\ CreateAccepts(g)
GraphInv == BuilderTyped /\ GraphsAccepted

LEMMA DefinitionTyped ==
  ASSUME BuilderTyped, NEW s \in Ids, NEW o \in Ids
  PROVE  Typed(Definition(nodes, s, o))
<1> DEFINE d == Definition(nodes, s, o)
<1>1. d.nodes = nodes /\ d.source = s /\ d.output = o /\ IdsOf(d) = DOMAIN nodes
  BY DEF Definition, IdsOf
<1>2. Ids \subseteq Nat
  BY GraphAssumption
<1>3. nodes \in [DOMAIN nodes -> [kind : Kinds, inputs : SUBSET Nat]]
  <2>1. \A id \in DOMAIN nodes : nodes[id] \in [kind : Kinds, inputs : SUBSET Nat]
    BY <1>2 DEF BuilderTyped
  <2>2. nodes = [id \in DOMAIN nodes |-> nodes[id]]
    BY DEF BuilderTyped
  <2> QED
    BY <2>1, <2>2
<1> HIDE DEF d
<1>4. d = Definition(d.nodes, d.source, d.output)
  BY <1>1 DEF d
<1>5. Typed(d)
  BY <1>1, <1>2, <1>3, <1>4 DEF Typed, BuilderTyped
<1> QED
  BY <1>5 DEF d

LEMMA NodesTyped == \A node \in Nodes : node \in [kind : Kinds, inputs : SUBSET Ids]
BY DEF Nodes

\* The inductive invariant of the builder and the store.
THEOREM GraphInvariant == Spec => []GraphInv
<1>1. Init => GraphInv
  BY FS_EmptySet DEF Init, GraphInv, BuilderTyped, GraphsAccepted
<1>2. GraphInv /\ [Next]_vars => GraphInv'
  <2> SUFFICES ASSUME GraphInv, [Next]_vars PROVE GraphInv'
    OBVIOUS
  <2>1. BuilderTyped /\ GraphsAccepted
    BY DEF GraphInv
  <2>2. ASSUME NEW id \in Ids, NEW node \in Nodes, AddNode(id, node)
        PROVE  GraphInv'
    <3>1. node \in [kind : Kinds, inputs : SUBSET Ids]
      BY NodesTyped
    <3>2. nodes' = [n \in DOMAIN nodes \cup {id} |-> IF n = id THEN node ELSE nodes[n]]
          /\ graphs' = graphs
      BY <2>2 DEF AddNode
    <3>3. IsFiniteSet(DOMAIN nodes \cup {id})
      BY <2>1, FS_AddElement DEF BuilderTyped
    <3>4. BuilderTyped'
      BY <2>1, <3>1, <3>2, <3>3 DEF BuilderTyped
    <3> QED
      BY <2>1, <3>2, <3>4 DEF GraphInv, GraphsAccepted
  <2>3. ASSUME NEW id \in Ids, NEW node \in Nodes, ReplaceNode(id, node)
        PROVE  GraphInv'
    <3>1. node \in [kind : Kinds, inputs : SUBSET Ids]
      BY NodesTyped
    <3>2. nodes' = [nodes EXCEPT ![id] = node] /\ graphs' = graphs
      BY <2>3 DEF ReplaceNode
    <3>3. BuilderTyped'
      BY <2>1, <3>1, <3>2 DEF BuilderTyped
    <3> QED
      BY <2>1, <3>2, <3>3 DEF GraphInv, GraphsAccepted
  <2>4. ASSUME NEW id \in Ids, RemoveNode(id)
        PROVE  GraphInv'
    <3>1. nodes' = [n \in DOMAIN nodes \ {id} |-> nodes[n]] /\ graphs' = graphs
      BY <2>4 DEF RemoveNode
    <3>2. IsFiniteSet(DOMAIN nodes \ {id})
      BY <2>1, FS_RemoveElement DEF BuilderTyped
    <3>3. BuilderTyped'
      BY <2>1, <3>1, <3>2 DEF BuilderTyped
    <3> QED
      BY <2>1, <3>1, <3>3 DEF GraphInv, GraphsAccepted
  <2>5. ASSUME NEW s \in Ids, NEW o \in Ids, Build(s, o)
        PROVE  GraphInv'
    <3>1. /\ CreateAccepts(Definition(nodes, s, o))
          /\ graphs' = {Definition(nodes, s, o)}
          /\ nodes' = [id \in {} |-> 0]
      BY <2>5 DEF Build
    <3>2. BuilderTyped'
      BY <3>1, FS_EmptySet DEF BuilderTyped
    <3>3. GraphsAccepted'
      BY <2>1, <3>1, DefinitionTyped DEF GraphsAccepted
    <3> QED
      BY <3>2, <3>3 DEF GraphInv
  <2>6. ASSUME NEW requested \in Ids, AdjustExposure(requested)
        PROVE  GraphInv'
    <3>1. PICK g \in graphs : /\ StoreAccepts(Exposed(g, requested))
                              /\ graphs' = {Exposed(g, requested)}
      BY <2>6 DEF AdjustExposure
    <3>2. nodes' = nodes
      BY <2>6 DEF AdjustExposure
    <3>3. Typed(g) /\ CreateAccepts(g) /\ IsFiniteSet(IdsOf(g)) /\ requested \in Nat
      BY <2>1, GraphAssumption DEF GraphsAccepted, Typed
    <3>4. PICK c : \E N \in Nat : IsChain(g, c) /\ Linked(g, c, N)
      BY <3>3, AcceptedIsLinked
    <3>5. Typed(Exposed(g, requested))
      BY <3>3, <3>4, ExposedIsChain
    <3>6. GraphsAccepted'
      BY <3>1, <3>5 DEF GraphsAccepted, StoreAccepts
    <3> QED
      BY <2>1, <3>2, <3>6 DEF GraphInv, BuilderTyped
  <2>7. CASE UNCHANGED vars
    BY <2>1, <2>7 DEF vars, GraphInv, BuilderTyped, GraphsAccepted
  <2> QED
    BY <2>2, <2>3, <2>4, <2>5, <2>6, <2>7 DEF Next
<1> QED
  BY <1>1, <1>2, PTL DEF Spec

\* The two validators of an edit graph, the depth-first one of the document
\* library and the store's own, accept the same definitions.
THEOREM ValidatorsAgreeAlways == Spec => []ValidatorsAgree
<1>1. GraphInv => ValidatorsAgree
  <2> SUFFICES ASSUME GraphInv, NEW s \in Ids, NEW o \in Ids
               PROVE  CreateAccepts(Definition(nodes, s, o)) <=>
                        StoreChecks(Definition(nodes, s, o))
    BY DEF ValidatorsAgree
  <2> DEFINE d == Definition(nodes, s, o)
  <2>1. IsFiniteSet(IdsOf(d))
    BY DefinitionTyped DEF GraphInv, Typed
  <2> HIDE DEF d
  <2>2. ASSUME CreateAccepts(d) PROVE StoreChecks(d)
    <3>1. Cardinality(IdsOf(d)) <= MaxNodes
      BY <2>2 DEF CreateAccepts
    <3>2. PICK c : IsChain(d, c)
      BY <2>1, <2>2, CreatedIsChain
    <3> QED
      BY <2>1, <3>1, <3>2, ChainAccepted
  <2>3. ASSUME StoreChecks(d) PROVE CreateAccepts(d)
    <3>1. Cardinality(IdsOf(d)) <= MaxNodes
      BY <2>3 DEF StoreChecks
    <3>2. PICK c : IsChain(d, c)
      BY <2>1, <2>3, CheckedIsChain
    <3> QED
      BY <2>1, <3>1, <3>2, ChainAccepted
  <2> QED
    BY <2>2, <2>3 DEF d
<1> QED
  BY <1>1, GraphInvariant, PTL

\* The renderer compiles every accepted graph, all of it, in the order of
\* nodes_in_topological_order.
THEOREM AcceptedIsCompiledAlways == Spec => []AcceptedIsCompiled
<1>1. GraphInv => AcceptedIsCompiled
  <2> SUFFICES ASSUME GraphInv, NEW s \in Ids, NEW o \in Ids,
                      CreateAccepts(Definition(nodes, s, o))
               PROVE  LET d == Definition(nodes, s, o) IN
                        /\ Compiled(d) = OrderTo(d, o)
                        /\ {Compiled(d)[i] : i \in DOMAIN Compiled(d)} = IdsOf(d)
    BY DEF AcceptedIsCompiled
  <2> DEFINE d == Definition(nodes, s, o)
  <2>1. IsFiniteSet(IdsOf(d)) /\ CreateAccepts(d) /\ d.output = o
    BY DefinitionTyped DEF GraphInv, Typed, Definition
  <2> HIDE DEF d
  <2>2. PICK c : \E N \in Nat : IsChain(d, c) /\ Linked(d, c, N)
    BY <2>1, AcceptedIsLinked
  <2>3. PICK N \in Nat : IsChain(d, c) /\ Linked(d, c, N)
    BY <2>2
  <2>4. Compiled(d) = c /\ OrderTo(d, o) = c
    BY <2>1, <2>3, ChainCompiled, ChainOrdered
  <2>5. c \in [1..N -> IdsOf(d)] /\ \A id \in IdsOf(d) : \E i \in 1..N : c[i] = id
    BY <2>3 DEF Linked
  <2>6. {c[i] : i \in DOMAIN c} = IdsOf(d)
    BY <2>5
  <2> QED
    BY <2>4, <2>6 DEF d
<1> QED
  BY <1>1, GraphInvariant, PTL

\* An exposure is refused only at the node limit and becomes the last
\* adjustment.
THEOREM ExposureIsLastAlways == Spec => []ExposureIsLast
<1>1. GraphInv => ExposureIsLast
  <2> SUFFICES ASSUME GraphInv, NEW g \in graphs, NEW requested \in Ids
               PROVE  LET e == Exposed(g, requested)
                          n == Len(Compiled(g))
                      IN  /\ StoreAccepts(e) <=> Cardinality(IdsOf(g)) < MaxNodes
                          /\ StoreAccepts(e) =>
                               /\ Len(Compiled(e)) = n + 1
                               /\ SubSeq(Compiled(e), 1, n - 1) = SubSeq(Compiled(g), 1, n - 1)
                               /\ Compiled(e)[n + 1] = g.output
    BY DEF ExposureIsLast
  <2> DEFINE e == Exposed(g, requested)
  <2>1. Typed(g) /\ CreateAccepts(g) /\ IsFiniteSet(IdsOf(g)) /\ requested \in Nat
    BY GraphAssumption DEF GraphInv, GraphsAccepted, Typed
  <2>2. PICK c : \E N \in Nat : IsChain(g, c) /\ Linked(g, c, N)
    BY <2>1, AcceptedIsLinked
  <2>3. PICK N \in Nat : IsChain(g, c) /\ Linked(g, c, N)
    BY <2>2
  <2> DEFINE b == Lengthening(c, N, FreeId(g, requested))
  <2>4. Typed(e) /\ Cardinality(IdsOf(e)) = N + 1 /\ IsChain(e, b)
    BY <2>1, <2>3, ExposedIsChain
  <2>5. N > 1 /\ N = Cardinality(IdsOf(g)) /\ c[N] = g.output
    BY <2>3 DEF Linked
  <2>6. c \in Seq(IdsOf(g)) /\ Len(c) = N
    BY <2>3, ChainIsSeq
  <2>7. Compiled(g) = c /\ Compiled(e) = b
    BY <2>3, <2>4, ChainCompiled
  <2>8. /\ b[N + 1] = c[N]
        /\ \A i \in 1..(N - 1) : b[i] = c[i]
    <3>1. \A i \in 1..(N - 1) : i \in 1..(N + 1) /\ i < N
      OBVIOUS
    <3>2. N + 1 \in 1..(N + 1) /\ ~ (N + 1 < N) /\ N + 1 # N
      OBVIOUS
    <3> QED
      BY <3>1, <3>2 DEF Lengthening
  <2> HIDE DEF e, b
  <2>9. Len(b) = N + 1
    BY <2>4 DEF IsChain
  <2>10. StoreAccepts(e) <=> N < MaxNodes
    BY <2>1, <2>3, ExposedAccepted DEF e
  <2>11. SubSeq(b, 1, N - 1) = SubSeq(c, 1, N - 1)
    <3>1. \A i \in 1..(N - 1) : c[i] \in IdsOf(g) /\ b[i] \in IdsOf(g)
      <4>1. c \in [1..N -> IdsOf(g)]
        BY <2>3 DEF Linked
      <4>2. \A i \in 1..(N - 1) : i \in 1..N
        OBVIOUS
      <4> QED
        BY <2>8, <4>1, <4>2
    <3>2. 1 \in Int /\ N - 1 \in Int
      OBVIOUS
    <3>3. /\ SubSeq(b, 1, N - 1) \in Seq(IdsOf(g))
          /\ Len(SubSeq(b, 1, N - 1)) = N - 1
          /\ \A i \in 1..(N - 1) : SubSeq(b, 1, N - 1)[i] = b[i]
      <4>1. (N - 1) - 1 + 1 = N - 1 /\ 1 <= N - 1 /\ \A i \in 1..(N - 1) : 1 + i - 1 = i
        BY <2>5
      <4> QED
        BY <3>1, <3>2, <4>1, SubSeqProperties
    <3>4. /\ SubSeq(c, 1, N - 1) \in Seq(IdsOf(g))
          /\ Len(SubSeq(c, 1, N - 1)) = N - 1
          /\ \A i \in 1..(N - 1) : SubSeq(c, 1, N - 1)[i] = c[i]
      <4>1. (N - 1) - 1 + 1 = N - 1 /\ 1 <= N - 1 /\ \A i \in 1..(N - 1) : 1 + i - 1 = i
        BY <2>5
      <4> QED
        BY <3>1, <3>2, <4>1, SubSeqProperties
    <3> QED
      BY <2>8, <3>3, <3>4, SeqEqual
  <2> QED
    BY <2>5, <2>6, <2>7, <2>8, <2>9, <2>10, <2>11 DEF e
<1> QED
  BY <1>1, GraphInvariant, PTL

(***************************************************************************)
(* Ids in order                                                            *)
(***************************************************************************)

\* The places of the numbers of a finite set are 1 to its size, in order.
LEMMA PlacesInOrder ==
  ASSUME NEW S \in SUBSET Nat, IsFiniteSet(S), NEW N \in Nat, N = Cardinality(S)
  PROVE  /\ \A x \in S : Place(S, x) \in 1..N
         /\ \A x, y \in S : x < y => Place(S, x) < Place(S, y)
         /\ \A i \in 1..N : \E x \in S : Place(S, x) = i
<1> DEFINE upto(x) == {other \in S : other <= x}
<1>1. \A x \in S : /\ upto(x) \in SUBSET S /\ IsFiniteSet(upto(x))
                   /\ Place(S, x) = Cardinality(upto(x))
                   /\ Place(S, x) \in Nat /\ Place(S, x) <= N
  <2> TAKE x \in S
  <2>1. upto(x) \in SUBSET S /\ Place(S, x) = Cardinality(upto(x))
    BY DEF Place
  <2> HIDE DEF upto
  <2>2. IsFiniteSet(upto(x)) /\ Cardinality(upto(x)) <= Cardinality(S)
    BY <2>1, FS_Subset
  <2> QED
    BY <2>1, <2>2, FS_CardinalityType
<1>2. ASSUME NEW x \in S
      PROVE  Place(S, x) \in 1..N
  <2>1. x \in upto(x)
    OBVIOUS
  <2> HIDE DEF upto
  <2>2. Cardinality(upto(x)) # 0
    BY <1>1, <2>1, FS_EmptySet
  <2> QED
    BY <1>1, <2>2
<1>3. ASSUME NEW x \in S, NEW y \in S, x < y
      PROVE  Place(S, x) < Place(S, y)
  <2>1. upto(x) \in SUBSET upto(y) /\ y \in upto(y) /\ y \notin upto(x)
    <3>1. x \in Nat /\ y \in Nat /\ \A other \in S : other \in Nat
      OBVIOUS
    <3>2. \A other \in S : other <= x => other <= y
      BY <1>3, <3>1
    <3>3. ~ (y <= x) /\ y <= y
      BY <1>3, <3>1
    <3>4. upto(x) \subseteq upto(y)
      BY <3>2
    <3> QED
      BY <3>3, <3>4
  <2> HIDE DEF upto
  <2>2. /\ Cardinality(upto(x)) <= Cardinality(upto(y))
        /\ Cardinality(upto(y)) = Cardinality(upto(x)) => upto(y) = upto(x)
    BY <1>1, <2>1, FS_Subset
  <2> QED
    BY <1>1, <2>1, <2>2
<1>4. ASSUME NEW i \in 1..N
      PROVE  \E x \in S : Place(S, x) = i
  <2> DEFINE f == [x \in S |-> Place(S, x)]
  <2>1. \A x, y \in S : Place(S, x) = Place(S, y) => x = y
    <3> TAKE x, y \in S
    <3>1. /\ x < y => Place(S, x) < Place(S, y)
          /\ y < x => Place(S, y) < Place(S, x)
      BY <1>3
    <3>2. Place(S, x) \in Nat /\ Place(S, y) \in Nat
      BY <1>1
    <3> QED
      BY <3>1, <3>2
  <2>2. f \in Injection(S, 1..N)
    BY <1>2, <2>1 DEF Injection, IsInjective
  <2>3. IsFiniteSet(1..N) /\ Cardinality(1..N) = N
    BY FS_Interval
  <2> HIDE DEF f
  <2>4. f \in Surjection(S, 1..N)
    BY <2>2, <2>3, FS_Injection
  <2>5. \E x \in S : f[x] = i
    BY <2>4 DEF Surjection
  <2> QED
    BY <2>5 DEF f
<1> QED
  BY <1>2, <1>3, <1>4

\* order lists the nodes of d, each once.
Lists(d, order, N) ==
  /\ N = Cardinality(IdsOf(d)) /\ order \in [1..N -> IdsOf(d)]
  /\ \A id \in IdsOf(d) : \E i \in 1..N : order[i] = id
  /\ \A i, j \in 1..N : order[i] = order[j] => i = j

\* Increasing does so in the order of the ids.
LEMMA IncreasingLists ==
  ASSUME NEW d, IsFiniteSet(IdsOf(d)), IdsOf(d) \subseteq Nat,
         NEW N \in Nat, N = Cardinality(IdsOf(d))
  PROVE  /\ Lists(d, Increasing(d), N)
         /\ \A i, j \in 1..N : i < j => Increasing(d)[i] < Increasing(d)[j]
         /\ \A i \in 1..N : Place(IdsOf(d), Increasing(d)[i]) = i
<1> DEFINE S == IdsOf(d)
           inc == Increasing(d)
<1>1. /\ \A x \in S : Place(S, x) \in 1..N
      /\ \A x, y \in S : x < y => Place(S, x) < Place(S, y)
      /\ \A i \in 1..N : \E x \in S : Place(S, x) = i
  <2>1. S \in SUBSET Nat
    OBVIOUS
  <2> QED
    BY <2>1, PlacesInOrder
<1>2. inc = [i \in 1..N |-> CHOOSE id \in S : Place(S, id) = i]
  BY DEF Increasing
<1> HIDE DEF inc
<1>3. \A i \in 1..N : inc[i] \in S /\ Place(S, inc[i]) = i
  BY <1>1, <1>2
<1>4. inc \in [1..N -> S]
  BY <1>2, <1>3
<1>5. \A x, y \in S : Place(S, x) = Place(S, y) => x = y
  <2> TAKE x, y \in S
  <2>1. x \in Nat /\ y \in Nat /\ Place(S, x) \in 1..N /\ Place(S, y) \in 1..N
    BY <1>1
  <2>2. /\ x < y => Place(S, x) < Place(S, y)
        /\ y < x => Place(S, y) < Place(S, x)
    BY <1>1
  <2> QED
    BY <2>1, <2>2
<1>6. \A id \in S : \E i \in 1..N : inc[i] = id
  <2> TAKE id \in S
  <2>1. Place(S, id) \in 1..N
    BY <1>1
  <2> QED
    BY <1>3, <1>5, <2>1
<1>7. \A i, j \in 1..N : inc[i] = inc[j] => i = j
  BY <1>3
<1>8. \A i, j \in 1..N : i < j => inc[i] < inc[j]
  <2> SUFFICES ASSUME NEW i \in 1..N, NEW j \in 1..N, i < j PROVE inc[i] < inc[j]
    OBVIOUS
  <2>1. inc[i] \in S /\ inc[j] \in S /\ inc[i] \in Nat /\ inc[j] \in Nat
    BY <1>3
  <2>2. inc[i] # inc[j]
    BY <1>7
  <2>3. ~ (inc[j] < inc[i])
    <3> SUFFICES ASSUME inc[j] < inc[i] PROVE FALSE
      OBVIOUS
    <3>1. Place(S, inc[j]) < Place(S, inc[i])
      BY <1>1, <2>1
    <3> QED
      BY <1>3, <3>1
  <2> QED
    BY <2>1, <2>2, <2>3
<1>9. Lists(d, inc, N)
  BY <1>4, <1>6, <1>7 DEF Lists
<1> QED
  BY <1>3, <1>8, <1>9 DEF inc

\* So does any order a caller writes the nodes in.
LEMMA OrdersList ==
  ASSUME NEW d, IsFiniteSet(IdsOf(d)), NEW N \in Nat, N = Cardinality(IdsOf(d)),
         NEW order \in Orders(d)
  PROVE  Lists(d, order, N)
<1>1. order \in [1..N -> IdsOf(d)] /\ {order[i] : i \in DOMAIN order} = IdsOf(d)
  <2>1. IdsOf(d) \subseteq Ids
    BY DEF Orders
  <2> QED
    BY <2>1 DEF Orders
<1>2. \A id \in IdsOf(d) : \E i \in 1..N : order[i] = id
  BY <1>1
<1>3. order \in Surjection(1..N, IdsOf(d))
  BY <1>1, <1>2 DEF Surjection
<1>4. IsFiniteSet(1..N) /\ Cardinality(1..N) = N
  BY FS_Interval
<1>5. order \in Injection(1..N, IdsOf(d))
  BY <1>3, <1>4, FS_SurjSameCardinalityImpliesInj
<1> QED
  BY <1>1, <1>2, <1>5 DEF Lists, Injection, IsInjective

(***************************************************************************)
(* Texts                                                                   *)
(***************************************************************************)

\* A node as it is written down.
Entry(d, numbers, id) ==
  [id     |-> id,
   kind   |-> d.nodes[id].kind,
   inputs |-> d.nodes[id].inputs,
   number |-> numbers[id]]

\* The numbers as they are stored.
Stored(d, numbers) == [id \in IdsOf(d) |-> Normalized(numbers[id])]

LEMMA DocumentParts ==
  ASSUME NEW d, NEW N, NEW order, Lists(d, order, N), NEW numbers
  PROVE  Document(d, order, numbers).nodes = [i \in 1..N |-> Entry(d, numbers, order[i])]
<1> DEFINE doc  == Document(d, order, numbers)
           list == [i \in 1..N |-> Entry(d, numbers, order[i])]
<1>1. DOMAIN order = 1..N
  BY DEF Lists
<1>2. doc = [source |-> d.source, output |-> d.output, nodes |-> list]
  BY <1>1 DEF Document, Entry
<1> HIDE DEF doc, list
<1>3. doc.nodes = list
  BY <1>2
<1> QED
  BY <1>3 DEF doc, list

LEMMA NormalizedTwice ==
  \A number : Normalized(Normalized(number)) = Normalized(number) /\ Normalized(number) # "-0"
BY DEF Normalized

\* Numbers are normalised node by node.
LEMMA PlainDocument ==
  ASSUME NEW d, NEW N, NEW order, Lists(d, order, N), NEW numbers
  PROVE  Plain(Document(d, order, numbers).nodes) =
           Document(d, order, Stored(d, numbers)).nodes
<1> DEFINE list == [i \in 1..N |-> Entry(d, numbers, order[i])]
<1>1. \A i \in 1..N : order[i] \in IdsOf(d)
  BY DEF Lists
<1>2. Plain(list) = [i \in 1..N |-> [list[i] EXCEPT !.number = Normalized(@)]]
  BY DEF Plain
<1>3. \A i \in 1..N : [list[i] EXCEPT !.number = Normalized(@)] =
                        Entry(d, Stored(d, numbers), order[i])
  BY <1>1 DEF Entry, Stored
<1> HIDE DEF list
<1>4. Plain(list) = [i \in 1..N |-> Entry(d, Stored(d, numbers), order[i])]
  BY <1>2, <1>3
<1> QED
  BY <1>4, DocumentParts DEF list

\* Sorting by id gives the same list whatever the order was.
LEMMA SortedDocument ==
  ASSUME NEW d, IsFiniteSet(IdsOf(d)), IdsOf(d) \subseteq Nat,
         NEW N \in Nat, NEW order, Lists(d, order, N), NEW numbers
  PROVE  ById(Document(d, order, numbers).nodes) = Document(d, Increasing(d), numbers).nodes
<1> DEFINE list == [i \in 1..N |-> Entry(d, numbers, order[i])]
           ids  == {list[k].id : k \in DOMAIN list}
           inc  == Increasing(d)
           place(i) == CHOOSE k \in DOMAIN list : Place(ids, list[k].id) = i
<1>1. /\ N = Cardinality(IdsOf(d)) /\ order \in [1..N -> IdsOf(d)]
      /\ \A id \in IdsOf(d) : \E i \in 1..N : order[i] = id
      /\ \A i, j \in 1..N : order[i] = order[j] => i = j
  BY DEF Lists
<1>2. /\ Lists(d, inc, N)
      /\ \A i \in 1..N : Place(IdsOf(d), inc[i]) = i
  BY <1>1, IncreasingLists
<1>3. /\ inc \in [1..N -> IdsOf(d)]
      /\ \A id \in IdsOf(d) : \E i \in 1..N : inc[i] = id
  BY <1>2 DEF Lists
<1>4. DOMAIN list = 1..N /\ \A k \in 1..N : list[k] = Entry(d, numbers, order[k]) /\ list[k].id = order[k]
  BY DEF Entry
<1> HIDE DEF list, inc
<1>5. ids = IdsOf(d)
  BY <1>1, <1>4
<1>6. ById(list) = [i \in 1..N |-> list[place(i)]]
  BY <1>4 DEF ById
<1>7. ASSUME NEW i \in 1..N
      PROVE  list[place(i)] = Entry(d, numbers, inc[i])
  <2>1. PICK k \in 1..N : order[k] = inc[i]
    BY <1>1, <1>3
  <2>2. Place(ids, list[k].id) = i
    BY <1>2, <1>4, <1>5, <2>1
  <2>3. \A j \in 1..N : Place(ids, list[j].id) = i => j = k
    <3> SUFFICES ASSUME NEW j \in 1..N, Place(ids, list[j].id) = i PROVE j = k
      OBVIOUS
    <3>1. PICK m \in 1..N : inc[m] = order[j]
      BY <1>1, <1>3
    <3>2. Place(IdsOf(d), order[j]) = i
      BY <1>4, <1>5
    <3>3. m = i
      BY <1>2, <3>1, <3>2
    <3> QED
      BY <1>1, <2>1, <3>1, <3>3
  <2>4. place(i) = k
    <3> HIDE DEF ids
    <3> QED
      BY <1>4, <2>2, <2>3
  <2> QED
    BY <1>4, <2>1, <2>4
<1> HIDE DEF place
<1>8. ById(list) = [i \in 1..N |-> Entry(d, numbers, inc[i])]
  BY <1>6, <1>7
<1>9. /\ Document(d, order, numbers).nodes = list
      /\ Document(d, inc, numbers).nodes = [i \in 1..N |-> Entry(d, numbers, inc[i])]
  BY <1>2, DocumentParts DEF list
<1> QED
  BY <1>8, <1>9 DEF inc

\* What a document is parsed to, however it was written.
LEMMA ParsedDocument ==
  ASSUME NEW d, IsFiniteSet(IdsOf(d)), IdsOf(d) \subseteq Nat,
         NEW N \in Nat, NEW order, Lists(d, order, N), NEW numbers
  PROVE  Parsed(Document(d, order, numbers)) = Document(d, Increasing(d), Stored(d, numbers))
<1> DEFINE doc  == Document(d, order, numbers)
           list == [i \in 1..N |-> Entry(d, numbers, order[i])]
<1>1. Lists(d, Increasing(d), N)
  BY IncreasingLists DEF Lists
<1>2. ById(Plain(doc.nodes)) = Document(d, Increasing(d), Stored(d, numbers)).nodes
  BY PlainDocument, SortedDocument
<1>3. Parsed(doc) = [source |-> d.source, output |-> d.output,
                     nodes |-> Document(d, Increasing(d), Stored(d, numbers)).nodes]
  <2>1. doc = [source |-> d.source, output |-> d.output, nodes |-> list]
    <3>1. DOMAIN order = 1..N
      BY DEF Lists
    <3> QED
      BY <3>1 DEF Document, Entry
  <2>2. Parsed(doc) = [doc EXCEPT !.nodes = ById(Plain(doc.nodes))]
    BY DEF Parsed
  <2> HIDE DEF doc, list
  <2> QED
    BY <1>2, <2>1, <2>2
<1>4. Document(d, Increasing(d), Stored(d, numbers)) =
        [source |-> d.source, output |-> d.output,
         nodes |-> Document(d, Increasing(d), Stored(d, numbers)).nodes]
  BY DEF Document
<1> QED
  BY <1>3, <1>4

LEMMA CanonicalDocument ==
  ASSUME NEW d, NEW N, NEW order, Lists(d, order, N), NEW numbers
  PROVE  Canonical(Document(d, order, numbers)) = Document(d, order, Stored(d, numbers))
<1>1. Canonical(Document(d, order, numbers)) =
        [source |-> d.source, output |-> d.output,
         nodes |-> Document(d, order, Stored(d, numbers)).nodes]
  <2> DEFINE doc  == Document(d, order, numbers)
             list == [i \in 1..N |-> Entry(d, numbers, order[i])]
  <2>1. doc = [source |-> d.source, output |-> d.output, nodes |-> list]
    <3>1. DOMAIN order = 1..N
      BY DEF Lists
    <3> QED
      BY <3>1 DEF Document, Entry
  <2>2. Canonical(doc) = [doc EXCEPT !.nodes = Plain(doc.nodes)]
    BY DEF Canonical
  <2>3. Plain(doc.nodes) = Document(d, order, Stored(d, numbers)).nodes
    BY PlainDocument
  <2> HIDE DEF doc, list
  <2>4. Canonical(doc) = [source |-> d.source, output |-> d.output,
                          nodes |-> Document(d, order, Stored(d, numbers)).nodes]
    BY <2>1, <2>2, <2>3
  <2> QED
    BY <2>4 DEF doc
<1>2. Document(d, order, Stored(d, numbers)) =
        [source |-> d.source, output |-> d.output,
         nodes |-> Document(d, order, Stored(d, numbers)).nodes]
  BY DEF Document
<1> QED
  BY <1>1, <1>2

LEMMA StoredTwice ==
  ASSUME NEW d, NEW numbers
  PROVE  Stored(d, Stored(d, numbers)) = Stored(d, numbers)
BY NormalizedTwice DEF Stored

\* A document describes the graph it was written from.
LEMMA DescribedDocument ==
  ASSUME NEW d, Typed(d), NEW N, NEW order, Lists(d, order, N), NEW numbers
  PROVE  Described(Document(d, order, numbers)) = d
<1> DEFINE list   == Document(d, order, numbers).nodes
           at(id) == CHOOSE i \in DOMAIN list : list[i].id = id
           ids    == {list[i].id : i \in DOMAIN list}
<1>1. /\ order \in [1..N -> IdsOf(d)]
      /\ \A id \in IdsOf(d) : \E i \in 1..N : order[i] = id
  BY DEF Lists
<1>2. /\ DOMAIN list = 1..N
      /\ \A i \in 1..N : /\ list[i].id = order[i]
                         /\ list[i].kind = d.nodes[order[i]].kind
                         /\ list[i].inputs = d.nodes[order[i]].inputs
  <2>1. list = [i \in 1..N |-> Entry(d, numbers, order[i])]
    BY DocumentParts
  <2> HIDE DEF list
  <2> QED
    BY <2>1 DEF Entry
<1>3. Described(Document(d, order, numbers)) =
        Definition([id \in ids |-> [kind   |-> list[at(id)].kind,
                                    inputs |-> list[at(id)].inputs]],
                   d.source, d.output)
  <2> DEFINE doc == Document(d, order, numbers)
  <2>1. doc.source = d.source /\ doc.output = d.output /\ doc.nodes = list
    BY DEF Document
  <2> HIDE DEF doc, list
  <2>2. Described(doc) =
          Definition([id \in ids |-> [kind   |-> list[at(id)].kind,
                                      inputs |-> list[at(id)].inputs]],
                     d.source, d.output)
    BY <2>1 DEF Described
  <2> QED
    BY <2>2 DEF doc
<1> HIDE DEF list
<1>4. ids = IdsOf(d)
  BY <1>1, <1>2
<1>5. \A id \in IdsOf(d) : at(id) \in 1..N /\ order[at(id)] = id
  BY <1>1, <1>2
<1> HIDE DEF at, ids
<1>6. \A id \in IdsOf(d) : [kind |-> list[at(id)].kind, inputs |-> list[at(id)].inputs] = d.nodes[id]
  <2> TAKE id \in IdsOf(d)
  <2>1. d.nodes[id] \in [kind : Kinds, inputs : SUBSET Nat]
    BY DEF Typed
  <2>2. list[at(id)].kind = d.nodes[id].kind /\ list[at(id)].inputs = d.nodes[id].inputs
    BY <1>2, <1>5
  <2> QED
    BY <2>1, <2>2
<1>7. d.nodes = [id \in IdsOf(d) |-> d.nodes[id]]
  BY DEF Typed
<1>8. [id \in ids |-> [kind |-> list[at(id)].kind, inputs |-> list[at(id)].inputs]] = d.nodes
  BY <1>4, <1>6, <1>7
<1> QED
  BY <1>3, <1>8 DEF Typed

\* The store takes the canonical text of exactly the graphs it accepts.
LEMMA StoredText ==
  ASSUME NEW d, Typed(d), NEW N \in Nat, N = Cardinality(IdsOf(d)), NEW numbers
  PROVE  StoreAcceptsText(Document(d, Increasing(d), Stored(d, numbers))) <=> StoreAccepts(d)
<1> DEFINE inc  == Increasing(d)
           text == Document(d, inc, Stored(d, numbers))
<1>1. /\ IsFiniteSet(IdsOf(d)) /\ IdsOf(d) \subseteq Nat /\ Lists(d, inc, N)
      /\ \A i, j \in 1..N : i < j => inc[i] < inc[j]
  BY IncreasingLists DEF Typed
<1>2. Described(text) = d
  BY <1>1, DescribedDocument
<1>3. Canonical(Parsed(text)) = text
  <2>1. Parsed(text) = text
    BY <1>1, ParsedDocument, StoredTwice
  <2>2. Canonical(text) = text
    BY <1>1, CanonicalDocument, StoredTwice
  <2> QED
    BY <2>1, <2>2
<1>4. /\ DOMAIN text.nodes = 1..N
      /\ \A i \in 1..N : text.nodes[i].id = inc[i] /\ text.nodes[i].number # "-0"
  <2>1. text.nodes = [i \in 1..N |-> Entry(d, Stored(d, numbers), inc[i])]
    BY <1>1, DocumentParts
  <2>2. \A i \in 1..N : Stored(d, numbers)[inc[i]] # "-0"
    BY <1>1, NormalizedTwice DEF Stored, Lists
  <2> HIDE DEF text, inc
  <2> QED
    BY <2>1, <2>2 DEF Entry
<1> HIDE DEF text, inc
<1> QED
  BY <1>1, <1>2, <1>3, <1>4 DEF StoreAcceptsText, StoreAccepts, text, inc

\* A text with an exposure appended is the canonical text of the longer graph.
LEMMA AppendedDocument ==
  ASSUME NEW g, Typed(g), NEW c, NEW N \in Nat, Linked(g, c, N), NEW numbers,
         NEW requested \in Nat, NEW number
  PROVE  LET e     == Exposed(g, requested)
             added == [id \in IdsOf(e) |-> IF id = FreeId(g, requested) THEN number
                                           ELSE numbers[id]]
         IN  Appended(Document(g, Increasing(g), Stored(g, numbers)), requested, number) =
               Document(e, Increasing(e), Stored(e, added))
<1> DEFINE e     == Exposed(g, requested)
           free  == FreeId(g, requested)
           added == [id \in IdsOf(e) |-> IF id = free THEN number ELSE numbers[id]]
           old   == Stored(g, numbers)
           new   == Stored(e, added)
           inc   == Increasing(g)
           text  == Document(g, inc, old)
           order == [i \in 1..(N + 1) |-> IF i <= N THEN inc[i] ELSE free]
           at    == CHOOSE i \in DOMAIN text.nodes : text.nodes[i].id = text.output
           input == CHOOSE i \in Inputs(g, g.output) : TRUE
           first == [i \in 1..N |-> Entry(e, new, inc[i])]
<1>1. /\ IsFiniteSet(IdsOf(g)) /\ IdsOf(g) \subseteq Nat /\ Lists(g, inc, N)
      /\ g = Definition(g.nodes, g.source, g.output)
      /\ g.nodes \in [IdsOf(g) -> [kind : Kinds, inputs : SUBSET Nat]]
  BY IncreasingLists DEF Typed, Linked
<1>2. /\ N = Cardinality(IdsOf(g)) /\ inc \in [1..N -> IdsOf(g)]
      /\ \A id \in IdsOf(g) : \E i \in 1..N : inc[i] = id
      /\ \A i, j \in 1..N : inc[i] = inc[j] => i = j
  BY <1>1 DEF Lists
<1>3. free \in Nat /\ free \notin IdsOf(g)
  BY <1>1, FreeIdIsFree
<1>4. g.output \in IdsOf(g) /\ g.nodes[g.output].kind = "output" /\ Inputs(g, g.output) = {input}
  <2>1. N > 1 /\ c[N] = g.output /\ c \in [1..N -> IdsOf(g)]
    BY DEF Linked
  <2>2. N \in 2..N /\ N \in 1..N
    BY <2>1
  <2>3. Inputs(g, g.output) = {c[N - 1]}
    BY <2>1, <2>2 DEF Linked
  <2>4. g.nodes[g.output].kind = "output"
    BY <2>1, <2>2 DEF Linked
  <2> QED
    BY <2>1, <2>2, <2>3, <2>4
<1>5. /\ e.source = g.source /\ e.output = g.output
      /\ IdsOf(e) = IdsOf(g) \cup {free}
      /\ e.nodes[free] = [kind |-> "adjust", inputs |-> {input}]
      /\ e.nodes[g.output] = [kind |-> "output", inputs |-> {free}]
      /\ \A n \in IdsOf(g) : n # g.output => e.nodes[n] = g.nodes[n]
  <2>1. e = WithNode(g, free, input)
    BY DEF Exposed
  <2>2. g = Definition(g.nodes, g.source, g.output) /\ g.output \in IdsOf(g)
    BY <1>1, <1>4
  <2>3. free \notin IdsOf(g)
    BY <1>3
  <2> HIDE DEF e, free, input
  <2>4. /\ WithNode(g, free, input).source = g.source
        /\ WithNode(g, free, input).output = g.output
        /\ IdsOf(WithNode(g, free, input)) = IdsOf(g) \cup {free}
        /\ WithNode(g, free, input).nodes[free] = [kind |-> "adjust", inputs |-> {input}]
        /\ WithNode(g, free, input).nodes[g.output] = [kind |-> "output", inputs |-> {free}]
        /\ \A n \in IdsOf(g) : n # g.output =>
             WithNode(g, free, input).nodes[n] = g.nodes[n]
    BY ONLY <2>2, <2>3, WithNodeParts
  <2> QED
    BY <2>1, <2>4
<1>6. IsFiniteSet(IdsOf(e)) /\ IdsOf(e) \subseteq Nat /\ N + 1 = Cardinality(IdsOf(e))
  <2>1. IsFiniteSet(IdsOf(e)) /\ Cardinality(IdsOf(e)) = Cardinality(IdsOf(g)) + 1
    <3> DEFINE ids == IdsOf(g)
    <3>1. IsFiniteSet(ids) /\ free \notin ids /\ IdsOf(e) = ids \cup {free}
      BY <1>1, <1>3, <1>5
    <3> HIDE DEF e, free, ids
    <3>2. IsFiniteSet(ids \cup {free}) /\ Cardinality(ids \cup {free}) = Cardinality(ids) + 1
      BY ONLY <3>1, FS_AddElement
    <3> QED
      BY ONLY <3>1, <3>2 DEF ids
  <2> HIDE DEF e, free
  <2> QED
    BY <1>1, <1>2, <1>3, <1>5, <2>1
<1>7. /\ Described(text) = g /\ text.output = g.output
      /\ text.nodes = [i \in 1..N |-> Entry(g, old, inc[i])]
      /\ text = [source |-> g.source, output |-> g.output, nodes |-> text.nodes]
  <2>1. Described(text) = g
    BY <1>1, DescribedDocument
  <2>2. text.nodes = [i \in 1..N |-> Entry(g, old, inc[i])]
    BY <1>1, DocumentParts
  <2>3. text.output = g.output
    BY DEF Document
  <2>4. text = [source |-> g.source, output |-> g.output, nodes |-> text.nodes]
    BY DEF Document
  <2> QED
    BY <2>1, <2>2, <2>3, <2>4
<1>8. /\ new[free] = Normalized(number)
      /\ \A id \in IdsOf(g) : new[id] = old[id]
  <2> HIDE DEF e, free
  <2>1. \A id \in IdsOf(e) : new[id] = Normalized(added[id])
    BY DEF Stored
  <2>2. \A id \in IdsOf(g) : old[id] = Normalized(numbers[id]) /\ id \in IdsOf(e)
    BY <1>5 DEF Stored
  <2>3. free \in IdsOf(e)
    BY <1>5
  <2> QED
    BY <1>3, <2>1, <2>2, <2>3
<1> HIDE DEF e, free, added, old, new, inc, text, input
<1>9. at \in 1..N /\ inc[at] = g.output
  <2>1. DOMAIN text.nodes = 1..N /\ \A i \in 1..N : text.nodes[i].id = inc[i]
    BY <1>7 DEF Entry
  <2>2. \E i \in 1..N : inc[i] = g.output
    BY <1>2, <1>4
  <2> QED
    BY <1>7, <2>1, <2>2
<1> HIDE DEF at
<1>10. Lists(e, order, N + 1)
  <2>1. order \in [1..(N + 1) -> IdsOf(e)]
    BY <1>2, <1>5
  <2>2. /\ \A i \in 1..N : i \in 1..(N + 1) /\ order[i] = inc[i]
        /\ N + 1 \in 1..(N + 1) /\ order[N + 1] = free
        /\ \A i \in 1..(N + 1) : i \in 1..N \/ i = N + 1
    OBVIOUS
  <2> HIDE DEF order
  <2>3. \A id \in IdsOf(e) : \E i \in 1..(N + 1) : order[i] = id
    BY <1>2, <1>5, <2>2
  <2>4. \A i, j \in 1..(N + 1) : order[i] = order[j] => i = j
    BY <1>2, <1>3, <2>2
  <2> QED
    BY <1>6, <2>1, <2>3, <2>4 DEF Lists
<1>11. [text.nodes EXCEPT ![at].inputs = {free}] = first
  <2>1. \A i \in 1..N : i # at => Entry(e, new, inc[i]) = Entry(g, old, inc[i])
    BY <1>2, <1>5, <1>8, <1>9 DEF Entry
  <2>2. [text.nodes[at] EXCEPT !.inputs = {free}] = Entry(e, new, inc[at])
    <3>1. text.nodes[at] = Entry(g, old, g.output)
      BY <1>7, <1>9
    <3>2. new[g.output] = old[g.output]
      BY <1>4, <1>8
    <3> QED
      BY <1>4, <1>5, <1>9, <3>1, <3>2 DEF Entry
  <2>3. [text.nodes EXCEPT ![at].inputs = {free}] =
          [i \in 1..N |-> IF i = at THEN [text.nodes[at] EXCEPT !.inputs = {free}]
                          ELSE text.nodes[i]]
    BY <1>7, <1>9
  <2>4. \A i \in 1..N : (IF i = at THEN [text.nodes[at] EXCEPT !.inputs = {free}]
                         ELSE text.nodes[i]) = Entry(e, new, inc[i])
    BY <1>7, <2>1, <2>2
  <2> QED
    BY <2>3, <2>4
<1>12. [id |-> free, kind |-> "adjust", inputs |-> text.nodes[at].inputs,
        number |-> Normalized(number)] = Entry(e, new, free)
  <2>1. text.nodes[at].inputs = {input}
    BY <1>4, <1>7, <1>9 DEF Entry, Inputs
  <2> QED
    BY <1>5, <1>8, <2>1 DEF Entry
<1>13. Append(first, Entry(e, new, free)) = Document(e, order, new).nodes
  <2> DEFINE Entries == {Entry(e, new, id) : id \in IdsOf(e)}
             last    == Entry(e, new, free)
             whole   == [i \in 1..(N + 1) |-> Entry(e, new, order[i])]
  <2>1. first \in [1..N -> Entries] /\ last \in Entries /\ whole \in [1..(N + 1) -> Entries]
    <3>1. \A i \in 1..N : inc[i] \in IdsOf(e)
      BY <1>2, <1>5
    <3>2. \A i \in 1..(N + 1) : order[i] \in IdsOf(e)
      BY <1>10 DEF Lists
    <3> HIDE DEF order
    <3> QED
      BY <1>5, <3>1, <3>2
  <2>2. first \in Seq(Entries) /\ Len(first) = N /\ whole \in Seq(Entries) /\ Len(whole) = N + 1
    <3> HIDE DEF first, Entries, whole
    <3> QED
      BY <2>1
  <2>3. /\ \A i \in 1..N : whole[i] = first[i]
        /\ whole[N + 1] = last
    OBVIOUS
  <2> HIDE DEF first, whole, last, Entries
  <2>4. /\ Append(first, last) \in Seq(Entries) /\ Len(Append(first, last)) = N + 1
        /\ \A i \in 1..N : Append(first, last)[i] = first[i]
        /\ Append(first, last)[N + 1] = last
    BY <2>1, <2>2, AppendProperties
  <2>5. \A i \in 1..(N + 1) : Append(first, last)[i] = whole[i]
    BY <2>3, <2>4
  <2>6. Append(first, last) = whole
    BY <2>2, <2>4, <2>5, SeqEqual
  <2>7. Document(e, order, new).nodes = whole
    BY <1>10, DocumentParts DEF whole
  <2> QED
    BY <2>6, <2>7 DEF last
<1>14. ById(Append(first, Entry(e, new, free))) = Document(e, Increasing(e), new).nodes
  <2> HIDE DEF order, first
  <2> QED
    BY <1>6, <1>10, <1>13, SortedDocument
<1> HIDE DEF order, first
<1>15. Appended(text, requested, number) =
         [text EXCEPT !.nodes = ById(Append([text.nodes EXCEPT ![at].inputs = {free}],
                                            Entry(e, new, free)))]
  <2>1. FreeId(Described(text), requested) = free
    BY <1>7 DEF free
  <2> QED
    BY <1>12, <2>1 DEF Appended, at
<1>16. Appended(text, requested, number) =
         [source |-> g.source, output |-> g.output,
          nodes  |-> Document(e, Increasing(e), new).nodes]
  <2> DEFINE sorted == ById(Append([text.nodes EXCEPT ![at].inputs = {free}],
                                   Entry(e, new, free)))
  <2>1. sorted = Document(e, Increasing(e), new).nodes
    BY <1>11, <1>14
  <2>2. Appended(text, requested, number) = [text EXCEPT !.nodes = sorted]
    BY <1>15
  <2> HIDE DEF sorted
  <2>3. [text EXCEPT !.nodes = sorted] =
          [source |-> g.source, output |-> g.output, nodes |-> sorted]
    BY <1>7
  <2> QED
    BY <2>1, <2>2, <2>3
<1>17. Document(e, Increasing(e), new) =
         [source |-> g.source, output |-> g.output,
          nodes  |-> Document(e, Increasing(e), new).nodes]
  BY <1>5 DEF Document
<1> QED
  BY <1>16, <1>17 DEF e, free, added, old, new, inc, text

\* Every way to write an accepted graph down comes to one text, which the store
\* takes and every hash is of; an exposure appended to it gives the text of the
\* longer graph, refused at the node limit only.
THEOREM StoredIsCanonicalAlways == Spec => []StoredIsCanonical
<1>1. GraphInv => StoredIsCanonical
  <2> SUFFICES ASSUME GraphInv, NEW g \in graphs, NEW numbers \in Writings(g)
               PROVE  LET stored == Document(g, Increasing(g), Stored(g, numbers)) IN
                        /\ StoreAcceptsText(stored)
                        /\ \A order \in Orders(g) :
                             LET document == Document(g, order, numbers) IN
                               /\ Canonical(Parsed(document)) = stored
                               /\ ReplaceAccepts(document, stored)
                        /\ \A requested \in Ids, number \in Numbers :
                             LET longer == Appended(stored, requested, number) IN
                               /\ Described(longer) = Exposed(g, requested)
                               /\ StoreAcceptsText(longer) <=> Cardinality(IdsOf(g)) < MaxNodes
    BY DEF StoredIsCanonical, Stored
  <2> DEFINE inc    == Increasing(g)
             stored == Document(g, inc, Stored(g, numbers))
  <2>1. Typed(g) /\ CreateAccepts(g) /\ IsFiniteSet(IdsOf(g)) /\ IdsOf(g) \subseteq Nat
    BY DEF GraphInv, GraphsAccepted, Typed
  <2>2. PICK c : \E N \in Nat : IsChain(g, c) /\ Linked(g, c, N)
    BY <2>1, AcceptedIsLinked
  <2>3. PICK N \in Nat : IsChain(g, c) /\ Linked(g, c, N)
    BY <2>2
  <2>4. N = Cardinality(IdsOf(g)) /\ Lists(g, inc, N)
    BY <2>1, <2>3, IncreasingLists DEF Linked
  <2>5. StoreAccepts(g)
    BY <2>1, <2>3, ChainAccepted DEF StoreAccepts, CreateAccepts
  <2>6. StoreAcceptsText(stored)
    BY <2>1, <2>4, <2>5, StoredText
  <2>7. Canonical(stored) = stored /\ Parsed(stored) = stored
    BY <2>1, <2>4, ParsedDocument, CanonicalDocument, StoredTwice
  <2>8. ASSUME NEW order \in Orders(g)
        PROVE  /\ Canonical(Parsed(Document(g, order, numbers))) = stored
               /\ ReplaceAccepts(Document(g, order, numbers), stored)
    <3> DEFINE document == Document(g, order, numbers)
    <3>1. Lists(g, order, N)
      BY <2>1, <2>4, OrdersList
    <3>2. Parsed(document) = stored
      BY <2>1, <3>1, ParsedDocument
    <3>3. Described(document) = g
      BY <2>1, <3>1, DescribedDocument
    <3> HIDE DEF document, stored
    <3> QED
      BY <2>1, <2>7, <3>2, <3>3 DEF ReplaceAccepts, document
  <2>9. ASSUME NEW requested \in Ids, NEW number \in Numbers
        PROVE  /\ Described(Appended(stored, requested, number)) = Exposed(g, requested)
               /\ StoreAcceptsText(Appended(stored, requested, number)) <=>
                    Cardinality(IdsOf(g)) < MaxNodes
    <3> DEFINE e     == Exposed(g, requested)
               added == [id \in IdsOf(e) |-> IF id = FreeId(g, requested) THEN number
                                             ELSE numbers[id]]
    <3>1. requested \in Nat
      BY GraphAssumption
    <3>2. Appended(stored, requested, number) = Document(e, Increasing(e), Stored(e, added))
      BY <2>1, <2>3, <3>1, AppendedDocument
    <3>3. Typed(e) /\ Cardinality(IdsOf(e)) = N + 1
      BY <2>1, <2>3, <3>1, ExposedIsChain
    <3>4. StoreAccepts(e) <=> N < MaxNodes
      BY <2>1, <2>3, <3>1, ExposedAccepted
    <3> HIDE DEF e, added, stored
    <3>5. N + 1 \in Nat /\ IsFiniteSet(IdsOf(e)) /\ IdsOf(e) \subseteq Nat
      BY <3>3 DEF Typed
    <3>6. Lists(e, Increasing(e), N + 1)
      BY <3>3, <3>5, IncreasingLists
    <3>7. Described(Document(e, Increasing(e), Stored(e, added))) = e
      BY <3>3, <3>6, DescribedDocument
    <3>8. StoreAcceptsText(Document(e, Increasing(e), Stored(e, added))) <=> StoreAccepts(e)
      BY <3>3, <3>5, StoredText
    <3> QED
      BY <2>4, <3>2, <3>4, <3>7, <3>8 DEF e
  <2> QED
    BY <2>6, <2>8, <2>9
<1> QED
  BY <1>1, GraphInvariant, PTL

=============================================================================
