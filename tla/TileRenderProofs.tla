-------------------------- MODULE TileRenderProofs --------------------------
(***************************************************************************)
(* What is proved about TileRender for any number of callers, threads,     *)
(* tiles and graphs.                                                       *)
(*                                                                         *)
(* The byte count of the cache is a recursive function of its entries, so  *)
(* the proof needs induction.  The induction theorems of the library have  *)
(* an operator for a parameter and cannot be used; the principle is        *)
(* derived below for a set, from the well-foundedness of strict inclusion. *)
(***************************************************************************)
EXTENDS TileRender, FiniteSetTheorems, SequenceTheorems, TLAPS

(***************************************************************************)
(* Induction                                                               *)
(***************************************************************************)

\* A set of natural numbers that is not empty has a least element.
LEMMA LeastElement ==
  ASSUME NEW S \in SUBSET Nat, S # {}
  PROVE  \E n \in S : \A m \in S : n <= m
<1> DEFINE Below    == {1..n : n \in S}
           Order    == StrictSubsetOrdering(Nat)
           Subsets  == FiniteSubsetsOf(Nat)
<1>1. \A n \in S : 1..n \in Subsets
  <2> TAKE n \in S
  <2>1. n \in Int /\ 1 \in Int /\ 1..n \subseteq Nat
    OBVIOUS
  <2>2. IsFiniteSet(1..n)
    BY <2>1, FS_Interval
  <2> QED
    BY <2>1, <2>2 DEF FiniteSubsetsOf
<1>2. \A m, n \in S : m < n => <<1..m, 1..n>> \in Order
  <2> SUFFICES ASSUME NEW m \in S, NEW n \in S, m < n
               PROVE  <<1..m, 1..n>> \in Order
    OBVIOUS
  <2>1. 1..m \subseteq 1..n /\ n \in 1..n /\ n \notin 1..m
    OBVIOUS
  <2>2. 1..m \in SUBSET Nat /\ 1..n \in SUBSET Nat
    OBVIOUS
  <2> QED
    BY <2>1, <2>2 DEF StrictSubsetOrdering
<1>3. \E x \in Below : \A y \in Below : ~ (<<y, x>> \in Order)
  <2>1. Below \subseteq Subsets /\ Below # {}
    BY <1>1
  <2>2. IsWellFoundedOn(Order, Subsets)
    BY FS_StrictSubsetOrderingWellFounded
  <2> HIDE DEF Below, Order, Subsets
  <2> QED
    BY <2>1, <2>2, WFMin, Zenon
<1> HIDE DEF Order
<1>4. PICK n \in S : \A m \in S : ~ (<<1..m, 1..n>> \in Order)
  BY <1>3
<1>5. \A m \in S : ~ (m < n)
  BY <1>2, <1>4
<1> QED
  BY <1>5

\* Induction for a set of natural numbers.
LEMMA SetInduction ==
  ASSUME NEW S, 0 \in S, \A n \in Nat : n \in S => n + 1 \in S
  PROVE  \A n \in Nat : n \in S
<1>1. SUFFICES ASSUME Nat \ S # {} PROVE FALSE
  OBVIOUS
<1>2. PICK n \in Nat \ S : \A m \in Nat \ S : n <= m
  BY <1>1, LeastElement
<1> QED
  BY <1>2

(***************************************************************************)
(* The bytes of a sequence of entries                                      *)
(***************************************************************************)

\* The recursion that defines BytesHeld has a solution for every sequence.
LEMMA BytesHeldExists ==
  ASSUME NEW E, \A x \in E : x.bytes \in Nat, NEW e \in Seq(E)
  PROVE  \E f : f = [n \in 0..Len(e) |-> IF n = 0 THEN 0 ELSE f[n - 1] + e[n].bytes]
<1> DEFINE Sums(n, f) == /\ f[0] = 0
                         /\ \A m \in 1..n : f[m] = f[m - 1] + e[m].bytes
           Summed(n) == \E f \in [0..n -> Nat] : Sums(n, f)
           S == {n \in Nat : n <= Len(e) => Summed(n)}
<1>1. Len(e) \in Nat /\ \A n \in 1..Len(e) : e[n].bytes \in Nat
  OBVIOUS
<1>2. 0 \in S
  <2> DEFINE f == [m \in 0..0 |-> 0]
  <2>1. f \in [0..0 -> Nat] /\ Sums(0, f)
    OBVIOUS
  <2>2. Summed(0)
    BY <2>1
  <2> QED
    BY <2>2
<1>3. ASSUME NEW n \in Nat, n \in S PROVE n + 1 \in S
  <2> SUFFICES ASSUME n + 1 <= Len(e) PROVE Summed(n + 1)
    <3> HIDE DEF Summed
    <3> QED
      OBVIOUS
  <2>0. Summed(n)
    <3> HIDE DEF Summed
    <3> QED
      BY <1>1, <1>3
  <2>1. PICK f \in [0..n -> Nat] : Sums(n, f)
    BY <2>0
  <2> DEFINE g == [m \in 0..(n + 1) |-> IF m <= n THEN f[m] ELSE f[n] + e[n + 1].bytes]
  <2>2. e[n + 1].bytes \in Nat
    BY <1>1
  <2>3. g \in [0..(n + 1) -> Nat]
    BY <2>1, <2>2
  <2>4. Sums(n + 1, g)
    BY <2>1, <2>2
  <2> HIDE DEF g, Sums
  <2> QED
    BY <2>3, <2>4
<1> HIDE DEF S
<1>4. \A n \in Nat : n \in S
  BY <1>2, <1>3, SetInduction
<1>5. Summed(Len(e))
  <2> HIDE DEF Summed
  <2> QED
    BY <1>1, <1>4 DEF S
<1>6. PICK f \in [0..Len(e) -> Nat] : Sums(Len(e), f)
  BY <1>5
<1>7. f = [n \in 0..Len(e) |-> IF n = 0 THEN 0 ELSE f[n - 1] + e[n].bytes]
  BY <1>1, <1>6
<1> QED
  BY <1>7

\* BytesHeld is the running sum of the sizes.
LEMMA BytesHeldSums ==
  ASSUME NEW E, \A x \in E : x.bytes \in Nat, NEW e \in Seq(E)
  PROVE  /\ BytesHeld(e)[0] = 0
         /\ \A n \in 1..Len(e) : BytesHeld(e)[n] = BytesHeld(e)[n - 1] + e[n].bytes
         /\ \A n \in 0..Len(e) : BytesHeld(e)[n] \in Nat
<1>1. BytesHeld(e) = [n \in 0..Len(e) |-> IF n = 0 THEN 0 ELSE BytesHeld(e)[n - 1] + e[n].bytes]
  <2>1. \E f : f = [n \in 0..Len(e) |-> IF n = 0 THEN 0 ELSE f[n - 1] + e[n].bytes]
    BY BytesHeldExists
  <2> QED
    BY <2>1 DEF BytesHeld
<1>2. Len(e) \in Nat /\ \A n \in 1..Len(e) : e[n].bytes \in Nat
  OBVIOUS
<1> DEFINE h == BytesHeld(e)
           S == {n \in Nat : n <= Len(e) => h[n] \in Nat}
<1> HIDE DEF h
<1>3. h[0] = 0
  BY <1>1, <1>2 DEF h
<1>4. \A n \in 1..Len(e) : h[n] = h[n - 1] + e[n].bytes
  <2> TAKE n \in 1..Len(e)
  <2>1. n \in 0..Len(e) /\ n # 0
    BY <1>2
  <2> QED
    BY <1>1, <2>1 DEF h
<1>5. 0 \in S /\ \A n \in Nat : n \in S => n + 1 \in S
  BY <1>2, <1>3, <1>4
<1>6. \A n \in Nat : n \in S
  <2> HIDE DEF S
  <2> QED
    BY <1>5, SetInduction
<1> QED
  BY <1>2, <1>3, <1>4, <1>6 DEF h

\* It is the only one.
LEMMA BytesHeldUnique ==
  ASSUME NEW E, \A x \in E : x.bytes \in Nat, NEW e \in Seq(E),
         NEW g, g[0] = 0, \A n \in 1..Len(e) : g[n] = g[n - 1] + e[n].bytes
  PROVE  \A n \in 0..Len(e) : BytesHeld(e)[n] = g[n]
<1> DEFINE h == BytesHeld(e)
           S == {n \in Nat : n <= Len(e) => h[n] = g[n]}
<1>1. h[0] = 0 /\ \A n \in 1..Len(e) : h[n] = h[n - 1] + e[n].bytes
  BY BytesHeldSums
<1> HIDE DEF h
<1>2. 0 \in S /\ \A n \in Nat : n \in S => n + 1 \in S
  BY <1>1
<1>3. \A n \in Nat : n \in S
  <2> HIDE DEF S
  <2> QED
    BY <1>2, SetInduction
<1> QED
  BY <1>3 DEF h

(***************************************************************************)
(* The inductive invariant                                                 *)
(***************************************************************************)

Outputs == {Blank} \cup {Content(id, t) : id \in Identities, t \in Tiles}

Calls ==
  [identity : Identities, next : 1..(TileCount + 1), output : [Tiles -> Outputs],
   failure : {"none", "failed", "cancelled"}, unstarted : BOOLEAN, cancelled : BOOLEAN,
   hits : Nat, misses : Nat, rendered : Nat, stored : 0..TileCount]

Threads == {Exited, Looping} \cup [at : {"holding", "missed"}, tile : Tiles]

TypeOK ==
  /\ phase \in [Renders -> {"idle", "running", "storing", "done"}]
  /\ call \in [Renders -> Calls]
  /\ worker \in [Renders -> [Workers -> Threads]]
  /\ finished \subseteq Identities
  /\ expected \in Identities

\* A thread with work is busy with a tile.
Busy(thread) == thread.at \in {"holding", "missed"}

\* A tile that was written has its pixels.
WrittenRight(c) == \A t \in Tiles : c.output[t] \in {Blank, Content(c.identity, t)}

\* A thread works on a tile that was claimed.
WorkIsClaimed(c, threads) == \A w \in Workers : Busy(threads[w]) => threads[w].tile < c.next

\* A claimed tile is written, or some thread works on it, or the call failed.
ClaimsAreKept(c, threads) ==
  \A t \in Tiles : t < c.next =>
    \/ c.output[t] # Blank
    \/ \E w \in Workers : Busy(threads[w]) /\ threads[w].tile = t
    \/ c.failure # "none"

\* A thread ends when all tiles are claimed or the call cannot succeed any more.
ExitsAreEarned(c, threads) ==
  \A w \in Workers : threads[w].at = "exited" =>
    c.next > TileCount \/ c.failure # "none" \/ c.cancelled \/ c.unstarted

Working(c, threads) ==
  /\ WrittenRight(c)
  /\ WorkIsClaimed(c, threads)
  /\ ClaimsAreKept(c, threads)
  /\ ExitsAreEarned(c, threads)

Whole(c) == c.output = [t \in Tiles |-> Content(c.identity, t)]

Joining(threads) == \A w \in Workers : threads[w].at = "exited"

CallsInv ==
  \A r \in Renders :
    /\ phase[r] = "running" => Working(call[r], worker[r])
    /\ phase[r] # "running" => Joining(worker[r])
    /\ phase[r] \in {"storing", "done"} => Whole(call[r])
    /\ phase[r] = "storing" => call[r].identity \in finished

\* What the cache may hold when the images of these identities were finished.
EntryOf(id, t) == [key |-> Key(id, t), samples |-> Content(id, t), bytes |-> Bytes[t]]
EntriesOf(ids) == {EntryOf(id, t) : id \in ids, t \in Tiles}

DistinctKeys(entries) ==
  \A i, j \in 1..Len(entries) : i # j => entries[i].key # entries[j].key

CacheInv ==
  /\ recency \in Seq(EntriesOf(finished))
  /\ DistinctKeys(recency)
  /\ resident = BytesHeld(recency)[Len(recency)]
  /\ resident <= Capacity

RenderInv == TypeOK /\ CallsInv /\ CacheInv /\ NeverStale

(***************************************************************************)
(* The cache                                                               *)
(***************************************************************************)

\* The entries of the cache have sizes.
LEMMA EntriesHaveBytes ==
  ASSUME NEW ids
  PROVE  \A x \in EntriesOf(ids) : x.bytes \in Nat
BY RenderAssumption DEF EntriesOf, EntryOf, Tiles

\* Moving an entry to the front keeps the entries, their keys and their bytes.
LEMMA TouchKeeps ==
  ASSUME NEW ids, NEW s \in Seq(EntriesOf(ids)), DistinctKeys(s), NEW i \in 1..Len(s),
         NEW q, q = <<s[i]>> \o RemoveAt(s, i)
  PROVE  /\ q \in Seq(EntriesOf(ids))
         /\ DistinctKeys(q)
         /\ BytesHeld(q)[Len(q)] = BytesHeld(s)[Len(s)]
<1> DEFINE E == EntriesOf(ids)
           g == [n \in 0..Len(s) |-> IF n = 0 THEN 0
                                     ELSE IF n <= i THEN s[i].bytes + BytesHeld(s)[n - 1]
                                     ELSE BytesHeld(s)[n]]
<1>1. \A x \in E : x.bytes \in Nat
  BY EntriesHaveBytes
<1> HIDE DEF E
<1>2. /\ q \in Seq(E)
      /\ Len(q) = Len(s)
      /\ \A j \in 1..Len(s) : q[j] = IF j = 1 THEN s[i] ELSE IF j <= i THEN s[j - 1] ELSE s[j]
  <2>1. s \in Seq(E) /\ Len(s) \in Nat /\ s[i] \in E
    BY DEF E
  <2> DEFINE front == SubSeq(s, 1, i - 1)
             back  == SubSeq(s, i + 1, Len(s))
  <2>2. /\ front \in Seq(E) /\ Len(front) = i - 1
        /\ \A j \in 1..(i - 1) : front[j] = s[j]
    BY <2>1
  <2>3. /\ back \in Seq(E) /\ Len(back) = Len(s) - i
        /\ \A j \in 1..(Len(s) - i) : back[j] = s[i + j]
    BY <2>1
  <2> HIDE DEF front, back
  <2> DEFINE rest == front \o back
  <2>4. /\ rest \in Seq(E) /\ Len(rest) = Len(s) - 1
        /\ \A j \in 1..(Len(s) - 1) : rest[j] = IF j <= i - 1 THEN s[j] ELSE s[j + 1]
    <3>1. /\ rest \in Seq(E) /\ Len(rest) = Len(front) + Len(back)
          /\ \A j \in 1..(Len(front) + Len(back)) :
               rest[j] = IF j <= Len(front) THEN front[j] ELSE back[j - Len(front)]
      BY <2>2, <2>3, ConcatProperties
    <3> HIDE DEF rest
    <3> QED
      BY <2>1, <2>2, <2>3, <3>1
  <2>5. q = <<s[i]>> \o rest
    BY DEF RemoveAt, rest, front, back
  <2> HIDE DEF rest
  <2>6. <<s[i]>> \in Seq(E) /\ Len(<<s[i]>>) = 1 /\ <<s[i]>>[1] = s[i]
    BY <2>1
  <2>7. /\ q \in Seq(E) /\ Len(q) = 1 + Len(rest)
        /\ \A j \in 1..(1 + Len(rest)) : q[j] = IF j <= 1 THEN s[i] ELSE rest[j - 1]
    <3> DEFINE one == <<s[i]>>
    <3>1. one \in Seq(E) /\ rest \in Seq(E) /\ q = one \o rest
      BY <2>4, <2>5, <2>6
    <3>2. Len(one) = 1 /\ one[1] = s[i]
      OBVIOUS
    <3> HIDE DEF one
    <3>3. /\ q \in Seq(E) /\ Len(q) = Len(one) + Len(rest)
          /\ \A j \in 1..(Len(one) + Len(rest)) :
               q[j] = IF j <= Len(one) THEN one[j] ELSE rest[j - Len(one)]
      BY ONLY <3>1, ConcatProperties
    <3> QED
      BY <2>1, <2>4, <3>2, <3>3
  <2> QED
    BY <2>1, <2>4, <2>7
<1>3. DistinctKeys(q)
  <2> SUFFICES ASSUME NEW j \in 1..Len(q), NEW k \in 1..Len(q), j # k
               PROVE  q[j].key # q[k].key
    BY DEF DistinctKeys
  <2> DEFINE from(n) == IF n = 1 THEN i ELSE IF n <= i THEN n - 1 ELSE n
  <2>1. /\ from(j) \in 1..Len(s) /\ from(k) \in 1..Len(s) /\ from(j) # from(k)
        /\ q[j] = s[from(j)] /\ q[k] = s[from(k)]
    BY <1>2
  <2> HIDE DEF from
  <2> QED
    BY <2>1 DEF DistinctKeys
<1>4. /\ BytesHeld(s)[0] = 0
      /\ \A n \in 1..Len(s) : BytesHeld(s)[n] = BytesHeld(s)[n - 1] + s[n].bytes
      /\ \A n \in 0..Len(s) : BytesHeld(s)[n] \in Nat
  BY <1>1, BytesHeldSums DEF E
<1>5. \A n \in 1..Len(s) : s[n].bytes \in Nat
  BY <1>1 DEF E
<1>6. g[0] = 0 /\ \A n \in 1..Len(q) : g[n] = g[n - 1] + q[n].bytes
  <2>1. g[0] = 0
    OBVIOUS
  <2> SUFFICES ASSUME NEW n \in 1..Len(q) PROVE g[n] = g[n - 1] + q[n].bytes
    BY <2>1
  <2>2. n \in 1..Len(s) /\ n - 1 \in 0..Len(s)
    BY <1>2
  <2>3. CASE n = 1
    BY <1>2, <1>4, <1>5, <2>2, <2>3
  <2>4. CASE n # 1 /\ n <= i
    <3>1. q[n] = s[n - 1] /\ n - 1 \in 1..Len(s) /\ n - 1 # 0 /\ n - 1 <= i
      BY <1>2, <2>2, <2>4
    <3>2. g[n] = s[i].bytes + BytesHeld(s)[n - 1] /\ g[n - 1] = s[i].bytes + BytesHeld(s)[n - 2]
      BY <2>2, <2>4, <3>1
    <3>3. BytesHeld(s)[n - 1] = BytesHeld(s)[n - 2] + s[n - 1].bytes
      BY <1>4, <3>1
    <3>4. BytesHeld(s)[n - 2] \in Nat /\ s[i].bytes \in Nat /\ s[n - 1].bytes \in Nat
      BY <1>4, <1>5, <3>1
    <3> HIDE DEF g
    <3> QED
      BY <3>1, <3>2, <3>3, <3>4
  <2>5. CASE n > i
    <3>1. q[n] = s[n] /\ g[n] = BytesHeld(s)[n]
      BY <1>2, <2>2, <2>5
    <3>2. g[n - 1] = BytesHeld(s)[n - 1]
      <4>1. CASE n - 1 = i
        BY <1>4, <1>5, <2>2, <4>1
      <4>2. CASE n - 1 > i
        BY <2>2, <4>2
      <4> QED
        BY <2>5, <4>1, <4>2
    <3> HIDE DEF g
    <3> QED
      BY <1>4, <2>2, <3>1, <3>2
  <2> QED
    BY <2>3, <2>4, <2>5
<1>7. g[Len(s)] = BytesHeld(s)[Len(s)]
  <2>1. CASE i = Len(s)
    BY <1>4, <1>5, <2>1
  <2>2. CASE i # Len(s)
    BY <2>2
  <2> QED
    BY <2>1, <2>2
<1> HIDE DEF g
<1>8. \A n \in 0..Len(q) : BytesHeld(q)[n] = g[n]
  <2>1. q \in Seq(E)
    BY <1>2
  <2> QED
    BY <1>1, <1>6, <2>1, BytesHeldUnique
<1> QED
  BY <1>2, <1>3, <1>7, <1>8 DEF E

\* An entry in front of the n most recent ones.
LEMMA AdmitSequence ==
  ASSUME NEW E, NEW s \in Seq(E), NEW n \in 0..Len(s), NEW x \in E
  PROVE  /\ <<x>> \o SubSeq(s, 1, n) \in Seq(E)
         /\ Len(<<x>> \o SubSeq(s, 1, n)) = n + 1
         /\ (<<x>> \o SubSeq(s, 1, n))[1] = x
         /\ \A j \in 1..n : (<<x>> \o SubSeq(s, 1, n))[j + 1] = s[j]
<1>1. Len(s) \in Nat /\ n \in Nat
  OBVIOUS
<1> DEFINE kept == SubSeq(s, 1, n)
           one  == <<x>>
<1>2. kept \in Seq(E) /\ Len(kept) = n /\ \A j \in 1..n : kept[j] = s[j]
  BY <1>1
<1>3. one \in Seq(E) /\ Len(one) = 1 /\ one[1] = x
  OBVIOUS
<1> HIDE DEF kept, one
<1>4. /\ one \o kept \in Seq(E)
      /\ Len(one \o kept) = Len(one) + Len(kept)
      /\ \A j \in 1..(Len(one) + Len(kept)) :
           (one \o kept)[j] = IF j <= Len(one) THEN one[j] ELSE kept[j - Len(one)]
  BY <1>2, <1>3, ConcatProperties
<1>5. /\ one \o kept \in Seq(E)
      /\ Len(one \o kept) = n + 1
      /\ (one \o kept)[1] = x
      /\ \A j \in 1..n : (one \o kept)[j + 1] = s[j]
  BY <1>1, <1>2, <1>3, <1>4
<1> QED
  BY <1>5 DEF one, kept

\* Admitting an entry with a new key keeps the keys distinct.
LEMMA AdmitKeepsKeys ==
  ASSUME NEW E, NEW s \in Seq(E), NEW n \in 0..Len(s), NEW x \in E, NEW q \in Seq(E),
         Len(q) = n + 1, q[1] = x, \A j \in 1..n : q[j + 1] = s[j],
         DistinctKeys(s), \A i \in 1..Len(s) : s[i].key # x.key
  PROVE  DistinctKeys(q)
<1> SUFFICES ASSUME NEW j \in 1..Len(q), NEW k \in 1..Len(q), j < k
             PROVE  q[j].key # q[k].key
  BY DEF DistinctKeys
<1>1. q[k] = s[k - 1] /\ k - 1 \in 1..Len(s)
  <2>1. k - 1 \in 1..n /\ k = (k - 1) + 1
    OBVIOUS
  <2> QED
    BY <2>1
<1>2. CASE j = 1
  BY <1>1, <1>2
<1>3. CASE j # 1
  <2>1. j - 1 \in 1..n /\ j = (j - 1) + 1 /\ j - 1 # k - 1
    BY <1>3
  <2>2. q[j] = s[j - 1] /\ j - 1 \in 1..Len(s)
    BY <2>1
  <2> QED
    BY <1>1, <2>1, <2>2 DEF DistinctKeys
<1> QED
  BY <1>2, <1>3

\* What is held then are its bytes and those of the entries that were kept.
LEMMA AdmitCounts ==
  ASSUME NEW E, \A y \in E : y.bytes \in Nat,
         NEW s \in Seq(E), NEW n \in 0..Len(s), NEW x \in E, NEW q \in Seq(E),
         Len(q) = n + 1, q[1] = x, \A j \in 1..n : q[j + 1] = s[j]
  PROVE  BytesHeld(q)[n + 1] = BytesHeld(s)[n] + x.bytes
<1> DEFINE g == [m \in 0..(n + 1) |-> IF m = 0 THEN 0 ELSE BytesHeld(s)[m - 1] + x.bytes]
<1>1. /\ BytesHeld(s)[0] = 0
      /\ \A m \in 1..Len(s) : BytesHeld(s)[m] = BytesHeld(s)[m - 1] + s[m].bytes
      /\ \A m \in 0..Len(s) : BytesHeld(s)[m] \in Nat
  BY BytesHeldSums
<1>2. x.bytes \in Nat /\ \A m \in 1..Len(s) : s[m].bytes \in Nat
  OBVIOUS
<1>3. g[0] = 0 /\ \A m \in 1..(n + 1) : g[m] = BytesHeld(s)[m - 1] + x.bytes
  OBVIOUS
<1>4. g[n + 1] = BytesHeld(s)[n] + x.bytes
  BY <1>3
<1> HIDE DEF g
<1>5. ASSUME NEW m \in 1..Len(q) PROVE g[m] = g[m - 1] + q[m].bytes
  <2>1. CASE m = 1
    BY <1>1, <1>2, <1>3, <2>1
  <2>2. CASE m # 1
    <3>1. m - 1 \in 1..n /\ m - 1 \in 1..Len(s) /\ m = (m - 1) + 1
      BY <2>2
    <3>2. q[m].bytes = s[m - 1].bytes
      BY <3>1
    <3>3. g[m - 1] = BytesHeld(s)[(m - 1) - 1] + x.bytes /\ g[m] = BytesHeld(s)[m - 1] + x.bytes
      BY <1>3, <3>1
    <3>4. BytesHeld(s)[m - 1] = BytesHeld(s)[(m - 1) - 1] + s[m - 1].bytes
      BY <1>1, <3>1
    <3>5. BytesHeld(s)[(m - 1) - 1] \in Nat /\ s[m - 1].bytes \in Nat
      BY <1>1, <1>2, <3>1
    <3> QED
      BY <1>2, <3>2, <3>3, <3>4, <3>5
  <2> QED
    BY <2>1, <2>2
<1>6. \A m \in 0..Len(q) : BytesHeld(q)[m] = g[m]
  BY ONLY \A y \in E : y.bytes \in Nat, q \in Seq(E), <1>3, <1>5, BytesHeldUnique
<1> QED
  BY <1>4, <1>6

\* Evicting until a tile fits ends before the cache is empty, or when it is: the
\* loop never takes an entry from an empty list, and the tile then fits.
LEMMA VictimsFit ==
  ASSUME CacheInv, NEW b \in Nat, b <= Capacity
  PROVE  /\ Victims(b) \in 0..Len(recency)
         /\ b <= Capacity - (resident - OldestBytes(Victims(b)))
         /\ resident - OldestBytes(Victims(b)) = BytesHeld(recency)[Len(recency) - Victims(b)]
<1> DEFINE Fits(n) == b <= Capacity - (resident - OldestBytes(n))
           S == {n \in 0..Len(recency) : Fits(n)}
<1>1. /\ Len(recency) \in Nat
      /\ BytesHeld(recency)[0] = 0
      /\ \A n \in 0..Len(recency) : BytesHeld(recency)[n] \in Nat
      /\ resident = BytesHeld(recency)[Len(recency)]
  BY EntriesHaveBytes, BytesHeldSums DEF CacheInv
<1>2. \A n \in 0..Len(recency) : resident - OldestBytes(n) = BytesHeld(recency)[Len(recency) - n]
  BY <1>1 DEF OldestBytes
<1>3. Len(recency) \in S
  BY <1>1, <1>2, RenderAssumption
<1>4. PICK n \in S : \A m \in S : n <= m
  <2>1. S \in SUBSET Nat /\ S # {}
    BY <1>1, <1>3
  <2> HIDE DEF S
  <2> QED
    BY <2>1, LeastElement
<1>5. \A m \in 0..(n - 1) : m \in 0..Len(recency) /\ ~ Fits(m)
  <2> HIDE DEF Fits
  <2> QED
    BY <1>1, <1>4
<1>6. \A m \in 0..(n - 1) : b > Capacity - (resident - OldestBytes(m))
  <2> SUFFICES ASSUME NEW m \in 0..(n - 1) PROVE b > Capacity - (resident - OldestBytes(m))
    OBVIOUS
  <2>0. m \in 0..Len(recency)
    BY <1>5
  <2>1. resident - OldestBytes(m) \in Nat
    <3>1. resident - OldestBytes(m) = BytesHeld(recency)[Len(recency) - m]
      BY <1>2, <2>0
    <3>2. Len(recency) - m \in 0..Len(recency)
      BY <1>1, <2>0
    <3> QED
      BY <1>1, <3>1, <3>2
  <2>2. ~ (b <= Capacity - (resident - OldestBytes(m)))
    BY <1>5
  <2> HIDE DEF Fits, S
  <2> DEFINE left == resident - OldestBytes(m)
  <2> HIDE DEF left
  <2> QED
    BY <2>1, <2>2, RenderAssumption DEF left
<1>7. Victims(b) \in 0..Len(recency) /\ Fits(Victims(b))
  BY <1>4, <1>6 DEF Victims
<1> QED
  BY <1>2, <1>7

\* A hit has the pixels of the tile that was looked up: the key tells graph and
\* tile apart.
LEMMA HitsAreRight ==
  ASSUME CacheInv, NEW id \in Identities, NEW t \in Tiles, NEW i \in Cached(Key(id, t))
  PROVE  i \in 1..Len(recency) /\ recency[i].samples = Content(id, t)
<1>1. i \in 1..Len(recency) /\ recency[i].key = Key(id, t) /\ recency[i] \in EntriesOf(finished)
  BY DEF Cached, CacheInv
<1>2. PICK d \in finished, u \in Tiles : recency[i] = EntryOf(d, u)
  BY <1>1 DEF EntriesOf
<1>3. Key(d, u) = Key(id, t) /\ recency[i].samples = Content(d, u)
  BY <1>1, <1>2 DEF EntryOf
<1>4. d.graph = id.graph /\ u = t
  BY <1>3 DEF Key
<1> QED
  BY <1>1, <1>3, <1>4 DEF Content

\* A hit moves its entry to the front.
LEMMA TouchKeepsCache ==
  ASSUME CacheInv, NEW k, NEW i \in Cached(k), recency' = Touched(i),
         resident' = resident, finished' = finished
  PROVE  CacheInv'
<1>1. i \in 1..Len(recency) /\ recency \in Seq(EntriesOf(finished)) /\ DistinctKeys(recency)
  BY DEF Cached, CacheInv
<1> DEFINE s == recency
           q == recency'
<1>2. q = <<s[i]>> \o RemoveAt(s, i)
  BY DEF Touched
<1>3. EntriesOf(finished)' = EntriesOf(finished)
  BY DEF EntriesOf, EntryOf
<1>4. /\ q \in Seq(EntriesOf(finished))
      /\ DistinctKeys(q)
      /\ BytesHeld(q)[Len(q)] = BytesHeld(s)[Len(s)]
  <2>1. s \in Seq(EntriesOf(finished))
    BY <1>1
  <2>2. i \in 1..Len(s)
    BY <1>1
  <2>3. DistinctKeys(s)
    BY <1>1
  <2> HIDE DEF s, q
  <2> QED
    BY <1>2, <2>1, <2>2, <2>3, TouchKeeps
<1>5. BytesHeld(recency)' = BytesHeld(q) /\ DistinctKeys(recency)' = DistinctKeys(q)
  BY DEF BytesHeld, DistinctKeys
<1> QED
  BY <1>3, <1>4, <1>5 DEF CacheInv

\* Admitting a tile of a finished image keeps the cache within its budget.
LEMMA StoreKeepsCache ==
  ASSUME CacheInv, NEW id \in finished, NEW t \in Tiles,
         StoreTile(id, t, Content(id, t)), finished' = finished
  PROVE  CacheInv'
<1> DEFINE s == recency
           q == recency'
           x == EntryOf(id, t)
<1>1. /\ s \in Seq(EntriesOf(finished)) /\ DistinctKeys(s)
      /\ x \in EntriesOf(finished) /\ x.bytes = Bytes[t] /\ Bytes[t] \in Nat
      /\ x = [key |-> Key(id, t), samples |-> Content(id, t), bytes |-> Bytes[t]]
      /\ Len(s) \in Nat
  BY RenderAssumption DEF CacheInv, EntriesOf, EntryOf, Tiles
<1>2. EntriesOf(finished)' = EntriesOf(finished)
  BY DEF EntriesOf, EntryOf
<1>3. CASE UNCHANGED cache
  BY <1>2, <1>3 DEF CacheInv, cache, DistinctKeys, BytesHeld
<1>4. CASE \E i \in Cached(Key(id, t)) : recency' = Touched(i) /\ UNCHANGED resident
  BY <1>4, TouchKeepsCache
<1>5. CASE /\ Bytes[t] <= Capacity /\ Cached(Key(id, t)) = {}
           /\ recency' = <<x>> \o SubSeq(recency, 1, Len(recency) - Victims(Bytes[t]))
           /\ resident' = resident - OldestBytes(Victims(Bytes[t])) + Bytes[t]
  <2> DEFINE n == Len(s) - Victims(Bytes[t])
  <2>1. /\ n \in 0..Len(s)
        /\ resident - OldestBytes(Victims(Bytes[t])) = BytesHeld(s)[n]
        /\ Bytes[t] <= Capacity - BytesHeld(s)[n]
    BY <1>1, <1>5, VictimsFit
  <2>2. BytesHeld(s)[n] \in Nat
    BY <1>1, <2>1, EntriesHaveBytes, BytesHeldSums
  <2>3. \A i \in 1..Len(s) : s[i].key # x.key
    BY <1>1, <1>5 DEF Cached
  <2>4. q = <<x>> \o SubSeq(s, 1, n)
    BY <1>5
  <2>5. /\ q \in Seq(EntriesOf(finished))
        /\ DistinctKeys(q)
        /\ BytesHeld(q)[Len(q)] = BytesHeld(s)[n] + x.bytes
    <3> DEFINE E == EntriesOf(finished)
    <3>1. s \in Seq(E) /\ x \in E /\ n \in 0..Len(s) /\ DistinctKeys(s)
      BY <1>1, <2>1
    <3>2. \A y \in E : y.bytes \in Nat
      BY EntriesHaveBytes
    <3> HIDE DEF s, q, x, n, E
    <3>3. q \in Seq(E) /\ Len(q) = n + 1 /\ q[1] = x /\ \A j \in 1..n : q[j + 1] = s[j]
      BY <2>4, <3>1, AdmitSequence
    <3>4. DistinctKeys(q)
      BY <2>3, <3>1, <3>3, AdmitKeepsKeys
    <3>5. BytesHeld(q)[n + 1] = BytesHeld(s)[n] + x.bytes
      BY <3>1, <3>2, <3>3, AdmitCounts
    <3> QED
      BY <3>3, <3>4, <3>5 DEF E
  <2>6. resident' = BytesHeld(q)[Len(q)] /\ resident' <= Capacity
    BY <1>1, <1>5, <2>1, <2>2, <2>5, RenderAssumption
  <2>7. BytesHeld(recency)' = BytesHeld(q) /\ DistinctKeys(recency)' = DistinctKeys(q)
    BY DEF BytesHeld, DistinctKeys
  <2> QED
    BY <1>2, <2>5, <2>6, <2>7 DEF CacheInv
<1> QED
  BY <1>1, <1>3, <1>4, <1>5 DEF StoreTile

\* Without a step of the cache its invariant stays when more images are finished.
LEMMA CacheStays ==
  ASSUME CacheInv, UNCHANGED cache, finished \subseteq finished'
  PROVE  CacheInv'
<1>1. EntriesOf(finished) \subseteq EntriesOf(finished')
  BY DEF EntriesOf
<1>2. recency \in Seq(EntriesOf(finished'))
  BY <1>1, SeqMonotonic DEF CacheInv
<1>3. EntriesOf(finished)' = EntriesOf(finished')
  BY DEF EntriesOf, EntryOf
<1> QED
  BY <1>2, <1>3 DEF CacheInv, cache, DistinctKeys, BytesHeld

(***************************************************************************)
(* The calls                                                               *)
(***************************************************************************)

\* A step of one call that leaves a good call and good threads keeps the
\* invariant of all of them.
LEMMA CallMoves ==
  ASSUME TypeOK, CallsInv, NEW r \in Renders,
         NEW p \in {"idle", "running", "storing", "done"},
         NEW c \in Calls, NEW ws \in [Workers -> Threads],
         phase' = [phase EXCEPT ![r] = p], call' = [call EXCEPT ![r] = c],
         worker' = [worker EXCEPT ![r] = ws],
         finished \subseteq finished', finished' \subseteq Identities, expected' = expected,
         p = "running" => Working(c, ws),
         p # "running" => Joining(ws),
         p \in {"storing", "done"} => Whole(c),
         p = "storing" => c.identity \in finished'
  PROVE  TypeOK' /\ CallsInv'
<1>1. TypeOK'
  BY DEF TypeOK
<1>2. ASSUME NEW o \in Renders
      PROVE  /\ phase'[o] = IF o = r THEN p ELSE phase[o]
             /\ call'[o] = IF o = r THEN c ELSE call[o]
             /\ worker'[o] = IF o = r THEN ws ELSE worker[o]
  BY DEF TypeOK
<1>3. ASSUME NEW o \in Renders
      PROVE  /\ phase'[o] = "running" => Working(call'[o], worker'[o])
             /\ phase'[o] # "running" => Joining(worker'[o])
             /\ phase'[o] \in {"storing", "done"} => Whole(call'[o])
             /\ phase'[o] = "storing" => call'[o].identity \in finished'
  <2>1. CASE o = r
    BY <1>2, <2>1
  <2>2. CASE o # r
    BY <1>2, <2>2 DEF CallsInv
  <2> QED
    BY <2>1, <2>2
<1>4. CallsInv'
  BY <1>3 DEF CallsInv, Joining, Working, WrittenRight, WorkIsClaimed, ClaimsAreKept, ExitsAreEarned, Busy, Whole
<1> QED
  BY <1>1, <1>4

\* A call that starts has nothing written and nothing claimed.
LEMMA NewCallWorks ==
  ASSUME NEW id \in Identities, NEW started \in SUBSET Workers,
         NEW c, c = [NewCall(id) EXCEPT !.unstarted = started # Workers],
         NEW ws, ws = [w \in Workers |-> IF w \in started THEN Looping ELSE Exited]
  PROVE  c \in Calls /\ ws \in [Workers -> Threads] /\ Working(c, ws)
<1>1. TileCount \in Nat /\ 1 \in 1..(TileCount + 1) /\ 0 \in 0..TileCount /\ 0 \in Nat
  BY RenderAssumption
<1>2. [t \in Tiles |-> Blank] \in [Tiles -> Outputs]
  BY DEF Outputs
<1>3. (started # Workers) \in BOOLEAN
  OBVIOUS
<1>4. NewCall(id) \in Calls
  BY <1>1, <1>2 DEF NewCall, Calls
<1>5. c \in Calls
  BY <1>3, <1>4 DEF Calls
<1>6. /\ c.identity = id /\ c.next = 1 /\ c.output = [t \in Tiles |-> Blank]
      /\ c.unstarted = (started # Workers)
  BY DEF NewCall
<1>7. ws \in [Workers -> Threads]
  BY DEF Threads
<1>8. \A w \in Workers : ~ Busy(ws[w]) /\ (ws[w].at = "exited" => w \notin started)
  BY DEF Busy, Looping, Exited
<1>9. WrittenRight(c) /\ WorkIsClaimed(c, ws) /\ ExitsAreEarned(c, ws)
  BY <1>6, <1>8 DEF WrittenRight, WorkIsClaimed, ExitsAreEarned
<1>10. ClaimsAreKept(c, ws)
  BY <1>6 DEF ClaimsAreKept, Tiles
<1> QED
  BY <1>5, <1>7, <1>9, <1>10 DEF Working

\* The thread that claims the next tile works on it.
LEMMA ClaimWorks ==
  ASSUME NEW c \in Calls, NEW ws \in [Workers -> Threads], Working(c, ws), NEW w \in Workers,
         ws[w].at = "loop", c.next <= TileCount,
         NEW d, d = [c EXCEPT !.next = @ + 1],
         NEW us, us = [ws EXCEPT ![w] = [at |-> "holding", tile |-> c.next]]
  PROVE  d \in Calls /\ us \in [Workers -> Threads] /\ Working(d, us)
<1>1. TileCount \in Nat /\ c.next \in 1..(TileCount + 1) /\ c.next \in Tiles
  BY RenderAssumption DEF Calls, Tiles
<1>2. d \in Calls
  BY <1>1 DEF Calls
<1>3. /\ d.identity = c.identity /\ d.next = c.next + 1 /\ d.output = c.output
      /\ d.failure = c.failure
  BY DEF Calls
<1>4. (d.cancelled = c.cancelled) /\ (d.unstarted = c.unstarted)
  BY DEF Calls
<1>5. [at |-> "holding", tile |-> c.next] \in Threads
  BY <1>1 DEF Threads
<1>6. us \in [Workers -> Threads]
  BY <1>5
<1>7. /\ us[w].at = "holding" /\ us[w].tile = c.next
      /\ \A v \in Workers \ {w} : us[v] = ws[v]
  OBVIOUS
<1>8. WrittenRight(d)
  BY <1>3 DEF WrittenRight, Working
<1>9. WorkIsClaimed(d, us)
  <2> SUFFICES ASSUME NEW v \in Workers, Busy(us[v]) PROVE us[v].tile < d.next
    BY DEF WorkIsClaimed
  <2>1. CASE v = w
    BY <1>1, <1>3, <1>7, <2>1
  <2>2. CASE v # w
    <3>1. ws[v].tile < c.next
      BY <1>7, <2>2 DEF Working, WorkIsClaimed
    <3>2. ws[v].tile \in Tiles
      BY <1>7, <2>2 DEF Busy, Threads, Exited, Looping
    <3> QED
      BY <1>1, <1>3, <1>7, <2>2, <3>1, <3>2 DEF Tiles
  <2> QED
    BY <2>1, <2>2
<1>10. ClaimsAreKept(d, us)
  <2> SUFFICES ASSUME NEW t \in Tiles, t < d.next
               PROVE  \/ d.output[t] # Blank
                      \/ \E v \in Workers : Busy(us[v]) /\ us[v].tile = t
                      \/ d.failure # "none"
    BY DEF ClaimsAreKept
  <2>1. CASE t = c.next
    BY <1>7, <2>1 DEF Busy
  <2>2. CASE t # c.next
    <3>1. t < c.next
      BY <1>1, <1>3, <2>2 DEF Tiles
    <3>2. \/ c.output[t] # Blank
          \/ \E v \in Workers : Busy(ws[v]) /\ ws[v].tile = t
          \/ c.failure # "none"
      BY <3>1 DEF Working, ClaimsAreKept
    <3> QED
      BY <1>3, <1>7, <3>2 DEF Busy
  <2> QED
    BY <2>1, <2>2
<1>11. ExitsAreEarned(d, us)
  <2> SUFFICES ASSUME NEW v \in Workers, us[v].at = "exited"
               PROVE  d.next > TileCount \/ d.failure # "none" \/ d.cancelled \/ d.unstarted
    BY DEF ExitsAreEarned
  <2>1. v # w /\ ws[v].at = "exited"
    BY <1>7
  <2>2. c.next > TileCount \/ c.failure # "none" \/ c.cancelled \/ c.unstarted
    BY <2>1 DEF Working, ExitsAreEarned
  <2> QED
    BY <1>1, <1>3, <1>4, <2>2
<1> QED
  BY <1>2, <1>6, <1>8, <1>9, <1>10, <1>11 DEF Working

\* A thread that leaves the loop for a reason.
LEMMA ExitWorks ==
  ASSUME NEW c \in Calls, NEW ws \in [Workers -> Threads], Working(c, ws), NEW w \in Workers,
         ws[w].at = "loop", c.next > TileCount \/ c.failure # "none" \/ c.cancelled,
         NEW us, us = [ws EXCEPT ![w] = Exited]
  PROVE  us \in [Workers -> Threads] /\ Working(c, us)
<1>1. us \in [Workers -> Threads]
  BY DEF Threads
<1>2. us[w] = Exited /\ \A v \in Workers \ {w} : us[v] = ws[v]
  OBVIOUS
<1>3. ~ Busy(ws[w]) /\ ~ Busy(us[w])
  BY <1>2 DEF Busy, Exited
<1>4. WorkIsClaimed(c, us)
  BY <1>2, <1>3 DEF WorkIsClaimed, Working
<1>5. ClaimsAreKept(c, us)
  <2> SUFFICES ASSUME NEW t \in Tiles, t < c.next
               PROVE  \/ c.output[t] # Blank
                      \/ \E v \in Workers : Busy(us[v]) /\ us[v].tile = t
                      \/ c.failure # "none"
    BY DEF ClaimsAreKept
  <2>1. \/ c.output[t] # Blank
        \/ \E v \in Workers : Busy(ws[v]) /\ ws[v].tile = t
        \/ c.failure # "none"
    BY DEF Working, ClaimsAreKept
  <2> QED
    BY <1>2, <1>3, <2>1
<1>6. ExitsAreEarned(c, us)
  BY <1>2 DEF ExitsAreEarned, Working
<1> QED
  BY <1>1, <1>4, <1>5, <1>6 DEF Working

\* What the good work of a call depends on.
SameClaims(c, d) ==
  /\ d.identity = c.identity
  /\ d.next = c.next
  /\ (d.unstarted = c.unstarted)

\* A thread that has written the pixels of its tile claims another.
LEMMA WriteWorks ==
  ASSUME NEW c \in Calls, NEW ws \in [Workers -> Threads], Working(c, ws), NEW w \in Workers,
         Busy(ws[w]), NEW t, t = ws[w].tile,
         NEW d \in Calls, SameClaims(c, d), d.failure = c.failure, d.cancelled = c.cancelled,
         d.output = [c.output EXCEPT ![t] = Content(c.identity, t)],
         NEW us, us = [ws EXCEPT ![w] = Looping]
  PROVE  us \in [Workers -> Threads] /\ Working(d, us)
<1>1. us \in [Workers -> Threads]
  BY DEF Threads
<1>2. us[w] = Looping /\ \A v \in Workers \ {w} : us[v] = ws[v]
  OBVIOUS
<1>3. ~ Busy(us[w]) /\ us[w].at # "exited"
  BY <1>2 DEF Busy, Looping
<1>4. t \in Tiles /\ c.output \in [Tiles -> Outputs]
  BY DEF Busy, Threads, Exited, Looping, Calls
<1>5. /\ d.output[t] = Content(c.identity, t) /\ Content(c.identity, t) # Blank
      /\ \A u \in Tiles \ {t} : d.output[u] = c.output[u]
  BY <1>4 DEF Content, Blank
<1>6. WrittenRight(d)
  BY <1>5 DEF WrittenRight, Working, SameClaims
<1>7. WorkIsClaimed(d, us)
  BY <1>2, <1>3 DEF WorkIsClaimed, Working, SameClaims
<1>8. ClaimsAreKept(d, us)
  <2> SUFFICES ASSUME NEW u \in Tiles, u < d.next
               PROVE  \/ d.output[u] # Blank
                      \/ \E v \in Workers : Busy(us[v]) /\ us[v].tile = u
                      \/ d.failure # "none"
    BY DEF ClaimsAreKept
  <2>1. CASE u = t
    BY <1>5, <2>1
  <2>2. CASE u # t
    <3>1. \/ c.output[u] # Blank
          \/ \E v \in Workers : Busy(ws[v]) /\ ws[v].tile = u
          \/ c.failure # "none"
      BY DEF Working, ClaimsAreKept, SameClaims
    <3> QED
      BY <1>2, <1>5, <2>2, <3>1
  <2> QED
    BY <2>1, <2>2
<1>9. ExitsAreEarned(d, us)
  <2> SUFFICES ASSUME NEW v \in Workers, us[v].at = "exited"
               PROVE  d.next > TileCount \/ d.failure # "none" \/ d.cancelled \/ d.unstarted
    BY DEF ExitsAreEarned
  <2>1. ws[v].at = "exited"
    BY <1>2, <1>3
  <2>2. c.next > TileCount \/ c.failure # "none" \/ c.cancelled \/ c.unstarted
    BY <2>1 DEF Working, ExitsAreEarned
  <2> QED
    BY <2>2 DEF SameClaims
<1> QED
  BY <1>1, <1>6, <1>7, <1>8, <1>9 DEF Working

\* A thread that found nothing in the cache keeps its tile.
LEMMA MissWorks ==
  ASSUME NEW c \in Calls, NEW ws \in [Workers -> Threads], Working(c, ws), NEW w \in Workers,
         ws[w].at = "holding",
         NEW d \in Calls, SameClaims(c, d), d.failure = c.failure, d.cancelled = c.cancelled,
         d.output = c.output,
         NEW us, us = [ws EXCEPT ![w].at = "missed"]
  PROVE  us \in [Workers -> Threads] /\ Working(d, us)
<1>1. ws[w] \in [at : {"holding", "missed"}, tile : Tiles]
  BY DEF Threads, Exited, Looping
<1>2. /\ us[w] \in [at : {"holding", "missed"}, tile : Tiles]
      /\ us[w].at = "missed" /\ us[w].tile = ws[w].tile
      /\ \A v \in Workers \ {w} : us[v] = ws[v]
  BY <1>1
<1>3. us \in [Workers -> Threads]
  BY <1>1 DEF Threads
<1>4. Busy(us[w]) /\ Busy(ws[w])
  BY <1>2 DEF Busy
<1>5. WrittenRight(d)
  BY DEF WrittenRight, Working, SameClaims
<1>6. WorkIsClaimed(d, us)
  BY <1>2, <1>4 DEF WorkIsClaimed, Working, SameClaims
<1>7. ClaimsAreKept(d, us)
  <2> SUFFICES ASSUME NEW u \in Tiles, u < d.next
               PROVE  \/ d.output[u] # Blank
                      \/ \E v \in Workers : Busy(us[v]) /\ us[v].tile = u
                      \/ d.failure # "none"
    BY DEF ClaimsAreKept
  <2>1. \/ c.output[u] # Blank
        \/ \E v \in Workers : Busy(ws[v]) /\ ws[v].tile = u
        \/ c.failure # "none"
    BY DEF Working, ClaimsAreKept, SameClaims
  <2> QED
    BY <1>2, <1>4, <2>1
<1>8. ExitsAreEarned(d, us)
  <2> SUFFICES ASSUME NEW v \in Workers, us[v].at = "exited"
               PROVE  d.next > TileCount \/ d.failure # "none" \/ d.cancelled \/ d.unstarted
    BY DEF ExitsAreEarned
  <2>1. ws[v].at = "exited"
    BY <1>2
  <2>2. c.next > TileCount \/ c.failure # "none" \/ c.cancelled \/ c.unstarted
    BY <2>1 DEF Working, ExitsAreEarned
  <2> QED
    BY <2>2 DEF SameClaims
<1> QED
  BY <1>3, <1>5, <1>6, <1>7, <1>8 DEF Working

\* A failure excuses every thread and every tile.
LEMMA FailWorks ==
  ASSUME NEW c \in Calls, NEW ws \in [Workers -> Threads], Working(c, ws), NEW w \in Workers,
         NEW d \in Calls, SameClaims(c, d), d.failure # "none", d.output = c.output,
         NEW us, us = [ws EXCEPT ![w] = Exited]
  PROVE  us \in [Workers -> Threads] /\ Working(d, us)
<1>1. us \in [Workers -> Threads]
  BY DEF Threads
<1>2. us[w] = Exited /\ \A v \in Workers \ {w} : us[v] = ws[v]
  OBVIOUS
<1>3. ~ Busy(us[w])
  BY <1>2 DEF Busy, Exited
<1>4. WrittenRight(d)
  BY DEF WrittenRight, Working, SameClaims
<1>5. WorkIsClaimed(d, us)
  BY <1>2, <1>3 DEF WorkIsClaimed, Working, SameClaims
<1> QED
  BY <1>1, <1>4, <1>5 DEF Working, ClaimsAreKept, ExitsAreEarned

\* So does a cancellation, for the threads.
LEMMA CancelWorks ==
  ASSUME NEW c \in Calls, NEW ws \in [Workers -> Threads], Working(c, ws),
         NEW d \in Calls, SameClaims(c, d), d.failure = c.failure, d.cancelled = TRUE,
         d.output = c.output
  PROVE  Working(d, ws)
BY DEF Working, WrittenRight, WorkIsClaimed, ClaimsAreKept, ExitsAreEarned, SameClaims

\* A joined call without an error has written every tile.
LEMMA JoinedIsWhole ==
  ASSUME NEW c \in Calls, NEW ws \in [Workers -> Threads], Working(c, ws),
         \A w \in Workers : ws[w].at = "exited",
         ~ c.unstarted, c.failure = "none", ~ c.cancelled
  PROVE  Whole(c) /\ \A t \in Tiles : c.output[t] # Blank
<1>1. PICK w \in Workers : ws[w].at = "exited"
  BY RenderAssumption
<1>2. c.next > TileCount
  BY <1>1 DEF Working, ExitsAreEarned
<1>3. c.next \in Nat /\ TileCount \in Nat /\ c.output \in [Tiles -> Outputs]
  BY RenderAssumption DEF Calls
<1>4. ASSUME NEW t \in Tiles PROVE c.output[t] # Blank
  <2>1. t < c.next
    BY <1>2, <1>3 DEF Tiles
  <2>2. \A v \in Workers : ~ Busy(ws[v])
    BY DEF Busy
  <2> QED
    BY <2>1, <2>2 DEF Working, ClaimsAreKept
<1>5. \A t \in Tiles : c.output[t] = Content(c.identity, t)
  BY <1>4 DEF Working, WrittenRight
<1> QED
  BY <1>3, <1>4, <1>5 DEF Whole

(***************************************************************************)
(* The actions                                                             *)
(***************************************************************************)

\* What the gate holds stays right while nothing happens at the gate.
LEMMA GateStays ==
  ASSUME NeverStale, UNCHANGED gate
  PROVE  NeverStale'
BY DEF NeverStale, gate, Content

\* Before the first request no call has begun and the cache is empty.
LEMMA InitRender == Init => RenderInv
<1> SUFFICES ASSUME Init PROVE RenderInv
  OBVIOUS
<1>1. PICK id \in Identities : call = [r \in Renders |-> NewCall(id)] /\ expected = id
  BY DEF Init
<1>2. NewCall(id) \in Calls
  <2>1. TileCount \in Nat /\ 1 \in 1..(TileCount + 1) /\ 0 \in 0..TileCount /\ 0 \in Nat
    BY RenderAssumption
  <2>2. [t \in Tiles |-> Blank] \in [Tiles -> Outputs]
    BY DEF Outputs
  <2> QED
    BY <2>1, <2>2 DEF NewCall, Calls
<1>3. TypeOK
  BY <1>1, <1>2 DEF Init, TypeOK, Threads
<1>4. CallsInv
  BY DEF Init, CallsInv, Joining, Exited
<1>5. CacheInv
  <2>1. recency = <<>> /\ recency \in Seq(EntriesOf(finished)) /\ Len(recency) = 0
    BY DEF Init
  <2>2. BytesHeld(recency)[0] = 0
    BY <2>1, EntriesHaveBytes, BytesHeldSums
  <2> QED
    BY <2>1, <2>2, RenderAssumption DEF Init, CacheInv, DistinctKeys
<1>6. NeverStale
  BY DEF Init, NeverStale
<1> QED
  BY <1>3, <1>4, <1>5, <1>6 DEF RenderInv

\* A new call has claimed nothing; threads that could not be started have exited.
LEMMA StartStep ==
  ASSUME RenderInv, NEW r \in Renders, NEW id \in Identities, Start(r, id)
  PROVE  RenderInv'
<1>1. PICK started \in SUBSET Workers :
        /\ worker' = [worker EXCEPT ![r] = [w \in Workers |-> IF w \in started THEN Looping
                                                              ELSE Exited]]
        /\ call' = [call EXCEPT ![r] = [NewCall(id) EXCEPT !.unstarted = started # Workers]]
  BY DEF Start
<1> DEFINE c  == [NewCall(id) EXCEPT !.unstarted = started # Workers]
           ws == [w \in Workers |-> IF w \in started THEN Looping ELSE Exited]
<1>2. c \in Calls /\ ws \in [Workers -> Threads] /\ Working(c, ws)
  BY NewCallWorks
<1>3. /\ call' = [call EXCEPT ![r] = c] /\ worker' = [worker EXCEPT ![r] = ws]
      /\ phase' = [phase EXCEPT ![r] = "running"]
  BY <1>1 DEF Start
<1> HIDE DEF c, ws
<1>4. TypeOK' /\ CallsInv'
  <2>1. finished' = finished /\ expected' = expected /\ finished \subseteq Identities
    BY DEF Start, gate, RenderInv, TypeOK
  <2> QED
    BY <1>2, <1>3, <2>1, CallMoves DEF RenderInv
<1>5. CacheInv'
  BY CacheStays DEF Start, RenderInv
<1>6. NeverStale'
  BY GateStays DEF Start, RenderInv
<1> QED
  BY <1>4, <1>5, <1>6 DEF RenderInv

\* A cancellation sets a flag and leaves tiles and threads as they are.
LEMMA CancelStep ==
  ASSUME RenderInv, NEW r \in Renders, Cancel(r)
  PROVE  RenderInv'
<1> DEFINE d == [call[r] EXCEPT !.cancelled = TRUE]
<1>1. call[r] \in Calls /\ worker[r] \in [Workers -> Threads] /\ phase[r] = "running"
  BY DEF RenderInv, TypeOK, Cancel
<1>2. Working(call[r], worker[r])
  BY <1>1 DEF RenderInv, CallsInv
<1>3. d \in Calls
  BY <1>1 DEF Calls
<1>4. /\ SameClaims(call[r], d) /\ d.failure = call[r].failure /\ d.output = call[r].output
      /\ (d.cancelled = TRUE)
  BY <1>1 DEF Calls, SameClaims
<1>5. /\ call' = [call EXCEPT ![r] = d] /\ worker' = [worker EXCEPT ![r] = worker[r]]
      /\ phase' = [phase EXCEPT ![r] = "running"]
  BY <1>1 DEF Cancel, RenderInv, TypeOK
<1> HIDE DEF d
<1>6. Working(d, worker[r])
  BY <1>1, <1>2, <1>3, <1>4, CancelWorks
<1>7. TypeOK' /\ CallsInv'
  <2>1. finished' = finished /\ expected' = expected /\ finished \subseteq Identities
    BY DEF Cancel, gate, RenderInv, TypeOK
  <2> QED
    BY <1>1, <1>3, <1>5, <1>6, <2>1, CallMoves DEF RenderInv
<1>8. CacheInv'
  BY CacheStays DEF Cancel, RenderInv
<1>9. NeverStale'
  BY GateStays DEF Cancel, RenderInv
<1> QED
  BY <1>7, <1>8, <1>9 DEF RenderInv

\* A thread that is at work belongs to a running call.
LEMMA AtWork ==
  ASSUME RenderInv, NEW r \in Renders, NEW w \in Workers, worker[r][w].at # "exited"
  PROVE  /\ phase[r] = "running"
         /\ call[r] \in Calls /\ worker[r] \in [Workers -> Threads]
         /\ Working(call[r], worker[r])
BY DEF RenderInv, TypeOK, CallsInv, Joining

\* A step of a thread that leaves its call at good work, without the cache.
LEMMA ThreadMoves ==
  ASSUME RenderInv, NEW r \in Renders, phase[r] = "running",
         NEW d \in Calls, NEW us \in [Workers -> Threads], Working(d, us),
         call' = [call EXCEPT ![r] = d], worker' = [worker EXCEPT ![r] = us],
         phase' = phase, gate' = gate, finished' = finished
  PROVE  TypeOK' /\ CallsInv' /\ NeverStale'
<1>1. phase' = [phase EXCEPT ![r] = "running"]
  BY DEF RenderInv, TypeOK
<1>2. finished \subseteq Identities /\ expected' = expected
  BY DEF RenderInv, TypeOK, gate
<1>3. TypeOK' /\ CallsInv'
  BY <1>1, <1>2, CallMoves DEF RenderInv
<1>4. NeverStale'
  BY GateStays DEF RenderInv
<1> QED
  BY <1>3, <1>4

\* fetch_add hands out a tile no thread of the call has, and the next after it stays free.
LEMMA ClaimStep ==
  ASSUME RenderInv, NEW r \in Renders, NEW w \in Workers, Claim(r, w)
  PROVE  RenderInv'
<1> DEFINE d  == [call[r] EXCEPT !.next = @ + 1]
           us == [worker[r] EXCEPT ![w] = [at |-> "holding", tile |-> call[r].next]]
<1>1. worker[r][w].at = "loop" /\ call[r].next <= TileCount
  BY DEF Claim
<1>2. /\ phase[r] = "running" /\ call[r] \in Calls /\ worker[r] \in [Workers -> Threads]
      /\ Working(call[r], worker[r])
  BY <1>1, AtWork
<1>3. d \in Calls /\ us \in [Workers -> Threads] /\ Working(d, us)
  BY <1>1, <1>2, ClaimWorks
<1>4. call' = [call EXCEPT ![r] = d] /\ worker' = [worker EXCEPT ![r] = us]
  BY DEF Claim, RenderInv, TypeOK
<1> HIDE DEF d, us
<1>5. phase' = phase /\ gate' = gate /\ finished' = finished /\ UNCHANGED cache
  BY DEF Claim
<1>6. TypeOK' /\ CallsInv' /\ NeverStale'
  BY <1>2, <1>3, <1>4, <1>5, ThreadMoves
<1>7. CacheInv'
  BY <1>5, CacheStays DEF RenderInv
<1> QED
  BY <1>6, <1>7 DEF RenderInv

\* A thread leaves only when nothing is left to claim or the call is stopping.
LEMMA ExitStep ==
  ASSUME RenderInv, NEW r \in Renders, NEW w \in Workers, Exit(r, w)
  PROVE  RenderInv'
<1> DEFINE c  == call[r]
           us == [worker[r] EXCEPT ![w] = Exited]
<1>1. worker[r][w].at = "loop" /\ (c.next > TileCount \/ c.failure # "none" \/ c.cancelled)
  BY DEF Exit, Stopping
<1>2. /\ phase[r] = "running" /\ c \in Calls /\ worker[r] \in [Workers -> Threads]
      /\ Working(c, worker[r])
  BY <1>1, AtWork
<1>3. us \in [Workers -> Threads] /\ Working(c, us)
  <2> HIDE DEF c
  <2> QED
    BY <1>1, <1>2, ExitWorks
<1>4. call' = [call EXCEPT ![r] = c] /\ worker' = [worker EXCEPT ![r] = us]
  BY DEF Exit, RenderInv, TypeOK
<1> HIDE DEF c, us
<1>5. phase' = phase /\ gate' = gate /\ finished' = finished /\ UNCHANGED cache
  BY DEF Exit
<1>6. TypeOK' /\ CallsInv' /\ NeverStale'
  BY <1>2, <1>3, <1>4, <1>5, ThreadMoves
<1>7. CacheInv'
  BY <1>5, CacheStays DEF RenderInv
<1> QED
  BY <1>6, <1>7 DEF RenderInv

\* The tile written is the one the thread holds, rendered or found under its own key.
LEMMA ProduceStep ==
  ASSUME RenderInv, NEW r \in Renders, NEW w \in Workers, Produce(r, w)
  PROVE  RenderInv'
<1> DEFINE c  == call[r]
           t  == worker[r][w].tile
           d  == [c EXCEPT !.output = [c.output EXCEPT ![t] = Content(c.identity, t)],
                           !.rendered = @ + 1]
           us == [worker[r] EXCEPT ![w] = Looping]
<1>1. worker[r][w].at = "missed"
  BY DEF Produce
<1>2. /\ phase[r] = "running" /\ c \in Calls /\ worker[r] \in [Workers -> Threads]
      /\ Working(c, worker[r]) /\ Busy(worker[r][w])
  BY <1>1, AtWork DEF Busy
<1>3. t \in Tiles /\ Content(c.identity, t) \in Outputs /\ c.output \in [Tiles -> Outputs]
  BY <1>1, <1>2 DEF Threads, Exited, Looping, Outputs, Calls
<1>4. call' = [call EXCEPT ![r] = d] /\ worker' = [worker EXCEPT ![r] = us]
  BY DEF Produce, RenderInv, TypeOK
<1>5. [c.output EXCEPT ![t] = Content(c.identity, t)] \in [Tiles -> Outputs]
  BY <1>3
<1> HIDE DEF t
<1>6. d \in Calls
  <2> DEFINE out == [c.output EXCEPT ![t] = Content(c.identity, t)]
  <2>1. out \in [Tiles -> Outputs] /\ c.rendered + 1 \in Nat
    BY <1>2, <1>5 DEF Calls
  <2> HIDE DEF out, c
  <2>2. [c EXCEPT !.output = out, !.rendered = @ + 1] \in Calls
    BY <1>2, <2>1 DEF Calls
  <2> QED
    BY <2>2 DEF out
<1>7. /\ d.identity = c.identity /\ d.next = c.next /\ d.failure = c.failure
      /\ d.output = [c.output EXCEPT ![t] = Content(c.identity, t)]
  BY <1>2 DEF Calls
<1>8. (d.unstarted = c.unstarted) /\ (d.cancelled = c.cancelled)
  BY <1>2 DEF Calls
<1> HIDE DEF c, d
<1>9. us \in [Workers -> Threads] /\ Working(d, us)
  <2>1. SameClaims(c, d)
    BY <1>7, <1>8 DEF SameClaims
  <2>2. t = worker[r][w].tile
    BY DEF t
  <2> QED
    BY <1>2, <1>6, <1>7, <1>8, <2>1, <2>2, WriteWorks
<1> HIDE DEF us
<1>10. phase' = phase /\ gate' = gate /\ finished' = finished /\ UNCHANGED cache
  BY DEF Produce
<1>11. TypeOK' /\ CallsInv' /\ NeverStale'
  BY <1>2, <1>4, <1>6, <1>9, <1>10, ThreadMoves
<1>12. CacheInv'
  BY <1>10, CacheStays DEF RenderInv
<1> QED
  BY <1>11, <1>12 DEF RenderInv

\* The first exception is kept; the tile stays claimed by a thread that has exited.
LEMMA FailStep ==
  ASSUME RenderInv, NEW r \in Renders, NEW w \in Workers, Fail(r, w)
  PROVE  RenderInv'
<1>1. PICK e \in {"failed", "cancelled"} :
        call' = [call EXCEPT ![r].failure = IF @ = "none" THEN e ELSE @]
  BY DEF Fail
<1> DEFINE c  == call[r]
           d  == [c EXCEPT !.failure = IF c.failure = "none" THEN e ELSE c.failure]
           us == [worker[r] EXCEPT ![w] = Exited]
<1>2. /\ phase[r] = "running" /\ c \in Calls /\ worker[r] \in [Workers -> Threads]
      /\ Working(c, worker[r])
  BY AtWork DEF Fail
<1>3. call' = [call EXCEPT ![r] = d] /\ worker' = [worker EXCEPT ![r] = us]
  BY <1>1 DEF Fail, RenderInv, TypeOK
<1>4. d \in Calls /\ d.failure # "none"
  BY <1>2 DEF Calls
<1>5. SameClaims(c, d) /\ d.output = c.output
  BY <1>2 DEF Calls, SameClaims
<1> HIDE DEF c, d
<1>6. us \in [Workers -> Threads] /\ Working(d, us)
  BY <1>2, <1>4, <1>5, FailWorks
<1> HIDE DEF us
<1>7. phase' = phase /\ gate' = gate /\ finished' = finished /\ UNCHANGED cache
  BY DEF Fail
<1>8. TypeOK' /\ CallsInv' /\ NeverStale'
  BY <1>2, <1>3, <1>4, <1>6, <1>7, ThreadMoves
<1>9. CacheInv'
  BY <1>7, CacheStays DEF RenderInv
<1> QED
  BY <1>8, <1>9 DEF RenderInv

\* A lookup that copies a hit writes the right pixels; every other one leaves
\* the thread its tile.  A hit changes the order of the entries only.
LEMMA LookupStep ==
  ASSUME RenderInv, NEW r \in Renders, NEW w \in Workers, Lookup(r, w)
  PROVE  RenderInv'
<1> DEFINE c  == call[r]
           t  == worker[r][w].tile
           k  == Key(c.identity, t)
<1>1. worker[r][w].at = "holding"
  BY DEF Lookup
<1>2. /\ phase[r] = "running" /\ c \in Calls /\ worker[r] \in [Workers -> Threads]
      /\ Working(c, worker[r]) /\ Busy(worker[r][w])
  BY <1>1, AtWork DEF Busy
<1>3. t \in Tiles /\ c.identity \in Identities /\ c.output \in [Tiles -> Outputs]
  BY <1>1, <1>2 DEF Threads, Exited, Looping, Calls
<1>4. phase' = phase /\ gate' = gate /\ finished' = finished /\ resident' = resident
  BY DEF Lookup
<1>5. CacheInv'
  <2>1. CASE \E i \in Cached(k) : recency' = Touched(i)
    BY <1>4, <2>1, TouchKeepsCache DEF RenderInv
  <2>2. CASE UNCHANGED recency
    BY <1>4, <2>2, CacheStays DEF RenderInv, cache
  <2> QED
    BY <2>1, <2>2 DEF Lookup
<1>6. CASE /\ call' = [call EXCEPT ![r].misses = @ + 1]
           /\ worker' = [worker EXCEPT ![r][w].at = "missed"]
  <2> DEFINE d  == [c EXCEPT !.misses = @ + 1]
             us == [worker[r] EXCEPT ![w].at = "missed"]
  <2>1. call' = [call EXCEPT ![r] = d] /\ worker' = [worker EXCEPT ![r] = us]
    BY <1>6 DEF RenderInv, TypeOK
  <2>2. d \in Calls
    BY <1>2 DEF Calls
  <2>3. d.failure = c.failure /\ (d.cancelled = c.cancelled) /\ d.output = c.output
    BY <1>2 DEF Calls
  <2>4. SameClaims(c, d)
    BY <1>2 DEF Calls, SameClaims
  <2> HIDE DEF c, d, t, k
  <2>5. us \in [Workers -> Threads] /\ Working(d, us)
    BY <1>1, <1>2, <2>2, <2>3, <2>4, MissWorks
  <2> HIDE DEF us
  <2>6. TypeOK' /\ CallsInv' /\ NeverStale'
    BY <1>2, <1>4, <2>1, <2>2, <2>5, ThreadMoves
  <2> QED
    BY <1>5, <2>6 DEF RenderInv
<1>7. ASSUME NEW i \in Cached(k),
             call' = [call EXCEPT ![r].output[t] = recency[i].samples, ![r].hits = @ + 1],
             worker' = [worker EXCEPT ![r][w] = Looping]
      PROVE  RenderInv'
  <2> DEFINE out == [c.output EXCEPT ![t] = Content(c.identity, t)]
             d   == [c EXCEPT !.output = out, !.hits = @ + 1]
             us  == [worker[r] EXCEPT ![w] = Looping]
  <2>1. recency[i].samples = Content(c.identity, t)
    BY <1>3, HitsAreRight DEF RenderInv
  <2>2. call' = [call EXCEPT ![r] = d] /\ worker' = [worker EXCEPT ![r] = us]
    BY <1>7, <2>1 DEF RenderInv, TypeOK
  <2>3. out \in [Tiles -> Outputs] /\ c.hits + 1 \in Nat
    BY <1>2, <1>3 DEF Outputs, Calls
  <2> HIDE DEF out, c, t, k
  <2>4. d \in Calls
    BY <1>2, <2>3 DEF Calls
  <2>5. d.failure = c.failure /\ (d.cancelled = c.cancelled) /\ d.output = out
    BY <1>2 DEF Calls
  <2>6. SameClaims(c, d)
    BY <1>2 DEF Calls, SameClaims
  <2> HIDE DEF d
  <2>7. us \in [Workers -> Threads] /\ Working(d, us)
    <3>1. t = worker[r][w].tile /\ out = [c.output EXCEPT ![t] = Content(c.identity, t)]
      BY DEF t, out
    <3> QED
      BY <1>2, <2>4, <2>5, <2>6, <3>1, WriteWorks
  <2> HIDE DEF us
  <2>8. TypeOK' /\ CallsInv' /\ NeverStale'
    BY <1>2, <1>4, <2>2, <2>4, <2>7, ThreadMoves
  <2> QED
    BY <1>5, <2>8 DEF RenderInv
<1> QED
  BY <1>6, <1>7 DEF Lookup

\* A joined call without an error has a whole image, which counts as finished
\* before a tile of it is admitted.
LEMMA JoinStep ==
  ASSUME RenderInv, NEW r \in Renders, Join(r)
  PROVE  RenderInv'
<1> DEFINE c == call[r]
           p == IF Verdict(r) = "ok" THEN "storing" ELSE "idle"
<1>1. /\ phase[r] = "running" /\ c \in Calls /\ worker[r] \in [Workers -> Threads]
      /\ Working(c, worker[r]) /\ \A w \in Workers : worker[r][w].at = "exited"
  BY DEF Join, Joined, RenderInv, TypeOK, CallsInv
<1>2. ASSUME Verdict(r) = "ok"
      PROVE  Whole(c) /\ \A t \in Tiles : c.output[t] # Blank
  <2>1. ~ c.unstarted /\ c.failure = "none" /\ ~ c.cancelled
    <3>1. c.failure \in {"none", "failed", "cancelled"}
      BY <1>1 DEF Calls
    <3> QED
      BY <1>2, <3>1 DEF Verdict
  <2> HIDE DEF c
  <2> QED
    BY <1>1, <2>1, JoinedIsWhole
<1>3. /\ phase' = [phase EXCEPT ![r] = p] /\ call' = [call EXCEPT ![r] = c]
      /\ worker' = [worker EXCEPT ![r] = worker[r]]
  BY DEF Join, RenderInv, TypeOK
<1>4. finished' = IF Verdict(r) = "ok" THEN finished \cup {c.identity} ELSE finished
  BY <1>2 DEF Join
<1>5. c.identity \in Identities /\ finished \subseteq Identities /\ expected' = expected
  BY <1>1 DEF Calls, Join, gate, RenderInv, TypeOK
<1>6. TypeOK' /\ CallsInv'
  <2>1. p \in {"idle", "storing"} /\ (p = "storing" => Verdict(r) = "ok")
    OBVIOUS
  <2>2. Joining(worker[r])
    BY <1>1 DEF Joining
  <2>3. finished \subseteq finished' /\ finished' \subseteq Identities
    BY <1>4, <1>5
  <2>4. p = "storing" => Whole(c) /\ c.identity \in finished'
    BY <1>2, <1>4, <2>1
  <2> HIDE DEF c, p
  <2>5. /\ p \in {"idle", "running", "storing", "done"} /\ p # "running"
        /\ (p \in {"storing", "done"} => p = "storing")
    BY <2>1
  <2> QED
    BY <1>1, <1>3, <1>5, <2>2, <2>3, <2>4, <2>5, CallMoves DEF RenderInv
<1>7. CacheInv'
  BY <1>4, CacheStays DEF Join, RenderInv
<1>8. NeverStale'
  BY GateStays DEF Join, RenderInv
<1> QED
  BY <1>6, <1>7, <1>8 DEF RenderInv

\* A step of a call whose threads are joined: it leaves its image alone.
LEMMA JoinedMoves ==
  ASSUME RenderInv, NEW r \in Renders, phase[r] \in {"storing", "done"},
         NEW p \in {"idle", "storing", "done"}, p = "storing" => phase[r] = "storing",
         NEW d \in Calls, d.identity = call[r].identity, d.output = call[r].output,
         phase' = [phase EXCEPT ![r] = p], call' = [call EXCEPT ![r] = d],
         worker' = worker, finished' = finished, expected' = expected
  PROVE  TypeOK' /\ CallsInv'
<1>1. worker[r] \in [Workers -> Threads] /\ worker' = [worker EXCEPT ![r] = worker[r]]
  BY DEF RenderInv, TypeOK
<1>2. Joining(worker[r]) /\ Whole(call[r]) /\ (p = "storing" => call[r].identity \in finished)
  BY DEF RenderInv, CallsInv
<1>3. Whole(d) /\ finished \subseteq Identities
  BY <1>2 DEF Whole, RenderInv, TypeOK
<1>4. p \in {"idle", "running", "storing", "done"} /\ p # "running"
  OBVIOUS
<1> QED
  BY <1>1, <1>2, <1>3, <1>4, CallMoves DEF RenderInv

\* Only tiles of a whole image are admitted, and the budget holds after each.
LEMMA AdmitStep ==
  ASSUME RenderInv, NEW r \in Renders, Admit(r)
  PROVE  RenderInv'
<1> DEFINE c == call[r]
           t == c.stored + 1
           d == [c EXCEPT !.stored = t]
<1>1. /\ phase[r] = "storing" /\ t \in Tiles /\ c \in Calls /\ Whole(c)
      /\ c.identity \in finished
  BY DEF Admit, RenderInv, TypeOK, CallsInv
<1>2. StoreTile(c.identity, t, Content(c.identity, t)) \/ UNCHANGED cache
  BY <1>1 DEF Admit, Whole
<1>3. /\ phase' = [phase EXCEPT ![r] = "storing"] /\ call' = [call EXCEPT ![r] = d]
      /\ worker' = worker /\ finished' = finished /\ expected' = expected /\ gate' = gate
  BY <1>1 DEF Admit, gate, RenderInv, TypeOK
<1>4. d \in Calls
  <2>1. t \in 0..TileCount
    BY <1>1, RenderAssumption DEF Tiles
  <2> HIDE DEF c, t
  <2> QED
    BY <1>1, <2>1 DEF Calls
<1>5. d.identity = c.identity /\ d.output = c.output
  BY <1>1 DEF Calls
<1> HIDE DEF d
<1>6. TypeOK' /\ CallsInv'
  <2> QED
    BY <1>1, <1>3, <1>4, <1>5, JoinedMoves
<1>7. CacheInv'
  <2>1. CASE StoreTile(c.identity, t, Content(c.identity, t))
    <3> HIDE DEF c, t
    <3> QED
      BY <1>1, <1>3, <2>1, StoreKeepsCache DEF RenderInv
  <2>2. CASE UNCHANGED cache
    BY <1>3, <2>2, CacheStays DEF RenderInv
  <2> QED
    BY <1>2, <2>1, <2>2
<1>8. NeverStale'
  BY <1>3, GateStays DEF RenderInv
<1> QED
  BY <1>6, <1>7, <1>8 DEF RenderInv

\* A call that returns its image has written every tile of it.
LEMMA ReturnImageStep ==
  ASSUME RenderInv, NEW r \in Renders, ReturnImage(r)
  PROVE  RenderInv'
<1>1. phase[r] = "storing" /\ call[r] \in Calls
  BY DEF ReturnImage, RenderInv, TypeOK
<1>2. /\ phase' = [phase EXCEPT ![r] = "done"] /\ call' = [call EXCEPT ![r] = call[r]]
      /\ worker' = worker /\ finished' = finished /\ expected' = expected
  BY DEF ReturnImage, gate, RenderInv, TypeOK
<1>3. TypeOK' /\ CallsInv'
  BY <1>1, <1>2, JoinedMoves
<1>4. CacheInv' /\ NeverStale'
  BY CacheStays, GateStays DEF ReturnImage, RenderInv
<1> QED
  BY <1>3, <1>4 DEF RenderInv

\* The gate takes a whole image, and only for the identity it expects.
LEMMA OfferStep ==
  ASSUME RenderInv, NEW r \in Renders, Offer(r)
  PROVE  RenderInv'
<1>1. phase[r] = "done" /\ call[r] \in Calls /\ Whole(call[r])
  BY DEF Offer, RenderInv, TypeOK, CallsInv
<1>2. /\ phase' = [phase EXCEPT ![r] = "idle"] /\ call' = [call EXCEPT ![r] = call[r]]
      /\ worker' = worker /\ finished' = finished /\ expected' = expected
  BY DEF Offer, RenderInv, TypeOK
<1>3. TypeOK' /\ CallsInv'
  BY <1>1, <1>2, JoinedMoves
<1>4. CacheInv'
  BY CacheStays DEF Offer, RenderInv
<1>5. NeverStale'
  <2>1. ASSUME NEW p \in published'
        PROVE  p.identity = expected /\ p.image = [t \in Tiles |-> Content(expected, t)]
    <3>1. CASE call[r].identity = expected
      BY <1>1, <2>1, <3>1 DEF Offer, Whole
    <3>2. CASE call[r].identity # expected
      BY <2>1, <3>2 DEF Offer, RenderInv, NeverStale
    <3> QED
      BY <3>1, <3>2
  <2> QED
    BY <1>2, <2>1 DEF NeverStale, Content
<1> QED
  BY <1>3, <1>4, <1>5 DEF RenderInv

\* A newer request moves the gate and leaves calls and cache as they are.
LEMMA ExpectStep ==
  ASSUME RenderInv, NEW id \in Identities, Expect(id)
  PROVE  RenderInv'
<1>1. TypeOK' /\ CallsInv'
  BY DEF Expect, RenderInv, TypeOK, CallsInv, Joining, Working, WrittenRight, WorkIsClaimed,
         ClaimsAreKept, ExitsAreEarned, Busy, Whole
<1>2. CacheInv'
  BY CacheStays DEF Expect, RenderInv
<1>3. NeverStale'
  BY DEF Expect, NeverStale
<1> QED
  BY <1>1, <1>2, <1>3 DEF RenderInv

\* An empty cache accounts for its bytes.
LEMMA ClearCacheStep ==
  ASSUME RenderInv, ClearCache
  PROVE  RenderInv'
<1>1. TypeOK' /\ CallsInv'
  BY DEF ClearCache, gate, RenderInv, TypeOK, CallsInv, Joining, Working, WrittenRight,
         WorkIsClaimed, ClaimsAreKept, ExitsAreEarned, Busy, Whole
<1>2. CacheInv'
  <2> DEFINE q == recency'
  <2>1. q = <<>> /\ q \in Seq(EntriesOf(finished)) /\ Len(q) = 0
    BY DEF ClearCache
  <2>2. BytesHeld(q)[0] = 0
    <3> HIDE DEF q
    <3> QED
      BY <2>1, EntriesHaveBytes, BytesHeldSums
  <2>3. BytesHeld(recency)' = BytesHeld(q) /\ EntriesOf(finished)' = EntriesOf(finished)
    BY DEF BytesHeld, ClearCache, EntriesOf, EntryOf
  <2> QED
    BY <2>1, <2>2, <2>3, RenderAssumption DEF ClearCache, CacheInv, DistinctKeys
<1>3. NeverStale'
  BY GateStays DEF ClearCache, RenderInv
<1> QED
  BY <1>1, <1>2, <1>3 DEF RenderInv

\* The invariant is preserved by every step, one lemma for each action.
LEMMA RenderStep == RenderInv /\ [Next]_vars => RenderInv'
<1> SUFFICES ASSUME RenderInv, [Next]_vars PROVE RenderInv'
  OBVIOUS
<1>1. CASE UNCHANGED vars
  <2>1. TypeOK' /\ CallsInv'
    BY <1>1 DEF vars, gate, RenderInv, TypeOK, CallsInv, Joining, Working, WrittenRight,
                WorkIsClaimed, ClaimsAreKept, ExitsAreEarned, Busy, Whole
  <2>2. CacheInv' /\ NeverStale'
    BY <1>1, CacheStays, GateStays DEF vars, RenderInv
  <2> QED
    BY <2>1, <2>2 DEF RenderInv
<1>2. CASE Next
  <2>1. ASSUME NEW r \in Renders, NEW w \in Workers, WorkerStep(r, w) PROVE RenderInv'
    BY <2>1, ClaimStep, ExitStep, LookupStep, ProduceStep, FailStep DEF WorkerStep
  <2>2. ASSUME NEW r \in Renders, CallerStep(r) PROVE RenderInv'
    BY <2>2, JoinStep, AdmitStep, ReturnImageStep DEF CallerStep
  <2>3. ASSUME NEW r \in Renders, NEW id \in Identities, Start(r, id) PROVE RenderInv'
    BY <2>3, StartStep
  <2>4. ASSUME NEW r \in Renders, Cancel(r) PROVE RenderInv'
    BY <2>4, CancelStep
  <2>5. ASSUME NEW r \in Renders, Offer(r) PROVE RenderInv'
    BY <2>5, OfferStep
  <2>6. ASSUME ClearCache PROVE RenderInv'
    BY <2>6, ClearCacheStep
  <2>7. ASSUME NEW id \in Identities, Expect(id) PROVE RenderInv'
    BY <2>7, ExpectStep
  <2> QED
    BY <1>2, <2>1, <2>2, <2>3, <2>4, <2>5, <2>6, <2>7 DEF Next
<1> QED
  BY <1>1, <1>2

(***************************************************************************)
(* Theorems                                                                *)
(***************************************************************************)

\* Types, the work of every call, the cache and the gate are as the invariant says.
THEOREM RenderInvariant == Spec => []RenderInv
BY InitRender, RenderStep, PTL DEF Spec

\* The cache never holds a tile of a call that failed or was cancelled
\* (CpuRenderer::render stores after the join, and only a whole image).
THEOREM OnlyFinishedTilesAlways == Spec => []OnlyFinishedTiles
<1>1. RenderInv => OnlyFinishedTiles
  <2> SUFFICES ASSUME RenderInv, NEW i \in DOMAIN recency
               PROVE  \E id \in finished, t \in Tiles :
                        recency[i].key = Key(id, t) /\ recency[i].samples = Content(id, t)
    BY DEF OnlyFinishedTiles
  <2>1. recency[i] \in EntriesOf(finished)
    BY DEF RenderInv, CacheInv
  <2> QED
    BY <2>1 DEF EntriesOf, EntryOf
<1> QED
  BY <1>1, RenderInvariant, PTL

\* A returned image is whole and the one rendering without a cache would give,
\* whatever thread wrote which tile and whoever filled the cache.
THEOREM RenderIsPureAlways == Spec => []RenderIsPure
<1>1. RenderInv => RenderIsPure
  BY DEF RenderInv, CallsInv, RenderIsPure, Whole
<1> QED
  BY <1>1, RenderInvariant, PTL

\* The gate holds results for the identity it expects only (try_publish).
THEOREM NeverStaleAlways == Spec => []NeverStale
<1>1. RenderInv => NeverStale
  BY DEF RenderInv
<1> QED
  BY <1>1, RenderInvariant, PTL

\* The byte count of the cache is that of its entries, which stay within the
\* budget and have distinct keys (CpuTileCache::Impl::store).
THEOREM CacheAccountsExactlyAlways == Spec => []CacheAccountsExactly
<1>1. RenderInv => CacheAccountsExactly
  <2> SUFFICES ASSUME RenderInv PROVE CacheAccountsExactly
    OBVIOUS
  <2>1. /\ Len(recency) \in Nat /\ BytesHeld(recency)[0] = 0
        /\ \A n \in 0..Len(recency) : BytesHeld(recency)[n] \in Nat
    BY EntriesHaveBytes, BytesHeldSums DEF RenderInv, CacheInv
  <2>2. resident = OldestBytes(Len(recency))
    BY <2>1 DEF RenderInv, CacheInv, OldestBytes
  <2> QED
    BY <2>2 DEF RenderInv, CacheInv, CacheAccountsExactly, DistinctKeys
<1> QED
  BY <1>1, RenderInvariant, PTL

\* When a tile is admitted the eviction loop stops, at the latest on an empty
\* cache: recency.back() is never taken of an empty list.
THEOREM EvictionStops ==
  Spec => [](\A t \in Tiles : Bytes[t] <= Capacity => Victims(Bytes[t]) \in 0..Len(recency))
<1>1. RenderInv => \A t \in Tiles : Bytes[t] <= Capacity => Victims(Bytes[t]) \in 0..Len(recency)
  BY VictimsFit, RenderAssumption DEF RenderInv, Tiles
<1> QED
  BY <1>1, RenderInvariant, PTL

(***************************************************************************)
(* How far a call is from its end                                          *)
(***************************************************************************)

\* What a thread at a place may still do with its tile.
Weight(place) ==
  CASE place = "holding" -> 3 [] place = "missed" -> 2 [] place = "loop" -> 1 [] OTHER -> 0

Work(threads) ==
  ThreadsAt(threads, {"loop", "missed", "holding"})
    + ThreadsAt(threads, {"missed", "holding"}) + ThreadsAt(threads, {"holding"})

Counted(place, places) == IF place \in places THEN 1 ELSE 0

\* A thread that moves is counted where it is instead of where it was.
LEMMA CountMoves ==
  ASSUME NEW threads \in [Workers -> Threads], NEW w \in Workers, NEW thread \in Threads, NEW places
  PROVE  /\ ThreadsAt(threads, places) \in Nat
         /\ ThreadsAt([threads EXCEPT ![w] = thread], places) \in Nat
         /\ ThreadsAt([threads EXCEPT ![w] = thread], places)
              + Counted(threads[w].at, places)
            = ThreadsAt(threads, places) + Counted(thread.at, places)
<1> DEFINE moved  == [threads EXCEPT ![w] = thread]
           others == {v \in Workers \ {w} : threads[v].at \in places}
           before == {v \in Workers : threads[v].at \in places}
           after  == {v \in Workers : moved[v].at \in places}
<1>1. ThreadsAt(threads, places) = Cardinality(before) /\ ThreadsAt(moved, places) = Cardinality(after)
  BY DEF ThreadsAt
<1>2. IsFiniteSet(others) /\ w \notin others /\ Cardinality(others) \in Nat
  <2>1. others \subseteq Workers /\ w \notin others
    OBVIOUS
  <2> HIDE DEF others
  <2> QED
    BY <2>1, RenderAssumption, FS_Subset, FS_CardinalityType
<1>3. Cardinality(others \cup {w}) = Cardinality(others) + 1
  <2> HIDE DEF others
  <2> QED
    BY <1>2, FS_AddElement
<1>4. before = IF threads[w].at \in places THEN others \cup {w} ELSE others
  OBVIOUS
<1>5. after = IF thread.at \in places THEN others \cup {w} ELSE others
  <2>1. moved[w] = thread /\ \A v \in Workers \ {w} : moved[v] = threads[v]
    OBVIOUS
  <2> HIDE DEF moved
  <2> QED
    BY <2>1
<1> HIDE DEF moved, others, before, after
<1>6. /\ Cardinality(before) = Cardinality(others) + Counted(threads[w].at, places)
      /\ Cardinality(after) = Cardinality(others) + Counted(thread.at, places)
  BY <1>2, <1>3, <1>4, <1>5 DEF Counted
<1> QED
  BY <1>1, <1>2, <1>6 DEF moved, Counted

LEMMA WorkMoves ==
  ASSUME NEW threads \in [Workers -> Threads], NEW w \in Workers, NEW thread \in Threads
  PROVE  /\ Work(threads) \in Nat /\ Work([threads EXCEPT ![w] = thread]) \in Nat
         /\ Work([threads EXCEPT ![w] = thread]) + Weight(threads[w].at) =
              Work(threads) + Weight(thread.at)
<1> DEFINE moved == [threads EXCEPT ![w] = thread]
           places == {"loop", "missed", "holding"}
           busy   == {"missed", "holding"}
           held   == {"holding"}
<1>1. /\ Work(threads) = ThreadsAt(threads, places) + ThreadsAt(threads, busy) + ThreadsAt(threads, held)
      /\ Work(moved) = ThreadsAt(moved, places) + ThreadsAt(moved, busy) + ThreadsAt(moved, held)
  BY DEF Work
<1>2. \A at : Weight(at) = Counted(at, places) + Counted(at, busy)
                             + Counted(at, held)
  BY DEF Weight, Counted
<1> HIDE DEF places, busy, held
<1>3. /\ ThreadsAt(threads, places) \in Nat /\ ThreadsAt(moved, places) \in Nat
      /\ ThreadsAt(moved, places) + Counted(threads[w].at, places)
           = ThreadsAt(threads, places) + Counted(thread.at, places)
  BY CountMoves
<1>4. /\ ThreadsAt(threads, busy) \in Nat /\ ThreadsAt(moved, busy) \in Nat
      /\ ThreadsAt(moved, busy) + Counted(threads[w].at, busy)
           = ThreadsAt(threads, busy) + Counted(thread.at, busy)
  BY CountMoves
<1>5. /\ ThreadsAt(threads, held) \in Nat /\ ThreadsAt(moved, held) \in Nat
      /\ ThreadsAt(moved, held) + Counted(threads[w].at, held)
           = ThreadsAt(threads, held) + Counted(thread.at, held)
  BY CountMoves
<1> HIDE DEF moved
<1> QED
  BY <1>1, <1>2, <1>3, <1>4, <1>5 DEF moved, Counted

\* A step of a thread counts when what it leaves to do is less, a tile that it
\* claims being more than any tile it holds.
LEMMA ThreadCounts ==
  ASSUME RenderInv, NEW r \in Renders, NEW w \in Workers, phase[r] = "running",
         NEW thread \in Threads, NEW d, d.next \in 1..(TileCount + 1),
         phase' = phase, call' = [call EXCEPT ![r] = d],
         worker' = [worker EXCEPT ![r] = [worker[r] EXCEPT ![w] = thread]],
         Weight(thread.at) + 3 * call[r].next < Weight(worker[r][w].at) + 3 * d.next
  PROVE  Rank(r)' \in 0..(Rank(r) - 1)
<1> DEFINE threads == worker[r]
           moved   == [threads EXCEPT ![w] = thread]
<1>1. /\ threads \in [Workers -> Threads] /\ call[r].next \in 1..(TileCount + 1)
      /\ call'[r] = d /\ worker'[r] = moved /\ phase'[r] = "running" /\ TileCount \in Nat
  BY RenderAssumption DEF RenderInv, TypeOK, Calls
<1>2. Rank(r) = Work(threads) + 3 * (TileCount - call[r].next + 1) + TileCount + 2
  BY DEF Rank, Work
<1>3. Rank(r)' = Work(moved) + 3 * (TileCount - d.next + 1) + TileCount + 2
  <2> HIDE DEF threads, moved
  <2>1. worker'[r] = moved
    BY <1>1
  <2> QED
    BY <1>1, <2>1 DEF Rank, Work, ThreadsAt
<1>4. /\ Work(threads) \in Nat /\ Work(moved) \in Nat
      /\ Work(moved) + Weight(threads[w].at) = Work(threads) + Weight(thread.at)
  BY <1>1, WorkMoves
<1>5. Weight(threads[w].at) \in Nat /\ Weight(thread.at) \in Nat
  BY DEF Weight
<1> HIDE DEF threads, moved
<1>6. Weight(thread.at) + 3 * call[r].next < Weight(threads[w].at) + 3 * d.next
  BY DEF threads
<1> QED
  BY <1>1, <1>2, <1>3, <1>4, <1>5, <1>6

\* What StepsCount says of one call.
Closer(r) ==
  phase[r] \in {"running", "storing"} =>
    \/ Rank(r)' \in 0..(Rank(r) - 1)
    \/ phase'[r] = phase[r] /\ worker'[r] = worker[r] /\ call'[r].stored = call[r].stored

\* A claimed tile leaves less to do, although its thread has more.
LEMMA ClaimCounts ==
  ASSUME RenderInv, NEW r \in Renders, NEW w \in Workers, Claim(r, w)
  PROVE  Rank(r)' \in 0..(Rank(r) - 1)
<1> DEFINE c      == call[r]
           d      == [c EXCEPT !.next = @ + 1]
           thread == [at |-> "holding", tile |-> c.next]
<1>1. /\ worker[r][w].at = "loop" /\ c.next <= TileCount /\ phase[r] = "running" /\ phase' = phase
      /\ c \in Calls
  BY AtWork DEF Claim
<1>2. c.next \in 1..TileCount /\ c.next + 1 \in 1..(TileCount + 1)
  BY <1>1, RenderAssumption DEF Calls
<1>3. thread \in Threads /\ d.next = c.next + 1
  BY <1>1, <1>2 DEF Threads, Tiles, Calls
<1>4. call' = [call EXCEPT ![r] = d]
      /\ worker' = [worker EXCEPT ![r] = [worker[r] EXCEPT ![w] = thread]]
  BY DEF Claim, RenderInv, TypeOK
<1>5. Weight(thread.at) = 3 /\ Weight(worker[r][w].at) = 1
  BY <1>1 DEF Weight
<1>6. Weight(thread.at) + 3 * c.next < Weight(worker[r][w].at) + 3 * d.next
  BY <1>2, <1>3, <1>5
<1> HIDE DEF d, thread
<1> QED
  BY <1>1, <1>2, <1>3, <1>4, <1>6, ThreadCounts

\* Every other step of a thread claims none and leaves the thread less to do.
LEMMA ThreadFinishes ==
  ASSUME RenderInv, NEW r \in Renders, NEW w \in Workers, phase[r] = "running",
         NEW thread \in Threads, Weight(thread.at) < Weight(worker[r][w].at),
         NEW d, d.next = call[r].next,
         phase' = phase, call' = [call EXCEPT ![r] = d],
         worker' = [worker EXCEPT ![r] = [worker[r] EXCEPT ![w] = thread]]
  PROVE  Rank(r)' \in 0..(Rank(r) - 1)
<1>1. call[r].next \in 1..(TileCount + 1)
  BY DEF RenderInv, TypeOK, Calls
<1>2. Weight(thread.at) \in Nat /\ Weight(worker[r][w].at) \in Nat
  BY DEF Weight
<1>3. Weight(thread.at) + 3 * call[r].next < Weight(worker[r][w].at) + 3 * d.next
  BY <1>1, <1>2, RenderAssumption
<1> QED
  BY <1>1, <1>3, ThreadCounts

LEMMA WorkerCounts ==
  ASSUME RenderInv, NEW r \in Renders, NEW w \in Workers, WorkerStep(r, w)
  PROVE  Rank(r)' \in 0..(Rank(r) - 1)
<1> DEFINE c == call[r]
<1>1. /\ worker[r][w] \in Threads /\ c \in Calls
      /\ call \in [Renders -> Calls] /\ worker \in [Renders -> [Workers -> Threads]]
  BY DEF RenderInv, TypeOK
<1>2. /\ Weight("exited") = 0 /\ Weight("loop") = 1 /\ Weight("missed") = 2 /\ Weight("holding") = 3
      /\ Exited \in Threads /\ Exited.at = "exited" /\ Looping \in Threads /\ Looping.at = "loop"
  BY DEF Weight, Threads, Exited, Looping
<1>3. ASSUME worker[r][w].at # "exited" PROVE phase[r] = "running"
  BY <1>3, AtWork
<1>4. CASE Exit(r, w)
  <2>1. /\ worker[r][w].at = "loop" /\ phase' = phase /\ call' = [call EXCEPT ![r] = c]
        /\ worker' = [worker EXCEPT ![r] = [worker[r] EXCEPT ![w] = Exited]]
    BY <1>1, <1>4 DEF Exit
  <2>2. phase[r] = "running" /\ Weight(Exited.at) < Weight(worker[r][w].at) /\ c.next = call[r].next
    BY <1>2, <1>3, <2>1
  <2> HIDE DEF c
  <2> QED
    BY <1>2, <2>1, <2>2, ThreadFinishes
<1>5. CASE Produce(r, w)
  <2> DEFINE d == [c EXCEPT !.output[worker[r][w].tile] = Content(c.identity, worker[r][w].tile),
                            !.rendered = @ + 1]
  <2>1. /\ worker[r][w].at = "missed" /\ phase' = phase /\ call' = [call EXCEPT ![r] = d]
        /\ worker' = [worker EXCEPT ![r] = [worker[r] EXCEPT ![w] = Looping]]
    BY <1>1, <1>5 DEF Produce
  <2>2. d.next = c.next
    BY <1>1 DEF Calls
  <2>3. phase[r] = "running" /\ Weight(Looping.at) < Weight(worker[r][w].at) /\ d.next = call[r].next
    BY <1>2, <1>3, <2>1, <2>2
  <2> HIDE DEF c, d
  <2> QED
    BY <1>2, <2>1, <2>3, ThreadFinishes
<1>6. CASE Fail(r, w)
  <2>1. PICK e : call' = [call EXCEPT ![r].failure = IF @ = "none" THEN e ELSE @]
    BY <1>6 DEF Fail
  <2> DEFINE d == [c EXCEPT !.failure = IF @ = "none" THEN e ELSE @]
  <2>2. /\ worker[r][w].at \in {"holding", "missed"} /\ phase' = phase
        /\ call' = [call EXCEPT ![r] = d]
        /\ worker' = [worker EXCEPT ![r] = [worker[r] EXCEPT ![w] = Exited]]
    BY <1>1, <1>6, <2>1 DEF Fail
  <2>3. d.next = c.next
    BY <1>1 DEF Calls
  <2>4. phase[r] = "running" /\ Weight(Exited.at) < Weight(worker[r][w].at) /\ d.next = call[r].next
    BY <1>2, <1>3, <2>2, <2>3
  <2> HIDE DEF c, d
  <2> QED
    BY <1>2, <2>2, <2>4, ThreadFinishes
<1>7. CASE Lookup(r, w)
  <2> DEFINE t      == worker[r][w].tile
             missed == [worker[r][w] EXCEPT !.at = "missed"]
             d      == [c EXCEPT !.misses = @ + 1]
  <2>1. worker[r][w].at = "holding" /\ phase' = phase
    BY <1>7 DEF Lookup
  <2>2. CASE /\ call' = [call EXCEPT ![r].misses = @ + 1]
             /\ worker' = [worker EXCEPT ![r][w].at = "missed"]
    <3>1. missed \in Threads /\ missed.at = "missed"
      BY <1>1, <2>1 DEF Threads, Exited, Looping
    <3>2. /\ call' = [call EXCEPT ![r] = d]
          /\ worker' = [worker EXCEPT ![r] = [worker[r] EXCEPT ![w] = missed]]
      BY <1>1, <2>2
    <3>3. d.next = c.next
      BY <1>1 DEF Calls
    <3>4. /\ phase[r] = "running" /\ Weight(missed.at) < Weight(worker[r][w].at)
          /\ d.next = call[r].next
      BY <1>2, <1>3, <2>1, <3>1, <3>3
    <3> HIDE DEF c, d, missed
    <3> QED
      BY <2>1, <3>1, <3>2, <3>4, ThreadFinishes
  <2>3. ASSUME NEW i \in Cached(Key(c.identity, t)),
               call' = [call EXCEPT ![r].output[t] = recency[i].samples, ![r].hits = @ + 1],
               worker' = [worker EXCEPT ![r][w] = Looping]
        PROVE  Rank(r)' \in 0..(Rank(r) - 1)
    <3> DEFINE found == [c EXCEPT !.output[t] = recency[i].samples, !.hits = @ + 1]
    <3>1. /\ call' = [call EXCEPT ![r] = found]
          /\ worker' = [worker EXCEPT ![r] = [worker[r] EXCEPT ![w] = Looping]]
      BY <1>1, <2>3
    <3>2. found.next = c.next
      BY <1>1 DEF Calls
    <3>3. /\ phase[r] = "running" /\ Weight(Looping.at) < Weight(worker[r][w].at)
          /\ found.next = call[r].next
      BY <1>2, <1>3, <2>1, <3>2
    <3> HIDE DEF c, found
    <3> QED
      BY <1>2, <2>1, <3>1, <3>3, ThreadFinishes
  <2> QED
    BY <1>7, <2>2, <2>3 DEF Lookup
<1> QED
  BY <1>4, <1>5, <1>6, <1>7, ClaimCounts DEF WorkerStep

\* The join ends all work of the threads; each tile admitted is one less.
LEMMA CallerCounts ==
  ASSUME RenderInv, NEW r \in Renders, CallerStep(r)
  PROVE  Rank(r)' \in 0..(Rank(r) - 1)
<1>1. /\ call[r].next \in 1..(TileCount + 1) /\ call[r].stored \in 0..TileCount /\ TileCount \in Nat
      /\ worker[r] \in [Workers -> Threads] /\ call[r] \in Calls
  BY RenderAssumption DEF RenderInv, TypeOK, Calls
<1>2. CASE Join(r)
  <2>1. /\ phase[r] = "running" /\ phase'[r] \in {"storing", "idle"} /\ call'[r] = call[r]
    BY <1>2 DEF Join, Joined, RenderInv, TypeOK
  <2>2. Work(worker[r]) \in Nat
    <3>1. PICK w \in Workers : TRUE
      BY RenderAssumption
    <3> QED
      BY <1>1, <3>1, WorkMoves DEF Threads
  <2>3. Rank(r) = Work(worker[r]) + 3 * (TileCount - call[r].next + 1) + TileCount + 2
    BY <2>1 DEF Rank, Work
  <2>4. Rank(r)' = IF phase'[r] = "storing" THEN TileCount - call[r].stored + 1 ELSE 0
    BY <2>1 DEF Rank
  <2> QED
    BY <1>1, <2>1, <2>2, <2>3, <2>4
<1>3. CASE Admit(r)
  <2>1. /\ phase[r] = "storing" /\ phase'[r] = "storing" /\ call[r].stored + 1 \in 1..TileCount
        /\ call'[r].stored = call[r].stored + 1
    BY <1>1, <1>3 DEF Admit, Tiles, RenderInv, TypeOK, Calls
  <2>2. Rank(r) = TileCount - call[r].stored + 1 /\ Rank(r)' = TileCount - (call[r].stored + 1) + 1
    BY <2>1 DEF Rank
  <2> QED
    BY <1>1, <2>1, <2>2
<1>4. CASE ReturnImage(r)
  <2>1. /\ phase[r] = "storing" /\ phase'[r] = "done" /\ call[r].stored = TileCount
    BY <1>4 DEF ReturnImage, RenderInv, TypeOK
  <2>2. Rank(r) = 1 /\ Rank(r)' = 0
    BY <1>1, <2>1 DEF Rank
  <2> QED
    BY <2>2
<1> QED
  BY <1>2, <1>3, <1>4 DEF CallerStep

\* A call moves by its own steps only.
LEMMA OthersStay ==
  ASSUME RenderInv, NEW r \in Renders, NEW o \in Renders, o # r,
         (\E w \in Workers : WorkerStep(r, w)) \/ CallerStep(r)
  PROVE  Closer(o)
<1>1. /\ phase \in [Renders -> {"idle", "running", "storing", "done"}]
      /\ call \in [Renders -> Calls] /\ worker \in [Renders -> [Workers -> Threads]]
  BY DEF RenderInv, TypeOK
<1>2. phase'[o] = phase[o]
  BY <1>1 DEF WorkerStep, CallerStep, Claim, Exit, Lookup, Produce, Fail, Join, Admit, ReturnImage
<1>3. worker'[o] = worker[o]
  BY <1>1 DEF WorkerStep, CallerStep, Claim, Exit, Lookup, Produce, Fail, Join, Admit, ReturnImage
<1>4. call'[o] = call[o]
  BY <1>1 DEF WorkerStep, CallerStep, Claim, Exit, Lookup, Produce, Fail, Join, Admit, ReturnImage
<1> QED
  BY <1>2, <1>3, <1>4 DEF Closer

\* Every step of every call brings it closer to its end, for any number of
\* threads, tiles and callers (CpuRenderer::render and its threads): a call
\* takes at most as many steps as its rank when it starts.
THEOREM StepsCountAlways == Spec => StepsCount
<1>1. RenderInv /\ [Next]_vars => [\A r \in Renders : Closer(r)]_vars
  <2> SUFFICES ASSUME RenderInv, Next, NEW o \in Renders PROVE Closer(o)
    OBVIOUS
  <2>1. /\ phase \in [Renders -> {"idle", "running", "storing", "done"}]
        /\ call \in [Renders -> Calls] /\ worker \in [Renders -> [Workers -> Threads]]
    BY DEF RenderInv, TypeOK
  <2>2. ASSUME NEW r \in Renders, (\E w \in Workers : WorkerStep(r, w)) \/ CallerStep(r)
        PROVE  Closer(o)
    <3>1. Rank(r)' \in 0..(Rank(r) - 1)
      BY <2>2, WorkerCounts, CallerCounts
    <3> QED
      BY <2>2, <3>1, OthersStay DEF Closer
  <2>3. ASSUME NEW r \in Renders, NEW id \in Identities, Start(r, id) PROVE Closer(o)
    <3>1. o # r => phase'[o] = phase[o] /\ worker'[o] = worker[o] /\ call'[o] = call[o]
      BY <2>1, <2>3 DEF Start
    <3>2. phase[r] = "idle"
      BY <2>3 DEF Start
    <3> QED
      BY <3>1, <3>2 DEF Closer
  <2>4. ASSUME NEW r \in Renders, Cancel(r) PROVE Closer(o)
    <3>1. phase' = phase /\ worker' = worker /\ call'[o].stored = call[o].stored
      BY <2>1, <2>4 DEF Cancel, Calls
    <3> QED
      BY <3>1 DEF Closer
  <2>5. ASSUME NEW r \in Renders, Offer(r) PROVE Closer(o)
    <3>1. /\ phase[r] = "done" /\ call' = call /\ worker' = worker
          /\ o # r => phase'[o] = phase[o]
      BY <2>1, <2>5 DEF Offer
    <3> QED
      BY <3>1 DEF Closer
  <2>6. ASSUME ClearCache \/ \E id \in Identities : Expect(id) PROVE Closer(o)
    BY <2>6 DEF ClearCache, Expect, Closer
  <2> QED
    BY <2>2, <2>3, <2>4, <2>5, <2>6 DEF Next
<1>2. [\A r \in Renders : Closer(r)]_vars =>
        [\A r \in Renders : phase[r] \in {"running", "storing"} =>
           \/ Rank(r)' \in 0..(Rank(r) - 1)
           \/ phase'[r] = phase[r] /\ worker'[r] = worker[r] /\ call'[r].stored = call[r].stored]_vars
  BY DEF Closer
<1> QED
  BY <1>1, <1>2, RenderInvariant, PTL DEF Spec, StepsCount
=============================================================================
