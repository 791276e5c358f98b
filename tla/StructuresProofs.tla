---------------------------- MODULE StructuresProofs ----------------------------
(***************************************************************************)
(* What the data structures of infra/ guarantee for any keys, nodes, arrays *)
(* and networks: that the LRU is a map that forgets (Lru, RecencyMap), that *)
(* a copy of a list stays what it was (LruList), and that a match in the    *)
(* compressed trie is the longest network (Trie).  The three share nothing  *)
(* but the first two lemmas.                                                *)
(***************************************************************************)
EXTENDS Lru, LruList, Trie, FiniteSetTheorems, WellFoundedInduction, TLAPS

------------------------------------------------------------------------------
(* Induction over naturals, by a least counterexample.                      *)

(* A set of naturals has a least element.                                   *)
LEMMA LeastOfNat ==
    ASSUME NEW S, S \subseteq Nat, NEW e \in S
    PROVE  \E n \in S : \A m \in S : n <= m
<1> DEFINE Initial == {0..m : m \in {k \in S : k <= e}}
<1>1. IsWellFoundedOn(StrictSubsetOrdering(0..e), SUBSET (0..e))
  <2>1. IsFiniteSet(0..e)
    BY FS_Interval
  <2> QED
    BY <2>1, FS_StrictSubsetOrderingWellFounded, FS_FiniteSubsetsOfFinite
<1>2. Initial \subseteq SUBSET (0..e) /\ Initial # {}
  OBVIOUS
<1>3. PICK b \in Initial : \A a \in Initial : ~(<<a, b>> \in StrictSubsetOrdering(0..e))
  BY <1>1, <1>2, WFMin
<1>4. PICK n \in S : n <= e /\ b = 0..n
  BY <1>3
<1>5. ASSUME NEW m \in S, m < n PROVE FALSE
  <2>1. 0..m \in Initial
    BY <1>4, <1>5
  <2>2. 0..m \subseteq 0..n /\ 0..m # 0..n
    BY <1>4, <1>5
  <2>3. 0..m \in SUBSET (0..e) /\ 0..n \in SUBSET (0..e)
    BY <1>4, <1>5
  <2> QED
    BY <1>3, <1>4, <2>1, <2>2, <2>3 DEF StrictSubsetOrdering
<1> QED
  BY <1>4, <1>5

(* A recursive function over an interval exists, given its step.            *)
LEMMA IterateExists ==
    ASSUME NEW G, G \in [DOMAIN G -> DOMAIN G], NEW z \in DOMAIN G, NEW N \in Nat
    PROVE  \E f \in [0..N -> DOMAIN G] : f = [i \in 0..N |-> IF i = 0 THEN z ELSE G[f[i - 1]]]
  <1> DEFINE S == DOMAIN G
  <1> DEFINE Iterates(n) == {f \in [0..n -> S] : f[0] = z /\ \A i \in 1..n : f[i] = G[f[i - 1]]}
             Bad == {n \in Nat : Iterates(n) = {}}
  <1>1. ASSUME NEW e \in Bad PROVE FALSE
    <2>1. PICK n \in Bad : \A m \in Bad : n <= m
      BY LeastOfNat, Bad \subseteq Nat
    <2>2. n # 0
      <3>1. [i \in 0..0 |-> z] \in Iterates(0)
        OBVIOUS
      <3> QED
        BY <3>1, <2>1
    <2>3. n - 1 \in Nat /\ ~(n <= n - 1)
      BY <2>1, <2>2
    <2>4. PICK f : f \in Iterates(n - 1)
      BY <2>1, <2>3
    <2> DEFINE g == [i \in 0..n |-> IF i = n THEN G[f[n - 1]] ELSE f[i]]
    <2>5. g \in [0..n -> S]
      BY <2>3, <2>4
    <2>6. g[0] = z /\ \A i \in 1..n : g[i] = G[g[i - 1]]
      BY <2>2, <2>3, <2>4
    <2>7. g \in Iterates(n)
      BY <2>5, <2>6
    <2> QED
      BY <2>1, <2>7
  <1>2. PICK f : f \in Iterates(N)
    BY <1>1
  <1>3. \A i \in 0..N : f[i] = IF i = 0 THEN z ELSE G[f[i - 1]]
    BY <1>2
  <1> QED
    BY <1>2, <1>3

------------------------------------------------------------------------------
(* Lru: the pointers and the maps.                                          *)

(* The invariant.                                                           *)

Linkable == LruNode \cup {First, Last}
PointerList == [next : [Linkable -> Linkable \cup {NoNode}], prior : [Linkable -> Linkable \cup {NoNode}]]
Contents == [list : PointerList, index : [Key -> LruNode \cup {NoNode}], keys : [LruNode -> Key \cup {NoKey}]]

LruTypeOK ==
    /\ strategy \in {"FixedLength", "FixedTimeout"}
    /\ [list |-> list, index |-> index, keys |-> reverseIndex] \in Contents
    /\ lastUse \in [LruNode -> Nat] /\ time \in Nat

(* The pointers of l thread the nodes of s from one sentinel to the other,  *)
(* in both directions.                                                      *)
At(s, i) == IF i = 0 THEN First ELSE IF i = Len(s) + 1 THEN Last ELSE s[i]

Threads(l, s) ==
    /\ s \in Seq(LruNode)
    /\ \A i, j \in 1..Len(s) : s[i] = s[j] => i = j
    /\ \A i \in 0..Len(s) : l.next[At(s, i)] = At(s, i + 1) /\ l.prior[At(s, i + 1)] = At(s, i)

(* The two maps are inverse to each other and name the nodes of s.          *)
Indexed(c, s) ==
    /\ \A n \in LruNode : c.keys[n] # NoKey <=> \E i \in 1..Len(s) : s[i] = n
    /\ \A k \in Key : c.index[k] # NoNode => c.keys[c.index[k]] = k
    /\ \A n \in LruNode : c.keys[n] # NoKey => c.index[c.keys[n]] = n

Holds(c, s) == c \in Contents /\ Threads(c.list, s) /\ Indexed(c, s)

(* The times of use never grow towards the back.                            *)
InOrder(s, used) == \A i, j \in 1..Len(s) : i <= j => used[s[i]] >= used[s[j]]

Now == [list |-> list, index |-> index, keys |-> reverseIndex]

LruInv ==
    /\ LruTypeOK
    /\ Holds(Now, Linked(list))
    /\ InOrder(Linked(list), lastUse)
    /\ \A n \in LruNode : lastUse[n] <= time

------------------------------------------------------------------------------
(* The linked list.                                                         *)

(* What s is without its i-th node.                                         *)
Del(s, i) == SubSeq(s, 1, i - 1) \o SubSeq(s, i + 1, Len(s))

LEMMA DelFacts ==
    ASSUME NEW S, NEW s \in Seq(S), NEW i \in 1..Len(s)
    PROVE  /\ Del(s, i) \in Seq(S) /\ Len(Del(s, i)) = Len(s) - 1
           /\ \A j \in 1 .. Len(s) - 1 : Del(s, i)[j] = IF j < i THEN s[j] ELSE s[j + 1]
  <1> DEFINE head == SubSeq(s, 1, i - 1)
             tail == SubSeq(s, i + 1, Len(s))
  <1>1. head \in Seq(S) /\ Len(head) = i - 1 /\ \A j \in 1 .. i - 1 : head[j] = s[j]
    OBVIOUS
  <1>2. tail \in Seq(S) /\ Len(tail) = Len(s) - i /\ \A j \in 1 .. Len(s) - i : tail[j] = s[i + j]
    OBVIOUS
  <1>3. Del(s, i) = head \o tail
    BY DEF Del
  <1> HIDE DEF head, tail
  <1>4. Del(s, i) \in Seq(S) /\ Len(Del(s, i)) = Len(s) - 1
    BY <1>1, <1>2, <1>3
  <1>5. ASSUME NEW j \in 1 .. Len(s) - 1 PROVE Del(s, i)[j] = IF j < i THEN s[j] ELSE s[j + 1]
    <2>1. CASE j < i
      BY <1>1, <1>2, <1>3, <2>1
    <2>2. CASE j >= i
      <3>0. Len(s) \in Nat /\ j - i + 1 \in 1 .. Len(s) - i
        BY <2>2
      <3>1. PICK k \in 1 .. Len(s) - i : k = j - Len(head) /\ i + k = j + 1
        BY <1>1, <2>2, <3>0
      <3>2. (head \o tail)[j] = tail[k]
        BY <1>1, <1>2, <2>2, <3>1
      <3>3. tail[k] = s[j + 1]
        BY <1>2, <3>1
      <3> QED
        BY <1>3, <2>2, <3>2, <3>3
    <2> QED
      BY <2>1, <2>2
  <1> QED
    BY <1>4, <1>5

(* Sequences are equal when their elements are.                             *)
LEMMA SameElements ==
    ASSUME NEW S, NEW s \in Seq(S), NEW t \in Seq(S), Len(s) = Len(t),
           \A i \in 1..Len(t) : s[i] = t[i]
    PROVE  s = t
  OBVIOUS

(* The rest of a sequence after its first elements.                         *)
LEMMA RestFacts ==
    ASSUME NEW S, NEW s \in Seq(S), NEW j \in 0..Len(s)
    PROVE  /\ SubSeq(s, j + 1, Len(s)) \in Seq(S) /\ Len(SubSeq(s, j + 1, Len(s))) = Len(s) - j
           /\ \A k \in 1 .. Len(s) - j : SubSeq(s, j + 1, Len(s))[k] = s[j + k]
  OBVIOUS

LEMMA PushFacts ==
    ASSUME NEW S, NEW s \in Seq(S), NEW x \in S
    PROVE  /\ <<x>> \o s \in Seq(S) /\ Len(<<x>> \o s) = Len(s) + 1
           /\ (<<x>> \o s)[1] = x
           /\ \A i \in 2 .. Len(s) + 1 : (<<x>> \o s)[i] = s[i - 1]
  <1>1. <<x>> \in Seq(S) /\ Len(<<x>>) = 1 /\ <<x>>[1] = x
    OBVIOUS
  <1> QED
    BY <1>1

(* Sentinels and nodes are all different.                                   *)
LEMMA AtFacts ==
    ASSUME NEW l, NEW s, Threads(l, s)
    PROVE  /\ s \in Seq(LruNode) /\ Len(s) \in Nat
           /\ \A i \in 0 .. Len(s) + 1 : At(s, i) \in Linkable
           /\ \A i \in 1..Len(s) : At(s, i) = s[i] /\ s[i] \in LruNode
           /\ At(s, 0) = First /\ At(s, Len(s) + 1) = Last
           /\ \A i, j \in 0 .. Len(s) + 1 : At(s, i) = At(s, j) => i = j
  <1>1. s \in Seq(LruNode) /\ Len(s) \in Nat /\ \A i \in 1..Len(s) : s[i] \in LruNode
    BY DEF Threads
  <1>2. First \notin LruNode /\ Last \notin LruNode /\ First # Last
    BY LruAssumption
  <1>3. \A i \in 1..Len(s) : At(s, i) = s[i]
    BY <1>1 DEF At
  <1>4. At(s, 0) = First /\ At(s, Len(s) + 1) = Last
    BY <1>1 DEF At
  <1>5. \A i \in 0 .. Len(s) + 1 : i = 0 \/ i = Len(s) + 1 \/ i \in 1..Len(s)
    BY <1>1
  <1>6. \A i \in 0 .. Len(s) + 1 : At(s, i) \in Linkable
    BY <1>1, <1>3, <1>4, <1>5 DEF Linkable
  <1>7. \A i, j \in 0 .. Len(s) + 1 : At(s, i) = At(s, j) => i = j
    BY <1>1, <1>2, <1>3, <1>4, <1>5 DEF Threads
  <1> QED
    BY <1>1, <1>3, <1>4, <1>6, <1>7

(* InsertAfter of the head puts a node in front.                            *)
LEMMA InsertFront ==
    ASSUME NEW l \in PointerList, NEW s, Threads(l, s), NEW n \in LruNode,
           \A i \in 1..Len(s) : s[i] # n
    PROVE  InsertAfter(l, First, n) \in PointerList /\ Threads(InsertAfter(l, First, n), <<n>> \o s)
  <1> DEFINE q == l.next[First]
             m == InsertAfter(l, First, n)
             t == <<n>> \o s
  <1>1. /\ s \in Seq(LruNode) /\ Len(s) \in Nat
        /\ \A i \in 0 .. Len(s) + 1 : At(s, i) \in Linkable
        /\ \A i \in 1..Len(s) : At(s, i) = s[i] /\ s[i] \in LruNode
        /\ At(s, 0) = First /\ At(s, Len(s) + 1) = Last
        /\ \A i, j \in 0 .. Len(s) + 1 : At(s, i) = At(s, j) => i = j
    BY AtFacts
  <1>2. /\ \A i \in 0..Len(s) : l.next[At(s, i)] = At(s, i + 1) /\ l.prior[At(s, i + 1)] = At(s, i)
        /\ \A i, j \in 1..Len(s) : s[i] = s[j] => i = j
    BY DEF Threads
  <1>3. q = At(s, 1) /\ q \in Linkable /\ n \in Linkable /\ First \in Linkable
    BY <1>1, <1>2 DEF Linkable
  <1>4. n # First /\ n # Last /\ \A i \in 0 .. Len(s) + 1 : At(s, i) # n
    <2>1. n # First /\ n # Last
      BY LruAssumption
    <2> QED
      BY <1>1, <2>1 DEF At
  <1>5. /\ m.next = [l.next EXCEPT ![n] = q, ![First] = n]
        /\ m.prior = [l.prior EXCEPT ![n] = First, ![q] = n]
        /\ m = [next |-> m.next, prior |-> m.prior]
    BY DEF InsertAfter
  <1>6. l.next \in [Linkable -> Linkable \cup {NoNode}] /\ l.prior \in [Linkable -> Linkable \cup {NoNode}]
    BY DEF PointerList
  <1> HIDE DEF m, q
  <1>7. m \in PointerList
    BY <1>3, <1>5, <1>6 DEF PointerList
  <1>8. /\ m.next[n] = q /\ m.next[First] = n
        /\ \A x \in Linkable : x # n /\ x # First => m.next[x] = l.next[x]
        /\ m.prior[q] = n /\ (n # q => m.prior[n] = First)
        /\ \A x \in Linkable : x # n /\ x # q => m.prior[x] = l.prior[x]
    BY <1>3, <1>4, <1>5, <1>6
  <1>9. /\ t \in Seq(LruNode) /\ Len(t) = Len(s) + 1 /\ t[1] = n
        /\ \A i \in 2 .. Len(s) + 1 : t[i] = s[i - 1]
    BY <1>1, PushFacts
  <1> HIDE DEF t
  <1>10. At(t, 0) = First /\ At(t, 1) = n /\ \A i \in 2 .. Len(t) + 1 : At(t, i) = At(s, i - 1)
    BY <1>1, <1>9 DEF At
  <1>11. ASSUME NEW i \in 1..Len(t), NEW j \in 1..Len(t), t[i] = t[j] PROVE i = j
    <2>1. \A k \in 2..Len(t) : k - 1 \in 1..Len(s) /\ t[k] = s[k - 1] /\ t[k] # n
      BY <1>1, <1>9
    <2>2. CASE i = 1 \/ j = 1
      BY <1>1, <1>9, <1>11, <2>1, <2>2
    <2>3. CASE i # 1 /\ j # 1
      <3>1. i \in 2..Len(t) /\ j \in 2..Len(t) /\ i - 1 \in 1..Len(s) /\ j - 1 \in 1..Len(s)
        BY <1>1, <1>9, <2>3
      <3>2. s[i - 1] = s[j - 1]
        BY <1>11, <2>1, <3>1
      <3>3. i - 1 = j - 1
        BY <1>2, <3>1, <3>2
      <3> QED
        BY <3>1, <3>3
    <2> QED
      BY <2>2, <2>3
  <1>12. ASSUME NEW i \in 0..Len(t)
         PROVE  m.next[At(t, i)] = At(t, i + 1) /\ m.prior[At(t, i + 1)] = At(t, i)
    <2>1. CASE i = 0
      BY <1>1, <1>3, <1>4, <1>8, <1>10, <2>1
    <2>2. CASE i = 1
      BY <1>1, <1>3, <1>8, <1>9, <1>10, <2>2
    <2>3. CASE i >= 2
      <3>1. i - 1 \in 1..Len(s) /\ (i - 1) + 1 = i /\ i \in 2 .. Len(s) + 1
        BY <1>9, <2>3
      <3>2. At(t, i) = At(s, i - 1) /\ At(t, i + 1) = At(s, i)
        BY <1>9, <1>10, <3>1
      <3>3. At(s, i - 1) # First /\ At(s, i) # q
        BY <1>1, <1>3, <3>1
      <3>4. m.next[At(s, i - 1)] = l.next[At(s, i - 1)] /\ m.prior[At(s, i)] = l.prior[At(s, i)]
        BY <1>1, <1>4, <1>8, <3>1, <3>3
      <3>5. l.next[At(s, i - 1)] = At(s, i) /\ l.prior[At(s, i)] = At(s, i - 1)
        BY <1>2, <3>1
      <3> QED
        BY <3>2, <3>4, <3>5
    <2> QED
      BY <2>1, <2>2, <2>3
  <1> QED
    BY <1>7, <1>9, <1>11, <1>12 DEF Threads, m, t

(* Remove closes the gap.                                                   *)
LEMMA UnlinkAny ==
    ASSUME NEW l \in PointerList, NEW s, Threads(l, s), NEW i \in 1..Len(s)
    PROVE  Unlink(l, s[i]) \in PointerList /\ Threads(Unlink(l, s[i]), Del(s, i))
  <1> DEFINE m == Unlink(l, s[i])
             t == Del(s, i)
  <1>1. /\ s \in Seq(LruNode) /\ Len(s) \in Nat
        /\ \A j \in 0 .. Len(s) + 1 : At(s, j) \in Linkable
        /\ \A j \in 1..Len(s) : At(s, j) = s[j] /\ s[j] \in LruNode
        /\ At(s, 0) = First /\ At(s, Len(s) + 1) = Last
        /\ \A j, k \in 0 .. Len(s) + 1 : At(s, j) = At(s, k) => j = k
    BY AtFacts
  <1>2. /\ \A j \in 0..Len(s) : l.next[At(s, j)] = At(s, j + 1) /\ l.prior[At(s, j + 1)] = At(s, j)
        /\ \A j, k \in 1..Len(s) : s[j] = s[k] => j = k
    BY DEF Threads
  <1>3. i - 1 \in 0..Len(s) /\ i \in 0..Len(s) /\ (i - 1) + 1 = i /\ i + 1 \in 0 .. Len(s) + 1
        /\ i - 1 \in 0 .. Len(s) + 1
    BY <1>1
  <1>4. l.next[s[i]] = At(s, i + 1) /\ l.prior[s[i]] = At(s, i - 1)
    BY <1>1, <1>2, <1>3
  <1>5. /\ m.next = [l.next EXCEPT ![At(s, i - 1)] = At(s, i + 1)]
        /\ m.prior = [l.prior EXCEPT ![At(s, i + 1)] = At(s, i - 1)]
        /\ m = [next |-> m.next, prior |-> m.prior]
    BY <1>4 DEF Unlink
  <1>6. l.next \in [Linkable -> Linkable \cup {NoNode}] /\ l.prior \in [Linkable -> Linkable \cup {NoNode}]
    BY DEF PointerList
  <1> HIDE DEF m
  <1>7. At(s, i - 1) \in Linkable /\ At(s, i + 1) \in Linkable
    BY <1>1, <1>3
  <1>8. m \in PointerList
    BY <1>5, <1>6, <1>7 DEF PointerList
  <1>9. /\ m.next[At(s, i - 1)] = At(s, i + 1) /\ m.prior[At(s, i + 1)] = At(s, i - 1)
        /\ \A x \in Linkable : x # At(s, i - 1) => m.next[x] = l.next[x]
        /\ \A x \in Linkable : x # At(s, i + 1) => m.prior[x] = l.prior[x]
    BY <1>5, <1>6, <1>7
  <1>10. /\ t \in Seq(LruNode) /\ Len(t) = Len(s) - 1
         /\ \A j \in 1 .. Len(s) - 1 : t[j] = IF j < i THEN s[j] ELSE s[j + 1]
    BY <1>1, DelFacts
  <1> HIDE DEF t
  <1>11. \A j \in 0 .. Len(s) : At(t, j) = IF j < i THEN At(s, j) ELSE At(s, j + 1)
    <2> SUFFICES ASSUME NEW j \in 0 .. Len(s) PROVE At(t, j) = IF j < i THEN At(s, j) ELSE At(s, j + 1)
      OBVIOUS
    <2>1. CASE j = 0
      BY <1>1, <2>1 DEF At
    <2>2. CASE j = Len(s)
      <3>1. At(t, j) = Last
        BY <1>1, <1>10, <2>2 DEF At
      <3> QED
        BY <1>1, <2>2, <3>1
    <2>3. CASE j \in 1 .. Len(s) - 1
      <3>1. At(t, j) = t[j] /\ j \in 1..Len(s) /\ j + 1 \in 1..Len(s)
        BY <1>1, <1>10, <2>3 DEF At
      <3> QED
        BY <1>1, <1>10, <2>3, <3>1
    <2> QED
      BY <1>1, <2>1, <2>2, <2>3
  <1>12. \A j, k \in 1..Len(t) : t[j] = t[k] => j = k
    <2> SUFFICES ASSUME NEW j \in 1..Len(t), NEW k \in 1..Len(t), t[j] = t[k]
                 PROVE  j = k
      OBVIOUS
    <2>1. j \in 1..Len(s) /\ j + 1 \in 1..Len(s) /\ k \in 1..Len(s) /\ k + 1 \in 1..Len(s)
      BY <1>1, <1>10
    <2>2. t[j] = (IF j < i THEN s[j] ELSE s[j + 1]) /\ t[k] = (IF k < i THEN s[k] ELSE s[k + 1])
      BY <1>10
    <2>3. CASE j < i /\ k < i
      BY <1>2, <2>1, <2>2, <2>3
    <2>4. CASE j < i /\ ~(k < i)
      <3>1. s[j] = s[k + 1]
        BY <2>2, <2>4
      <3> QED
        BY <1>2, <2>1, <2>4, <3>1
    <2>5. CASE ~(j < i) /\ k < i
      <3>1. s[j + 1] = s[k]
        BY <2>2, <2>5
      <3> QED
        BY <1>2, <2>1, <2>5, <3>1
    <2>6. CASE ~(j < i) /\ ~(k < i)
      <3>1. s[j + 1] = s[k + 1]
        BY <2>2, <2>6
      <3>2. j + 1 = k + 1
        BY <1>2, <2>1, <3>1
      <3> QED
        BY <3>2
    <2> QED
      BY <2>3, <2>4, <2>5, <2>6
  <1>13. ASSUME NEW j \in 0..Len(t)
         PROVE  m.next[At(t, j)] = At(t, j + 1) /\ m.prior[At(t, j + 1)] = At(t, j)
    <2>0. j \in 0..Len(s) /\ j + 1 \in 0..Len(s) /\ j + 2 \in 0 .. Len(s) + 1 /\ (j + 1) + 1 = j + 2
          /\ j \in 0 .. Len(s) + 1 /\ j + 1 \in 0 .. Len(s) + 1
      BY <1>1, <1>10
    <2>1. CASE j + 1 = i
      <3>1. At(t, j) = At(s, i - 1) /\ At(t, j + 1) = At(s, i + 1)
        BY <1>11, <2>0, <2>1
      <3> QED
        BY <1>9, <3>1
    <2>2. CASE j + 1 < i
      <3>1. At(t, j) = At(s, j) /\ At(t, j + 1) = At(s, j + 1)
        BY <1>11, <2>0, <2>2
      <3>2. At(s, j) # At(s, i - 1) /\ At(s, j + 1) # At(s, i + 1)
        BY <1>1, <1>3, <2>0, <2>2
      <3>3. m.next[At(s, j)] = l.next[At(s, j)] /\ m.prior[At(s, j + 1)] = l.prior[At(s, j + 1)]
        BY <1>1, <1>9, <2>0, <3>2
      <3> QED
        BY <1>2, <2>0, <3>1, <3>3
    <2>3. CASE j + 1 > i
      <3>1. At(t, j) = At(s, j + 1) /\ At(t, j + 1) = At(s, j + 2)
        BY <1>11, <2>0, <2>3
      <3>2. At(s, j + 1) # At(s, i - 1) /\ At(s, j + 2) # At(s, i + 1)
        BY <1>1, <1>3, <2>0, <2>3
      <3>3. m.next[At(s, j + 1)] = l.next[At(s, j + 1)] /\ m.prior[At(s, j + 2)] = l.prior[At(s, j + 2)]
        BY <1>1, <1>9, <2>0, <3>2
      <3>4. l.next[At(s, j + 1)] = At(s, j + 2) /\ l.prior[At(s, j + 2)] = At(s, j + 1)
        BY <1>2, <2>0
      <3> QED
        BY <3>1, <3>3, <3>4
    <2> QED
      BY <2>0, <2>1, <2>2, <2>3
  <1> QED
    BY <1>8, <1>10, <1>12, <1>13 DEF Threads, m, t

(* Promote moves a node to the front.                                       *)
LEMMA PromoteAny ==
    ASSUME NEW l \in PointerList, NEW s, Threads(l, s), NEW i \in 1..Len(s)
    PROVE  Promote(l, s[i]) \in PointerList /\ Threads(Promote(l, s[i]), <<s[i]>> \o Del(s, i))
  <1>1. /\ s \in Seq(LruNode) /\ Len(s) \in Nat /\ s[i] \in LruNode
        /\ \A j \in 1..Len(s) : At(s, j) = s[j]
        /\ At(s, 0) = First
    BY AtFacts
  <1>2. l.next[First] = s[1] /\ 1 \in 1..Len(s)
    <2>1. l.next[At(s, 0)] = At(s, 0 + 1)
      BY <1>1 DEF Threads
    <2> QED
      BY <1>1, <2>1
  <1>3. \A j, k \in 1..Len(s) : s[j] = s[k] => j = k
    BY DEF Threads
  <1>4. /\ Del(s, i) \in Seq(LruNode) /\ Len(Del(s, i)) = Len(s) - 1
        /\ \A j \in 1 .. Len(s) - 1 : Del(s, i)[j] = IF j < i THEN s[j] ELSE s[j + 1]
    BY <1>1, DelFacts
  <1>5. CASE i = 1
    <2>1. Promote(l, s[i]) = l
      BY <1>2, <1>5 DEF Promote
    <2> DEFINE t == <<s[1]>> \o Del(s, 1)
    <2>2. /\ t \in Seq(LruNode) /\ Len(t) = Len(s) - 1 + 1 /\ t[1] = s[1]
          /\ \A j \in 2 .. Len(s) - 1 + 1 : t[j] = Del(s, 1)[j - 1]
      BY <1>1, <1>4, <1>5, PushFacts
    <2> HIDE DEF t
    <2>3. \A j \in 1..Len(s) : t[j] = s[j]
      <3> SUFFICES ASSUME NEW j \in 2..Len(s) PROVE t[j] = s[j]
        BY <2>2
      <3>1. j - 1 \in 1 .. Len(s) - 1 /\ (j - 1) + 1 = j /\ ~(j - 1 < 1)
        BY <1>1
      <3>2. Del(s, 1)[j - 1] = s[j]
        BY <1>4, <1>5, <3>1
      <3> QED
        BY <1>1, <2>2, <3>2
    <2>4. t = s
      BY <1>1, <2>2, <2>3
    <2> QED
      BY <1>5, <2>1, <2>4 DEF t
  <1>6. CASE i # 1
    <2>1. Promote(l, s[i]) = InsertAfter(Unlink(l, s[i]), First, s[i])
      BY <1>2, <1>3, <1>6 DEF Promote
    <2>2. Unlink(l, s[i]) \in PointerList /\ Threads(Unlink(l, s[i]), Del(s, i))
      BY UnlinkAny
    <2>3. \A j \in 1..Len(Del(s, i)) : Del(s, i)[j] # s[i]
      <3> SUFFICES ASSUME NEW j \in 1 .. Len(s) - 1 PROVE Del(s, i)[j] # s[i]
        BY <1>4
      <3>1. j \in 1..Len(s) /\ j + 1 \in 1..Len(s)
        BY <1>1
      <3>2. CASE j < i
        BY <1>3, <1>4, <3>1, <3>2
      <3>3. CASE ~(j < i)
        BY <1>3, <1>4, <3>1, <3>3
      <3> QED
        BY <3>2, <3>3
    <2> QED
      BY <1>1, <2>1, <2>2, <2>3, InsertFront
  <1> QED
    BY <1>5, <1>6

LEMMA BackIsLast ==
    ASSUME NEW l, NEW s, Threads(l, s)
    PROVE  Back(l) = IF Len(s) = 0 THEN First ELSE s[Len(s)]
  <1>1. Len(s) \in Nat /\ At(s, Len(s) + 1) = Last /\ At(s, 0) = First
        /\ \A j \in 1..Len(s) : At(s, j) = s[j]
    BY AtFacts
  <1>2. l.prior[At(s, Len(s) + 1)] = At(s, Len(s))
    BY <1>1 DEF Threads
  <1> QED
    BY <1>1, <1>2 DEF Back

LEMMA ThreadsLength ==
    ASSUME NEW l, NEW s, Threads(l, s)
    PROVE  Len(s) <= Cardinality(LruNode) /\ Cardinality(LruNode) \in Nat
  <1>1. s \in Seq(LruNode) /\ Len(s) \in Nat /\ \A i, j \in 1..Len(s) : s[i] = s[j] => i = j
    BY DEF Threads
  <1>2. s \in Injection(1..Len(s), LruNode)
    BY <1>1 DEF Injection, IsInjective
  <1>3. Cardinality(1..Len(s)) <= Cardinality(LruNode)
    BY <1>2, FS_Injection, LruAssumption
  <1>4. Cardinality(1..Len(s)) = Len(s)
    <2>1. 1 \in Int /\ Len(s) \in Int
      BY <1>1
    <2>2. Cardinality(1..Len(s)) = IF 1 > Len(s) THEN 0 ELSE Len(s) - 1 + 1
      BY <2>1, FS_Interval
    <2> QED
      BY <1>1, <2>2
  <1> QED
    BY <1>3, <1>4, FS_CardinalityType, LruAssumption

(* What threads the pointers is what a walk from the head meets.            *)
LEMMA LinkedIs ==
    ASSUME NEW l \in PointerList, NEW s, Threads(l, s)
    PROVE  Linked(l) = s
  <1> DEFINE N == Cardinality(LruNode)
             D == LruNode \cup {First}
             m == Len(s)
             Step(h) == [n \in D |-> IF l.next[n] \notin LruNode THEN <<>>
                                      ELSE <<l.next[n]>> \o h[l.next[n]]]
             S == [D -> Seq(LruNode)]
             z == [n \in D |-> <<>>]
             Body(h) == [i \in 0..N |->
                           [n \in D |-> IF i = 0 \/ l.next[n] \notin LruNode THEN <<>>
                                         ELSE <<l.next[n]>> \o h[i - 1][l.next[n]]]]
             after == CHOOSE h : h = Body(h)
  <1>1. /\ s \in Seq(LruNode) /\ m \in Nat
        /\ \A i \in 1..m : At(s, i) = s[i] /\ s[i] \in LruNode
        /\ At(s, 0) = First /\ At(s, m + 1) = Last
    BY AtFacts
  <1>2. m <= N /\ N \in Nat
    BY ThreadsLength
  <1>3. Linked(l) = after[N][First]
    BY DEF Linked
  <1>4. after = Body(after)
    <2>1. z \in S
      <3>1. <<>> \in Seq(LruNode)
        OBVIOUS
      <3> QED
        BY <3>1
    <2>2. ASSUME NEW h \in S PROVE Step(h) \in S
      <3> SUFFICES ASSUME NEW n \in D, l.next[n] \in LruNode
                   PROVE  <<l.next[n]>> \o h[l.next[n]] \in Seq(LruNode)
        OBVIOUS
      <3>1. h[l.next[n]] \in Seq(LruNode)
        BY <2>2
      <3> QED
        BY <3>1, PushFacts
    <2> DEFINE G == [h \in S |-> Step(h)]
    <2>3. G \in [S -> S]
      <3> HIDE DEF Step, S
      <3> QED
        BY <2>2
    <2>4. PICK f \in [0..N -> S] : f = [i \in 0..N |-> IF i = 0 THEN z ELSE G[f[i - 1]]]
      <3>1. N \in Nat
        BY <1>2
      <3>2. DOMAIN G = S
        OBVIOUS
      <3> HIDE DEF G, S, z, N
      <3> QED
        BY <2>1, <2>3, <3>1, <3>2, IterateExists
    <2>5. ASSUME NEW i \in 0..N
          PROVE  f[i] = [n \in D |-> IF i = 0 \/ l.next[n] \notin LruNode THEN <<>>
                                      ELSE <<l.next[n]>> \o f[i - 1][l.next[n]]]
      <3>1. f[i] = IF i = 0 THEN z ELSE G[f[i - 1]]
        BY <2>4
      <3>2. CASE i = 0
        BY <3>1, <3>2
      <3>3. CASE i # 0
        <4>1. i - 1 \in 0..N
          BY <1>2, <3>3
        <4>2. f[i - 1] \in S
          BY <2>4, <4>1
        <4>3. G[f[i - 1]] = Step(f[i - 1])
          <5> HIDE DEF Step, S
          <5> QED
            BY <4>2
        <4> QED
          BY <3>1, <3>3, <4>3
      <3> QED
        BY <3>2, <3>3
    <2>6. f = Body(f)
      <3>1. f = [i \in 0..N |-> f[i]]
        BY <2>4
      <3> QED
        BY <2>5, <3>1
    <2> HIDE DEF Body
    <2> QED
      BY <2>6
  <1>5. ASSUME NEW i \in 0..N, NEW n \in D
        PROVE  after[i][n] = IF i = 0 \/ l.next[n] \notin LruNode THEN <<>>
                             ELSE <<l.next[n]>> \o after[i - 1][l.next[n]]
    <2> HIDE DEF after
    <2>1. after[i] = [x \in D |-> IF i = 0 \/ l.next[x] \notin LruNode THEN <<>>
                                   ELSE <<l.next[x]>> \o after[i - 1][l.next[x]]]
      <3>1. Body(after)[i] = [x \in D |-> IF i = 0 \/ l.next[x] \notin LruNode THEN <<>>
                                   ELSE <<l.next[x]>> \o after[i - 1][l.next[x]]]
        OBVIOUS
      <3> HIDE DEF Body
      <3> QED
        BY <1>4, <3>1
    <2> QED
      BY <2>1
  <1> HIDE DEF after
  <1> DEFINE Bad == {i \in 0..N : \E j \in 0..m : j + i >= m /\ after[i][At(s, j)] # SubSeq(s, j + 1, m)}
  <1>6. ASSUME NEW e \in Bad PROVE FALSE
    <2>1. PICK i \in Bad : \A k \in Bad : i <= k
      BY <1>2, LeastOfNat, Bad \subseteq Nat
    <2>2. PICK j \in 0..m : j + i >= m /\ after[i][At(s, j)] # SubSeq(s, j + 1, m)
      BY <2>1
    <2>3. At(s, j) \in D /\ l.next[At(s, j)] = At(s, j + 1)
      <3>1. j = 0 \/ j \in 1..m
        BY <1>1
      <3> QED
        BY <1>1, <3>1 DEF Threads
    <2>4. CASE j = m
      <3>1. l.next[At(s, j)] \notin LruNode
        BY <1>1, <2>3, <2>4, LruAssumption
      <3>2. after[i][At(s, j)] = <<>>
        BY <1>5, <2>1, <2>3, <3>1
      <3>3. SubSeq(s, j + 1, m) = <<>>
        BY <1>1, <2>4
      <3> QED
        BY <2>2, <3>2, <3>3
    <2>5. CASE j # m
      <3>1. i # 0 /\ i - 1 \in 0..N /\ j + 1 \in 1..m /\ j + 1 \in 0..m /\ (j + 1) + (i - 1) >= m /\ ~(i <= i - 1)
        <4>1. m \in Nat /\ i \in 0..N /\ j \in 0..m /\ j + i >= m /\ N \in Nat
          BY <1>1, <1>2, <2>1, <2>2
        <4> HIDE DEF m
        <4> QED
          BY ONLY <4>1, <2>5
      <3>2. l.next[At(s, j)] = s[j + 1] /\ s[j + 1] \in LruNode
        BY <1>1, <2>3, <3>1
      <3>3. after[i][At(s, j)] = <<s[j + 1]>> \o after[i - 1][s[j + 1]]
        BY <1>5, <2>1, <2>3, <3>1, <3>2
      <3>4. i - 1 \notin Bad
        BY <2>1, <3>1
      <3>5. after[i - 1][At(s, j + 1)] = SubSeq(s, (j + 1) + 1, m)
        BY <3>1, <3>4
      <3>6. <<s[j + 1]>> \o SubSeq(s, (j + 1) + 1, m) = SubSeq(s, j + 1, m)
        <4> HIDE DEF m
        <4>0. s \in Seq(LruNode) /\ j \in 0..m /\ j + 1 \in 0..m
          BY <1>1, <3>1
        <4>1. m = Len(s)
          BY DEF m
        <4>2. SubSeq(s, (j + 1) + 1, m) \in Seq(LruNode) /\ Len(SubSeq(s, (j + 1) + 1, m)) = m - (j + 1)
              /\ \A k \in 1 .. m - (j + 1) : SubSeq(s, (j + 1) + 1, m)[k] = s[j + 1 + k]
          BY ONLY <4>0, <4>1, RestFacts
        <4>3. SubSeq(s, j + 1, m) \in Seq(LruNode) /\ Len(SubSeq(s, j + 1, m)) = m - j
              /\ \A k \in 1 .. m - j : SubSeq(s, j + 1, m)[k] = s[j + k]
          BY ONLY <4>0, <4>1, RestFacts
        <4> DEFINE u == SubSeq(s, (j + 1) + 1, m)
                   v == SubSeq(s, j + 1, m)
                   t == <<s[j + 1]>> \o u
        <4>4. t \in Seq(LruNode) /\ Len(t) = Len(u) + 1 /\ t[1] = s[j + 1]
              /\ \A k \in 2 .. Len(u) + 1 : t[k] = u[k - 1]
          <5> HIDE DEF u
          <5> QED
            <6>1. u \in Seq(LruNode) /\ s[j + 1] \in LruNode
              BY <3>2, <4>2 DEF u
            <6> QED
              BY ONLY <6>1, PushFacts
        <4> HIDE DEF u, v, t
        <4>5. Len(t) = Len(v) /\ v \in Seq(LruNode)
          BY <1>1, <3>1, <4>2, <4>3, <4>4 DEF u, v
        <4>6. ASSUME NEW k \in 1..Len(v) PROVE t[k] = v[k]
          <5>1. CASE k = 1
            BY <1>1, <3>1, <4>3, <4>4, <5>1 DEF v
          <5>2. CASE k # 1
            <6>1. k - 1 \in 1 .. m - (j + 1) /\ k \in 2 .. Len(u) + 1 /\ j + 1 + (k - 1) = j + k /\ k \in 1 .. m - j
              BY <1>1, <3>1, <4>2, <4>3, <5>2 DEF u, v
            <6>2. t[k] = u[k - 1] /\ u[k - 1] = s[j + 1 + (k - 1)] /\ v[k] = s[j + k]
              BY <4>2, <4>3, <4>4, <6>1 DEF u, v
            <6> QED
              BY <6>1, <6>2
          <5> QED
            BY <5>1, <5>2
        <4>7. t = v
          BY ONLY <4>4, <4>5, <4>6, SameElements
        <4> QED
          BY <4>7 DEF t, u, v
      <3> QED
        BY <1>1, <2>2, <3>1, <3>3, <3>5, <3>6
    <2> QED
      BY <2>4, <2>5
  <1>7. after[N][At(s, 0)] = SubSeq(s, 0 + 1, m)
    <2>1. N \in 0..N /\ 0 \in 0..m /\ 0 + N >= m
      BY <1>1, <1>2
    <2> QED
      BY <1>6, <2>1
  <1>8. SubSeq(s, 0 + 1, m) = s
    BY <1>1
  <1> QED
    BY <1>1, <1>3, <1>7, <1>8

------------------------------------------------------------------------------
(* The maps, and what insert takes out of them.                             *)

Prefix(s, m) == SubSeq(s, 1, m)

LEMMA PrefixFacts ==
    ASSUME NEW S, NEW s \in Seq(S), NEW m \in 0..Len(s)
    PROVE  /\ Prefix(s, m) \in Seq(S) /\ Len(Prefix(s, m)) = m
           /\ \A i \in 1..m : Prefix(s, m)[i] = s[i]
  BY DEF Prefix

(* Dropping the node at the back drops its key, and touches no other.       *)
LEMMA PopDrops ==
    ASSUME NEW c, NEW s, Holds(c, s), Len(s) > 0
    PROVE  /\ Holds(Pop(c), Prefix(s, Len(s) - 1))
           /\ \A i \in 1 .. Len(s) - 1 : Pop(c).keys[s[i]] = c.keys[s[i]]
  <1> DEFINE d == Pop(c)
             m == Len(s)
             b == s[Len(s)]
             t == Prefix(s, Len(s) - 1)
  <1>1. /\ c \in Contents /\ Threads(c.list, s) /\ Indexed(c, s)
        /\ c.list \in PointerList /\ c.index \in [Key -> LruNode \cup {NoNode}]
        /\ c.keys \in [LruNode -> Key \cup {NoKey}]
    BY DEF Holds, Contents
  <1>2. /\ s \in Seq(LruNode) /\ m \in Nat \ {0} /\ m \in 1..m
        /\ \A i \in 1..m : s[i] \in LruNode
        /\ \A i, j \in 1..m : s[i] = s[j] => i = j
    BY <1>1, AtFacts DEF Threads
  <1>3. Back(c.list) = b
    BY <1>1, <1>2, BackIsLast
  <1>4. /\ d.list = Unlink(c.list, b)
        /\ d.index = [c.index EXCEPT ![c.keys[b]] = NoNode]
        /\ d.keys = [c.keys EXCEPT ![b] = NoKey]
        /\ d = [list |-> d.list, index |-> d.index, keys |-> d.keys]
    BY <1>3 DEF Pop
  <1>5. t \in Seq(LruNode) /\ Len(t) = m - 1 /\ \A i \in 1 .. m - 1 : t[i] = s[i]
    BY <1>2, PrefixFacts
  <1> HIDE DEF d, t
  <1>6. d.list \in PointerList /\ Threads(d.list, t)
    <2>1. d.list \in PointerList /\ Threads(d.list, Del(s, m))
      BY <1>1, <1>2, <1>4, UnlinkAny
    <2>2. /\ Del(s, m) \in Seq(LruNode) /\ Len(Del(s, m)) = m - 1
          /\ \A j \in 1 .. m - 1 : Del(s, m)[j] = IF j < m THEN s[j] ELSE s[j + 1]
      BY <1>2, DelFacts
    <2>3. Del(s, m) = t
      BY <1>2, <1>5, <2>2
    <2> QED
      BY <2>1, <2>3
  <1>7. c.keys[b] \in Key /\ c.index[c.keys[b]] = b
    BY <1>1, <1>2 DEF Indexed
  <1>8. d \in Contents
    BY <1>1, <1>2, <1>4, <1>6, <1>7 DEF Contents
  <1>9. /\ d.keys[b] = NoKey /\ \A n \in LruNode : n # b => d.keys[n] = c.keys[n]
        /\ d.index[c.keys[b]] = NoNode /\ \A k \in Key : k # c.keys[b] => d.index[k] = c.index[k]
    BY <1>1, <1>2, <1>4, <1>7
  <1>10. Indexed(d, t)
    <2>1. ASSUME NEW n \in LruNode PROVE d.keys[n] # NoKey <=> \E i \in 1..Len(t) : t[i] = n
      <3>1. CASE n = b
        BY <1>2, <1>5, <1>9, <3>1
      <3>2. CASE n # b
        <4>1. (\E i \in 1..m : s[i] = n) <=> \E i \in 1 .. m - 1 : s[i] = n
          BY <1>2, <3>2
        <4> QED
          BY <1>1, <1>2, <1>5, <1>9, <3>2, <4>1 DEF Indexed
      <3> QED
        BY <3>1, <3>2
    <2>2. ASSUME NEW k \in Key, d.index[k] # NoNode PROVE d.keys[d.index[k]] = k
      <3>1. k # c.keys[b] /\ d.index[k] = c.index[k]
        BY <1>9, <2>2
      <3>2. c.index[k] \in LruNode /\ c.keys[c.index[k]] = k
        BY <1>1, <2>2, <3>1 DEF Indexed
      <3> QED
        BY <1>9, <3>1, <3>2
    <2>3. ASSUME NEW n \in LruNode, d.keys[n] # NoKey PROVE d.index[d.keys[n]] = n
      <3>1. n # b /\ d.keys[n] = c.keys[n]
        BY <1>9, <2>3
      <3>2. c.keys[n] \in Key /\ c.index[c.keys[n]] = n
        BY <1>1, <2>3, <3>1 DEF Indexed
      <3> QED
        BY <1>7, <1>9, <3>1, <3>2
    <2> QED
      BY <2>1, <2>2, <2>3 DEF Indexed
  <1>11. \A i \in 1 .. m - 1 : s[i] \in LruNode /\ s[i] # b
    BY <1>2
  <1> QED
    BY <1>6, <1>8, <1>9, <1>10, <1>11 DEF Holds, d, t

(* Popping from the back until the first that has not expired leaves        *)
(* exactly those that have not, as the times stand in order.                *)
Fresher(s, used, i) == time - used[s[i]] < Limit

Left(c, d, s, m) ==
    /\ Holds(d, Prefix(s, m))
    /\ \A i \in 1..m : d.keys[s[i]] = c.keys[s[i]]

LEMMA PopExpiredLeaves ==
    ASSUME NEW c, NEW s, Holds(c, s), NEW used, used \in [LruNode -> Nat], InOrder(s, used),
           time \in Nat, \A n \in LruNode : used[n] <= time
    PROVE  \E m \in 0..Len(s) :
               /\ Left(c, PopExpired(c, used), s, m)
               /\ \A i \in 1..Len(s) : i <= m <=> Fresher(s, used, i)
  <1> DEFINE N == Cardinality(LruNode)
             Body(h) == [n \in 0..N |-> IF n = 0 THEN c ELSE PopBack(h[n - 1], used)]
             popped == CHOOSE h : h = Body(h)
  <1>1. /\ c \in Contents /\ Threads(c.list, s) /\ s \in Seq(LruNode) /\ Len(s) \in Nat
        /\ \A i \in 1..Len(s) : s[i] \in LruNode
    BY AtFacts DEF Holds
  <1>2. Len(s) <= N /\ N \in Nat
    BY <1>1, ThreadsLength
  <1>3. PopExpired(c, used) = popped[N]
    BY DEF PopExpired
  <1> DEFINE P(d, n, m) ==
               /\ Left(c, d, s, m)
               /\ \A i \in 1..Len(s) : i > m => ~Fresher(s, used, i)
               /\ m = Len(s) - n \/ ~Expired(d, used)
  <1>4. ASSUME NEW d, NEW n \in Nat, NEW m \in 0..Len(s), P(d, n, m)
        PROVE  \E q \in 0..Len(s) : P(PopBack(d, used), n + 1, q)
    <2> DEFINE t == Prefix(s, m)
    <2>1. t \in Seq(LruNode) /\ Len(t) = m /\ \A i \in 1..m : t[i] = s[i]
      BY <1>1, PrefixFacts
    <2>2. Holds(d, t) /\ Threads(d.list, t)
      BY <1>4 DEF Left, Holds
    <2> HIDE DEF t
    <2>3. Back(d.list) = IF m = 0 THEN First ELSE s[m]
      <3>1. Back(d.list) = IF Len(t) = 0 THEN First ELSE t[Len(t)]
        BY <2>2, BackIsLast
      <3>2. m # 0 => m \in 1..m
        OBVIOUS
      <3> QED
        BY <2>1, <3>1, <3>2
    <2>4. CASE ~Expired(d, used)
      <3>1. PopBack(d, used) = d
        BY <2>4 DEF PopBack
      <3>2. P(d, n + 1, m)
        BY <1>4, <2>4
      <3> HIDE DEF P
      <3> QED
        BY <3>1, <3>2
    <2>5. CASE Expired(d, used)
      <3>1. m # 0 /\ m = Len(s) - n /\ ~Fresher(s, used, m)
        <4>1. m # 0 /\ time - used[s[m]] >= Limit
          BY <2>3, <2>5 DEF Expired
        <4>2. used[s[m]] \in Nat /\ Limit \in Nat
          BY <1>1, <4>1, LruAssumption
        <4> QED
          BY <1>4, <2>5, <4>1, <4>2 DEF Fresher
      <3>2. PopBack(d, used) = Pop(d)
        BY <2>5 DEF PopBack
      <3>3. /\ Holds(Pop(d), Prefix(t, m - 1))
            /\ \A i \in 1 .. m - 1 : Pop(d).keys[t[i]] = d.keys[t[i]]
        <4>1. Len(t) > 0 /\ Len(t) = m
          BY <2>1, <3>1
        <4>2. /\ Holds(Pop(d), Prefix(t, Len(t) - 1))
              /\ \A i \in 1 .. Len(t) - 1 : Pop(d).keys[t[i]] = d.keys[t[i]]
          BY ONLY <2>2, <4>1, PopDrops
        <4> QED
          BY <4>1, <4>2
      <3>4. Prefix(t, m - 1) = Prefix(s, m - 1)
        <4>1. m - 1 \in 0..Len(t) /\ m - 1 \in 0..Len(s)
          BY <2>1, <3>1
        <4>2. Prefix(t, m - 1) \in Seq(LruNode) /\ Len(Prefix(t, m - 1)) = m - 1
              /\ \A i \in 1 .. m - 1 : Prefix(t, m - 1)[i] = t[i]
          BY <2>1, <4>1, PrefixFacts
        <4>3. Prefix(s, m - 1) \in Seq(LruNode) /\ Len(Prefix(s, m - 1)) = m - 1
              /\ \A i \in 1 .. m - 1 : Prefix(s, m - 1)[i] = s[i]
          BY <1>1, <4>1, PrefixFacts
        <4> DEFINE u == Prefix(t, m - 1)
                   v == Prefix(s, m - 1)
        <4> HIDE DEF u, v
        <4>4. ASSUME NEW i \in 1 .. m - 1 PROVE u[i] = v[i]
          <5>1. i \in 1..m
            OBVIOUS
          <5> QED
            BY <2>1, <4>2, <4>3, <5>1 DEF u, v
        <4>5. u \in Seq(LruNode) /\ v \in Seq(LruNode) /\ Len(u) = m - 1 /\ Len(v) = m - 1
          BY <4>2, <4>3 DEF u, v
        <4>6. u = v
          BY <4>4, <4>5
        <4> QED
          BY <4>6 DEF u, v
      <3>5. Left(c, Pop(d), s, m - 1)
        <4>1. \A i \in 1 .. m - 1 : i \in 1..m
          OBVIOUS
        <4>2. \A i \in 1..m : t[i] = s[i] /\ d.keys[s[i]] = c.keys[s[i]]
          BY <1>4, <2>1 DEF Left
        <4>3. \A i \in 1 .. m - 1 : Pop(d).keys[s[i]] = c.keys[s[i]]
          BY <3>3, <4>1, <4>2
        <4> QED
          BY ONLY <3>3, <3>4, <4>3 DEF Left
      <3>6. \A i \in 1..Len(s) : i > m - 1 => ~Fresher(s, used, i)
        BY <1>4, <3>1
      <3>7. m - 1 = Len(s) - (n + 1) /\ m - 1 \in 0..Len(s)
        BY <1>1, <3>1
      <3>8. P(Pop(d), n + 1, m - 1)
        BY <3>5, <3>6, <3>7
      <3> HIDE DEF P
      <3> QED
        BY <3>2, <3>7, <3>8
    <2> QED
      BY <2>4, <2>5
  <1> DEFINE S == {d \in Contents : \E n \in Nat : \E m \in 0..Len(s) : P(d, n, m)}
             G == [d \in S |-> PopBack(d, used)]
  <1>5. P(c, 0, Len(s)) /\ Len(s) \in 0..Len(s)
    <2>1. Prefix(s, Len(s)) = s
      BY <1>1 DEF Prefix
    <2>2. Left(c, c, s, Len(s))
      BY <2>1 DEF Left
    <2> QED
      BY <1>1, <2>2
  <1>6. ASSUME NEW d \in S PROVE PopBack(d, used) \in S
    <2>1. PICK n \in Nat, m \in 0..Len(s) : P(d, n, m)
      OBVIOUS
    <2>2. PICK q \in 0..Len(s) : P(PopBack(d, used), n + 1, q)
      <3> HIDE DEF P
      <3> QED
        BY <1>4, <2>1
    <2>3. PopBack(d, used) \in Contents
      BY <2>2 DEF Left, Holds
    <2>4. n + 1 \in Nat
      OBVIOUS
    <2> HIDE DEF P
    <2> QED
      BY <2>2, <2>3, <2>4
  <1>7. popped = Body(popped)
    <2>1. DOMAIN G = S /\ G \in [S -> S]
      <3> HIDE DEF S
      <3> QED
        BY <1>6
    <2>2. c \in S
      <3> HIDE DEF P
      <3> QED
        BY <1>1, <1>5
    <2>3. PICK f \in [0..N -> S] : f = [i \in 0..N |-> IF i = 0 THEN c ELSE G[f[i - 1]]]
      <3>1. N \in Nat
        BY <1>2
      <3> HIDE DEF G, N, S
      <3> QED
        BY ONLY <2>1, <2>2, <3>1, IterateExists
    <2>4. ASSUME NEW i \in 0..N PROVE f[i] = IF i = 0 THEN c ELSE PopBack(f[i - 1], used)
      <3>1. f[i] = IF i = 0 THEN c ELSE G[f[i - 1]]
        BY <2>3
      <3>2. i # 0 => i - 1 \in 0..N
        BY <1>2
      <3>3. i # 0 => f[i - 1] \in S
        <4> HIDE DEF S, G
        <4> QED
          BY <2>1, <2>3, <3>2
      <3>4. i # 0 => G[f[i - 1]] = PopBack(f[i - 1], used)
        <4> HIDE DEF S
        <4> QED
          BY <3>3
      <3> HIDE DEF G
      <3> QED
        BY <3>1, <3>4
    <2>5. f = Body(f)
      <3>1. f = [i \in 0..N |-> f[i]]
        BY <2>3
      <3> HIDE DEF S, G
      <3> QED
        BY <2>4, <3>1
    <2> HIDE DEF Body
    <2> QED
      BY <2>5
  <1>8. ASSUME NEW n \in 0..N PROVE popped[n] = IF n = 0 THEN c ELSE PopBack(popped[n - 1], used)
    <2>1. Body(popped)[n] = IF n = 0 THEN c ELSE PopBack(popped[n - 1], used)
      OBVIOUS
    <2> HIDE DEF Body
    <2> QED
      BY <1>7, <2>1
  <1> HIDE DEF popped, P, S, G
  <1> DEFINE Bad == {n \in 0..N : ~\E m \in 0..Len(s) : P(popped[n], n, m)}
  <1>9. ASSUME NEW e \in Bad PROVE FALSE
    <2>1. PICK n \in Bad : \A k \in Bad : n <= k
      BY <1>2, LeastOfNat, Bad \subseteq Nat
    <2>2. n # 0
      BY <1>1, <1>2, <1>5, <1>8, <2>1
    <2>3. n - 1 \in 0..N /\ n - 1 \in Nat /\ ~(n <= n - 1) /\ (n - 1) + 1 = n
      BY <1>2, <2>1, <2>2
    <2>4. PICK m \in 0..Len(s) : P(popped[n - 1], n - 1, m)
      BY <2>1, <2>3
    <2>5. PICK q \in 0..Len(s) : P(PopBack(popped[n - 1], used), (n - 1) + 1, q)
      BY <1>4, <2>3, <2>4
    <2>6. popped[n] = PopBack(popped[n - 1], used)
      BY <1>8, <2>1, <2>2
    <2>7. P(popped[n], n, q)
      BY <2>3, <2>5, <2>6
    <2> QED
      BY <2>1, <2>7
  <1>10. PICK m \in 0..Len(s) : P(popped[N], N, m)
    BY <1>2, <1>9
  <1> DEFINE d == popped[N]
  <1>11. /\ Left(c, d, s, m)
         /\ \A i \in 1..Len(s) : i > m => ~Fresher(s, used, i)
         /\ m = Len(s) - N \/ ~Expired(d, used)
    BY <1>10 DEF P
  <1>12. ASSUME NEW i \in 1..Len(s), i <= m PROVE Fresher(s, used, i)
    <2>1. m \in 1..Len(s) /\ m \in 1..m
      BY <1>1, <1>12
    <2>2. ~Expired(d, used)
      BY <1>1, <1>2, <1>11, <2>1
    <2>3. Back(d.list) = s[m]
      <3>1. /\ Prefix(s, m) \in Seq(LruNode) /\ Len(Prefix(s, m)) = m
            /\ \A j \in 1..m : Prefix(s, m)[j] = s[j]
        BY <1>1, PrefixFacts
      <3>2. Threads(d.list, Prefix(s, m))
        BY <1>11 DEF Left, Holds
      <3>3. Back(d.list) = IF Len(Prefix(s, m)) = 0 THEN First ELSE Prefix(s, m)[Len(Prefix(s, m))]
        BY <3>2, BackIsLast
      <3> QED
        BY <2>1, <3>1, <3>3
    <2>4. s[m] # First /\ s[m] \in LruNode /\ s[i] \in LruNode
      BY <1>1, <2>1, LruAssumption
    <2>5. ~(time - used[s[m]] >= Limit)
      BY <2>2, <2>3, <2>4 DEF Expired
    <2>6. used[s[i]] >= used[s[m]]
      BY <1>12, <2>1 DEF InOrder
    <2>7. used[s[i]] \in Nat /\ used[s[m]] \in Nat /\ Limit \in Nat
      BY <2>4, LruAssumption
    <2> QED
      BY <2>5, <2>6, <2>7 DEF Fresher
  <1> QED
    BY <1>1, <1>3, <1>11, <1>12 DEF d

(* As many keys are in the map as nodes in the list.                        *)
LEMMA TooLongMeans ==
    ASSUME NEW c, NEW s, Holds(c, s)
    PROVE  TooLong(c) <=> Len(s) > Limit
  <1> DEFINE K == {k \in Key : c.index[k] # NoNode}
             g == [i \in 1..Len(s) |-> c.keys[s[i]]]
  <1>1. /\ s \in Seq(LruNode) /\ Len(s) \in Nat /\ \A i \in 1..Len(s) : s[i] \in LruNode
        /\ \A i, j \in 1..Len(s) : s[i] = s[j] => i = j
    BY AtFacts DEF Holds, Threads
  <1>2. /\ c.index \in [Key -> LruNode \cup {NoNode}] /\ c.keys \in [LruNode -> Key \cup {NoKey}]
        /\ Indexed(c, s)
    BY DEF Holds, Contents
  <1>3. \A i \in 1..Len(s) : c.keys[s[i]] \in Key /\ c.index[c.keys[s[i]]] = s[i]
    BY <1>1, <1>2 DEF Indexed
  <1>4. g \in [1..Len(s) -> K]
    BY <1>1, <1>3, LruAssumption
  <1>5. \A i, j \in 1..Len(s) : g[i] = g[j] => i = j
    BY <1>1, <1>3
  <1>6. \A k \in K : \E i \in 1..Len(s) : g[i] = k
    <2> SUFFICES ASSUME NEW k \in K PROVE \E i \in 1..Len(s) : g[i] = k
      OBVIOUS
    <2>1. c.index[k] \in LruNode /\ c.keys[c.index[k]] = k /\ k # NoKey
      BY <1>2, LruAssumption DEF Indexed
    <2>2. PICK i \in 1..Len(s) : s[i] = c.index[k]
      BY <1>2, <2>1 DEF Indexed
    <2> QED
      BY <2>1, <2>2
  <1> HIDE DEF g, K
  <1>7. g \in Bijection(1..Len(s), K)
    BY <1>4, <1>5, <1>6 DEF Bijection, Injection, Surjection, IsInjective
  <1>8. IsFiniteSet(1..Len(s)) /\ Cardinality(1..Len(s)) = Len(s)
    <2>1. 1 \in Int /\ Len(s) \in Int
      BY <1>1
    <2>2. IsFiniteSet(1..Len(s)) /\ Cardinality(1..Len(s)) = IF 1 > Len(s) THEN 0 ELSE Len(s) - 1 + 1
      BY <2>1, FS_Interval
    <2> QED
      BY <1>1, <2>2
  <1>9. Cardinality(K) = Len(s)
    BY <1>7, <1>8, FS_Bijection DEF ExistsBijection
  <1> QED
    BY <1>9 DEF TooLong, K

(* A new node can always be made.                                           *)
LEMMA FreeNodeExists ==
    ASSUME NEW c, NEW s, Holds(c, s)
    PROVE  \E n \in LruNode : c.keys[n] = NoKey
  <1> SUFFICES ASSUME \A n \in LruNode : c.keys[n] # NoKey PROVE FALSE
    OBVIOUS
  <1>1. c.keys \in [LruNode -> Key \cup {NoKey}] /\ Indexed(c, s)
    BY DEF Holds, Contents
  <1>2. c.keys \in [LruNode -> Key]
    BY <1>1
  <1>3. \A m, n \in LruNode : c.keys[m] = c.keys[n] => m = n
    BY <1>1 DEF Indexed
  <1>4. c.keys \in Injection(LruNode, Key)
    BY <1>2, <1>3 DEF Injection, IsInjective
  <1>5. Cardinality(LruNode) <= Cardinality(Key)
    BY <1>4, FS_Injection, LruAssumption
  <1> QED
    BY <1>5, FS_CardinalityType, LruAssumption

(* PushFront and the two entries for it.                                    *)
LEMMA PushHolds ==
    ASSUME NEW c, NEW s, Holds(c, s), NEW k \in Key, c.index[k] = NoNode,
           NEW n \in LruNode, c.keys[n] = NoKey
    PROVE  Holds([list |-> InsertAfter(c.list, First, n),
                  index |-> [c.index EXCEPT ![k] = n],
                  keys |-> [c.keys EXCEPT ![n] = k]], <<n>> \o s)
  <1> DEFINE d == [list |-> InsertAfter(c.list, First, n),
                   index |-> [c.index EXCEPT ![k] = n],
                   keys |-> [c.keys EXCEPT ![n] = k]]
             t == <<n>> \o s
  <1>1. /\ Threads(c.list, s) /\ Indexed(c, s) /\ c.list \in PointerList
        /\ c.index \in [Key -> LruNode \cup {NoNode}] /\ c.keys \in [LruNode -> Key \cup {NoKey}]
    BY DEF Holds, Contents
  <1>2. s \in Seq(LruNode) /\ Len(s) \in Nat /\ \A i \in 1..Len(s) : s[i] \in LruNode
    BY <1>1, AtFacts
  <1>3. \A i \in 1..Len(s) : s[i] # n
    BY <1>1, <1>2 DEF Indexed
  <1>4. d.list \in PointerList /\ Threads(d.list, t)
    BY <1>1, <1>3, InsertFront
  <1>5. /\ t \in Seq(LruNode) /\ Len(t) = Len(s) + 1 /\ t[1] = n
        /\ \A i \in 2 .. Len(s) + 1 : t[i] = s[i - 1]
    BY <1>2, PushFacts
  <1>6. d \in Contents
    BY <1>1, <1>4 DEF Contents
  <1>7. /\ d.keys[n] = k /\ \A m \in LruNode : m # n => d.keys[m] = c.keys[m]
        /\ d.index[k] = n /\ \A j \in Key : j # k => d.index[j] = c.index[j]
        /\ k # NoKey /\ n # NoNode
    BY <1>1, LruAssumption
  <1> HIDE DEF d, t
  <1>8. ASSUME NEW m \in LruNode PROVE d.keys[m] # NoKey <=> \E i \in 1..Len(t) : t[i] = m
    <2>1. CASE m = n
      BY <1>2, <1>5, <1>7, <2>1
    <2>2. CASE m # n
      <3>1. d.keys[m] # NoKey <=> \E i \in 1..Len(s) : s[i] = m
        BY <1>1, <1>7, <2>2 DEF Indexed
      <3>2. ASSUME NEW i \in 1..Len(s), s[i] = m PROVE \E j \in 1..Len(t) : t[j] = m
        <4>1. i + 1 \in 2 .. Len(s) + 1 /\ i + 1 \in 1..Len(t) /\ (i + 1) - 1 = i
          BY <1>2, <1>5
        <4> QED
          BY <1>5, <3>2, <4>1
      <3>3. ASSUME NEW j \in 1..Len(t), t[j] = m PROVE \E i \in 1..Len(s) : s[i] = m
        <4>1. j # 1
          BY <1>5, <2>2, <3>3
        <4>2. j \in 2 .. Len(s) + 1 /\ j - 1 \in 1..Len(s)
          BY <1>2, <1>5, <4>1
        <4> QED
          BY <1>5, <3>3, <4>2
      <3> QED
        BY <3>1, <3>2, <3>3
    <2> QED
      BY <2>1, <2>2
  <1>9. ASSUME NEW j \in Key, d.index[j] # NoNode PROVE d.keys[d.index[j]] = j
    <2>1. CASE j = k
      BY <1>7, <2>1
    <2>2. CASE j # k
      <3>1. c.index[j] \in LruNode /\ c.keys[c.index[j]] = j /\ j # NoKey
        BY <1>1, <1>7, <1>9, <2>2, LruAssumption DEF Indexed
      <3> QED
        BY <1>7, <2>2, <3>1
    <2> QED
      BY <2>1, <2>2
  <1>10. ASSUME NEW m \in LruNode, d.keys[m] # NoKey PROVE d.index[d.keys[m]] = m
    <2>1. CASE m = n
      BY <1>7, <2>1
    <2>2. CASE m # n
      <3>1. c.keys[m] \in Key /\ c.index[c.keys[m]] = m /\ m # NoNode
        BY <1>1, <1>7, <1>10, <2>2, LruAssumption DEF Indexed
      <3> QED
        BY <1>7, <2>2, <3>1
    <2> QED
      BY <2>1, <2>2
  <1>11. Indexed(d, t)
    BY <1>8, <1>9, <1>10 DEF Indexed
  <1> QED
    BY <1>4, <1>6, <1>11 DEF Holds, d, t

(* Moving a node in the list leaves the maps as they are.                   *)
LEMMA PromoteHolds ==
    ASSUME NEW c, NEW s, Holds(c, s), NEW i \in 1..Len(s)
    PROVE  Holds([c EXCEPT !.list = Promote(c.list, s[i])], <<s[i]>> \o Del(s, i))
  <1> DEFINE d == [c EXCEPT !.list = Promote(c.list, s[i])]
             t == <<s[i]>> \o Del(s, i)
  <1>1. c \in Contents /\ Threads(c.list, s) /\ Indexed(c, s) /\ c.list \in PointerList
    BY DEF Holds, Contents
  <1>2. s \in Seq(LruNode) /\ Len(s) \in Nat /\ \A j \in 1..Len(s) : s[j] \in LruNode
    BY <1>1, AtFacts
  <1>3. Promote(c.list, s[i]) \in PointerList /\ Threads(Promote(c.list, s[i]), t)
    BY <1>1, PromoteAny
  <1>4. d \in Contents /\ d.list = Promote(c.list, s[i]) /\ d.index = c.index /\ d.keys = c.keys
    BY <1>1, <1>3 DEF Contents
  <1>5. /\ Del(s, i) \in Seq(LruNode) /\ Len(Del(s, i)) = Len(s) - 1
        /\ \A j \in 1 .. Len(s) - 1 : Del(s, i)[j] = IF j < i THEN s[j] ELSE s[j + 1]
    BY <1>2, DelFacts
  <1>6. /\ t \in Seq(LruNode) /\ Len(t) = Len(s) - 1 + 1 /\ t[1] = s[i]
        /\ \A j \in 2 .. Len(s) - 1 + 1 : t[j] = Del(s, i)[j - 1]
    BY <1>2, <1>5, PushFacts
  <1> HIDE DEF d, t
  <1>7. ASSUME NEW n \in LruNode PROVE (\E j \in 1..Len(s) : s[j] = n) <=> \E j \in 1..Len(t) : t[j] = n
    <2>1. ASSUME NEW j \in 1..Len(s), s[j] = n PROVE \E h \in 1..Len(t) : t[h] = n
      <3>1. CASE j = i
        BY <1>2, <1>6, <2>1, <3>1
      <3>2. CASE j < i
        <4>1. j + 1 \in 2 .. Len(s) - 1 + 1 /\ j + 1 \in 1..Len(t) /\ j \in 1 .. Len(s) - 1 /\ (j + 1) - 1 = j
          BY <1>2, <1>6, <3>2
        <4> QED
          BY <1>5, <1>6, <2>1, <3>2, <4>1
      <3>3. CASE j > i
        <4>1. j \in 2 .. Len(s) - 1 + 1 /\ j \in 1..Len(t) /\ j - 1 \in 1 .. Len(s) - 1 /\ (j - 1) + 1 = j /\ ~(j - 1 < i)
          BY <1>2, <1>6, <3>3
        <4> QED
          BY <1>5, <1>6, <2>1, <4>1
      <3> QED
        BY <3>1, <3>2, <3>3
    <2>2. ASSUME NEW h \in 1..Len(t), t[h] = n PROVE \E j \in 1..Len(s) : s[j] = n
      <3>1. CASE h = 1
        BY <1>6, <2>2, <3>1
      <3>2. CASE h # 1
        <4>1. h \in 2 .. Len(s) - 1 + 1 /\ h - 1 \in 1 .. Len(s) - 1 /\ h - 1 \in 1..Len(s) /\ (h - 1) + 1 \in 1..Len(s)
          BY <1>2, <1>6, <3>2
        <4> QED
          BY <1>5, <1>6, <2>2, <4>1
      <3> QED
        BY <3>1, <3>2
    <2> QED
      BY <2>1, <2>2
  <1>8. Indexed(d, t)
    BY <1>1, <1>4, <1>7 DEF Indexed
  <1> QED
    BY <1>3, <1>4, <1>8 DEF Holds, d, t

------------------------------------------------------------------------------
(* The entries, as the map that forgets has them.                           *)

EntriesOf(s, keys, used) == [i \in 1..Len(s) |-> [key |-> keys[s[i]], at |-> used[s[i]]]]
Record == [key : Key \cup {NoKey}, at : Nat]

Shows(u, s, keys, used) ==
    /\ u \in Seq(Record) /\ Len(u) = Len(s)
    /\ \A i \in 1..Len(s) : u[i].key = keys[s[i]] /\ u[i].at = used[s[i]]

LEMMA EntriesFacts ==
    ASSUME NEW s, s \in Seq(LruNode), NEW keys, keys \in [LruNode -> Key \cup {NoKey}],
           NEW used, used \in [LruNode -> Nat]
    PROVE  Shows(EntriesOf(s, keys, used), s, keys, used)
  <1>1. Len(s) \in Nat /\ \A i \in 1..Len(s) : s[i] \in LruNode
    OBVIOUS
  <1>2. \A i \in 1..Len(s) : [key |-> keys[s[i]], at |-> used[s[i]]] \in Record
    BY <1>1 DEF Record
  <1> QED
    BY <1>1, <1>2 DEF EntriesOf, Shows

(* Two sequences of entries are equal when they agree everywhere.           *)
LEMMA SameEntries ==
    ASSUME NEW u, u \in Seq(Record), NEW v, v \in Seq(Record), Len(u) = Len(v),
           \A i \in 1..Len(u) : u[i].key = v[i].key /\ u[i].at = v[i].at
    PROVE  u = v
  <1>1. \A i \in 1..Len(u) : u[i] \in Record /\ v[i] \in Record
    OBVIOUS
  <1>2. \A a, b \in Record : a.key = b.key /\ a.at = b.at => a = b
    BY DEF Record
  <1>3. \A i \in 1..Len(u) : u[i] = v[i]
    BY <1>1, <1>2
  <1> QED
    BY <1>3

NoTwice(s) == \A i, j \in 1..Len(s) : s[i] = s[j] => i = j
Moved(s, i) == <<s[i]>> \o Del(s, i)
Renewed(used, n, now) == [used EXCEPT ![n] = now]
Pushed(s, n) == <<n>> \o s
Named(keys, n, k) == [keys EXCEPT ![n] = k]
Absent(s, n) == \A i \in 1..Len(s) : s[i] # n

(* Nodes with their keys and times of use.                                  *)
Listing(s, keys, used) ==
    s \in Seq(LruNode) /\ keys \in [LruNode -> Key \cup {NoKey}] /\ used \in [LruNode -> Nat]

(* A use moves the entry to the front and renews its time.                  *)
UseMoves(s, i, keys, used, now) ==
    EntriesOf(Moved(s, i), keys, Renewed(used, s[i], now))
        = <<[key |-> keys[s[i]], at |-> now]>> \o Del(EntriesOf(s, keys, used), i)

LEMMA EntriesUsed ==
    ASSUME NEW s, NEW keys, NEW used, Listing(s, keys, used), NoTwice(s),
           NEW i \in 1..Len(s), NEW now \in Nat
    PROVE  UseMoves(s, i, keys, used, now)
  <1> SUFFICES EntriesOf(Moved(s, i), keys, Renewed(used, s[i], now))
             = <<[key |-> keys[s[i]], at |-> now]>> \o Del(EntriesOf(s, keys, used), i)
    BY DEF UseMoves
  <1> USE DEF Listing
  <1> DEFINE t == Moved(s, i)
             new == Renewed(used, s[i], now)
             e == EntriesOf(s, keys, used)
             x == [key |-> keys[s[i]], at |-> now]
             u == EntriesOf(t, keys, new)
             v == <<x>> \o Del(e, i)
  <1>1. Len(s) \in Nat /\ \A j \in 1..Len(s) : s[j] \in LruNode
    OBVIOUS
  <1>2. new \in [LruNode -> Nat] /\ new[s[i]] = now /\ \A n \in LruNode : n # s[i] => new[n] = used[n]
    BY <1>1 DEF Renewed
  <1>3. /\ Del(s, i) \in Seq(LruNode) /\ Len(Del(s, i)) = Len(s) - 1
        /\ \A j \in 1 .. Len(s) - 1 : Del(s, i)[j] = IF j < i THEN s[j] ELSE s[j + 1]
    BY DelFacts
  <1>4. /\ t \in Seq(LruNode) /\ Len(t) = Len(s) - 1 + 1 /\ t[1] = s[i]
        /\ \A j \in 2 .. Len(s) - 1 + 1 : t[j] = Del(s, i)[j - 1]
    BY <1>1, <1>3, PushFacts DEF Moved
  <1>5. Shows(e, s, keys, used) /\ e \in Seq(Record) /\ Len(e) = Len(s)
    <2>1. Shows(e, s, keys, used)
      BY EntriesFacts
    <2> QED
      BY <2>1 DEF Shows
  <1> HIDE DEF e, t, new, x, u, v
  <1>0. t \in Seq(LruNode) /\ new \in [LruNode -> Nat] /\ e \in Seq(Record) /\ i \in 1..Len(e) /\ Len(e) = Len(s)
    BY <1>2, <1>4, <1>5
  <1>6. Shows(u, t, keys, new) /\ u \in Seq(Record) /\ Len(u) = Len(t)
    <2>1. Shows(u, t, keys, new)
      BY <1>0, EntriesFacts DEF u
    <2> QED
      BY <2>1 DEF Shows
  <1>7. /\ Del(e, i) \in Seq(Record) /\ Len(Del(e, i)) = Len(s) - 1
        /\ \A j \in 1 .. Len(s) - 1 : Del(e, i)[j] = IF j < i THEN e[j] ELSE e[j + 1]
    BY <1>0, DelFacts
  <1>8. x \in Record
    BY <1>1 DEF x, Record
  <1>9. /\ v \in Seq(Record) /\ Len(v) = Len(s) - 1 + 1 /\ v[1] = x
        /\ \A j \in 2 .. Len(s) - 1 + 1 : v[j] = Del(e, i)[j - 1]
    BY <1>7, <1>8, PushFacts DEF v
  <1>10. ASSUME NEW j \in 1..Len(u) PROVE u[j].key = v[j].key /\ u[j].at = v[j].at
    <2>1. CASE j = 1
      BY <1>0, <1>1, <1>2, <1>4, <1>6, <1>9, <2>1 DEF x, Shows
    <2>2. CASE j # 1
      <3>1. j \in 2 .. Len(s) - 1 + 1 /\ j - 1 \in 1 .. Len(s) - 1 /\ j - 1 \in 1..Len(s)
            /\ (j - 1) + 1 = j /\ j \in 1..Len(s) /\ j \in 1..Len(t)
        BY <1>1, <1>4, <1>6, <2>2
      <3>2. PICK h \in 1..Len(s) : h # i /\ h = IF j - 1 < i THEN j - 1 ELSE j
        BY <3>1
      <3>3. t[j] = s[h]
        BY <1>3, <1>4, <3>1, <3>2
      <3>4. v[j] = e[h]
        BY <1>7, <1>9, <3>1, <3>2
      <3>5. s[h] # s[i] /\ s[h] \in LruNode
        BY <1>1, <3>2 DEF NoTwice
      <3>6. u[j].key = keys[s[h]] /\ u[j].at = new[s[h]]
        BY <1>6, <3>1, <3>3 DEF Shows
      <3>7. e[h].key = keys[s[h]] /\ e[h].at = used[s[h]]
        BY <1>5 DEF Shows
      <3>8. new[s[h]] = used[s[h]]
        BY <1>2, <3>5
      <3> QED
        BY <3>4, <3>6, <3>7, <3>8
    <2> QED
      BY <2>1, <2>2
  <1>11. Len(u) = Len(v)
    BY <1>1, <1>4, <1>6, <1>9
  <1>12. u = v
    BY <1>6, <1>9, <1>10, <1>11, SameEntries
  <1> QED
    BY <1>12 DEF u, v, x, e, t, new

(* A new node is an entry in front.                                         *)
LEMMA EntriesPushed ==
    ASSUME NEW s, s \in Seq(LruNode), NEW n \in LruNode, Absent(s, n),
           NEW keys, keys \in [LruNode -> Key \cup {NoKey}], NEW k \in Key,
           NEW used, used \in [LruNode -> Nat], NEW now \in Nat
    PROVE  EntriesOf(Pushed(s, n), Named(keys, n, k), Renewed(used, n, now))
             = <<[key |-> k, at |-> now]>> \o EntriesOf(s, keys, used)
  <1> DEFINE t == Pushed(s, n)
             named == Named(keys, n, k)
             new == Renewed(used, n, now)
             e == EntriesOf(s, keys, used)
             x == [key |-> k, at |-> now]
             u == EntriesOf(t, named, new)
             v == <<x>> \o e
  <1>1. Len(s) \in Nat /\ \A j \in 1..Len(s) : s[j] \in LruNode
    OBVIOUS
  <1>2. /\ new \in [LruNode -> Nat] /\ new[n] = now /\ \A m \in LruNode : m # n => new[m] = used[m]
        /\ named \in [LruNode -> Key \cup {NoKey}] /\ named[n] = k
        /\ \A m \in LruNode : m # n => named[m] = keys[m]
    BY DEF Named, Renewed
  <1>3. /\ t \in Seq(LruNode) /\ Len(t) = Len(s) + 1 /\ t[1] = n
        /\ \A j \in 2 .. Len(s) + 1 : t[j] = s[j - 1]
    BY PushFacts DEF Pushed
  <1>4. Shows(e, s, keys, used) /\ e \in Seq(Record) /\ Len(e) = Len(s)
    <2>1. Shows(e, s, keys, used)
      BY EntriesFacts
    <2> QED
      BY <2>1 DEF Shows
  <1> HIDE DEF e, t, new, named, x, u, v
  <1>0. t \in Seq(LruNode) /\ new \in [LruNode -> Nat] /\ named \in [LruNode -> Key \cup {NoKey}]
    BY <1>2, <1>3
  <1>5. Shows(u, t, named, new) /\ u \in Seq(Record) /\ Len(u) = Len(t)
    <2>1. Shows(u, t, named, new)
      BY <1>0, EntriesFacts DEF u
    <2> QED
      BY <2>1 DEF Shows
  <1>6. x \in Record
    BY DEF x, Record
  <1>7. /\ v \in Seq(Record) /\ Len(v) = Len(s) + 1 /\ v[1] = x
        /\ \A j \in 2 .. Len(s) + 1 : v[j] = e[j - 1]
    BY <1>4, <1>6, PushFacts DEF v
  <1>8. ASSUME NEW j \in 1..Len(u) PROVE u[j].key = v[j].key /\ u[j].at = v[j].at
    <2>1. CASE j = 1
      BY <1>2, <1>3, <1>5, <1>7, <2>1 DEF x, Shows
    <2>2. CASE j # 1
      <3>1. j \in 2 .. Len(s) + 1 /\ j - 1 \in 1..Len(s) /\ j \in 1..Len(t)
        BY <1>1, <1>3, <1>5, <2>2
      <3>2. t[j] = s[j - 1] /\ v[j] = e[j - 1] /\ s[j - 1] \in LruNode /\ s[j - 1] # n
        BY <1>1, <1>3, <1>7, <3>1 DEF Absent
      <3>3. u[j].key = named[s[j - 1]] /\ u[j].at = new[s[j - 1]]
        BY <1>5, <3>1, <3>2 DEF Shows
      <3>4. e[j - 1].key = keys[s[j - 1]] /\ e[j - 1].at = used[s[j - 1]]
        BY <1>4, <3>1 DEF Shows
      <3> QED
        BY <1>2, <3>2, <3>3, <3>4
    <2> QED
      BY <2>1, <2>2
  <1>9. Len(u) = Len(v)
    BY <1>3, <1>5, <1>7
  <1>10. u = v
    BY <1>5, <1>7, <1>8, <1>9, SameEntries
  <1> QED
    BY <1>10 DEF u, v, x, e, t, new, named

Agree(after, keys, s, m) == \A i \in 1..m : after[s[i]] = keys[s[i]]

(* What is left of the nodes has what is left of the entries.               *)
Leaves(s, m, keys, after, used) ==
    EntriesOf(Prefix(s, m), after, used) = Prefix(EntriesOf(s, keys, used), m)

LEMMA EntriesLeft ==
    ASSUME NEW s, NEW m \in 0..Len(s), NEW keys, NEW after, NEW used,
           Listing(s, keys, used), Listing(s, after, used), Agree(after, keys, s, m)
    PROVE  Leaves(s, m, keys, after, used)
  <1> SUFFICES EntriesOf(Prefix(s, m), after, used) = Prefix(EntriesOf(s, keys, used), m)
    BY DEF Leaves
  <1> USE DEF Listing
  <1> DEFINE t == Prefix(s, m)
             e == EntriesOf(s, keys, used)
             u == EntriesOf(t, after, used)
             v == Prefix(e, m)
  <1>1. t \in Seq(LruNode) /\ Len(t) = m /\ \A i \in 1..m : t[i] = s[i]
    BY PrefixFacts
  <1>2. Shows(e, s, keys, used) /\ e \in Seq(Record) /\ Len(e) = Len(s)
    <2>1. Shows(e, s, keys, used)
      BY EntriesFacts
    <2> QED
      BY <2>1 DEF Shows
  <1> HIDE DEF t, e, u, v
  <1>0. t \in Seq(LruNode) /\ Len(t) = m
    BY <1>1
  <1>3. Shows(u, t, after, used) /\ u \in Seq(Record) /\ Len(u) = Len(t)
    <2>1. Shows(u, t, after, used)
      BY <1>0, EntriesFacts DEF u
    <2> QED
      BY <2>1 DEF Shows
  <1>4. v \in Seq(Record) /\ Len(v) = m /\ \A i \in 1..m : v[i] = e[i]
    BY <1>2, PrefixFacts DEF v
  <1>5. u = v
    <2>1. \A j \in 1..m : j \in 1..Len(s)
      OBVIOUS
    <2>2. ASSUME NEW j \in 1..Len(u) PROVE u[j].key = v[j].key /\ u[j].at = v[j].at
      <3>1. j \in 1..m /\ j \in 1..Len(t) /\ j \in 1..Len(s)
        BY <1>0, <1>3, <2>1
      <3>2. v[j] = e[j] /\ t[j] = s[j]
        BY <1>1, <1>4, <3>1
      <3>3. u[j].key = after[s[j]] /\ u[j].at = used[s[j]]
        BY <1>3, <3>1, <3>2 DEF Shows
      <3>5. after[s[j]] = keys[s[j]]
        BY <3>1 DEF Agree
      <3>4. e[j].key = keys[s[j]] /\ e[j].at = used[s[j]]
        BY <1>2, <3>1 DEF Shows
      <3> QED
        BY <3>2, <3>3, <3>4, <3>5
    <2>3. Len(u) = Len(v) /\ u \in Seq(Record) /\ v \in Seq(Record)
      BY <1>0, <1>3, <1>4
    <2> QED
      BY <2>2, <2>3, SameEntries
  <1> QED
    BY <1>5 DEF u, v, t, e

------------------------------------------------------------------------------
(* The order of use.                                                        *)

LEMMA InOrderUsed ==
    ASSUME NEW s, s \in Seq(LruNode), \A i, j \in 1..Len(s) : s[i] = s[j] => i = j, NEW i \in 1..Len(s),
           NEW used, used \in [LruNode -> Nat], InOrder(s, used),
           NEW now \in Nat, \A n \in LruNode : used[n] <= now
    PROVE  InOrder(<<s[i]>> \o Del(s, i), [used EXCEPT ![s[i]] = now])
  <1> DEFINE t == <<s[i]>> \o Del(s, i)
             new == [used EXCEPT ![s[i]] = now]
  <1>1. Len(s) \in Nat /\ \A j \in 1..Len(s) : s[j] \in LruNode
    OBVIOUS
  <1>2. new \in [LruNode -> Nat] /\ new[s[i]] = now /\ \A n \in LruNode : n # s[i] => new[n] = used[n]
    BY <1>1
  <1>3. /\ Del(s, i) \in Seq(LruNode) /\ Len(Del(s, i)) = Len(s) - 1
        /\ \A j \in 1 .. Len(s) - 1 : Del(s, i)[j] = IF j < i THEN s[j] ELSE s[j + 1]
    BY DelFacts
  <1>4. /\ t \in Seq(LruNode) /\ Len(t) = Len(s) - 1 + 1 /\ t[1] = s[i]
        /\ \A j \in 2 .. Len(s) - 1 + 1 : t[j] = Del(s, i)[j - 1]
    BY <1>1, <1>3, PushFacts
  <1> HIDE DEF t, new
  <1>0. Len(t) = Len(s) /\ \A n \in LruNode : new[n] <= now
    <2>1. Len(t) = Len(s)
      BY <1>1, <1>4
    <2>2. \A n \in LruNode : new[n] <= now
      BY <1>1, <1>2
    <2> QED
      BY <2>1, <2>2
  <1>5. \A j \in 1..Len(t) : j # 1 =>
            t[j] = s[IF j - 1 < i THEN j - 1 ELSE j] /\ new[t[j]] = used[t[j]]
    <2> SUFFICES ASSUME NEW j \in 1..Len(t), j # 1
                 PROVE  t[j] = s[IF j - 1 < i THEN j - 1 ELSE j] /\ new[t[j]] = used[t[j]]
      OBVIOUS
    <2>0. j \in 2..Len(s)
      BY <1>0, <1>1
    <2>1. /\ j \in 2 .. Len(s) - 1 + 1 /\ j - 1 \in 1 .. Len(s) - 1 /\ j - 1 \in 1..Len(s)
          /\ (j - 1) + 1 = j /\ j \in 1..Len(s)
      BY <1>1, <2>0
    <2>2. PICK h \in 1..Len(s) : h # i /\ h = IF j - 1 < i THEN j - 1 ELSE j
      BY <2>1
    <2>3. t[j] = s[h]
      BY <1>3, <1>4, <2>1, <2>2
    <2>4. s[h] # s[i] /\ s[h] \in LruNode
      BY <1>1, <2>2
    <2> QED
      BY <1>2, <2>2, <2>3, <2>4
  <1>6. ASSUME NEW j \in 1..Len(t), NEW h \in 1..Len(t), j <= h PROVE new[t[j]] >= new[t[h]]
    <2>1. t[j] \in LruNode /\ t[h] \in LruNode
      BY <1>4
    <2>2. new[t[h]] <= now /\ new[t[h]] \in Nat /\ new[t[j]] \in Nat
      BY <1>0, <1>2, <2>1
    <2>3. CASE j = 1
      BY <1>2, <1>4, <2>2, <2>3
    <2>4. CASE j # 1
      <3> DEFINE a == IF j - 1 < i THEN j - 1 ELSE j
                 b == IF h - 1 < i THEN h - 1 ELSE h
      <3>0. j \in 2..Len(s) /\ h \in 2..Len(s) /\ i \in Nat
        BY <1>0, <1>1, <1>6, <2>4
      <3>1. a \in 1..Len(s) /\ b \in 1..Len(s) /\ a <= b /\ h # 1
        BY <1>1, <1>6, <3>0
      <3>2. t[j] = s[a] /\ t[h] = s[b] /\ new[t[j]] = used[t[j]] /\ new[t[h]] = used[t[h]]
        BY <1>5, <2>4, <3>1
      <3> HIDE DEF a, b
      <3>3. used[s[a]] >= used[s[b]]
        BY <3>1 DEF InOrder
      <3> QED
        BY <3>2, <3>3
    <2> QED
      BY <2>3, <2>4
  <1> QED
    BY <1>6 DEF InOrder, t, new

LEMMA InOrderPushed ==
    ASSUME NEW s, s \in Seq(LruNode), NEW n \in LruNode, \A i \in 1..Len(s) : s[i] # n,
           NEW used, used \in [LruNode -> Nat], InOrder(s, used),
           NEW now \in Nat, \A m \in LruNode : used[m] <= now
    PROVE  InOrder(<<n>> \o s, [used EXCEPT ![n] = now])
  <1> DEFINE t == <<n>> \o s
             new == [used EXCEPT ![n] = now]
  <1>1. Len(s) \in Nat /\ \A j \in 1..Len(s) : s[j] \in LruNode
    OBVIOUS
  <1>2. new \in [LruNode -> Nat] /\ new[n] = now /\ \A m \in LruNode : m # n => new[m] = used[m]
    OBVIOUS
  <1>3. /\ t \in Seq(LruNode) /\ Len(t) = Len(s) + 1 /\ t[1] = n
        /\ \A j \in 2 .. Len(s) + 1 : t[j] = s[j - 1]
    BY PushFacts
  <1> HIDE DEF t, new
  <1>0. \A m \in LruNode : new[m] <= now
    BY <1>2
  <1>4. ASSUME NEW j \in 1..Len(t), NEW h \in 1..Len(t), j <= h PROVE new[t[j]] >= new[t[h]]
    <2>1. t[j] \in LruNode /\ t[h] \in LruNode
      BY <1>3
    <2>2. new[t[h]] <= now /\ new[t[h]] \in Nat /\ new[t[j]] \in Nat
      BY <1>0, <1>2, <2>1
    <2>3. CASE j = 1
      BY <1>2, <1>3, <2>2, <2>3
    <2>4. CASE j # 1
      <3>1. j \in 2 .. Len(s) + 1 /\ h \in 2 .. Len(s) + 1 /\ j - 1 \in 1..Len(s) /\ h - 1 \in 1..Len(s)
            /\ j - 1 <= h - 1
        <4>1. j \in 1..Len(s) + 1 /\ h \in 1..Len(s) + 1 /\ j <= h /\ Len(s) \in Nat
          BY <1>1, <1>3, <1>4
        <4> QED
          BY ONLY <2>4, <4>1
      <3>2. t[j] = s[j - 1] /\ t[h] = s[h - 1]
        BY <1>3, <3>1
      <3>3. used[s[j - 1]] >= used[s[h - 1]]
        BY <3>1 DEF InOrder
      <3>4. s[j - 1] # n /\ s[h - 1] # n /\ s[j - 1] \in LruNode /\ s[h - 1] \in LruNode
        BY <1>1, <3>1
      <3> QED
        BY <1>2, <3>2, <3>3, <3>4
    <2> QED
      BY <2>3, <2>4
  <1> QED
    BY <1>4 DEF InOrder, t, new

LEMMA InOrderLeft ==
    ASSUME NEW s, s \in Seq(LruNode), NEW m \in 0..Len(s), NEW used, InOrder(s, used)
    PROVE  InOrder(Prefix(s, m), used)
  <1>1. Len(Prefix(s, m)) = m /\ \A i \in 1..m : Prefix(s, m)[i] = s[i] /\ i \in 1..Len(s)
    BY PrefixFacts
  <1> QED
    BY <1>1 DEF InOrder

------------------------------------------------------------------------------
(* The steps.                                                               *)

LEMMA EntriesAre ==
    ASSUME NEW s, s = Linked(list)
    PROVE  Entries = EntriesOf(s, reverseIndex, lastUse)
  BY DEF Entries, EntriesOf

LEMMA GetIsUse ==
    ASSUME LruInv, NEW k \in Key, LruGet(k)
    PROVE  LruInv' /\ Recency!Use(k)
  <1> DEFINE s == Linked(list)
             n == index[k]
  <1>1. /\ LruTypeOK /\ Holds(Now, s) /\ InOrder(s, lastUse) /\ \A m \in LruNode : lastUse[m] <= time
        /\ index[k] # NoNode /\ list' = Promote(list, n) /\ lastUse' = [lastUse EXCEPT ![n] = time]
        /\ strategy' = strategy /\ index' = index /\ reverseIndex' = reverseIndex /\ time' = time
    BY DEF LruInv, LruGet
  <1> HIDE DEF s
  <1>2. /\ index \in [Key -> LruNode \cup {NoNode}] /\ reverseIndex \in [LruNode -> Key \cup {NoKey}]
        /\ lastUse \in [LruNode -> Nat] /\ time \in Nat
    BY <1>1 DEF LruTypeOK, Contents
  <1>3. /\ s \in Seq(LruNode) /\ Len(s) \in Nat /\ \A i \in 1..Len(s) : s[i] \in LruNode
        /\ \A i, j \in 1..Len(s) : s[i] = s[j] => i = j
    BY <1>1, AtFacts DEF Holds, Threads
  <1>4. n \in LruNode /\ reverseIndex[n] = k /\ \E i \in 1..Len(s) : s[i] = n
    <2>1. n \in LruNode /\ reverseIndex[n] = k
      BY <1>1, <1>2 DEF Holds, Indexed, Now
    <2> QED
      BY <1>1, <2>1, LruAssumption DEF Holds, Indexed, Now
  <1>5. PICK i \in 1..Len(s) : s[i] = n
    BY <1>4
  <1> DEFINE t == <<s[i]>> \o Del(s, i)
  <1>6. Holds(Now', t)
    <2>1. Holds([Now EXCEPT !.list = Promote(Now.list, s[i])], t)
      BY <1>1, PromoteHolds
    <2>2. Now' = [Now EXCEPT !.list = Promote(Now.list, s[i])]
      BY <1>1, <1>5 DEF Now
    <2> QED
      BY <2>1, <2>2
  <1>7. Linked(list') = t
    <2>1. list' \in PointerList /\ Threads(list', t)
      BY <1>6 DEF Holds, Contents, Now
    <2> HIDE DEF t
    <2> QED
      BY <2>1, LinkedIs
  <1>8. InOrder(t, lastUse')
    BY <1>1, <1>2, <1>3, <1>5, InOrderUsed
  <1>9. LruInv'
    <2> HIDE DEF t
    <2>1. lastUse' \in [LruNode -> Nat] /\ \A m \in LruNode : lastUse'[m] <= time
      BY <1>1, <1>2, <1>4
    <2>2. LruTypeOK'
      BY <1>1, <1>6, <2>1 DEF LruTypeOK, Holds, Now
    <2> QED
      BY <1>1, <1>6, <1>7, <1>8, <2>1, <2>2 DEF LruInv
  <1> DEFINE e == EntriesOf(s, reverseIndex, lastUse)
  <1>10. Entries = e
    BY EntriesAre DEF s
  <1>11. Entries' = EntriesOf(t, reverseIndex, lastUse')
    BY <1>1, <1>7 DEF Entries, EntriesOf
  <1>12. EntriesOf(t, reverseIndex, lastUse') = <<[key |-> k, at |-> time]>> \o Del(e, i)
    <2>1. lastUse' = [lastUse EXCEPT ![s[i]] = time] /\ reverseIndex[s[i]] = k
      BY <1>1, <1>4, <1>5
    <2>2. NoTwice(s) /\ time \in Nat /\ i \in 1..Len(s)
      BY <1>2, <1>3 DEF NoTwice
    <2>3. Listing(s, reverseIndex, lastUse)
      BY <1>2, <1>3 DEF Listing
    <2> HIDE DEF e
    <2>4. UseMoves(s, i, reverseIndex, lastUse, time)
      BY ONLY <2>2, <2>3, EntriesUsed
    <2> QED
      BY <2>1, <2>4 DEF UseMoves, Moved, Renewed, e
  <1>13. Len(e) = Len(s) /\ e[i].key = k
    <2>1. Shows(e, s, reverseIndex, lastUse)
      BY <1>2, <1>3, EntriesFacts
    <2> HIDE DEF e
    <2> QED
      BY <1>4, <1>5, <2>1 DEF Shows
  <1> HIDE DEF e, t
  <1>14. Entries' = <<Recency!Entry(k)>> \o (SubSeq(Entries, 1, i - 1) \o SubSeq(Entries, i + 1, Len(Entries)))
    BY <1>10, <1>11, <1>12 DEF Del, Recency!Entry
  <1>15. i \in 1..Len(Entries) /\ Entries[i].key = k
    BY <1>10, <1>13
  <1>16. Recency!Use(k)
    BY <1>1, <1>14, <1>15 DEF Recency!Use
  <1> QED
    BY <1>9, <1>16

LEMMA InsertIsAdd ==
    ASSUME LruInv, NEW k \in Key, LruInsert(k)
    PROVE  LruInv' /\ Recency!Add(k)
  <1> DEFINE s == Linked(list)
             n == CHOOSE m \in LruNode : reverseIndex[m] = NoKey
             used == [lastUse EXCEPT ![n] = time]
             pushed == [list |-> InsertAfter(list, First, n),
                        index |-> [index EXCEPT ![k] = n],
                        keys |-> [reverseIndex EXCEPT ![n] = k]]
             left == IF strategy = "FixedTimeout" THEN PopExpired(pushed, used)
                     ELSE IF TooLong(pushed) THEN Pop(pushed) ELSE pushed
             t == <<n>> \o s
             e == EntriesOf(s, reverseIndex, lastUse)
             more == EntriesOf(t, pushed.keys, used)
  <1>1. /\ LruTypeOK /\ Holds(Now, s) /\ InOrder(s, lastUse) /\ \A m \in LruNode : lastUse[m] <= time
        /\ index[k] = NoNode /\ list' = left.list /\ index' = left.index /\ reverseIndex' = left.keys
        /\ lastUse' = used /\ strategy' = strategy /\ time' = time
    BY DEF LruInv, LruInsert
  <1> HIDE DEF s
  <1>2. /\ index \in [Key -> LruNode \cup {NoNode}] /\ reverseIndex \in [LruNode -> Key \cup {NoKey}]
        /\ lastUse \in [LruNode -> Nat] /\ time \in Nat /\ strategy \in {"FixedLength", "FixedTimeout"}
    BY <1>1 DEF LruTypeOK, Contents
  <1>3. s \in Seq(LruNode) /\ Len(s) \in Nat /\ \A i \in 1..Len(s) : s[i] \in LruNode
    BY <1>1, AtFacts DEF Holds
  <1>4. n \in LruNode /\ reverseIndex[n] = NoKey
    <2>1. \E m \in LruNode : Now.keys[m] = NoKey
      BY <1>1, FreeNodeExists
    <2> QED
      BY <2>1 DEF Now
  <1>5. \A i \in 1..Len(s) : s[i] # n
    BY <1>1, <1>3, <1>4 DEF Holds, Indexed, Now
  <1> HIDE DEF n
  <1>6. Holds(pushed, t)
    <2>1. Holds([list |-> InsertAfter(Now.list, First, n),
                 index |-> [Now.index EXCEPT ![k] = n],
                 keys |-> [Now.keys EXCEPT ![n] = k]], t)
      <3>1. Now.index[k] = NoNode /\ Now.keys[n] = NoKey
        BY <1>1, <1>4 DEF Now
      <3> QED
        BY <1>1, <1>4, <3>1, PushHolds
    <2> QED
      BY <2>1 DEF Now
  <1>7. /\ used \in [LruNode -> Nat] /\ used[n] = time /\ \A m \in LruNode : used[m] <= time
        /\ InOrder(t, used)
    <2>1. used \in [LruNode -> Nat] /\ used[n] = time /\ \A m \in LruNode : used[m] <= time
      BY <1>1, <1>2, <1>4
    <2>2. InOrder(t, used)
      BY <1>1, <1>2, <1>3, <1>4, <1>5, InOrderPushed
    <2> QED
      BY <2>1, <2>2
  <1>8. /\ t \in Seq(LruNode) /\ Len(t) = Len(s) + 1
        /\ pushed.keys \in [LruNode -> Key \cup {NoKey}]
    BY <1>2, <1>3, <1>4, PushFacts
  <1>9. e \in Seq(Record) /\ Len(e) = Len(s)
    <2>1. Shows(e, s, reverseIndex, lastUse)
      BY <1>2, <1>3, EntriesFacts
    <2> HIDE DEF e
    <2> QED
      BY <2>1 DEF Shows
  <1>10. more = <<[key |-> k, at |-> time]>> \o e
    <2>1. Absent(s, n)
      BY <1>5 DEF Absent
    <2>2. /\ s \in Seq(LruNode) /\ n \in LruNode /\ k \in Key /\ time \in Nat
          /\ reverseIndex \in [LruNode -> Key \cup {NoKey}] /\ lastUse \in [LruNode -> Nat]
      BY <1>2, <1>3, <1>4
    <2>3. EntriesOf(Pushed(s, n), Named(reverseIndex, n, k), Renewed(lastUse, n, time))
            = <<[key |-> k, at |-> time]>> \o EntriesOf(s, reverseIndex, lastUse)
      BY ONLY <2>1, <2>2, EntriesPushed
    <2> QED
      BY <2>3 DEF Pushed, Named, Renewed
  <1> HIDE DEF t, used, pushed
  <1>11. /\ more \in Seq(Record) /\ Len(more) = Len(t)
         /\ \A i \in 1..Len(t) : more[i].at = used[t[i]]
    <2>1. Shows(more, t, pushed.keys, used)
      BY <1>7, <1>8, EntriesFacts
    <2> HIDE DEF more
    <2> QED
      BY <2>1 DEF Shows
  <1> HIDE DEF e, more
  <1>12. PICK m \in 0..Len(t) :
             /\ Left(pushed, left, t, m)
             /\ IF strategy = "FixedTimeout"
                   THEN \A i \in 1..Len(t) : i <= m <=> Fresher(t, used, i)
                   ELSE m = IF Len(t) > Limit THEN Len(t) - 1 ELSE Len(t)
    <2>1. CASE strategy = "FixedTimeout"
      <3>1. \E m \in 0..Len(t) :
               /\ Left(pushed, PopExpired(pushed, used), t, m)
               /\ \A i \in 1..Len(t) : i <= m <=> Fresher(t, used, i)
        BY <1>2, <1>6, <1>7, PopExpiredLeaves
      <3> QED
        BY <2>1, <3>1
    <2>2. CASE strategy # "FixedTimeout" /\ TooLong(pushed)
      <3>1. Len(t) > Limit /\ Len(t) > 0 /\ Len(t) - 1 \in 0..Len(t)
        BY <1>3, <1>6, <1>8, <2>2, TooLongMeans
      <3>2. Left(pushed, Pop(pushed), t, Len(t) - 1)
        BY <1>6, <3>1, PopDrops DEF Left
      <3> QED
        BY <2>2, <3>1, <3>2
    <2>3. CASE strategy # "FixedTimeout" /\ ~TooLong(pushed)
      <3>1. ~(Len(t) > Limit) /\ Len(t) \in 0..Len(t)
        BY <1>3, <1>6, <1>8, <2>3, TooLongMeans
      <3>2. Prefix(t, Len(t)) = t
        BY <1>8 DEF Prefix
      <3>3. Left(pushed, pushed, t, Len(t))
        BY <1>6, <3>2 DEF Left
      <3> QED
        BY <2>3, <3>1, <3>3
    <2> QED
      BY <2>1, <2>2, <2>3
  <1> HIDE DEF left
  <1> DEFINE u == Prefix(t, m)
  <1>13. Holds(left, u) /\ \A i \in 1..m : left.keys[t[i]] = pushed.keys[t[i]]
    BY <1>12 DEF Left
  <1>14. u \in Seq(LruNode) /\ InOrder(u, used)
    BY <1>7, <1>8, PrefixFacts, InOrderLeft
  <1> HIDE DEF u
  <1>15. Holds(Now', u)
    <2>1. left = [list |-> left.list, index |-> left.index, keys |-> left.keys]
      BY <1>13 DEF Holds, Contents
    <2> QED
      BY <1>1, <1>13, <2>1 DEF Now
  <1>16. Linked(list') = u
    <2>1. list' \in PointerList /\ Threads(list', u)
      BY <1>15 DEF Holds, Contents, Now
    <2> QED
      BY <2>1, LinkedIs
  <1>17. LruInv'
    <2>1. LruTypeOK'
      BY <1>1, <1>2, <1>7, <1>15 DEF LruTypeOK, Holds, Now
    <2> QED
      BY <1>1, <1>7, <1>14, <1>15, <1>16, <2>1 DEF LruInv
  <1>18. Entries = e
    BY EntriesAre DEF s, e
  <1>19. Entries' = SubSeq(more, 1, m)
    <2>1. left.keys \in [LruNode -> Key \cup {NoKey}]
      BY <1>13 DEF Holds, Contents
    <2>2. EntriesOf(u, left.keys, used) = SubSeq(more, 1, m)
      <3>1. Agree(left.keys, pushed.keys, t, m)
        BY <1>13 DEF Agree
      <3>2. t \in Seq(LruNode) /\ m \in 0..Len(t) /\ used \in [LruNode -> Nat]
            /\ pushed.keys \in [LruNode -> Key \cup {NoKey}]
        BY <1>7, <1>8
      <3> HIDE DEF u, more
      <3>3. PICK a, b : a = left.keys /\ b = pushed.keys
        OBVIOUS
      <3>4. Listing(t, b, used) /\ Listing(t, a, used) /\ m \in 0..Len(t)
        BY <2>1, <3>2, <3>3 DEF Listing
      <3>5. Leaves(t, m, b, a, used)
        <4>1. Agree(a, b, t, m)
          BY <3>1, <3>3
        <4> QED
          BY ONLY <3>4, <4>1, EntriesLeft
      <3> QED
        BY <3>3, <3>5 DEF u, more, Prefix, Leaves
    <2> QED
      BY <1>1, <1>16, <2>2 DEF Entries, EntriesOf
  <1>20. k \notin Recency!Keys
    <2> SUFFICES ASSUME NEW i \in 1..Len(e), e[i].key = k PROVE FALSE
      BY <1>18 DEF Recency!Keys
    <2>1. Shows(e, s, reverseIndex, lastUse)
      BY <1>2, <1>3, EntriesFacts DEF e
    <2>2. reverseIndex[s[i]] = k /\ s[i] \in LruNode
      BY <1>3, <1>9, <2>1 DEF Shows
    <2>3. index[k] = s[i]
      BY <1>1, <2>2, LruAssumption DEF Holds, Indexed, Now
    <2> QED
      BY <1>1, <2>2, <2>3, LruAssumption
  <1>21. more = <<Recency!Entry(k)>> \o Entries
    BY <1>10, <1>18 DEF Recency!Entry
  <1>22. IF strategy = "FixedTimeout"
            THEN \A i \in 1..Len(more) : i <= m <=> time - more[i].at < Limit
            ELSE m = IF Len(more) > Limit THEN Len(more) - 1 ELSE Len(more)
    BY <1>11, <1>12 DEF Fresher
  <1>23. Recency!Add(k)
    BY <1>1, <1>11, <1>19, <1>20, <1>21, <1>22 DEF Recency!Add
  <1> QED
    BY <1>17, <1>23

LEMMA InitIsInit ==
    ASSUME LruInit
    PROVE  LruInv /\ Recency!Init
  <1>1. NewLinklist \in PointerList
    <2>1. First \in Linkable /\ Last \in Linkable
      BY DEF Linkable
    <2> QED
      BY <2>1 DEF NewLinklist, PointerList, Linkable
  <1>2. Threads(NewLinklist, <<>>)
    <2>1. <<>> \in Seq(LruNode) /\ Len(<<>>) = 0 /\ At(<<>>, 0) = First /\ At(<<>>, 0 + 1) = Last
      BY DEF At
    <2>2. NewLinklist.next[First] = Last /\ NewLinklist.prior[Last] = First
      BY LruAssumption DEF NewLinklist
    <2> QED
      BY <2>1, <2>2 DEF Threads
  <1>3. Linked(list) = <<>>
    BY <1>1, <1>2, LinkedIs DEF LruInit
  <1>4. /\ list = NewLinklist /\ index = [k \in Key |-> NoNode] /\ reverseIndex = [n \in LruNode |-> NoKey]
        /\ lastUse = [n \in LruNode |-> 0] /\ time = 0 /\ strategy \in {"FixedLength", "FixedTimeout"}
    BY DEF LruInit
  <1>5. LruTypeOK
    BY <1>1, <1>4 DEF LruTypeOK, Contents
  <1>6. Holds(Now, <<>>)
    <2>1. Indexed(Now, <<>>)
      BY <1>4 DEF Indexed, Now
    <2> QED
      BY <1>2, <1>4, <1>5, <2>1 DEF Holds, Now, LruTypeOK
  <1>7. InOrder(<<>>, lastUse) /\ \A n \in LruNode : lastUse[n] <= time
    BY <1>4 DEF InOrder
  <1>8. Entries = <<>>
    BY <1>3 DEF Entries
  <1> QED
    BY <1>3, <1>4, <1>5, <1>6, <1>7, <1>8 DEF LruInv, Recency!Init

LEMMA TickIsTick ==
    ASSUME LruInv, LruTick
    PROVE  LruInv' /\ Recency!Tick
  <1>1. /\ time < MaxTime /\ time' = time + 1 /\ strategy' = strategy /\ list' = list
        /\ index' = index /\ reverseIndex' = reverseIndex /\ lastUse' = lastUse
    BY DEF LruTick
  <1>2. time' \in Nat /\ \A n \in LruNode : lastUse'[n] <= time'
    BY <1>1 DEF LruInv, LruTypeOK
  <1>3. LruInv'
    BY <1>1, <1>2 DEF LruInv, LruTypeOK, Now
  <1>4. Entries' = Entries
    BY <1>1 DEF Entries
  <1> QED
    BY <1>1, <1>3, <1>4 DEF Recency!Tick

LEMMA LruNextKeeps ==
    ASSUME LruInv, [LruNext]_lruVars
    PROVE  LruInv' /\ [Recency!Next]_<<Entries, strategy, time>>
  <1>1. CASE LruTick
    BY <1>1, TickIsTick DEF Recency!Next
  <1>2. ASSUME NEW k \in Key, LruGet(k) PROVE LruInv' /\ [Recency!Next]_<<Entries, strategy, time>>
    BY <1>2, GetIsUse DEF Recency!Next
  <1>3. ASSUME NEW k \in Key, LruInsert(k) PROVE LruInv' /\ [Recency!Next]_<<Entries, strategy, time>>
    BY <1>3, InsertIsAdd DEF Recency!Next
  <1>4. CASE UNCHANGED lruVars
    <2>1. /\ strategy' = strategy /\ list' = list /\ index' = index /\ reverseIndex' = reverseIndex
          /\ lastUse' = lastUse /\ time' = time
      BY <1>4 DEF lruVars
    <2>2. Entries' = Entries
      BY <2>1 DEF Entries
    <2> QED
      BY <2>1, <2>2 DEF LruInv, LruTypeOK, Now
  <1> QED
    BY <1>1, <1>2, <1>3, <1>4 DEF LruNext

(* The invariant of the pool.                                               *)
LEMMA LruInvariant == LruSpec => []LruInv
  <1>1. LruInit => LruInv
    BY InitIsInit
  <1>2. LruInv /\ [LruNext]_lruVars => LruInv'
    BY LruNextKeeps
  <1> QED
    BY <1>1, <1>2, PTL DEF LruSpec

(* Type correctness: the pointers lead to nodes and sentinels or nowhere,   *)
(* the maps from keys to nodes and back.                                    *)
THEOREM LruTypeCorrect == LruSpec => []LruTypeOK
  <1>1. LruInv => LruTypeOK
    BY DEF LruInv
  <1> QED
    BY <1>1, LruInvariant, PTL

(* However nodes are promoted, popped and made again, the next and prior    *)
(* pointers of the list of infra/linklist describe one and the same chain   *)
(* of different nodes between the sentinels, and the two maps of            *)
(* infra/lru are inverse to each other and name exactly its nodes.          *)
THEOREM PointersAndMapsAgree == LruSpec => []Holds(Now, Linked(list))
  <1>1. LruInv => Holds(Now, Linked(list))
    BY DEF LruInv
  <1> QED
    BY <1>1, LruInvariant, PTL

(* infra/lru is a map that forgets: get moves an entry to the front, insert *)
(* drops exactly what has expired, or the last when there is one too many,  *)
(* though it only ever looks at the back of the list.                       *)
THEOREM LruImplementsRecencyMap == LruSpec => LruForgets
  <1>1. LruInit => LruInv /\ Recency!Init
    BY InitIsInit
  <1>2. LruInv /\ [LruNext]_lruVars => LruInv' /\ [Recency!Next]_<<Entries, strategy, time>>
    BY LruNextKeeps
  <1> QED
    BY <1>1, <1>2, PTL DEF LruSpec, LruForgets, Recency!Spec, Recency!rvars

------------------------------------------------------------------------------
(* LruList: copies and arrays.                                              *)

(* The invariant.                                                           *)

LlTypeOK ==
    /\ cells \in [Array -> Seq(Node \cup {Nil})]
    /\ muList \in {"nobody", "insert"}
    /\ cur \in Array /\ len \in 0..MaxLen /\ vals \in Seq(Node)
    /\ size \in Nat /\ gen \in Nat
    /\ pooled \subseteq {gen} \X Array
    /\ promoted \subseteq Node
    /\ wpc \in [Walker -> {"idle", "walk", "slice", "put"}]
    /\ copy \in [Walker -> Array \cup {NoArray}]
    /\ snap \in [Walker -> Seq(Node)]
    /\ grow \in {"off", "size", "pool", "move"}
    /\ panicked \in BOOLEAN /\ raced \in BOOLEAN

(* The list lies in its array and holds no nil.                             *)
ListFits ==
    /\ len <= Cap(cur)
    /\ \A i \in 1..len : cells[cur][i] \in Node

(* No array is referenced twice: not by the list and a copy, not by two     *)
(* copies, and what is in the pool is referenced by nobody.                 *)
Exclusive ==
    /\ \A w \in Walker : wpc[w] = "idle" <=> copy[w] = NoArray
    /\ \A w \in Walker : copy[w] # cur
    /\ \A v, w \in Walker : v # w /\ copy[v] = copy[w] => copy[v] = NoArray
    /\ \A a \in Array : <<gen, a>> \in pooled => a # cur /\ \A w \in Walker : copy[w] # a

(* Where a growing Insert stands.                                           *)
Growing ==
    /\ grow = "off" <=> muList = "nobody"
    /\ muList = "insert" => len + Len(vals) \in 1..MaxLen
    /\ grow = "size" => size < len + Len(vals)
    /\ grow \in {"pool", "move"} => len + Len(vals) <= size

(* As long as no Put met a Get that grew the pool, capacities agree.        *)
Capacities ==
    /\ Cap(cur) <= size
    /\ \A w \in Walker : wpc[w] \in {"slice", "put"} => Cap(copy[w]) = size
    /\ grow # "pool" => \A a \in Array : <<gen, a>> \in pooled => Cap(a) = size

LlInv ==
    /\ LlTypeOK
    /\ ~panicked => ListFits /\ Exclusive /\ Growing
    /\ ~panicked /\ ~raced => Capacities
    /\ CopiesAreSnapshots
    /\ PanicNeedsRace


------------------------------------------------------------------------------
(* Lemmas.                                                                  *)

(* An array of capacity n that begins with s.                               *)
LEMMA FillFacts ==
    ASSUME NEW n \in Nat, NEW s \in Seq(Node)
    PROVE  /\ Fill(n, s) \in Seq(Node \cup {Nil})
           /\ Len(Fill(n, s)) = n
           /\ \A i \in 1..n : i <= Len(s) => Fill(n, s)[i] = s[i]
  <1>1. Fill(n, s) \in [1..n -> Node \cup {Nil}]
    BY DEF Fill
  <1> QED
    BY <1>1 DEF Fill

LEMMA FreshFacts ==
    ASSUME NEW n \in Nat
    PROVE  Fresh(n) \in Seq(Node \cup {Nil}) /\ Len(Fresh(n)) = n
  <1>1. <<>> \in Seq(Node)
    OBVIOUS
  <1> QED
    BY <1>1, FillFacts DEF Fresh

LEMMA ListFacts ==
    ASSUME LlTypeOK, ListFits
    PROVE  List \in Seq(Node) /\ Len(List) = len /\ Cap(cur) \in Nat
           /\ \A i \in 1..len : List[i] = cells[cur][i]
  <1>1. cells[cur] \in Seq(Node \cup {Nil}) /\ len \in Nat
    BY LruListAssumption DEF LlTypeOK
  <1>2. /\ List = [i \in 1..len |-> cells[cur][i]]
    BY <1>1 DEF List, ListFits, Cap
  <1> QED
    BY <1>1, <1>2 DEF Cap, ListFits

(* Where Insert puts new nodes, and what the list is afterwards.            *)
LEMMA InsertedFacts ==
    ASSUME LlTypeOK, ListFits, NEW new \in Seq(Node)
    PROVE  Inserted(new) \in Seq(Node) /\ Len(Inserted(new)) = len + Len(new)
  <1>1. List \in Seq(Node) /\ Len(List) = len /\ len \in Nat
    BY ListFacts DEF LlTypeOK
  <1>2. InsertBefore \in 1 .. len + 1
    <2> DEFINE low == {i \in 1..len : List[i] \notin promoted}
    <2>1. CASE low = {}
      BY <2>1, <1>1 DEF InsertBefore
    <2>2. CASE low # {}
      <3>1. low \subseteq Nat /\ low \subseteq 1..len
        BY <1>1
      <3>2. InsertBefore = CHOOSE i \in low : \A j \in low : i <= j
        BY <2>2 DEF InsertBefore
      <3> HIDE DEF low
      <3>3. PICK e \in low : TRUE
        BY <2>2
      <3>4. \E n \in low : \A m \in low : n <= m
        BY <3>1, <3>3, LeastOfNat
      <3>5. InsertBefore \in low
        BY <3>2, <3>4
      <3> QED
        BY <3>1, <3>5, <1>1
    <2> QED
      BY <2>1, <2>2
  <1> DEFINE k == InsertBefore
             head == SubSeq(List, 1, k - 1)
             tail == SubSeq(List, k, len)
  <1>3. head \in Seq(Node) /\ Len(head) = k - 1
    BY <1>1, <1>2
  <1>4. tail \in Seq(Node) /\ Len(tail) = len - k + 1
    BY <1>1, <1>2
  <1>5. Inserted(new) = (head \o new) \o tail
    BY DEF Inserted
  <1> HIDE DEF head, tail, k
  <1>6. head \o new \in Seq(Node) /\ Len(head \o new) = k - 1 + Len(new)
    BY <1>3, <1>2
  <1>7. (head \o new) \o tail \in Seq(Node) /\ Len((head \o new) \o tail) = k - 1 + Len(new) + (len - k + 1)
    BY <1>6, <1>4
  <1>8. k \in Nat /\ Len(new) \in Nat
    BY <1>2, <1>1 DEF k
  <1> QED
    BY <1>5, <1>7, <1>8, <1>1

(* growingPool.Get hands out an array that nobody else refers to.           *)
LEMMA TakenFacts ==
    ASSUME LlTypeOK, Exclusive, NEW a \in Array, Taken(a)
    PROVE  /\ a # cur /\ \A w \in Walker : copy[w] # a
           /\ Capacity(a) \in Nat
           /\ (grow # "pool" /\ Capacities) => Capacity(a) = size
  <1>1. Cap(a) \in Nat /\ size \in Nat
    BY DEF LlTypeOK, Cap
  <1>2. CASE <<gen, a>> \in pooled
    BY <1>1, <1>2 DEF Exclusive, Capacity, Capacities
  <1>3. CASE <<gen, a>> \notin pooled /\ a \in Free
    BY <1>1, <1>3 DEF Free, Used, Capacity
  <1> QED
    BY <1>2, <1>3 DEF Taken

(* What a sync inserts: one node or two.                                    *)
LEMMA NewNodesFacts ==
    ASSUME LlTypeOK, NEW new \in NewNodes
    PROVE  new \in Seq(Node) /\ Len(new) \in {1, 2} /\ len + Len(new) <= MaxLen
  <1>1. PICK n \in 1..2 : /\ Distinct(n) # {} /\ len + n <= MaxLen
                          /\ new = CHOOSE x \in Distinct(n) : TRUE
    BY DEF NewNodes
  <1>2. new \in [1..n -> FreeNodes]
    BY <1>1 DEF Distinct
  <1>3. FreeNodes \subseteq Node
    BY DEF FreeNodes
  <1>4. new \in [1..n -> Node]
    BY <1>2, <1>3
  <1>5. new \in Seq(Node) /\ Len(new) = n
    BY <1>4
  <1>6. n \in {1, 2}
    OBVIOUS
  <1> QED
    BY <1>1, <1>5, <1>6

(* A copy whose array a step leaves alone stays a snapshot.                 *)
LEMMA CopiesKept ==
    ASSUME CopiesAreSnapshots, ~panicked,
           \A w \in Walker : wpc'[w] = "walk" =>
               /\ wpc[w] = "walk" /\ copy'[w] = copy[w] /\ snap'[w] = snap[w]
               /\ cells'[copy[w]] = cells[copy[w]]
    PROVE  CopiesAreSnapshots'
  BY DEF CopiesAreSnapshots, Cap

------------------------------------------------------------------------------
(* Initially, and after every step of a list that did not panic.            *)

LEMMA InitLlInv == LlInit => LlInv
  <1> SUFFICES ASSUME LlInit PROVE LlInv
    OBVIOUS
  <1> DEFINE a == CHOOSE x \in Array : TRUE
             first == CHOOSE x \in Node : TRUE
  <1>1. a \in Array /\ first \in Node /\ cur = a
    BY LruListAssumption DEF LlInit
  <1>2. <<first>> \in Seq(Node) /\ Len(<<first>>) = 1 /\ <<first>>[1] = first
    BY <1>1
  <1>3. Closest(1) \in Nat /\ Closest(1) >= 1
    BY LruListAssumption
  <1> DEFINE f == Fill(Closest(1), <<first>>)
  <1>4. f \in Seq(Node \cup {Nil}) /\ Len(f) = Closest(1) /\ f[1] = first
    <2>1. 1 \in 1..Closest(1)
      BY <1>3
    <2>2. /\ Fill(Closest(1), <<first>>) \in Seq(Node \cup {Nil})
          /\ Len(Fill(Closest(1), <<first>>)) = Closest(1)
          /\ \A i \in 1..Closest(1) : i <= Len(<<first>>) => Fill(Closest(1), <<first>>)[i] = <<first>>[i]
      <3> HIDE DEF first, f
      <3> QED
        BY ONLY <1>2, <1>3, FillFacts
    <2> HIDE DEF first
    <2> QED
      BY <1>2, <2>1, <2>2
  <1>5. cells = [b \in Array |-> IF b = a THEN f ELSE <<>>]
    BY DEF LlInit
  <1> HIDE DEF f, a, first
  <1>6. cells \in [Array -> Seq(Node \cup {Nil})] /\ cells[cur] = f
    BY <1>1, <1>4, <1>5
  <1>7. LlTypeOK
    <2>1. copy \in [Walker -> Array \cup {NoArray}] /\ wpc \in [Walker -> {"idle", "walk", "slice", "put"}]
      BY DEF LlInit
    <2>2. snap \in [Walker -> Seq(Node)] /\ vals \in Seq(Node)
      BY DEF LlInit
    <2>3. len \in 0..MaxLen /\ size \in Nat /\ gen \in Nat
      BY LruListAssumption, <1>3 DEF LlInit
    <2> QED
      BY <1>1, <1>6, <2>1, <2>2, <2>3 DEF LlInit, LlTypeOK
  <1>8. ListFits
    BY <1>1, <1>3, <1>4, <1>6 DEF LlInit, ListFits, Cap
  <1>9. Exclusive
    BY <1>1, LruListAssumption DEF LlInit, Exclusive
  <1>10. Growing
    BY DEF LlInit, Growing
  <1>11. Capacities
    BY <1>4, <1>6, <1>3 DEF LlInit, Capacities, Cap
  <1>12. CopiesAreSnapshots /\ PanicNeedsRace
    BY DEF LlInit, CopiesAreSnapshots, PanicNeedsRace
  <1> QED
    BY <1>7, <1>8, <1>9, <1>10, <1>11, <1>12 DEF LlInv

LEMMA GetListCopyKeeps ==
    ASSUME LlInv, ~panicked, NEW w \in Walker, GetListCopy(w)
    PROVE  LlInv'
  <1>1. LlTypeOK /\ ListFits /\ Exclusive /\ Growing /\ CopiesAreSnapshots
    BY DEF LlInv
  <1>2. wpc[w] = "idle" /\ muList = "nobody"
    BY DEF GetListCopy
  <1>3. PICK a \in Array :
          /\ Taken(a)
          /\ panicked' = (Capacity(a) < len)
          /\ cells' = [cells EXCEPT ![a] = IF panicked' THEN @ ELSE Fill(Capacity(a), List)]
          /\ pooled' = pooled \ {<<gen, a>>}
          /\ copy' = [copy EXCEPT ![w] = a]
    BY DEF GetListCopy
  <1>4. /\ snap' = [snap EXCEPT ![w] = List]
        /\ wpc' = [wpc EXCEPT ![w] = "walk"]
        /\ UNCHANGED <<muList, cur, len, vals, grow, promoted, size, gen, raced>>
    BY DEF GetListCopy, listVars
  <1>5. List \in Seq(Node) /\ Len(List) = len /\ len \in Nat
    BY <1>1, ListFacts DEF LlTypeOK
  <1>6. /\ a # cur /\ \A v \in Walker : copy[v] # a
        /\ Capacity(a) \in Nat
        /\ (grow # "pool" /\ Capacities) => Capacity(a) = size
    BY <1>1, <1>3, TakenFacts
  <1> DEFINE f == Fill(Capacity(a), List)
  <1>7. /\ f \in Seq(Node \cup {Nil}) /\ Len(f) = Capacity(a)
        /\ \A i \in 1..Capacity(a) : i <= len => f[i] = List[i]
    BY <1>5, <1>6, FillFacts
  <1> HIDE DEF f
  <1>8. /\ cells' \in [Array -> Seq(Node \cup {Nil})]
        /\ \A b \in Array : b # a => cells'[b] = cells[b]
        /\ ~panicked' => cells'[a] = f
    BY <1>1, <1>3, <1>7 DEF LlTypeOK, f
  <1>9. LlTypeOK'
    <2>1. panicked' \in BOOLEAN
      BY <1>3
    <2>2. wpc' \in [Walker -> {"idle", "walk", "slice", "put"}] /\ snap' \in [Walker -> Seq(Node)]
      BY <1>1, <1>4, <1>5 DEF LlTypeOK
    <2>3. copy' \in [Walker -> Array \cup {NoArray}] /\ pooled' \subseteq {gen} \X Array
      BY <1>1, <1>3 DEF LlTypeOK
    <2> QED
      BY <1>1, <1>4, <1>8, <2>1, <2>2, <2>3 DEF LlTypeOK
  <1>10. ListFits'
    BY <1>1, <1>4, <1>6, <1>8 DEF ListFits, Cap, LlTypeOK
  <1>11. Exclusive'
    BY <1>1, <1>2, <1>3, <1>4, <1>6, LruListAssumption DEF Exclusive, LlTypeOK
  <1>12. Growing'
    BY <1>1, <1>4 DEF Growing
  <1>13. ASSUME ~raced PROVE Capacities' /\ ~panicked'
    <2>1. Capacities /\ grow = "off" /\ Capacity(a) = size
      BY <1>13, <1>1, <1>2, <1>6 DEF LlInv, Growing
    <2>2. ~panicked'
      BY <1>1, <1>3, <1>5, <2>1, <1>6 DEF Capacities, ListFits, LlTypeOK, Cap
    <2>3. Cap(cur)' = Cap(cur)
      BY <1>1, <1>4, <1>6, <1>8 DEF Cap, LlTypeOK
    <2>4. \A v \in Walker : v # w => wpc'[v] = wpc[v] /\ copy'[v] = copy[v]
      BY <1>1, <1>3, <1>4 DEF LlTypeOK
    <2>5. ASSUME NEW v \in Walker, wpc'[v] \in {"slice", "put"} PROVE Len(cells'[copy'[v]]) = size
      <3>1. v # w
        BY <1>1, <1>4, <2>5 DEF LlTypeOK
      <3>2. copy[v] \in Array /\ copy[v] # a
        BY <1>1, <1>6, <2>4, <2>5, <3>1 DEF Exclusive, LlTypeOK
      <3> QED
        BY <1>8, <2>1, <2>4, <2>5, <3>1, <3>2 DEF Capacities, Cap
    <2>6. ASSUME NEW b \in Array, <<gen, b>> \in pooled' PROVE Len(cells'[b]) = size
      BY <1>3, <1>8, <2>1, <2>6 DEF Capacities, Cap
    <2> QED
      BY <1>4, <2>1, <2>2, <2>3, <2>5, <2>6 DEF Capacities, Cap
  <1>14. ASSUME ~panicked' PROVE CopiesAreSnapshots'
    <2> SUFFICES ASSUME NEW v \in Walker, wpc'[v] = "walk"
                 PROVE  /\ Len(cells'[copy'[v]]) >= Len(snap'[v])
                        /\ SubSeq(cells'[copy'[v]], 1, Len(snap'[v])) = snap'[v]
      BY DEF CopiesAreSnapshots, Cap
    <2>1. CASE v = w
      <3>1. copy'[v] = a /\ snap'[v] = List /\ cells'[a] = f
        BY <1>1, <1>3, <1>4, <1>8, <1>14, <2>1 DEF LlTypeOK
      <3>2. len <= Capacity(a)
        <4>1. ~(Capacity(a) < len)
          BY <1>3, <1>14, Zenon
        <4> QED
          BY <1>5, <1>6, <4>1
      <3>3. SubSeq(f, 1, len) = List
        BY <1>5, <1>6, <1>7, <3>2
      <3> QED
        BY <1>5, <1>7, <3>1, <3>2, <3>3
    <2>2. CASE v # w
      <3>1. copy'[v] = copy[v] /\ snap'[v] = snap[v] /\ wpc[v] = "walk"
        BY <1>1, <1>3, <1>4, <2>2 DEF LlTypeOK
      <3>2. copy[v] \in Array /\ copy[v] # a
        BY <1>1, <1>6, <3>1 DEF Exclusive, LlTypeOK
      <3> QED
        BY <1>1, <1>8, <3>1, <3>2 DEF CopiesAreSnapshots, Cap
    <2> QED
      BY <2>1, <2>2
  <1>15. CopiesAreSnapshots'
    BY <1>14 DEF CopiesAreSnapshots
  <1>16. PanicNeedsRace'
    BY <1>13, <1>4 DEF PanicNeedsRace
  <1> QED
    BY <1>4, <1>9, <1>10, <1>11, <1>12, <1>13, <1>15, <1>16 DEF LlInv

(* Insert with room and Remove rewrite the array of the list, which no copy *)
(* shares.                                                                  *)
LEMMA ListRewritten ==
    ASSUME LlInv, ~panicked, muList = "nobody",
           NEW s \in Seq(Node), Len(s) <= Cap(cur), Len(s) <= MaxLen,
           cells' = [cells EXCEPT ![cur] = Fill(Cap(cur), s)],
           len' = Len(s), promoted' \subseteq Node,
           UNCHANGED <<muList, cur, vals, grow, size, gen, pooled, wpc, copy, snap, panicked, raced>>
    PROVE  LlInv'
  <1>1. LlTypeOK /\ ListFits /\ Exclusive /\ Growing /\ CopiesAreSnapshots
    BY DEF LlInv
  <1> DEFINE f == Fill(Cap(cur), s)
  <1>2. Cap(cur) \in Nat
    BY <1>1, ListFacts
  <1>3. /\ f \in Seq(Node \cup {Nil}) /\ Len(f) = Cap(cur)
        /\ \A i \in 1..Cap(cur) : i <= Len(s) => f[i] = s[i]
    BY <1>2, FillFacts
  <1>4. cells' = [cells EXCEPT ![cur] = f]
    OBVIOUS
  <1> HIDE DEF f
  <1>5. /\ cells' \in [Array -> Seq(Node \cup {Nil})]
        /\ \A b \in Array : b # cur => cells'[b] = cells[b]
        /\ cells'[cur] = f
        /\ \A b \in Array : Len(cells'[b]) = Len(cells[b])
    BY <1>1, <1>3, <1>4 DEF LlTypeOK, Cap
  <1>6. LlTypeOK'
    BY <1>1, <1>5 DEF LlTypeOK
  <1>7. ListFits'
    <2> SUFFICES Len(s) <= Len(f) /\ \A i \in 1..Len(s) : f[i] \in Node
      BY <1>5 DEF ListFits, Cap
    <2> QED
      BY <1>2, <1>3
  <1>8. Exclusive'
    BY <1>1 DEF Exclusive
  <1>9. Growing'
    BY <1>1 DEF Growing
  <1>10. \A w \in Walker : wpc[w] # "idle" => copy[w] \in Array /\ copy[w] # cur
    BY <1>1 DEF LlTypeOK, Exclusive
  <1>11. ASSUME ~raced PROVE Capacities'
    <2>1. Capacities
      BY <1>11 DEF LlInv
    <2> SUFFICES /\ Len(cells'[cur]) <= size
                 /\ \A w \in Walker : wpc[w] \in {"slice", "put"} => Len(cells'[copy[w]]) = size
                 /\ grow # "pool" => \A a \in Array : <<gen, a>> \in pooled => Len(cells'[a]) = size
      BY DEF Capacities, Cap
    <2> QED
      BY <1>1, <1>5, <1>10, <2>1 DEF Capacities, Cap, LlTypeOK
  <1>12. CopiesAreSnapshots'
    BY <1>1, <1>5, <1>10, CopiesKept
  <1>13. PanicNeedsRace'
    BY DEF LlInv, PanicNeedsRace
  <1> QED
    BY <1>6, <1>7, <1>8, <1>9, <1>11, <1>12, <1>13 DEF LlInv

LEMMA RemoveNodeKeeps ==
    ASSUME LlInv, ~panicked, NEW w \in Walker, NEW n \in Node, RemoveNode(w, n)
    PROVE  LlInv'
  <1>1. LlTypeOK /\ ListFits
    BY DEF LlInv, RemoveNode
  <1>2. List \in Seq(Node) /\ Len(List) = len /\ len \in 0..MaxLen /\ Cap(cur) \in Nat
    BY <1>1, ListFacts DEF LlTypeOK
  <1>3. PICK i \in 1..len : cells' = [cells EXCEPT ![cur] =
                 Fill(Cap(cur), SubSeq(List, 1, i - 1) \o SubSeq(List, i + 1, len))]
    BY DEF RemoveNode
  <1> DEFINE head == SubSeq(List, 1, i - 1)
             tail == SubSeq(List, i + 1, len)
  <1>4. head \in Seq(Node) /\ Len(head) = i - 1 /\ tail \in Seq(Node) /\ Len(tail) = len - i
    BY <1>2
  <1> DEFINE s == head \o tail
  <1>5. s \in Seq(Node) /\ Len(s) = len - 1
    <2> HIDE DEF head, tail
    <2>1. s \in Seq(Node) /\ Len(s) = Len(head) + Len(tail)
      BY <1>4
    <2> QED
      BY <1>2, <1>4, <2>1
  <1>6. len' = len - 1 /\ promoted' = promoted /\ muList = "nobody"
        /\ UNCHANGED <<muList, cur, vals, grow, size, gen, pooled, wpc, copy, snap, panicked, raced>>
    BY DEF RemoveNode, poolVars, walkVars
  <1>7. Len(s) <= Cap(cur) /\ Len(s) <= MaxLen /\ promoted' \subseteq Node /\ len' = Len(s)
    BY <1>1, <1>2, <1>5, <1>6, LruListAssumption DEF ListFits, LlTypeOK
  <1>8. cells' = [cells EXCEPT ![cur] = Fill(Cap(cur), s)]
    BY <1>3
  <1> HIDE DEF s
  <1> QED
    BY <1>5, <1>6, <1>7, <1>8, ListRewritten

LEMMA InsertInPlaceKeeps ==
    ASSUME LlInv, ~panicked, NEW new \in NewNodes, InsertInPlace(new)
    PROVE  LlInv'
  <1>1. LlTypeOK /\ ListFits
    BY DEF LlInv
  <1>2. new \in Seq(Node) /\ Len(new) \in {1, 2} /\ len + Len(new) <= MaxLen
    BY <1>1, NewNodesFacts
  <1>3. Inserted(new) \in Seq(Node) /\ Len(Inserted(new)) = len + Len(new)
    BY <1>1, <1>2, InsertedFacts
  <1>4. Inside(new) \subseteq Node
    BY <1>2 DEF Inside
  <1>5. /\ muList = "nobody" /\ Cap(cur) >= len + Len(new)
        /\ cells' = [cells EXCEPT ![cur] = Fill(Cap(cur), Inserted(new))]
        /\ len' = len + Len(new)
        /\ promoted' = promoted \cup Inside(new)
        /\ UNCHANGED <<muList, cur, vals, grow, size, gen, pooled, wpc, copy, snap, panicked, raced>>
    BY DEF InsertInPlace, poolVars, walkVars
  <1>6. promoted' \subseteq Node
    BY <1>1, <1>4, <1>5 DEF LlTypeOK
  <1>7. len \in Nat /\ Cap(cur) \in Nat
    BY <1>1, ListFacts DEF LlTypeOK
  <1>8. Len(Inserted(new)) <= Cap(cur) /\ Len(Inserted(new)) <= MaxLen /\ len' = Len(Inserted(new))
    BY <1>2, <1>3, <1>5, <1>7
  <1> QED
    BY <1>3, <1>5, <1>6, <1>8, ListRewritten

(* A step that changes no array, and neither the list nor the pool.         *)
LEMMA ArraysKept ==
    ASSUME LlInv, ~panicked, UNCHANGED <<cells, cur, len, copy, snap, gen, pooled>>,
           \A w \in Walker : wpc'[w] = "walk" => wpc[w] = "walk",
           \A w \in Walker : wpc'[w] = "idle" <=> wpc[w] = "idle"
    PROVE  ListFits' /\ Exclusive' /\ CopiesAreSnapshots'
  <1>1. ListFits /\ Exclusive /\ CopiesAreSnapshots
    BY DEF LlInv
  <1>2. CopiesAreSnapshots'
    BY <1>1, CopiesKept
  <1>3. Exclusive'
    BY <1>1 DEF Exclusive
  <1> QED
    BY <1>1, <1>2, <1>3 DEF ListFits, Cap

LEMMA PromoteNodeKeeps ==
    ASSUME LlInv, ~panicked, NEW w \in Walker, NEW n \in Node, PromoteNode(w, n)
    PROVE  LlInv'
  <1>1. /\ promoted' = promoted \cup {n}
        /\ UNCHANGED <<cells, muList, cur, len, vals, grow, size, gen, pooled, wpc, copy, snap, panicked, raced>>
    BY DEF PromoteNode, poolVars, walkVars
  <1>2. ListFits' /\ Exclusive' /\ CopiesAreSnapshots'
    BY <1>1, ArraysKept
  <1>3. LlTypeOK'
    BY <1>1 DEF LlInv, LlTypeOK
  <1>4. Growing' /\ (~raced => Capacities') /\ PanicNeedsRace'
    BY <1>1 DEF LlInv, Growing, Capacities, Cap, PanicNeedsRace
  <1> QED
    BY <1>1, <1>2, <1>3, <1>4 DEF LlInv

LEMMA PutSlicesKeeps ==
    ASSUME LlInv, ~panicked, NEW w \in Walker, PutSlices(w)
    PROVE  LlInv'
  <1>1. LlTypeOK /\ Growing
    BY DEF LlInv
  <1>2. /\ wpc[w] = "slice"
        /\ panicked' = (Cap(copy[w]) < size)
        /\ wpc' = [wpc EXCEPT ![w] = "put"]
        /\ UNCHANGED <<cells, muList, cur, len, vals, grow, promoted, size, gen, pooled, copy, snap, raced>>
    BY DEF PutSlices, listVars, poolVars
  <1>3. \A v \in Walker : v # w => wpc'[v] = wpc[v]
    BY <1>1, <1>2 DEF LlTypeOK
  <1>4. wpc'[w] = "put"
    BY <1>1, <1>2 DEF LlTypeOK
  <1>5. ListFits' /\ Exclusive' /\ CopiesAreSnapshots'
    BY <1>2, <1>3, <1>4, ArraysKept
  <1>6. LlTypeOK'
    <2>1. panicked' \in BOOLEAN
      BY <1>2
    <2> QED
      BY <1>1, <1>2, <2>1 DEF LlTypeOK
  <1>7. Growing'
    BY <1>1, <1>2 DEF Growing
  <1>8. ASSUME ~raced PROVE Capacities' /\ ~panicked'
    <2>1. Capacities
      BY <1>8 DEF LlInv
    <2>2. Cap(copy[w]) = size
      BY <1>2, <2>1 DEF Capacities
    <2>3. ~(Cap(copy[w]) < size)
      BY <2>2, <1>1 DEF LlTypeOK
    <2>4. ~panicked'
      BY <2>3, <1>2, Zenon
    <2>5. \A v \in Walker : wpc'[v] \in {"slice", "put"} => wpc[v] \in {"slice", "put"}
      BY <1>2, <1>3
    <2> QED
      BY <1>2, <2>1, <2>4, <2>5 DEF Capacities, Cap
  <1>9. PanicNeedsRace'
    BY <1>2, <1>8 DEF PanicNeedsRace
  <1> QED
    BY <1>2, <1>5, <1>6, <1>7, <1>8, <1>9 DEF LlInv

LEMMA InsertStartsKeeps ==
    ASSUME LlInv, ~panicked, NEW new \in NewNodes, InsertStarts(new)
    PROVE  LlInv'
  <1>1. LlTypeOK /\ Growing
    BY DEF LlInv
  <1>2. new \in Seq(Node) /\ Len(new) \in {1, 2} /\ len + Len(new) <= MaxLen
    BY <1>1, NewNodesFacts
  <1>3. /\ muList = "nobody"
        /\ muList' = "insert" /\ vals' = new
        /\ grow' = IF len + Len(new) > size THEN "size" ELSE "move"
        /\ UNCHANGED <<cells, cur, len, promoted, size, gen, pooled, wpc, copy, snap, panicked, raced>>
    BY DEF InsertStarts, poolVars, walkVars
  <1>4. ListFits' /\ Exclusive' /\ CopiesAreSnapshots'
    BY <1>3, ArraysKept
  <1>5. LlTypeOK'
    BY <1>1, <1>2, <1>3 DEF LlTypeOK
  <1>6. Growing'
    <2>1. len \in Nat /\ MaxLen \in Nat /\ size \in Nat
      BY <1>1, LruListAssumption DEF LlTypeOK
    <2>2. len + Len(new) \in 1..MaxLen
      BY <1>2, <2>1
    <2> QED
      BY <1>3, <2>1, <2>2 DEF Growing
  <1>7. ASSUME ~raced PROVE Capacities'
    BY <1>1, <1>3, <1>7 DEF LlInv, Capacities, Growing, Cap
  <1>8. PanicNeedsRace'
    BY <1>3 DEF LlInv, PanicNeedsRace
  <1> QED
    BY <1>3, <1>4, <1>5, <1>6, <1>7, <1>8 DEF LlInv

(* While size has its new value and pool has not, no array in the pool need *)
(* have the size; a Put that compared with the old one is a race.           *)
LEMMA GrowSizeKeeps ==
    ASSUME LlInv, ~panicked, GrowSize
    PROVE  LlInv'
  <1>1. LlTypeOK /\ Growing /\ ListFits
    BY DEF LlInv
  <1>2. /\ grow = "size" /\ size' = Closest(len + Len(vals))
        /\ raced' = (raced \/ \E w \in Walker : wpc[w] \in {"slice", "put"})
        /\ grow' = "pool"
        /\ UNCHANGED <<cells, muList, cur, len, vals, promoted, gen, pooled, wpc, copy, snap, panicked>>
    BY DEF GrowSize, walkVars
  <1>3. len + Len(vals) \in 1..MaxLen /\ size < len + Len(vals)
    BY <1>1, <1>2 DEF Growing, LlTypeOK
  <1>4. size' \in Nat /\ size' >= len + Len(vals)
    BY <1>2, <1>3, LruListAssumption
  <1>5. ListFits' /\ Exclusive' /\ CopiesAreSnapshots'
    BY <1>2, ArraysKept
  <1>6. raced' \in BOOLEAN /\ (raced => raced')
        /\ (~raced' => \A w \in Walker : wpc[w] \notin {"slice", "put"})
    BY <1>2, Zenon
  <1>7. LlTypeOK'
    BY <1>1, <1>2, <1>4, <1>6 DEF LlTypeOK
  <1>8. Growing'
    BY <1>1, <1>2, <1>4, <1>3 DEF Growing, LlTypeOK
  <1>9. ASSUME ~raced' PROVE Capacities'
    <2>1. Capacities /\ size \in Nat /\ Cap(cur) \in Nat
      BY <1>1, <1>6, <1>9, ListFacts DEF LlInv, LlTypeOK
    <2>2. Cap(cur) <= size'
      BY <1>3, <1>4, <2>1 DEF Capacities
    <2> QED
      BY <1>2, <1>6, <1>9, <2>2 DEF Capacities, Cap
  <1>10. PanicNeedsRace'
    BY <1>2 DEF PanicNeedsRace
  <1> QED
    BY <1>2, <1>5, <1>7, <1>8, <1>9, <1>10 DEF LlInv

LEMMA PutComparesKeeps ==
    ASSUME LlInv, ~panicked, NEW w \in Walker, PutCompares(w)
    PROVE  LlInv'
  <1>1. LlTypeOK /\ ListFits /\ Exclusive /\ Growing /\ CopiesAreSnapshots
    BY DEF LlInv
  <1>2. /\ wpc[w] = "walk"
        /\ UNCHANGED <<muList, cur, len, vals, grow, promoted, size, gen, pooled, panicked, raced>>
    BY DEF PutCompares, listVars, poolVars
  <1>3. copy[w] \in Array /\ copy[w] # cur
    BY <1>1, <1>2 DEF Exclusive, LlTypeOK
  <1>4. PanicNeedsRace'
    BY <1>2 DEF LlInv, PanicNeedsRace
  <1>5. CASE Cap(copy[w]) = size /\ wpc' = [wpc EXCEPT ![w] = "slice"] /\ UNCHANGED <<cells, copy, snap>>
    <2>1. /\ \A v \in Walker : v # w => wpc'[v] = wpc[v]
          /\ wpc'[w] = "slice"
      BY <1>1, <1>5 DEF LlTypeOK
    <2>2. ListFits' /\ Exclusive' /\ CopiesAreSnapshots'
      BY <1>2, <1>5, <2>1, ArraysKept
    <2>3. LlTypeOK' /\ Growing'
      BY <1>1, <1>2, <1>5 DEF LlTypeOK, Growing
    <2>4. ASSUME ~raced PROVE Capacities'
      BY <1>2, <1>5, <2>1, <2>4 DEF LlInv, Capacities, Cap
    <2> QED
      BY <1>2, <1>4, <2>2, <2>3, <2>4 DEF LlInv
  <1>6. CASE /\ wpc' = [wpc EXCEPT ![w] = "idle"]
             /\ cells' = [cells EXCEPT ![copy[w]] = <<>>]
             /\ copy' = [copy EXCEPT ![w] = NoArray] /\ snap' = [snap EXCEPT ![w] = <<>>]
    <2>1. \A v \in Walker : v # w => wpc'[v] = wpc[v] /\ copy'[v] = copy[v] /\ snap'[v] = snap[v]
      BY <1>1, <1>6 DEF LlTypeOK
    <2>2. wpc'[w] = "idle" /\ copy'[w] = NoArray
      BY <1>1, <1>6 DEF LlTypeOK
    <2>3. \A b \in Array : b # copy[w] => cells'[b] = cells[b]
      BY <1>1, <1>6 DEF LlTypeOK
    <2>4. \A v \in Walker : v # w /\ wpc[v] # "idle" => copy[v] \in Array /\ copy[v] # copy[w]
      BY <1>1, <1>2, LruListAssumption DEF Exclusive, LlTypeOK
    <2>5. \A a \in Array : <<gen, a>> \in pooled => a # copy[w]
      BY <1>1 DEF Exclusive
    <2>6. LlTypeOK'
      <3>1. <<>> \in Seq(Node \cup {Nil}) /\ <<>> \in Seq(Node)
        OBVIOUS
      <3>2. cells' \in [Array -> Seq(Node \cup {Nil})] /\ snap' \in [Walker -> Seq(Node)]
        BY <1>1, <1>6, <3>1 DEF LlTypeOK
      <3>3. copy' \in [Walker -> Array \cup {NoArray}] /\ wpc' \in [Walker -> {"idle", "walk", "slice", "put"}]
        BY <1>1, <1>6 DEF LlTypeOK
      <3> QED
        BY <1>1, <1>2, <3>2, <3>3 DEF LlTypeOK
    <2>7. ListFits'
      BY <1>1, <1>2, <1>3, <2>3 DEF ListFits, Cap, LlTypeOK
    <2>8. Exclusive'
      <3>1. NoArray # cur /\ \A a \in Array : a # NoArray
        BY <1>1, LruListAssumption DEF LlTypeOK
      <3>2. \A v \in Walker : (wpc'[v] = "idle" <=> copy'[v] = NoArray) /\ copy'[v] # cur
        BY <1>1, <2>1, <2>2, <3>1 DEF Exclusive
      <3>3. \A u, v \in Walker : u # v /\ copy'[u] = copy'[v] => copy'[u] = NoArray
        BY <1>1, <2>1, <2>2 DEF Exclusive
      <3>4. \A a \in Array : <<gen, a>> \in pooled => a # cur /\ \A v \in Walker : copy'[v] # a
        BY <1>1, <2>1, <2>2, <3>1 DEF Exclusive
      <3> QED
        BY <1>2, <3>2, <3>3, <3>4 DEF Exclusive
    <2>9. Growing'
      BY <1>1, <1>2 DEF Growing
    <2>10. CopiesAreSnapshots'
      BY <1>1, <2>1, <2>2, <2>3, <2>4, CopiesKept
    <2>11. ASSUME ~raced PROVE Capacities'
      <3>1. Capacities
        BY <2>11 DEF LlInv
      <3>2. Cap(cur)' <= size
        BY <1>1, <1>2, <1>3, <2>3, <3>1 DEF Capacities, Cap, LlTypeOK
      <3>3. ASSUME NEW v \in Walker, wpc'[v] \in {"slice", "put"} PROVE Len(cells'[copy'[v]]) = size
        <4>1. v # w
          BY <2>2, <3>3
        <4>2. wpc[v] \in {"slice", "put"} /\ copy'[v] = copy[v]
          BY <2>1, <3>3, <4>1
        <4> QED
          BY <2>3, <2>4, <3>1, <4>1, <4>2 DEF Capacities, Cap
      <3>4. ASSUME NEW b \in Array, <<gen, b>> \in pooled, grow # "pool" PROVE Len(cells'[b]) = size
        BY <2>3, <2>5, <3>1, <3>4 DEF Capacities, Cap
      <3> QED
        BY <1>2, <3>2, <3>3, <3>4 DEF Capacities, Cap
    <2> QED
      BY <1>2, <1>4, <2>6, <2>7, <2>8, <2>9, <2>10, <2>11 DEF LlInv
  <1> QED
    BY <1>5, <1>6 DEF PutCompares, Forget

(* What a walker gives back is nobody's but the pool's.                     *)
LEMMA PutPoolsKeeps ==
    ASSUME LlInv, ~panicked, NEW w \in Walker, PutPools(w)
    PROVE  LlInv'
  <1>1. LlTypeOK /\ ListFits /\ Exclusive /\ Growing /\ CopiesAreSnapshots
    BY DEF LlInv
  <1>2. /\ wpc[w] = "put"
        /\ pooled' = pooled \cup {<<gen, copy[w]>>}
        /\ cells' = [cells EXCEPT ![copy[w]] = Fresh(Len(cells[copy[w]]))]
        /\ wpc' = [wpc EXCEPT ![w] = "idle"]
        /\ copy' = [copy EXCEPT ![w] = NoArray] /\ snap' = [snap EXCEPT ![w] = <<>>]
        /\ UNCHANGED <<muList, cur, len, vals, grow, promoted, size, gen, panicked, raced>>
    BY DEF PutPools, Forget, listVars
  <1>3. copy[w] \in Array /\ copy[w] # cur /\ Len(cells[copy[w]]) \in Nat
    BY <1>1, <1>2 DEF Exclusive, LlTypeOK
  <1> DEFINE f == Fresh(Len(cells[copy[w]]))
  <1>4. f \in Seq(Node \cup {Nil}) /\ Len(f) = Cap(copy[w])
    BY <1>3, FreshFacts DEF Cap
  <1> HIDE DEF f
  <1>5. /\ cells' \in [Array -> Seq(Node \cup {Nil})]
        /\ \A b \in Array : b # copy[w] => cells'[b] = cells[b]
        /\ \A b \in Array : Len(cells'[b]) = Len(cells[b])
    BY <1>1, <1>2, <1>4 DEF LlTypeOK, f, Cap
  <1>6. \A v \in Walker : v # w => wpc'[v] = wpc[v] /\ copy'[v] = copy[v] /\ snap'[v] = snap[v]
    BY <1>1, <1>2 DEF LlTypeOK
  <1>7. wpc'[w] = "idle" /\ copy'[w] = NoArray
    BY <1>1, <1>2 DEF LlTypeOK
  <1>8. \A v \in Walker : v # w /\ wpc[v] # "idle" => copy[v] \in Array /\ copy[v] # copy[w]
    BY <1>1, <1>2, LruListAssumption DEF Exclusive, LlTypeOK
  <1>9. LlTypeOK'
    <2>1. <<>> \in Seq(Node)
      OBVIOUS
    <2>2. snap' \in [Walker -> Seq(Node)] /\ copy' \in [Walker -> Array \cup {NoArray}]
      BY <1>1, <1>2, <2>1 DEF LlTypeOK
    <2>3. wpc' \in [Walker -> {"idle", "walk", "slice", "put"}] /\ pooled' \subseteq {gen} \X Array
      BY <1>1, <1>2, <1>3 DEF LlTypeOK
    <2> QED
      BY <1>1, <1>2, <1>5, <2>2, <2>3 DEF LlTypeOK
  <1>10. ListFits'
    BY <1>1, <1>2, <1>3, <1>5 DEF ListFits, Cap, LlTypeOK
  <1>11. Exclusive'
    <2>1. NoArray # cur /\ \A a \in Array : a # NoArray
      BY <1>1, LruListAssumption DEF LlTypeOK
    <2>2. \A v \in Walker : (wpc'[v] = "idle" <=> copy'[v] = NoArray) /\ copy'[v] # cur
      BY <1>1, <1>6, <1>7, <2>1 DEF Exclusive
    <2>3. \A u, v \in Walker : u # v /\ copy'[u] = copy'[v] => copy'[u] = NoArray
      BY <1>1, <1>6, <1>7 DEF Exclusive
    <2>4. \A v \in Walker : copy'[v] # copy[w]
      BY <1>3, <1>6, <1>7, <1>8, <2>1, <1>1 DEF Exclusive
    <2>5. \A a \in Array : <<gen, a>> \in pooled => a # cur /\ \A v \in Walker : copy'[v] # a
      BY <1>1, <1>6, <1>7, <2>1 DEF Exclusive
    <2>6. \A a \in Array : <<gen, a>> \in pooled' => <<gen, a>> \in pooled \/ a = copy[w]
      BY <1>2
    <2> QED
      BY <1>2, <1>3, <2>2, <2>3, <2>4, <2>5, <2>6 DEF Exclusive
  <1>12. Growing'
    BY <1>1, <1>2 DEF Growing
  <1>13. CopiesAreSnapshots'
    BY <1>1, <1>5, <1>6, <1>7, <1>8, CopiesKept
  <1>14. ASSUME ~raced PROVE Capacities'
    <2>1. Capacities
      BY <1>14 DEF LlInv
    <2>2. Len(cells'[cur]) <= size
      BY <1>1, <1>5, <2>1 DEF Capacities, Cap, LlTypeOK
    <2>3. ASSUME NEW v \in Walker, wpc'[v] \in {"slice", "put"} PROVE Len(cells'[copy'[v]]) = size
      <3>1. v # w
        BY <1>7, <2>3
      <3> QED
        BY <1>5, <1>6, <1>8, <2>1, <2>3, <3>1 DEF Capacities, Cap
    <2>4. ASSUME NEW b \in Array, <<gen, b>> \in pooled', grow # "pool" PROVE Len(cells'[b]) = size
      <3>1. CASE b = copy[w]
        BY <1>2, <1>5, <2>1, <3>1 DEF Capacities, Cap
      <3>2. CASE b # copy[w]
        BY <1>2, <1>5, <2>1, <2>4, <3>2 DEF Capacities, Cap
      <3> QED
        BY <3>1, <3>2
    <2> QED
      BY <1>2, <2>2, <2>3, <2>4 DEF Capacities, Cap
  <1>15. PanicNeedsRace'
    BY <1>2 DEF LlInv, PanicNeedsRace
  <1> QED
    BY <1>2, <1>9, <1>10, <1>11, <1>12, <1>13, <1>14, <1>15 DEF LlInv

(* What leaves the pool is no array that anyone refers to.                  *)
LEMMA PoolForgetsKeeps ==
    ASSUME LlInv, ~panicked, NEW e \in pooled, PoolForgets(e)
    PROVE  LlInv'
  <1>1. LlTypeOK /\ ListFits /\ Exclusive /\ Growing /\ CopiesAreSnapshots
    BY DEF LlInv
  <1>2. PICK a \in Array : e = <<gen, a>>
    BY <1>1 DEF LlTypeOK
  <1>3. /\ pooled' = pooled \ {e} /\ cells' = [cells EXCEPT ![a] = <<>>]
        /\ UNCHANGED <<muList, cur, len, vals, grow, promoted, size, gen, wpc, copy, snap, panicked, raced>>
    BY <1>2 DEF PoolForgets, listVars, walkVars
  <1>4. a # cur /\ \A v \in Walker : copy[v] # a
    BY <1>1, <1>2 DEF Exclusive
  <1>5. /\ cells' \in [Array -> Seq(Node \cup {Nil})]
        /\ \A b \in Array : b # a => cells'[b] = cells[b]
    <2>1. <<>> \in Seq(Node \cup {Nil})
      OBVIOUS
    <2> QED
      BY <1>1, <1>3, <2>1 DEF LlTypeOK
  <1>6. \A b \in Array : <<gen, b>> \in pooled' => <<gen, b>> \in pooled /\ b # a
    BY <1>2, <1>3
  <1>7. LlTypeOK'
    BY <1>1, <1>3, <1>5 DEF LlTypeOK
  <1>8. ListFits'
    BY <1>1, <1>3, <1>4, <1>5 DEF ListFits, Cap, LlTypeOK
  <1>9. Exclusive' /\ Growing'
    BY <1>1, <1>3, <1>6 DEF Exclusive, Growing
  <1>10. \A v \in Walker : wpc[v] # "idle" => copy[v] \in Array
    BY <1>1 DEF Exclusive, LlTypeOK
  <1>11. CopiesAreSnapshots'
    BY <1>1, <1>3, <1>4, <1>5, <1>10, CopiesKept
  <1>12. ASSUME ~raced PROVE Capacities'
    <2>1. Capacities
      BY <1>12 DEF LlInv
    <2>2. Len(cells'[cur]) <= size
      BY <1>1, <1>4, <1>5, <2>1 DEF Capacities, Cap, LlTypeOK
    <2>3. \A v \in Walker : wpc[v] \in {"slice", "put"} => Len(cells'[copy[v]]) = size
      BY <1>4, <1>5, <1>10, <2>1 DEF Capacities, Cap
    <2>4. grow # "pool" => \A b \in Array : <<gen, b>> \in pooled' => Len(cells'[b]) = size
      BY <1>5, <1>6, <2>1 DEF Capacities, Cap
    <2> QED
      BY <1>3, <2>2, <2>3, <2>4 DEF Capacities, Cap
  <1>13. PanicNeedsRace'
    BY <1>3 DEF LlInv, PanicNeedsRace
  <1> QED
    BY <1>3, <1>7, <1>8, <1>9, <1>11, <1>12, <1>13 DEF LlInv

LEMMA GrowPoolKeeps ==
    ASSUME LlInv, ~panicked, GrowPool
    PROVE  LlInv'
  <1>1. LlTypeOK /\ ListFits /\ Exclusive /\ Growing /\ CopiesAreSnapshots
    BY DEF LlInv
  <1>2. /\ grow = "pool" /\ gen' = gen + 1 /\ pooled' = {}
        /\ cells' = [a \in Array |-> IF a \in {e[2] : e \in pooled} THEN <<>> ELSE cells[a]]
        /\ grow' = "move"
        /\ UNCHANGED <<muList, cur, len, vals, promoted, size, wpc, copy, snap, panicked, raced>>
    BY DEF GrowPool, walkVars
  <1>3. \A a \in Array : a \in {e[2] : e \in pooled} => <<gen, a>> \in pooled
    <2> SUFFICES ASSUME NEW e \in pooled PROVE <<gen, e[2]>> \in pooled
      OBVIOUS
    <2>1. PICK a \in Array : e = <<gen, a>>
      BY <1>1 DEF LlTypeOK
    <2> QED
      BY <2>1
  <1>4. cells' \in [Array -> Seq(Node \cup {Nil})]
    <2>1. <<>> \in Seq(Node \cup {Nil})
      OBVIOUS
    <2> QED
      BY <1>1, <1>2, <2>1 DEF LlTypeOK
  <1>5. \A a \in Array : <<gen, a>> \notin pooled => cells'[a] = cells[a]
    BY <1>2, <1>3
  <1>6. cells'[cur] = cells[cur] /\ \A v \in Walker : wpc[v] # "idle" => cells'[copy[v]] = cells[copy[v]]
    BY <1>1, <1>5 DEF Exclusive, LlTypeOK
  <1>7. LlTypeOK'
    BY <1>1, <1>2, <1>4 DEF LlTypeOK
  <1>8. ListFits'
    BY <1>1, <1>2, <1>6 DEF ListFits, Cap
  <1>9. Exclusive' /\ Growing'
    BY <1>1, <1>2 DEF Exclusive, Growing
  <1>10. CopiesAreSnapshots'
    BY <1>1, <1>2, <1>6, CopiesKept
  <1>11. ASSUME ~raced PROVE Capacities'
    <2>1. Capacities
      BY <1>11 DEF LlInv
    <2> QED
      BY <1>2, <1>6, <2>1 DEF Capacities, Cap
  <1>12. PanicNeedsRace'
    BY <1>2 DEF LlInv, PanicNeedsRace
  <1> QED
    BY <1>2, <1>7, <1>8, <1>9, <1>10, <1>11, <1>12 DEF LlInv

(* The list moves to an array that only the pool had; the one it leaves is  *)
(* the pool's or garbage.                                                   *)
LEMMA InsertMovesKeeps ==
    ASSUME LlInv, ~panicked, InsertMoves
    PROVE  LlInv'
  <1>1. LlTypeOK /\ ListFits /\ Exclusive /\ Growing /\ CopiesAreSnapshots
    BY DEF LlInv
  <1> DEFINE back == IF Cap(cur) = size THEN {<<gen, cur>>} ELSE {}
             left == IF back = {} THEN <<>> ELSE Fresh(Len(cells[cur]))
  <1>2. /\ grow = "move"
        /\ len' = len + Len(vals)
        /\ promoted' = promoted \cup Inside(vals)
        /\ muList' = "nobody" /\ vals' = <<>> /\ grow' = "off"
        /\ UNCHANGED <<size, gen, wpc, copy, snap, raced>>
    BY DEF InsertMoves, walkVars
  <1>3. PICK a \in Array :
          /\ Taken(a)
          /\ panicked' = (Capacity(a) < len + Len(vals))
          /\ pooled' = (pooled \ {<<gen, a>>}) \cup back
          /\ cells' = [cells EXCEPT ![a] = IF panicked' THEN @ ELSE Fill(Capacity(a), Inserted(vals)),
                                    ![cur] = IF back = {} THEN <<>> ELSE Fresh(Len(@))]
          /\ cur' = a
    BY DEF InsertMoves
  <1>4. /\ a # cur /\ \A v \in Walker : copy[v] # a
        /\ Capacity(a) \in Nat
        /\ (grow # "pool" /\ Capacities) => Capacity(a) = size
    BY <1>1, <1>3, TakenFacts
  <1>5. /\ vals \in Seq(Node) /\ len \in Nat /\ Len(vals) \in Nat /\ cur \in Array /\ Cap(cur) \in Nat
        /\ len + Len(vals) \in 1..MaxLen /\ len + Len(vals) <= size
    <2>1. muList = "insert"
      BY <1>1, <1>2 DEF Growing, LlTypeOK
    <2> QED
      BY <1>1, <1>2, <2>1, ListFacts DEF Growing, LlTypeOK
  <1>6. Inserted(vals) \in Seq(Node) /\ Len(Inserted(vals)) = len + Len(vals)
    BY <1>1, <1>5, InsertedFacts
  <1> DEFINE f == Fill(Capacity(a), Inserted(vals))
  <1>7. /\ f \in Seq(Node \cup {Nil}) /\ Len(f) = Capacity(a)
        /\ \A i \in 1..Capacity(a) : i <= len + Len(vals) => f[i] = Inserted(vals)[i]
    BY <1>4, <1>6, FillFacts
  <1>8. left \in Seq(Node \cup {Nil}) /\ (Cap(cur) = size => Len(left) = size)
    <2>1. Fresh(Cap(cur)) \in Seq(Node \cup {Nil}) /\ Len(Fresh(Cap(cur))) = Cap(cur)
      BY <1>5, FreshFacts
    <2>2. <<>> \in Seq(Node \cup {Nil})
      OBVIOUS
    <2> QED
      BY <2>1, <2>2 DEF Cap
  <1> HIDE DEF f
  <1>9. /\ cells' \in [Array -> Seq(Node \cup {Nil})]
        /\ \A b \in Array : b # a /\ b # cur => cells'[b] = cells[b]
        /\ ~panicked' => cells'[a] = f
        /\ cells'[cur] = left
    <2>1. cells' = [cells EXCEPT ![a] = IF panicked' THEN @ ELSE f, ![cur] = left]
      BY <1>1, <1>3, <1>4, <1>5 DEF f, LlTypeOK
    <2> HIDE DEF left
    <2> QED
      BY <1>1, <1>4, <1>5, <1>7, <1>8, <2>1 DEF LlTypeOK
  <1>10. \A b \in Array : <<gen, b>> \in pooled' => b # a /\ (<<gen, b>> \in pooled \/ (b = cur /\ Cap(cur) = size))
    BY <1>3, <1>4
  <1>11. LlTypeOK'
    <2>1. panicked' \in BOOLEAN
      BY <1>3
    <2>2. pooled' \subseteq {gen} \X Array
      BY <1>1, <1>3 DEF LlTypeOK
    <2>3. promoted' \subseteq Node
      BY <1>1, <1>2, <1>5 DEF LlTypeOK, Inside
    <2>4. vals' \in Seq(Node) /\ len' \in 0..MaxLen
      BY <1>2, <1>5
    <2> QED
      BY <1>1, <1>2, <1>3, <1>9, <2>1, <2>2, <2>3, <2>4 DEF LlTypeOK
  <1>12. ASSUME ~panicked' PROVE ListFits'
    <2>1. ~(Capacity(a) < len + Len(vals))
      BY <1>3, <1>12, Zenon
    <2>2. len + Len(vals) <= Capacity(a)
      BY <1>4, <1>5, <2>1
    <2>3. cells'[cur'] = f /\ len' = len + Len(vals)
      BY <1>2, <1>3, <1>9, <1>12
    <2>4. \A i \in 1 .. len + Len(vals) : f[i] \in Node
      BY <1>4, <1>5, <1>6, <1>7, <2>2
    <2> QED
      BY <1>7, <2>2, <2>3, <2>4 DEF ListFits, Cap
  <1>13. Exclusive'
    <2>1. \A v \in Walker : copy[v] # cur /\ copy[v] # a
      BY <1>1, <1>4 DEF Exclusive
    <2> QED
      BY <1>1, <1>2, <1>3, <1>10, <2>1 DEF Exclusive
  <1>14. Growing'
    BY <1>2 DEF Growing
  <1>15. \A v \in Walker : wpc[v] # "idle" => copy[v] \in Array /\ cells'[copy[v]] = cells[copy[v]]
    BY <1>1, <1>4, <1>9 DEF Exclusive, LlTypeOK
  <1>16. CopiesAreSnapshots'
    BY <1>1, <1>2, <1>15, CopiesKept
  <1>17. ASSUME ~raced PROVE Capacities' /\ ~panicked'
    <2>1. Capacities /\ Capacity(a) = size
      BY <1>17, <1>2, <1>4 DEF LlInv
    <2>2. ~(Capacity(a) < len + Len(vals))
      BY <1>1, <1>5, <2>1 DEF LlTypeOK
    <2>3. ~panicked'
      BY <1>3, <2>2, Zenon
    <2>4. Len(cells'[cur']) <= size
      BY <1>1, <1>3, <1>7, <1>9, <2>1, <2>3 DEF LlTypeOK
    <2>5. \A v \in Walker : wpc[v] \in {"slice", "put"} => Len(cells'[copy[v]]) = size
      BY <1>15, <2>1 DEF Capacities, Cap
    <2>6. \A b \in Array : <<gen, b>> \in pooled' => Len(cells'[b]) = size
      <3> SUFFICES ASSUME NEW b \in Array, <<gen, b>> \in pooled' PROVE Len(cells'[b]) = size
        OBVIOUS
      <3>1. CASE b = cur /\ Cap(cur) = size
        BY <1>8, <1>9, <3>1
      <3>2. CASE b # a /\ b # cur /\ <<gen, b>> \in pooled
        BY <1>2, <1>9, <2>1, <3>2 DEF Capacities, Cap
      <3> QED
        BY <1>1, <1>10, <3>1, <3>2 DEF Exclusive
    <2> QED
      BY <1>2, <2>3, <2>4, <2>5, <2>6 DEF Capacities, Cap
  <1>18. PanicNeedsRace'
    BY <1>2, <1>17 DEF PanicNeedsRace
  <1> QED
    BY <1>2, <1>11, <1>12, <1>13, <1>14, <1>16, <1>17, <1>18 DEF LlInv

LEMMA LlNextKeeps == LlInv /\ [LlNext]_llvars => LlInv'
  <1> SUFFICES ASSUME LlInv, [LlNext]_llvars
               PROVE  LlInv'
    OBVIOUS
  <1>1. CASE ~panicked /\ InsertSteps
    BY <1>1, InsertInPlaceKeeps, InsertStartsKeeps, GrowSizeKeeps, GrowPoolKeeps, InsertMovesKeeps
       DEF InsertSteps
  <1>2. CASE ~panicked /\ \E w \in Walker : WalkerSteps(w)
    BY <1>2, GetListCopyKeeps, PromoteNodeKeeps, RemoveNodeKeeps, PutComparesKeeps, PutSlicesKeeps,
       PutPoolsKeeps
       DEF WalkerSteps
  <1>3. CASE ~panicked /\ \E e \in pooled : PoolForgets(e)
    BY <1>3, PoolForgetsKeeps
  <1>4. CASE UNCHANGED llvars
    BY <1>4 DEF llvars, listVars, poolVars, walkVars, LlInv, LlTypeOK, ListFits, Exclusive, Growing,
                Capacities, CopiesAreSnapshots, PanicNeedsRace, Cap
  <1> QED
    BY <1>1, <1>2, <1>3, <1>4 DEF LlNext

LEMMA LlSpecLlInv == LlSpec => []LlInv
  BY InitLlInv, LlNextKeeps, PTL DEF LlSpec

------------------------------------------------------------------------------
(* The theorems.                                                            *)

(* The variables of LruList keep their types.  In particular the list that  *)
(* GetListCopy copies holds nodes and never the nil of a fresh array.       *)
THEOREM LruListTypeCorrect == LlSpec => []LlTypeOK
  <1>1. LlInv => LlTypeOK
    BY DEF LlInv
  <1> QED
    BY <1>1, LlSpecLlInv, PTL

(* For any number of walkers and any growth of the list: the array of a     *)
(* copy is referenced by nothing else, so what a handler walks stays the    *)
(* list as it was.                                                          *)
THEOREM CopiesStaySnapshots == LlSpec => []CopiesAreSnapshots
  <1>1. LlInv => CopiesAreSnapshots
    BY DEF LlInv
  <1> QED
    BY <1>1, LlSpecLlInv, PTL

(* Unless a Put was between its comparison and its hand-over while a Get    *)
(* replaced the size, every array in use has the capacity it needs.         *)
THEOREM PanicOnlyByRace == LlSpec => []PanicNeedsRace
  <1>1. LlInv => PanicNeedsRace
    BY DEF LlInv
  <1> QED
    BY <1>1, LlSpecLlInv, PTL

(* A step of one goroutine leaves the copies that others walk alone, and    *)
(* nobody's array is handed out twice: as long as nothing panicked, copies  *)
(* have arrays of their own.                                                *)
THEOREM ArraysNeverShared == LlSpec => [](~panicked => Exclusive)
  <1>1. LlInv => (~panicked => Exclusive)
    BY DEF LlInv
  <1> QED
    BY <1>1, LlSpecLlInv, PTL

------------------------------------------------------------------------------
(* Trie: the walk and the networks.                                         *)

(* Words.                                                                   *)
Word == Seq(Bit)
Start(w, n) == SubSeq(w, 1, n)

LEMMA StartFacts ==
    ASSUME NEW w, w \in Word, NEW n, n \in 0..Len(w)
    PROVE  /\ Start(w, n) \in Word /\ Len(Start(w, n)) = n
           /\ \A i \in 1..n : Start(w, n)[i] = w[i]
  BY DEF Start, Word

LEMMA StringsAreWords ==
    ASSUME NEW n, n \in Nat, NEW w, w \in BitString(n)
    PROVE  w \in Word /\ Len(w) = n
  BY DEF BitString, Word

LEMMA NetworksAreWords ==
    ASSUME NEW w, w \in Network
    PROVE  w \in Word /\ Len(w) \in 0..Width
  <1>1. PICK n \in 0..Width : w \in BitString(n)
    BY DEF Network
  <1> QED
    BY <1>1, StringsAreWords, TrieAssumption

LEMMA SameWord ==
    ASSUME NEW u, u \in Word, NEW v, v \in Word, Len(u) = Len(v), \A i \in 1..Len(u) : u[i] = v[i]
    PROVE  u = v
  BY DEF Word

LEMMA AppendFacts ==
    ASSUME NEW w, w \in Word, NEW b, b \in Bit
    PROVE  /\ Append(w, b) \in Word /\ Len(Append(w, b)) = Len(w) + 1
           /\ Append(w, b)[Len(w) + 1] = b
           /\ \A i \in 1..Len(w) : Append(w, b)[i] = w[i]
  BY DEF Word

LEMMA PrefixTransitive ==
    ASSUME NEW u, u \in Word, NEW v, v \in Word, NEW w, w \in Word, IsPrefix(u, v), IsPrefix(v, w)
    PROVE  IsPrefix(u, w)
  <1>1. Len(u) \in Nat /\ Len(v) \in Nat /\ Len(w) \in Nat
    BY DEF Word
  <1> QED
    BY <1>1 DEF IsPrefix

(* Of two words that begin a third, the shorter begins the longer.          *)
LEMMA PrefixesNest ==
    ASSUME NEW u, u \in Word, NEW v, v \in Word, NEW w, w \in Word, IsPrefix(u, w), IsPrefix(v, w),
           Len(u) <= Len(v)
    PROVE  IsPrefix(u, v)
  <1>1. Len(u) \in Nat /\ Len(v) \in Nat /\ Len(w) \in Nat
    BY DEF Word
  <1> QED
    BY <1>1 DEF IsPrefix

LEMMA PrefixSame ==
    ASSUME NEW u, u \in Word, NEW v, v \in Word, IsPrefix(u, v), Len(v) <= Len(u)
    PROVE  u = v
  <1>1. Len(u) \in Nat /\ Len(v) \in Nat
    BY DEF Word
  <1>2. Len(u) = Len(v) /\ \A i \in 1..Len(u) : u[i] = v[i]
    BY <1>1 DEF IsPrefix
  <1> QED
    BY <1>2, SameWord

LEMMA PrefixIsStart ==
    ASSUME NEW u, u \in Word, NEW w, w \in Word, IsPrefix(u, w)
    PROVE  u = Start(w, Len(u)) /\ Len(u) \in 0..Len(w)
  <1>1. Len(u) \in Nat /\ Len(w) \in Nat /\ Len(u) \in 0..Len(w)
    BY DEF Word, IsPrefix
  <1>2. Start(w, Len(u)) \in Word /\ Len(Start(w, Len(u))) = Len(u)
        /\ \A i \in 1..Len(u) : Start(w, Len(u))[i] = w[i]
    BY <1>1, StartFacts
  <1>3. \A i \in 1..Len(u) : u[i] = Start(w, Len(u))[i]
    BY <1>2 DEF IsPrefix
  <1> QED
    BY <1>1, <1>2, <1>3, SameWord

LEMMA StartIsPrefix ==
    ASSUME NEW w, w \in Word, NEW n, n \in 0..Len(w)
    PROVE  IsPrefix(Start(w, n), w)
  <1>1. Len(w) \in Nat
    BY DEF Word
  <1> QED
    BY <1>1, StartFacts DEF IsPrefix

------------------------------------------------------------------------------
(* Nodes.                                                                   *)

LEMMA NodesArePrefixes ==
    ASSUME dict \subseteq Network
    PROVE  /\ Nodes \subseteq Word
           /\ \A q \in Nodes : q = <<>> \/ \E d \in dict : IsPrefix(q, d)
           /\ \A d \in dict, q \in Word : IsPrefix(q, d) => q \in Nodes
  <1>1. ASSUME NEW d \in dict, NEW n \in 0..Len(d)
        PROVE  Start(d, n) \in Word /\ IsPrefix(Start(d, n), d)
    BY NetworksAreWords, StartFacts, StartIsPrefix
  <1>2. Nodes = {<<>>} \cup UNION {{Start(w, n) : n \in 0..Len(w)} : w \in dict}
    BY DEF Nodes, Start
  <1>3. <<>> \in Word
    BY DEF Word
  <1>4. Nodes \subseteq Word /\ \A q \in Nodes : q = <<>> \/ \E d \in dict : IsPrefix(q, d)
    BY <1>1, <1>2, <1>3
  <1>5. ASSUME NEW d \in dict, NEW q \in Word, IsPrefix(q, d) PROVE q \in Nodes
    <2>1. q = Start(d, Len(q)) /\ Len(q) \in 0..Len(d)
      BY <1>5, NetworksAreWords, PrefixIsStart
    <2> QED
      BY <1>2, <2>1
  <1> QED
    BY <1>4, <1>5

(* Two children make a fork.                                                *)
LEMMA TwoChildren ==
    ASSUME NEW p, NEW a, NEW b, a \in Child(p), b \in Child(p), a # b
    PROVE  Fork(p)
  <1>1. {a, b} = Child(p) /\ a \in Bit /\ b \in Bit
    BY DEF Child, Bit
  <1>2. IsFiniteSet({}) /\ Cardinality({}) = 0
    BY FS_EmptySet
  <1>3. IsFiniteSet({a}) /\ Cardinality({a}) = 1
    <2>1. {a} = {} \cup {a}
      OBVIOUS
    <2> QED
      BY <1>2, <2>1, FS_AddElement
  <1>4. Cardinality({a, b}) = 2
    <2>1. {a, b} = {a} \cup {b} /\ b \notin {a}
      OBVIOUS
    <2>2. Cardinality({a} \cup {b}) = Cardinality({a}) + 1
      BY <1>3, <2>1, FS_AddElement
    <2> QED
      BY <1>3, <2>1, <2>2
  <1> QED
    BY <1>1, <1>4 DEF Fork

(* An edge leads to the first node where something happens: no network      *)
(* leaves the way before it.                                                *)
LEMMA JumpFacts ==
    ASSUME dict \subseteq Network, NEW p, p \in Nodes, NEW b, b \in Child(p)
    PROVE  /\ Jump(p, b) \in Nodes /\ IsPrefix(Append(p, b), Jump(p, b)) /\ Fork(Jump(p, b))
           /\ \A d \in dict : IsPrefix(Append(p, b), d) => IsPrefix(Jump(p, b), d)
  <1> DEFINE a == Append(p, b)
             q == Jump(p, b)
             L == {Len(r) : r \in Below(p, b)}
  <1>1. /\ Nodes \subseteq Word
        /\ \A r \in Nodes : r = <<>> \/ \E d \in dict : IsPrefix(r, d)
        /\ \A d \in dict, r \in Word : IsPrefix(r, d) => r \in Nodes
    BY NodesArePrefixes
  <1>2. p \in Word /\ b \in Bit /\ a \in Nodes /\ a \in Word /\ Len(a) = Len(p) + 1
    BY <1>1, AppendFacts DEF Child
  <1>3. a # <<>> /\ Len(a) \in Nat \ {0}
    BY <1>2 DEF Word
  <1> HIDE DEF a
  <1>4. \A d \in dict : IsPrefix(a, d) => d \in Below(p, b) /\ d \in Word
    <2> SUFFICES ASSUME NEW d \in dict, IsPrefix(a, d) PROVE d \in Below(p, b) /\ d \in Word
      OBVIOUS
    <2>1. d \in Word /\ IsPrefix(d, d)
      BY NetworksAreWords DEF IsPrefix, Word
    <2>2. d # <<>>
      BY <1>3, <2>1 DEF IsPrefix, Word
    <2> QED
      BY <1>1, <2>1, <2>2 DEF Below, Fork, IsEnd, a
  <1>5. \E r \in Below(p, b) : TRUE
    BY <1>1, <1>2, <1>3, <1>4
  <1>6. L \subseteq Nat /\ L # {}
    <2>1. \A r \in Below(p, b) : Len(r) \in Nat
      <3>1. \A r \in Word : Len(r) \in Nat
        BY DEF Word
      <3> QED
        BY <1>1, <3>1 DEF Below
    <2> QED
      BY <1>5, <2>1
  <1>7. PICK n \in L : \A m \in L : n <= m
    BY <1>6, LeastOfNat
  <1>8. PICK r \in Below(p, b) : Len(r) = n
    BY <1>7
  <1>9. q \in Below(p, b) /\ \A o \in Below(p, b) : Len(q) <= Len(o)
    BY <1>7, <1>8 DEF Jump
  <1>10. q \in Nodes /\ IsPrefix(a, q) /\ Fork(q) /\ q \in Word
    BY <1>1, <1>9 DEF Below, a
  <1> HIDE DEF q
  <1>11. ASSUME NEW d \in dict, IsPrefix(a, d), ~IsPrefix(q, d) PROVE FALSE
    <2>1. d \in Below(p, b) /\ d \in Word
      BY <1>4, <1>11
    <2>2. Len(q) \in Nat /\ Len(d) \in Nat /\ Len(a) \in Nat /\ Len(q) <= Len(d) /\ Len(a) <= Len(q)
      BY <1>9, <1>10, <2>1 DEF Word, IsPrefix
    <2> DEFINE Differ == {i \in 1..Len(q) : q[i] # d[i]}
    <2>3. \E i \in Differ : TRUE
      BY <1>11, <2>2 DEF IsPrefix
    <2>4. PICK i \in Differ : \A j \in Differ : i <= j
      BY <2>2, <2>3, LeastOfNat, Differ \subseteq Nat
    <2>5. i > Len(a)
      BY <1>10, <1>11, <2>2, <2>4 DEF IsPrefix
    <2>6. i - 1 \in 0..Len(q) /\ i - 1 \in 0..Len(d) /\ i \in 1..Len(q) /\ i \in 1..Len(d) /\ i - 1 >= Len(a)
      BY <2>2, <2>4, <2>5
    <2> DEFINE o == Start(q, i - 1)
    <2>7. o \in Word /\ Len(o) = i - 1 /\ \A j \in 1 .. i - 1 : o[j] = q[j] /\ o[j] = d[j]
      <3>1. o \in Word /\ Len(o) = i - 1 /\ \A j \in 1 .. i - 1 : o[j] = q[j]
        BY <1>10, <2>6, StartFacts
      <3>2. \A j \in 1 .. i - 1 : q[j] = d[j]
        BY <2>2, <2>4, <2>6
      <3> QED
        BY <3>1, <3>2
    <2> HIDE DEF o
    <2>8. IsPrefix(o, d) /\ IsPrefix(a, o)
      BY <1>11, <2>2, <2>6, <2>7 DEF IsPrefix
    <2>9. q[i] \in Bit /\ d[i] \in Bit /\ q[i] # d[i]
      BY <1>10, <2>1, <2>4, <2>6 DEF Word
    <2>10. d[i] \in Child(o)
      <3>1. /\ Append(o, d[i]) \in Word /\ Len(Append(o, d[i])) = i
            /\ Append(o, d[i])[i] = d[i] /\ \A j \in 1 .. i - 1 : Append(o, d[i])[j] = o[j]
        BY <2>6, <2>7, <2>9, AppendFacts
      <3>2. IsPrefix(Append(o, d[i]), d)
        BY <2>6, <2>7, <3>1 DEF IsPrefix
      <3> QED
        BY <1>1, <2>9, <3>1, <3>2 DEF Child
    <2>11. q[i] \in Child(o)
      <3>1. /\ Append(o, q[i]) \in Word /\ Len(Append(o, q[i])) = i
            /\ Append(o, q[i])[i] = q[i] /\ \A j \in 1 .. i - 1 : Append(o, q[i])[j] = o[j]
        BY <2>6, <2>7, <2>9, AppendFacts
      <3>2. IsPrefix(Append(o, q[i]), q)
        BY <2>6, <2>7, <3>1 DEF IsPrefix
      <3>3. PICK f \in dict : IsPrefix(q, f)
        BY <1>1, <1>10, <2>6 DEF Word
      <3>4. IsPrefix(Append(o, q[i]), f)
        BY <1>10, <3>1, <3>2, <3>3, NetworksAreWords, PrefixTransitive
      <3> QED
        BY <1>1, <2>9, <3>1, <3>4 DEF Child
    <2>12. o \in Below(p, b)
      BY <1>1, <2>7, <2>8, <2>9, <2>10, <2>11, TwoChildren DEF Below, a
    <2> QED
      BY <1>9, <2>2, <2>6, <2>7, <2>12
  <1> QED
    BY <1>10, <1>11 DEF a, q
------------------------------------------------------------------------------
(* The invariant: what has been read is the way to the node, and the last   *)
(* network met on it is the longest that begins what has been read.         *)

Covers(w) == \A d \in dict : IsPrefix(d, w) => Len(d) <= Len(prefix)

Built == [p \in {q \in Nodes : q = <<>> \/ Fork(q)} |-> [b \in Child(p) |-> Jump(p, b)]]

TrieTypeOK ==
    /\ dict \subseteq Network /\ str \in BitString(Width) /\ pos \in 0..Width
    /\ builder \in Word /\ at \in Nodes /\ prefix \in Word
    /\ match \in {"new", "matching", "done"}

TrieInv ==
    /\ TrieTypeOK
    /\ builder = Start(str, pos) /\ at = builder
    /\ IsPrefix(prefix, str) /\ prefix \in dict \cup {<<>>} /\ Covers(builder)
    /\ match = "new" => at = <<>>
    /\ match # "new" => edges = Built /\ at \in DOMAIN edges
    /\ match = "done" => Covers(str)

(* What can be said wherever the walk is.                                   *)
LEMMA Walk ==
    ASSUME TrieInv
    PROVE  /\ str \in Word /\ Len(str) = Width /\ Width \in Nat
           /\ builder \in Word /\ Len(builder) = pos /\ IsPrefix(builder, str) /\ at = builder
           /\ \A d \in dict : d \in Word /\ Len(d) \in Nat
           /\ \A d \in dict : IsPrefix(d, str) /\ Len(d) <= pos => Len(d) <= Len(prefix)
  <1>1. str \in Word /\ Len(str) = Width /\ Width \in Nat /\ pos \in 0..Width
    BY StringsAreWords, TrieAssumption DEF TrieInv, TrieTypeOK
  <1>2. builder \in Word /\ Len(builder) = pos /\ IsPrefix(builder, str) /\ at = builder
    BY <1>1, StartFacts, StartIsPrefix DEF TrieInv
  <1>3. \A d \in dict : d \in Word /\ Len(d) \in Nat
    BY NetworksAreWords DEF TrieInv, TrieTypeOK
  <1>4. ASSUME NEW d \in dict, IsPrefix(d, str), Len(d) <= pos PROVE Len(d) <= Len(prefix)
    <2>1. IsPrefix(d, builder)
      BY <1>1, <1>2, <1>3, <1>4, PrefixesNest
    <2> QED
      BY <2>1 DEF TrieInv, Covers
  <1> QED
    BY <1>1, <1>2, <1>3, <1>4

(* A network that goes on beyond what was read goes through the child for   *)
(* the next bit.                                                            *)
LEMMA Beyond ==
    ASSUME TrieInv, NEW d \in dict, NEW w, w \in Word, IsPrefix(builder, w), IsPrefix(d, w), Len(d) > pos
    PROVE  pos + 1 \in 1..Len(w) /\ IsPrefix(Append(at, w[pos + 1]), d) /\ w[pos + 1] \in Child(at)
  <1>1. /\ builder \in Word /\ Len(builder) = pos /\ at = builder /\ pos \in Nat
        /\ d \in Word /\ Len(d) \in Nat /\ Len(w) \in Nat
    BY Walk DEF TrieInv, TrieTypeOK, Word
  <1>2. pos + 1 \in 1..Len(w) /\ pos + 1 \in 1..Len(d) /\ w[pos + 1] = d[pos + 1] /\ w[pos + 1] \in Bit
    BY <1>1 DEF IsPrefix, Word
  <1> DEFINE a == Append(at, w[pos + 1])
  <1>3. /\ a \in Word /\ Len(a) = pos + 1 /\ a[pos + 1] = w[pos + 1]
        /\ \A i \in 1..pos : a[i] = builder[i]
    BY <1>1, <1>2, AppendFacts
  <1> HIDE DEF a
  <1>4. IsPrefix(a, d)
    <2>1. ASSUME NEW i \in 1 .. pos + 1 PROVE a[i] = d[i]
      <3>1. CASE i = pos + 1
        BY <1>2, <1>3, <3>1
      <3>2. CASE i # pos + 1
        <4>1. i \in 1..pos /\ i \in 1..Len(d) /\ i \in 1..Len(builder)
          BY <1>1, <1>2, <3>2
        <4> QED
          BY <1>3, <4>1 DEF IsPrefix
      <3> QED
        BY <3>1, <3>2
    <2> QED
      BY <1>1, <1>2, <1>3, <2>1 DEF IsPrefix
  <1>5. a \in Nodes
    BY <1>3, <1>4, NodesArePrefixes DEF TrieInv, TrieTypeOK
  <1> QED
    BY <1>2, <1>4, <1>5 DEF Child, a

LEMMA BuiltFacts ==
    ASSUME TrieInv, match # "new"
    PROVE  /\ at \in Nodes /\ DOMAIN edges[at] = Child(at)
           /\ \A b \in Child(at) : edges[at][b] = Jump(at, b)
           /\ \A q \in Nodes : Fork(q) => q \in DOMAIN edges
  BY DEF TrieInv, TrieTypeOK, Built

(* Where the walk ends nothing longer can match.                            *)
LEMMA EndCovers ==
    ASSUME TrieInv, match # "new", Ended
    PROVE  Covers(str)
  <1> SUFFICES ASSUME NEW d \in dict, IsPrefix(d, str) PROVE Len(d) <= Len(prefix)
    BY DEF Covers
  <1>1. /\ str \in Word /\ Len(str) = Width /\ Width \in Nat /\ IsPrefix(builder, str)
        /\ Len(d) \in Nat /\ pos \in Nat
        /\ Len(d) <= pos => Len(d) <= Len(prefix)
    BY Walk DEF TrieInv, TrieTypeOK
  <1>2. CASE Len(d) > pos
    <2>1. pos + 1 \in 1..Len(str) /\ str[pos + 1] \in Child(at)
      BY <1>1, <1>2, Beyond
    <2>2. str[pos + 1] \in DOMAIN edges[at]
      BY <2>1, BuiltFacts
    <2> QED
      BY <1>1, <2>1, <2>2 DEF Ended
  <1> QED
    BY <1>1, <1>2

(* An edge matches exactly if the address goes its way.                     *)
LEMMA MatchesMeans ==
    ASSUME TrieInv, NEW q, q \in Word, IsPrefix(at, q)
    PROVE  Matches(q) <=> IsPrefix(q, str)
  <1>1. /\ str \in Word /\ Len(str) = Width /\ Width \in Nat /\ pos \in 0..Width
        /\ builder \in Word /\ Len(builder) = pos /\ IsPrefix(builder, str) /\ at = builder
    BY Walk DEF TrieInv, TrieTypeOK
  <1>2. Len(q) \in Nat /\ pos <= Len(q)
    BY <1>1 DEF Word, IsPrefix
  <1> DEFINE l == Label(q)
             r == Rest
  <1>3. l \in Word /\ Len(l) = Len(q) - pos /\ \A i \in 1 .. Len(q) - pos : l[i] = q[pos + i]
    BY <1>1, <1>2 DEF Label, Word
  <1>4. r \in Word /\ Len(r) = Width - pos /\ \A i \in 1 .. Width - pos : r[i] = str[pos + i]
    BY <1>1 DEF Rest, Word
  <1>5. Matches(q) <=> IsPrefix(l, r)
    BY DEF Matches
  <1> HIDE DEF l, r
  <1>6. ASSUME IsPrefix(q, str) PROVE IsPrefix(l, r)
    <2>1. Len(q) <= Width
      BY <1>1, <1>6 DEF IsPrefix
    <2>2. ASSUME NEW i \in 1..Len(l) PROVE l[i] = r[i]
      <3>1. i \in 1 .. Len(q) - pos /\ i \in 1 .. Width - pos /\ pos + i \in 1..Len(q)
        BY <1>1, <1>2, <1>3, <2>1
      <3>2. q[pos + i] = str[pos + i]
        BY <1>6, <3>1 DEF IsPrefix
      <3> QED
        BY <1>3, <1>4, <3>1, <3>2
    <2> QED
      BY <1>1, <1>2, <1>3, <1>4, <2>1, <2>2 DEF IsPrefix
  <1>7. ASSUME IsPrefix(l, r) PROVE IsPrefix(q, str)
    <2>1. Len(q) <= Width
      BY <1>1, <1>2, <1>3, <1>4, <1>7 DEF IsPrefix
    <2>2. ASSUME NEW i \in 1..Len(q) PROVE q[i] = str[i]
      <3>1. CASE i <= pos
        <4>1. i \in 1..pos
          BY <1>1, <3>1
        <4> QED
          BY <1>1, <4>1 DEF IsPrefix
      <3>2. CASE i > pos
        <4>1. i - pos \in 1..Len(l) /\ i - pos \in 1 .. Len(q) - pos /\ i - pos \in 1 .. Width - pos
              /\ pos + (i - pos) = i
          BY <1>1, <1>2, <1>3, <2>1, <3>2
        <4>2. l[i - pos] = r[i - pos]
          BY <1>7, <4>1 DEF IsPrefix
        <4> QED
          BY <1>3, <1>4, <4>1, <4>2
      <3> QED
        BY <1>1, <3>1, <3>2
    <2> QED
      BY <1>1, <2>1, <2>2 DEF IsPrefix
  <1> QED
    BY <1>5, <1>6, <1>7

(* What was matched and the string of an edge make the word of its node.    *)
LEMMA LabelCompletes ==
    ASSUME TrieInv, NEW q, q \in Word, IsPrefix(at, q)
    PROVE  builder \o Label(q) = q /\ pos + Len(Label(q)) = Len(q)
  <1>1. builder \in Word /\ Len(builder) = pos /\ at = builder /\ pos \in Nat
    BY Walk DEF TrieInv, TrieTypeOK
  <1>2. Len(q) \in Nat /\ pos <= Len(q)
    BY <1>1 DEF Word, IsPrefix
  <1> DEFINE l == Label(q)
  <1>3. l \in Word /\ Len(l) = Len(q) - pos /\ \A i \in 1 .. Len(q) - pos : l[i] = q[pos + i]
    BY <1>1, <1>2 DEF Label, Word
  <1> HIDE DEF l
  <1> DEFINE u == builder \o l
  <1>4. u \in Word /\ Len(u) = Len(q)
    <2>1. u \in Word /\ Len(u) = Len(builder) + Len(l)
      BY <1>1, <1>3 DEF Word
    <2> HIDE DEF u
    <2> QED
      BY <1>1, <1>2, <1>3, <2>1
  <1>5. ASSUME NEW i \in 1..Len(q) PROVE u[i] = q[i]
    <2>1. CASE i <= pos
      <3>1. i \in 1..Len(builder)
        BY <1>1, <2>1
      <3>2. u[i] = builder[i]
        BY <1>1, <1>2, <1>3, <3>1 DEF Word
      <3> QED
        BY <1>1, <3>1, <3>2 DEF IsPrefix
    <2>2. CASE i > pos
      <3>1. PICK k \in 1 .. Len(q) - pos : k = i - pos /\ pos + k = i
        BY <1>1, <1>2, <2>2
      <3>2. u[i] = l[k]
        BY <1>1, <1>2, <1>3, <2>2, <3>1 DEF Word
      <3> QED
        BY <1>3, <3>1, <3>2
    <2> HIDE DEF u
    <2> QED
      BY <1>1, <1>2, <2>1, <2>2
  <1> HIDE DEF u
  <1>6. u = q
    BY <1>4, <1>5, SameWord
  <1> QED
    BY <1>1, <1>2, <1>3, <1>6 DEF u, l
------------------------------------------------------------------------------
(* The steps.                                                               *)

LEMMA NewKeeps ==
    ASSUME TrieInv, TrieNew
    PROVE  TrieInv'
  <1>1. /\ match = "new" /\ edges' = Built /\ match' = "matching"
        /\ dict' = dict /\ str' = str /\ pos' = pos /\ builder' = builder /\ at' = at /\ prefix' = prefix
    BY DEF TrieNew, Built
  <1>2. Nodes' = Nodes /\ Built' = Built
    BY <1>1 DEF Nodes, Built, Fork, IsEnd, Child, Jump, Below
  <1>3. Covers(builder)' /\ <<>> \in DOMAIN Built
    <2>1. Covers(builder)'
      BY <1>1 DEF TrieInv, Covers
    <2>2. <<>> \in Nodes
      BY DEF Nodes
    <2> QED
      BY <2>1, <2>2 DEF Built
  <1>4. TrieTypeOK'
    BY <1>1, <1>2 DEF TrieInv, TrieTypeOK
  <1> HIDE DEF Built
  <1> QED
    BY <1>1, <1>2, <1>3, <1>4 DEF TrieInv

LEMMA Keeps ==
    ASSUME dict' = dict
    PROVE  Nodes' = Nodes /\ Built' = Built
  BY DEF Nodes, Built, Fork, IsEnd, Child, Jump, Below

LEMMA StopKeeps ==
    ASSUME TrieInv, match # "new", Covers(str), Stop
    PROVE  TrieInv'
  <1>1. /\ match' = "done" /\ dict' = dict /\ edges' = edges /\ str' = str /\ pos' = pos
        /\ builder' = builder /\ at' = at /\ prefix' = prefix
    BY DEF Stop
  <1>2. Nodes' = Nodes /\ Built' = Built
    BY <1>1, Keeps
  <1>3. Covers(str)' /\ Covers(builder)'
    BY <1>1 DEF TrieInv, Covers
  <1>4. TrieTypeOK'
    BY <1>1, <1>2 DEF TrieInv, TrieTypeOK
  <1> QED
    BY <1>1, <1>2, <1>3, <1>4 DEF TrieInv

(* The node that the edge leads to, when there is one.                      *)
LEMMA EdgeFacts ==
    ASSUME TrieInv, match # "new", ~Ended, NEW q, q = edges[at][str[pos + 1]]
    PROVE  /\ q \in Nodes /\ q \in Word /\ IsPrefix(at, q) /\ Fork(q) /\ Len(q) \in Nat /\ Len(q) > pos
           /\ \A d \in dict, w \in Word :
                  IsPrefix(q, w) \/ w = str =>
                  (IsPrefix(d, w) /\ Len(d) > pos => IsPrefix(q, d))
  <1> DEFINE b == str[pos + 1]
             a == Append(at, b)
  <1>1. /\ str \in Word /\ Len(str) = Width /\ Width \in Nat /\ pos \in 0..Width
        /\ builder \in Word /\ Len(builder) = pos /\ IsPrefix(builder, str) /\ at = builder
        /\ dict \subseteq Network
    BY Walk DEF TrieInv, TrieTypeOK
  <1>2. pos # Width /\ b \in Child(at) /\ q = Jump(at, b) /\ at \in Nodes
    BY BuiltFacts DEF Ended
  <1>3. /\ q \in Nodes /\ IsPrefix(a, q) /\ Fork(q)
        /\ \A d \in dict : IsPrefix(a, d) => IsPrefix(q, d)
    BY <1>1, <1>2, JumpFacts
  <1>4. Nodes \subseteq Word
    BY <1>1, NodesArePrefixes
  <1>5. b \in Bit
    BY <1>2 DEF Child
  <1> HIDE DEF b
  <1>6. /\ a \in Word /\ Len(a) = pos + 1 /\ a[pos + 1] = b
        /\ \A i \in 1..pos : a[i] = at[i]
    BY <1>1, <1>5, AppendFacts
  <1> HIDE DEF a
  <1>7. IsPrefix(at, a) /\ q \in Word
    BY <1>1, <1>3, <1>4, <1>6 DEF IsPrefix
  <1>8. IsPrefix(at, q)
    BY <1>1, <1>3, <1>6, <1>7, PrefixTransitive
  <1>9. Len(q) \in Nat /\ Len(q) > pos /\ pos + 1 \in 1..Len(q) /\ q[pos + 1] = b
    <2>1. Len(q) \in Nat /\ pos + 1 <= Len(q)
      BY <1>3, <1>6, <1>7 DEF IsPrefix, Word
    <2>2. pos + 1 \in 1..Len(a)
      BY <1>1, <1>6
    <2> QED
      BY <1>1, <1>3, <1>6, <2>1, <2>2 DEF IsPrefix
  <1>10. ASSUME NEW d \in dict, NEW w \in Word, IsPrefix(q, w) \/ w = str, IsPrefix(d, w), Len(d) > pos
         PROVE  IsPrefix(q, d)
    <2>1. IsPrefix(builder, w) /\ w[pos + 1] = b
      <3>1. CASE IsPrefix(q, w)
        <4>1. IsPrefix(builder, w)
          BY <1>1, <1>7, <1>8, <3>1, PrefixTransitive
        <4> QED
          BY <1>9, <3>1, <4>1 DEF IsPrefix
      <3>2. CASE w = str
        BY <1>1, <3>2 DEF b
      <3> QED
        BY <1>10, <3>1, <3>2
    <2>2. IsPrefix(Append(at, w[pos + 1]), d)
      BY <1>10, <2>1, Beyond
    <2> QED
      BY <1>3, <2>1, <2>2 DEF a
  <1> QED
    BY <1>3, <1>7, <1>8, <1>9, <1>10

(* A mismatch ends the walk, and no network went on from here.              *)
LEMMA MismatchCovers ==
    ASSUME TrieInv, match # "new", ~Ended, NEW q, q = edges[at][str[pos + 1]], ~Matches(q)
    PROVE  Covers(str)
  <1> SUFFICES ASSUME NEW d \in dict, IsPrefix(d, str) PROVE Len(d) <= Len(prefix)
    BY DEF Covers
  <1>1. /\ str \in Word /\ pos \in Nat /\ d \in Word /\ Len(d) \in Nat
        /\ Len(d) <= pos => Len(d) <= Len(prefix)
    BY Walk DEF TrieInv, TrieTypeOK
  <1>2. /\ q \in Word /\ IsPrefix(at, q)
        /\ Len(d) > pos => IsPrefix(q, d)
    BY <1>1, EdgeFacts
  <1>3. ~IsPrefix(q, str)
    BY <1>2, MatchesMeans
  <1>4. ~(Len(d) > pos)
    BY <1>1, <1>2, <1>3, PrefixTransitive
  <1> QED
    BY <1>1, <1>4

LEMMA AdvanceKeeps ==
    ASSUME TrieInv, match # "new", ~Ended, NEW q, q = edges[at][str[pos + 1]], Advance(q)
    PROVE  TrieInv'
  <1>1. /\ dict \subseteq Network /\ str \in BitString(Width) /\ str \in Word /\ Len(str) = Width
        /\ Width \in Nat /\ pos \in Nat /\ prefix \in Word /\ prefix \in dict \cup {<<>>}
        /\ IsPrefix(prefix, str) /\ edges = Built
        /\ \A d \in dict : d \in Word /\ Len(d) \in Nat
        /\ \A d \in dict : IsPrefix(d, str) /\ Len(d) <= pos => Len(d) <= Len(prefix)
    BY Walk DEF TrieInv, TrieTypeOK
  <1>2. /\ q \in Nodes /\ q \in Word /\ IsPrefix(at, q) /\ Fork(q) /\ Len(q) \in Nat /\ Len(q) > pos
        /\ \A d \in dict : IsPrefix(d, q) /\ Len(d) > pos => IsPrefix(q, d)
    <2>1. q \in Word => IsPrefix(q, q)
      BY DEF IsPrefix, Word
    <2> QED
      BY <2>1, EdgeFacts
  <1>3. IsPrefix(q, str) /\ builder \o Label(q) = q /\ pos + Len(Label(q)) = Len(q)
    BY <1>2, MatchesMeans, LabelCompletes DEF Advance
  <1>4. /\ pos' = Len(q) /\ builder' = q /\ at' = q
        /\ prefix' = IF IsEnd(q) THEN q ELSE prefix
        /\ match' = IF IsEnd(q) /\ Len(q) = Width THEN "done" ELSE "matching"
        /\ dict' = dict /\ edges' = edges /\ str' = str
    BY <1>3 DEF Advance
  <1>5. Nodes' = Nodes /\ Built' = Built
    BY <1>4, Keeps
  <1>6. q = Start(str, Len(q)) /\ Len(q) \in 0..Width
    BY <1>1, <1>2, <1>3, PrefixIsStart
  <1>7. TrieTypeOK'
    BY <1>1, <1>2, <1>4, <1>5, <1>6 DEF TrieTypeOK
  <1>8. IsPrefix(prefix', str) /\ prefix' \in dict \cup {<<>>}
    BY <1>1, <1>3, <1>4 DEF IsEnd
  <1>9. ASSUME NEW d \in dict, IsPrefix(d, q) PROVE Len(d) <= Len(prefix')
    <2>1. CASE IsEnd(q)
      BY <1>4, <1>9, <2>1 DEF IsPrefix
    <2>2. CASE ~IsEnd(q) /\ Len(d) <= pos
      <3>1. IsPrefix(d, str)
        BY <1>1, <1>2, <1>3, <1>9, PrefixTransitive
      <3> QED
        BY <1>1, <1>4, <2>2, <3>1
    <2>3. CASE ~IsEnd(q) /\ Len(d) > pos
      <3>1. IsPrefix(q, d) /\ Len(d) <= Len(q)
        BY <1>2, <1>9, <2>3 DEF IsPrefix
      <3>2. q = d
        BY <1>1, <1>2, <3>1, PrefixSame
      <3>3. q # <<>>
        BY <1>1, <1>2
      <3> QED
        BY <2>3, <3>2, <3>3 DEF IsEnd
    <2> QED
      BY <1>1, <2>1, <2>2, <2>3
  <1>10. match' = "done" => \A d \in dict : IsPrefix(d, str) => Len(d) <= Len(prefix')
    BY <1>1, <1>4 DEF IsPrefix
  <1>11. Covers(builder)' /\ (match' = "done" => Covers(str)')
    BY <1>4, <1>9, <1>10 DEF Covers
  <1>12. q \in DOMAIN edges
    BY <1>2, BuiltFacts
  <1> QED
    BY <1>1, <1>4, <1>5, <1>6, <1>7, <1>8, <1>11, <1>12 DEF TrieInv

LEMMA TrieNextKeeps ==
    ASSUME TrieInv, [TrieNext]_trieVars
    PROVE  TrieInv'
  <1>1. CASE TrieNew
    BY <1>1, NewKeeps
  <1>2. CASE MatchRune
    <2>1. CASE Ended /\ Stop
      BY <1>2, <2>1, EndCovers, StopKeeps DEF MatchRune
    <2>2. CASE ~Ended
      <3> DEFINE q == edges[at][str[pos + 1]]
      <3>1. match # "new" /\ (Advance(q) \/ (~Matches(q) /\ Stop))
        BY <1>2, <2>2 DEF MatchRune
      <3> HIDE DEF q
      <3>2. CASE Advance(q)
        BY <2>2, <3>1, <3>2, AdvanceKeeps DEF q
      <3>3. CASE ~Matches(q) /\ Stop
        BY <2>2, <3>1, <3>3, MismatchCovers, StopKeeps DEF q
      <3> QED
        BY <3>1, <3>2, <3>3
    <2> QED
      BY <1>2, <2>1, <2>2 DEF MatchRune
  <1>3. CASE UNCHANGED trieVars
    <2>1. /\ dict' = dict /\ edges' = edges /\ str' = str /\ pos' = pos /\ builder' = builder
          /\ at' = at /\ prefix' = prefix /\ match' = match
      BY <1>3 DEF trieVars
    <2>2. Nodes' = Nodes /\ Built' = Built
      BY <2>1, Keeps
    <2> QED
      BY <2>1, <2>2 DEF TrieInv, TrieTypeOK, Covers
  <1> QED
    BY <1>1, <1>2, <1>3 DEF TrieNext

LEMMA TrieInitHolds ==
    ASSUME TrieInit
    PROVE  TrieInv
  <1>1. dict \subseteq Network
    <2>1. dict = {} \/ \E of \in [1..MaxDict -> Network] : dict = {of[i] : i \in 1..MaxDict}
      BY DEF TrieInit
    <2>2. ASSUME NEW of, of \in [1..MaxDict -> Network], dict = {of[i] : i \in 1..MaxDict}
          PROVE  dict \subseteq Network
      BY <2>2
    <2> QED
      BY <2>1, <2>2
  <1>2. /\ str \in BitString(Width) /\ str \in Word /\ Len(str) = Width /\ Width \in Nat
        /\ pos = 0 /\ builder = <<>> /\ at = <<>> /\ prefix = <<>> /\ match = "new"
    BY StringsAreWords, TrieAssumption DEF TrieInit
  <1>3. <<>> \in Word /\ Len(<<>>) = 0 /\ <<>> \in Nodes /\ IsPrefix(<<>>, str)
    BY <1>2 DEF Word, Nodes, IsPrefix
  <1>4. Start(str, 0) = <<>>
    BY <1>2 DEF Start, Word
  <1>5. Covers(<<>>)
    BY <1>2 DEF Covers, IsPrefix
  <1> QED
    BY <1>1, <1>2, <1>3, <1>4, <1>5 DEF TrieInv, TrieTypeOK

LEMMA TrieInvariant == TrieSpec => []TrieInv
  <1>1. TrieInit => TrieInv
    BY TrieInitHolds
  <1>2. TrieInv /\ [TrieNext]_trieVars => TrieInv'
    BY TrieNextKeeps
  <1> QED
    BY <1>1, <1>2, PTL DEF TrieSpec

(* Whatever networks the interfaces have and wherever the compressed trie   *)
(* branches, the match of an address that NewIPMTUTrieFromInterfaces and    *)
(* Match arrive at is the longest network that contains it.                 *)
THEOREM MatchLongest == TrieSpec => []MatchIsLongest
  <1>1. TrieInv => MatchIsLongest
    <2> SUFFICES ASSUME TrieInv, match = "done" PROVE MatchIsLongest
      BY DEF MatchIsLongest
    <2>1. /\ str \in Word /\ prefix \in Word /\ IsPrefix(prefix, str) /\ prefix \in dict \cup {<<>>}
          /\ \A d \in dict : d \in Word /\ Len(d) \in Nat
          /\ \A d \in dict : IsPrefix(d, str) => Len(d) <= Len(prefix)
      BY Walk DEF TrieInv, TrieTypeOK, Covers
    <2>2. ASSUME NEW d \in dict, d = prefix
          PROVE  d \in Containing /\ \A e \in Containing : Len(e) <= Len(d)
      BY <2>1, <2>2 DEF Containing
    <2>3. ASSUME NEW d \in Containing, \A e \in Containing : Len(e) <= Len(d)
          PROVE  d = prefix
      <3>1. d \in Word /\ IsPrefix(d, str) /\ Len(d) <= Len(prefix) /\ Len(d) \in Nat
        BY <2>1 DEF Containing
      <3>2. Len(prefix) <= Len(d)
        <4>1. CASE prefix \in dict
          BY <2>1, <2>3, <4>1 DEF Containing
        <4>2. CASE prefix = <<>>
          BY <3>1, <4>2
        <4> QED
          BY <2>1, <4>1, <4>2
      <3>3. IsPrefix(d, prefix)
        BY <2>1, <3>1, PrefixesNest
      <3> QED
        BY <2>1, <3>1, <3>2, <3>3, PrefixSame
    <2> QED
      BY <2>2, <2>3 DEF MatchIsLongest, GetMTU, Containing
  <1> QED
    BY <1>1, TrieInvariant, PTL
================================================================================
