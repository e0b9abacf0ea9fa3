--------------------------- MODULE HashtableProofs ---------------------------
(***************************************************************************)
(* hashtable.c keeps the map that KeyMap describes, for any keys, however  *)
(* they collide, any sizes of the table and any number of pairs.           *)
(***************************************************************************)
EXTENDS Hashtable, FiniteSetTheorems, SequenceTheorems, WellFoundedInduction, TLAPS

Lists == INSTANCE EListProofs WITH Node <- Pair \cup {Anchor}, Nil <- NULL

Cell == Pair \cup {Anchor}

-----------------------------------------------------------------------------
(* The list of pairs. *)

Elements(s) == {s[j] : j \in 1 .. Len(s)}

\* In heap l the list of the table holds the pairs s.
Circle(l, s) == l \in Lists!Heap /\ Lists!Distinct(Anchor, s) /\ Lists!Holds(l, Anchor, s)

\* What comes after and before position i of the list.
Succ(s, i) == IF i = Len(s) THEN Anchor ELSE s[i + 1]
Pred(s, i) == IF i = 1 THEN Anchor ELSE s[i - 1]

LEMMA NoNode == NULL \notin Pair \cup {Anchor} /\ NULL \notin Pair /\ Anchor \notin Pair /\ IsFiniteSet(Pair)
BY PairAssumption

LEMMA CircleIs ==
    ASSUME NEW l, NEW s, Circle(l, s)
    PROVE  /\ Len(s) \in Nat /\ s \in Seq(Pair) /\ DOMAIN s = 1 .. Len(s)
           /\ l.next[Anchor] = Succ(s, 0)
           /\ l.prev[Anchor] = IF Len(s) = 0 THEN Anchor ELSE s[Len(s)]
           /\ \A i \in 1 .. Len(s) : /\ s[i] \in Pair
                                     /\ l.next[s[i]] = Succ(s, i) /\ l.prev[s[i]] = Pred(s, i)
           /\ \A i, j \in 1 .. Len(s) : s[i] = s[j] => i = j
<1> USE NoNode
<1>1. /\ Len(s) \in Nat /\ s \in Seq(Cell)
      /\ Lists!At(Anchor, s, 0) = Anchor
      /\ \A i \in 1 .. Len(s) : Lists!At(Anchor, s, i) = s[i] /\ s[i] \in Cell
      /\ \A i, j \in 0 .. Len(s) : Lists!At(Anchor, s, i) = Lists!At(Anchor, s, j) => i = j
  BY Lists!CircleNodes DEF Circle, Cell
<1>2. \A i \in 0 .. Len(s) - 1 : /\ l.next[Lists!At(Anchor, s, i)] = s[i + 1]
                                /\ l.prev[s[i + 1]] = Lists!At(Anchor, s, i)
  BY DEF Circle, Lists!Holds
<1>3. l.next[Lists!At(Anchor, s, Len(s))] = Anchor /\ l.prev[Anchor] = Lists!At(Anchor, s, Len(s))
  BY DEF Circle, Lists!Holds
<1>4. ASSUME NEW i \in 1 .. Len(s)
      PROVE  s[i] \in Pair /\ l.next[s[i]] = Succ(s, i) /\ l.prev[s[i]] = Pred(s, i)
  <2>1. i \in 0 .. Len(s) /\ 0 \in 0 .. Len(s) /\ i # 0 /\ i \in Nat /\ i <= Len(s)
    BY <1>1
  <2>2. s[i] # Anchor /\ s[i] \in Cell
    BY <1>1, <2>1
  <2>3. l.next[s[i]] = Succ(s, i)
    <3>1. CASE i = Len(s)
      BY <3>1, <1>1, <1>3 DEF Succ
    <3>2. CASE i # Len(s)
      <4>1. i \in 0 .. Len(s) - 1
        BY <3>2, <1>1, <2>1
      <4> QED
        BY <4>1, <3>2, <1>1, <1>2 DEF Succ
    <3> QED
      BY <3>1, <3>2
  <2>4. l.prev[s[i]] = Pred(s, i)
    <3>1. i - 1 \in 0 .. Len(s) - 1 /\ (i - 1) + 1 = i
      BY <1>1, <2>1
    <3>2. l.prev[s[i]] = Lists!At(Anchor, s, i - 1)
      BY <1>2, <3>1
    <3>3. i # 1 => i - 1 \in 1 .. Len(s)
      BY <1>1, <2>1
    <3> QED
      BY <3>2, <3>3, <1>1 DEF Pred
  <2> QED
    BY <2>2, <2>3, <2>4 DEF Cell
<1>5. \A i, j \in 1 .. Len(s) : s[i] = s[j] => i = j
  BY <1>1
<1>6. s \in Seq(Pair) /\ DOMAIN s = 1 .. Len(s)
  BY <1>1, <1>4
<1>7. l.next[Anchor] = Succ(s, 0)
  <2>1. CASE Len(s) = 0
    BY <2>1, <1>1, <1>3 DEF Succ
  <2>2. CASE Len(s) # 0
    <3>1. 0 \in 0 .. Len(s) - 1
      BY <2>2, <1>1
    <3> QED
      BY <3>1, <2>2, <1>1, <1>2 DEF Succ
  <2> QED
    BY <2>1, <2>2
<1>8. l.prev[Anchor] = IF Len(s) = 0 THEN Anchor ELSE s[Len(s)]
  BY <1>1, <1>3
<1> QED
  BY <1>1, <1>4, <1>5, <1>6, <1>7, <1>8

LEMMA NotMorePairs ==
    ASSUME NEW l, NEW s, Circle(l, s)
    PROVE  Len(s) <= Cardinality(Pair) /\ Cardinality(Pair) \in Nat
<1>1. s \in [1 .. Len(s) -> Pair] /\ \A i, j \in 1 .. Len(s) : s[i] = s[j] => i = j
  BY CircleIs
<1>2. IsFiniteSet(1 .. Len(s)) /\ Cardinality(1 .. Len(s)) = Len(s) /\ Len(s) \in Nat
  <2>1. Len(s) \in Nat
    BY CircleIs
  <2>2. IsFiniteSet(1 .. Len(s)) /\ Cardinality(1 .. Len(s)) = IF 1 > Len(s) THEN 0 ELSE Len(s) - 1 + 1
    BY <2>1, FS_Interval
  <2> QED
    BY <2>1, <2>2
<1>3. Cardinality(Pair) \in Nat
  BY NoNode, FS_CardinalityType
<1>4. ~(Cardinality(Pair) < Cardinality(1 .. Len(s)))
  BY <1>1, <1>2, NoNode, FS_PigeonHole
<1> QED
  BY <1>2, <1>3, <1>4

\* From one pair of the list to a later one, Walk meets those between them.
LEMMA WalkIs ==
    ASSUME NEW l, NEW s, Circle(l, s), NEW i \in 1 .. Len(s), NEW j \in 1 .. Len(s), i <= j
    PROVE  Walk(l, s[i], s[j]) = [k \in 1 .. j - i + 1 |-> s[i + k - 1]]
<1> DEFINE C == (Pair \cap Elements(s)) \cup {Anchor}
           F == [x \in Nat \X C |-> l.next[x[2]]]
           step(f) == [n \in Nat |-> IF n = 0 THEN s[i] ELSE l.next[f[n - 1]]]
           at == CHOOSE f : f = step(f)
<1>0. i \in Nat /\ j \in Nat /\ Len(s) \in Nat /\ 1 <= i /\ j <= Len(s)
  BY CircleIs
<1>1. \A x \in C : l.next[x] \in C
  <2>1. ASSUME NEW x \in C PROVE l.next[x] \in C
    <3>1. \A m \in 0 .. Len(s) : Succ(s, m) \in C
      <4>1. \A m \in 0 .. Len(s) : m = Len(s) \/ m + 1 \in 1 .. Len(s)
        BY <1>0
      <4> QED
        BY <4>1, CircleIs DEF Succ, Elements
    <3>2. CASE x = Anchor
      BY <3>1, <3>2, <1>0, CircleIs
    <3>3. CASE x # Anchor
      <4>1. PICK m \in 1 .. Len(s) : x = s[m]
        BY <3>3 DEF Elements
      <4>2. m \in 0 .. Len(s)
        BY <1>0
      <4> QED
        BY <4>1, <4>2, <3>1, CircleIs
    <3> QED
      BY <3>2, <3>3
  <2> QED
    BY <2>1
<1>2. \E f : f = step(f)
  <2>1. F \in [Nat \X C -> C] /\ s[i] \in C
    BY <1>1, CircleIs DEF Elements
  <2>2. PICK g \in [Nat -> C] : g[0] = s[i] /\ \A n \in Nat : g[n + 1] = F[<<n, g[n]>>]
    <3> HIDE DEF C, F
    <3>1. PICK g : Lists!Runs(g, C, s[i], F)
      BY <2>1, NoNode, Lists!Iterates
    <3> QED
      BY <3>1 DEF Lists!Runs
  <2>3. \A n \in Nat : g[n + 1] = l.next[g[n]]
    BY <2>2
  <2>4. ASSUME NEW n \in Nat PROVE g[n] = IF n = 0 THEN s[i] ELSE l.next[g[n - 1]]
    <3>1. n # 0 => n - 1 \in Nat /\ (n - 1) + 1 = n
      OBVIOUS
    <3> QED
      BY <2>2, <2>3, <3>1
  <2>5. g = step(g)
    BY <2>2, <2>4
  <2> QED
    BY <2>5
<1>3. at = step(at)
  BY <1>2
<1> HIDE DEF at, C, F
<1>4. at[0] = s[i] /\ \A n \in Nat : at[n + 1] = l.next[at[n]]
  <2>1. \A n \in Nat : at[n] = IF n = 0 THEN s[i] ELSE l.next[at[n - 1]]
    BY <1>3
  <2> QED
    BY <2>1
<1>5. \A n \in Nat : i + n <= Len(s) => at[n] = s[i + n]
  <2> DEFINE S == {n \in Nat : i + n <= Len(s) => at[n] = s[i + n]}
  <2>1. 0 \in S
    BY <1>0, <1>4
  <2>2. ASSUME NEW n \in Nat, n \in S PROVE n + 1 \in S
    <3> SUFFICES ASSUME i + (n + 1) <= Len(s) PROVE at[n + 1] = s[i + (n + 1)]
      OBVIOUS
    <3>1. at[n] = s[i + n] /\ i + n \in 1 .. Len(s) /\ i + n # Len(s) /\ (i + n) + 1 = i + (n + 1)
      BY <2>2, <1>0
    <3>2. l.next[s[i + n]] = s[(i + n) + 1]
      BY <3>1, CircleIs DEF Succ
    <3> QED
      BY <3>1, <3>2, <1>4
  <2>3. \A n \in Nat : n \in S
    <3> HIDE DEF S
    <3> QED
      BY <2>1, <2>2, NoNode, Lists!Induction
  <2> QED
    BY <2>3
<1> DEFINE stop(n) == at[n] = s[j] /\ \A m \in 0 .. n - 1 : at[m] # s[j]
           steps == CHOOSE n \in 0 .. Cardinality(Pair) : stop(n)
<1>6. \A n \in Nat : i + n <= Len(s) => (at[n] = s[j] <=> n = j - i)
  <2>1. ASSUME NEW n \in Nat, i + n <= Len(s) PROVE at[n] = s[j] <=> n = j - i
    <3>1. i + n \in 1 .. Len(s) /\ (i + n = j <=> n = j - i)
      BY <2>1, <1>0
    <3> QED
      BY <3>1, <2>1, <1>5, CircleIs
  <2> QED
    BY <2>1
<1>7. j - i \in Nat /\ i + (j - i) <= Len(s) /\ j - i \in 0 .. Cardinality(Pair)
  BY <1>0, NotMorePairs
<1>8. stop(j - i)
  <2>1. \A m \in 0 .. (j - i) - 1 : m \in Nat /\ i + m <= Len(s) /\ m # j - i
    BY <1>0
  <2> QED
    BY <2>1, <1>6, <1>7
<1>9. ASSUME NEW n \in 0 .. Cardinality(Pair), stop(n) PROVE n = j - i
  <2>1. n \in Nat
    BY NotMorePairs
  <2>2. ~(j - i < n)
    <3> SUFFICES ASSUME j - i < n PROVE FALSE
      OBVIOUS
    <3>1. j - i \in 0 .. n - 1
      BY <1>7, <2>1
    <3> QED
      BY <3>1, <1>6, <1>7, <1>9
  <2>3. i + n <= Len(s)
    BY <2>1, <2>2, <1>0
  <2> QED
    BY <2>1, <2>3, <1>6, <1>9
<1>10. steps = j - i
  <2> HIDE DEF stop
  <2> QED
    BY <1>7, <1>8, <1>9
<1>11. Walk(l, s[i], s[j]) = [k \in 1 .. steps + 1 |-> at[k - 1]]
  BY DEF Walk, at
<1>12. \A k \in 1 .. j - i + 1 : at[k - 1] = s[i + k - 1]
  <2>1. \A k \in 1 .. j - i + 1 : k - 1 \in Nat /\ i + (k - 1) <= Len(s) /\ i + (k - 1) = i + k - 1
    BY <1>0
  <2> QED
    BY <2>1, <1>5
<1> HIDE DEF steps
<1> QED
  BY <1>10, <1>11, <1>12

-----------------------------------------------------------------------------
(* What elist.h does to that list. *)

LEMMA Initial ==
    ASSUME NEW l \in Lists!Heap
    PROVE  Circle(list_init(l, Anchor), <<>>)
<1>1. list_init(l, Anchor) \in Lists!Heap
  BY DEF list_init, E!INIT_LIST_HEAD, Lists!Heap
<1>2. Lists!Distinct(Anchor, <<>>)
  BY DEF Lists!Distinct, Lists!At
<1>3. Lists!Holds(list_init(l, Anchor), Anchor, <<>>)
  BY DEF list_init, E!INIT_LIST_HEAD, Lists!Heap, Lists!Holds, Lists!At
<1> QED
  BY <1>1, <1>2, <1>3 DEF Circle

LEMMA NoLinksIsHeap == NoLinks \in Lists!Heap
BY DEF NoLinks, Lists!Heap

\* hashtable_set links the new pair to itself first; that touches no other.
LEMMA Initialized ==
    ASSUME NEW l, NEW s, Circle(l, s), NEW p \in Pair, p \notin Elements(s)
    PROVE  Circle(list_init(l, p), s)
<1> DEFINE g == list_init(l, p)
<1> USE NoNode
<1>1. g \in Lists!Heap
  BY DEF Circle, list_init, E!INIT_LIST_HEAD, Lists!Heap
<1>2. \A x \in Cell : x # p => g.next[x] = l.next[x] /\ g.prev[x] = l.prev[x]
  BY DEF Circle, Cell, list_init, E!INIT_LIST_HEAD, Lists!Heap
<1>3. \A i \in 0 .. Len(s) : Lists!At(Anchor, s, i) \in Cell /\ Lists!At(Anchor, s, i) # p
  <2>1. \A i \in 0 .. Len(s) : i = 0 \/ i \in 1 .. Len(s)
    BY CircleIs
  <2> QED
    BY <2>1, CircleIs DEF Lists!At, Cell, Elements
<1>4. \A i \in 0 .. Len(s) - 1 : i \in 0 .. Len(s) /\ i + 1 \in 1 .. Len(s) /\ s[i + 1] \in Cell /\ s[i + 1] # p
  <2>1. \A i \in 0 .. Len(s) - 1 : i \in 0 .. Len(s) /\ i + 1 \in 1 .. Len(s)
    BY CircleIs
  <2> QED
    BY <2>1, CircleIs DEF Elements, Cell
<1>5. Len(s) \in 0 .. Len(s) /\ Anchor # p /\ Anchor \in Cell
  BY CircleIs DEF Cell
<1> HIDE DEF g
<1>6. Lists!Holds(g, Anchor, s)
  BY <1>2, <1>3, <1>4, <1>5 DEF Circle, Lists!Holds
<1> QED
  BY <1>1, <1>6 DEF Circle, g

LEMMA Inserted ==
    ASSUME NEW l, NEW s, Circle(l, s), NEW p \in Pair, p \notin Elements(s), NEW k \in 0 .. Len(s)
    PROVE  Circle(list_insert(l, Succ(s, k), p), Lists!With(s, k, p))
<1> USE NoNode
<1> DEFINE x == Lists!After(Anchor, s, k)
<1>1. x = Succ(s, k)
  BY DEF Lists!After, Succ
<1>2. l.prev[x] = Lists!At(Anchor, s, k)
  BY Lists!Round DEF Circle
<1>3. list_insert(l, x, p) = Lists!list_add_between(l, p, Lists!At(Anchor, s, k), x)
  BY <1>2 DEF list_insert, E!list_add_tail, E!list_add_between, Lists!list_add_between
<1>4. Lists!Outside(p, Anchor, s)
  <2>1. \A i \in 0 .. Len(s) : i = 0 \/ i \in 1 .. Len(s)
    BY CircleIs
  <2> QED
    BY <2>1 DEF Lists!Outside, Lists!At, Elements
<1>5. /\ list_insert(l, x, p) \in Lists!Heap
      /\ Lists!Distinct(Anchor, Lists!With(s, k, p))
      /\ Lists!Holds(list_insert(l, x, p), Anchor, Lists!With(s, k, p))
  <2> HIDE DEF x
  <2>1. l \in Lists!Heap /\ Lists!Distinct(Anchor, s) /\ Lists!Holds(l, Anchor, s)
    BY DEF Circle
  <2> QED
    BY <1>3, <1>4, <2>1, Lists!EntryAdded, SMTT(20) DEF x
<1> QED
  BY <1>1, <1>5 DEF Circle

LEMMA WithIs ==
    ASSUME NEW s \in Seq(Pair), NEW p \in Pair, NEW k \in 0 .. Len(s)
    PROVE  /\ Len(Lists!With(s, k, p)) = Len(s) + 1
           /\ Lists!With(s, k, p)[k + 1] = p
           /\ \A j \in 1 .. k : Lists!With(s, k, p)[j] = s[j]
           /\ \A j \in k + 1 .. Len(s) : Lists!With(s, k, p)[j + 1] = s[j]
           /\ Elements(Lists!With(s, k, p)) = Elements(s) \cup {p}
<1> DEFINE t == Lists!With(s, k, p)
<1>1. Len(s) \in Nat /\ k \in Nat /\ k <= Len(s)
  OBVIOUS
<1>2. t = [i \in 1 .. Len(s) + 1 |-> IF i <= k THEN s[i] ELSE IF i = k + 1 THEN p ELSE s[i - 1]]
  BY DEF Lists!With
<1>3. Len(t) = Len(s) + 1
  <2>1. \A i \in 1 .. Len(s) + 1 : t[i] \in Pair
    BY <1>1, <1>2
  <2> QED
    BY <1>1, <2>1 DEF Lists!With
<1> HIDE DEF t
<1>4. /\ t[k + 1] = p
      /\ \A j \in 1 .. k : t[j] = s[j]
      /\ \A j \in k + 1 .. Len(s) : t[j + 1] = s[j]
  BY <1>1, <1>2
<1>5. Elements(t) = Elements(s) \cup {p}
  <2>1. ASSUME NEW i \in 1 .. Len(s) + 1 PROVE t[i] \in Elements(s) \cup {p}
    <3>1. i \in 1 .. k \/ i = k + 1 \/ i - 1 \in k + 1 .. Len(s)
      BY <1>1
    <3>2. i \in 1 .. k => i \in 1 .. Len(s)
      BY <1>1
    <3>3. i - 1 \in k + 1 .. Len(s) => i - 1 \in 1 .. Len(s) /\ (i - 1) + 1 = i
      BY <1>1
    <3> QED
      BY <3>1, <3>2, <3>3, <1>4 DEF Elements
  <2>2. ASSUME NEW i \in 1 .. Len(s) PROVE s[i] \in Elements(t)
    <3>1. i \in 1 .. k \/ i \in k + 1 .. Len(s)
      BY <1>1
    <3>2. i \in 1 .. Len(t) /\ i + 1 \in 1 .. Len(t)
      BY <1>1, <1>3
    <3> QED
      BY <3>1, <3>2, <1>4 DEF Elements
  <2>3. p \in Elements(t)
    <3>1. k + 1 \in 1 .. Len(t)
      BY <1>1, <1>3
    <3> QED
      BY <3>1, <1>4 DEF Elements
  <2> QED
    BY <1>3, <2>1, <2>2, <2>3 DEF Elements
<1> QED
  BY <1>3, <1>4, <1>5 DEF t

LEMMA Removed ==
    ASSUME NEW l, NEW s, Circle(l, s), NEW m \in 1 .. Len(s)
    PROVE  Circle(list_remove(l, s[m]), Lists!Without(s, m))
<1> USE NoNode
<1>1. list_remove(l, s[m]) = Lists!list_del(l, s[m])
  BY DEF list_remove, E!list_del, E!unlink, E!list_del_between,
         Lists!list_del, Lists!unlink, Lists!list_del_between
<1>2. l \in Lists!Heap /\ Lists!Distinct(Anchor, s) /\ Lists!Holds(l, Anchor, s)
  BY DEF Circle
<1> QED
  BY <1>1, <1>2, Lists!EntryDeleted, SMTT(20) DEF Circle

LEMMA WithoutIs ==
    ASSUME NEW l, NEW s, Circle(l, s), NEW m \in 1 .. Len(s)
    PROVE  /\ Len(Lists!Without(s, m)) = Len(s) - 1
           /\ \A j \in 1 .. m - 1 : Lists!Without(s, m)[j] = s[j]
           /\ \A j \in m + 1 .. Len(s) : Lists!Without(s, m)[j - 1] = s[j]
           /\ Elements(Lists!Without(s, m)) = Elements(s) \ {s[m]}
<1> DEFINE t == Lists!Without(s, m)
<1>1. Len(s) \in Nat /\ m \in Nat /\ 1 <= m /\ m <= Len(s)
  BY CircleIs
<1>2. t = [i \in 1 .. Len(s) - 1 |-> IF i < m THEN s[i] ELSE s[i + 1]]
  BY DEF Lists!Without
<1>3. Len(t) = Len(s) - 1
  <2>1. \A i \in 1 .. Len(s) - 1 : t[i] \in Pair
    <3>1. \A i \in 1 .. Len(s) : s[i] \in Pair
      BY CircleIs
    <3> QED
      BY <1>1, <1>2, <3>1
  <2> QED
    BY <1>1, <2>1 DEF Lists!Without
<1> HIDE DEF t
<1>4. /\ \A j \in 1 .. m - 1 : t[j] = s[j]
      /\ \A j \in m + 1 .. Len(s) : t[j - 1] = s[j]
  BY <1>1, <1>2
<1>5. Elements(t) = Elements(s) \ {s[m]}
  <2>1. ASSUME NEW i \in 1 .. Len(s) - 1 PROVE t[i] \in Elements(s) \ {s[m]}
    <3>1. CASE i \in 1 .. m - 1
      <4>1. i \in 1 .. Len(s) /\ i # m
        BY <3>1, <1>1
      <4> QED
        BY <3>1, <4>1, <1>4, CircleIs DEF Elements
    <3>2. CASE i + 1 \in m + 1 .. Len(s)
      <4>1. i + 1 \in 1 .. Len(s) /\ i + 1 # m /\ (i + 1) - 1 = i
        BY <3>2, <1>1
      <4> QED
        BY <3>2, <4>1, <1>4, CircleIs DEF Elements
    <3> QED
      BY <3>1, <3>2, <1>1
  <2>2. ASSUME NEW i \in 1 .. Len(s), s[i] # s[m] PROVE s[i] \in Elements(t)
    <3>1. i \in 1 .. m - 1 \/ i \in m + 1 .. Len(s)
      BY <1>1, <2>2
    <3>2. i \in 1 .. m - 1 => i \in 1 .. Len(t)
      BY <1>1, <1>3
    <3>3. i \in m + 1 .. Len(s) => i - 1 \in 1 .. Len(t)
      BY <1>1, <1>3
    <3> QED
      BY <3>1, <3>2, <3>3, <1>4 DEF Elements
  <2> QED
    BY <1>3, <2>1, <2>2 DEF Elements
<1> QED
  BY <1>3, <1>4, <1>5 DEF t

-----------------------------------------------------------------------------
(* The buckets. *)

Slot == [first : Cell, last : Cell]

\* Slot b is that of bucket i in a list of pairs s: the pairs that H sends to i
\* are neighbours, and b points to the first and the last of them.
Bucket(b, s, H, i) ==
    \/ /\ b = [first |-> Anchor, last |-> Anchor]
       /\ \A j \in 1 .. Len(s) : H[s[j]] # i
    \/ \E a, c \in 1 .. Len(s) :
           /\ a <= c /\ b = [first |-> s[a], last |-> s[c]]
           /\ \A j \in 1 .. Len(s) : H[s[j]] = i <=> a <= j /\ j <= c

\* Table t has n buckets and the pairs s, in the order of its list.
Holding(t, s, H, n) ==
    /\ t \in [list : Lists!Heap, bucket : [0 .. n - 1 -> Slot]]
    /\ Circle(t.list, s)
    /\ \A i \in 0 .. n - 1 : Bucket(t.bucket[i], s, H, i)

\* The pairs hashtable_find_pair looks at include all of the bucket.
LEMMA SegmentIs ==
    ASSUME NEW l, NEW s, Circle(l, s), NEW b, NEW H, NEW i, Bucket(b, s, H, i)
    PROVE  /\ \E m \in Nat : DOMAIN Segment(l, b) = 1 .. m
           /\ \A q \in DOMAIN Segment(l, b) : \E j \in 1 .. Len(s) : Segment(l, b)[q] = s[j]
           /\ \A j \in 1 .. Len(s) : H[s[j]] = i => \E q \in DOMAIN Segment(l, b) : Segment(l, b)[q] = s[j]
<1> USE NoNode
<1>0. Len(s) \in Nat /\ \A j \in 1 .. Len(s) : s[j] \in Pair /\ s[j] # Anchor
  BY CircleIs
<1>1. CASE b = [first |-> Anchor, last |-> Anchor] /\ \A j \in 1 .. Len(s) : H[s[j]] # i
  <2>1. Segment(l, b) = <<>>
    BY <1>1 DEF Segment, bucket_is_empty
  <2>2. DOMAIN <<>> = 1 .. 0 /\ 0 \in Nat
    OBVIOUS
  <2> QED
    BY <1>1, <2>1, <2>2
<1>2. ASSUME NEW a \in 1 .. Len(s), NEW c \in 1 .. Len(s),
             a <= c, b = [first |-> s[a], last |-> s[c]],
             \A j \in 1 .. Len(s) : H[s[j]] = i <=> a <= j /\ j <= c
      PROVE  /\ \E m \in Nat : DOMAIN Segment(l, b) = 1 .. m
             /\ \A q \in DOMAIN Segment(l, b) : \E j \in 1 .. Len(s) : Segment(l, b)[q] = s[j]
             /\ \A j \in 1 .. Len(s) : H[s[j]] = i => \E q \in DOMAIN Segment(l, b) : Segment(l, b)[q] = s[j]
  <2>1. Segment(l, b) = [k \in 1 .. c - a + 1 |-> s[a + k - 1]]
    <3>1. b.first = s[a] /\ b.last = s[c] /\ b.first # Anchor
      BY <1>0, <1>2
    <3>2. Segment(l, b) = Walk(l, s[a], s[c])
      BY <3>1 DEF Segment, bucket_is_empty
    <3> QED
      BY <1>2, <3>2, WalkIs
  <2>2. c - a + 1 \in Nat /\ a \in Nat /\ c \in Nat /\ 1 <= a /\ c <= Len(s)
    BY <1>0, <1>2
  <2>3. \A q \in 1 .. c - a + 1 : a + q - 1 \in 1 .. Len(s)
    BY <1>0, <2>2
  <2>4. \A j \in 1 .. Len(s) : a <= j /\ j <= c => j - a + 1 \in 1 .. c - a + 1 /\ a + (j - a + 1) - 1 = j
    BY <1>0, <2>2
  <2> DEFINE segment == Segment(l, b)
  <2>5. DOMAIN segment = 1 .. c - a + 1 /\ \A q \in 1 .. c - a + 1 : segment[q] = s[a + q - 1]
    BY <2>1
  <2> HIDE DEF segment
  <2>6. \A q \in DOMAIN segment : \E j \in 1 .. Len(s) : segment[q] = s[j]
    BY <2>3, <2>5
  <2>7. ASSUME NEW j \in 1 .. Len(s), H[s[j]] = i PROVE \E q \in DOMAIN segment : segment[q] = s[j]
    <3>1. j - a + 1 \in 1 .. c - a + 1 /\ a + (j - a + 1) - 1 = j
      BY <1>2, <2>4, <2>7
    <3>2. segment[j - a + 1] = s[a + (j - a + 1) - 1]
      BY <2>5, <3>1
    <3> QED
      BY <2>5, <3>1, <3>2
  <2> QED
    BY <2>2, <2>5, <2>6, <2>7 DEF segment
<1> QED
  BY <1>1, <1>2 DEF Bucket

\* H sends each pair of s to the bucket of its key, when there are n buckets.
Hashed(s, H, n) == \A j \in 1 .. Len(s) : H[s[j]] = Hash[pair[s[j]].key] % n

LEMMA Buckets ==
    ASSUME NEW n \in Nat \ {0}
    PROVE  Cardinality(0 .. n - 1) = n /\ \A k \in Key : Hash[k] % n \in 0 .. n - 1
<1>1. \A k \in Key : Hash[k] \in Nat
  BY HashAssumption
<1>2. Cardinality(0 .. n - 1) = n
  <2>1. Cardinality(0 .. n - 1) = IF 0 > n - 1 THEN 0 ELSE (n - 1) - 0 + 1
    BY FS_Interval
  <2> QED
    BY <2>1
<1> QED
  BY <1>1, <1>2

(***************************************************************************)
(* hashtable_find_pair (hashtable.c:72-98) finds the pair of a key whenever*)
(* the table has one.                                                      *)
(***************************************************************************)
LEMMA FindIs ==
    ASSUME NEW n \in Nat \ {0}, NEW t, NEW s, NEW H, Holding(t, s, H, n), Hashed(s, H, n),
           NEW k \in Key
    PROVE  \/ find_pair(t, k) = NULL /\ \A j \in 1 .. Len(s) : pair[s[j]].key # k
           \/ \E j \in 1 .. Len(s) : find_pair(t, k) = s[j] /\ pair[s[j]].key = k
<1> DEFINE i == Hash[k] % n
           b == t.bucket[Hash[k] % Cardinality(DOMAIN t.bucket)]
           segment == Segment(t.list, b)
           found == {q \in DOMAIN segment : Hash[pair[segment[q]].key] = Hash[k] /\ pair[segment[q]].key = k}
<1>1. DOMAIN t.bucket = 0 .. n - 1 /\ i \in 0 .. n - 1 /\ Cardinality(DOMAIN t.bucket) = n
  BY Buckets DEF Holding
<1>2. Circle(t.list, s) /\ Bucket(b, s, H, i)
  BY <1>1 DEF Holding
<1>3. find_pair(t, k) = IF found = {} THEN NULL ELSE segment[CHOOSE q \in found : \A r \in found : q <= r]
  BY DEF find_pair
<1> HIDE DEF segment, b
<1>4. /\ \E m \in Nat : DOMAIN segment = 1 .. m
      /\ \A q \in DOMAIN segment : \E j \in 1 .. Len(s) : segment[q] = s[j]
      /\ \A j \in 1 .. Len(s) : H[s[j]] = i => \E q \in DOMAIN segment : segment[q] = s[j]
  <2> HIDE DEF i
  <2> QED
    BY <1>2, SegmentIs DEF segment
<1>5. CASE found = {}
  <2>1. ASSUME NEW j \in 1 .. Len(s), pair[s[j]].key = k PROVE FALSE
    <3>1. H[s[j]] = i
      BY <2>1 DEF Hashed
    <3>2. PICK q \in DOMAIN segment : segment[q] = s[j]
      BY <3>1, <1>4
    <3>3. q \in found
      BY <3>2, <2>1
    <3> QED
      BY <3>3, <1>5
  <2> QED
    BY <2>1, <1>3, <1>5
<1>6. CASE found # {}
  <2>1. found \in SUBSET Nat
    BY <1>4
  <2>2. \E q \in found : \A r \in found : q <= r
    <3> HIDE DEF found
    <3> QED
      BY <2>1, <1>6, NoNode, Lists!Least
  <2> DEFINE q == CHOOSE q \in found : \A r \in found : q <= r
  <2>3. q \in found /\ find_pair(t, k) = segment[q]
    <3> HIDE DEF found
    <3> QED
      BY <2>2, <1>3, <1>6
  <2> HIDE DEF q
  <2>4. q \in DOMAIN segment /\ pair[segment[q]].key = k
    BY <2>3
  <2>5. PICK j \in 1 .. Len(s) : segment[q] = s[j]
    BY <2>4, <1>4
  <2> QED
    BY <2>3, <2>4, <2>5
<1> QED
  BY <1>5, <1>6

\* Where the pair at position j of a list is once one is added after position k.
Shift(j, k) == IF j <= k THEN j ELSE j + 1

LEMMA Shifted ==
    ASSUME NEW s \in Seq(Pair), NEW p \in Pair, NEW k \in 0 .. Len(s)
    PROVE  /\ Len(Lists!With(s, k, p)) = Len(s) + 1
           /\ k + 1 \in 1 .. Len(s) + 1 /\ Lists!With(s, k, p)[k + 1] = p
           /\ \A j \in 1 .. Len(s) : /\ Shift(j, k) \in 1 .. Len(s) + 1 /\ Shift(j, k) # k + 1
                                     /\ Lists!With(s, k, p)[Shift(j, k)] = s[j]
           /\ \A i \in 1 .. Len(s) + 1 : i # k + 1 => \E j \in 1 .. Len(s) : i = Shift(j, k)
           /\ \A i, j \in 1 .. Len(s) : i <= j <=> Shift(i, k) <= Shift(j, k)
<1> DEFINE t == Lists!With(s, k, p)
<1>1. Len(s) \in Nat /\ k \in Nat /\ k <= Len(s)
  OBVIOUS
<1>2. /\ Len(t) = Len(s) + 1 /\ t[k + 1] = p
      /\ \A j \in 1 .. k : t[j] = s[j]
      /\ \A j \in k + 1 .. Len(s) : t[j + 1] = s[j]
  BY WithIs
<1> HIDE DEF t
<1>3. ASSUME NEW j \in 1 .. Len(s)
      PROVE  Shift(j, k) \in 1 .. Len(s) + 1 /\ Shift(j, k) # k + 1 /\ t[Shift(j, k)] = s[j]
  <2>1. CASE j <= k
    <3>1. j \in 1 .. k /\ j # k + 1 /\ j \in 1 .. Len(s) + 1
      BY <1>1, <2>1
    <3> QED
      BY <1>2, <2>1, <3>1 DEF Shift
  <2>2. CASE ~(j <= k)
    <3>1. j \in k + 1 .. Len(s) /\ j + 1 # k + 1 /\ j + 1 \in 1 .. Len(s) + 1
      BY <1>1, <2>2
    <3> QED
      BY <1>2, <2>2, <3>1 DEF Shift
  <2> QED
    BY <2>1, <2>2
<1>4. ASSUME NEW i \in 1 .. Len(s) + 1, i # k + 1 PROVE \E j \in 1 .. Len(s) : i = Shift(j, k)
  <2>1. CASE i <= k
    BY <1>1, <2>1 DEF Shift
  <2>2. CASE ~(i <= k)
    <3>1. i - 1 \in 1 .. Len(s) /\ ~(i - 1 <= k) /\ i = (i - 1) + 1
      BY <1>1, <1>4, <2>2
    <3> QED
      BY <3>1 DEF Shift
  <2> QED
    BY <2>1, <2>2
<1>5. \A i, j \in 1 .. Len(s) : i <= j <=> Shift(i, k) <= Shift(j, k)
  BY <1>1 DEF Shift
<1>6. k + 1 \in 1 .. Len(s) + 1
  BY <1>1
<1> QED
  BY <1>2, <1>3, <1>4, <1>5, <1>6 DEF t

\* A pair of another bucket does not come between those of bucket i.
LEMMA OthersKept ==
    ASSUME NEW s \in Seq(Pair), NEW p \in Pair, NEW k \in 0 .. Len(s), NEW b, NEW H, NEW i,
           Bucket(b, s, H, i), H[p] # i,
           ~(k \in 1 .. Len(s) /\ k + 1 \in 1 .. Len(s) /\ H[s[k]] = i /\ H[s[k + 1]] = i)
    PROVE  Bucket(b, Lists!With(s, k, p), H, i)
<1> DEFINE t == Lists!With(s, k, p)
<1>0. Len(s) \in Nat /\ k \in Nat
  OBVIOUS
<1>1. /\ Len(t) = Len(s) + 1
      /\ k + 1 \in 1 .. Len(s) + 1 /\ t[k + 1] = p
      /\ \A j \in 1 .. Len(s) : /\ Shift(j, k) \in 1 .. Len(s) + 1 /\ Shift(j, k) # k + 1
                                /\ t[Shift(j, k)] = s[j]
      /\ \A x \in 1 .. Len(s) + 1 : x # k + 1 => \E j \in 1 .. Len(s) : x = Shift(j, k)
      /\ \A x, j \in 1 .. Len(s) : x <= j <=> Shift(x, k) <= Shift(j, k)
  BY Shifted
<1> SUFFICES Bucket(b, t, H, i)
  BY DEF t
<1> HIDE DEF t
<1>2. CASE b = [first |-> Anchor, last |-> Anchor] /\ \A j \in 1 .. Len(s) : H[s[j]] # i
  <2>1. ASSUME NEW x \in 1 .. Len(t) PROVE H[t[x]] # i
    <3>1. CASE x = k + 1
      BY <1>1, <3>1
    <3>2. CASE x # k + 1
      <4>1. PICK j \in 1 .. Len(s) : x = Shift(j, k)
        BY <1>1, <3>2
      <4> QED
        BY <1>1, <1>2, <4>1
    <3> QED
      BY <3>1, <3>2
  <2> QED
    BY <1>2, <2>1 DEF Bucket
<1>3. ASSUME NEW a \in 1 .. Len(s), NEW c \in 1 .. Len(s),
             a <= c, b = [first |-> s[a], last |-> s[c]],
             \A j \in 1 .. Len(s) : H[s[j]] = i <=> a <= j /\ j <= c
      PROVE  Bucket(b, t, H, i)
  <2> DEFINE A == Shift(a, k)
             C == Shift(c, k)
  <2>1. A \in 1 .. Len(t) /\ C \in 1 .. Len(t) /\ A <= C /\ b = [first |-> t[A], last |-> t[C]]
    BY <1>1, <1>3
  <2>2. ASSUME NEW x \in 1 .. Len(t) PROVE H[t[x]] = i <=> A <= x /\ x <= C
    <3>1. CASE x = k + 1
      <4>1. ~(A <= k + 1 /\ k + 1 <= C)
        <5> SUFFICES ASSUME A <= k + 1, k + 1 <= C PROVE FALSE
          OBVIOUS
        <5>1. a <= k /\ k + 1 <= c
          BY <1>0, <1>1 DEF Shift
        <5>2. k \in 1 .. Len(s) /\ k + 1 \in 1 .. Len(s) /\ a <= k + 1 /\ k <= c
          BY <1>0, <5>1
        <5> QED
          BY <1>3, <5>1, <5>2
      <4> QED
        BY <1>1, <3>1, <4>1
    <3>2. CASE x # k + 1
      <4>1. PICK j \in 1 .. Len(s) : x = Shift(j, k)
        BY <1>1, <3>2
      <4>2. t[x] = s[j] /\ (a <= j <=> A <= x) /\ (j <= c <=> x <= C)
        BY <1>1, <4>1
      <4> QED
        BY <1>3, <4>2
    <3> QED
      BY <3>1, <3>2
  <2> HIDE DEF A, C
  <2> QED
    BY <2>1, <2>2 DEF Bucket
<1> QED
  BY <1>2, <1>3 DEF Bucket

(***************************************************************************)
(* insert_to_bucket (hashtable.c:54-70) keeps the pairs of every bucket    *)
(* together, in the table and while hashtable_do_rehash fills a new one.   *)
(***************************************************************************)
LEMMA InsertIs ==
    ASSUME NEW n \in Nat \ {0}, NEW t, NEW s, NEW H, Holding(t, s, H, n),
           NEW p \in Pair, p \notin Elements(s), H[p] \in 0 .. n - 1
    PROVE  \E u : Holding(insert_to_bucket(t, H[p], p), u, H, n) /\ Elements(u) = Elements(s) \cup {p}
<1> USE NoNode
<1> DEFINE i == H[p]
           b == t.bucket[i]
           g == insert_to_bucket(t, i, p)
<1> SUFFICES \E u : Holding(g, u, H, n) /\ Elements(u) = Elements(s) \cup {p}
  OBVIOUS
<1>0. /\ Circle(t.list, s) /\ s \in Seq(Pair) /\ Len(s) \in Nat
      /\ t.bucket \in [0 .. n - 1 -> Slot]
      /\ \A x \in 0 .. n - 1 : Bucket(t.bucket[x], s, H, x)
      /\ \A j \in 1 .. Len(s) : s[j] \in Pair /\ s[j] # Anchor
  BY CircleIs DEF Holding
\* It is enough to see where the pair goes and what its bucket becomes.
<1>1. ASSUME NEW k \in 0 .. Len(s), NEW c, c \in Slot,
             g = [list |-> list_insert(t.list, Succ(s, k), p), bucket |-> [t.bucket EXCEPT ![i] = c]],
             Bucket(c, Lists!With(s, k, p), H, i),
             ~(k \in 1 .. Len(s) /\ k + 1 \in 1 .. Len(s) /\ H[s[k]] # i /\ H[s[k]] = H[s[k + 1]])
      PROVE  Holding(g, Lists!With(s, k, p), H, n) /\ Elements(Lists!With(s, k, p)) = Elements(s) \cup {p}
  <2> DEFINE u == Lists!With(s, k, p)
  <2>1. Circle(list_insert(t.list, Succ(s, k), p), u) /\ Elements(u) = Elements(s) \cup {p}
    BY <1>0, Inserted, WithIs
  <2>2. g.list = list_insert(t.list, Succ(s, k), p) /\ g.bucket = [t.bucket EXCEPT ![i] = c]
    BY <1>1
  <2>3. g \in [list : Lists!Heap, bucket : [0 .. n - 1 -> Slot]]
    <3>1. list_insert(t.list, Succ(s, k), p) \in Lists!Heap
      BY <2>1 DEF Circle
    <3>2. [t.bucket EXCEPT ![i] = c] \in [0 .. n - 1 -> Slot]
      BY <1>0, <1>1
    <3> HIDE DEF g
    <3> QED
      BY <1>1, <3>1, <3>2
  <2>4. ASSUME NEW x \in 0 .. n - 1 PROVE Bucket(g.bucket[x], u, H, x)
    <3>1. CASE x = i
      BY <1>0, <1>1, <2>2, <3>1
    <3>2. CASE x # i
      <4>1. g.bucket[x] = t.bucket[x]
        BY <1>0, <2>2, <3>2
      <4>2. Bucket(t.bucket[x], u, H, x)
        BY <1>0, <1>1, <3>2, OthersKept
      <4> QED
        BY <4>1, <4>2
    <3> QED
      BY <3>1, <3>2
  <2> HIDE DEF g, u
  <2>5. Holding(g, u, H, n)
    BY <2>1, <2>2, <2>3, <2>4 DEF Holding
  <2> QED
    BY <2>1, <2>5 DEF u
<1>2. CASE b = [first |-> Anchor, last |-> Anchor] /\ \A j \in 1 .. Len(s) : H[s[j]] # i
  <2> DEFINE k == Len(s)
             c == [first |-> p, last |-> p]
  <2>1. k \in 0 .. Len(s) /\ Succ(s, k) = Anchor /\ c \in Slot
    BY <1>0 DEF Succ, Slot, Cell
  <2>2. g = [list |-> list_insert(t.list, Succ(s, k), p), bucket |-> [t.bucket EXCEPT ![i] = c]]
    BY <1>2, <2>1 DEF insert_to_bucket, bucket_is_empty
  <2>3. Bucket(c, Lists!With(s, k, p), H, i)
    <3> DEFINE u == Lists!With(s, k, p)
    <3>1. Len(u) = k + 1 /\ u[k + 1] = p /\ \A j \in 1 .. k : u[j] = s[j]
      BY <1>0, <2>1, WithIs
    <3> HIDE DEF u
    <3>2. k + 1 \in 1 .. Len(u) /\ c = [first |-> u[k + 1], last |-> u[k + 1]]
      BY <1>0, <3>1
    <3>3. \A j \in 1 .. Len(u) : H[u[j]] = i <=> k + 1 <= j /\ j <= k + 1
      BY <1>0, <1>2, <3>1
    <3>4. k + 1 <= k + 1
      BY <1>0
    <3> HIDE DEF c, k, i
    <3> QED
      BY <3>2, <3>3, <3>4 DEF Bucket, u
  <2>4. ~(k + 1 \in 1 .. Len(s))
    BY <1>0
  <2> HIDE DEF g, c, k
  <2>5. Holding(g, Lists!With(s, k, p), H, n) /\ Elements(Lists!With(s, k, p)) = Elements(s) \cup {p}
    BY <1>1, <2>1, <2>2, <2>3, <2>4
  <2> QED
    BY <2>5
<1>3. ASSUME NEW a \in 1 .. Len(s), NEW d \in 1 .. Len(s),
             a <= d, b = [first |-> s[a], last |-> s[d]],
             \A j \in 1 .. Len(s) : H[s[j]] = i <=> a <= j /\ j <= d
      PROVE  \E u : Holding(g, u, H, n) /\ Elements(u) = Elements(s) \cup {p}
  <2> DEFINE k == a - 1
             c == [first |-> p, last |-> s[d]]
             u == Lists!With(s, k, p)
  <2>0. a \in Nat /\ d \in Nat /\ 1 <= a /\ d <= Len(s)
    BY <1>0, <1>3
  <2>1. k \in 0 .. Len(s) /\ k + 1 = a /\ Succ(s, k) = s[a] /\ c \in Slot
    BY <1>0, <2>0 DEF Succ, Slot, Cell
  <2>2. g = [list |-> list_insert(t.list, Succ(s, k), p), bucket |-> [t.bucket EXCEPT ![i] = c]]
    <3>1. b.first = s[a] /\ b.first # Anchor /\ [b EXCEPT !.first = p] = c
      BY <1>0, <1>3
    <3>2. [t.bucket EXCEPT ![i].first = p] = [t.bucket EXCEPT ![i] = c]
      BY <3>1
    <3>3. ~bucket_is_empty(b)
      BY <3>1 DEF bucket_is_empty
    <3> QED
      BY <2>1, <3>1, <3>2, <3>3 DEF insert_to_bucket
  <2>3. Bucket(c, u, H, i)
    <3>1. /\ Len(u) = Len(s) + 1
          /\ u[k + 1] = p
          /\ \A j \in 1 .. Len(s) : /\ Shift(j, k) \in 1 .. Len(s) + 1 /\ Shift(j, k) # k + 1
                                    /\ u[Shift(j, k)] = s[j]
          /\ \A x \in 1 .. Len(s) + 1 : x # k + 1 => \E j \in 1 .. Len(s) : x = Shift(j, k)
      <4>1. s \in Seq(Pair) /\ k \in 0 .. Len(s)
        BY <1>0, <2>1
      <4> HIDE DEF k
      <4> QED
        BY <4>1, Shifted
    <3> HIDE DEF u
    <3>2. Shift(d, k) = d + 1
      BY <1>0, <1>3, <2>0 DEF Shift
    <3>3. a \in 1 .. Len(u) /\ d + 1 \in 1 .. Len(u) /\ a <= d + 1
      BY <1>0, <1>3, <2>0, <3>1
    <3>4. u[a] = p /\ u[d + 1] = s[d]
      BY <1>3, <2>1, <3>1, <3>2
    <3>5. ASSUME NEW x \in 1 .. Len(u) PROVE H[u[x]] = i <=> a <= x /\ x <= d + 1
      <4>1. CASE x = a
        BY <4>1, <3>3, <3>4, <2>0
      <4>2. CASE x # a
        <5>1. PICK j \in 1 .. Len(s) : x = Shift(j, k)
          BY <2>1, <3>1, <4>2
        <5>2. u[x] = s[j]
          BY <3>1, <5>1
        <5>3. a <= j /\ j <= d <=> a <= x /\ x <= d + 1
          BY <1>0, <2>0, <5>1, <4>2 DEF Shift
        <5> QED
          BY <1>3, <5>2, <5>3
      <4> QED
        BY <4>1, <4>2
    <3> HIDE DEF i, k
    <3>6. c = [first |-> u[a], last |-> u[d + 1]]
      BY <3>4
    <3> HIDE DEF c
    <3> QED
      BY <3>3, <3>5, <3>6 DEF Bucket
  <2>4. k \in 1 .. Len(s) => H[s[k + 1]] = i
    BY <1>3, <2>0, <2>1
  <2>5. ~(k \in 1 .. Len(s) /\ k + 1 \in 1 .. Len(s) /\ H[s[k]] # i /\ H[s[k]] = H[s[k + 1]])
    BY <2>4
  <2>6. Holding(g, u, H, n) /\ Elements(u) = Elements(s) \cup {p}
    <3> HIDE DEF g, c, k
    <3> QED
      BY <1>1, <2>1, <2>2, <2>3, <2>5
  <2> QED
    BY <2>6
<1>4. Bucket(b, s, H, i)
  BY <1>0
<1> HIDE DEF g, b, i
<1>5. \E u : Holding(g, u, H, n) /\ Elements(u) = Elements(s) \cup {p}
  <2>1. CASE \E a, d \in 1 .. Len(s) :
                /\ a <= d /\ b = [first |-> s[a], last |-> s[d]]
                /\ \A j \in 1 .. Len(s) : H[s[j]] = i <=> a <= j /\ j <= d
    <3>1. PICK a \in 1 .. Len(s), d \in 1 .. Len(s) :
              /\ a <= d /\ b = [first |-> s[a], last |-> s[d]]
              /\ \A j \in 1 .. Len(s) : H[s[j]] = i <=> a <= j /\ j <= d
      BY <2>1
    <3> QED
      BY <3>1, <1>3
  <2>2. CASE b = [first |-> Anchor, last |-> Anchor] /\ \A j \in 1 .. Len(s) : H[s[j]] # i
    BY <2>2, <1>2
  <2> QED
    BY <1>4, <2>1, <2>2 DEF Bucket
<1> QED
  BY <1>5

-----------------------------------------------------------------------------
(* Rehashing. *)

LEMMA AllIs ==
    ASSUME NEW s, Circle(list, s)
    PROVE  All = s
<1> USE NoNode
<1>1. Len(s) \in Nat /\ s \in Seq(Pair) /\ DOMAIN s = 1 .. Len(s)
  BY CircleIs
<1>2. CASE Len(s) = 0
  <2>1. list.next[Anchor] = Anchor /\ s = <<>>
    BY <1>1, <1>2, CircleIs DEF Succ
  <2> QED
    BY <2>1 DEF All, E!list_empty
<1>3. CASE Len(s) # 0
  <2>1. 1 \in 1 .. Len(s) /\ Len(s) \in 1 .. Len(s) /\ 0 # Len(s) /\ 1 <= Len(s)
    BY <1>1, <1>3
  <2>2. list.next[Anchor] = s[1] /\ list.prev[Anchor] = s[Len(s)] /\ s[1] # Anchor
    BY <1>3, <2>1, CircleIs DEF Succ
  <2>3. All = Walk(list, s[1], s[Len(s)])
    BY <2>2 DEF All, E!list_empty
  <2>4. All = [k \in 1 .. Len(s) - 1 + 1 |-> s[1 + k - 1]]
    BY <2>1, <2>3, WalkIs
  <2>5. \A k \in 1 .. Len(s) : 1 + k - 1 = k
    OBVIOUS
  <2>6. Len(s) - 1 + 1 = Len(s)
    BY <1>1
  <2>7. All = [k \in 1 .. Len(s) |-> s[k]]
    BY <2>4, <2>5, <2>6
  <2> QED
    BY <1>1, <2>7
<1> QED
  BY <1>2, <1>3

LEMMA NoPairsYet ==
    ASSUME NEW l \in Lists!Heap, NEW n \in Nat \ {0}, NEW H, NEW t,
           t = [list |-> list_init(l, Anchor), bucket |-> EmptyBuckets(n)]
    PROVE  Holding(t, <<>>, H, n) /\ Elements(<<>>) = {}
<1>1. Circle(list_init(l, Anchor), <<>>)
  BY Initial
<1>2. \A i \in 0 .. n - 1 : t.bucket[i] = [first |-> Anchor, last |-> Anchor]
  BY DEF EmptyBuckets
<1>3. t \in [list : Lists!Heap, bucket : [0 .. n - 1 -> Slot]]
  <2>1. EmptyBuckets(n) \in [0 .. n - 1 -> Slot]
    BY DEF EmptyBuckets, Slot, Cell
  <2> QED
    BY <1>1, <2>1 DEF Circle
<1>4. t.list = list_init(l, Anchor)
  OBVIOUS
<1>5. \A j \in 1 .. Len(<<>>) : FALSE
  OBVIOUS
<1> QED
  BY <1>1, <1>2, <1>3, <1>4, <1>5 DEF Holding, Bucket, Elements

\* hashtable_do_rehash (hashtable.c:138-180) gives every pair to the bucket of
\* its key in the new table and loses none.
LEMMA RehashIs ==
    ASSUME NEW n \in Nat \ {0}, NEW s, Circle(list, s), NEW H, Hashed(s, H, n),
           \A j \in 1 .. Len(s) : pair[s[j]].key \in Key
    PROVE  \E u : Holding(rehash(n), u, H, n) /\ Elements(u) = Elements(s)
<1> DEFINE m == Len(s)
           T == [list : Lists!Heap, bucket : [0 .. n - 1 -> Slot]]
           start == [list |-> list_init(list, Anchor), bucket |-> EmptyBuckets(n)]
           F == [x \in Nat \X T |-> IF x[1] < m THEN insert_to_bucket(x[2], H[s[x[1] + 1]], s[x[1] + 1]) ELSE x[2]]
           step(f) == [i \in 0 .. Len(All) |->
                          IF i = 0 THEN start
                          ELSE insert_to_bucket(f[i - 1], Hash[pair[All[i]].key] % n, All[i])]
           table == CHOOSE f : f = step(f)
<1>1. m \in Nat /\ list \in Lists!Heap /\ All = s
      /\ \A j \in 1 .. m : /\ s[j] \in Pair /\ H[s[j]] \in 0 .. n - 1
                           /\ H[s[j]] = Hash[pair[All[j]].key] % n
  <2>1. m \in Nat /\ list \in Lists!Heap /\ All = s
    BY CircleIs, AllIs DEF Circle
  <2> QED
    BY <2>1, Buckets, CircleIs DEF Hashed
<1>2. Holding(start, <<>>, H, n) /\ Elements(<<>>) = {}
  <2> HIDE DEF m
  <2> QED
    BY <1>1, NoPairsYet
<1>3. ASSUME NEW t \in T, NEW i \in 0 .. n - 1, NEW p \in Pair
      PROVE  insert_to_bucket(t, i, p) \in T
  <2>1. t.list \in Lists!Heap /\ t.bucket \in [0 .. n - 1 -> Slot] /\ t.bucket[i] \in Slot
    OBVIOUS
  <2>2. ASSUME NEW x \in Cell PROVE list_insert(t.list, x, p) \in Lists!Heap
    BY <2>1 DEF list_insert, E!list_add_tail, E!list_add_between, Lists!Heap, Cell
  <2>3. t.bucket[i].first \in Cell /\ Anchor \in Cell /\ p \in Cell
    BY <2>1 DEF Slot, Cell
  <2>4. [t.bucket EXCEPT ![i] = [first |-> p, last |-> p]] \in [0 .. n - 1 -> Slot]
    BY <2>1, <2>3 DEF Slot
  <2>5. [t.bucket EXCEPT ![i].first = p] \in [0 .. n - 1 -> Slot]
    BY <2>1, <2>3 DEF Slot
  <2> QED
    BY <2>2, <2>3, <2>4, <2>5 DEF insert_to_bucket
<1>4. start \in T
  BY <1>2 DEF Holding
<1> HIDE DEF T
<1>5. F \in [Nat \X T -> T]
  <2>1. ASSUME NEW x \in Nat \X T PROVE F[x] \in T
    <3>1. x[1] \in Nat /\ x[2] \in T
      OBVIOUS
    <3>2. x[1] < m => x[1] + 1 \in 1 .. m
      BY <1>1, <3>1
    <3> QED
      BY <1>1, <1>3, <3>1, <3>2
  <2> QED
    BY <2>1
<1>6. table = step(table)
  <2>1. PICK g : Lists!Runs(g, T, start, F)
    <3> HIDE DEF F, start
    <3> QED
      BY <1>4, <1>5, NoNode, Lists!Iterates
  <2>2. g[0] = start /\ g \in [Nat -> T] /\ \A i \in Nat : g[i + 1] = F[<<i, g[i]>>]
    BY <2>1 DEF Lists!Runs
  <2> DEFINE f == [i \in 0 .. Len(All) |-> g[i]]
  <2>3. ASSUME NEW i \in 0 .. Len(All), i # 0
        PROVE  f[i] = insert_to_bucket(f[i - 1], Hash[pair[All[i]].key] % n, All[i])
    <3>1. i - 1 \in 0 .. Len(All) /\ i - 1 \in Nat /\ i - 1 < m /\ (i - 1) + 1 = i /\ i \in 1 .. m
      BY <1>1, <2>3
    <3>2. g[i] = F[<<i - 1, g[i - 1]>>] /\ <<i - 1, g[i - 1]>> \in Nat \X T
      <4>1. g[(i - 1) + 1] = F[<<i - 1, g[i - 1]>>] /\ g[i - 1] \in T
        <5> HIDE DEF F
        <5> QED
          BY <2>2, <3>1
      <4> HIDE DEF F
      <4> QED
        BY <3>1, <4>1
    <3>3. g[i] = insert_to_bucket(g[i - 1], H[s[i]], s[i])
      BY <3>1, <3>2
    <3> QED
      BY <1>1, <3>1, <3>3
  <2>4. f[0] = start
    BY <1>1, <2>2
  <2>5. f = step(f)
    <3> HIDE DEF start
    <3>1. \A i \in 0 .. Len(All) : f[i] = step(f)[i]
      <4> HIDE DEF f
      <4> QED
        BY <2>3, <2>4
    <3> QED
      BY <3>1
  <2>6. \E x : x = step(x)
    <3> HIDE DEF f, step
    <3> QED
      BY <2>5
  <2> HIDE DEF step
  <2> QED
    BY <2>6
<1>7. rehash(n) = table[Len(All)]
  BY DEF rehash
<1> HIDE DEF table, start
<1>8. table[0] = start /\ \A i \in 1 .. m : table[i] = insert_to_bucket(table[i - 1], H[s[i]], s[i])
  <2>1. \A i \in 0 .. m : table[i] = IF i = 0 THEN start
            ELSE insert_to_bucket(table[i - 1], Hash[pair[All[i]].key] % n, All[i])
    BY <1>1, <1>6
  <2>2. \A i \in 1 .. m : i \in 0 .. m /\ i # 0
    BY <1>1
  <2> QED
    BY <1>1, <2>1, <2>2
<1> DEFINE First(i) == {s[j] : j \in 1 .. i}
           Good(i) == \E u : Holding(table[i], u, H, n) /\ Elements(u) = First(i)
           S == {i \in Nat : i <= m => Good(i)}
<1>9. 0 \in S
  <2>1. First(0) = {}
    OBVIOUS
  <2>2. Good(0)
    BY <1>2, <1>8, <2>1
  <2> QED
    BY <2>2
<1>10. ASSUME NEW i \in Nat, i \in S PROVE i + 1 \in S
  <2> SUFFICES ASSUME i + 1 <= m PROVE Good(i + 1)
    OBVIOUS
  <2>1. i + 1 \in 1 .. m /\ (i + 1) - 1 = i /\ i <= m
    BY <1>1
  <2>2. PICK u : Holding(table[i], u, H, n) /\ Elements(u) = First(i)
    BY <1>10, <2>1
  <2>3. s[i + 1] \notin First(i)
    <3>1. \A j \in 1 .. i : j \in 1 .. m /\ j # i + 1
      BY <1>1, <2>1
    <3> QED
      BY <2>1, <3>1, CircleIs
  <2>4. table[i + 1] = insert_to_bucket(table[i], H[s[i + 1]], s[i + 1])
    BY <1>8, <2>1
  <2>5. PICK v : Holding(table[i + 1], v, H, n) /\ Elements(v) = First(i) \cup {s[i + 1]}
    <3>1. s[i + 1] \in Pair /\ s[i + 1] \notin Elements(u) /\ H[s[i + 1]] \in 0 .. n - 1
      BY <1>1, <2>1, <2>2, <2>3
    <3> HIDE DEF First, m
    <3> QED
      BY <2>2, <2>4, <3>1, InsertIs
  <2>6. First(i + 1) = First(i) \cup {s[i + 1]}
    <3>1. 1 .. i + 1 = 1 .. i \cup {i + 1}
      OBVIOUS
    <3> QED
      BY <3>1
  <2> QED
    BY <2>5, <2>6
<1>11. \A i \in Nat : i \in S
  <2> HIDE DEF S
  <2> QED
    BY <1>9, <1>10, NoNode, Lists!Induction
<1>12. Good(m) /\ First(m) = Elements(s)
  <2>1. m \in S /\ m <= m
    <3>1. m \in Nat /\ m <= m
      BY <1>1
    <3> HIDE DEF S, m
    <3> QED
      BY <1>11, <3>1
  <2>2. Good(m)
    <3> HIDE DEF Good, m
    <3> QED
      BY <2>1
  <2>3. First(m) = Elements(s)
    BY DEF Elements
  <2> HIDE DEF Good, First
  <2> QED
    BY <2>2, <2>3
<1> QED
  BY <1>1, <1>7, <1>12

-----------------------------------------------------------------------------
(* Deleting a pair. *)

\* What WithoutIs says, position by position of the shorter list.
LEMMA Shrunk ==
    ASSUME NEW l, NEW s, Circle(l, s), NEW m \in 1 .. Len(s)
    PROVE  /\ Len(Lists!Without(s, m)) = Len(s) - 1
           /\ \A x \in 1 .. Len(s) - 1 : Lists!Without(s, m)[x] = s[IF x < m THEN x ELSE x + 1]
<1>1. Len(s) \in Nat /\ m \in Nat
  BY CircleIs
<1>2. Len(Lists!Without(s, m)) = Len(s) - 1
  BY WithoutIs
<1> QED
  BY <1>1, <1>2 DEF Lists!Without

\* hashtable_do_del (hashtable.c:100-135) leaves the buckets of the pairs that stay.
LEMMA DelIs ==
    ASSUME NEW n \in Nat \ {0}, NEW s, NEW H, Holding(Table, s, H, n),
           NEW m \in 1 .. Len(s), H[s[m]] \in 0 .. n - 1,
           NEW t, t = [list |-> list_remove(list, s[m]),
                       bucket |-> [bucket EXCEPT ![H[s[m]]] = BucketWithout(@, s[m])]]
    PROVE  Holding(t, Lists!Without(s, m), H, n)
<1> USE NoNode
<1> DEFINE i == H[s[m]]
           u == Lists!Without(s, m)
           old(x) == IF x < m THEN x ELSE x + 1
           c == BucketWithout(bucket[i], s[m])
<1>1. /\ Circle(list, s) /\ bucket \in [0 .. n - 1 -> Slot]
      /\ \A x \in 0 .. n - 1 : Bucket(bucket[x], s, H, x)
  BY DEF Holding, Table
<1>2. /\ Len(s) \in Nat /\ m \in Nat /\ 1 <= m /\ m <= Len(s)
      /\ \A j \in 1 .. Len(s) : s[j] \in Pair
      /\ \A j, k \in 1 .. Len(s) : s[j] = s[k] => j = k
      /\ list.next[s[m]] = Succ(s, m) /\ list.prev[s[m]] = Pred(s, m)
  BY <1>1, CircleIs
<1>3. Len(u) = Len(s) - 1 /\ \A x \in 1 .. Len(s) - 1 : u[x] = s[old(x)]
  BY <1>1, Shrunk
<1>4. Circle(t.list, u)
  BY <1>1, Removed
<1> HIDE DEF u
<1>5. ASSUME NEW h \in 0 .. n - 1, h # i PROVE Bucket(bucket[h], u, H, h)
  <2>1. CASE bucket[h] = [first |-> Anchor, last |-> Anchor] /\ \A j \in 1 .. Len(s) : H[s[j]] # h
    <3>1. \A x \in 1 .. Len(u) : old(x) \in 1 .. Len(s)
      BY <1>2, <1>3
    <3>2. \A x \in 1 .. Len(u) : H[u[x]] # h
      BY <1>3, <2>1, <3>1
    <3> QED
      BY <2>1, <3>2 DEF Bucket
  <2>2. ASSUME NEW a \in 1 .. Len(s), NEW d \in 1 .. Len(s),
               a <= d, bucket[h] = [first |-> s[a], last |-> s[d]],
               \A j \in 1 .. Len(s) : H[s[j]] = h <=> a <= j /\ j <= d
        PROVE  Bucket(bucket[h], u, H, h)
    <3>1. d < m \/ m < a
      BY <1>2, <1>5, <2>2
    <3> DEFINE A == IF d < m THEN a ELSE a - 1
               D == IF d < m THEN d ELSE d - 1
    <3>2. A \in 1 .. Len(u) /\ D \in 1 .. Len(u) /\ A <= D /\ old(A) = a /\ old(D) = d
      BY <1>2, <1>3, <2>2, <3>1
    <3>3. bucket[h] = [first |-> u[A], last |-> u[D]]
      <4>1. u[A] = s[a] /\ u[D] = s[d]
        <5> HIDE DEF A, D, old
        <5> QED
          BY <1>3, <3>2
      <4> QED
        BY <2>2, <4>1
    <3>4. ASSUME NEW x \in 1 .. Len(u) PROVE H[u[x]] = h <=> A <= x /\ x <= D
      <4>1. old(x) \in 1 .. Len(s) /\ (a <= old(x) /\ old(x) <= d <=> A <= x /\ x <= D)
        BY <1>2, <1>3, <2>2, <3>1
      <4>2. u[x] = s[old(x)]
        BY <1>3
      <4> QED
        BY <2>2, <4>1, <4>2
    <3> HIDE DEF A, D
    <3> QED
      BY <3>2, <3>3, <3>4 DEF Bucket
  <2>3. Bucket(bucket[h], s, H, h)
    BY <1>1
  <2>4. CASE \E a, d \in 1 .. Len(s) :
                /\ a <= d /\ bucket[h] = [first |-> s[a], last |-> s[d]]
                /\ \A j \in 1 .. Len(s) : H[s[j]] = h <=> a <= j /\ j <= d
    BY <2>2, <2>4
  <2> QED
    BY <2>1, <2>3, <2>4 DEF Bucket
<1>6. PICK a \in 1 .. Len(s), d \in 1 .. Len(s) :
          /\ a <= d /\ bucket[i] = [first |-> s[a], last |-> s[d]]
          /\ \A j \in 1 .. Len(s) : H[s[j]] = i <=> a <= j /\ j <= d
  <2>1. Bucket(bucket[i], s, H, i)
    BY <1>1
  <2>2. ~ \A j \in 1 .. Len(s) : H[s[j]] # i
    OBVIOUS
  <2> HIDE DEF i
  <2> QED
    BY <2>1, <2>2 DEF Bucket
<1>7. /\ a <= m /\ m <= d /\ a \in Nat /\ d \in Nat /\ 1 <= a /\ d <= Len(s)
      /\ (s[a] = s[m] <=> a = m) /\ (s[d] = s[m] <=> d = m)
  BY <1>2, <1>6
<1>8. bucket[i].first = s[a] /\ bucket[i].last = s[d]
  BY <1>6
<1>9. Bucket(c, u, H, i) /\ c \in Slot
  <2>1. CASE a = d
    <3>1. c = [first |-> Anchor, last |-> Anchor]
      BY <1>7, <1>8, <2>1 DEF BucketWithout
    <3>2. ASSUME NEW x \in 1 .. Len(u) PROVE H[u[x]] # i
      <4>1. old(x) \in 1 .. Len(s) /\ old(x) # m /\ u[x] = s[old(x)]
        BY <1>2, <1>3
      <4>2. ~(a <= old(x) /\ old(x) <= d)
        BY <1>2, <1>7, <2>1, <4>1
      <4> HIDE DEF i, old
      <4> QED
        BY <1>6, <4>1, <4>2
    <3> QED
      BY <3>1, <3>2 DEF Bucket, Slot, Cell
  <2>2. CASE a # d
    <3>1. a \in 1 .. Len(u) /\ d - 1 \in 1 .. Len(u) /\ a <= d - 1
      BY <1>2, <1>3, <1>7, <2>2
    <3>2. u[a] = s[IF a = m THEN a + 1 ELSE a] /\ u[d - 1] = s[IF d = m THEN d - 1 ELSE d]
      <4>1. old(a) = (IF a = m THEN a + 1 ELSE a) /\ old(d - 1) = (IF d = m THEN d - 1 ELSE d)
        BY <1>2, <1>7
      <4> HIDE DEF old
      <4> QED
        BY <1>3, <3>1, <4>1
    <3>3. c = [first |-> u[a], last |-> u[d - 1]]
      <4>1. CASE a = m
        <5>1. d # m /\ m # Len(s)
          BY <1>2, <1>7, <2>2, <4>1
        <5>2. c = [bucket[i] EXCEPT !.first = s[m + 1]]
          BY <1>2, <1>7, <1>8, <4>1, <5>1 DEF BucketWithout, Succ
        <5> QED
          BY <1>6, <3>2, <4>1, <5>1, <5>2
      <4>2. CASE d = m
        <5>1. a # m /\ m # 1
          BY <1>2, <1>7, <2>2, <4>2
        <5>2. c = [bucket[i] EXCEPT !.last = s[m - 1]]
          BY <1>2, <1>7, <1>8, <4>2, <5>1 DEF BucketWithout, Pred
        <5> QED
          BY <1>6, <3>2, <4>2, <5>1, <5>2
      <4>3. CASE a # m /\ d # m
        BY <1>6, <1>7, <1>8, <3>2, <4>3 DEF BucketWithout
      <4> QED
        BY <4>1, <4>2, <4>3
    <3>4. ASSUME NEW x \in 1 .. Len(u) PROVE H[u[x]] = i <=> a <= x /\ x <= d - 1
      <4>1. /\ old(x) \in 1 .. Len(s) /\ u[x] = s[old(x)]
            /\ (a <= old(x) /\ old(x) <= d <=> a <= x /\ x <= d - 1)
        BY <1>2, <1>3, <1>7
      <4> HIDE DEF i, old
      <4> QED
        BY <1>6, <4>1
    <3>5. u[a] \in Cell /\ u[d - 1] \in Cell
      BY <1>2, <1>7, <3>2, <2>2 DEF Cell
    <3> HIDE DEF c, i
    <3> QED
      BY <3>1, <3>3, <3>4, <3>5 DEF Bucket, Slot
  <2> QED
    BY <2>1, <2>2
<1>10. t.bucket = [bucket EXCEPT ![i] = c] /\ t.bucket \in [0 .. n - 1 -> Slot]
  <2>1. t.bucket = [bucket EXCEPT ![i] = c]
    OBVIOUS
  <2> HIDE DEF c, i
  <2> QED
    BY <2>1, <1>1, <1>9
<1>11. t \in [list : Lists!Heap, bucket : [0 .. n - 1 -> Slot]]
  BY <1>4, <1>10 DEF Circle
<1>12. ASSUME NEW h \in 0 .. n - 1 PROVE Bucket(t.bucket[h], u, H, h)
  <2> HIDE DEF c, i
  <2>1. t.bucket[h] = IF h = i THEN c ELSE bucket[h]
    BY <1>1, <1>10
  <2> QED
    BY <2>1, <1>5, <1>9
<1>13. Holding(t, u, H, n)
  BY <1>4, <1>11, <1>12 DEF Holding
<1> QED
  BY <1>13 DEF u

-----------------------------------------------------------------------------
(* The inductive invariant. *)

Entry == [key : Key, value : Value]

\* The bucket of every pair, in a table of n buckets.
Code(n) == [p \in Pair |-> Hash[pair[p].key] % n]

\* The list has the allocated pairs, and while the table is in use its buckets
\* are those of their keys.
Listed(s) ==
    /\ Circle(list, s) /\ Elements(s) = Allocated
    /\ status = "open" => Holding(Table, s, Code(num_buckets), num_buckets)

TypesOK ==
    /\ pair \in [Pair -> Entry \cup {NULL}]
    /\ order \in 1 .. Len(Primes)
    /\ status \in {"open", "closed", "broken", "lost"}
    /\ iter \in Allocated \cup {NULL}

KeysDiffer == \A p, q \in Allocated : pair[p].key = pair[q].key => p = q
SizeOK == size = Cardinality(Allocated)

ListOK == status # "closed" => \E s : Listed(s)
ClosedOK == status = "closed" => Allocated = {} /\ order = 1

Inv == TypesOK /\ KeysDiffer /\ SizeOK /\ ListOK /\ ClosedOK

LEMMA NoEntry ==
    /\ NULL \notin Entry /\ NULL \notin Pair /\ NULL \notin Key /\ NULL \notin Value
    /\ Anchor \notin Pair /\ Place \in [Key -> Pair]
BY PairAssumption, PlaceAssumption DEF Entry

LEMMA SizesAre ==
    ASSUME NEW o \in 1 .. Len(Primes)
    PROVE  Primes[o] \in Nat \ {0}
BY PrimesAssumption

LEMMA FirstSize == 1 \in 1 .. Len(Primes)
BY PrimesAssumption

LEMMA FewPairs == IsFiniteSet(Allocated) /\ Cardinality(Allocated) \in Nat
<1>1. Allocated \subseteq Pair
  BY DEF Allocated
<1> QED
  BY <1>1, NoNode, FS_Subset, FS_CardinalityType

LEMMA Agree ==
    ASSUME NEW n, NEW t, NEW s, NEW H, NEW G, Holding(t, s, H, n),
           \A p \in Elements(s) : G[p] = H[p]
    PROVE  Holding(t, s, G, n)
<1>1. \A j \in 1 .. Len(s) : G[s[j]] = H[s[j]]
  BY DEF Elements
<1>2. ASSUME NEW i \in 0 .. n - 1 PROVE Bucket(t.bucket[i], s, G, i)
  <2> DEFINE b == t.bucket[i]
  <2>1. Bucket(b, s, H, i)
    BY DEF Holding
  <2> SUFFICES Bucket(b, s, G, i)
    OBVIOUS
  <2> HIDE DEF b
  <2>2. CASE b = [first |-> Anchor, last |-> Anchor] /\ \A j \in 1 .. Len(s) : H[s[j]] # i
    BY <1>1, <2>2 DEF Bucket
  <2>3. CASE \E a, c \in 1 .. Len(s) :
                 /\ a <= c /\ b = [first |-> s[a], last |-> s[c]]
                 /\ \A j \in 1 .. Len(s) : H[s[j]] = i <=> a <= j /\ j <= c
    <3>1. PICK a \in 1 .. Len(s), c \in 1 .. Len(s) :
              /\ a <= c /\ b = [first |-> s[a], last |-> s[c]]
              /\ \A j \in 1 .. Len(s) : H[s[j]] = i <=> a <= j /\ j <= c
      BY <2>3
    <3>2. \A j \in 1 .. Len(s) : G[s[j]] = i <=> a <= j /\ j <= c
      BY <1>1, <3>1
    <3> QED
      BY <3>1, <3>2 DEF Bucket
  <2> QED
    BY <2>1, <2>2, <2>3 DEF Bucket
<1> QED
  BY <1>2 DEF Holding

\* The keys of allocated pairs, bucket by bucket.
LEMMA CodeIs ==
    ASSUME TypesOK, NEW n \in Nat \ {0}, NEW s, Elements(s) = Allocated
    PROVE  /\ Hashed(s, Code(n), n)
           /\ \A j \in 1 .. Len(s) : s[j] \in Allocated /\ pair[s[j]] \in Entry /\ pair[s[j]].key \in Key
           /\ \A p \in Allocated : \E j \in 1 .. Len(s) : p = s[j]
           /\ \A p \in Allocated : p \in Pair /\ pair[p] \in Entry /\ Code(n)[p] \in 0 .. n - 1
<1>1. \A p \in Allocated : p \in Pair /\ pair[p] \in Entry /\ pair[p].key \in Key
  BY DEF TypesOK, Allocated, Entry
<1>2. \A p \in Allocated : Code(n)[p] = Hash[pair[p].key] % n
  BY <1>1 DEF Code
<1>3. \A j \in 1 .. Len(s) : s[j] \in Allocated
  BY DEF Elements
<1>4. \A p \in Allocated : \E j \in 1 .. Len(s) : p = s[j]
  BY DEF Elements
<1> QED
  BY <1>1, <1>2, <1>3, <1>4, Buckets DEF Hashed

\* An open table and the sequence of its pairs.
LEMMA OpenIs ==
    ASSUME Inv, Open
    PROVE  \E s : /\ Circle(list, s) /\ Elements(s) = Allocated
                  /\ Holding(Table, s, Code(num_buckets), num_buckets)
                  /\ Hashed(s, Code(num_buckets), num_buckets)
                  /\ num_buckets \in Nat \ {0}
<1>1. PICK s : Listed(s)
  BY DEF Inv, ListOK, Open
<1>2. num_buckets \in Nat \ {0}
  BY SizesAre DEF Inv, TypesOK, num_buckets
<1>3. Circle(list, s) /\ Elements(s) = Allocated /\ Holding(Table, s, Code(num_buckets), num_buckets)
  BY <1>1 DEF Listed, Open
<1>4. Hashed(s, Code(num_buckets), num_buckets)
  BY <1>2, <1>3, CodeIs DEF Inv
<1> QED
  BY <1>2, <1>3, <1>4

\* hashtable_find_pair, by keys.
LEMMA Found ==
    ASSUME TypesOK, NEW n \in Nat \ {0}, NEW t, NEW s, Elements(s) = Allocated,
           Holding(t, s, Code(n), n), NEW k \in Key
    PROVE  \/ find_pair(t, k) = NULL /\ \A p \in Allocated : pair[p].key # k
           \/ find_pair(t, k) \in Allocated /\ pair[find_pair(t, k)].key = k
<1>1. /\ Hashed(s, Code(n), n)
      /\ \A j \in 1 .. Len(s) : s[j] \in Allocated
      /\ \A p \in Allocated : \E j \in 1 .. Len(s) : p = s[j]
  BY CodeIs
<1>2. \/ find_pair(t, k) = NULL /\ \A j \in 1 .. Len(s) : pair[s[j]].key # k
      \/ \E j \in 1 .. Len(s) : find_pair(t, k) = s[j] /\ pair[s[j]].key = k
  BY <1>1, FindIs
<1> QED
  BY <1>1, <1>2

-----------------------------------------------------------------------------
(* What a user sees in a state of the invariant. *)

\* The keys of the pairs P.
Keys(P) == {pair[p].key : p \in P}

LEMMA MapIs ==
    ASSUME Inv
    PROVE  /\ DOMAIN keyMap = Keys(Allocated)
           /\ keyMap = [k \in DOMAIN keyMap |-> keyMap[k]]
           /\ \A p \in Allocated : keyMap[pair[p].key] = pair[p].value
<1>1. keyMap = [k \in Keys(Allocated) |-> pair[CHOOSE p \in Allocated : pair[p].key = k].value]
  BY DEF keyMap, MapOf, Keys
<1>2. ASSUME NEW p \in Allocated PROVE keyMap[pair[p].key] = pair[p].value
  <2> DEFINE q == CHOOSE q \in Allocated : pair[q].key = pair[p].key
  <2>1. q \in Allocated /\ pair[q].key = pair[p].key
    OBVIOUS
  <2>2. keyMap[pair[p].key] = pair[q].value
    BY <1>1 DEF Keys
  <2> HIDE DEF q
  <2>3. q = p
    BY <2>1 DEF Inv, KeysDiffer
  <2> QED
    BY <2>2, <2>3
<1> QED
  BY <1>1, <1>2

\* The iterator has passed the pairs of the list up to its own.
LEMMA PassedIs ==
    ASSUME NEW l, NEW s, Circle(l, s), NEW m \in 1 .. Len(s)
    PROVE  ToSet(Walk(l, l.next[Anchor], s[m])) = {s[k] : k \in 1 .. m}
<1>1. /\ Len(s) \in Nat /\ m \in Nat /\ 1 <= m /\ m <= Len(s)
      /\ l.next[Anchor] = s[1] /\ 1 \in 1 .. Len(s)
  BY CircleIs DEF Succ
<1>2. Walk(l, s[1], s[m]) = [k \in 1 .. m - 1 + 1 |-> s[1 + k - 1]]
  BY <1>1, WalkIs
<1>3. \A k \in 1 .. m : 1 + k - 1 = k
  OBVIOUS
<1>4. m - 1 + 1 = m
  BY <1>1
<1>5. Walk(l, s[1], s[m]) = [k \in 1 .. m |-> s[k]]
  BY <1>2, <1>3, <1>4
<1> QED
  BY <1>1, <1>5 DEF ToSet

View ==
    /\ DOMAIN keyMap = Keys(Allocated)
    /\ keyMap = [k \in DOMAIN keyMap |-> keyMap[k]]
    /\ \A p \in Allocated : keyMap[pair[p].key] = pair[p].value /\ pair[p].key \in Key
    /\ iter = NULL => position = NULL /\ passed = {}
    /\ iter # NULL => /\ iter \in Allocated /\ position = pair[iter].key /\ position # NULL
                      /\ position \in DOMAIN keyMap /\ position \in passed
    /\ passed \in SUBSET DOMAIN keyMap

LEMMA ViewIs == Inv => View
<1> SUFFICES ASSUME Inv PROVE View
  OBVIOUS
<1>1. \A p \in Allocated : pair[p].key \in Key /\ pair[p].key \in Keys(Allocated)
  BY DEF Inv, TypesOK, Allocated, Entry, Keys
<1>2. ASSUME iter # NULL
      PROVE  iter \in Allocated /\ position \in passed /\ passed \in SUBSET Keys(Allocated)
  <2>1. iter \in Allocated
    BY <1>2 DEF Inv, TypesOK
  <2>2. status # "closed"
    BY <2>1 DEF Inv, ClosedOK
  <2>3. PICK s : Circle(list, s) /\ Elements(s) = Allocated
    BY <2>2 DEF Inv, ListOK, Listed
  <2>4. PICK m \in 1 .. Len(s) : iter = s[m]
    BY <2>1, <2>3 DEF Elements
  <2>5. passed = {pair[s[j]].key : j \in 1 .. m}
    <3>1. ToSet(Walk(list, list.next[Anchor], iter)) = {s[j] : j \in 1 .. m}
      BY <2>3, <2>4, PassedIs
    <3> QED
      BY <1>2, <3>1 DEF passed
  <2>6. m \in Nat /\ m <= Len(s) /\ m \in 1 .. m /\ Len(s) \in Nat
    BY <2>3, CircleIs
  <2>7. \A j \in 1 .. m : s[j] \in Allocated
    BY <2>3, <2>6 DEF Elements
  <2> QED
    BY <1>2, <2>1, <2>4, <2>5, <2>6, <2>7 DEF position, Keys
<1>3. iter = NULL => position = NULL /\ passed = {}
  BY DEF position, passed
<1>4. iter # NULL => position = pair[iter].key
  BY DEF position
<1> QED
  BY <1>1, <1>2, <1>3, <1>4, MapIs, NoEntry DEF View

LEMMA ViewNext == Inv' => View'
BY ViewIs, PTL

-----------------------------------------------------------------------------
(* The calls that only read the table. *)

LEMMA SameTable ==
    ASSUME Inv, UNCHANGED tableVars, iter' \in Allocated \cup {NULL}
    PROVE  Inv' /\ View' /\ keyMap' = keyMap
<1>1. /\ list' = list /\ bucket' = bucket /\ order' = order /\ pair' = pair /\ status' = status
      /\ size' = size /\ Allocated' = Allocated /\ keyMap' = keyMap
  BY DEF tableVars, Allocated, keyMap, MapOf
<1>2. TypesOK'
  BY <1>1 DEF Inv, TypesOK
<1>3. KeysDiffer' /\ SizeOK' /\ ClosedOK'
  BY <1>1 DEF Inv, KeysDiffer, SizeOK, ClosedOK
<1>4. ListOK'
  <2>1. ASSUME NEW s, Listed(s) PROVE Listed(s)'
    BY <1>1, <2>1 DEF Listed, Table, Code, num_buckets
  <2> QED
    BY <1>1, <2>1 DEF Inv, ListOK
<1> QED
  BY <1>1, <1>2, <1>3, <1>4, ViewNext DEF Inv

\* What hashtable_find_pair returns, seen as a map.
LEMMA Looked ==
    ASSUME Inv, Open, NEW k \in Key
    PROVE  \/ Find(k) = NULL /\ k \notin DOMAIN keyMap
           \/ /\ Find(k) \in Allocated /\ pair[Find(k)].key = k
              /\ k \in DOMAIN keyMap /\ keyMap[k] = pair[Find(k)].value
<1>1. PICK s : /\ Elements(s) = Allocated /\ Holding(Table, s, Code(num_buckets), num_buckets)
               /\ num_buckets \in Nat \ {0}
  BY OpenIs
<1>2. \/ Find(k) = NULL /\ \A p \in Allocated : pair[p].key # k
      \/ Find(k) \in Allocated /\ pair[Find(k)].key = k
  BY <1>1, Found DEF Find, Inv
<1>3. View
  BY ViewIs
<1> QED
  BY <1>2, <1>3 DEF View, Keys

LEMMA GetStep ==
    ASSUME Inv, NEW k \in Key, Get(k)
    PROVE  Inv' /\ Map!Get(k)
<1>1. /\ Open /\ UNCHANGED <<tableVars, iter>>
      /\ Returns(IF Find(k) = NULL THEN NULL ELSE pair[Find(k)].value, {})
  BY DEF Get
<1>2. Inv' /\ keyMap' = keyMap
  <2>1. iter' \in Allocated \cup {NULL}
    BY <1>1 DEF Inv, TypesOK
  <2> QED
    BY <1>1, <2>1, SameTable
<1>3. position' = position /\ passed' = passed /\ status = "open" /\ status' = status
  BY <1>1 DEF tableVars, position, passed, Open
<1>4. ret' = (IF k \in DOMAIN keyMap THEN keyMap[k] ELSE NULL) /\ freed' = {}
  BY <1>1, Looked, NoEntry DEF Returns, Allocated
<1> QED
  BY <1>2, <1>3, <1>4 DEF Map!Get, Map!Returns

LEMMA IterAtStep ==
    ASSUME Inv, NEW k \in Key, IterAt(k)
    PROVE  Inv' /\ Map!IterAt(k)
<1>1. /\ Open /\ UNCHANGED tableVars /\ iter' = Find(k)
      /\ Returns(IF iter' = NULL THEN NULL ELSE pair[iter'].key, {})
  BY DEF IterAt
<1>2. \/ Find(k) = NULL /\ k \notin DOMAIN keyMap
      \/ Find(k) \in Allocated /\ Find(k) # NULL /\ pair[Find(k)].key = k /\ k \in DOMAIN keyMap
  BY <1>1, Looked, NoEntry DEF Allocated
<1>3. Inv' /\ View' /\ keyMap' = keyMap
  BY <1>1, <1>2, SameTable
<1>4. pair' = pair /\ status = "open" /\ status' = status
  BY <1>1 DEF tableVars, Open
<1>5. ret' = position' /\ freed' = {}
  BY <1>1, <1>4 DEF Returns, position
<1>6. CASE k \notin DOMAIN keyMap
  <2>1. position' = NULL /\ passed' = {}
    BY <1>1, <1>2, <1>3, <1>6 DEF View
  <2> QED
    BY <1>3, <1>4, <1>5, <1>6, <2>1 DEF Map!IterAt, Map!Returns
<1>7. CASE k \in DOMAIN keyMap
  <2>1. position' = k /\ k \in passed' /\ passed' \in SUBSET DOMAIN keyMap
    BY <1>1, <1>2, <1>3, <1>4, <1>7 DEF View
  <2> QED
    BY <1>3, <1>4, <1>5, <1>7, <2>1 DEF Map!IterAt, Map!Returns
<1> QED
  BY <1>6, <1>7

\* hashtable_iter_next from the head of the list (m = 0) or from its pair m.
LEMMA StepIs ==
    ASSUME Inv, NEW s, Circle(list, s), Elements(s) = Allocated, NEW m \in 0 .. Len(s),
           NEW x, x = (IF m = 0 THEN Anchor ELSE s[m]), Step(x)
    PROVE  Inv' /\ Map!Step({pair[s[j]].key : j \in 1 .. m})
<1> DEFINE P == {pair[s[j]].key : j \in 1 .. m}
<1>1. /\ UNCHANGED tableVars /\ pair' = pair /\ list' = list /\ status' = status
      /\ iter' = (IF list.next[x] = Anchor THEN NULL ELSE list.next[x])
      /\ Returns(IF iter' = NULL THEN NULL ELSE pair[iter'].key, {})
  BY DEF Step, tableVars
<1>2. /\ Len(s) \in Nat /\ m \in Nat /\ m <= Len(s)
      /\ \A j \in 1 .. Len(s) : s[j] \in Pair /\ s[j] \in Allocated
      /\ \A j, k \in 1 .. Len(s) : s[j] = s[k] => j = k
      /\ \A p \in Allocated : \E j \in 1 .. Len(s) : p = s[j]
  BY CircleIs DEF Elements
<1>3. list.next[x] = Succ(s, m)
  <2>1. m # 0 => m \in 1 .. Len(s)
    BY <1>2
  <2> QED
    BY <2>1, CircleIs
<1>4. m # Len(s) => m + 1 \in 1 .. Len(s) /\ Succ(s, m) = s[m + 1] /\ s[m + 1] \in Allocated /\ s[m + 1] # Anchor
  BY <1>2, NoNode DEF Succ
<1>5. iter' = IF m = Len(s) THEN NULL ELSE s[m + 1]
  BY <1>1, <1>3, <1>4 DEF Succ
<1>6. Inv' /\ View' /\ keyMap' = keyMap
  BY <1>1, <1>4, <1>5, SameTable
<1>7. View
  BY ViewIs
<1>8. ret' = position' /\ freed' = {}
  BY <1>1 DEF Returns, position
<1>9. CASE m = Len(s)
  <2>1. position' = NULL /\ passed' = {}
    BY <1>5, <1>6, <1>9 DEF View
  <2>2. DOMAIN keyMap \subseteq P
    BY <1>2, <1>7, <1>9 DEF View, Keys
  <2> QED
    BY <1>1, <1>6, <1>8, <2>1, <2>2 DEF Map!Step, Map!Returns
<1>10. CASE m # Len(s)
  <2> DEFINE k == pair[s[m + 1]].key
  <2>1. iter' = s[m + 1] /\ iter' # NULL /\ position' = k
    BY <1>1, <1>4, <1>5, <1>10, NoEntry DEF position, Allocated
  <2>2. passed' = P \cup {k}
    <3>1. ToSet(Walk(list, list.next[Anchor], s[m + 1])) = {s[j] : j \in 1 .. m + 1}
      BY <1>4, <1>10, PassedIs
    <3>2. passed' = {pair[p].key : p \in ToSet(Walk(list, list.next[Anchor], s[m + 1]))}
      BY <1>1, <2>1 DEF passed
    <3>3. 1 .. m + 1 = 1 .. m \cup {m + 1}
      BY <1>2
    <3> QED
      BY <3>1, <3>2, <3>3
  <2>3. k \in DOMAIN keyMap /\ k \notin P
    <3>1. k \in DOMAIN keyMap
      BY <1>4, <1>7, <1>10 DEF View, Keys
    <3>2. ASSUME NEW j \in 1 .. m, pair[s[j]].key = k PROVE FALSE
      <4>1. j \in 1 .. Len(s) /\ j # m + 1
        BY <1>2
      <4>2. s[j] = s[m + 1]
        BY <1>2, <1>4, <1>10, <3>2, <4>1 DEF Inv, KeysDiffer
      <4> QED
        BY <1>2, <1>4, <1>10, <4>1, <4>2
    <3> QED
      BY <3>1, <3>2
  <2> HIDE DEF k, P
  <2>4. ~(DOMAIN keyMap \subseteq P)
    BY <2>3
  <2>5. Map!Step(P)
    BY <1>1, <1>6, <1>8, <2>1, <2>2, <2>3, <2>4 DEF Map!Step, Map!Returns
  <2> QED
    BY <1>6, <2>5 DEF P
<1> QED
  BY <1>9, <1>10

\* The iterator and hashtable_close need only the list.
LEMMA UsableIs ==
    ASSUME Inv, Usable
    PROVE  Map!Usable /\ \E s : Listed(s)
BY DEF Usable, Map!Usable, Inv, ListOK

LEMMA IterStep ==
    ASSUME Inv, Iter
    PROVE  Inv' /\ Map!Iter
<1>1. PICK s : Circle(list, s) /\ Elements(s) = Allocated
  BY UsableIs DEF Iter, Listed
<1>2. 0 \in 0 .. Len(s) /\ {pair[s[j]].key : j \in 1 .. 0} = {}
  BY <1>1, CircleIs
<1>3. Step(Anchor)
  BY DEF Iter
<1>4. Inv' /\ Map!Step({pair[s[j]].key : j \in 1 .. 0})
  BY <1>1, <1>2, <1>3, StepIs
<1> QED
  BY <1>2, <1>4, UsableIs DEF Iter, Map!Iter

LEMMA IterNextStep ==
    ASSUME Inv, IterNext
    PROVE  Inv' /\ Map!IterNext
<1>1. PICK s : Circle(list, s) /\ Elements(s) = Allocated
  BY UsableIs DEF IterNext, Listed
<1>2. Step(iter) /\ iter # NULL
  BY DEF IterNext
<1>3. PICK m \in 1 .. Len(s) : iter = s[m]
  BY <1>1, <1>2 DEF Inv, TypesOK, Elements
<1>4. m \in 0 .. Len(s) /\ m # 0
  BY <1>1, CircleIs
<1>5. passed = {pair[s[j]].key : j \in 1 .. m}
  <2>1. ToSet(Walk(list, list.next[Anchor], iter)) = {s[j] : j \in 1 .. m}
    BY <1>1, <1>3, PassedIs
  <2> QED
    BY <1>2, <2>1 DEF passed
<1>6. Inv' /\ Map!Step({pair[s[j]].key : j \in 1 .. m})
  BY <1>1, <1>2, <1>3, <1>4, StepIs
<1>7. position # NULL
  BY <1>2, ViewIs DEF View
<1> QED
  BY <1>5, <1>6, <1>7, UsableIs DEF IterNext, Map!IterNext

-----------------------------------------------------------------------------
(* The calls that change values or add a pair. *)

LEMMA OpenNext ==
    ASSUME TypesOK', KeysDiffer', SizeOK', status' = "open", NEW s, Elements(s) = Allocated',
           Holding(Table', s, Code(num_buckets)', num_buckets')
    PROVE  Inv' /\ View'
<1>1. Circle(list', s)
  BY DEF Holding, Table
<1>2. Listed(s)'
  BY <1>1 DEF Listed
<1>3. ListOK' /\ ClosedOK'
  BY <1>2 DEF ListOK, ClosedOK
<1> QED
  BY <1>3, ViewNext DEF Inv

LEMMA Reordered ==
    ASSUME View', position' = position
    PROVE  Map!Reorder
BY DEF View, Map!Reorder

\* Another value for a pair changes neither the keys nor the buckets.
LEMMA Valued ==
    ASSUME Inv, NEW p \in Allocated, NEW v \in Value, pair' = [pair EXCEPT ![p].value = v]
    PROVE  /\ Allocated' = Allocated /\ pair' \in [Pair -> Entry \cup {NULL}]
           /\ \A q \in Allocated : /\ pair'[q].key = pair[q].key
                                   /\ pair'[q].value = IF q = p THEN v ELSE pair[q].value
           /\ KeysDiffer'
           /\ \A n : Code(n)' = Code(n)
<1>1. p \in Pair /\ pair[p] \in Entry /\ pair \in [Pair -> Entry \cup {NULL}]
  BY DEF Inv, TypesOK, Allocated
<1>2. /\ pair' = [q \in Pair |-> IF q = p THEN [key |-> pair[p].key, value |-> v] ELSE pair[q]]
      /\ [key |-> pair[p].key, value |-> v] \in Entry
  <2> DEFINE e == [key |-> pair[p].key, value |-> v]
  <2>1. [pair[p] EXCEPT !.value = v] = e /\ e \in Entry
    BY <1>1 DEF Entry
  <2>2. pair' = [pair EXCEPT ![p] = e]
    BY <2>1
  <2> HIDE DEF e
  <2>3. pair' = [q \in Pair |-> IF q = p THEN e ELSE pair[q]]
    BY <1>1, <2>2
  <2> QED
    BY <2>1, <2>3 DEF e
<1>3. Allocated' = Allocated /\ pair' \in [Pair -> Entry \cup {NULL}]
  BY <1>1, <1>2, NoEntry DEF Allocated
<1>4. \A q \in Pair : /\ pair'[q].key = pair[q].key
                      /\ q = p => pair'[q].value = v
                      /\ q # p => pair'[q].value = pair[q].value
  BY <1>2
<1>5. \A n : Code(n)' = Code(n)
  BY <1>4 DEF Code
<1>6. \A q \in Allocated : q \in Pair
  BY DEF Allocated
<1>7. KeysDiffer'
  BY <1>3, <1>4, <1>6 DEF Inv, KeysDiffer
<1> QED
  BY <1>3, <1>4, <1>5, <1>6, <1>7

\* The user sees the new value, and the call frees the old one.
LEMMA ValueSeen ==
    ASSUME Inv, View', NEW p \in Allocated, NEW v \in Value, pair' = [pair EXCEPT ![p].value = v]
    PROVE  /\ DOMAIN keyMap' = DOMAIN keyMap /\ pair[p].key \in DOMAIN keyMap
           /\ keyMap' = [keyMap EXCEPT ![pair[p].key] = v]
           /\ Contents({p}) = Map!Entries({pair[p].key})
<1> DEFINE k == pair[p].key
<1>1. /\ Allocated' = Allocated
      /\ \A q \in Allocated : /\ pair'[q].key = pair[q].key
                              /\ pair'[q].value = IF q = p THEN v ELSE pair[q].value
  BY Valued
<1>2. View
  BY ViewIs
<1>3. DOMAIN keyMap' = DOMAIN keyMap /\ k \in DOMAIN keyMap
  BY <1>1, <1>2 DEF View, Keys
<1>4. ASSUME NEW x \in DOMAIN keyMap PROVE keyMap'[x] = IF x = k THEN v ELSE keyMap[x]
  <2>1. PICK q \in Allocated : x = pair[q].key
    BY <1>2 DEF View, Keys
  <2>2. keyMap'[x] = pair'[q].value /\ keyMap[x] = pair[q].value
    BY <1>1, <1>2, <2>1 DEF View
  <2>3. x = k <=> q = p
    BY <2>1 DEF Inv, KeysDiffer
  <2> QED
    BY <1>1, <2>2, <2>3
<1>5. keyMap' = [keyMap EXCEPT ![k] = v]
  BY <1>2, <1>3, <1>4 DEF View
<1>6. Contents({p}) = {<<k, keyMap[k]>>}
  BY <1>2 DEF Contents, View
<1>7. Map!Entries({k}) = {<<k, keyMap[k]>>}
  BY <1>3 DEF Map!Entries
<1> QED
  BY <1>3, <1>5, <1>6, <1>7

LEMMA IterSetStep ==
    ASSUME Inv, NEW v \in Value, IterSet(v)
    PROVE  Inv' /\ Map!IterSet(v)
<1>1. /\ Usable /\ iter # NULL /\ pair' = [pair EXCEPT ![iter].value = v]
      /\ Returns("ok", Contents({iter}))
      /\ UNCHANGED <<list, bucket, order, size, status, iter>>
  BY DEF IterSet
<1>2. iter \in Allocated
  BY <1>1 DEF Inv, TypesOK
<1>3. /\ Allocated' = Allocated /\ pair' \in [Pair -> Entry \cup {NULL}]
      /\ \A q \in Allocated : pair'[q].key = pair[q].key
      /\ KeysDiffer'
      /\ \A n : Code(n)' = Code(n)
  BY <1>1, <1>2, Valued
<1>4. PICK s : Listed(s)
  BY <1>1, UsableIs
<1>5. Inv' /\ View'
  <2>1. TypesOK' /\ SizeOK' /\ ClosedOK'
    BY <1>1, <1>3 DEF Inv, TypesOK, SizeOK, ClosedOK
  <2>2. Table' = Table /\ num_buckets' = num_buckets
    BY <1>1 DEF Table, num_buckets
  <2>3. Code(num_buckets)' = Code(num_buckets)
    BY <1>3, <2>2 DEF Code
  <2>4. Listed(s)'
    BY <1>1, <1>3, <1>4, <2>2, <2>3 DEF Listed
  <2> QED
    BY <1>3, <2>1, <2>4, ViewNext DEF Inv, ListOK
<1>6. position' = position /\ position = pair[iter].key /\ position # NULL
  BY <1>1, <1>2, <1>3, ViewIs DEF position, View
<1>7. passed' = passed
  <2>1. PICK m \in 1 .. Len(s) : iter = s[m]
    BY <1>2, <1>4 DEF Listed, Elements
  <2>2. Circle(list, s)
    BY <1>4 DEF Listed
  <2>3. ToSet(Walk(list, list.next[Anchor], iter)) = {s[j] : j \in 1 .. m}
    BY <2>1, <2>2, PassedIs
  <2>4. \A j \in 1 .. m : s[j] \in Allocated
    <3>1. Len(s) \in Nat
      BY <2>2, CircleIs
    <3>2. \A j \in 1 .. m : j \in 1 .. Len(s)
      BY <3>1
    <3> QED
      BY <1>4, <3>2 DEF Listed, Elements
  <2>5. passed = {pair[q].key : q \in {s[j] : j \in 1 .. m}}
    BY <1>1, <2>3 DEF passed
  <2>6. passed' = {pair'[q].key : q \in {s[j] : j \in 1 .. m}}
    BY <1>1, <2>3 DEF passed
  <2> QED
    BY <1>3, <2>4, <2>5, <2>6
<1>8. keyMap' = [keyMap EXCEPT ![position] = v] /\ Contents({iter}) = Map!Entries({position})
  BY <1>1, <1>2, <1>5, <1>6, ValueSeen
<1> QED
  BY <1>1, <1>5, <1>6, <1>7, <1>8, UsableIs DEF Map!IterSet, Map!Returns, Returns

\* The table hashtable_set works on, after a rehash if the old one was full.
LEMMA SetTable ==
    ASSUME Inv, Open, Full => order < Len(Primes),
           NEW o, o = (IF Full THEN order + 1 ELSE order),
           NEW t, t = (IF Full THEN rehash(Primes[o]) ELSE Table)
    PROVE  /\ o \in 1 .. Len(Primes) /\ Primes[o] \in Nat \ {0}
           /\ \E s : Holding(t, s, Code(Primes[o]), Primes[o]) /\ Elements(s) = Allocated
<1>1. o \in 1 .. Len(Primes)
  <2>1. Len(Primes) \in Nat
    BY PrimesAssumption
  <2> QED
    BY <2>1 DEF Inv, TypesOK
<1>2. Primes[o] \in Nat \ {0}
  BY <1>1, SizesAre
<1>3. PICK s : /\ Circle(list, s) /\ Elements(s) = Allocated
               /\ Holding(Table, s, Code(num_buckets), num_buckets)
  BY OpenIs
<1>4. CASE Full
  <2>1. Hashed(s, Code(Primes[o]), Primes[o]) /\ \A j \in 1 .. Len(s) : pair[s[j]].key \in Key
    BY <1>2, <1>3, CodeIs DEF Inv
  <2>2. PICK u : Holding(rehash(Primes[o]), u, Code(Primes[o]), Primes[o]) /\ Elements(u) = Elements(s)
    BY <1>2, <1>3, <2>1, RehashIs
  <2> QED
    BY <1>1, <1>2, <1>3, <1>4, <2>2
<1>5. CASE ~Full
  BY <1>1, <1>2, <1>3, <1>5 DEF num_buckets
<1> QED
  BY <1>4, <1>5

LEMMA ReplaceStep ==
    ASSUME Inv, Open, NEW k \in Key, NEW v \in Value, status' = "open", UNCHANGED iter,
           order' \in 1 .. Len(Primes), NEW t, NEW s,
           Holding(t, s, Code(num_buckets'), num_buckets'), Elements(s) = Allocated,
           NEW p \in Allocated, pair[p].key = k, Replace(k, v, p, t)
    PROVE  Inv' /\ Map!Set(k, v)
<1>1. /\ list' = t.list /\ bucket' = t.bucket /\ pair' = [pair EXCEPT ![p].value = v]
      /\ Returns("ok", Contents({p})) /\ size' = size
  BY DEF Replace
<1>2. /\ Allocated' = Allocated /\ pair' \in [Pair -> Entry \cup {NULL}]
      /\ \A q \in Allocated : pair'[q].key = pair[q].key
      /\ KeysDiffer'
      /\ \A n : Code(n)' = Code(n)
  BY <1>1, Valued
<1>3. Inv' /\ View'
  <2>1. TypesOK' /\ SizeOK'
    BY <1>1, <1>2 DEF Inv, TypesOK, SizeOK
  <2>2. Table' = t
    BY <1>1 DEF Table, Holding
  <2>3. Code(num_buckets)' = Code(num_buckets')
    BY <1>2 DEF Code
  <2> QED
    BY <1>2, <2>1, <2>2, <2>3, OpenNext
<1>4. position' = position
  BY <1>2, ViewIs DEF position, View
<1>5. /\ DOMAIN keyMap' = DOMAIN keyMap /\ k \in DOMAIN keyMap
      /\ keyMap' = [keyMap EXCEPT ![k] = v] /\ Contents({p}) = Map!Entries({k})
  BY <1>1, <1>3, ValueSeen
<1>6. keyMap' = [x \in DOMAIN keyMap \cup {k} |-> IF x = k THEN v ELSE keyMap[x]]
  BY <1>5
<1> QED
  BY <1>1, <1>3, <1>4, <1>5, <1>6, Reordered DEF Open, Map!Set, Map!Returns, Returns

LEMMA Added ==
    ASSUME Inv, NEW p \in Pair, pair[p] = NULL, NEW k \in Key, NEW v \in Value,
           \A q \in Allocated : pair[q].key # k,
           pair' = [pair EXCEPT ![p] = [key |-> k, value |-> v]]
    PROVE  /\ p \notin Allocated /\ Allocated' = Allocated \cup {p}
           /\ pair' \in [Pair -> Entry \cup {NULL}]
           /\ pair'[p].key = k /\ pair'[p].value = v
           /\ \A q \in Allocated : pair'[q] = pair[q]
           /\ KeysDiffer'
<1>1. pair \in [Pair -> Entry \cup {NULL}] /\ [key |-> k, value |-> v] \in Entry
  BY DEF Inv, TypesOK, Entry
<1>2. pair' = [q \in Pair |-> IF q = p THEN [key |-> k, value |-> v] ELSE pair[q]]
  BY <1>1
<1>3. p \notin Allocated /\ Allocated' = Allocated \cup {p} /\ pair' \in [Pair -> Entry \cup {NULL}]
  BY <1>1, <1>2, NoEntry DEF Allocated
<1>4. pair'[p].key = k /\ pair'[p].value = v
  BY <1>2
<1>5. \A q \in Allocated : q \in Pair /\ q # p /\ pair'[q] = pair[q]
  BY <1>2, <1>3 DEF Allocated
<1>6. KeysDiffer'
  BY <1>3, <1>4, <1>5 DEF Inv, KeysDiffer
<1> QED
  BY <1>3, <1>4, <1>5, <1>6

LEMMA InsertStep ==
    ASSUME Inv, Open, NEW k \in Key, NEW v \in Value, status' = "open", UNCHANGED iter,
           order' \in 1 .. Len(Primes), NEW t, NEW s,
           Holding(t, s, Code(num_buckets'), num_buckets'), Elements(s) = Allocated,
           \A q \in Allocated : pair[q].key # k, Insert(k, v, t, num_buckets')
    PROVE  Inv' /\ Map!Set(k, v)
<1> DEFINE n == num_buckets'
           p == IF pair[Place[k]] = NULL THEN Place[k] ELSE CHOOSE x \in Pair : pair[x] = NULL
           t1 == [t EXCEPT !.list = list_init(t.list, p)]
           u == insert_to_bucket(t1, Hash[k] % n, p)
           G == Code(num_buckets)'
<1>1. /\ \E x \in Pair : pair[x] = NULL
      /\ list' = u.list /\ bucket' = u.bucket
      /\ pair' = [pair EXCEPT ![p] = [key |-> k, value |-> v]]
      /\ Returns("ok", {}) /\ size' = size + 1
  BY DEF Insert
<1>2. p \in Pair /\ pair[p] = NULL
  BY <1>1, NoEntry
<1> HIDE DEF p
<1>3. /\ p \notin Allocated /\ Allocated' = Allocated \cup {p}
      /\ pair' \in [Pair -> Entry \cup {NULL}]
      /\ pair'[p].key = k /\ pair'[p].value = v
      /\ \A q \in Allocated : pair'[q] = pair[q]
      /\ KeysDiffer'
  <2>1. pair' = [pair EXCEPT ![p] = [key |-> k, value |-> v]]
    BY <1>1
  <2> QED
    BY <1>2, <2>1, Added
<1>4. n \in Nat \ {0}
  BY SizesAre DEF num_buckets
<1>5. G[p] = Hash[k] % n /\ \A q \in Allocated : G[q] = Code(n)[q]
  <2>1. G = [q \in Pair |-> Hash[pair'[q].key] % n]
    BY DEF Code
  <2>2. \A q \in Allocated : q \in Pair
    BY DEF Allocated
  <2> QED
    BY <1>2, <1>3, <2>1, <2>2 DEF Code
<1>6. Holding(t1, s, G, n)
  <2>1. t \in [list : Lists!Heap, bucket : [0 .. n - 1 -> Slot]] /\ Circle(t.list, s)
    BY DEF Holding
  <2>2. Circle(list_init(t.list, p), s)
    BY <1>2, <1>3, <2>1, Initialized
  <2>3. t1.list = list_init(t.list, p) /\ t1.bucket = t.bucket
        /\ t1 \in [list : Lists!Heap, bucket : [0 .. n - 1 -> Slot]]
    BY <2>1, <2>2 DEF Circle
  <2>4. Holding(t1, s, Code(n), n)
    BY <2>2, <2>3 DEF Holding
  <2> HIDE DEF t1, n, G
  <2> QED
    BY <1>5, <2>4, Agree
<1>7. PICK w : Holding(u, w, G, n) /\ Elements(w) = Allocated'
  <2>1. G[p] \in 0 .. n - 1
    BY <1>4, <1>5, Buckets
  <2>2. p \notin Elements(s)
    BY <1>3
  <2>3. u = insert_to_bucket(t1, G[p], p)
    BY <1>5
  <2> HIDE DEF t1, n, G, u
  <2>4. PICK w : Holding(insert_to_bucket(t1, G[p], p), w, G, n) /\ Elements(w) = Elements(s) \cup {p}
    BY <1>2, <1>4, <1>6, <2>1, <2>2, InsertIs
  <2> QED
    BY <1>3, <2>3, <2>4
<1>8. Inv' /\ View'
  <2>1. TypesOK'
    BY <1>3 DEF Inv, TypesOK
  <2>3. SizeOK'
    BY <1>1, <1>3, FewPairs, FS_AddElement DEF Inv, SizeOK
  <2>2. Table' = u
    <3> HIDE DEF u
    <3> QED
      BY <1>1, <1>7 DEF Table, Holding
  <2> HIDE DEF u
  <2> QED
    BY <1>3, <1>7, <2>1, <2>2, <2>3, OpenNext
<1>9. position' = position
  <2>1. iter # NULL => iter \in Allocated
    BY DEF Inv, TypesOK
  <2> QED
    BY <1>3, <2>1 DEF position
<1>10. k \notin DOMAIN keyMap /\ DOMAIN keyMap' = DOMAIN keyMap \cup {k}
  BY <1>3, <1>8, ViewIs DEF View, Keys
<1>11. keyMap' = [x \in DOMAIN keyMap \cup {k} |-> IF x = k THEN v ELSE keyMap[x]]
  <2>1. keyMap'[k] = v
    BY <1>3, <1>8 DEF View
  <2>2. ASSUME NEW x \in DOMAIN keyMap PROVE x # k /\ keyMap'[x] = keyMap[x]
    <3>1. PICK q \in Allocated : x = pair[q].key /\ keyMap[x] = pair[q].value
      BY ViewIs DEF View, Keys
    <3>2. q \in Allocated' /\ pair'[q] = pair[q]
      BY <1>3, <3>1
    <3>3. keyMap'[pair'[q].key] = pair'[q].value
      BY <1>8, <3>2 DEF View
    <3> QED
      BY <1>10, <3>1, <3>2, <3>3
  <2> QED
    BY <1>8, <1>10, <2>1, <2>2 DEF View
<1>12. Map!Entries({k}) = {}
  BY <1>10 DEF Map!Entries
<1> QED
  BY <1>1, <1>8, <1>9, <1>11, <1>12, Reordered DEF Open, Map!Set, Map!Returns, Returns

\* A call that fails leaves the pairs as they are, whatever became of the buckets.
LEMMA FailStep ==
    ASSUME View', Open, status' \in {"open", "broken"},
           pair' = pair, UNCHANGED iter, Returns("failed", {})
    PROVE  Map!SetFails
<1>1. keyMap' = keyMap /\ position' = position
  BY DEF keyMap, MapOf, Allocated, position
<1> QED
  BY <1>1, Reordered DEF Open, Map!SetFails, Map!Returns, Returns

LEMMA NoPairStep ==
    ASSUME Inv, Open, status' = "open", UNCHANGED iter,
           order' \in 1 .. Len(Primes), NEW t, NEW s,
           Holding(t, s, Code(num_buckets'), num_buckets'), Elements(s) = Allocated, NoPair(t)
    PROVE  Inv' /\ Map!SetFails
<1>1. list' = t.list /\ bucket' = t.bucket /\ pair' = pair /\ size' = size /\ Returns("failed", {})
  BY DEF NoPair
<1>2. Allocated' = Allocated /\ Code(num_buckets)' = Code(num_buckets')
  BY <1>1 DEF Allocated, Code
<1>3. TypesOK' /\ KeysDiffer' /\ SizeOK'
  BY <1>1, <1>2 DEF Inv, TypesOK, KeysDiffer, SizeOK
<1>4. Table' = t
  BY <1>1 DEF Table, Holding
<1>5. Inv' /\ View'
  BY <1>2, <1>3, <1>4, OpenNext
<1> QED
  BY <1>1, <1>5, FailStep

LEMMA SetStep ==
    ASSUME Inv, NEW k \in Key, NEW v \in Value, Set(k, v)
    PROVE  Inv' /\ (Map!Set(k, v) \/ Map!SetFails)
<1> DEFINE t == IF Full THEN rehash(num_buckets') ELSE Table
           p == find_pair(t, k)
<1>1. /\ Open /\ status' = "open" /\ UNCHANGED iter /\ (Full => order < Len(Primes))
      /\ order' = (IF Full THEN order + 1 ELSE order)
  BY DEF Set, Open
<1>2. IF p # NULL THEN Replace(k, v, p, t) ELSE Insert(k, v, t, num_buckets') \/ NoPair(t)
  BY DEF Set, num_buckets
<1>3. order' \in 1 .. Len(Primes) /\ num_buckets' \in Nat \ {0}
  BY <1>1, SetTable DEF num_buckets
<1>4. PICK s : Holding(t, s, Code(num_buckets'), num_buckets') /\ Elements(s) = Allocated
  BY <1>1, SetTable DEF num_buckets
<1> HIDE DEF t
<1>5. \/ p = NULL /\ \A q \in Allocated : pair[q].key # k
      \/ p \in Allocated /\ pair[p].key = k /\ p # NULL
  BY <1>3, <1>4, Found, NoEntry DEF Inv, Allocated
<1> HIDE DEF p
<1>6. CASE p # NULL
  BY <1>1, <1>2, <1>3, <1>4, <1>5, <1>6, ReplaceStep
<1>7. CASE p = NULL /\ Insert(k, v, t, num_buckets')
  BY <1>1, <1>3, <1>4, <1>5, <1>7, InsertStep
<1>8. CASE p = NULL /\ NoPair(t)
  BY <1>1, <1>3, <1>4, <1>8, NoPairStep
<1> QED
  BY <1>2, <1>6, <1>7, <1>8

LEMMA RehashFailsStep ==
    ASSUME Inv, RehashFails
    PROVE  Inv' /\ Map!SetFails
<1>1. /\ Open /\ order' = order + 1 /\ order < Len(Primes) /\ status' = "broken"
      /\ list' = list /\ pair' = pair /\ size' = size /\ UNCHANGED iter /\ Returns("failed", {})
  BY DEF RehashFails
<1>2. Allocated' = Allocated
  BY <1>1 DEF Allocated
<1>3. order' \in 1 .. Len(Primes)
  <2>1. Len(Primes) \in Nat
    BY PrimesAssumption
  <2> QED
    BY <1>1, <2>1 DEF Inv, TypesOK
<1>4. TypesOK' /\ KeysDiffer' /\ SizeOK' /\ ClosedOK'
  BY <1>1, <1>2, <1>3 DEF Inv, TypesOK, KeysDiffer, SizeOK, ClosedOK
<1>5. ListOK'
  <2>1. PICK s : Circle(list, s) /\ Elements(s) = Allocated
    BY <1>1, OpenIs
  <2>2. Listed(s)'
    BY <1>1, <1>2, <2>1 DEF Listed
  <2> QED
    BY <2>2 DEF ListOK
<1> QED
  BY <1>1, <1>4, <1>5, ViewNext, FailStep DEF Inv

\* The map has as many keys as the table has pairs.
LEMMA AsManyKeys ==
    ASSUME Inv
    PROVE  Cardinality(DOMAIN keyMap) = size
<1> DEFINE f == [p \in Allocated |-> pair[p].key]
<1>1. f \in Surjection(Allocated, Keys(Allocated))
  BY DEF Surjection, Keys
<1>2. f \in Injection(Allocated, Keys(Allocated))
  BY <1>1 DEF Surjection, Injection, IsInjective, Inv, KeysDiffer
<1> HIDE DEF f
<1>3. f \in Bijection(Allocated, Keys(Allocated))
  BY <1>1, <1>2 DEF Bijection
<1>4. Cardinality(Allocated) = Cardinality(Keys(Allocated))
  BY <1>3, FewPairs, FS_Bijection DEF ExistsBijection
<1> QED
  BY <1>4, MapIs DEF Inv, SizeOK

LEMMA LostStep ==
    ASSUME Inv, Lost
    PROVE  Inv' /\ Map!Lost
<1>1. /\ status = "broken" \/ (Open /\ Full /\ order = Len(Primes))
      /\ status' = "lost" /\ UNCHANGED <<list, bucket, order, size, pair, iter, ret, freed>>
  BY DEF Lost
<1>2. Allocated' = Allocated /\ keyMap' = keyMap /\ position' = position /\ passed' = passed
  BY <1>1 DEF Allocated, keyMap, MapOf, position, passed
<1>3. TypesOK' /\ KeysDiffer' /\ SizeOK' /\ ClosedOK'
  BY <1>1, <1>2 DEF Inv, TypesOK, KeysDiffer, SizeOK, ClosedOK
<1>4. PICK s : Listed(s)
  BY <1>1 DEF Inv, ListOK, Open
<1>5. ListOK'
  <2>1. Listed(s)'
    BY <1>1, <1>2, <1>4 DEF Listed
  <2> QED
    BY <2>1 DEF ListOK
<1>6. ret' = ret /\ freed' = freed
  BY <1>1
<1>7. Open /\ Full /\ order = Len(Primes) => DOMAIN keyMap \in TooMany
  <2>1. DOMAIN keyMap \subseteq Key
    BY ViewIs DEF View, Keys
  <2> QED
    BY <2>1, AsManyKeys DEF Full, num_buckets, TooMany
<1> QED
  BY <1>1, <1>2, <1>3, <1>5, <1>6, <1>7 DEF Inv, Open, Map!Lost

-----------------------------------------------------------------------------
(* The calls that take pairs away. *)

\* Without its pair m, the first j pairs of a list are the same but for that one.
LEMMA PrefixWithout ==
    ASSUME NEW l, NEW s, Circle(l, s), NEW m \in 1 .. Len(s), NEW j \in 1 .. Len(s), j # m
    PROVE  \E i \in 1 .. Len(Lists!Without(s, m)) :
               /\ Lists!Without(s, m)[i] = s[j]
               /\ {Lists!Without(s, m)[x] : x \in 1 .. i} = {s[x] : x \in 1 .. j} \ {s[m]}
<1> DEFINE u == Lists!Without(s, m)
           i == IF j < m THEN j ELSE j - 1
<1>1. /\ Len(s) \in Nat /\ m \in Nat /\ j \in Nat /\ 1 <= m /\ 1 <= j /\ m <= Len(s) /\ j <= Len(s)
      /\ \A x, y \in 1 .. Len(s) : s[x] = s[y] => x = y
  BY CircleIs
<1>2. Len(u) = Len(s) - 1 /\ \A x \in 1 .. Len(s) - 1 : u[x] = s[IF x < m THEN x ELSE x + 1]
  BY Shrunk
<1> HIDE DEF u
<1>3. i \in 1 .. Len(u) /\ u[i] = s[j]
  <2>1. i \in 1 .. Len(u) /\ (IF i < m THEN i ELSE i + 1) = j
    BY <1>1, <1>2
  <2> HIDE DEF i
  <2> QED
    BY <1>2, <2>1
<1>4. ASSUME NEW x \in 1 .. i PROVE \E y \in 1 .. j : y # m /\ y \in 1 .. Len(s) /\ u[x] = s[y]
  <2>1. x \in 1 .. Len(s) - 1 /\ (IF x < m THEN x ELSE x + 1) \in 1 .. j
        /\ (IF x < m THEN x ELSE x + 1) # m /\ (IF x < m THEN x ELSE x + 1) \in 1 .. Len(s)
    BY <1>1
  <2> QED
    BY <1>2, <2>1
<1>5. ASSUME NEW y \in 1 .. j, s[y] # s[m] PROVE \E x \in 1 .. i : u[x] = s[y]
  <2>1. y # m
    BY <1>5
  <2>2. CASE y < m
    <3>1. y \in 1 .. i /\ y \in 1 .. Len(s) - 1
      BY <1>1, <2>2
    <3> QED
      BY <1>2, <2>2, <3>1
  <2>3. CASE ~(y < m)
    <3>1. y - 1 \in 1 .. i /\ y - 1 \in 1 .. Len(s) - 1 /\ ~(y - 1 < m) /\ (y - 1) + 1 = y
      BY <1>1, <2>1, <2>3
    <3>2. u[y - 1] = s[y]
      BY <1>2, <3>1
    <3> QED
      BY <3>1, <3>2
  <2> QED
    BY <2>2, <2>3
<1>6. {u[x] : x \in 1 .. i} = {s[y] : y \in 1 .. j} \ {s[m]}
  <2>1. ASSUME NEW x \in 1 .. i PROVE u[x] \in {s[y] : y \in 1 .. j} \ {s[m]}
    BY <1>1, <1>4
  <2> HIDE DEF i
  <2> QED
    BY <1>5, <2>1
<1> QED
  BY <1>3, <1>6 DEF u

LEMMA DelMissing ==
    ASSUME Inv, Open, NEW k \in Key, k \notin DOMAIN keyMap,
           Returns("failed", {}), UNCHANGED <<tableVars, iter>>
    PROVE  Inv' /\ Map!Del(k)
<1>1. View
  BY ViewIs
<1>2. Inv' /\ keyMap' = keyMap
  <2>1. UNCHANGED tableVars /\ iter' \in Allocated \cup {NULL}
    BY DEF Inv, TypesOK
  <2> QED
    BY <2>1, SameTable
<1>3. position' = position /\ passed' = passed /\ status = "open" /\ status' = status
  BY DEF tableVars, position, passed, Open
<1>4. position # k /\ passed \ {k} = passed
  BY <1>1, NoEntry DEF View
<1>5. Map!Without({k}) = keyMap /\ Map!Entries({k}) = {}
  <2>1. DOMAIN keyMap \ {k} = DOMAIN keyMap /\ {k} \cap DOMAIN keyMap = {}
    OBVIOUS
  <2> QED
    BY <1>1, <2>1 DEF View, Map!Without, Map!Entries
<1> QED
  BY <1>2, <1>3, <1>4, <1>5 DEF Map!Del, Map!Returns, Returns

LEMMA DelFound ==
    ASSUME Inv, Open, NEW k \in Key, NEW p \in Allocated, pair[p].key = k,
           bucket' = [bucket EXCEPT ![index(k)] = BucketWithout(@, p)],
           list' = list_remove(list, p), pair' = [pair EXCEPT ![p] = NULL],
           iter' = (IF iter = p THEN NULL ELSE iter), Returns("ok", Contents({p})),
           size' = size - 1, UNCHANGED <<order, status>>
    PROVE  Inv' /\ Map!Del(k)
<1>1. PICK s : /\ Circle(list, s) /\ Elements(s) = Allocated
               /\ Holding(Table, s, Code(num_buckets), num_buckets)
               /\ num_buckets \in Nat \ {0}
  BY OpenIs
<1>2. PICK m \in 1 .. Len(s) : p = s[m]
  BY <1>1 DEF Elements
<1> DEFINE u == Lists!Without(s, m)
<1>3. p \in Pair /\ \A q \in Pair : pair'[q] = IF q = p THEN NULL ELSE pair[q]
  BY DEF Inv, TypesOK, Allocated
<1>4. Allocated' = Allocated \ {p} /\ pair' \in [Pair -> Entry \cup {NULL}]
  BY <1>3 DEF Inv, TypesOK, Allocated
<1>5. \A q \in Allocated \ {p} : q \in Pair /\ pair'[q] = pair[q]
  BY <1>3 DEF Allocated
<1>6. Elements(u) = Allocated'
  BY <1>1, <1>2, <1>4, WithoutIs
<1>7. TypesOK' /\ KeysDiffer' /\ SizeOK'
  <2>1. TypesOK' /\ KeysDiffer'
    BY <1>4, <1>5 DEF Inv, TypesOK, KeysDiffer
  <2>2. Cardinality(Allocated \ {p}) = Cardinality(Allocated) - 1
    BY FewPairs, FS_RemoveElement
  <2> QED
    BY <1>4, <2>1, <2>2 DEF Inv, SizeOK
<1>8. Holding(Table', u, Code(num_buckets)', num_buckets')
  <2>1. index(k) = Code(num_buckets)[s[m]] /\ num_buckets' = num_buckets
    BY <1>2, <1>3 DEF index, Code, num_buckets
  <2>2. Code(num_buckets)[s[m]] \in 0 .. num_buckets - 1
    BY <1>1, <1>2, CodeIs DEF Inv
  <2>3. Table' = [list |-> list_remove(list, s[m]),
                  bucket |-> [bucket EXCEPT ![Code(num_buckets)[s[m]]] = BucketWithout(@, s[m])]]
    BY <1>2, <2>1 DEF Table
  <2>4. Holding(Table', u, Code(num_buckets), num_buckets)
    BY <1>1, <2>2, <2>3, DelIs
  <2>5. \A q \in Elements(u) : Code(num_buckets)'[q] = Code(num_buckets)[q]
    BY <1>4, <1>5, <1>6, <2>1 DEF Code
  <2> HIDE DEF u
  <2>6. Holding(Table', u, Code(num_buckets)', num_buckets)
    BY <2>4, <2>5, Agree
  <2> QED
    BY <2>1, <2>6
<1> HIDE DEF u
<1>9. Inv' /\ View'
  BY <1>6, <1>7, <1>8, OpenNext DEF Open
<1>10. View
  BY ViewIs
<1>11. iter # NULL => (position = k <=> iter = p)
  BY <1>10 DEF View, Inv, KeysDiffer
<1>12. position' = (IF position = k THEN NULL ELSE position)
  <2>1. CASE iter = NULL
    BY <1>9, <1>10, <2>1, NoEntry DEF View
  <2>2. CASE iter # NULL /\ iter = p
    BY <1>9, <1>11, <2>2 DEF View
  <2>3. CASE iter # NULL /\ iter # p
    BY <1>5, <1>9, <1>10, <1>11, <2>3 DEF View
  <2> QED
    BY <2>1, <2>2, <2>3
<1>13. passed' = (IF position = k THEN {} ELSE passed \ {k})
  <2>1. CASE iter = NULL
    BY <1>9, <1>10, <2>1, NoEntry DEF View
  <2>2. CASE iter # NULL /\ iter = p
    BY <1>9, <1>11, <2>2 DEF View
  <2>3. CASE iter # NULL /\ iter # p
    <3>1. PICK j \in 1 .. Len(s) : iter = s[j] /\ j # m
      BY <1>1, <1>2, <1>10, <2>3 DEF View, Elements
    <3>2. PICK i \in 1 .. Len(u) : /\ u[i] = s[j]
                                   /\ {u[x] : x \in 1 .. i} = {s[x] : x \in 1 .. j} \ {p}
      <4>1. \E i \in 1 .. Len(Lists!Without(s, m)) :
                /\ Lists!Without(s, m)[i] = s[j]
                /\ {Lists!Without(s, m)[x] : x \in 1 .. i} = {s[x] : x \in 1 .. j} \ {s[m]}
        BY <1>1, <3>1, PrefixWithout
      <4> QED
        BY <1>2, <4>1, Zenon DEF u
    <3>3. Circle(list', u)
      BY <1>8 DEF Holding, Table
    <3>4. ToSet(Walk(list', list'.next[Anchor], iter')) = {s[x] : x \in 1 .. j} \ {p}
      <4>1. iter' = u[i]
        BY <2>3, <3>1, <3>2
      <4>2. ToSet(Walk(list', list'.next[Anchor], u[i])) = {u[x] : x \in 1 .. i}
        BY <3>2, <3>3, PassedIs
      <4> QED
        BY <3>2, <4>1, <4>2
    <3>5. ToSet(Walk(list, list.next[Anchor], iter)) = {s[x] : x \in 1 .. j}
      BY <1>1, <3>1, PassedIs
    <3> DEFINE Q == {s[x] : x \in 1 .. j}
    <3>6. passed = {pair[q].key : q \in Q} /\ passed' = {pair'[q].key : q \in Q \ {p}}
      BY <2>3, <3>4, <3>5 DEF passed
    <3>7. Q \subseteq Allocated
      <4>1. \A x \in 1 .. j : x \in 1 .. Len(s)
        BY <1>1, CircleIs
      <4> QED
        BY <1>1, <4>1 DEF Elements
    <3> HIDE DEF Q
    <3>8. \A q \in Q : pair[q].key = k <=> q = p
      BY <3>7 DEF Inv, KeysDiffer
    <3>9. passed' = {pair[q].key : q \in Q \ {p}}
      BY <1>5, <3>6, <3>7
    <3>10. passed' = passed \ {k}
      BY <3>6, <3>8, <3>9
    <3> QED
      BY <1>11, <2>3, <3>10
  <2> QED
    BY <2>1, <2>2, <2>3
<1>14. keyMap' = Map!Without({k})
  <2>1. DOMAIN keyMap' = DOMAIN keyMap \ {k}
    BY <1>4, <1>5, <1>9, <1>10 DEF View, Keys, Inv, KeysDiffer
  <2>2. ASSUME NEW x \in DOMAIN keyMap \ {k} PROVE keyMap'[x] = keyMap[x]
    <3>1. PICK q \in Allocated : x = pair[q].key /\ keyMap[x] = pair[q].value
      BY <1>10 DEF View, Keys
    <3>2. q \in Allocated' /\ pair'[q] = pair[q]
      BY <1>4, <1>5, <3>1
    <3>3. keyMap'[pair'[q].key] = pair'[q].value
      BY <1>9, <3>2 DEF View
    <3> QED
      BY <3>1, <3>2, <3>3
  <2> QED
    BY <1>9, <2>1, <2>2 DEF View, Map!Without
<1>15. k \in DOMAIN keyMap /\ Contents({p}) = Map!Entries({k})
  <2>1. k \in DOMAIN keyMap /\ keyMap[k] = pair[p].value
    BY <1>10 DEF View, Keys
  <2>2. Contents({p}) = {<<k, keyMap[k]>>} /\ Map!Entries({k}) = {<<k, keyMap[k]>>}
    BY <2>1 DEF Contents, Map!Entries
  <2> QED
    BY <2>1, <2>2
<1> QED
  BY <1>9, <1>12, <1>13, <1>14, <1>15 DEF Open, Map!Del, Map!Returns, Returns

LEMMA DelStep ==
    ASSUME Inv, NEW k \in Key, Del(k)
    PROVE  Inv' /\ Map!Del(k)
<1>1. Open
  BY DEF Del
<1>2. CASE Find(k) = NULL
  <2>1. k \notin DOMAIN keyMap
    BY <1>1, <1>2, Looked, NoEntry DEF Allocated
  <2> QED
    BY <1>2, <2>1, DelMissing DEF Del
<1>3. CASE Find(k) # NULL
  <2> DEFINE p == Find(k)
  <2>1. p \in Allocated /\ pair[p].key = k
    BY <1>1, <1>3, Looked
  <2>2. /\ bucket' = [bucket EXCEPT ![index(k)] = BucketWithout(@, p)]
        /\ list' = list_remove(list, p) /\ pair' = [pair EXCEPT ![p] = NULL]
        /\ iter' = (IF iter = p THEN NULL ELSE iter) /\ Returns("ok", Contents({p}))
        /\ size' = size - 1 /\ UNCHANGED <<order, status>>
    BY <1>3 DEF Del
  <2> HIDE DEF p
  <2> QED
    BY <1>1, <2>1, <2>2, DelFound
<1> QED
  BY <1>2, <1>3

\* No pairs are left, and the user sees an empty map.
LEMMA Emptied ==
    ASSUME NEW s, Inv, Circle(list, s), Elements(s) = Allocated,
           pair' = [p \in Pair |-> IF p \in ToSet(All) THEN NULL ELSE pair[p]], iter' = NULL,
           Returns("ok", Contents(ToSet(All))), size' = 0,
           order' \in 1 .. Len(Primes), status' \in {"open", "closed"}
    PROVE  /\ TypesOK' /\ KeysDiffer' /\ SizeOK' /\ Allocated' = {}
           /\ Inv' => Map!Emptied
<1>1. ToSet(All) = Allocated
  <2>1. All = s /\ DOMAIN s = 1 .. Len(s)
    BY AllIs, CircleIs
  <2> QED
    BY <2>1 DEF ToSet, Elements
<1>2. pair' = [p \in Pair |-> NULL] /\ Allocated' = {}
  BY <1>1 DEF Allocated
<1>3. TypesOK' /\ KeysDiffer' /\ SizeOK'
  BY <1>2, FS_EmptySet DEF TypesOK, KeysDiffer, SizeOK
<1>4. Contents(Allocated) = Map!Entries(DOMAIN keyMap)
  <2>1. View
    BY ViewIs
  <2>2. \A p \in Allocated : <<pair[p].key, pair[p].value>> = <<pair[p].key, keyMap[pair[p].key]>>
    BY <2>1 DEF View
  <2>3. Map!Entries(DOMAIN keyMap) = {<<x, keyMap[x]>> : x \in DOMAIN keyMap}
    BY DEF Map!Entries
  <2>4. DOMAIN keyMap = {pair[p].key : p \in Allocated}
    BY <2>1 DEF View, Keys
  <2> QED
    BY <2>2, <2>3, <2>4 DEF Contents
<1>5. ASSUME Inv' PROVE Map!Emptied
  <2>1. View'
    BY <1>5, ViewNext
  <2>2. DOMAIN keyMap' = {} /\ keyMap' = [k \in DOMAIN keyMap' |-> keyMap'[k]]
    BY <1>2, <2>1 DEF View, Keys
  <2>3. keyMap' = Map!Empty
    BY <2>2 DEF Map!Empty
  <2>4. position' = NULL /\ passed' = {}
    BY <2>1 DEF View
  <2> QED
    BY <1>1, <1>4, <2>3, <2>4 DEF Map!Emptied, Map!Returns, Returns
<1> QED
  BY <1>2, <1>3, <1>5

\* An empty table that is ready for use.
LEMMA Fresh ==
    ASSUME TypesOK', KeysDiffer', SizeOK', Allocated' = {}, status' = "open",
           list' = list_init(NoLinks, Anchor), bucket' = EmptyBuckets(num_buckets')
    PROVE  Inv' /\ View'
<1>1. num_buckets' \in Nat \ {0}
  BY SizesAre DEF TypesOK, num_buckets
<1>2. Table' = [list |-> list_init(NoLinks, Anchor), bucket |-> EmptyBuckets(num_buckets')]
  BY DEF Table
<1>3. Holding(Table', <<>>, Code(num_buckets)', num_buckets') /\ Elements(<<>>) = {}
  BY <1>1, <1>2, NoLinksIsHeap, NoPairsYet
<1> QED
  BY <1>3, OpenNext

LEMMA ClearStep ==
    ASSUME Inv, Clear
    PROVE  Inv' /\ Map!Clear
<1>1. /\ Open /\ Returns("ok", Contents(ToSet(All)))
      /\ pair' = [p \in Pair |-> IF p \in ToSet(All) THEN NULL ELSE pair[p]]
      /\ bucket' = EmptyBuckets(num_buckets) /\ list' = list_init(NoLinks, Anchor)
      /\ iter' = NULL /\ order' = order /\ status' = status /\ size' = 0
  BY DEF Clear
<1>2. PICK s : Circle(list, s) /\ Elements(s) = Allocated
  BY <1>1, OpenIs
<1>3. order' \in 1 .. Len(Primes) /\ status' = "open" /\ num_buckets' = num_buckets
  BY <1>1 DEF Inv, TypesOK, Open, num_buckets
<1>4. TypesOK' /\ KeysDiffer' /\ SizeOK' /\ Allocated' = {} /\ (Inv' => Map!Emptied)
  BY <1>1, <1>2, <1>3, Emptied
<1>5. Inv'
  BY <1>1, <1>3, <1>4, Fresh
<1> QED
  BY <1>1, <1>4, <1>5 DEF Open, Map!Clear

LEMMA CloseStep ==
    ASSUME Inv, Close
    PROVE  Inv' /\ Map!Close
<1>1. /\ Usable /\ Returns("ok", Contents(ToSet(All)))
      /\ pair' = [p \in Pair |-> IF p \in ToSet(All) THEN NULL ELSE pair[p]]
      /\ iter' = NULL /\ order' = 1 /\ status' = "closed" /\ size' = 0
  BY DEF Close
<1>2. PICK s : Circle(list, s) /\ Elements(s) = Allocated
  BY <1>1, UsableIs DEF Listed
<1>3. order' \in 1 .. Len(Primes)
  BY <1>1, FirstSize
<1>4. TypesOK' /\ KeysDiffer' /\ SizeOK' /\ Allocated' = {} /\ (Inv' => Map!Emptied)
  BY <1>1, <1>2, <1>3, Emptied
<1>5. ListOK' /\ ClosedOK'
  BY <1>1, <1>4 DEF ListOK, ClosedOK
<1>6. Inv'
  BY <1>4, <1>5 DEF Inv
<1> QED
  BY <1>1, <1>4, <1>6, UsableIs DEF Map!Close

LEMMA CreateStep ==
    ASSUME Inv, Create
    PROVE  Inv' /\ Map!Create
<1>1. status = "closed" /\ Allocated = {} /\ order = 1 /\ iter = NULL /\ View
  BY ViewIs DEF Create, Inv, TypesOK, ClosedOK
<1>2. keyMap = Map!Empty
  <2>1. DOMAIN keyMap = {} /\ keyMap = [k \in DOMAIN keyMap |-> keyMap[k]]
    BY <1>1 DEF View, Keys
  <2> QED
    BY <2>1 DEF Map!Empty
<1>3. pair' = pair /\ iter' = iter /\ Allocated' = Allocated /\ keyMap' = keyMap
  BY DEF Create, Allocated, keyMap, MapOf
<1>4. position' = position /\ passed' = passed
  BY <1>1, <1>3 DEF position, passed
<1>5. CASE Returns("failed", {}) /\ UNCHANGED <<list, bucket, order, size, status>>
  <2>1. UNCHANGED tableVars /\ iter' \in Allocated \cup {NULL}
    BY <1>1, <1>3, <1>5 DEF tableVars
  <2> QED
    BY <1>1, <1>2, <1>3, <1>4, <1>5, <2>1, SameTable DEF Map!Create, Map!Returns, Returns
<1>6. CASE /\ list' = list_init(NoLinks, Anchor) /\ bucket' = EmptyBuckets(Primes[1]) /\ status' = "open"
           /\ UNCHANGED <<order, size>> /\ Returns("ok", {})
  <2>1. TypesOK' /\ KeysDiffer' /\ SizeOK' /\ num_buckets' = Primes[1]
    BY <1>1, <1>3, <1>6 DEF Inv, TypesOK, KeysDiffer, SizeOK, num_buckets
  <2>2. Inv'
    BY <1>1, <1>3, <1>6, <2>1, Fresh
  <2> QED
    BY <1>1, <1>2, <1>3, <1>4, <1>6, <2>2 DEF Map!Create, Map!Returns, Returns
<1> QED
  BY <1>5, <1>6 DEF Create

-----------------------------------------------------------------------------
LEMMA InitStep == Init => Inv /\ Map!Init
<1> SUFFICES ASSUME Init PROVE Inv /\ Map!Init
  OBVIOUS
<1>1. /\ list = list_init(NoLinks, Anchor) /\ bucket = EmptyBuckets(Primes[1]) /\ order = 1
      /\ pair = [p \in Pair |-> NULL] /\ status = "open" /\ iter = NULL /\ ret = NULL /\ freed = {}
      /\ size = 0
  BY DEF Init, NoPairs
<1>2. Allocated = {} /\ num_buckets = Primes[1] /\ Primes[1] \in Nat \ {0}
  BY <1>1, FirstSize, SizesAre DEF Allocated, num_buckets
<1>3. TypesOK /\ KeysDiffer /\ SizeOK /\ ClosedOK
  BY <1>1, <1>2, FirstSize, FS_EmptySet DEF TypesOK, KeysDiffer, SizeOK, ClosedOK
<1>4. Holding(Table, <<>>, Code(num_buckets), num_buckets) /\ Elements(<<>>) = {}
  BY <1>1, <1>2, NoLinksIsHeap, NoPairsYet DEF Table
<1>5. Listed(<<>>)
  BY <1>1, <1>2, <1>4 DEF Listed, Holding, Table
<1>6. Inv /\ View
  BY <1>3, <1>5, ViewIs DEF Inv, ListOK
<1>7. keyMap = Map!Empty
  <2>1. DOMAIN keyMap = {} /\ keyMap = [k \in DOMAIN keyMap |-> keyMap[k]]
    BY <1>2, <1>6 DEF View, Keys
  <2> QED
    BY <2>1 DEF Map!Empty
<1> QED
  BY <1>1, <1>6, <1>7 DEF Map!Init, View

LEMMA NextStep ==
    ASSUME Inv, [Next]_vars
    PROVE  Inv' /\ [Map!Next]_(Map!vars)
<1>1. ASSUME NEW k \in Key, Get(k) PROVE Inv' /\ Map!Next
  BY <1>1, GetStep DEF Map!Next
<1>2. ASSUME NEW k \in Key, Del(k) PROVE Inv' /\ Map!Next
  BY <1>2, DelStep DEF Map!Next
<1>3. ASSUME NEW k \in Key, IterAt(k) PROVE Inv' /\ Map!Next
  BY <1>3, IterAtStep DEF Map!Next
<1>4. ASSUME NEW k \in Key, NEW v \in Value, Set(k, v) PROVE Inv' /\ Map!Next
  BY <1>4, SetStep DEF Map!Next
<1>5. ASSUME NEW v \in Value, IterSet(v) PROVE Inv' /\ Map!Next
  BY <1>5, IterSetStep DEF Map!Next
<1>6. CASE RehashFails
  BY <1>6, RehashFailsStep DEF Map!Next
<1>7. CASE Clear
  BY <1>7, ClearStep DEF Map!Next
<1>8. CASE Close
  BY <1>8, CloseStep DEF Map!Next
<1>9. CASE Create
  BY <1>9, CreateStep DEF Map!Next
<1>10. CASE Iter
  BY <1>10, IterStep DEF Map!Next
<1>11. CASE IterNext
  BY <1>11, IterNextStep DEF Map!Next
<1>12. CASE UNCHANGED vars
  <2>1. UNCHANGED tableVars /\ UNCHANGED <<iter, ret, freed>> /\ iter' \in Allocated \cup {NULL}
    BY <1>12 DEF vars, Inv, TypesOK
  <2>2. Inv' /\ keyMap' = keyMap
    BY <2>1, SameTable
  <2>3. position' = position /\ passed' = passed /\ status' = status
    BY <2>1 DEF tableVars, position, passed
  <2> QED
    BY <2>1, <2>2, <2>3 DEF Map!vars
<1>13. CASE Lost
  BY <1>13, LostStep DEF Map!Next
<1> QED
  BY <1>1, <1>2, <1>3, <1>4, <1>5, <1>6, <1>7, <1>8, <1>9, <1>10, <1>11, <1>12, <1>13 DEF Next

(***************************************************************************)
(* hashtable.c keeps its pairs in one circle, each key once, and those of  *)
(* a bucket side by side and within the bounds its bucket names; but after *)
(* a rehash that has failed there are no buckets, and only the circle is   *)
(* kept.                                                                   *)
(***************************************************************************)
THEOREM TableKept == Spec => []Inv
BY InitStep, NextStep, PTL DEF Spec

(***************************************************************************)
(* hashtable.h: to its user the table is a map with an iterator that meets *)
(* every key once.  Collisions, rehashes, deletions under the iterator and *)
(* pairs that cannot be allocated do not show, whatever the hash, the keys *)
(* and the number of pairs.  When the buckets of a rehash cannot be        *)
(* allocated, the iterator, updates through it and hashtable_close still   *)
(* behave so, until another call is made.                                  *)
(***************************************************************************)
THEOREM TableIsMap == Spec => ImplementsMap
BY InitStep, NextStep, PTL DEF Spec, ImplementsMap, Map!Spec
=============================================================================
