---------------------------- MODULE EListProofs ----------------------------
(***************************************************************************)
(* The operations of elist.h do to the sequence a list holds what their    *)
(* comments say, for every list and every node.  At the end, induction and *)
(* recursion over the natural numbers, for the proofs that need them.      *)
(***************************************************************************)
EXTENDS EList, SequenceTheorems, WellFoundedInduction, TLAPS

\* x is not part of the circle of head and s.
Outside(x, head, s) == x \in Node /\ \A i \in 0 .. Len(s) : At(head, s, i) # x

\* The node after position i of the circle.
After(head, s, i) == IF i = Len(s) THEN head ELSE s[i + 1]

LEMMA CircleNodes ==
    ASSUME NEW head, NEW s, Distinct(head, s)
    PROVE  /\ Len(s) \in Nat /\ s \in Seq(Node) /\ head \in Node
           /\ At(head, s, 0) = head
           /\ \A i \in 1 .. Len(s) : At(head, s, i) = s[i] /\ s[i] \in Node
           /\ \A i \in 0 .. Len(s) : At(head, s, i) \in Node /\ After(head, s, i) \in Node
           /\ \A i, j \in 0 .. Len(s) : At(head, s, i) = At(head, s, j) => i = j
           /\ \A i, j \in 0 .. Len(s) : After(head, s, i) = After(head, s, j) => i = j
BY DEF Distinct, At, After

\* What Holds says, all the way round the circle.
LEMMA Round ==
    ASSUME NEW h, NEW head, NEW s, Distinct(head, s)
    PROVE  Holds(h, head, s) <=>
               \A i \in 0 .. Len(s) : /\ h.next[At(head, s, i)] = After(head, s, i)
                                      /\ h.prev[After(head, s, i)] = At(head, s, i)
<1>1. Len(s) \in Nat
    BY DEF Distinct
<1>2. \A i \in 0 .. Len(s) : i = Len(s) \/ (i # Len(s) /\ i \in 0 .. Len(s) - 1)
    BY <1>1
<1>3. \A i \in 0 .. Len(s) - 1 : i \in 0 .. Len(s) /\ i # Len(s)
    BY <1>1
<1>4. Len(s) \in 0 .. Len(s)
    BY <1>1
<1> QED
    BY <1>2, <1>3, <1>4 DEF Holds, After

\* s with x after its entry k.
With(s, k, x) == [i \in 1 .. Len(s) + 1 |-> IF i <= k THEN s[i] ELSE IF i = k + 1 THEN x ELSE s[i - 1]]

LEMMA WithType ==
    ASSUME NEW s \in Seq(Node), NEW k, NEW x \in Node, k \in 0 .. Len(s)
    PROVE  With(s, k, x) \in Seq(Node) /\ Len(With(s, k, x)) = Len(s) + 1
<1>1. \A i \in 1 .. Len(s) + 1 : With(s, k, x)[i] \in Node
    BY DEF With
<1> QED
    BY <1>1 DEF With

(***************************************************************************)
(* __list_add (elist.h:35-44) between two neighbours puts the new entry    *)
(* between them and leaves the others in their order.                      *)
(***************************************************************************)
THEOREM EntryAdded ==
    ASSUME NEW h \in Heap, NEW head, NEW s, Distinct(head, s), Holds(h, head, s),
           NEW x, Outside(x, head, s), NEW k \in 0 .. Len(s),
           NEW g, g = list_add_between(h, x, At(head, s, k), After(head, s, k))
    PROVE  g \in Heap /\ Distinct(head, With(s, k, x)) /\ Holds(g, head, With(s, k, x))
<1> DEFINE n == Len(s)
           p == At(head, s, k)
           q == After(head, s, k)
           t == With(s, k, x)
           old(i) == IF i <= k THEN i ELSE i - 1
<1>1. n \in Nat /\ k \in Nat /\ k <= n
    BY CircleNodes
<1>2. x \in Node /\ \A i \in 0 .. n : At(head, s, i) # x /\ After(head, s, i) # x
    BY CircleNodes DEF Outside, After
<1>3. p \in Node /\ q \in Node /\ p # x /\ q # x
    BY <1>2, CircleNodes
<1>4. g \in Heap
    BY <1>2, <1>3 DEF list_add_between, Heap
<1>5. \A y \in Node : /\ g.next[y] = IF y = p THEN x ELSE IF y = x THEN q ELSE h.next[y]
                      /\ g.prev[y] = IF y = x THEN p ELSE IF y = q THEN x ELSE h.prev[y]
    BY <1>2, <1>3 DEF list_add_between, Heap
<1>6. t \in Seq(Node) /\ Len(t) = n + 1
    <2>1. \A i \in 1 .. n + 1 : t[i] \in Node
        BY <1>1, <1>2, CircleNodes DEF With
    <2> QED
        BY <2>1, <1>1 DEF With
<1>7. \A i \in 0 .. n + 1 : At(head, t, i) = IF i = k + 1 THEN x ELSE At(head, s, old(i))
    BY <1>1, <1>6 DEF At, With
<1>8. \A i \in 0 .. n + 1 : After(head, t, i) = IF i = k THEN x ELSE After(head, s, old(i))
    BY <1>1, <1>6 DEF After, With
<1>9. \A i \in 0 .. n + 1 : i # k + 1 => old(i) \in 0 .. n
    BY <1>1
<1>10. \A i, j \in 0 .. n + 1 : i # k + 1 /\ j # k + 1 /\ old(i) = old(j) => i = j
    BY <1>1
<1>11. Distinct(head, t)
    <2> SUFFICES ASSUME NEW i \in 0 .. n + 1, NEW j \in 0 .. n + 1, At(head, t, i) = At(head, t, j)
                 PROVE i = j
        BY <1>6, CircleNodes DEF Distinct
    <2>1. CASE i = k + 1 \/ j = k + 1
        BY <2>1, <1>2, <1>7, <1>9
    <2>2. CASE i # k + 1 /\ j # k + 1
        <3>1. At(head, s, old(i)) = At(head, s, old(j))
            BY <2>2, <1>7
        <3>2. old(i) \in 0 .. n /\ old(j) \in 0 .. n
            BY <2>2, <1>9
        <3>3. old(i) = old(j)
            BY <3>1, <3>2, CircleNodes
        <3> QED
            BY <2>2, <3>3, <1>10
    <2> QED
        BY <2>1, <2>2
<1>12. ASSUME NEW i \in 0 .. n + 1
       PROVE g.next[At(head, t, i)] = After(head, t, i) /\ g.prev[After(head, t, i)] = At(head, t, i)
    <2>1. CASE i = k
        <3>1. At(head, t, i) = p /\ After(head, t, i) = x
            BY <2>1, <1>1, <1>7, <1>8
        <3> QED
            BY <3>1, <1>2, <1>3, <1>5
    <2>2. CASE i = k + 1
        <3>1. At(head, t, i) = x /\ After(head, t, i) = q
            BY <2>2, <1>1, <1>7, <1>8
        <3> QED
            BY <3>1, <1>2, <1>3, <1>5
    <2>3. CASE i # k /\ i # k + 1
        <3> DEFINE j == old(i)
        <3>1. j \in 0 .. n /\ j # k
            BY <2>3, <1>1
        <3>2. At(head, t, i) = At(head, s, j) /\ After(head, t, i) = After(head, s, j)
            BY <2>3, <1>7, <1>8
        <3>3. h.next[At(head, s, j)] = After(head, s, j) /\ h.prev[After(head, s, j)] = At(head, s, j)
            BY <3>1, Round
        <3>4. At(head, s, j) # p /\ After(head, s, j) # q /\ At(head, s, j) # x /\ After(head, s, j) # x
            BY <3>1, <1>2, CircleNodes
        <3>5. At(head, s, j) \in Node /\ After(head, s, j) \in Node
            BY <3>1, CircleNodes
        <3> QED
            BY <3>2, <3>3, <3>4, <3>5, <1>5
    <2> QED
        BY <2>1, <2>2, <2>3
<1>13. Holds(g, head, t)
    BY <1>6, <1>11, <1>12, Round
<1> QED
    BY <1>4, <1>11, <1>13

(***************************************************************************)
(* list_add_tail (elist.h:61-64) makes the new entry the last one, as      *)
(* tq_push needs it.                                                       *)
(***************************************************************************)
THEOREM TailAdded ==
    ASSUME NEW h \in Heap, NEW head, NEW s, Distinct(head, s), Holds(h, head, s),
           NEW x, Outside(x, head, s)
    PROVE  /\ list_add_tail(h, x, head) \in Heap
           /\ Distinct(head, Append(s, x))
           /\ Holds(list_add_tail(h, x, head), head, Append(s, x))
<1>1. With(s, Len(s), x) = Append(s, x) /\ Len(s) \in 0 .. Len(s)
    <2>1. s \in Seq(Node) /\ x \in Node /\ Len(s) \in Nat
        BY CircleNodes DEF Outside
    <2>2. Append(s, x) \in Seq(Node) /\ Len(Append(s, x)) = Len(s) + 1
        BY <2>1
    <2>3. With(s, Len(s), x) \in Seq(Node) /\ Len(With(s, Len(s), x)) = Len(s) + 1
        <3>1. Len(s) \in 0 .. Len(s)
            BY <2>1
        <3> QED
            BY <2>1, <3>1, WithType
    <2>4. \A i \in 1 .. Len(s) + 1 : Append(s, x)[i] = With(s, Len(s), x)[i]
        <3>1. \A i \in 1 .. Len(s) : Append(s, x)[i] = s[i] /\ With(s, Len(s), x)[i] = s[i]
            BY <2>1 DEF With
        <3>2. Append(s, x)[Len(s) + 1] = x /\ With(s, Len(s), x)[Len(s) + 1] = x
            BY <2>1 DEF With
        <3>3. \A i \in 1 .. Len(s) + 1 : i \in 1 .. Len(s) \/ i = Len(s) + 1
            BY <2>1
        <3> QED
            BY <3>1, <3>2, <3>3
    <2>5. Append(s, x) = With(s, Len(s), x)
        BY <2>2, <2>3, <2>4, SeqEqual, Zenon
    <2> QED
        BY <2>1, <2>5
<1>2. list_add_tail(h, x, head) = list_add_between(h, x, At(head, s, Len(s)), After(head, s, Len(s)))
    BY DEF list_add_tail, Holds, After
<1> QED
    BY <1>1, <1>2, EntryAdded

(***************************************************************************)
(* list_add (elist.h:48-51) makes it the first one.                        *)
(***************************************************************************)
THEOREM HeadAdded ==
    ASSUME NEW h \in Heap, NEW head, NEW s, Distinct(head, s), Holds(h, head, s),
           NEW x, Outside(x, head, s)
    PROVE  /\ list_add(h, x, head) \in Heap
           /\ Distinct(head, <<x>> \o s)
           /\ Holds(list_add(h, x, head), head, <<x>> \o s)
<1>1. 0 \in 0 .. Len(s) /\ At(head, s, 0) = head
    BY CircleNodes
<1>2. With(s, 0, x) = <<x>> \o s
    <2>1. s \in Seq(Node) /\ x \in Node /\ Len(s) \in Nat
        BY CircleNodes DEF Outside
    <2>2. Len(<<x>> \o s) = Len(s) + 1 /\ <<x>> \o s \in Seq(Node)
        BY <2>1
    <2>3. \A i \in 1 .. Len(s) + 1 : (<<x>> \o s)[i] = With(s, 0, x)[i]
        BY <2>1 DEF With
    <2> QED
        BY <2>1, <2>2, <2>3 DEF With
<1>3. list_add(h, x, head) = list_add_between(h, x, At(head, s, 0), After(head, s, 0))
    BY <1>1, Round DEF list_add
<1> QED
    BY <1>1, <1>2, <1>3, EntryAdded

\* s without its entry k.
Without(s, k) == [i \in 1 .. Len(s) - 1 |-> IF i < k THEN s[i] ELSE s[i + 1]]

LEMMA LinksRemain ==
    ASSUME NEW h \in Heap, NEW head, NEW s, Distinct(head, s), Holds(h, head, s),
           NEW k \in 1 .. Len(s), NEW g,
           \A y \in Node \ {s[k]} : /\ g.next[y] = unlink(h, s[k]).next[y]
                                    /\ g.prev[y] = unlink(h, s[k]).prev[y]
    PROVE  /\ Distinct(head, Without(s, k))
           /\ Outside(s[k], head, Without(s, k))
           /\ Holds(g, head, Without(s, k))
<1> DEFINE n == Len(s)
           x == s[k]
           p == At(head, s, k - 1)
           q == After(head, s, k)
           t == Without(s, k)
           old(i) == IF i < k THEN i ELSE i + 1
<1>1. n \in Nat /\ k \in Nat /\ 1 <= k /\ k <= n
    BY CircleNodes
<1>2. x = At(head, s, k) /\ x = After(head, s, k - 1) /\ k - 1 \in 0 .. n /\ k \in 0 .. n
    BY <1>1, CircleNodes DEF After
<1>3. x \in Node /\ p \in Node /\ q \in Node
    BY <1>2, CircleNodes
<1>4. h.next[x] = q /\ h.prev[x] = p
    <2>1. \A i \in 0 .. n : /\ h.next[At(head, s, i)] = After(head, s, i)
                             /\ h.prev[After(head, s, i)] = At(head, s, i)
        BY Round
    <2>2. h.prev[After(head, s, k - 1)] = At(head, s, k - 1)
        BY <2>1, <1>2
    <2> QED
        BY <1>2, <2>1, <2>2
<1>5. \A y \in Node \ {x} : /\ g.next[y] = IF y = p THEN q ELSE h.next[y]
                            /\ g.prev[y] = IF y = q THEN p ELSE h.prev[y]
    BY <1>3, <1>4 DEF unlink, list_del_between, Heap
<1>6. t \in Seq(Node) /\ Len(t) = n - 1
    <2>1. \A i \in 1 .. n - 1 : t[i] \in Node
        BY <1>1, CircleNodes DEF Without
    <2> QED
        BY <2>1, <1>1 DEF Without
<1>7. \A i \in 0 .. n - 1 : /\ old(i) \in 0 .. n /\ old(i) # k
                            /\ At(head, t, i) = At(head, s, old(i))
    BY <1>1, <1>6 DEF At, Without
<1>8. \A i \in 0 .. n - 1 : i # k - 1 => After(head, t, i) = After(head, s, old(i)) /\ old(i) # k - 1
    BY <1>1, <1>6 DEF After, Without
<1>9. After(head, t, k - 1) = q
    BY <1>1, <1>6 DEF After, Without
<1>10. \A i, j \in 0 .. n - 1 : old(i) = old(j) => i = j
    BY <1>1
<1>11. Distinct(head, t)
    <2> SUFFICES ASSUME NEW i \in 0 .. n - 1, NEW j \in 0 .. n - 1, At(head, t, i) = At(head, t, j)
                 PROVE i = j
        BY <1>6, CircleNodes DEF Distinct
    <2>1. old(i) = old(j)
        BY <1>7, CircleNodes
    <2> QED
        BY <2>1, <1>10
<1>12. \A i \in 0 .. n - 1 : At(head, t, i) # x
    BY <1>2, <1>7, CircleNodes
<1>13. ASSUME NEW i \in 0 .. n - 1
       PROVE g.next[At(head, t, i)] = After(head, t, i) /\ g.prev[After(head, t, i)] = At(head, t, i)
    <2> DEFINE j == old(i)
    <2>1. j \in 0 .. n /\ j # k /\ At(head, t, i) = At(head, s, j)
        BY <1>7
    <2>2. At(head, s, j) \in Node /\ At(head, s, j) # x
        BY <2>1, <1>2, CircleNodes
    <2>3. CASE i = k - 1
        <3>1. j = k - 1 /\ At(head, s, j) = p
            BY <2>3, <1>1
        <3>2. q # x
            <4>1. CASE k = n
                BY <4>1, <1>1, <1>2, CircleNodes DEF After
            <4>2. CASE k # n
                <5>1. q = s[k + 1] /\ k + 1 \in 1 .. n /\ q = At(head, s, k + 1) /\ k + 1 # k
                    BY <4>2, <1>1, CircleNodes DEF After
                <5> QED
                    BY <5>1, <1>1, <1>2, CircleNodes
            <4> QED
                BY <4>1, <4>2
        <3> QED
            BY <2>1, <2>2, <2>3, <3>1, <3>2, <1>3, <1>5, <1>9
    <2>4. CASE i # k - 1
        <3>1. After(head, t, i) = After(head, s, j) /\ j # k - 1
            BY <2>4, <1>8
        <3>2. h.next[At(head, s, j)] = After(head, s, j) /\ h.prev[After(head, s, j)] = At(head, s, j)
            BY <2>1, Round
        <3>3. At(head, s, j) # p /\ After(head, s, j) # q /\ After(head, s, j) # x
            BY <2>1, <3>1, <1>2, CircleNodes
        <3>4. After(head, s, j) \in Node
            BY <2>1, CircleNodes
        <3> QED
            BY <2>1, <2>2, <3>1, <3>2, <3>3, <3>4, <1>5
    <2> QED
        BY <2>3, <2>4
<1>14. Holds(g, head, t)
    BY <1>6, <1>11, <1>13, Round
<1>15. Outside(x, head, t)
    BY <1>3, <1>6, <1>12 DEF Outside
<1> QED
    BY <1>11, <1>14, <1>15

(***************************************************************************)
(* list_del (elist.h:83-88) takes any entry out of its list and leaves the *)
(* others in their order; the entry points nowhere.                        *)
(***************************************************************************)
THEOREM EntryDeleted ==
    ASSUME NEW h \in Heap, NEW head, NEW s, Distinct(head, s), Holds(h, head, s),
           NEW k \in 1 .. Len(s)
    PROVE  /\ list_del(h, s[k]) \in Heap
           /\ Distinct(head, Without(s, k))
           /\ Holds(list_del(h, s[k]), head, Without(s, k))
           /\ list_del(h, s[k]).next[s[k]] = Nil /\ list_del(h, s[k]).prev[s[k]] = Nil
<1> DEFINE x == s[k]
           u == unlink(h, x)
<1>1. x = At(head, s, k) /\ k \in 0 .. Len(s) /\ x = After(head, s, k - 1) /\ k - 1 \in 0 .. Len(s)
    BY CircleNodes DEF After
<1>2. x \in Node /\ h.prev[x] \in Node /\ h.next[x] \in Node
    BY <1>1, CircleNodes, Round
<1>3. u \in Heap
    BY <1>2 DEF unlink, list_del_between, Heap
<1>4. list_del(h, x) \in Heap
    BY <1>2, <1>3 DEF list_del, Heap
<1>5. \A y \in Node \ {x} : list_del(h, x).next[y] = u.next[y] /\ list_del(h, x).prev[y] = u.prev[y]
    BY <1>2, <1>3 DEF list_del, Heap
<1>6. list_del(h, x).next[x] = Nil /\ list_del(h, x).prev[x] = Nil
    BY <1>2, <1>3 DEF list_del, Heap
<1> QED
    BY <1>4, <1>5, <1>6, LinksRemain

(***************************************************************************)
(* tq_pop takes the oldest entry: what list_del leaves of a list without   *)
(* its first entry is the tail of the sequence.                            *)
(***************************************************************************)
THEOREM FirstDeleted ==
    ASSUME NEW h \in Heap, NEW head, NEW s, Distinct(head, s), Holds(h, head, s),
           ~list_empty(h, head)
    PROVE  /\ s # <<>> /\ h.next[head] = Head(s)
           /\ list_del(h, h.next[head]) \in Heap
           /\ Distinct(head, Tail(s))
           /\ Holds(list_del(h, h.next[head]), head, Tail(s))
<1>1. Len(s) \in Nat /\ s \in Seq(Node)
    BY CircleNodes
<1>2. 0 \in 0 .. Len(s) /\ At(head, s, 0) = head
    BY <1>1, CircleNodes
<1>3. Len(s) # 0
    BY <1>2, Round DEF list_empty, After
<1>4. 1 \in 1 .. Len(s) /\ h.next[head] = s[1]
    BY <1>1, <1>2, <1>3, Round DEF After
<1>5. s # <<>> /\ Head(s) = s[1]
    BY <1>1, <1>3
<1>6. Without(s, 1) = Tail(s)
    <2>1. Tail(s) \in Seq(Node) /\ Len(Tail(s)) = Len(s) - 1
        BY <1>1, <1>5
    <2>2. Without(s, 1) \in Seq(Node) /\ Len(Without(s, 1)) = Len(s) - 1
        <3>1. \A i \in 1 .. Len(s) - 1 : Without(s, 1)[i] \in Node
            BY <1>1 DEF Without
        <3> QED
            BY <3>1, <1>1, <1>4 DEF Without
    <2>3. \A i \in 1 .. Len(s) - 1 : Without(s, 1)[i] = Tail(s)[i]
        BY <1>1, <1>5 DEF Without
    <2> QED
        BY <2>1, <2>2, <2>3, SeqEqual, Zenon
<1>7. /\ list_del(h, s[1]) \in Heap
      /\ Distinct(head, Without(s, 1))
      /\ Holds(list_del(h, s[1]), head, Without(s, 1))
    BY <1>4, EntryDeleted
<1> QED
    BY <1>4, <1>5, <1>6, <1>7

\* Two lists have no node in common.
Apart(head, s, other, r) == \A i \in 0 .. Len(s), j \in 0 .. Len(r) : At(head, s, i) # At(other, r, j)

\* A list stays what it is while nobody writes to its nodes.
LEMMA Untouched ==
    ASSUME NEW h, NEW head, NEW s, Distinct(head, s), Holds(h, head, s), NEW g,
           \A i \in 0 .. Len(s) : /\ g.next[At(head, s, i)] = h.next[At(head, s, i)]
                                  /\ g.prev[At(head, s, i)] = h.prev[At(head, s, i)]
    PROVE  Holds(g, head, s)
<1>1. Len(s) \in Nat
    BY CircleNodes
<1>2. ASSUME NEW i \in 0 .. Len(s)
      PROVE  /\ g.next[At(head, s, i)] = After(head, s, i)
             /\ g.prev[After(head, s, i)] = At(head, s, i)
    <2>1. h.next[At(head, s, i)] = After(head, s, i) /\ h.prev[After(head, s, i)] = At(head, s, i)
        BY Round
    <2>2. PICK j \in 0 .. Len(s) : After(head, s, i) = At(head, s, j)
        <3>1. CASE i = Len(s)
            BY <3>1, <1>1 DEF After, At
        <3>2. CASE i # Len(s)
            BY <3>2, <1>1 DEF After, At
        <3> QED
            BY <3>1, <3>2
    <2> QED
        BY <2>1, <2>2
<1> QED
    BY <1>2, Round

(***************************************************************************)
(* list_splice (elist.h:136-159) puts the entries of one list, if it has   *)
(* any, before those of the other, both in their order.                    *)
(***************************************************************************)
THEOREM ListsSpliced ==
    ASSUME NEW h \in Heap, NEW head, NEW s, Distinct(head, s), Holds(h, head, s),
           NEW from, NEW r, Distinct(from, r), Holds(h, from, r), Apart(head, s, from, r),
           r # <<>>, NEW g, g = list_splice(h, from, head)
    PROVE  g \in Heap /\ Distinct(head, r \o s) /\ Holds(g, head, r \o s)
<1> DEFINE n == Len(s)
           m == Len(r)
           t == r \o s
           first == r[1]
           last == r[m]
           at == After(head, s, 0)
<1>1. n \in Nat /\ m \in Nat /\ s \in Seq(Node) /\ r \in Seq(Node) /\ head \in Node /\ m > 0
    <2>1. n \in Nat /\ m \in Nat /\ s \in Seq(Node) /\ r \in Seq(Node) /\ head \in Node
        BY CircleNodes
    <2>2. m # 0
        BY <2>1, EmptySeq, Zenon
    <2> QED
        BY <2>1, <2>2
<1>2. /\ h.next[head] = at
      /\ h.next[from] = first /\ h.prev[from] = last /\ first # from
    <2>1. 0 \in 0 .. n /\ 0 \in 0 .. m /\ m \in 0 .. m /\ 1 \in 0 .. m
        BY <1>1
    <2>2. h.next[At(head, s, 0)] = at /\ h.next[At(from, r, 0)] = After(from, r, 0)
          /\ h.prev[After(from, r, m)] = At(from, r, m)
        BY <2>1, Round
    <2>3. At(head, s, 0) = head /\ At(from, r, 0) = from /\ After(from, r, 0) = first
          /\ After(from, r, m) = from /\ At(from, r, m) = last /\ At(from, r, 1) = first
        BY <1>1 DEF At, After
    <2>4. At(from, r, 0) # At(from, r, 1)
        BY <2>1 DEF Distinct
    <2> QED
        BY <2>2, <2>3, <2>4
<1>3. g = [next |-> [h.next EXCEPT ![head] = first, ![last] = at],
           prev |-> [h.prev EXCEPT ![first] = head, ![at] = last]]
    <2>1. ~list_empty(h, from)
        BY <1>2 DEF list_empty
    <2> QED
        BY <2>1, <1>2 DEF list_splice
<1>4. first \in Node /\ last \in Node /\ at \in Node /\ head \in Node
    BY <1>1, CircleNodes
\* The nodes of the two circles.
<1>5. \A i \in 0 .. n : \A j \in 1 .. m : At(head, s, i) # r[j] /\ After(head, s, i) # r[j]
    <2>1. \A i \in 0 .. n : \A j \in 1 .. m : At(head, s, i) # r[j]
        BY <1>1 DEF Apart, At
    <2>2. \A i \in 0 .. n : \E k \in 0 .. n : After(head, s, i) = At(head, s, k)
        <3> SUFFICES ASSUME NEW i \in 0 .. n PROVE \E k \in 0 .. n : After(head, s, i) = At(head, s, k)
            OBVIOUS
        <3>1. CASE i = n
            BY <3>1, <1>1 DEF After, At
        <3>2. CASE i # n
            BY <3>2, <1>1 DEF After, At
        <3> QED
            BY <3>1, <3>2
    <2> QED
        BY <2>1, <2>2
<1>6. \A i, j \in 1 .. m : r[i] = r[j] => i = j
    <2>1. \A i \in 1 .. m : i \in 0 .. m /\ At(from, r, i) = r[i]
        BY <1>1 DEF At
    <2> QED
        BY <2>1 DEF Distinct
<1>7. head # last /\ at # first
    <2>1. 0 \in 0 .. n /\ At(head, s, 0) = head /\ 1 \in 1 .. m /\ m \in 1 .. m
        BY <1>1, CircleNodes
    <2> QED
        BY <2>1, <1>5
<1>8. /\ g \in Heap
      /\ \A y \in Node : /\ g.next[y] = IF y = head THEN first ELSE IF y = last THEN at ELSE h.next[y]
                         /\ g.prev[y] = IF y = first THEN head ELSE IF y = at THEN last ELSE h.prev[y]
    BY <1>3, <1>4, <1>7 DEF Heap
<1>9. /\ t \in Seq(Node) /\ Len(t) = m + n
      /\ \A i \in 1 .. m + n : t[i] = IF i <= m THEN r[i] ELSE s[i - m]
    BY <1>1
<1> HIDE DEF t
<1>10. \A i \in 0 .. m + n : /\ i = 0 => At(head, t, i) = head
                             /\ i \in 1 .. m => At(head, t, i) = r[i]
                             /\ i > m => i - m \in 1 .. n /\ At(head, t, i) = At(head, s, i - m)
    BY <1>1, <1>9 DEF At
<1>11. \A i \in 0 .. m + n : /\ i < m => i + 1 \in 1 .. m /\ After(head, t, i) = r[i + 1]
                             /\ i >= m => i - m \in 0 .. n /\ After(head, t, i) = After(head, s, i - m)
    <2> SUFFICES ASSUME NEW i \in 0 .. m + n
                 PROVE  /\ i < m => i + 1 \in 1 .. m /\ After(head, t, i) = r[i + 1]
                        /\ i >= m => i - m \in 0 .. n /\ After(head, t, i) = After(head, s, i - m)
        OBVIOUS
    <2>1. ASSUME i < m PROVE i + 1 \in 1 .. m /\ After(head, t, i) = r[i + 1]
        BY <2>1, <1>1, <1>9 DEF After
    <2>2. ASSUME i >= m PROVE i - m \in 0 .. n /\ After(head, t, i) = After(head, s, i - m)
        <3>1. i - m \in 0 .. n /\ (i = m + n <=> i - m = n)
            BY <2>2, <1>1
        <3>2. i # m + n => i + 1 \in 1 .. m + n /\ ~(i + 1 <= m) /\ (i + 1) - m = (i - m) + 1
            BY <2>2, <1>1
        <3> QED
            BY <3>1, <3>2, <1>1, <1>9 DEF After
    <2> QED
        BY <2>1, <2>2
<1>12. Distinct(head, t)
    <2> SUFFICES ASSUME NEW i \in 0 .. m + n, NEW j \in 0 .. m + n, At(head, t, i) = At(head, t, j)
                 PROVE i = j
        BY <1>1, <1>9 DEF Distinct
    <2> DEFINE p(k) == IF k = 0 THEN 0 ELSE k - m
    <2>1. ASSUME NEW k \in 0 .. m + n, k \notin 1 .. m
          PROVE  p(k) \in 0 .. n /\ At(head, t, k) = At(head, s, p(k))
        <3>1. At(head, s, 0) = head
            BY DEF At
        <3>2. CASE k = 0
            BY <3>1, <3>2, <1>1, <1>10
        <3>3. CASE k # 0
            BY <2>1, <3>3, <1>1, <1>10
        <3> QED
            BY <3>2, <3>3
    <2>2. CASE i \in 1 .. m /\ j \in 1 .. m
        BY <2>2, <1>6, <1>10
    <2>3. CASE i \in 1 .. m /\ j \notin 1 .. m
        BY <2>1, <2>3, <1>5, <1>10
    <2>4. CASE i \notin 1 .. m /\ j \in 1 .. m
        BY <2>1, <2>4, <1>5, <1>10
    <2>5. CASE i \notin 1 .. m /\ j \notin 1 .. m
        <3>1. At(head, s, p(i)) = At(head, s, p(j)) /\ p(i) \in 0 .. n /\ p(j) \in 0 .. n
            BY <2>1, <2>5
        <3>2. p(i) = p(j)
            BY <3>1, CircleNodes
        <3> QED
            BY <2>5, <3>2, <1>1
    <2> QED
        BY <2>2, <2>3, <2>4, <2>5
<1>13. ASSUME NEW i \in 0 .. m + n
       PROVE g.next[At(head, t, i)] = After(head, t, i) /\ g.prev[After(head, t, i)] = At(head, t, i)
    <2>1. CASE i = 0
        <3>1. At(head, t, i) = head /\ After(head, t, i) = first
            BY <2>1, <1>1, <1>10, <1>11
        <3> QED
            BY <3>1, <1>4, <1>8
    <2>2. CASE i # 0 /\ i < m
        <3>1. i \in 1 .. m /\ i + 1 \in 1 .. m /\ At(head, t, i) = r[i] /\ After(head, t, i) = r[i + 1]
            BY <2>2, <1>1, <1>10, <1>11
        <3>2. h.next[r[i]] = r[i + 1] /\ h.prev[r[i + 1]] = r[i]
            <4>1. i \in 0 .. m /\ At(from, r, i) = r[i] /\ After(from, r, i) = r[i + 1]
                BY <2>2, <3>1, <1>1 DEF At, After
            <4> QED
                BY <4>1, Round
        <3>3. r[i] # last /\ r[i + 1] # first
            BY <2>2, <3>1, <1>1, <1>6
        <3>4. r[i] # head /\ r[i + 1] # at
            <4>1. 0 \in 0 .. n /\ At(head, s, 0) = head
                BY <1>1, CircleNodes
            <4> QED
                BY <3>1, <4>1, <1>5
        <3>5. r[i] \in Node /\ r[i + 1] \in Node
            BY <3>1, <1>1
        <3> QED
            BY <3>1, <3>2, <3>3, <3>4, <3>5, <1>8
    <2>3. CASE i = m
        <3>1. i \in 1 .. m /\ i - m = 0
            BY <2>3, <1>1
        <3>2. At(head, t, i) = last /\ After(head, t, i) = at
            BY <2>3, <3>1, <1>1, <1>10, <1>11
        <3> QED
            BY <3>2, <1>4, <1>7, <1>8
    <2>4. CASE i > m
        <3> DEFINE j == i - m
        <3>1. j \in 1 .. n /\ j \in 0 .. n /\ j # 0 /\ 0 \in 0 .. n
            BY <2>4, <1>1
        <3>2. At(head, t, i) = At(head, s, j) /\ After(head, t, i) = After(head, s, j)
            BY <2>4, <1>1, <1>10, <1>11
        <3>3. h.next[At(head, s, j)] = After(head, s, j) /\ h.prev[After(head, s, j)] = At(head, s, j)
            BY <3>1, Round
        <3>4. At(head, s, j) # head /\ After(head, s, j) # at
            <4>1. At(head, s, 0) = head
                BY DEF At
            <4> QED
                BY <3>1, <4>1, CircleNodes
        <3>5. At(head, s, j) # last /\ After(head, s, j) # first
            BY <3>1, <1>1, <1>5
        <3>6. At(head, s, j) \in Node /\ After(head, s, j) \in Node
            BY <3>1, CircleNodes
        <3> QED
            BY <3>2, <3>3, <3>4, <3>5, <3>6, <1>8
    <2> QED
        BY <1>1, <2>1, <2>2, <2>3, <2>4
<1>14. Holds(g, head, t)
    BY <1>9, <1>12, <1>13, Round
<1> QED
    BY <1>8, <1>12, <1>14 DEF t

-----------------------------------------------------------------------------
(* Induction and recursion over the natural numbers. *)

LEMMA Least ==
    ASSUME NEW S \in SUBSET Nat, S # {}
    PROVE  \E m \in S : \A k \in S : m <= k
<1>1. IsWellFoundedOn(OpToRel(<, Nat), Nat)
  BY NatLessThanWellFounded, Zenon
<1>2. PICK m \in S : \A k \in S : <<k, m>> \notin OpToRel(<, Nat)
  BY <1>1, WFMin, Zenon
<1>3. \A k \in S : k < m => <<k, m>> \in OpToRel(<, Nat)
  BY Zenon DEF OpToRel
<1>4. \A k \in S : ~(k < m)
  BY <1>2, <1>3, Zenon
<1> QED
  BY <1>4

\* A set that has 0 and with n also n + 1 has every number.
LEMMA Induction ==
    ASSUME NEW S, 0 \in S, \A n \in Nat : n \in S => n + 1 \in S
    PROVE  \A n \in Nat : n \in S
<1> SUFFICES ASSUME Nat \ S # {} PROVE FALSE
  OBVIOUS
<1>1. PICK m \in Nat \ S : \A k \in Nat \ S : m <= k
  <2>1. Nat \ S \in SUBSET Nat
    OBVIOUS
  <2> QED
    BY <2>1, Least
<1>2. m # 0 /\ m \in Nat
  BY <1>1
<1>3. m - 1 \in Nat /\ ~(m <= m - 1)
  BY <1>2
<1>4. m - 1 \in S
  BY <1>1, <1>3
<1>5. (m - 1) + 1 \in S
  BY <1>3, <1>4
<1> QED
  BY <1>1, <1>2, <1>5

\* g starts at a and takes step F at every number.
Runs(g, S, a, F) == g \in [Nat -> S] /\ g[0] = a /\ \A n \in Nat : g[n + 1] = F[<<n, g[n]>>]

LEMMA Iterates ==
    ASSUME NEW S, NEW a \in S, NEW F \in [Nat \X S -> S]
    PROVE  \E g : Runs(g, S, a, F)
<1> DEFINE Run(n) == {h \in [0 .. n -> S] :
                         h[0] = a /\ \A i \in 0 .. n - 1 : h[i + 1] = F[<<i, h[i]>>]}
           Ok == {n \in Nat : Run(n) # {}}
<1>1. 0 \in Ok
  <2>1. [i \in 0 .. 0 |-> a] \in Run(0)
    OBVIOUS
  <2> QED
    BY <2>1
<1>2. ASSUME NEW n \in Nat, n \in Ok PROVE n + 1 \in Ok
  <2>1. PICK h : h \in Run(n)
    BY <1>2
  <2> DEFINE k == [i \in 0 .. n + 1 |-> IF i = n + 1 THEN F[<<n, h[n]>>] ELSE h[i]]
  <2>2. h \in [0 .. n -> S] /\ h[0] = a /\ \A i \in 0 .. n - 1 : h[i + 1] = F[<<i, h[i]>>]
    BY <2>1
  <2>3. F[<<n, h[n]>>] \in S
    BY <2>2
  <2>4. k \in [0 .. n + 1 -> S] /\ k[0] = a
    BY <2>2, <2>3
  <2>5. \A i \in 0 .. (n + 1) - 1 : k[i + 1] = F[<<i, k[i]>>]
    <3>1. k[n + 1] = F[<<n, h[n]>>] /\ \A i \in 0 .. n : k[i] = h[i]
      OBVIOUS
    <3> HIDE DEF k
    <3>2. k[n + 1] = F[<<n, k[n]>>]
      BY <3>1
    <3>3. ASSUME NEW i \in 0 .. n - 1 PROVE k[i + 1] = F[<<i, k[i]>>]
      <4>1. i \in 0 .. n /\ i + 1 \in 0 .. n
        OBVIOUS
      <4> QED
        BY <2>2, <3>1, <4>1
    <3>4. \A i \in 0 .. (n + 1) - 1 : i = n \/ i \in 0 .. n - 1
      OBVIOUS
    <3> QED
      BY <3>2, <3>3, <3>4
  <2>6. k \in Run(n + 1)
    BY <2>4, <2>5
  <2>7. Run(n + 1) # {} /\ n + 1 \in Nat
    <3> HIDE DEF Run, k
    <3> QED
      BY <2>6
  <2> QED
    BY <2>7
<1>3. \A n \in Nat : n \in Ok
  <2> HIDE DEF Ok
  <2> QED
    BY <1>1, <1>2, Induction
<1> DEFINE run(n) == CHOOSE h : h \in Run(n)
           g == [n \in Nat |-> run(n)[n]]
<1>4. \A n \in Nat : /\ run(n) \in [0 .. n -> S] /\ run(n)[0] = a
                     /\ \A i \in 0 .. n - 1 : run(n)[i + 1] = F[<<i, run(n)[i]>>]
  <2>1. \A n \in Nat : run(n) \in Run(n)
    BY <1>3
  <2> HIDE DEF run
  <2> QED
    BY <2>1
<1> HIDE DEF run, Run, Ok
<1>5. ASSUME NEW n \in Nat PROVE \A i \in 0 .. n : run(n)[i] = run(n + 1)[i]
  <2> DEFINE same == {i \in Nat : i <= n => run(n)[i] = run(n + 1)[i]}
  <2>1. 0 \in same
    BY <1>4
  <2>2. ASSUME NEW i \in Nat, i \in same PROVE i + 1 \in same
    <3> SUFFICES ASSUME i + 1 <= n PROVE run(n)[i + 1] = run(n + 1)[i + 1]
      OBVIOUS
    <3>1. i \in 0 .. n - 1 /\ i \in 0 .. (n + 1) - 1 /\ n + 1 \in Nat /\ i <= n
      OBVIOUS
    <3>2. run(n)[i + 1] = F[<<i, run(n)[i]>>] /\ run(n + 1)[i + 1] = F[<<i, run(n + 1)[i]>>]
      BY <3>1, <1>4
    <3> QED
      BY <2>2, <3>1, <3>2
  <2>3. \A i \in Nat : i \in same
    <3> HIDE DEF same
    <3> QED
      BY <2>1, <2>2, Induction
  <2> QED
    BY <2>3
<1>6. g \in [Nat -> S]
  BY <1>4
<1>7. g[0] = a
  BY <1>4
<1>8. ASSUME NEW n \in Nat PROVE g[n + 1] = F[<<n, g[n]>>]
  <2>1. run(n + 1)[n + 1] = F[<<n, run(n + 1)[n]>>]
    <3>1. n + 1 \in Nat /\ n \in 0 .. (n + 1) - 1
      OBVIOUS
    <3> QED
      BY <3>1, <1>4
  <2>2. run(n)[n] = run(n + 1)[n]
    BY <1>5
  <2> QED
    BY <2>1, <2>2
<1> QED
  BY <1>6, <1>7, <1>8 DEF Runs
=============================================================================
