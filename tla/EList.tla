------------------------------- MODULE EList -------------------------------
(***************************************************************************)
(* elist.h: circular doubly linked lists.  A heap of list_head structures  *)
(* is a record of two functions, next and prev.  A list is known by its    *)
(* head, which is a node too; an empty one is a head linked to itself.     *)
(***************************************************************************)
EXTENDS Naturals, Sequences

CONSTANTS
    Node,           \* the list_head structures
    Nil             \* (void *) 0

ASSUME NilAssumption == Nil \notin Node

Heap == [next : [Node -> Node \cup {Nil}], prev : [Node -> Node \cup {Nil}]]

INIT_LIST_HEAD(h, x) == [next |-> [h.next EXCEPT ![x] = x], prev |-> [h.prev EXCEPT ![x] = x]]

\* __list_add: x between two neighbours.
list_add_between(h, x, p, n) ==
    [next |-> [h.next EXCEPT ![x] = n, ![p] = x],
     prev |-> [h.prev EXCEPT ![n] = x, ![x] = p]]

list_add(h, x, head) == list_add_between(h, x, head, h.next[head])
list_add_tail(h, x, head) == list_add_between(h, x, h.prev[head], head)

\* Mutant: the entry behind goes on pointing back to the one taken out.
list_del_between_NoBack(h, p, n) == [h EXCEPT !.next[p] = n]

\* __list_del: its neighbours pass over an entry.
list_del_between(h, p, n) ==
    [next |-> [h.next EXCEPT ![p] = n], prev |-> [h.prev EXCEPT ![n] = p]]

unlink(h, x) == list_del_between(h, h.prev[x], h.next[x])

list_del(h, x) ==
    LET u == unlink(h, x)
    IN  [next |-> [u.next EXCEPT ![x] = Nil], prev |-> [u.prev EXCEPT ![x] = Nil]]

list_del_init(h, x) == INIT_LIST_HEAD(unlink(h, x), x)
list_move(h, x, head) == list_add(unlink(h, x), x, head)
list_move_tail(h, x, head) == list_add_tail(unlink(h, x), x, head)

list_empty(h, head) == h.next[head] = head

\* list_splice and list_splice_init: the entries of `from` go to the front of `head`.
list_splice(h, from, head) ==
    IF list_empty(h, from)
    THEN h
    ELSE LET first == h.next[from]
             last == h.prev[from]
             at == h.next[head]
         IN  [next |-> [h.next EXCEPT ![head] = first, ![last] = at],
              prev |-> [h.prev EXCEPT ![first] = head, ![at] = last]]

list_splice_init(h, from, head) ==
    IF list_empty(h, from) THEN h ELSE INIT_LIST_HEAD(list_splice(h, from, head), from)
-----------------------------------------------------------------------------
\* The node at position i of the circle of head and the entries s.
At(head, s, i) == IF i = 0 THEN head ELSE s[i]

\* In heap h the list of head holds the entries s, in this order: each points
\* to the one after it and to the one before it, round the circle.
Holds(h, head, s) ==
    /\ \A i \in 0 .. Len(s) - 1 :
        /\ h.next[At(head, s, i)] = s[i + 1]
        /\ h.prev[s[i + 1]] = At(head, s, i)
    /\ h.next[At(head, s, Len(s))] = head
    /\ h.prev[head] = At(head, s, Len(s))

\* Head and entries are different nodes.
Distinct(head, s) ==
    /\ head \in Node /\ s \in Seq(Node)
    /\ \A i, j \in 0 .. Len(s) : At(head, s, i) = At(head, s, j) => i = j
=============================================================================
