-------------------------------- MODULE Lists --------------------------------
(***************************************************************************)
(* A client of elist.h: some lists in one heap, and every call that takes  *)
(* an entry from a list, puts it into one or joins two lists, in any order *)
(* that the comments of elist.h allow.                                     *)
(***************************************************************************)
EXTENDS EList, SequencesExt

CONSTANT Heads      \* the heads of the lists; the other nodes are entries

ASSUME HeadsAssumption == Heads \subseteq Node

VARIABLES
    heap,           \* the next and prev pointers
    held            \* held[l]: the entries the list l should hold

listsVars == <<heap, held>>

Entry == Node \ Heads
Linked(x) == \E l \in Heads : x \in ToSet(held[l])

\* INIT_LIST_HEAD of every head; the entries are zeroed memory.
ListsInit ==
    LET links == [x \in Node |-> IF x \in Heads THEN x ELSE Nil]
    IN  /\ heap = [next |-> links, prev |-> links]
        /\ held = [l \in Heads |-> <<>>]

Add(x, l) ==
    /\ ~Linked(x)
    /\ heap' = list_add(heap, x, l)
    /\ held' = [held EXCEPT ![l] = <<x>> \o @]

AddTail(x, l) ==
    /\ ~Linked(x)
    /\ heap' = list_add_tail(heap, x, l)
    /\ held' = [held EXCEPT ![l] = Append(@, x)]

\* What the lists hold without the entry i of l.
Rest(l, i) == [held EXCEPT ![l] = RemoveAt(@, i)]

Del(l, i) == heap' = list_del(heap, held[l][i]) /\ held' = Rest(l, i)
DelInit(l, i) == heap' = list_del_init(heap, held[l][i]) /\ held' = Rest(l, i)

Move(l, i, m) ==
    /\ heap' = list_move(heap, held[l][i], m)
    /\ held' = [Rest(l, i) EXCEPT ![m] = <<held[l][i]>> \o @]

MoveTail(l, i, m) ==
    /\ heap' = list_move_tail(heap, held[l][i], m)
    /\ held' = [Rest(l, i) EXCEPT ![m] = Append(@, held[l][i])]

Joined(m, l) == [held EXCEPT ![l] = held[m] \o @, ![m] = <<>>]

\* list_splice leaves it to the caller to initialise the head it emptied.
Splice(m, l) ==
    /\ m # l
    /\ heap' = INIT_LIST_HEAD(list_splice(heap, m, l), m)
    /\ held' = Joined(m, l)

SpliceInit(m, l) ==
    /\ m # l
    /\ heap' = list_splice_init(heap, m, l)
    /\ held' = Joined(m, l)

ListsNext ==
    \/ \E x \in Entry, l \in Heads : Add(x, l) \/ AddTail(x, l)
    \/ \E l \in Heads : \E i \in DOMAIN held[l] :
        \/ Del(l, i) \/ DelInit(l, i)
        \/ \E m \in Heads : Move(l, i, m) \/ MoveTail(l, i, m)
    \/ \E l, m \in Heads : Splice(m, l) \/ SpliceInit(m, l)

ListsSpec == ListsInit /\ [][ListsNext]_listsVars
-----------------------------------------------------------------------------
\* After any calls of elist.h each list holds, forwards and backwards, the
\* entries it should, in order; an entry of no list is linked to no other node.
ListsKeepOrder ==
    /\ \A l \in Heads : /\ Holds(heap, l, held[l])
                        /\ list_empty(heap, l) <=> held[l] = <<>>
    /\ \A x \in Entry : ~Linked(x) => heap.next[x] \in {Nil, x} /\ heap.prev[x] \in {Nil, x}
=============================================================================
