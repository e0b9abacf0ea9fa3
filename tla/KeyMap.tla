------------------------------- MODULE KeyMap -------------------------------
(***************************************************************************)
(* What a hashtable promises its users (hashtable.h): a finite map that    *)
(* frees what it drops, and an iterator that meets every key once as long  *)
(* as no key is added meanwhile.  The promise ends with a set that runs    *)
(* out of memory, if that breaks the map: one more call other than those   *)
(* of the iterator and close, and nothing holds any more.                  *)
(***************************************************************************)
CONSTANTS
    Key, Value,
    NULL,           \* no value, no key: none of Key and Value
    Full            \* the sets of keys that leave no room for another

VARIABLES
    state,          \* "open", "broken", "closed", "lost"
    map,            \* the keys and their values
    at,             \* the key the user's iterator points to, NULL if it has none
    seen,           \* the keys that iterator has passed, its own included
    ret,            \* what the last call returned
    freed           \* the keys and values the last call freed

vars == <<state, map, at, seen, ret, freed>>

Empty == [k \in {} |-> NULL]
Entries(K) == {<<k, map[k]>> : k \in K \cap DOMAIN map}
Without(K) == [k \in DOMAIN map \ K |-> map[k]]

Init == state = "open" /\ map = Empty /\ at = NULL /\ seen = {} /\ ret = NULL /\ freed = {}

Returns(r, F) == ret' = r /\ freed' = F

\* A call that may reorder the entries: what the iterator has passed is unknown.
Reorder == UNCHANGED at /\ seen' \in SUBSET DOMAIN map' /\ (at # NULL => at \in seen')

Set(k, v) ==
    /\ state = "open" /\ UNCHANGED state
    /\ map' = [x \in DOMAIN map \cup {k} |-> IF x = k THEN v ELSE map[x]]
    /\ Returns("ok", Entries({k}))
    /\ Reorder

SetFails ==
    /\ state = "open" /\ state' \in {"open", "broken"}
    /\ Returns("failed", {}) /\ UNCHANGED map /\ Reorder

\* A set of a full map, or a call of a broken one that looks for a key or
\* clears it.
Lost ==
    /\ state = "broken" \/ (state = "open" /\ DOMAIN map \in Full)
    /\ state' = "lost"
    /\ UNCHANGED <<map, at, seen, ret, freed>>

Get(k) ==
    /\ state = "open" /\ UNCHANGED state
    /\ Returns(IF k \in DOMAIN map THEN map[k] ELSE NULL, {})
    /\ UNCHANGED <<map, at, seen>>

\* An iterator whose entry goes is no longer used.
Del(k) ==
    /\ state = "open" /\ UNCHANGED state
    /\ map' = Without({k})
    /\ Returns(IF k \in DOMAIN map THEN "ok" ELSE "failed", Entries({k}))
    /\ at' = (IF at = k THEN NULL ELSE at)
    /\ seen' = (IF at = k THEN {} ELSE seen \ {k})

Emptied ==
    /\ map' = Empty /\ at' = NULL /\ seen' = {}
    /\ Returns("ok", Entries(DOMAIN map))

Clear == state = "open" /\ UNCHANGED state /\ Emptied

Usable == state \in {"open", "broken"}

Close == Usable /\ state' = "closed" /\ Emptied

Create ==
    /\ state = "closed" /\ map = Empty
    /\ \/ state' = "open" /\ Returns("ok", {})
       \/ UNCHANGED state /\ Returns("failed", {})
    /\ UNCHANGED <<map, at, seen>>

\* The iterator moves on to a key it has not met, if there is one.
Step(passed) ==
    /\ IF DOMAIN map \subseteq passed
       THEN at' = NULL /\ seen' = {}
       ELSE \E k \in DOMAIN map \ passed : at' = k /\ seen' = passed \cup {k}
    /\ Returns(at', {})
    /\ UNCHANGED <<state, map>>

Iter == Usable /\ Step({})
IterNext == Usable /\ at # NULL /\ Step(seen)

IterAt(k) ==
    /\ state = "open"
    /\ IF k \in DOMAIN map
       THEN at' = k /\ seen' \in SUBSET DOMAIN map /\ k \in seen'
       ELSE at' = NULL /\ seen' = {}
    /\ Returns(at', {})
    /\ UNCHANGED <<state, map>>

IterSet(v) ==
    /\ Usable /\ at # NULL
    /\ map' = [map EXCEPT ![at] = v]
    /\ Returns("ok", Entries({at}))
    /\ UNCHANGED <<state, at, seen>>

Next ==
    \/ \E k \in Key : Get(k) \/ Del(k) \/ IterAt(k) \/ \E v \in Value : Set(k, v)
    \/ \E v \in Value : IterSet(v)
    \/ SetFails \/ Lost \/ Clear \/ Close \/ Create \/ Iter \/ IterNext

Spec == Init /\ [][Next]_vars
=============================================================================
