------------------------------ MODULE Hashtable ------------------------------
(***************************************************************************)
(* jansson's hashtable.c, which holds the members of a JSON object: pairs  *)
(* in one doubly linked list, where those of a bucket are neighbours, and  *)
(* an array of buckets that point to their first and last pair.  One table *)
(* and one user of it, with at most one iterator.                          *)
(***************************************************************************)
EXTENDS Naturals, Sequences, SequencesExt, FiniteSets

CONSTANTS
    Key, Value, NULL,
    Hash,           \* Hash[k]: what hash_key returns
    Primes,         \* the numbers of buckets a table can have
    Pair,           \* the memory pairs are allocated from
    Place,          \* where malloc puts the pair of a key, while that is free
    Anchor            \* &hashtable->list

ASSUME HashAssumption == Hash \in [Key -> Nat]
ASSUME PrimesAssumption ==
    /\ Primes \in Seq(Nat \ {0}) /\ Primes # <<>>
    /\ \A i \in 1 .. Len(Primes) - 1 : Primes[i] < Primes[i + 1]
ASSUME PlaceAssumption == Place \in [Key -> Pair]
ASSUME PairAssumption ==
    /\ IsFiniteSet(Pair) /\ Anchor \notin Pair
    /\ NULL \notin Pair \cup {Anchor} \cup Key \cup Value \cup [key : Key, value : Value]

VARIABLES
    list,           \* the list of pairs: a heap of EList
    bucket,         \* buckets
    order,          \* num_buckets: an index to Primes
    size,
    pair,           \* pair[p]: key and value, NULL where nothing is allocated
    status,         \* "open"; "closed"; "broken": a rehash has failed, buckets
                    \* is NULL; "lost": memory that is not there was used
    iter,           \* the user's iterator
    ret, freed      \* what the last call returned and freed, as in KeyMap

tableVars == <<list, bucket, order, size, pair, status>>
vars == <<tableVars, iter, ret, freed>>

E == INSTANCE EList WITH Node <- Pair \cup {Anchor}, Nil <- NULL

NoPairs == [p \in Pair |-> NULL]
NoLinks == [next |-> [x \in Pair \cup {Anchor} |-> NULL], prev |-> [x \in Pair \cup {Anchor} |-> NULL]]

list_init(l, x) == E!INIT_LIST_HEAD(l, x)
list_insert(l, x, p) == E!list_add_tail(l, p, x)
\* The links of the pair go with it: it is freed at once.
list_remove(l, p) == E!list_del(l, p)

\* The pairs met on the way from one pair to another.
Walk(l, from, to) ==
    LET at[n \in Nat] == IF n = 0 THEN from ELSE l.next[at[n - 1]]
        steps == CHOOSE n \in 0 .. Cardinality(Pair) : at[n] = to /\ \A m \in 0 .. n - 1 : at[m] # to
    IN  [i \in 1 .. steps + 1 |-> at[i - 1]]

\* The whole list, first pair first.
All == IF E!list_empty(list, Anchor) THEN <<>> ELSE Walk(list, list.next[Anchor], list.prev[Anchor])

EmptyBuckets(n) == [i \in 0 .. n - 1 |-> [first |-> Anchor, last |-> Anchor]]
num_buckets == Primes[order]
index(k) == Hash[k] % num_buckets

bucket_is_empty(b) == b.first = Anchor /\ b.first = b.last

Segment(l, b) == IF bucket_is_empty(b) THEN <<>> ELSE Walk(l, b.first, b.last)

\* hashtable_find_pair in a table t: NULL if the key is not there.
find_pair(t, k) ==
    LET b == t.bucket[Hash[k] % Cardinality(DOMAIN t.bucket)]
        segment == Segment(t.list, b)
        found == {i \in DOMAIN segment : Hash[pair[segment[i]].key] = Hash[k] /\ pair[segment[i]].key = k}
    IN  IF found = {} THEN NULL ELSE segment[CHOOSE i \in found : \A j \in found : i <= j]

Table == [list |-> list, bucket |-> bucket]
Find(k) == find_pair(Table, k)

\* A new pair comes before the others of its bucket, or at the end of the list.
insert_to_bucket(t, i, p) ==
    LET b == t.bucket[i]
    IN  IF bucket_is_empty(b)
        THEN [list |-> list_insert(t.list, Anchor, p),
              bucket |-> [t.bucket EXCEPT ![i] = [first |-> p, last |-> p]]]
        ELSE [list |-> list_insert(t.list, b.first, p), bucket |-> [t.bucket EXCEPT ![i].first = p]]

\* Mutant: the pairs go where the old number of buckets leads.
rehash_OldIndex(n) ==
    LET pairs == All
        table[i \in 0 .. Len(pairs)] ==
            IF i = 0 THEN [list |-> list_init(list, Anchor), bucket |-> EmptyBuckets(n)]
            ELSE insert_to_bucket(table[i - 1], Hash[pair[pairs[i]].key] % num_buckets, pairs[i])
    IN  table[Len(pairs)]

\* hashtable_do_rehash once it has its n buckets: the table after i pairs.
rehash(n) ==
    LET pairs == All
        table[i \in 0 .. Len(pairs)] ==
            IF i = 0 THEN [list |-> list_init(list, Anchor), bucket |-> EmptyBuckets(n)]
            ELSE insert_to_bucket(table[i - 1], Hash[pair[pairs[i]].key] % n, pairs[i])
    IN  table[Len(pairs)]

Returns(r, F) == ret' = r /\ freed' = F
Contents(P) == {<<pair[p].key, pair[p].value>> : p \in P}

Init ==
    /\ list = list_init(NoLinks, Anchor)
    /\ bucket = EmptyBuckets(Primes[1]) /\ order = 1 /\ size = 0 /\ pair = NoPairs
    /\ status = "open" /\ iter = NULL /\ ret = NULL /\ freed = {}

Open == status = "open"
Usable == status \in {"open", "broken"}
Full == size >= num_buckets

\* malloc fails in hashtable_do_rehash: the old buckets are gone by then, and
\* num_buckets has moved on, so that the next hashtable_set will not try again.
RehashFails ==
    /\ Open /\ Full /\ order < Len(Primes)
    /\ order' = order + 1 /\ bucket' = <<>> /\ status' = "broken"
    /\ Returns("failed", {})
    /\ UNCHANGED <<list, size, pair, iter>>

\* hashtable_set of a key that is there: only its value changes.
Replace(k, v, p, t) ==
    /\ list' = t.list /\ bucket' = t.bucket
    /\ pair' = [pair EXCEPT ![p].value = v]
    /\ Returns("ok", Contents({p}))
    /\ UNCHANGED size

Insert(k, v, t, n) ==
    LET p == IF pair[Place[k]] = NULL THEN Place[k] ELSE CHOOSE x \in Pair : pair[x] = NULL
        u == insert_to_bucket([t EXCEPT !.list = list_init(t.list, p)], Hash[k] % n, p)
    IN  /\ \E x \in Pair : pair[x] = NULL
        /\ list' = u.list /\ bucket' = u.bucket
        /\ pair' = [pair EXCEPT ![p] = [key |-> k, value |-> v]]
        /\ size' = size + 1
        /\ Returns("ok", {})

\* malloc of the pair fails; a rehash before it stays.
NoPair(t) ==
    /\ list' = t.list /\ bucket' = t.bucket
    /\ Returns("failed", {})
    /\ UNCHANGED <<size, pair>>

Set(k, v) ==
    /\ Open /\ (Full => order < Len(Primes))
    /\ order' = (IF Full THEN order + 1 ELSE order)
    /\ LET n == Primes[order']
           t == IF Full THEN rehash(n) ELSE Table
           p == find_pair(t, k)
       IN  IF p # NULL THEN Replace(k, v, p, t) ELSE Insert(k, v, t, n) \/ NoPair(t)
    /\ UNCHANGED <<status, iter>>

\* hashtable_set, get, del, iter_at and clear do not know of a rehash that has
\* failed: they go through NULL.  hashtable_set of a full table of the largest
\* size reads past the end of primes.
Lost ==
    /\ status = "broken" \/ (Open /\ Full /\ order = Len(Primes))
    /\ status' = "lost"
    /\ UNCHANGED <<list, bucket, order, size, pair, iter, ret, freed>>

Get(k) ==
    /\ Open
    /\ Returns(IF Find(k) = NULL THEN NULL ELSE pair[Find(k)].value, {})
    /\ UNCHANGED <<tableVars, iter>>

\* hashtable_do_del: the bucket gives the pair up, then the list.
BucketWithout(b, p) ==
    IF b.first = p /\ b.last = p THEN [first |-> Anchor, last |-> Anchor]
    ELSE IF b.first = p THEN [b EXCEPT !.first = list.next[p]]
    ELSE IF b.last = p THEN [b EXCEPT !.last = list.prev[p]]
    ELSE b

Del(k) ==
    /\ Open
    /\ LET p == Find(k)
       IN  IF p = NULL
           THEN Returns("failed", {}) /\ UNCHANGED <<tableVars, iter>>
           ELSE /\ bucket' = [bucket EXCEPT ![index(k)] = BucketWithout(@, p)]
                /\ list' = list_remove(list, p)
                /\ pair' = [pair EXCEPT ![p] = NULL]
                /\ size' = size - 1
                /\ iter' = (IF iter = p THEN NULL ELSE iter)
                /\ Returns("ok", Contents({p}))
                /\ UNCHANGED <<order, status>>

\* hashtable_clear: the number of buckets stays.
Clear ==
    /\ Open
    /\ Returns("ok", Contents(ToSet(All)))
    /\ pair' = [p \in Pair |-> IF p \in ToSet(All) THEN NULL ELSE pair[p]]
    /\ bucket' = EmptyBuckets(num_buckets) /\ list' = list_init(NoLinks, Anchor) /\ size' = 0
    /\ iter' = NULL
    /\ UNCHANGED <<order, status>>

\* hashtable_close only needs the list, as the iterator does.
Close ==
    /\ Usable
    /\ Returns("ok", Contents(ToSet(All)))
    /\ pair' = [p \in Pair |-> IF p \in ToSet(All) THEN NULL ELSE pair[p]]
    /\ list' = NoLinks /\ bucket' = <<>> /\ order' = 1 /\ size' = 0
    /\ status' = "closed" /\ iter' = NULL

\* hashtable_create and hashtable_init of the next table.
Create ==
    /\ status = "closed"
    /\ \/ Returns("failed", {}) /\ UNCHANGED <<list, bucket, order, size, status>>
       \/ /\ list' = list_init(NoLinks, Anchor)
          /\ bucket' = EmptyBuckets(Primes[1]) /\ status' = "open"
          /\ UNCHANGED <<order, size>>
          /\ Returns("ok", {})
    /\ UNCHANGED <<pair, iter>>

\* hashtable_iter_next from a pair or from the head of the list.
Step(x) ==
    /\ iter' = (IF list.next[x] = Anchor THEN NULL ELSE list.next[x])
    /\ Returns(IF iter' = NULL THEN NULL ELSE pair[iter'].key, {})
    /\ UNCHANGED tableVars

Iter == Usable /\ Step(Anchor)
IterNext == Usable /\ iter # NULL /\ Step(iter)

IterAt(k) ==
    /\ Open
    /\ iter' = Find(k)
    /\ Returns(IF iter' = NULL THEN NULL ELSE pair[iter'].key, {})
    /\ UNCHANGED tableVars

IterSet(v) ==
    /\ Usable /\ iter # NULL
    /\ pair' = [pair EXCEPT ![iter].value = v]
    /\ Returns("ok", Contents({iter}))
    /\ UNCHANGED <<list, bucket, order, size, status, iter>>

Next ==
    \/ \E k \in Key : Get(k) \/ Del(k) \/ IterAt(k) \/ \E v \in Value : Set(k, v)
    \/ \E v \in Value : IterSet(v)
    \/ RehashFails \/ Lost \/ Clear \/ Close \/ Create \/ Iter \/ IterNext

Spec == Init /\ [][Next]_vars
-----------------------------------------------------------------------------
\* The pairs in memory, and the map they make.
Allocated == {p \in Pair : pair[p] # NULL}
MapOf(P) ==
    [k \in {pair[p].key : p \in P} |-> pair[CHOOSE p \in P : pair[p].key = k].value]

\* What a user sees of them: a map, the key the iterator points to, and those
\* it has passed.
keyMap == MapOf(Allocated)
position == IF iter = NULL THEN NULL ELSE pair[iter].key
passed == IF iter = NULL THEN {} ELSE {pair[p].key : p \in ToSet(Walk(list, list.next[Anchor], iter))}

\* A full table of the largest size.
TooMany == {K \in SUBSET Key : Cardinality(K) >= Primes[Len(Primes)]}

Map == INSTANCE KeyMap WITH Full <- TooMany,
                            state <- status, map <- keyMap, at <- position, seen <- passed

\* hashtable.h: set, get, del, clear and the iterator behave as those of a map,
\* collisions and rehashes included, until a set fails for want of memory for the
\* buckets; and then the iterator, updates through it and close still do.
ImplementsMap == Map!Spec
=============================================================================
