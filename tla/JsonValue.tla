------------------------------ MODULE JsonValue ------------------------------
(***************************************************************************)
(* jansson's value.c: JSON values with reference counts, and one client    *)
(* that builds, shares, edits and drops them.  A function of the code is   *)
(* an operator from a memory to a memory and what the call returns; an     *)
(* object holds its members in the order they were added (the order of the *)
(* hashtable while no two keys share a bucket), an array its table.        *)
(***************************************************************************)
EXTENDS Integers, Sequences, SequencesExt, FiniteSets

CONSTANTS
    Pool,           \* the numbers of the values that fit into the memory
    Static,         \* json_true(), json_false() and json_null()
    BadKey,         \* a key that is not UTF-8
    ArraySize,      \* the size of a new array's table: 8 in the code
    Buckets,        \* the numbers of buckets of a hashtable: primes in the code
    NULL,
    Junk,           \* what uninitialised memory holds
    FailAt,         \* which allocation of a call fails, 0 for none
    MaxRefs         \* bound on the references the client holds

ASSUME SizesAssumption ==
    /\ Pool \subseteq Nat /\ ArraySize \in Nat \ {0} /\ FailAt \subseteq Nat
    /\ Buckets \in Seq(Nat \ {0}) /\ Buckets # <<>>

VARIABLES
    mem,            \* node: the values; lost: references nobody holds any
                    \* more; fail: as FailAt, while a call runs; crashed:
                    \* memory that is not there was used
    owned           \* owned[x]: the references to x the client has to drop

vars == <<mem, owned>>

Result(m, x) == [m |-> m, ret |-> x]

IsObject(m, x) == m.node[x].kind = "object"
IsArray(m, x) == m.node[x].kind = "array"
Members(m, x) == m.node[x].members
Entries(m, x) == SubSeq(m.node[x].table, 1, m.node[x].entries)

\* The values a value holds, in the order it drops them.
Slots(m, x) ==
    IF IsObject(m, x) THEN [i \in DOMAIN Members(m, x) |-> Members(m, x)[i].value]
    ELSE IF IsArray(m, x) THEN Entries(m, x)
    ELSE <<>>

Unused(m) == {x \in DOMAIN m.node : m.node[x] = NULL}
Alive(m) == {x \in DOMAIN m.node : m.node[x] # NULL}

\* n allocations later.
After(m, n) == [m EXCEPT !.fail = IF @ > n THEN @ - n ELSE 0]

\* A value that takes n allocations: if one of them fails the others are freed.
New(m, v, n) ==
    IF m.fail \in 1 .. n \/ Unused(m) = {} THEN Result(After(m, n), NULL)
    ELSE LET x == CHOOSE y \in Unused(m) : \A z \in Unused(m) : y <= z
         IN  Result([After(m, n) EXCEPT !.node[x] = v], x)

json_object(m) ==
    New(m, [kind |-> "object", rc |-> 1, visited |-> FALSE, order |-> 1, members |-> <<>>], 2)

Blank(n) == [i \in 1 .. n |-> Junk]
json_array(m) ==
    New(m, [kind |-> "array", rc |-> 1, visited |-> FALSE, table |-> Blank(ArraySize), entries |-> 0], 2)

\* A string is a structure and a copy of its text, a number a structure.
json_scalar(m, v) ==
    New(m, [kind |-> "scalar", rc |-> 1, value |-> v], IF v[1] = "string" THEN 2 ELSE 1)

json_incref(m, x) == IF m.node[x].rc = -1 THEN m ELSE [m EXCEPT !.node[x].rc = @ + 1]

RECURSIVE json_decref(_, _)
RECURSIVE json_delete(_, _)
RECURSIVE DropAll(_, _)
json_decref(m, x) ==
    IF x = NULL THEN m
    ELSE IF m.node[x].rc = -1 THEN m
    ELSE IF m.node[x].rc > 1 THEN [m EXCEPT !.node[x].rc = @ - 1]
    ELSE json_delete([m EXCEPT !.node[x].rc = 0], x)

\* A value is freed after what it holds has been dropped.
json_delete(m, x) == [DropAll(m, Slots(m, x)) EXCEPT !.node[x] = NULL]

DropAll(m, slots) == IF slots = <<>> THEN m ELSE DropAll(json_decref(m, Head(slots)), Tail(slots))

Lose(m, x) == IF m.node[x].rc = -1 THEN m ELSE [m EXCEPT !.lost[x] = @ + 1]

\* An error of a function that takes over a reference: it drops it.
Refuse(m, v) == Result(json_decref(m, v), -1)
-----------------------------------------------------------------------------
(* Objects *)

MemberIndex(m, x, k) == SelectInSeq(Members(m, x), LAMBDA p : p.key = k)

\* An object without buckets, those of a rehash could not be allocated: a call
\* that looks for a key or clears the object goes through a null pointer.
Broken(m, x) == m.node[x].order = 0
Crash(m) == Result([m EXCEPT !.crashed = TRUE], -1)

\* Of an object that is not broken.
json_object_get(m, x, k) ==
    LET i == MemberIndex(m, x, k) IN IF i = 0 THEN NULL ELSE Members(m, x)[i].value

SetValue(m, x, i, v) ==
    [json_decref(m, Members(m, x)[i].value) EXCEPT !.node[x].members[i].value = v]

\* As many members as buckets: the next hashtable_set rehashes.
Full(m, x) == Len(Members(m, x)) >= Buckets[m.node[x].order]
Rehashed(m, x) == IF Full(m, x) THEN [After(m, 1) EXCEPT !.node[x].order = @ + 1] ELSE m

\* hashtable_set, and what json_object_set_new_nocheck does when it fails.  It
\* allocates buckets if there are too few, even for a key that is there, then
\* the pair of a key that is new; it reads past the end of primes if there is
\* no larger size.
hashtable_set(m, x, k, v) ==
    LET n == Rehashed(m, x)
        i == MemberIndex(n, x, k)
    IN  IF Broken(m, x) \/ (Full(m, x) /\ m.node[x].order = Len(Buckets)) THEN Crash(m)
        ELSE IF Full(m, x) /\ m.fail = 1 THEN Refuse([After(m, 1) EXCEPT !.node[x].order = 0], v)
        ELSE IF i # 0 THEN Result(SetValue(n, x, i, v), 0)
        ELSE IF n.fail = 1 THEN Refuse(After(n, 1), v)
        ELSE Result([After(n, 1) EXCEPT !.node[x].members = Append(@, [key |-> k, value |-> v])], 0)

\* Allocates the key first.  Without it the reference to the value is neither
\* stored nor dropped.
json_object_set_new_nocheck(m, x, k, v) ==
    IF v = NULL THEN Result(m, -1)
    ELSE IF ~IsObject(m, x) \/ x = v THEN Refuse(m, v)
    ELSE IF m.fail = 1 THEN Result(Lose(After(m, 1), v), -1)
    ELSE hashtable_set(After(m, 1), x, k, v)

json_object_set_nocheck(m, x, k, v) == json_object_set_new_nocheck(json_incref(m, v), x, k, v)

json_object_set_new(m, x, k, v) ==
    IF k = BadKey THEN Refuse(m, v) ELSE json_object_set_new_nocheck(m, x, k, v)

json_object_del(m, x, k) ==
    IF ~IsObject(m, x) THEN Result(m, -1)
    ELSE IF Broken(m, x) THEN Crash(m)
    ELSE IF MemberIndex(m, x, k) = 0 THEN Result(m, -1)
    ELSE LET i == MemberIndex(m, x, k)
         IN  Result(json_decref([m EXCEPT !.node[x].members = RemoveAt(@, i)], Members(m, x)[i].value), 0)

json_object_clear(m, x) ==
    IF ~IsObject(m, x) THEN Result(m, -1)
    ELSE IF Broken(m, x) THEN Crash(m)
    ELSE Result([DropAll(m, Slots(m, x)) EXCEPT !.node[x].members = <<>>], 0)

\* Stops at the first member that cannot be set.
json_object_update(m, x, other) ==
    IF ~IsObject(m, x) \/ ~IsObject(m, other) THEN Result(m, -1)
    ELSE FoldLeft(LAMBDA r, p : IF r.ret # 0 THEN r ELSE json_object_set_nocheck(r.m, x, p.key, p.value),
                  Result(m, 0), Members(m, other))

\* Accepts the object itself as the value, which the other setters refuse.
json_object_iter_set_new(m, x, i, v) == Result(SetValue(m, x, i, v), 0)

\* A member that cannot be set is left out, but if it was the rehash that failed
\* the next member finds the copy broken.
json_object_copy(m, x) ==
    LET r == json_object(m)
    IN  IF r.ret = NULL THEN r
        ELSE Result(FoldLeft(LAMBDA s, p : json_object_set_nocheck(s, r.ret, p.key, p.value).m,
                             r.m, Members(m, x)), r.ret)
-----------------------------------------------------------------------------
(* Arrays: entry i of the code is entry i + 1 here *)

array_copy(dest, dpos, src, spos, count) ==
    [i \in DOMAIN dest |-> IF i - dpos \in 1 .. count THEN src[spos + i - dpos] ELSE dest[i]]

\* May read past the end of the table.
array_move(table, dest, src, count) ==
    [i \in DOMAIN table |->
        IF i - dest \notin 1 .. count THEN table[i]
        ELSE IF src + i - dest \in DOMAIN table THEN table[src + i - dest] ELSE Junk]

\* What follows the entries of a table is not looked at again.
WithTable(m, x, table, n) ==
    [m EXCEPT !.node[x].table = [i \in DOMAIN table |-> IF i <= n THEN table[i] ELSE Junk],
              !.node[x].entries = n]

\* The memory with the array's new table, and the table it had.
json_array_grow(m, x, amount, copy) ==
    LET a == m.node[x]
        size == Len(a.table)
        new == Blank(IF size > amount THEN 2 * size ELSE size + amount)
    IN  IF a.entries + amount <= size THEN [m |-> m, old |-> a.table, moved |-> FALSE]
        ELSE IF m.fail = 1 THEN [m |-> After(m, 1), old |-> NULL, moved |-> FALSE]
        ELSE [m |-> [After(m, 1) EXCEPT !.node[x].table =
                        IF copy THEN array_copy(new, 0, a.table, 0, a.entries) ELSE new],
              old |-> a.table, moved |-> TRUE]

json_array_set_new(m, x, index, v) ==
    IF v = NULL THEN Result(m, -1)
    ELSE IF ~IsArray(m, x) \/ x = v \/ index >= m.node[x].entries THEN Refuse(m, v)
    ELSE Result([json_decref(m, m.node[x].table[index + 1]) EXCEPT !.node[x].table[index + 1] = v], 0)

json_array_append_new(m, x, v) ==
    IF v = NULL THEN Result(m, -1)
    ELSE IF ~IsArray(m, x) \/ x = v THEN Refuse(m, v)
    ELSE LET g == json_array_grow(m, x, 1, TRUE)
             n == m.node[x].entries
         IN  IF g.old = NULL THEN Refuse(g.m, v)
             ELSE Result(WithTable(g.m, x, [g.m.node[x].table EXCEPT ![n + 1] = v], n + 1), 0)

json_array_append(m, x, v) == json_array_append_new(json_incref(m, v), x, v)

json_array_insert_new(m, x, index, v) ==
    IF v = NULL THEN Result(m, -1)
    ELSE IF ~IsArray(m, x) \/ x = v \/ index > m.node[x].entries THEN Refuse(m, v)
    ELSE LET g == json_array_grow(m, x, 1, FALSE)
             n == m.node[x].entries
             t == g.m.node[x].table
             spread == IF g.moved
                       THEN array_copy(array_copy(t, 0, g.old, 0, index), index + 1, g.old, index, n - index)
                       ELSE array_move(t, index + 1, index, n - index)
         IN  IF g.old = NULL THEN Refuse(g.m, v)
             ELSE Result(WithTable(g.m, x, [spread EXCEPT ![index + 1] = v], n + 1), 0)

\* Moves one entry more than there is, from past the end of a full table.
json_array_remove(m, x, index) ==
    IF ~IsArray(m, x) \/ index >= m.node[x].entries THEN Result(m, -1)
    ELSE LET a == m.node[x]
         IN  Result(WithTable(json_decref(m, a.table[index + 1]), x,
                              array_move(a.table, index, index + 1, a.entries - index),
                              a.entries - 1), 0)

json_array_clear(m, x) ==
    IF ~IsArray(m, x) THEN Result(m, -1)
    ELSE Result(WithTable(DropAll(m, Slots(m, x)), x, m.node[x].table, 0), 0)

\* Mutant: the entries are shared without being counted.
json_array_extend_Uncounted(m, x, other) ==
    IF ~IsArray(m, x) \/ ~IsArray(m, other) THEN Result(m, -1)
    ELSE LET more == m.node[other].entries
             n == m.node[x].entries
             g == json_array_grow(m, x, more, TRUE)
         IN  IF g.old = NULL THEN Result(g.m, -1)
             ELSE Result(WithTable(g.m, x, array_copy(g.m.node[x].table, n, g.m.node[other].table, 0, more),
                                   n + more), 0)

\* An array may extend itself: the table is read after it has grown.
json_array_extend(m, x, other) ==
    IF ~IsArray(m, x) \/ ~IsArray(m, other) THEN Result(m, -1)
    ELSE LET more == m.node[other].entries
             n == m.node[x].entries
             g == json_array_grow(m, x, more, TRUE)
             c == FoldLeft(json_incref, g.m, Slots(g.m, other))
         IN  IF g.old = NULL THEN Result(g.m, -1)
             ELSE Result(WithTable(c, x, array_copy(c.node[x].table, n, c.node[other].table, 0, more),
                                   n + more), 0)

json_array_copy(m, x) ==
    LET r == json_array(m)
    IN  IF r.ret = NULL THEN r
        ELSE Result(FoldLeft(LAMBDA s, y : json_array_append(s, r.ret, y).m, r.m, Slots(m, x)), r.ret)
-----------------------------------------------------------------------------
(* Copies and comparison, of values that do not contain themselves *)

json_copy(m, x) ==
    CASE x \in Static -> Result(m, x)
      [] IsObject(m, x) -> json_object_copy(m, x)
      [] IsArray(m, x) -> json_array_copy(m, x)
      [] OTHER -> json_scalar(m, m.node[x].value)

\* Mutant: the entries of an array are shared with the copy.
RECURSIVE json_deep_copy_Shared(_, _)
json_deep_copy_Shared(m, x) ==
    LET r == IF IsObject(m, x) THEN json_object(m) ELSE json_array(m)
        object_set(s, p) ==
            LET c == json_deep_copy_Shared(s, p.value) IN json_object_set_new_nocheck(c.m, r.ret, p.key, c.ret).m
    IN  IF ~IsObject(m, x) THEN json_copy(m, x)
        ELSE IF r.ret = NULL THEN r
        ELSE Result(FoldLeft(object_set, r.m, Members(m, x)), r.ret)

\* A member or an entry that cannot be copied is left out, with the same end for
\* an object.
RECURSIVE json_deep_copy(_, _)
json_deep_copy(m, x) ==
    LET r == IF IsObject(m, x) THEN json_object(m) ELSE json_array(m)
        object_set(s, p) ==
            LET c == json_deep_copy(s, p.value) IN json_object_set_new_nocheck(c.m, r.ret, p.key, c.ret).m
        array_append(s, y) ==
            LET c == json_deep_copy(s, y) IN json_array_append_new(c.m, r.ret, c.ret).m
    IN  IF ~IsObject(m, x) /\ ~IsArray(m, x) THEN json_copy(m, x)
        ELSE IF r.ret = NULL THEN r
        ELSE IF IsObject(m, x) THEN Result(FoldLeft(object_set, r.m, Members(m, x)), r.ret)
        ELSE Result(FoldLeft(array_append, r.m, Slots(m, x)), r.ret)

\* Of values that contain no broken object.
RECURSIVE json_equal(_, _, _)
json_equal(m, x, y) ==
    \/ x = y
    \/ /\ x \notin Static /\ y \notin Static /\ m.node[x].kind = m.node[y].kind
       /\ CASE IsObject(m, x) ->
                 /\ Len(Members(m, x)) = Len(Members(m, y))
                 /\ \A i \in DOMAIN Members(m, x) :
                     LET w == json_object_get(m, y, Members(m, x)[i].key)
                     IN  w # NULL /\ json_equal(m, Members(m, x)[i].value, w)
            [] IsArray(m, x) ->
                 /\ m.node[x].entries = m.node[y].entries
                 /\ \A i \in DOMAIN Slots(m, x) : json_equal(m, Slots(m, x)[i], Slots(m, y)[i])
            [] OTHER -> m.node[x].value = m.node[y].value
-----------------------------------------------------------------------------
(* The client *)

\* Everything that can be reached from the values of S.
Reach(m, S) ==
    LET r[n \in 0 .. Cardinality(DOMAIN m.node)] ==
            IF n = 0 THEN S
            ELSE LET before == r[n - 1] IN before \cup UNION {ToSet(Slots(m, x)) : x \in before}
    IN  r[Cardinality(DOMAIN m.node)]

\* What the client can get hold of through its references.
Known == Reach(mem, Static \cup {x \in Pool : owned[x] > 0})

StaticValue(x) == [kind |-> "scalar", rc |-> -1, value |-> <<x>>]
EmptyMemory(P) ==
    [node |-> [x \in P \cup Static |-> IF x \in Static THEN StaticValue(x) ELSE NULL],
     lost |-> [x \in P |-> 0], fail |-> 0, crashed |-> FALSE]

Init == mem = EmptyMemory(Pool) /\ owned = [x \in Pool |-> 0]

\* The sum of a count over the values.
Total(count) == Cardinality({<<x, i>> \in Pool \X (1 .. MaxRefs + 1) : i <= count[x]})
Gain(o, x) == IF x \in Pool THEN [o EXCEPT ![x] = @ + 1] ELSE o
Give(o, x) == IF x \in Pool THEN [o EXCEPT ![x] = @ - 1] ELSE o
Owns(x) == x \in Pool => owned[x] > 0

\* A call in which allocation n fails, if it gets that far.
Failing(n) == [mem EXCEPT !.fail = n]
Called(m) == m.fail = 0 /\ mem' = m

\* A call that returns a new reference, or NULL.
Creates(Op(_)) ==
    /\ Total(owned) < MaxRefs
    /\ \E n \in FailAt :
        LET r == Op(Failing(n)) IN Called(r.m) /\ owned' = Gain(owned, r.ret)

\* A call that takes over a reference to v, whatever comes of it.
Takes(v, Op(_)) ==
    /\ Owns(v)
    /\ \E n \in FailAt : Called(Op(Failing(n)).m)
    /\ owned' = Give(owned, v)

\* A call that does neither, and one that allocates nothing either.
Changes(Op(_)) == (\E n \in FailAt : Called(Op(Failing(n)).m)) /\ UNCHANGED owned
Frees(Op(_)) == mem' = Op(mem).m /\ UNCHANGED owned

Object == Creates(json_object)
Array == Creates(json_array)
ScalarValue(v) == Creates(LAMBDA m : json_scalar(m, v))
Copy(x) == Creates(LAMBDA m : json_copy(m, x))

Acyclic(m, x) == \A y \in Reach(m, {x}) : y \notin Reach(m, ToSet(Slots(m, y)))
DeepCopy(x) == Acyclic(mem, x) /\ Creates(LAMBDA m : json_deep_copy(m, x))

Incref(x) ==
    /\ x \in Pool /\ Total(owned) < MaxRefs
    /\ mem' = json_incref(mem, x) /\ owned' = Gain(owned, x)

Decref(x) ==
    /\ x \in Pool /\ owned[x] > 0
    /\ mem' = json_decref(mem, x) /\ owned' = Give(owned, x)

\* json_string_set, json_integer_set and json_real_set, of a value of that kind:
\* json_string_set does not make sure that it is one.
ScalarSet(x, v) ==
    /\ x \notin Static /\ mem.node[x].kind = "scalar" /\ mem.node[x].value[1] = v[1]
    /\ mem' = [mem EXCEPT !.node[x].value = v]
    /\ UNCHANGED owned

ObjectSet(x, k, v) == Takes(v, LAMBDA m : json_object_set_new(m, x, k, v))
ObjectDel(x, k) == Frees(LAMBDA m : json_object_del(m, x, k))
ObjectClear(x) == Frees(LAMBDA m : json_object_clear(m, x))

\* The object the members come from must outlive the call, in which the other
\* one may drop it: the client has to have a reference of its own.
ObjectUpdate(x, y) == Owns(y) /\ Changes(LAMBDA m : json_object_update(m, x, y))
ObjectIterSet(x, i, v) == Takes(v, LAMBDA m : json_object_iter_set_new(m, x, i, v))

ArraySet(x, i, v) == Takes(v, LAMBDA m : json_array_set_new(m, x, i, v))
ArrayAppend(x, v) == Takes(v, LAMBDA m : json_array_append_new(m, x, v))
ArrayInsert(x, i, v) == Takes(v, LAMBDA m : json_array_insert_new(m, x, i, v))
ArrayRemove(x, i) == Frees(LAMBDA m : json_array_remove(m, x, i))
ArrayClear(x) == Frees(LAMBDA m : json_array_clear(m, x))
ArrayExtend(x, y) == Changes(LAMBDA m : json_array_extend(m, x, y))

\* A call with these keys, numbers in the order of strcmp, and these <<kind,
\* content>> of strings and numbers.  Of those refused because of the kind of x,
\* which change nothing or just drop v, those of ArrayAppend stand
\* for all.
Call(keys, scalars) ==
    \/ Object \/ Array \/ \E v \in scalars : ScalarValue(v)
    \/ LET known == Known
           objects == {x \in known : IsObject(mem, x)}
           arrays == {x \in known : IsArray(mem, x)}
       IN  \/ \E x \in known :
                \/ Copy(x) \/ DeepCopy(x) \/ Incref(x) \/ Decref(x)
                \/ \E v \in scalars : ScalarSet(x, v)
                \/ \E v \in known : ArrayAppend(x, v)
           \/ \E x \in objects :
                \/ ObjectClear(x)
                \/ \E k \in keys : ObjectDel(x, k)
                \/ \E y \in objects : ObjectUpdate(x, y)
                \/ \E v \in known :
                    \/ \E k \in keys \cup {BadKey} : ObjectSet(x, k, v)
                    \/ \E i \in DOMAIN Members(mem, x) : ObjectIterSet(x, i, v)
           \/ \E x \in arrays :
                \/ ArrayClear(x)
                \/ \E i \in 0 .. mem.node[x].entries : ArrayRemove(x, i)
                \/ \E y \in arrays : ArrayExtend(x, y)
                \/ \E v \in known :
                    \E i \in 0 .. mem.node[x].entries + 1 : ArraySet(x, i, v) \/ ArrayInsert(x, i, v)

\* The client stops when a reference has been lost.
Next(keys, scalars) == Total(mem.lost) = 0 /\ ~mem.crashed /\ Call(keys, scalars)
-----------------------------------------------------------------------------
\* The places that refer to x: the client's, the slots of other values, and
\* the references lost for want of memory.
References(x) ==
    owned[x] + mem.lost[x]
    + Cardinality(UNION {{<<y, i>> : i \in {j \in DOMAIN Slots(mem, y) : Slots(mem, y)[j] = x}} : y \in Alive(mem)})

\* A value counts exactly the references to it, so that none is freed while it
\* can be reached and none stays when it cannot, except through the cycles a
\* client builds and the reference json_object_set_new forgets when it has no
\* memory for the key.
RefcountExact ==
    /\ \A x \in Alive(mem) \ Static :
        mem.node[x].rc = References(x) /\ ToSet(Slots(mem, x)) \subseteq Alive(mem)
    /\ \A x \in Pool \ Alive(mem) : owned[x] = 0 /\ mem.lost[x] = 0

\* A value unfolded: what it says, without the sharing.
RECURSIVE Tree(_, _)
Tree(m, x) ==
    CASE IsObject(m, x) -> <<"object", {<<p.key, Tree(m, p.value)>> : p \in ToSet(Members(m, x))}>>
      [] IsArray(m, x) -> <<"array", [i \in DOMAIN Slots(m, x) |-> Tree(m, Slots(m, x)[i])]>>
      [] OTHER -> <<"scalar", m.node[x].value>>

Whole(m, x) == \A y \in Reach(m, {x}) : ~(IsObject(m, y) /\ Broken(m, y))

\* json_equal holds of two values exactly when they say the same.
EqualIsStructural ==
    \A x, y \in {z \in Known : Acyclic(mem, z) /\ Whole(mem, z)} :
        json_equal(mem, x, y) <=> Tree(mem, x) = Tree(mem, y)

RECURSIVE TreeSize(_, _)
TreeSize(m, x) == 1 + FoldLeft(LAMBDA n, y : n + TreeSize(m, y), 0, Slots(m, x))

\* The memory with room for n more values.
Roomy(m, n) ==
    LET P == {x \in DOMAIN m.node : x \notin Static}
        more == {Cardinality(P) + i : i \in 1 .. n}
    IN  [node |-> [x \in DOMAIN m.node \cup more |-> IF x \in more THEN NULL ELSE m.node[x]],
         lost |-> [x \in P \cup more |-> IF x \in more THEN 0 ELSE m.lost[x]], fail |-> 0, crashed |-> FALSE]

\* With memory enough, a deep copy says what the original says, shares no
\* object, array, string or number with it, and leaves it as it was.
DeepCopyFaithful ==
    \A x \in Known :
        Acyclic(mem, x) =>
            LET m == Roomy(mem, TreeSize(mem, x))
                r == json_deep_copy(m, x)
            IN  /\ Tree(r.m, r.ret) = Tree(mem, x)
                /\ Reach(r.m, {r.ret}) \cap Alive(mem) \subseteq Static
                /\ \A y \in Alive(mem) : r.m.node[y] = mem.node[y]
=============================================================================
