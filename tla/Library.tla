------------------------------- MODULE Library -------------------------------
(***************************************************************************)
(* The sequential code below the threads, against reference definitions:   *)
(* the client of JsonValue, the client of elist.h, or an input that grows  *)
(* and is handed to a pure function.  Which of them, `kind' says.          *)
(***************************************************************************)
EXTENDS JsonText, Lists, Texts

CONSTANT Bound      \* the clients of JsonValue, and what each keeps within:
                    \* these keys and scalars, so many values, arrays, slots,
                    \* and slots that hold no literal

libVars == <<kind, input, mem, owned, heap, held>>

LibInit ==
    /\ Init /\ ListsInit /\ input = <<>>
    /\ kind \in DOMAIN Alphabet \cup DOMAIN Bound \cup {"lists"}

\* Nothing is said of the values once memory that is not there was used.
Values == kind \in DOMAIN Bound /\ ~mem.crashed

\* The bounds of a client.
Within(b) ==
    \/ mem.crashed
    \/ LET alive == Alive(mem) \ Static
           slots == UNION {{x} \X DOMAIN Slots(mem, x) : x \in alive}
       IN  /\ Cardinality(alive) <= b.values /\ Cardinality(slots) <= b.slots
           /\ Cardinality({x \in alive : IsArray(mem, x)}) <= b.arrays
           /\ Cardinality({s \in slots : Slots(mem, s[1])[s[2]] \notin Static}) <= b.links

Client ==
    /\ kind \in DOMAIN Bound /\ UNCHANGED <<kind, input, heap, held>>
    /\ Next(Bound[kind].keys, Bound[kind].scalars)
    /\ Within(Bound[kind])'
Linker == kind = "lists" /\ ListsNext /\ UNCHANGED <<kind, input, mem, owned>>

\* A text that begins with neither brace nor bracket is refused at once, and
\* not worth going on with.
Reader ==
    /\ Grow
    /\ kind = "tokens" /\ input # <<>> => input[1] \in {<<"{">>, <<"[">>}
    /\ UNCHANGED <<mem, owned, heap, held>>

LibNext == Client \/ Linker \/ Reader
LibSpec == LibInit /\ [][LibNext]_libVars
-----------------------------------------------------------------------------
(* Values *)

\* The reference counts of value.c are exact (RefcountExact of JsonValue), also
\* when a key, a pair or the buckets of an object cannot be allocated.
ValuesRefcountExact == Values => RefcountExact

\* json_equal and json_deep_copy mean what they say (JsonValue).
ValuesFaithful == Values => EqualIsStructural /\ DeepCopyFaithful

\* json_dumps writes a value exactly if it does not contain itself, json_loads
\* makes the same value of it, and no mark is left on a value whatever fails.
\* Sorting looks for the members by their keys: no object may be broken.
DumpLoads ==
    Values =>
        \A x \in Known, sorted \in BOOLEAN :
            LET Same(r) == r.ret # NULL /\ Tree(r.m, r.ret) = Tree(mem, x)
                Exact(d) ==
                    /\ d.m.node = mem.node /\ (d.ok <=> Acyclic(mem, x))
                    /\ d.ok => Same(json_loads(EmptyMemory(1 .. TreeSize(mem, x)), d.out))
            IN  (IsObject(mem, x) \/ IsArray(mem, x)) /\ (sorted => Whole(mem, x)) =>
                    /\ Exact(json_dumps(mem, x, sorted))
                    /\ \A n \in FailAt \ {0} : json_dumps(Failing(n), x, sorted).m.node = mem.node

-----------------------------------------------------------------------------
(* Texts *)

RECURSIVE IsValue(_)
RECURSIVE IsMembers(_)
RECURSIVE IsEntries(_)
IsMember(t) == Len(t) > 2 /\ t[1][1] = "string" /\ t[2] = <<":">> /\ IsValue(SubSeq(t, 3, Len(t)))
Inner(t) == SubSeq(t, 2, Len(t) - 1)
CutBy(t, IsFirst(_), IsRest(_)) ==
    \E i \in DOMAIN t : /\ t[i] = <<",">> /\ IsFirst(SubSeq(t, 1, i - 1))
                        /\ IsRest(SubSeq(t, i + 1, Len(t)))
IsMembers(t) == IsMember(t) \/ CutBy(t, IsMember, LAMBDA u : IsMembers(u))
IsEntries(t) == IsValue(t) \/ CutBy(t, LAMBDA u : IsValue(u), LAMBDA u : IsEntries(u))

\* The grammar of JSON.
IsValue(t) ==
    IF Len(t) < 2 THEN Len(t) = 1 /\ t[1][1] \in ValueKinds \cup Static
    ELSE \/ t[1] = <<"{">> /\ t[Len(t)] = <<"}">> /\ (Len(t) = 2 \/ IsMembers(Inner(t)))
         \/ t[1] = <<"[">> /\ t[Len(t)] = <<"]">> /\ (Len(t) = 2 \/ IsEntries(Inner(t)))

\* json_loads accepts the arrays and objects of JSON and nothing else; and
\* whatever it refuses, or whichever allocation fails, it keeps nothing but
\* what it returns and what was lost for want of a key.
LoadsExact ==
    kind = "tokens" =>
        LET empty == EmptyMemory(1 .. Len(input))
            kept(r) == {x \in DOMAIN r.m.lost : r.ret = x \/ r.m.lost[x] > 0}
            Exact(r, n) ==
                /\ Alive(r.m) \ Static = Reach(r.m, kept(r)) \ Static
                /\ n = 0 => (r.ret # NULL <=> Len(input) > 1 /\ IsValue(input))
        IN  \A n \in 0 .. 2 * Len(input) + 1 : Exact(json_loads([empty EXCEPT !.fail = n], input), n)
=============================================================================
