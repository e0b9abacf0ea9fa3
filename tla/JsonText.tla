------------------------------- MODULE JsonText -------------------------------
(***************************************************************************)
(* jansson's dump.c and the parser of load.c: the values of JsonValue as   *)
(* sequences of tokens.  What stands for a token in characters is the      *)
(* module JsonLex; white space and indentation are left out.               *)
(***************************************************************************)
EXTENDS JsonValue

(* A token is <<"{">> and the like, or what a string, number or literal says. *)
Literal(x) == <<x>>
KeyToken(k) == <<"string", k>>
ValueKinds == {"string", "integer", "real"}

\* A dump under way: the tokens written and whether all went well.
Dump(m, out, ok) == [m |-> m, out |-> out, ok |-> ok]
\* fwrite or the growth of the buffer may fail.
write(s, tok) ==
    IF ~s.ok THEN s
    ELSE IF s.m.fail = 1 THEN Dump(After(s.m, 1), s.out, FALSE)
    ELSE Dump(After(s.m, 1), Append(s.out, tok), TRUE)

\* Whether a member's key was written is not looked at.
write_key(s, k) == IF ~s.ok THEN s ELSE [write(s, KeyToken(k)) EXCEPT !.ok = TRUE]

\* JSON_SORT_KEYS allocates an array to sort the members in.  Otherwise the
\* order is that of the members, with JSON_PRESERVE_ORDER that of their serials,
\* which is the same here.
DumpOrder(members, sorted) ==
    IF sorted THEN SortSeq(members, LAMBDA p, q : p.key < q.key) ELSE members

\* Mutant: the mark of a value that was written is left.
Leave_Marked(s, x) == IF s.ok THEN s ELSE [s EXCEPT !.m.node[x].visited = FALSE]

\* do_dump marks an object or array while it is being written, and fails when
\* it meets a marked one.
Leave(s, x) == [s EXCEPT !.m.node[x].visited = FALSE]

\* JSON_SORT_KEYS needs an array of the members, if there are any.
SortKeys(s, members, sorted) ==
    IF ~sorted \/ members = <<>> THEN s
    ELSE Dump(After(s.m, 1), s.out, s.ok /\ s.m.fail # 1)

RECURSIVE do_dump(_, _, _)
RECURSIVE dump_members(_, _, _)
RECURSIVE dump_entries(_, _, _)

Separated(s, rest) == IF Len(rest) > 1 THEN write(s, <<",">>) ELSE s

\* The loops over what is left of the members of an object or the entries of
\* an array; a dump that has failed writes nothing more.
dump_members(s, members, sorted) ==
    IF members = <<>> \/ ~s.ok THEN s
    ELSE dump_members(Separated(do_dump(write(write_key(s, members[1].key), <<":">>), members[1].value, sorted),
                                members), Tail(members), sorted)
dump_entries(s, slots, sorted) ==
    IF slots = <<>> \/ ~s.ok THEN s
    ELSE dump_entries(Separated(do_dump(s, slots[1], sorted), slots), Tail(slots), sorted)

do_dump(s, x, sorted) ==
    LET open == [s EXCEPT !.m.node[x].visited = TRUE]
        members == DumpOrder(Members(s.m, x), sorted)
    IN  IF ~s.ok THEN s
        ELSE IF ~IsObject(s.m, x) /\ ~IsArray(s.m, x) THEN write(s, s.m.node[x].value)
        ELSE IF s.m.node[x].visited THEN Leave([s EXCEPT !.ok = FALSE], x)
        ELSE IF IsObject(s.m, x)
             THEN write(Leave(dump_members(SortKeys(write(open, <<"{">>), members, sorted), members, sorted), x),
                        <<"}">>)
             ELSE write(Leave(dump_entries(write(open, <<"[">>), Slots(s.m, x), sorted), x), <<"]">>)

Copied(s) == Dump(After(s.m, 1), s.out, s.ok /\ s.m.fail # 1)

\* A buffer, the text, and a copy of it for the caller.
json_dumps(m, x, sorted) ==
    IF ~IsObject(m, x) /\ ~IsArray(m, x) THEN Dump(m, <<>>, FALSE)
    ELSE IF m.fail = 1 THEN Dump(After(m, 1), <<>>, FALSE)
    ELSE Copied(do_dump(Dump(After(m, 1), <<>>, TRUE), x, sorted))
-----------------------------------------------------------------------------
(* The parser: m, the token the lexer is at, what follows it, and the value   *)
(* parsed, NULL if there is none.                                             *)

EOF == <<"end">>
Invalid == <<"invalid">>

\* The text of a string is allocated.
lex_scan(s) ==
    LET tok == IF s.rest = <<>> THEN EOF ELSE s.rest[1]
        string == tok[1] = "string"
    IN  [m |-> IF string THEN After(s.m, 1) ELSE s.m,
         tok |-> IF string /\ s.m.fail = 1 THEN Invalid ELSE tok,
         rest |-> IF s.rest = <<>> THEN <<>> ELSE Tail(s.rest),
         ret |-> NULL]

Parsed(s, r) == [s EXCEPT !.m = r.m, !.ret = r.ret]
\* The object or array begun is dropped.
Abandon(s, x) == Parsed(s, Result(json_decref(s.m, x), NULL))
\* The parser's own reference to a value that has been stored, or not.
Release(s, r, v) == Parsed(s, Result(json_decref(r.m, v), NULL))

\* The value v has been parsed and is, by r, stored in x or not: the token
\* after it, or no x.
Stored(v, r, x) ==
    IF v.ret = NULL THEN Abandon(v, x)
    ELSE IF r.ret # 0 THEN Abandon(Release(v, r, v.ret), x)
    ELSE [lex_scan(Release(v, r, v.ret)) EXCEPT !.ret = x]
StoreMember(v, x, k) == Stored(v, json_object_set_nocheck(v.m, x, k, v.ret), x)
StoreEntry(v, x) == Stored(v, json_array_append(v.m, x, v.ret), x)

RECURSIVE parse_value(_)
RECURSIVE parse_members(_, _)
RECURSIVE parse_entries(_, _)

NextMember(s, x) ==
    IF s.ret = NULL \/ s.tok = <<"}">> THEN s
    ELSE IF s.tok = <<",">> THEN parse_members(lex_scan(s), x)
    ELSE Abandon(s, x)

\* The loop of parse_object, at the key of a member of the object x.
parse_members(s, x) ==
    LET colon == lex_scan(s)
    IN  IF s.tok[1] # "string" THEN Abandon(s, x)
        ELSE IF colon.tok # <<":">> THEN Abandon(colon, x)
        ELSE NextMember(StoreMember(parse_value(lex_scan(colon)), x, s.tok[2]), x)

NextEntry(s, x) ==
    IF s.ret = NULL \/ s.tok = <<"]">> THEN s
    ELSE IF s.tok = <<",">> THEN parse_entries(lex_scan(s), x)
    ELSE Abandon(s, x)

\* The loop of parse_array, at an element of the array x.
parse_entries(s, x) ==
    IF s.tok = EOF THEN Abandon(s, x) ELSE NextEntry(StoreEntry(parse_value(s), x), x)

parse_object(s) ==
    LET r == json_object(s.m)
        t == lex_scan(Parsed(s, r))
    IN  IF r.ret = NULL THEN Parsed(s, r)
        ELSE IF t.tok = <<"}">> THEN [t EXCEPT !.ret = r.ret]
        ELSE parse_members(t, r.ret)

parse_array(s) ==
    LET r == json_array(s.m)
        t == lex_scan(Parsed(s, r))
    IN  IF r.ret = NULL THEN Parsed(s, r)
        ELSE IF t.tok = <<"]">> THEN [t EXCEPT !.ret = r.ret]
        ELSE parse_entries(t, r.ret)

parse_value(s) ==
    CASE s.tok[1] \in ValueKinds -> Parsed(s, json_scalar(s.m, s.tok))
      [] s.tok[1] \in Static -> [s EXCEPT !.ret = s.tok[1]]
      [] s.tok = <<"{">> -> parse_object(s)
      [] s.tok = <<"[">> -> parse_array(s)
      [] OTHER -> [s EXCEPT !.ret = NULL]

Refused(s) == Result(s.m, NULL)

\* Mutant: what follows the value is not looked at.
Ended_Prefix(v) == Result(v.m, v.ret)

\* The end of the text has to follow the value v.
Ended(v) ==
    IF v.ret = NULL THEN Refused(v)
    ELSE IF lex_scan(v).tok # EOF THEN Refused(Abandon(lex_scan(v), v.ret))
    ELSE Result(lex_scan(v).m, v.ret)

\* json_loads and json_loadf: a buffer for the lexer, then one object or array.
json_loads(m, text) ==
    LET s == lex_scan([m |-> After(m, 1), tok |-> Invalid, rest |-> text, ret |-> NULL])
    IN  IF m.fail = 1 THEN Result(After(m, 1), NULL)
        ELSE IF s.tok \notin {<<"{">>, <<"[">>} THEN Refused(s)
        ELSE Ended(parse_value(s))
=============================================================================
