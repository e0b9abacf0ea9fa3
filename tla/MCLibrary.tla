------------------------------ MODULE MCLibrary ------------------------------
(* Small alphabets with the boundaries of every table and limit in them. *)
EXTENDS Library

\* Values in one another, and objects of more members than they have room for.
Bounds == [
    nested |-> [keys |-> {1}, scalars |-> {<<"string", 1>>, <<"string", 2>>},
               values |-> 3, arrays |-> 3, slots |-> 2, links |-> 2],
    members |-> [keys |-> {1, 2, 3}, scalars |-> {<<"integer", 1>>},
                values |-> 2, arrays |-> 0, slots |-> 3, links |-> 1]]

\* One member fills an object, which is then rehashed once and for all.
FewBuckets == <<1, 9>>

MCSizes == [midstate |-> 1, data |-> 2, hash1 |-> 1, target |-> 1]

Str(s) == [kind |-> "string", text |-> s]
Yes == [kind |-> "true"]
Other == [kind |-> "number"]
Obj(m) == [kind |-> "object", member |-> m]

\* The strings there are on the command line and in the files.
Numbers == ("-2" :> -2) @@ ("-1" :> -1) @@ ("0" :> 0) @@ ("4" :> 4) @@ ("9999" :> 9999) @@ ("10000" :> 10000)
Files ==
    ("none" :> NullString) @@ ("list" :> [kind |-> "array"]) @@
    ("good" :> Obj([user |-> Str("joe"), pass |-> Str("x"), threads |-> Str("4"), quiet |-> Yes,
                    config |-> Str("none"), retries |-> Other, debug |-> Str("yes")])) @@
    ("bad" :> Obj([retries |-> Str("-2")])) @@
    ("pair" :> Obj([userpass |-> Str("joe:x"), scantime |-> Str("9999")])) @@
    ("help" :> Obj([help |-> Yes]))

Arguments ==
    {<<"retries", "-2">>, <<"retries", "-1">>, <<"retries", "10000">>, <<"retry-pause", "0">>, <<"scantime", "4">>,
     <<"threads", "0">>, <<"threads", "9999">>, <<"user", "ann">>, <<"pass", "y">>, <<"userpass", "ann">>,
     <<"userpass", "joe:x">>, <<"url", "http:">>, <<"url", "ftp:">>, <<"algo", "c">>, <<"quiet", "">>, <<"?", "">>}
    \cup {<<"config", f>> : f \in DOMAIN Files}

Alphabets == [
    tokens |-> {<<c>> : c \in {"{", "}", "[", "]", ":", ","}} \cup {<<"string", 1>>},
    bytes |-> {34, 10, 128, 143, 144, 159, 160, 191, 194, 224, 237, 240, 244},
    escapes |-> 1 .. 11,
    number |-> {45, 48, 49, 57, 46, 101, 43},
    hex |-> {0, 3, -1, -2, -3, -4},
    work |-> {"good", "absent", "number", "long", "short"},
    hash |-> {0, 1, 3},
    time |-> 0 .. 7,
    options |-> Arguments]

Lengths == [tokens |-> 6, bytes |-> 4, escapes |-> 4, number |-> 5, hex |-> 4, work |-> 4,
            hash |-> 8, time |-> 4, options |-> 3]
=============================================================================
