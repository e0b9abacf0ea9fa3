------------------------------- MODULE Helpers -------------------------------
(***************************************************************************)
(* The pure functions of cpuminer against reference definitions: an input  *)
(* grows symbol by symbol and is handed to one of them, which of them,     *)
(* `kind' says from the start.                                             *)
(***************************************************************************)
EXTENDS Integers, Sequences, SequencesExt

CONSTANTS
    Alphabet, MaxInput,     \* for each kind of input, its symbols and its length
    Base, Second, Sizes, WordBytes,                       \* of Codecs
    HashWords,              \* 8: the words of a hash
    atoi, algo_names, HttpUrls, UserPasses, File, num_processors,    \* of Options
    NullString              \* its NULL

ASSUME BasesAssumption ==
    /\ Base \in Nat \ {0, 1} /\ Second \in Nat \ {0}
    /\ WordBytes \in Nat \ {0} /\ HashWords \in Nat \ {0}
    /\ Sizes \in [{"midstate", "data", "hash1", "target"} -> 1 .. Base * Base - 1]

\* A field of the work is one symbol, and what the server did to it.
ASSUME AlphabetAssumption ==
    /\ MaxInput \in [DOMAIN Alphabet -> Nat] /\ MaxInput["work"] <= 4
    /\ Alphabet["hex"] \subseteq 0 .. Base - 1 \cup {-1, -2, -3, -4}
    /\ Alphabet["work"] \subseteq {"good", "absent", "number", "long", "short"}
    /\ Alphabet["hash"] \subseteq 0 .. Base * Base - 1
    /\ Alphabet["time"] \subseteq Nat

ASSUME ProcessorsAssumption == num_processors \in Nat \ {0}

\* No string is NULL, and the files are those of the command lines.
ASSUME StringsAssumption ==
    /\ "" # NullString
    /\ \A a \in Alphabet["options"] : a[2] # NullString /\ (a[1] = "config" => a[2] \in DOMAIN File)
    /\ \A s \in DOMAIN File : File[s] # NullString /\ File[s].kind = "object" =>
            \A key \in DOMAIN File[s].member :
                LET val == File[s].member[key] IN val.kind = "string" => val.text # NullString

VARIABLES kind, input

Cod == INSTANCE Codecs
Opt == INSTANCE Options WITH NULL <- NullString

HelpersInit == kind \in DOMAIN Alphabet /\ input = <<>>

Grow ==
    /\ kind \in DOMAIN Alphabet /\ Len(input) < MaxInput[kind]
    /\ \E a \in Alphabet[kind] : input' = Append(input, a)
    /\ UNCHANGED kind

HelpersSpec == HelpersInit /\ [][Grow]_<<kind, input>>
-----------------------------------------------------------------------------
(* The helpers of cpuminer *)

Digits(s) == \A i \in DOMAIN s : Cod!IsDigit(s[i])

\* A field of a piece of work, by how the server spoiled it.
Field(f, how) ==
    LET good == Cod!bin2hex([i \in 1 .. Sizes[f] |-> i])
    IN  CASE how = "good" -> Cod!Text(good)
          [] how = "number" -> Cod!NoString
          [] how = "long" -> Cod!Text(Append(good, 0))
          [] how = "short" -> Cod!Text(Tail(good))

FieldOrder == <<"midstate", "data", "hash1", "target">>
Answer ==
    [f \in {FieldOrder[i] : i \in {j \in DOMAIN input : input[j] # "absent"}} |->
        Field(f, input[CHOOSE i \in DOMAIN input : FieldOrder[i] = f])]

\* hex2bin undoes bin2hex, takes exactly the lengths asked for and nothing that
\* has no digit for a byte; a piece of work is decoded exactly if all of its
\* fields are whole, and says in hexadecimal what the server said.
HexExact ==
    /\ kind = "hex" =>
        \A len \in 0 .. Len(input) :
            LET r == Cod!hex2bin(input, len)
            IN  /\ r.ok => /\ Len(input) = 2 * len /\ \A i \in DOMAIN r.bytes : r.bytes[i] \in Cod!Byte
                           /\ \A i \in 1 .. len : \E j \in {2 * i - 1, 2 * i} : Cod!IsDigit(input[j])
                /\ Len(input) = 2 * len /\ Digits(input) => r.ok /\ Cod!bin2hex(r.bytes) = input
    /\ kind = "work" =>
        LET r == Cod!work_decode(Answer)
        IN  /\ r.ok <=> Len(input) = 4 /\ \A i \in 1 .. 4 : input[i] = "good"
            /\ r.ok => \A f \in DOMAIN Sizes : Cod!bin2hex(r.work[f]) = Answer[f].text

\* The number a hash or a target is, lowest byte first.
Value256(bytes) == Cod!WordValue(bytes)

\* The bytes of a hash with those of each word in reverse order.
Swabbed(bytes) ==
    [i \in DOMAIN bytes |-> bytes[(2 * ((i - 1) \div WordBytes) + 1) * WordBytes + 1 - i]]

\* fulltest finds out whether the hash, whose words a scanner has left with
\* their bytes swapped, is at most the target.
TargetExact ==
    LET size == HashWords * WordBytes
        hash == SubSeq(input, 1, size)
        target == SubSeq(input, size + 1, 2 * size)
    IN  kind = "hash" /\ Len(input) = 2 * size =>
            (Cod!fulltest_rc(hash, target) <=> Value256(Swabbed(hash)) <= Value256(target))

\* timeval_subtract is exact, with its microseconds in order and its sign right
\* for the times gettimeofday tells.
TimeExact ==
    kind = "time" /\ Len(input) = 4 =>
        LET x == [sec |-> input[1], usec |-> input[2]]
            y == [sec |-> input[3], usec |-> input[4]]
            r == Cod!timeval_subtract(x, y)
            difference == (x.sec - y.sec) * Second + x.usec - y.usec
        IN  /\ r.sec * Second + r.usec = difference
            /\ r.usec \in 0 .. Second
            /\ x.usec < Second /\ y.usec < Second =>
                r.usec < Second /\ (r.negative <=> difference < 0)

-----------------------------------------------------------------------------
(* Options *)

\* The last argument given for an option, NullString if there is none.
LastGiven(key) ==
    LET given == {i \in DOMAIN input : input[i][1] = key}
    IN  IF given = {} THEN NullString ELSE input[CHOOSE i \in given : \A j \in given : i >= j][2]

\* What the last configuration file says about an option, if it may.
Configured(key) ==
    LET file == LastGiven("config")
        member == File[file].member
    IN  IF file = NullString \/ key = "config" THEN NullString
        ELSE IF key \notin DOMAIN member THEN NullString
        ELSE IF key \in Opt!WithArgument /\ member[key].kind = "string" THEN member[key].text
        ELSE IF key \notin Opt!WithArgument /\ member[key].kind = "true" THEN ""
        ELSE NullString

Effective(key) == IF Configured(key) # NullString THEN Configured(key) ELSE LastGiven(key)

\* The program runs on exactly if every argument and every entry of the last
\* configuration file is one it takes, and then every parameter is what the
\* file says, or else what the command line said last, or its default; there
\* is a miner at least whenever there are credentials.
OptionsExact ==
    kind = "options" =>
        LET s == Opt!parse_cmdline(input)
            keys == Opt!WithArgument \cup Opt!Switches \cup {"help"}
            wrong == \/ \E i \in DOMAIN input : ~Opt!Takes(input[i][1], input[i][2])
                     \/ \E key \in keys : Configured(key) # NullString /\ ~Opt!Takes(key, Configured(key))
        IN  /\ s.exit <=> wrong
            /\ ~s.exit =>
                /\ \A key \in DOMAIN Opt!Limits :
                    IF Effective(key) # NullString THEN s.opt[key] = atoi[Effective(key)]
                    ELSE key # "threads" => s.opt[key] = Opt!Defaults[key]
                /\ \A key \in {"user", "pass", "userpass"} : s.opt[key] = Effective(key)
                /\ \A key \in Opt!Switches : s.opt[key] <=> Effective(key) # NullString
            /\ Opt!Credentials(s) # NullString =>
                s.opt.threads > 0 /\ (Effective("threads") = NullString => s.opt.threads = num_processors)

=============================================================================
