-------------------------------- MODULE Codecs --------------------------------
(***************************************************************************)
(* The pure helpers of cpuminer: hexadecimal strings, the decoding of a    *)
(* piece of work, the comparison of a hash with its target, and the        *)
(* difference of two times.  A byte is 0 .. Base * Base - 1, two digits.   *)
(***************************************************************************)
EXTENDS Integers, Sequences, SequencesExt, FiniteSets

CONSTANTS
    Base,           \* 16
    Second,         \* 1000000: the microseconds of a second
    Sizes,          \* Sizes[f]: the bytes of a field of struct work
    WordBytes       \* 4: the bytes of a word

Byte == 0 .. Base * Base - 1

\* A character is the digit it stands for, or one of these.
Space == -1
PlusSign == -2
MinusSign == -3
NoDigit == -4
IsDigit(c) == c >= 0

\* Two digits for each byte, the high one first.
bin2hex(p) ==
    [j \in 1 .. 2 * Len(p) |-> LET byte == p[(j + 1) \div 2]
                               IN  IF j % 2 = 1 THEN byte \div Base ELSE byte % Base]

\* sscanf("%x") of two characters, as a byte: white space and a sign may come
\* first, what follows a digit and is none is left; -1 if there is no number.
ScanByte(c, d) ==
    CASE IsDigit(c) /\ IsDigit(d) -> Base * c + d
      [] IsDigit(c) /\ ~IsDigit(d) -> c
      [] c \in {Space, PlusSign} /\ IsDigit(d) -> d
      [] c = MinusSign /\ IsDigit(d) -> (Base * Base - d) % (Base * Base)
      [] OTHER -> -1

\* Mutant: what is left of the string is not looked at.
hex2bin_Prefix(hexstr, len) ==
    LET byte(i) == ScanByte(hexstr[2 * i - 1], hexstr[2 * i])
    IN  IF Len(hexstr) < 2 * len \/ \E i \in 1 .. len : byte(i) = -1
        THEN [ok |-> FALSE, bytes |-> <<>>]
        ELSE [ok |-> TRUE, bytes |-> [i \in 1 .. len |-> byte(i)]]

\* False if the string is too short, too long or of odd length; the caller
\* throws away what was stored by then.
hex2bin(hexstr, len) ==
    LET byte(i) == ScanByte(hexstr[2 * i - 1], hexstr[2 * i])
    IN  IF Len(hexstr) # 2 * len \/ \E i \in 1 .. len : byte(i) = -1
        THEN [ok |-> FALSE, bytes |-> <<>>]
        ELSE [ok |-> TRUE, bytes |-> [i \in 1 .. len |-> byte(i)]]

\* The value of a member: its kind, and its text if it is a string.
NoString == [kind |-> "other", text |-> <<>>]
Text(s) == [kind |-> "string", text |-> s]

jobj_binary(obj, key, buflen) ==
    IF key \notin DOMAIN obj THEN [ok |-> FALSE, bytes |-> <<>>]
    ELSE IF obj[key].kind # "string" THEN [ok |-> FALSE, bytes |-> <<>>]
    ELSE hex2bin(obj[key].text, buflen)

\* midstate, data, hash1 and target; the hash starts as zeros.
work_decode(val) ==
    LET field == [f \in DOMAIN Sizes |-> jobj_binary(val, f, Sizes[f])]
    IN  IF \E f \in DOMAIN Sizes : ~field[f].ok THEN [ok |-> FALSE]
        ELSE [ok |-> TRUE, work |-> [f \in DOMAIN Sizes |-> field[f].bytes]]

-----------------------------------------------------------------------------
\* A word is the sequence of its bytes, lowest first.
swab32(w) == Reverse(w)
swap256(words) == Reverse(words)
Words(bytes) ==
    [i \in 1 .. Len(bytes) \div WordBytes |-> SubSeq(bytes, (i - 1) * WordBytes + 1, i * WordBytes)]

\* What a word of a little-endian machine counts.
WordValue(w) ==
    LET upper[n \in 0 .. Len(w)] ==   \* of its n highest bytes
            IF n = 0 THEN 0 ELSE Base * Base * upper[n - 1] + w[Len(w) + 1 - n]
    IN  upper[Len(w)]

\* Mutant: the words of the hash are compared as they are.
fulltest_rc_Unswapped(hash, target) ==
    LET h == swap256(Words(hash))
        t == swap256(Words(target))
        differ == {i \in DOMAIN h : WordValue(h[i]) # WordValue(t[i])}
    IN  differ = {} \/ LET i == CHOOSE j \in differ : \A k \in differ : j <= k
                       IN  WordValue(h[i]) < WordValue(t[i])

\* rc of fulltest, which the code computes, logs and does not return: the first
\* words that differ decide.
fulltest_rc(hash, target) ==
    LET h == swap256(Words(hash))
        t == swap256(Words(target))
        differ == {i \in DOMAIN h : WordValue(swab32(h[i])) # WordValue(t[i])}
    IN  differ = {} \/ LET i == CHOOSE j \in differ : \A k \in differ : j <= k
                       IN  WordValue(swab32(h[i])) < WordValue(t[i])

-----------------------------------------------------------------------------
\* The carries of timeval_subtract, which change y.
Carry(x, y) ==
    LET n == (y.usec - x.usec) \div Second + 1
    IN  IF x.usec < y.usec THEN [sec |-> y.sec + n, usec |-> y.usec - Second * n] ELSE y

Excess(x, y) ==
    LET n == (x.usec - y.usec) \div Second
    IN  IF x.usec - y.usec > Second THEN [sec |-> y.sec - n, usec |-> y.usec + Second * n] ELSE y

\* Mutant: the carry is one second short.
timeval_subtract_Short(x, y) ==
    LET z == IF x.usec < y.usec THEN [sec |-> y.sec, usec |-> y.usec - Second] ELSE y
    IN  [sec |-> x.sec - z.sec, usec |-> x.usec - z.usec, negative |-> x.sec < z.sec]

timeval_subtract(x, y) ==
    LET z == Excess(x, Carry(x, y))
    IN  [sec |-> x.sec - z.sec, usec |-> x.usec - z.usec, negative |-> x.sec < z.sec]
=============================================================================
