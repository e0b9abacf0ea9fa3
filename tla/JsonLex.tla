------------------------------- MODULE JsonLex -------------------------------
(***************************************************************************)
(* jansson's characters: UTF-8 (utf.c), the escapes dump.c writes, and the *)
(* lexer of load.c on a string given to json_loads.  Bytes are numbers.    *)
(***************************************************************************)
EXTENDS Integers, Sequences, SequencesExt

CONSTANT IntMax     \* INT_MAX

IntMin == -IntMax - 1

Quote == 34
Backslash == 92
Slash == 47
Minus == 45
Plus == 43
Dot == 46
Digit == 48 .. 57
Upper == 65 .. 90
Lower == 97 .. 122
Blank == {32, 9, 10, 13}
HexDigit == Digit \cup 65 .. 70 \cup 97 .. 102
Eof == -1

\* The letters of the escapes and the bytes they stand for: b f n r t.
Escape == [c \in {98, 102, 110, 114, 116} |->
              CASE c = 98 -> 8 [] c = 102 -> 12 [] c = 110 -> 10 [] c = 114 -> 13 [] OTHER -> 9]
-----------------------------------------------------------------------------
(* UTF-8 *)

\* <<>> where the code returns -1.
utf8_encode(cp) ==
    LET tail(shift) == 128 + ((cp \div shift) % 64)
    IN  IF cp < 0 \/ cp > 1114111 THEN <<>>
        ELSE IF cp < 128 THEN <<cp>>
        ELSE IF cp < 2048 THEN <<192 + (cp \div 64), tail(1)>>
        ELSE IF cp < 65536 THEN <<224 + (cp \div 4096), tail(64), tail(1)>>
        ELSE <<240 + (cp \div 262144), tail(4096), tail(64), tail(1)>>

\* The length of the sequence a byte begins, 0 if it begins none.
utf8_check_first(u) ==
    IF u < 128 THEN 1
    ELSE IF u < 194 \/ u > 244 THEN 0
    ELSE IF u < 224 THEN 2
    ELSE IF u < 240 THEN 3 ELSE 4

\* What the bytes of a sequence say, and the least that takes so many bytes.
CodePoint(s, i, size) ==
    IF size = 2 THEN 64 * (s[i] % 32) + (s[i + 1] % 64)
    ELSE IF size = 3 THEN 4096 * (s[i] % 16) + 64 * (s[i + 1] % 64) + (s[i + 2] % 64)
    ELSE 262144 * (s[i] % 8) + 4096 * (s[i + 1] % 64) + 64 * (s[i + 2] % 64) + (s[i + 3] % 64)
Shortest(size) == IF size = 2 THEN 128 ELSE IF size = 3 THEN 2048 ELSE 65536

\* The surrogates, which stand for no character of their own.
IsHigh(cp) == 55296 <= cp /\ cp < 56320
IsLow(cp) == 56320 <= cp /\ cp < 57344

\* Mutant: surrogates pass.
utf8_check_full_Surrogate(s, i, size) ==
    IF \/ \E k \in 1 .. size - 1 : s[i + k] < 128 \/ s[i + k] > 191
       \/ CodePoint(s, i, size) > 1114111
       \/ CodePoint(s, i, size) < Shortest(size)
    THEN -1
    ELSE CodePoint(s, i, size)

\* The code point of a sequence of 2, 3 or 4 bytes, -1 where the code returns 0.
utf8_check_full(s, i, size) ==
    IF \/ \E k \in 1 .. size - 1 : s[i + k] < 128 \/ s[i + k] > 191
       \/ CodePoint(s, i, size) > 1114111
       \/ IsHigh(CodePoint(s, i, size)) \/ IsLow(CodePoint(s, i, size))
       \/ CodePoint(s, i, size) < Shortest(size)
    THEN -1
    ELSE CodePoint(s, i, size)

\* The character at i: its code point and length.  A string of C ends with a
\* zero, which no sequence goes past.
utf8_iterate(s, i) ==
    LET n == utf8_check_first(s[i])
        cp == IF n = 1 THEN s[i]
              ELSE IF n = 0 \/ i + n - 1 > Len(s) THEN -1
              ELSE utf8_check_full(s, i, n)
    IN  [cp |-> cp, len |-> n]

\* utf8_check_string of a whole string: the place where it stops is behind it.
utf8_check_string(s) ==
    LET stop[i \in 1 .. Len(s) + 1] ==
            IF i = Len(s) + 1 \/ utf8_iterate(s, i).cp = -1 THEN i
            ELSE stop[i + utf8_iterate(s, i).len]
    IN  stop[1] = Len(s) + 1
-----------------------------------------------------------------------------
(* Writing a string *)

Hex(n) == IF n < 10 THEN 48 + n ELSE 87 + n
U(n) == <<Backslash, 117, Hex(n \div 4096), Hex((n \div 256) % 16), Hex((n \div 16) % 16), Hex(n % 16)>>

Escaped(cp) ==
    IF cp \in {Quote, Backslash} THEN <<Backslash, cp>>
    ELSE IF \E c \in DOMAIN Escape : Escape[c] = cp
         THEN <<Backslash, CHOOSE c \in DOMAIN Escape : Escape[c] = cp>>
    ELSE IF cp < 65536 THEN U(cp)
    ELSE LET v == cp - 65536 IN U(55296 + (v \div 1024)) \o U(56320 + (v % 1024))

NoText == <<>>

\* What is written for the character at i.
Written(s, i, ascii) ==
    LET c == utf8_iterate(s, i)
    IN  IF c.cp \in {Backslash, Quote} \/ c.cp < 32 \/ (ascii /\ c.cp > 127)
        THEN Escaped(c.cp)
        ELSE SubSeq(s, i, i + c.len - 1)

\* dump_string: the text between quotes, NoText if the string is not UTF-8.
dump_string(s, ascii) ==
    LET text[i \in 1 .. Len(s) + 1] ==
            IF i = Len(s) + 1 \/ utf8_iterate(s, i).cp = -1 THEN <<>>
            ELSE Written(s, i, ascii) \o text[i + utf8_iterate(s, i).len]
    IN  IF utf8_check_string(s) THEN <<Quote>> \o text[1] \o <<Quote>> ELSE NoText
-----------------------------------------------------------------------------
(* Reading *)

\* stream_get, call after call until it returns EOF: the bytes, and whether
\* lex_eof is true by then.  A byte that cannot be decoded is an EOF, and so
\* is the byte 255.
Stream(text) ==
    LET n == Len(text)
        from[i \in 1 .. n + 1] ==
            IF i > n THEN [bytes |-> <<Eof>>, eof |-> TRUE]
            ELSE LET c == utf8_iterate(text, i)
                     rest == from[i + c.len]
                 IN  IF c.cp # -1
                     THEN [bytes |-> SubSeq(text, i, i + c.len - 1) \o rest.bytes, eof |-> rest.eof]
                     ELSE \* all the bytes of the sequence have been read
                          [bytes |-> <<Eof>>, eof |-> i + c.len > n \/ (c.len = 0 /\ i = n)]
    IN  from[1]

Token(kind, value, next) == [kind |-> kind, value |-> value, next |-> next]
Bad == Token("invalid", <<>>, 0)

Unhex(c) == IF c \in Digit THEN c - 48 ELSE IF c \in Lower THEN c - 87 ELSE c - 55
\* decode_unicode_escape at the u of an escape.
Unescape(b, i) ==
    4096 * Unhex(b[i + 1]) + 256 * Unhex(b[i + 2]) + 16 * Unhex(b[i + 3]) + Unhex(b[i + 4])

\* Is there an escape of this letter at j?
IsEscape(b, j, letter) == b[j] = Backslash /\ b[j + 1] = letter

\* The length of the byte or the escape at j, 0 if it may not stand in a string.
UnitLength(b, j) ==
    CASE IsEscape(b, j, 117) -> IF \A d \in 2 .. 5 : b[j + d] \in HexDigit THEN 6 ELSE 0
      [] b[j] = Backslash /\ b[j + 1] \in {Quote, Backslash, Slash} \cup DOMAIN Escape -> 2
      [] b[j] > 31 /\ b[j] # Backslash -> 1
      [] OTHER -> 0

\* The closing quote of a string that goes on at i, 0 if there is none.
StringEnd(b, i) ==
    LET end[j \in i .. Len(b)] ==
            IF b[j] = Quote THEN j
            ELSE IF UnitLength(b, j) = 0 THEN 0 ELSE end[j + UnitLength(b, j)]
    IN  end[i]

\* Mutant: a surrogate that comes first is not asked for its pair.
Unit_Lone(b, j) ==
    LET value == Unescape(b, j + 1)
    IN  IF b[j] # Backslash THEN [bytes |-> <<b[j]>>, len |-> 1]
        ELSE IF b[j + 1] # 117
        THEN [bytes |-> <<IF b[j + 1] \in DOMAIN Escape THEN Escape[b[j + 1]] ELSE b[j + 1]>>, len |-> 2]
        ELSE [bytes |-> IF value = 0 \/ IsLow(value) THEN <<>> ELSE utf8_encode(value), len |-> 6]

\* What stands at j, a byte, an escape or a pair of them: its length and the
\* bytes it stands for, <<>> if none.
Unit(b, j) ==
    LET value == Unescape(b, j + 1)
        second == IF IsEscape(b, j + 6, 117) THEN Unescape(b, j + 7) ELSE -1
    IN  IF b[j] # Backslash THEN [bytes |-> <<b[j]>>, len |-> 1]
        ELSE IF b[j + 1] # 117
        THEN [bytes |-> <<IF b[j + 1] \in DOMAIN Escape THEN Escape[b[j + 1]] ELSE b[j + 1]>>, len |-> 2]
        ELSE IF IsHigh(value)
        THEN [bytes |-> IF ~IsLow(second) THEN <<>>
                        ELSE utf8_encode((value - 55296) * 1024 + (second - 56320) + 65536),
              len |-> 12]
        ELSE [bytes |-> IF value = 0 \/ IsLow(value) THEN <<>> ELSE utf8_encode(value), len |-> 6]

\* After the opening quote: first the end is looked for, then the text decoded.
lex_scan_string(b, i) ==
    LET end == StringEnd(b, i)
        decode[j \in i .. end + 11] ==
            IF j >= end THEN [ok |-> TRUE, text |-> <<>>]
            ELSE LET rest == decode[j + Unit(b, j).len]
                 IN  [ok |-> Unit(b, j).bytes # <<>> /\ rest.ok, text |-> Unit(b, j).bytes \o rest.text]
    IN  IF end = 0 \/ ~decode[i].ok THEN Bad ELSE Token("string", decode[i].text, end + 1)

\* The first place from i on without a byte of S.
Skip(b, i, S) ==
    CHOOSE j \in i .. Len(b) : b[j] \notin S /\ \A k \in i .. j - 1 : b[k] \in S

Decimal(s) ==
    LET value[n \in 0 .. Len(s)] == IF n = 0 THEN 0 ELSE 10 * value[n - 1] + s[n] - 48
    IN  value[Len(s)]

\* The integer that is written from i to j - 1, if an int can hold it.
ScanInteger(b, i, j) ==
    LET negative == b[i] = Minus
        value == IF negative THEN -Decimal(SubSeq(b, i + 1, j - 1)) ELSE Decimal(SubSeq(b, i, j - 1))
    IN  IF value \in IntMin .. IntMax THEN Token("integer", value, j) ELSE Bad

\* The number from i on, whose fraction, if any, ends before j.
ScanExponent(b, i, j) ==
    LET digits == IF b[j + 1] \in {Plus, Minus} THEN j + 2 ELSE j + 1
        Real(end) == Token("real", SubSeq(b, i, end - 1), end)
    IN  IF b[j] \notin {69, 101} THEN Real(j)
        ELSE IF b[digits] \notin Digit THEN Bad
        ELSE Real(Skip(b, digits, Digit))

\* The number from i on, whose digits before a point end before j.
ScanFraction(b, i, j) ==
    IF b[j] \notin {Dot, 69, 101} THEN ScanInteger(b, i, j)
    ELSE IF b[j] # Dot THEN ScanExponent(b, i, j)
    ELSE IF b[j + 1] \notin Digit THEN Bad
    ELSE ScanExponent(b, i, Skip(b, j + 1, Digit))

\* At a digit or a minus.  What strtod makes of a real is left to strtod, which
\* never meets one too big here.
lex_scan_number(b, i) ==
    LET first == IF b[i] = Minus THEN i + 1 ELSE i
    IN  IF b[first] \notin Digit \/ (b[first] = 48 /\ b[first + 1] \in Digit) THEN Bad
        ELSE ScanFraction(b, i, IF b[first] = 48 THEN first + 1 ELSE Skip(b, first, Digit))

\* The names true, false and null, as bytes.
Names == {<<116, 114, 117, 101>>, <<102, 97, 108, 115, 101>>, <<110, 117, 108, 108>>}

\* The token from i on; s is a stream.
lex_scan(s, i) ==
    LET b == s.bytes
        j == Skip(b, i, Blank)
        c == b[j]
        word == Skip(b, j, Upper \cup Lower)
    IN  CASE c = Eof -> IF s.eof THEN Token("end", <<>>, j) ELSE Bad
          [] c \in {123, 125, 91, 93, 58, 44} -> Token("mark", c, j + 1)
          [] c = Quote -> lex_scan_string(b, j + 1)
          [] c \in Digit \cup {Minus} -> lex_scan_number(b, j)
          [] c \in Upper \cup Lower ->
                IF SubSeq(b, j, word - 1) \in Names THEN Token("name", SubSeq(b, j, word - 1), word) ELSE Bad
          [] OTHER -> Bad
=============================================================================
