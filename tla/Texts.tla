------------------------------- MODULE Texts --------------------------------
(***************************************************************************)
(* The characters of jansson against reference definitions: an input of    *)
(* Helpers is a string to write and read back, a text with escapes, or a   *)
(* number.                                                                 *)
(***************************************************************************)
EXTENDS Helpers

CONSTANT IntMax     \* of JsonLex

ASSUME LimitAssumption == IntMax \in Nat

\* A string of C has no zero in it; numbers consist of what numbers consist of;
\* escapes come in the pieces listed below.
ASSUME CharactersAssumption ==
    /\ Alphabet["bytes"] \subseteq 1 .. 255
    /\ Alphabet["escapes"] \subseteq 1 .. 11
    /\ Alphabet["number"] \subseteq {43, 45, 46, 69, 101} \cup 48 .. 57

Lex == INSTANCE JsonLex

\* The Unicode standard's table of well-formed UTF-8: in each row the ranges of
\* the first byte, the second and so on.
Trail == <<128, 191>>
Utf8Table == {
    <<<<0, 127>>>>,
    <<<<194, 223>>, Trail>>,
    <<<<224, 224>>, <<160, 191>>, Trail>>,
    <<<<225, 236>>, Trail, Trail>>,
    <<<<237, 237>>, <<128, 159>>, Trail>>,
    <<<<238, 239>>, Trail, Trail>>,
    <<<<240, 240>>, <<144, 191>>, Trail, Trail>>,
    <<<<241, 243>>, Trail, Trail, Trail>>,
    <<<<244, 244>>, <<128, 143>>, Trail, Trail>>}

\* Does a character of this row stand at i?
Matches(s, i, row) ==
    /\ i + Len(row) - 1 <= Len(s)
    /\ \A j \in DOMAIN row : row[j][1] <= s[i + j - 1] /\ s[i + j - 1] <= row[j][2]

\* The string is cut into characters.
WellFormed(s) ==
    \E cut \in SUBSET (1 .. Len(s) + 1) :
        /\ {1, Len(s) + 1} \subseteq cut
        /\ \A i \in cut \ {Len(s) + 1} : \E row \in Utf8Table : Matches(s, i, row) /\ i + Len(row) \in cut

\* A string is written exactly if it is well-formed UTF-8, as ASCII if asked
\* for, and the lexer reads back what was written.
StringRoundTrip ==
    kind = "bytes" =>
        LET Exact(d, ascii) ==
                /\ d # Lex!NoText <=> WellFormed(input)
                /\ d # Lex!NoText =>
                    /\ Lex!lex_scan(Lex!Stream(d), 1) = Lex!Token("string", input, Len(d) + 1)
                    /\ ascii => \A i \in DOMAIN d : d[i] < 128
        IN  \A ascii \in BOOLEAN : Exact(Lex!dump_string(input, ascii), ascii)

\* What the pieces of the kind "escapes" are written as, and what they say;
\* <<>> is nothing a string may contain.  The last two are surrogates that
\* make U+1D11E.
Piece == <<[text |-> <<122>>, says |-> <<122>>],
           [text |-> <<92, 110>>, says |-> <<10>>],
           [text |-> <<92, 47>>, says |-> <<47>>],
           [text |-> <<92, 117, 48, 48, 52, 49>>, says |-> <<65>>],
           [text |-> <<92, 117, 48, 55, 70, 102>>, says |-> <<223, 191>>],
           [text |-> <<92, 117, 48, 48, 48, 48>>, says |-> <<>>],
           [text |-> <<92, 117, 48, 48>>, says |-> <<>>],
           [text |-> <<92, 120>>, says |-> <<>>],
           [text |-> <<31>>, says |-> <<>>],
           [text |-> <<92, 117, 68, 56, 51, 52>>, says |-> <<>>],
           [text |-> <<92, 117, 100, 100, 49, 101>>, says |-> <<>>]>>
Clef == <<240, 157, 132, 158>>

Says(pieces) ==
    LET from[i \in 1 .. Len(pieces) + 1] ==
            IF i > Len(pieces) THEN [ok |-> TRUE, text |-> <<>>]
            ELSE IF pieces[i] = 10 /\ i < Len(pieces) /\ pieces[i + 1] = 11
                 THEN [from[i + 2] EXCEPT !.text = Clef \o @]
            ELSE [ok |-> Piece[pieces[i]].says # <<>> /\ from[i + 1].ok,
                  text |-> Piece[pieces[i]].says \o from[i + 1].text]
    IN  from[1]

\* The grammar of numbers.
IsDigits(t) == t # <<>> /\ \A i \in DOMAIN t : t[i] \in 48 .. 57
IsInt(t) ==
    LET u == IF t # <<>> /\ t[1] = 45 THEN Tail(t) ELSE t
    IN  IsDigits(u) /\ (u[1] = 48 => Len(u) = 1)
IsFraction(t) == t = <<>> \/ (t[1] = 46 /\ IsDigits(Tail(t)))
IsExponent(t) ==
    \/ t = <<>>
    \/ t[1] \in {69, 101} /\ (IsDigits(Tail(t)) \/ (Len(t) > 1 /\ t[2] \in {43, 45} /\ IsDigits(SubSeq(t, 3, Len(t)))))
IsNumber(t) ==
    \E a \in 0 .. Len(t) : \E b \in a .. Len(t) :
        IsInt(SubSeq(t, 1, a)) /\ IsFraction(SubSeq(t, a + 1, b)) /\ IsExponent(SubSeq(t, b + 1, Len(t)))

\* The number an integer says.
Number(t) ==
    LET value[i \in 0 .. Len(t)] == IF i = 0 THEN 0 ELSE IF t[i] = 45 THEN 0 ELSE 10 * value[i - 1] + t[i] - 48
    IN  IF t[1] = 45 THEN -value[Len(t)] ELSE value[Len(t)]

\* The lexer reads exactly the strings and numbers of JSON, of the integers
\* those an int holds, and makes of them what they say.
LexExact ==
    LET scanned(text) == Lex!lex_scan(Lex!Stream(text), 1)
        quoted == <<34>> \o FlattenSeq([i \in DOMAIN input |-> Piece[input[i]].text]) \o <<34>>
        Reads(t, said) == t = IF said.ok THEN Lex!Token("string", said.text, Len(quoted) + 1) ELSE Lex!Bad
        ReadsNumber(t) ==
            /\ t.next = Len(input) + 1 /\ t.kind \in {"integer", "real"}
                <=> IsNumber(input) /\ (IsInt(input) => Number(input) \in -IntMax - 1 .. IntMax)
            /\ IsInt(input) /\ t.kind = "integer" => t.value = Number(input)
    IN  /\ kind = "escapes" => Reads(scanned(quoted), Says(input))
        /\ kind = "number" => ReadsNumber(scanned(input))
=============================================================================
