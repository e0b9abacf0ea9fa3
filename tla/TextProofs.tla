----------------------------- MODULE TextProofs -----------------------------
(***************************************************************************)
(* Two facts about texts of any length.  What dump.c writes for a string   *)
(* is what the lexer of load.c reads back, and utf.c knows UTF-8; and what *)
(* lex_scan_string and lex_scan_number make of a text is what the          *)
(* grammar of JSON says of it, escapes and surrogate pairs included.       *)
(* Characters and escapes come first, then what the decoder makes of       *)
(* them, then whole texts, by induction along them.                        *)
(***************************************************************************)
EXTENDS Texts, EListProofs, FiniteSetTheorems
-----------------------------------------------------------------------------
(* Text. *)

\* A set of places that has every place with all behind it has all places.
LEMMA FromEnd ==
    ASSUME NEW a \in Int, NEW n \in Int, NEW S,
           \A i \in a .. n : (\A j \in i + 1 .. n : j \in S) => i \in S
    PROVE  \A i \in a .. n : i \in S
<1> DEFINE Missing == {k \in Nat : n - k \in a .. n /\ n - k \notin S}
<1> SUFFICES ASSUME NEW i \in a .. n, i \notin S PROVE FALSE
  OBVIOUS
<1>1. n - i \in Missing
  OBVIOUS
<1>2. Missing \in SUBSET Nat /\ Missing # {}
  BY <1>1
<1>3. PICK m \in Missing : \A k \in Missing : m <= k
  <2> HIDE DEF Missing
  <2> QED
    BY <1>2, Least
<1>4. \A j \in (n - m) + 1 .. n : j \in S
  <2> SUFFICES ASSUME NEW j \in (n - m) + 1 .. n, j \notin S PROVE FALSE
    OBVIOUS
  <2>1. m \in Nat /\ n - m \in a .. n
    BY <1>3
  <2>2. n - j \in Nat /\ n - (n - j) = j /\ j \in a .. n /\ ~(m <= n - j)
    BY <2>1
  <2>3. n - j \in Missing
    BY <2>2
  <2> QED
    BY <1>3, <2>2, <2>3
<1> QED
  BY <1>3, <1>4

\* A function from the end of a text to its front: at each place it depends on
\* its value at a later one.
Backward(g, D, V, v, F, jump) ==
    /\ g \in [D -> V]
    /\ \A i \in D : g[i] = F[<<i, IF i + jump[i] \in D THEN g[i + jump[i]] ELSE v>>]

LEMMA Recursion ==
    ASSUME NEW a \in Int, NEW n \in Int, NEW V, NEW v \in V,
           NEW F \in [(a .. n) \X V -> V], NEW jump \in [a .. n -> Nat \ {0}]
    PROVE  \E g : Backward(g, a .. n, V, v, F, jump)
<1> DEFINE D == a .. n
           Value(g, i) == F[<<i, IF i + jump[i] \in D THEN g[i + jump[i]] ELSE v>>]
           Fits(g, k) == g \in [D -> V] /\ \A i \in D : n - i < k => g[i] = Value(g, i)
           Ok == {k \in Nat : \E g : Fits(g, k)}
<1>1. \A g \in [D -> V], i \in D : Value(g, i) \in V
  <2> SUFFICES ASSUME NEW g \in [D -> V], NEW i \in D PROVE Value(g, i) \in V
    OBVIOUS
  <2>1. (IF i + jump[i] \in D THEN g[i + jump[i]] ELSE v) \in V
    OBVIOUS
  <2> QED
    BY <2>1
<1>2. 0 \in Ok
  <2>1. [i \in D |-> v] \in [D -> V]
    OBVIOUS
  <2>2. \A i \in D : ~(n - i < 0)
    OBVIOUS
  <2>3. Fits([i \in D |-> v], 0)
    BY <2>1, <2>2
  <2> QED
    BY <2>3
<1>3. ASSUME NEW k \in Nat, k \in Ok PROVE k + 1 \in Ok
  <2>1. PICK g : Fits(g, k)
    BY <1>3
  <2>2. g \in [D -> V] /\ \A i \in D : n - i < k => g[i] = Value(g, i)
    BY <2>1
  <2> DEFINE h == [i \in D |-> IF n - i = k THEN Value(g, i) ELSE g[i]]
  <2> HIDE DEF Value
  <2>3. h \in [D -> V]
    BY <2>2, <1>1
  <2>4. \A i \in D : h[i] = IF n - i = k THEN Value(g, i) ELSE g[i]
    OBVIOUS
  <2> HIDE DEF h
  <2>5. ASSUME NEW i \in D, n - i < k + 1 PROVE h[i] = Value(h, i)
    <3>1. Value(h, i) = Value(g, i)
      <4>1. jump[i] \in Nat \ {0} /\ i \in Int
        OBVIOUS
      <4>2. i + jump[i] \in D => h[i + jump[i]] = g[i + jump[i]]
        BY <4>1, <2>4, <2>5
      <4> QED
        BY <4>2 DEF Value
    <3>2. CASE n - i = k
      BY <3>1, <3>2, <2>4
    <3>3. CASE n - i # k
      <4>1. n - i < k
        BY <3>3, <2>5
      <4> QED
        BY <3>1, <3>3, <4>1, <2>2, <2>4
    <3> QED
      BY <3>2, <3>3
  <2>6. Fits(h, k + 1)
    BY <2>3, <2>5
  <2> HIDE DEF Fits
  <2>7. \E x : Fits(x, k + 1)
    BY <2>6
  <2> QED
    BY <2>7
<1>4. \A k \in Nat : k \in Ok
  <2> HIDE DEF Ok
  <2> QED
    BY <1>2, <1>3, Induction
<1>5. CASE n < a
  <2>1. D = {}
    BY <1>5
  <2>2. [i \in D |-> v] \in [D -> V]
    OBVIOUS
  <2> QED
    BY <2>1, <2>2 DEF Backward
<1>6. CASE ~(n < a)
  <2>1. (n - a) + 1 \in Ok
    <3>1. (n - a) + 1 \in Nat
      BY <1>6
    <3> HIDE DEF Ok
    <3> QED
      BY <3>1, <1>4
  <2>2. PICK g : Fits(g, (n - a) + 1)
    BY <2>1
  <2>3. \A i \in D : n - i < (n - a) + 1
    OBVIOUS
  <2>4. Backward(g, D, V, v, F, jump)
    BY <2>2, <2>3 DEF Backward
  <2> QED
    BY <2>4
<1> QED
  BY <1>5, <1>6

\* The strings of C and the characters in them, by their length.
Strings == Seq(Nat \ {0})
Char(s, i) == Lex!utf8_iterate(s, i)

Follows(u) == 128 <= u /\ u <= 191

Good1(s, i) == s[i] < 128
Good2(s, i) == i + 1 <= Len(s) /\ 194 <= s[i] /\ s[i] < 224 /\ Follows(s[i + 1])
Good3(s, i) ==
    /\ i + 2 <= Len(s) /\ 224 <= s[i] /\ s[i] < 240 /\ Follows(s[i + 1]) /\ Follows(s[i + 2])
    /\ s[i] = 224 => s[i + 1] >= 160
    /\ s[i] = 237 => s[i + 1] < 160
Good4(s, i) ==
    /\ i + 3 <= Len(s) /\ 240 <= s[i] /\ s[i] < 245
    /\ Follows(s[i + 1]) /\ Follows(s[i + 2]) /\ Follows(s[i + 3])
    /\ s[i] = 240 => s[i + 1] >= 144
    /\ s[i] = 244 => s[i + 1] < 144
GoodChar(s, i) == Good1(s, i) \/ Good2(s, i) \/ Good3(s, i) \/ Good4(s, i)

Code2(x, y) == 64 * (x - 192) + (y - 128)
Code3(x, y, z) == 4096 * (x - 224) + 64 * (y - 128) + (z - 128)
Code4(x, y, z, w) == 262144 * (x - 240) + 4096 * (y - 128) + 64 * (z - 128) + (w - 128)

LEMMA Bytes ==
    ASSUME NEW s \in Strings
    PROVE  Len(s) \in Nat /\ \A i \in 1 .. Len(s) : s[i] \in Int /\ s[i] > 0
  BY DEF Strings

\* A code point is what the bytes say of it: three bytes and four.
LEMMA Arithmetic3 ==
    ASSUME NEW a \in Int, NEW b \in Int, NEW c \in Int,
           0 <= a, a <= 15, 0 <= b, b <= 63, 0 <= c, c <= 63
    PROVE  LET v == 4096 * a + 64 * b + c
           IN  /\ 0 <= v /\ v <= 65535
               /\ v < 2048 <=> a = 0 /\ b < 32
               /\ 55296 <= v /\ v < 57344 <=> a = 13 /\ b >= 32
<1> DEFINE w == 64 * b + c
<1>1. w \in Int /\ 0 <= w /\ w <= 4095 /\ (w < 2048 <=> b < 32)
  OBVIOUS
<1> HIDE DEF w
<1>2. 4096 * a + 64 * b + c = 4096 * a + w
  BY DEF w
<1> QED
  BY <1>1, <1>2

LEMMA Arithmetic4 ==
    ASSUME NEW a \in Int, NEW b \in Int, NEW c \in Int, NEW d \in Int,
           0 <= a, a <= 4, 0 <= b, b <= 63, 0 <= c, c <= 63, 0 <= d, d <= 63
    PROVE  LET v == 262144 * a + 4096 * b + 64 * c + d
           IN  /\ 0 <= v
               /\ v < 65536 <=> a = 0 /\ b < 16
               /\ v > 1114111 <=> a = 4 /\ b >= 16
<1> DEFINE w == 4096 * b + 64 * c + d
<1>1. w \in Int /\ 0 <= w /\ w <= 262143 /\ (w < 65536 <=> b < 16)
  OBVIOUS
<1> HIDE DEF w
<1>2. 262144 * a + 4096 * b + 64 * c + d = 262144 * a + w
  BY DEF w
<1> QED
  BY <1>1, <1>2

LEMMA Code3Range ==
    ASSUME NEW x, NEW y, NEW z, x \in Int, y \in Int, z \in Int, 224 <= x, x < 240, Follows(y), Follows(z)
    PROVE  /\ Code3(x, y, z) \in Int
           /\ 0 <= Code3(x, y, z) /\ Code3(x, y, z) <= 65535
           /\ Code3(x, y, z) < 2048 <=> x = 224 /\ y < 160
           /\ 55296 <= Code3(x, y, z) /\ Code3(x, y, z) < 57344 <=> x = 237 /\ y >= 160
<1> DEFINE a == x - 224
           b == y - 128
           c == z - 128
           v == Code3(x, y, z)
<1>1. /\ a \in Int /\ b \in Int /\ c \in Int
      /\ 0 <= a /\ a <= 15 /\ 0 <= b /\ b <= 63 /\ 0 <= c /\ c <= 63
      /\ (a = 0 <=> x = 224) /\ (a = 13 <=> x = 237) /\ (b < 32 <=> y < 160)
  BY DEF Follows
<1>2. v = 4096 * a + 64 * b + c /\ v \in Int
  BY DEF Code3
<1> HIDE DEF a, b, c, v
<1>3. /\ 0 <= v /\ v <= 65535
      /\ v < 2048 <=> a = 0 /\ b < 32
      /\ 55296 <= v /\ v < 57344 <=> a = 13 /\ b >= 32
  BY <1>1, <1>2, Arithmetic3
<1>4. /\ v < 2048 <=> x = 224 /\ y < 160
      /\ 55296 <= v /\ v < 57344 <=> x = 237 /\ y >= 160
  BY <1>1, <1>3
<1> QED
  BY <1>2, <1>3, <1>4 DEF v

LEMMA Code4Range ==
    ASSUME NEW x, NEW y, NEW z, NEW w, x \in Int, y \in Int, z \in Int, w \in Int,
           240 <= x, x < 245, Follows(y), Follows(z), Follows(w)
    PROVE  /\ Code4(x, y, z, w) \in Int /\ 0 <= Code4(x, y, z, w)
           /\ Code4(x, y, z, w) < 65536 <=> x = 240 /\ y < 144
           /\ Code4(x, y, z, w) > 1114111 <=> x = 244 /\ y >= 144
<1> DEFINE a == x - 240
           b == y - 128
           c == z - 128
           d == w - 128
           v == Code4(x, y, z, w)
<1>1. /\ a \in Int /\ b \in Int /\ c \in Int /\ d \in Int
      /\ 0 <= a /\ a <= 4 /\ 0 <= b /\ b <= 63 /\ 0 <= c /\ c <= 63 /\ 0 <= d /\ d <= 63
      /\ (a = 0 <=> x = 240) /\ (a = 4 <=> x = 244) /\ (b < 16 <=> y < 144)
  BY DEF Follows
<1>2. v = 262144 * a + 4096 * b + 64 * c + d /\ v \in Int
  BY DEF Code4
<1> HIDE DEF a, b, c, d, v
<1>3. /\ 0 <= v
      /\ v < 65536 <=> a = 0 /\ b < 16
      /\ v > 1114111 <=> a = 4 /\ b >= 16
  BY <1>1, <1>2, Arithmetic4
<1>4. /\ v < 65536 <=> x = 240 /\ y < 144
      /\ v > 1114111 <=> x = 244 /\ y >= 144
  BY <1>1, <1>3
<1> QED
  BY <1>2, <1>3, <1>4 DEF v

\* The low bits of a byte that follows, and of one that leads.
LEMMA LowBits ==
    ASSUME NEW u \in Int
    PROVE  /\ Follows(u) => u % 64 = u - 128
           /\ 192 <= u /\ u < 224 => u % 32 = u - 192
           /\ 224 <= u /\ u < 240 => u % 16 = u - 224
           /\ 240 <= u /\ u < 248 => u % 8 = u - 240
  BY DEF Follows

\* The checks of a sequence, and the code point of two, three and four bytes.
LEMMA Full ==
    ASSUME NEW s, NEW i \in Int, NEW n \in 2 .. 4, NEW v \in Int, v = Lex!CodePoint(s, i, n),
           \A k \in 1 .. n - 1 : Follows(s[i + k]) /\ s[i + k] \in Int
    PROVE  Lex!utf8_check_full(s, i, n) =
               IF v > 1114111 \/ (55296 <= v /\ v < 57344) \/ v < Lex!Shortest(n) THEN -1 ELSE v
<1>1. ~ \E k \in 1 .. n - 1 : s[i + k] < 128 \/ s[i + k] > 191
  BY DEF Follows
<1>2. (Lex!IsHigh(v) \/ Lex!IsLow(v)) <=> (55296 <= v /\ v < 57344)
  BY DEF Lex!IsHigh, Lex!IsLow
<1> QED
  BY <1>1, <1>2 DEF Lex!utf8_check_full

LEMMA FullBad ==
    ASSUME NEW s, NEW i \in Int, NEW n \in 2 .. 4,
           NEW k \in 1 .. n - 1, s[i + k] \in Int, ~Follows(s[i + k])
    PROVE  Lex!utf8_check_full(s, i, n) = -1
<1>1. s[i + k] < 128 \/ s[i + k] > 191
  BY DEF Follows
<1> QED
  BY <1>1 DEF Lex!utf8_check_full

LEMMA Full2 ==
    ASSUME NEW s, NEW i \in Int, s[i] \in Int, s[i + 1] \in Int, 194 <= s[i], s[i] < 224
    PROVE  Lex!utf8_check_full(s, i, 2) = IF Follows(s[i + 1]) THEN Code2(s[i], s[i + 1]) ELSE -1
<1> DEFINE v == Lex!CodePoint(s, i, 2)
<1>1. v = 64 * (s[i] % 32) + (s[i + 1] % 64) /\ Lex!Shortest(2) = 128
  BY DEF Lex!CodePoint, Lex!Shortest
<1> HIDE DEF v
<1>2. CASE Follows(s[i + 1])
  <2>1. s[i] % 32 = s[i] - 192 /\ s[i + 1] % 64 = s[i + 1] - 128
    BY <1>2, LowBits
  <2>2. v = Code2(s[i], s[i + 1]) /\ v \in Int /\ v >= 128 /\ v < 2048
    BY <1>1, <1>2, <2>1 DEF Code2, Follows
  <2>3. \A k \in 1 .. 2 - 1 : Follows(s[i + k]) /\ s[i + k] \in Int
    BY <1>2
  <2>4. Lex!utf8_check_full(s, i, 2) =
            IF v > 1114111 \/ (55296 <= v /\ v < 57344) \/ v < Lex!Shortest(2) THEN -1 ELSE v
    BY <2>2, <2>3, Full DEF v
  <2> QED
    BY <1>1, <1>2, <2>2, <2>4
<1>3. CASE ~Follows(s[i + 1])
  <2>1. Lex!utf8_check_full(s, i, 2) = -1
    BY <1>3, FullBad
  <2> QED
    BY <1>3, <2>1
<1> QED
  BY <1>2, <1>3

LEMMA Full3 ==
    ASSUME NEW s, NEW i \in Int, s[i] \in Int, s[i + 1] \in Int, s[i + 2] \in Int, 224 <= s[i], s[i] < 240
    PROVE  Lex!utf8_check_full(s, i, 3) =
              IF /\ Follows(s[i + 1]) /\ Follows(s[i + 2])
                 /\ s[i] = 224 => s[i + 1] >= 160
                 /\ s[i] = 237 => s[i + 1] < 160
              THEN Code3(s[i], s[i + 1], s[i + 2]) ELSE -1
<1> DEFINE v == Lex!CodePoint(s, i, 3)
<1>1. v = 4096 * (s[i] % 16) + 64 * (s[i + 1] % 64) + (s[i + 2] % 64) /\ Lex!Shortest(3) = 2048
  BY DEF Lex!CodePoint, Lex!Shortest
<1> HIDE DEF v
<1>2. CASE Follows(s[i + 1]) /\ Follows(s[i + 2])
  <2>1. s[i] % 16 = s[i] - 224 /\ s[i + 1] % 64 = s[i + 1] - 128 /\ s[i + 2] % 64 = s[i + 2] - 128
    BY <1>2, LowBits
  <2>2. v = Code3(s[i], s[i + 1], s[i + 2])
    BY <1>1, <2>1 DEF Code3
  <2>3. /\ v \in Int /\ v <= 65535
        /\ v < 2048 <=> s[i] = 224 /\ s[i + 1] < 160
        /\ 55296 <= v /\ v < 57344 <=> s[i] = 237 /\ s[i + 1] >= 160
    BY <1>2, <2>2, Code3Range
  <2>4. s[i] \in Int /\ s[i + 1] \in Int
    OBVIOUS
  <2>5. \A k \in 1 .. 3 - 1 : Follows(s[i + k]) /\ s[i + k] \in Int
    BY <1>2
  <2>6. Lex!utf8_check_full(s, i, 3) =
            IF v > 1114111 \/ (55296 <= v /\ v < 57344) \/ v < Lex!Shortest(3) THEN -1 ELSE v
    BY <2>3, <2>5, Full DEF v
  <2> QED
    BY <1>1, <1>2, <2>2, <2>3, <2>4, <2>6
<1>3. CASE ~(Follows(s[i + 1]) /\ Follows(s[i + 2]))
  <2>1. Lex!utf8_check_full(s, i, 3) = -1
    BY <1>3, FullBad
  <2> QED
    BY <1>3, <2>1
<1> QED
  BY <1>2, <1>3

LEMMA Full4 ==
    ASSUME NEW s, NEW i \in Int, s[i] \in Int, s[i + 1] \in Int, s[i + 2] \in Int, s[i + 3] \in Int,
           240 <= s[i], s[i] < 245
    PROVE  Lex!utf8_check_full(s, i, 4) =
              IF /\ Follows(s[i + 1]) /\ Follows(s[i + 2]) /\ Follows(s[i + 3])
                 /\ s[i] = 240 => s[i + 1] >= 144
                 /\ s[i] = 244 => s[i + 1] < 144
              THEN Code4(s[i], s[i + 1], s[i + 2], s[i + 3]) ELSE -1
<1> DEFINE v == Lex!CodePoint(s, i, 4)
<1>1. /\ v = 262144 * (s[i] % 8) + 4096 * (s[i + 1] % 64) + 64 * (s[i + 2] % 64) + (s[i + 3] % 64)
      /\ Lex!Shortest(4) = 65536
  BY DEF Lex!CodePoint, Lex!Shortest
<1> HIDE DEF v
<1>2. CASE Follows(s[i + 1]) /\ Follows(s[i + 2]) /\ Follows(s[i + 3])
  <2>1. /\ s[i] % 8 = s[i] - 240 /\ s[i + 1] % 64 = s[i + 1] - 128
        /\ s[i + 2] % 64 = s[i + 2] - 128 /\ s[i + 3] % 64 = s[i + 3] - 128
    BY <1>2, LowBits
  <2>2. v = Code4(s[i], s[i + 1], s[i + 2], s[i + 3])
    BY <1>1, <2>1 DEF Code4
  <2>3. /\ v \in Int
        /\ v < 65536 <=> s[i] = 240 /\ s[i + 1] < 144
        /\ v > 1114111 <=> s[i] = 244 /\ s[i + 1] >= 144
    BY <1>2, <2>2, Code4Range
  <2>4. s[i] \in Int /\ s[i + 1] \in Int
    OBVIOUS
  <2>5. \A k \in 1 .. 4 - 1 : Follows(s[i + k]) /\ s[i + k] \in Int
    BY <1>2
  <2>6. Lex!utf8_check_full(s, i, 4) =
            IF v > 1114111 \/ (55296 <= v /\ v < 57344) \/ v < Lex!Shortest(4) THEN -1 ELSE v
    BY <2>3, <2>5, Full DEF v
  <2>7. ~(55296 <= v /\ v < 57344 /\ v >= 65536)
    BY <2>3
  <2> QED
    BY <1>1, <1>2, <2>2, <2>3, <2>4, <2>6, <2>7
<1>3. CASE ~(Follows(s[i + 1]) /\ Follows(s[i + 2]) /\ Follows(s[i + 3]))
  <2>1. Lex!utf8_check_full(s, i, 4) = -1
    BY <1>3, FullBad
  <2> QED
    BY <1>3, <2>1
<1> QED
  BY <1>2, <1>3

\* What utf8_iterate makes of what stands at i.
LEMMA CharIs ==
    ASSUME NEW s \in Strings, NEW i \in 1 .. Len(s)
    PROVE  /\ Good1(s, i) => Char(s, i) = [cp |-> s[i], len |-> 1]
           /\ Good2(s, i) => Char(s, i) = [cp |-> Code2(s[i], s[i + 1]), len |-> 2]
           /\ Good3(s, i) => Char(s, i) = [cp |-> Code3(s[i], s[i + 1], s[i + 2]), len |-> 3]
           /\ Good4(s, i) => Char(s, i) = [cp |-> Code4(s[i], s[i + 1], s[i + 2], s[i + 3]), len |-> 4]
           /\ ~GoodChar(s, i) => Char(s, i).cp = -1
<1> DEFINE n == Lex!utf8_check_first(s[i])
           c == Char(s, i)
<1>1. /\ s[i] \in Int /\ s[i] > 0 /\ i \in Int /\ Len(s) \in Nat /\ i <= Len(s)
      /\ i + 1 <= Len(s) => s[i + 1] \in Int
      /\ i + 2 <= Len(s) => s[i + 2] \in Int
      /\ i + 3 <= Len(s) => s[i + 3] \in Int
  BY Bytes
<1>2. /\ s[i] < 128 => n = 1
      /\ s[i] >= 128 /\ s[i] < 194 => n = 0
      /\ s[i] >= 194 /\ s[i] < 224 => n = 2
      /\ s[i] >= 224 /\ s[i] < 240 => n = 3
      /\ s[i] >= 240 /\ s[i] < 245 => n = 4
      /\ s[i] >= 245 => n = 0
  BY <1>1 DEF Lex!utf8_check_first
<1> HIDE DEF n
<1>3. c = [cp |-> IF n = 1 THEN s[i]
                  ELSE IF n = 0 \/ i + n - 1 > Len(s) THEN -1
                  ELSE Lex!utf8_check_full(s, i, n),
           len |-> n]
  BY DEF n, Char, Lex!utf8_iterate
<1> HIDE DEF c
<1>4. CASE s[i] < 128
  BY <1>1, <1>2, <1>3, <1>4 DEF c, Good1, Good2, Good3, Good4, GoodChar
<1>5. CASE (s[i] >= 128 /\ s[i] < 194) \/ s[i] >= 245
  BY <1>1, <1>2, <1>3, <1>5 DEF c, Good1, Good2, Good3, Good4, GoodChar
<1>6. CASE s[i] >= 194 /\ s[i] < 224
  <2>1. n = 2 /\ c = [cp |-> IF i + 1 > Len(s) THEN -1 ELSE Lex!utf8_check_full(s, i, 2), len |-> 2]
    BY <1>1, <1>2, <1>3, <1>6
  <2>2. i + 1 <= Len(s) =>
            Lex!utf8_check_full(s, i, 2) = IF Follows(s[i + 1]) THEN Code2(s[i], s[i + 1]) ELSE -1
    BY <1>1, <1>6, Full2
  <2>3. ~Good1(s, i) /\ ~Good3(s, i) /\ ~Good4(s, i) /\ (Good2(s, i) <=> i + 1 <= Len(s) /\ Follows(s[i + 1]))
    BY <1>1, <1>6 DEF Good1, Good2, Good3, Good4
  <2> QED
    BY <1>1, <2>1, <2>2, <2>3 DEF c, GoodChar
<1>7. CASE s[i] >= 224 /\ s[i] < 240
  <2> DEFINE Right == /\ Follows(s[i + 1]) /\ Follows(s[i + 2])
                      /\ s[i] = 224 => s[i + 1] >= 160
                      /\ s[i] = 237 => s[i + 1] < 160
  <2>1. n = 3 /\ c = [cp |-> IF i + 2 > Len(s) THEN -1 ELSE Lex!utf8_check_full(s, i, 3), len |-> 3]
    BY <1>1, <1>2, <1>3, <1>7
  <2>2. i + 2 <= Len(s) =>
            Lex!utf8_check_full(s, i, 3) = IF Right THEN Code3(s[i], s[i + 1], s[i + 2]) ELSE -1
    BY <1>1, <1>7, Full3
  <2>3. ~Good1(s, i) /\ ~Good2(s, i) /\ ~Good4(s, i) /\ (Good3(s, i) <=> i + 2 <= Len(s) /\ Right)
    BY <1>1, <1>7 DEF Good1, Good2, Good3, Good4
  <2> HIDE DEF Right
  <2> QED
    BY <1>1, <2>1, <2>2, <2>3 DEF c, GoodChar
<1>8. CASE s[i] >= 240 /\ s[i] < 245
  <2> DEFINE Right == /\ Follows(s[i + 1]) /\ Follows(s[i + 2]) /\ Follows(s[i + 3])
                      /\ s[i] = 240 => s[i + 1] >= 144
                      /\ s[i] = 244 => s[i + 1] < 144
  <2>1. n = 4 /\ c = [cp |-> IF i + 3 > Len(s) THEN -1 ELSE Lex!utf8_check_full(s, i, 4), len |-> 4]
    BY <1>1, <1>2, <1>3, <1>8
  <2>2. i + 3 <= Len(s) =>
            Lex!utf8_check_full(s, i, 4) = IF Right THEN Code4(s[i], s[i + 1], s[i + 2], s[i + 3]) ELSE -1
    BY <1>1, <1>8, Full4
  <2>3. ~Good1(s, i) /\ ~Good2(s, i) /\ ~Good3(s, i) /\ (Good4(s, i) <=> i + 3 <= Len(s) /\ Right)
    BY <1>1, <1>8 DEF Good1, Good2, Good3, Good4
  <2> HIDE DEF Right
  <2> QED
    BY <1>1, <2>1, <2>2, <2>3 DEF c, GoodChar
<1> QED
  BY <1>1, <1>4, <1>5, <1>6, <1>7, <1>8

\* The four kinds of characters exclude each other.
LEMMA GoodKinds ==
    ASSUME NEW s \in Strings, NEW i \in 1 .. Len(s)
    PROVE  /\ ~(Good1(s, i) /\ Good2(s, i)) /\ ~(Good1(s, i) /\ Good3(s, i)) /\ ~(Good1(s, i) /\ Good4(s, i))
           /\ ~(Good2(s, i) /\ Good3(s, i)) /\ ~(Good2(s, i) /\ Good4(s, i)) /\ ~(Good3(s, i) /\ Good4(s, i))
<1>1. s[i] \in Int
  BY Bytes
<1> QED
  BY <1>1 DEF Good1, Good2, Good3, Good4

\* The code points of the longer sequences.
LEMMA CodeRanges ==
    ASSUME NEW s \in Strings, NEW i \in 1 .. Len(s)
    PROVE  /\ Good1(s, i) => s[i] \in Int /\ s[i] > 0
           /\ Good2(s, i) => LET v == Code2(s[i], s[i + 1]) IN v \in Int /\ v >= 128 /\ v < 2048
           /\ Good3(s, i) => LET v == Code3(s[i], s[i + 1], s[i + 2])
                             IN  v \in Int /\ v >= 2048 /\ v < 65536 /\ ~(55296 <= v /\ v < 57344)
           /\ Good4(s, i) => LET v == Code4(s[i], s[i + 1], s[i + 2], s[i + 3])
                             IN  v \in Int /\ v >= 65536 /\ v <= 1114111
<1>1. /\ s[i] \in Int /\ s[i] > 0 /\ i \in Int /\ Len(s) \in Nat /\ i <= Len(s)
      /\ i + 1 <= Len(s) => s[i + 1] \in Int
      /\ i + 2 <= Len(s) => s[i + 2] \in Int
      /\ i + 3 <= Len(s) => s[i + 3] \in Int
  BY Bytes
<1>2. ASSUME Good2(s, i) PROVE LET v == Code2(s[i], s[i + 1]) IN v \in Int /\ v >= 128 /\ v < 2048
  <2> DEFINE x == s[i]
             y == s[i + 1]
  <2>1. x \in Int /\ y \in Int /\ 194 <= x /\ x < 224 /\ 128 <= y /\ y <= 191
    BY <1>1, <1>2 DEF Good2, Follows
  <2> HIDE DEF x, y
  <2>2. Code2(x, y) \in Int /\ Code2(x, y) >= 128 /\ Code2(x, y) < 2048
    BY <2>1 DEF Code2
  <2> QED
    BY <2>2 DEF x, y
<1>3. ASSUME Good3(s, i)
      PROVE  LET v == Code3(s[i], s[i + 1], s[i + 2])
             IN  v \in Int /\ v >= 2048 /\ v < 65536 /\ ~(55296 <= v /\ v < 57344)
  <2> DEFINE x == s[i]
             y == s[i + 1]
             z == s[i + 2]
             v == Code3(x, y, z)
  <2>1. /\ x \in Int /\ y \in Int /\ z \in Int /\ 224 <= x /\ x < 240
        /\ Follows(y) /\ Follows(z)
        /\ x = 224 => y >= 160
        /\ x = 237 => y < 160
    BY <1>1, <1>3 DEF Good3
  <2> HIDE DEF x, y, z
  <2>2. /\ v \in Int /\ v <= 65535
        /\ v < 2048 <=> x = 224 /\ y < 160
        /\ 55296 <= v /\ v < 57344 <=> x = 237 /\ y >= 160
    BY <2>1, Code3Range
  <2> HIDE DEF v
  <2>3. v \in Int /\ v >= 2048 /\ v < 65536 /\ ~(55296 <= v /\ v < 57344)
    BY <2>1, <2>2
  <2> QED
    BY <2>3 DEF v, x, y, z
<1>4. ASSUME Good4(s, i)
      PROVE  LET v == Code4(s[i], s[i + 1], s[i + 2], s[i + 3])
             IN  v \in Int /\ v >= 65536 /\ v <= 1114111
  <2> DEFINE x == s[i]
             y == s[i + 1]
             z == s[i + 2]
             w == s[i + 3]
             v == Code4(x, y, z, w)
  <2>1. /\ x \in Int /\ y \in Int /\ z \in Int /\ w \in Int /\ 240 <= x /\ x < 245
        /\ Follows(y) /\ Follows(z) /\ Follows(w)
        /\ x = 240 => y >= 144
        /\ x = 244 => y < 144
    BY <1>1, <1>4 DEF Good4
  <2> HIDE DEF x, y, z, w
  <2>2. /\ v \in Int
        /\ v < 65536 <=> x = 240 /\ y < 144
        /\ v > 1114111 <=> x = 244 /\ y >= 144
    BY <2>1, Code4Range
  <2> HIDE DEF v
  <2>3. v \in Int /\ v >= 65536 /\ v <= 1114111
    BY <2>1, <2>2
  <2> QED
    BY <2>3 DEF v, x, y, z, w
<1> QED
  BY <1>1, <1>2, <1>3, <1>4

ValidChar(s, i) == Char(s, i).cp # -1

\* One of the four kinds, to split on.
LEMMA ValidIs ==
    ASSUME NEW s \in Strings, NEW i \in 1 .. Len(s)
    PROVE  ValidChar(s, i) <=> GoodChar(s, i)
<1>1. CASE Good1(s, i)
  BY <1>1, CharIs, CodeRanges DEF ValidChar, GoodChar
<1>2. CASE Good2(s, i)
  BY <1>2, CharIs, CodeRanges DEF ValidChar, GoodChar
<1>3. CASE Good3(s, i)
  BY <1>3, CharIs, CodeRanges DEF ValidChar, GoodChar
<1>4. CASE Good4(s, i)
  BY <1>4, CharIs, CodeRanges DEF ValidChar, GoodChar
<1>5. CASE ~GoodChar(s, i)
  BY <1>5, CharIs DEF ValidChar
<1> QED
  BY <1>1, <1>2, <1>3, <1>4, <1>5 DEF GoodChar

\* What is known of a character.
Shape(s, i, c) ==
    /\ c.len \in 1 .. 4 /\ i + c.len - 1 <= Len(s)
    /\ c.cp \in Int /\ 1 <= c.cp /\ c.cp <= 1114111 /\ ~(55296 <= c.cp /\ c.cp < 57344)
    /\ c.cp < 128 => c.len = 1 /\ s[i] = c.cp
    /\ c.cp >= 128 => \A k \in 0 .. c.len - 1 : s[i + k] >= 128

LEMMA CharShape ==
    ASSUME NEW s \in Strings, NEW i \in 1 .. Len(s), ValidChar(s, i)
    PROVE  Shape(s, i, Char(s, i))
<1>0. i \in Int /\ Len(s) \in Nat /\ i <= Len(s) /\ s[i] \in Int /\ s[i] > 0
  BY Bytes
<1>1. CASE Good1(s, i)
  <2>1. Char(s, i) = [cp |-> s[i], len |-> 1]
    BY <1>1, CharIs
  <2> QED
    BY <1>0, <1>1, <2>1 DEF Shape, Good1
<1>2. CASE Good2(s, i)
  <2> DEFINE v == Code2(s[i], s[i + 1])
  <2>1. Char(s, i) = [cp |-> v, len |-> 2] /\ v \in Int /\ v >= 128 /\ v < 2048
    BY <1>2, CharIs, CodeRanges
  <2>2. i + 1 <= Len(s) /\ s[i] >= 128 /\ s[i + 1] >= 128
    BY <1>0, <1>2 DEF Good2, Follows
  <2>3. \A k \in 0 .. 2 - 1 : s[i + k] >= 128
    BY <1>0, <2>2
  <2> HIDE DEF v
  <2> QED
    BY <1>0, <2>1, <2>2, <2>3 DEF Shape
<1>3. CASE Good3(s, i)
  <2> DEFINE v == Code3(s[i], s[i + 1], s[i + 2])
  <2>1. Char(s, i) = [cp |-> v, len |-> 3] /\ v \in Int /\ v >= 2048 /\ v < 65536 /\ ~(55296 <= v /\ v < 57344)
    BY <1>3, CharIs, CodeRanges
  <2>2. i + 2 <= Len(s) /\ s[i] >= 128 /\ s[i + 1] >= 128 /\ s[i + 2] >= 128
    BY <1>0, <1>3 DEF Good3, Follows
  <2>3. \A k \in 0 .. 3 - 1 : s[i + k] >= 128
    BY <1>0, <2>2
  <2> HIDE DEF v
  <2> QED
    BY <1>0, <2>1, <2>2, <2>3 DEF Shape
<1>4. CASE Good4(s, i)
  <2> DEFINE v == Code4(s[i], s[i + 1], s[i + 2], s[i + 3])
  <2>1. Char(s, i) = [cp |-> v, len |-> 4] /\ v \in Int /\ v >= 65536 /\ v <= 1114111
    BY <1>4, CharIs, CodeRanges
  <2>2. i + 3 <= Len(s) /\ s[i] >= 128 /\ s[i + 1] >= 128 /\ s[i + 2] >= 128 /\ s[i + 3] >= 128
    BY <1>0, <1>4 DEF Good4, Follows
  <2>3. \A k \in 0 .. 4 - 1 : s[i + k] >= 128
    BY <1>0, <2>2
  <2> HIDE DEF v
  <2> QED
    BY <1>0, <2>1, <2>2, <2>3 DEF Shape
<1> QED
  BY <1>1, <1>2, <1>3, <1>4, ValidIs DEF GoodChar

\* A character of ASCII.
LEMMA CharAscii ==
    ASSUME NEW s \in Strings, NEW i \in 1 .. Len(s), s[i] < 128
    PROVE  Char(s, i) = [cp |-> s[i], len |-> 1] /\ ValidChar(s, i)
<1>1. s[i] \in Int /\ s[i] > 0 /\ Good1(s, i)
  BY Bytes DEF Good1
<1> QED
  BY <1>1, CharIs DEF ValidChar

\* The same bytes are the same character.
SameBytes(s, i, d, q, n) == q + n - 1 <= Len(d) /\ \A k \in 0 .. n - 1 : d[q + k] = s[i + k]

LEMMA CharLocal ==
    ASSUME NEW s \in Strings, NEW i \in 1 .. Len(s), ValidChar(s, i),
           NEW d \in Strings, NEW q \in 1 .. Len(d), SameBytes(s, i, d, q, Char(s, i).len)
    PROVE  Char(d, q) = Char(s, i) /\ ValidChar(d, q)
<1>0. i \in Int /\ Len(s) \in Nat /\ i <= Len(s) /\ q \in Int /\ Len(d) \in Nat /\ q <= Len(d)
  BY Bytes
<1>1. CASE Good1(s, i)
  <2>1. Char(s, i) = [cp |-> s[i], len |-> 1]
    BY <1>1, CharIs
  <2>2. SameBytes(s, i, d, q, 1)
    BY <2>1
  <2>3. d[q] = s[i]
    BY <1>0, <2>2 DEF SameBytes
  <2>4. Good1(d, q)
    BY <1>1, <2>3 DEF Good1
  <2>5. Char(d, q) = [cp |-> d[q], len |-> 1]
    BY <2>4, CharIs
  <2> QED
    BY <2>1, <2>3, <2>4, <2>5, ValidIs DEF GoodChar
<1>2. CASE Good2(s, i)
  <2>1. Char(s, i) = [cp |-> Code2(s[i], s[i + 1]), len |-> 2]
    BY <1>2, CharIs
  <2>2. SameBytes(s, i, d, q, 2)
    BY <2>1
  <2>3. d[q + 0] = s[i + 0] /\ d[q + 1] = s[i + 1] /\ q + 1 <= Len(d)
    BY <1>0, <2>2 DEF SameBytes
  <2>4. Good2(d, q) /\ d[q] = s[i]
    BY <1>0, <1>2, <2>3 DEF Good2
  <2>5. Char(d, q) = [cp |-> Code2(d[q], d[q + 1]), len |-> 2]
    BY <2>4, CharIs
  <2> QED
    BY <2>1, <2>3, <2>4, <2>5, ValidIs DEF GoodChar
<1>3. CASE Good3(s, i)
  <2>1. Char(s, i) = [cp |-> Code3(s[i], s[i + 1], s[i + 2]), len |-> 3]
    BY <1>3, CharIs
  <2>2. SameBytes(s, i, d, q, 3)
    BY <2>1
  <2>3. d[q + 0] = s[i + 0] /\ d[q + 1] = s[i + 1] /\ d[q + 2] = s[i + 2] /\ q + 2 <= Len(d)
    BY <1>0, <2>2 DEF SameBytes
  <2>4. Good3(d, q) /\ d[q] = s[i]
    BY <1>0, <1>3, <2>3 DEF Good3
  <2>5. Char(d, q) = [cp |-> Code3(d[q], d[q + 1], d[q + 2]), len |-> 3]
    BY <2>4, CharIs
  <2> QED
    BY <2>1, <2>3, <2>4, <2>5, ValidIs DEF GoodChar
<1>4. CASE Good4(s, i)
  <2>1. Char(s, i) = [cp |-> Code4(s[i], s[i + 1], s[i + 2], s[i + 3]), len |-> 4]
    BY <1>4, CharIs
  <2>2. SameBytes(s, i, d, q, 4)
    BY <2>1
  <2>3. /\ d[q + 0] = s[i + 0] /\ d[q + 1] = s[i + 1] /\ d[q + 2] = s[i + 2] /\ d[q + 3] = s[i + 3]
        /\ q + 3 <= Len(d)
    BY <1>0, <2>2 DEF SameBytes
  <2>4. Good4(d, q) /\ d[q] = s[i]
    BY <1>0, <1>4, <2>3 DEF Good4
  <2>5. Char(d, q) = [cp |-> Code4(d[q], d[q + 1], d[q + 2], d[q + 3]), len |-> 4]
    BY <2>4, CharIs
  <2> QED
    BY <2>1, <2>3, <2>4, <2>5, ValidIs DEF GoodChar
<1> QED
  BY <1>1, <1>2, <1>3, <1>4, ValidIs DEF GoodChar

\* The bytes of a code point.
LEMMA EncodeIs ==
    ASSUME NEW v, v \in Int, 0 <= v, v <= 1114111
    PROVE  /\ v < 128 => Lex!utf8_encode(v) = <<v>>
           /\ 128 <= v /\ v < 2048 => Lex!utf8_encode(v) = <<192 + (v \div 64), 128 + ((v \div 1) % 64)>>
           /\ 2048 <= v /\ v < 65536 =>
                 Lex!utf8_encode(v) = <<224 + (v \div 4096), 128 + ((v \div 64) % 64), 128 + ((v \div 1) % 64)>>
           /\ 65536 <= v =>
                 Lex!utf8_encode(v) = <<240 + (v \div 262144), 128 + ((v \div 4096) % 64),
                                        128 + ((v \div 64) % 64), 128 + ((v \div 1) % 64)>>
<1>1. PICK u \in Int : u = v
  OBVIOUS
<1>2. /\ u < 128 => Lex!utf8_encode(u) = <<u>>
      /\ 128 <= u /\ u < 2048 => Lex!utf8_encode(u) = <<192 + (u \div 64), 128 + ((u \div 1) % 64)>>
      /\ 2048 <= u /\ u < 65536 =>
            Lex!utf8_encode(u) = <<224 + (u \div 4096), 128 + ((u \div 64) % 64), 128 + ((u \div 1) % 64)>>
      /\ 65536 <= u =>
            Lex!utf8_encode(u) = <<240 + (u \div 262144), 128 + ((u \div 4096) % 64),
                                   128 + ((u \div 64) % 64), 128 + ((u \div 1) % 64)>>
  BY <1>1 DEF Lex!utf8_encode
<1> QED
  BY <1>1, <1>2

\* The bytes of a code point are those it was read from.
LEMMA Encode2 ==
    ASSUME NEW x, NEW y, x \in Int, y \in Int, 194 <= x, x < 224, Follows(y)
    PROVE  Lex!utf8_encode(Code2(x, y)) = <<x, y>>
<1> DEFINE a == x - 192
           b == y - 128
           v == Code2(x, y)
<1>1. a \in Int /\ b \in Int /\ 2 <= a /\ a <= 31 /\ 0 <= b /\ b <= 63 /\ x = 192 + a /\ y = 128 + b
  BY DEF Follows
<1>2. v = 64 * a + b /\ v \in Int
  BY DEF Code2
<1> HIDE DEF a, b, v
<1>3. v \div 64 = a /\ (v \div 1) % 64 = b /\ v >= 128 /\ v < 2048
  BY <1>1, <1>2
<1>4. Lex!utf8_encode(v) = <<192 + (v \div 64), 128 + ((v \div 1) % 64)>>
  BY <1>2, <1>3, EncodeIs
<1> QED
  BY <1>1, <1>3, <1>4 DEF v

LEMMA Encode3 ==
    ASSUME NEW x, NEW y, NEW z, x \in Int, y \in Int, z \in Int, 224 <= x, x < 240, Follows(y), Follows(z),
           Code3(x, y, z) >= 2048
    PROVE  Lex!utf8_encode(Code3(x, y, z)) = <<x, y, z>>
<1> DEFINE a == x - 224
           b == y - 128
           c == z - 128
           v == Code3(x, y, z)
<1>1. /\ a \in Int /\ b \in Int /\ c \in Int /\ 0 <= a /\ a <= 15 /\ 0 <= b /\ b <= 63 /\ 0 <= c /\ c <= 63
      /\ x = 224 + a /\ y = 128 + b /\ z = 128 + c
  BY DEF Follows
<1>2. v = 4096 * a + 64 * b + c /\ v \in Int
  BY DEF Code3
<1>3. v >= 2048 /\ v < 65536
  BY Code3Range
<1> HIDE DEF a, b, c, v
<1>4. v \div 4096 = a /\ (v \div 64) % 64 = b /\ (v \div 1) % 64 = c
  <2>1. v \div 4096 = a
    BY <1>1, <1>2
  <2>2. v \div 64 = 64 * a + b
    BY <1>1, <1>2
  <2>3. (64 * a + b) % 64 = b
    BY <1>1
  <2>4. v \div 1 = v /\ v % 64 = c
    BY <1>1, <1>2
  <2> QED
    BY <2>1, <2>2, <2>3, <2>4
<1>5. Lex!utf8_encode(v) = <<224 + (v \div 4096), 128 + ((v \div 64) % 64), 128 + ((v \div 1) % 64)>>
  BY <1>2, <1>3, EncodeIs
<1> QED
  BY <1>1, <1>4, <1>5 DEF v

LEMMA Encode4 ==
    ASSUME NEW x, NEW y, NEW z, NEW w, x \in Int, y \in Int, z \in Int, w \in Int, 240 <= x, x < 245,
           Follows(y), Follows(z), Follows(w), Code4(x, y, z, w) >= 65536, Code4(x, y, z, w) <= 1114111
    PROVE  Lex!utf8_encode(Code4(x, y, z, w)) = <<x, y, z, w>>
<1> DEFINE a == x - 240
           b == y - 128
           c == z - 128
           d == w - 128
           v == Code4(x, y, z, w)
<1>1. /\ a \in Int /\ b \in Int /\ c \in Int /\ d \in Int
      /\ 0 <= a /\ a <= 4 /\ 0 <= b /\ b <= 63 /\ 0 <= c /\ c <= 63 /\ 0 <= d /\ d <= 63
      /\ x = 240 + a /\ y = 128 + b /\ z = 128 + c /\ w = 128 + d
  BY DEF Follows
<1>2. v = 262144 * a + 4096 * b + 64 * c + d /\ v \in Int
  BY DEF Code4
<1>3. v >= 65536 /\ v <= 1114111
  OBVIOUS
<1> HIDE DEF a, b, c, d, v
<1>4. v \div 262144 = a /\ (v \div 4096) % 64 = b /\ (v \div 64) % 64 = c /\ (v \div 1) % 64 = d
  <2>1. v \div 262144 = a
    BY <1>1, <1>2
  <2>2. v \div 4096 = 64 * a + b
    BY <1>1, <1>2
  <2>3. (64 * a + b) % 64 = b
    BY <1>1
  <2>4. v \div 64 = 4096 * a + 64 * b + c
    BY <1>1, <1>2
  <2>5. (4096 * a + 64 * b + c) % 64 = c
    BY <1>1
  <2>6. v \div 1 = v /\ v % 64 = d
    BY <1>1, <1>2
  <2> QED
    BY <2>1, <2>2, <2>3, <2>4, <2>5, <2>6
<1>5. Lex!utf8_encode(v) = <<240 + (v \div 262144), 128 + ((v \div 4096) % 64), 128 + ((v \div 64) % 64), 128 + ((v \div 1) % 64)>>
  BY <1>2, <1>3, EncodeIs
<1> QED
  BY <1>1, <1>4, <1>5 DEF v

LEMMA SubSeqFunction ==
    ASSUME NEW s \in Strings, NEW i \in Int, NEW j \in Int, 1 <= i, i <= j, j <= Len(s)
    PROVE  SubSeq(s, i, j) = [k \in 1 .. j - i + 1 |-> s[i + k - 1]]
  BY DEF Strings

\* One to four bytes of a string.
LEMMA SubSeqIs ==
    ASSUME NEW s \in Strings, NEW i \in 1 .. Len(s)
    PROVE  /\ SubSeq(s, i, i) = <<s[i]>>
           /\ i + 1 <= Len(s) => SubSeq(s, i, i + 1) = <<s[i], s[i + 1]>>
           /\ i + 2 <= Len(s) => SubSeq(s, i, i + 2) = <<s[i], s[i + 1], s[i + 2]>>
           /\ i + 3 <= Len(s) => SubSeq(s, i, i + 3) = <<s[i], s[i + 1], s[i + 2], s[i + 3]>>
<1>1. Len(s) \in Nat /\ i \in Int /\ 1 <= i /\ i <= Len(s)
  BY Bytes
<1>2. SubSeq(s, i, i) = [k \in 1 .. i - i + 1 |-> s[i + k - 1]]
  BY <1>1, SubSeqFunction
<1>3. [k \in 1 .. i - i + 1 |-> s[i + k - 1]] = <<s[i]>>
  BY <1>1
<1>4. ASSUME i + 1 <= Len(s) PROVE SubSeq(s, i, i + 1) = <<s[i], s[i + 1]>>
  <2>1. SubSeq(s, i, i + 1) = [k \in 1 .. (i + 1) - i + 1 |-> s[i + k - 1]]
    BY <1>1, <1>4, SubSeqFunction
  <2>2. [k \in 1 .. (i + 1) - i + 1 |-> s[i + k - 1]] = <<s[i], s[i + 1]>>
    BY <1>1, <1>4
  <2> QED
    BY <2>1, <2>2, Zenon
<1>5. ASSUME i + 2 <= Len(s) PROVE SubSeq(s, i, i + 2) = <<s[i], s[i + 1], s[i + 2]>>
  <2>1. SubSeq(s, i, i + 2) = [k \in 1 .. (i + 2) - i + 1 |-> s[i + k - 1]]
    BY <1>1, <1>5, SubSeqFunction
  <2>2. [k \in 1 .. (i + 2) - i + 1 |-> s[i + k - 1]] = <<s[i], s[i + 1], s[i + 2]>>
    BY <1>1, <1>5
  <2> QED
    BY <2>1, <2>2, Zenon
<1>6. ASSUME i + 3 <= Len(s) PROVE SubSeq(s, i, i + 3) = <<s[i], s[i + 1], s[i + 2], s[i + 3]>>
  <2>1. SubSeq(s, i, i + 3) = [k \in 1 .. (i + 3) - i + 1 |-> s[i + k - 1]]
    BY <1>1, <1>6, SubSeqFunction
  <2>2. [k \in 1 .. (i + 3) - i + 1 |-> s[i + k - 1]] = <<s[i], s[i + 1], s[i + 2], s[i + 3]>>
    BY <1>1, <1>6
  <2> QED
    BY <2>1, <2>2, Zenon
<1> QED
  BY <1>2, <1>3, <1>4, <1>5, <1>6

\* A character is written as it was read.
LEMMA Encodes ==
    ASSUME NEW s \in Strings, NEW i \in 1 .. Len(s), ValidChar(s, i)
    PROVE  Lex!utf8_encode(Char(s, i).cp) = SubSeq(s, i, i + Char(s, i).len - 1)
<1>0. /\ i \in Int /\ Len(s) \in Nat /\ i <= Len(s) /\ s[i] \in Int /\ s[i] > 0
      /\ i + 1 <= Len(s) => s[i + 1] \in Int
      /\ i + 2 <= Len(s) => s[i + 2] \in Int
      /\ i + 3 <= Len(s) => s[i + 3] \in Int
  BY Bytes
<1>1. CASE Good1(s, i)
  <2>1. Char(s, i) = [cp |-> s[i], len |-> 1]
    BY <1>1, CharIs
  <2>2. s[i] < 128
    BY <1>1 DEF Good1
  <2>3. Lex!utf8_encode(s[i]) = <<s[i]>>
    BY <1>0, <2>2, EncodeIs
  <2>4. Char(s, i).cp = s[i] /\ i + Char(s, i).len - 1 = i
    BY <1>0, <2>1
  <2>5. SubSeq(s, i, i) = <<s[i]>>
    BY SubSeqIs
  <2> QED
    BY <2>3, <2>4, <2>5, Zenon
<1>2. CASE Good2(s, i)
  <2>1. Char(s, i) = [cp |-> Code2(s[i], s[i + 1]), len |-> 2]
    BY <1>2, CharIs
  <2>2. s[i + 1] \in Int /\ 194 <= s[i] /\ s[i] < 224 /\ Follows(s[i + 1]) /\ i + 1 <= Len(s)
    BY <1>0, <1>2 DEF Good2
  <2>3. Lex!utf8_encode(Code2(s[i], s[i + 1])) = <<s[i], s[i + 1]>>
    BY <1>0, <2>2, Encode2
  <2>4. Char(s, i).cp = Code2(s[i], s[i + 1]) /\ i + Char(s, i).len - 1 = i + 1
    BY <1>0, <2>1
  <2>5. SubSeq(s, i, i + 1) = <<s[i], s[i + 1]>>
    BY <2>2, SubSeqIs
  <2> QED
    BY <2>3, <2>4, <2>5, Zenon
<1>3. CASE Good3(s, i)
  <2>1. Char(s, i) = [cp |-> Code3(s[i], s[i + 1], s[i + 2]), len |-> 3]
    BY <1>3, CharIs
  <2>2. /\ s[i + 1] \in Int /\ s[i + 2] \in Int /\ 224 <= s[i] /\ s[i] < 240
        /\ Follows(s[i + 1]) /\ Follows(s[i + 2]) /\ i + 2 <= Len(s)
    BY <1>0, <1>3 DEF Good3
  <2>3. Lex!utf8_encode(Code3(s[i], s[i + 1], s[i + 2])) = <<s[i], s[i + 1], s[i + 2]>>
    <3>1. Code3(s[i], s[i + 1], s[i + 2]) >= 2048
      BY <1>3, CodeRanges
    <3> QED
      BY <1>0, <2>2, <3>1, Encode3
  <2>4. Char(s, i).cp = Code3(s[i], s[i + 1], s[i + 2]) /\ i + Char(s, i).len - 1 = i + 2
    BY <1>0, <2>1
  <2>5. SubSeq(s, i, i + 2) = <<s[i], s[i + 1], s[i + 2]>>
    BY <2>2, SubSeqIs
  <2> QED
    BY <2>3, <2>4, <2>5, Zenon
<1>4. CASE Good4(s, i)
  <2>1. Char(s, i) = [cp |-> Code4(s[i], s[i + 1], s[i + 2], s[i + 3]), len |-> 4]
    BY <1>4, CharIs
  <2>2. /\ s[i + 1] \in Int /\ s[i + 2] \in Int /\ s[i + 3] \in Int /\ 240 <= s[i] /\ s[i] < 245
        /\ Follows(s[i + 1]) /\ Follows(s[i + 2]) /\ Follows(s[i + 3]) /\ i + 3 <= Len(s)
    BY <1>0, <1>4 DEF Good4
  <2>3. Lex!utf8_encode(Code4(s[i], s[i + 1], s[i + 2], s[i + 3])) = <<s[i], s[i + 1], s[i + 2], s[i + 3]>>
    <3> DEFINE x == s[i]
               y == s[i + 1]
               z == s[i + 2]
               w == s[i + 3]
    <3>1. Code4(x, y, z, w) >= 65536 /\ Code4(x, y, z, w) <= 1114111
      BY <1>4, CodeRanges
    <3>2. /\ x \in Int /\ y \in Int /\ z \in Int /\ w \in Int /\ 240 <= x /\ x < 245
          /\ Follows(y) /\ Follows(z) /\ Follows(w)
      BY <1>0, <2>2
    <3> HIDE DEF x, y, z, w
    <3>3. Lex!utf8_encode(Code4(x, y, z, w)) = <<x, y, z, w>>
      BY <3>1, <3>2, Encode4
    <3> QED
      BY <3>3 DEF x, y, z, w
  <2>4. Char(s, i).cp = Code4(s[i], s[i + 1], s[i + 2], s[i + 3]) /\ i + Char(s, i).len - 1 = i + 3
    BY <1>0, <2>1
  <2>5. SubSeq(s, i, i + 3) = <<s[i], s[i + 1], s[i + 2], s[i + 3]>>
    BY <2>2, SubSeqIs
  <2> QED
    BY <2>3, <2>4, <2>5, Zenon
<1> QED
  BY <1>1, <1>2, <1>3, <1>4, ValidIs DEF GoodChar

\* The rows of the table, by their length.
Within(u, r) == r[1] <= u /\ u <= r[2]

LEMMA Row1 ==
    ASSUME NEW s \in Strings, NEW i \in 1 .. Len(s), NEW a
    PROVE  Matches(s, i, <<a>>) <=> Within(s[i], a)
<1>1. i \in Int /\ Len(s) \in Nat /\ i <= Len(s)
  BY Bytes
<1> QED
  BY <1>1 DEF Matches, Within

LEMMA Row2 ==
    ASSUME NEW s \in Strings, NEW i \in 1 .. Len(s), NEW a, NEW b
    PROVE  Matches(s, i, <<a, b>>) <=> i + 1 <= Len(s) /\ Within(s[i], a) /\ Within(s[i + 1], b)
<1>1. i \in Int /\ Len(s) \in Nat /\ i <= Len(s)
  BY Bytes
<1> QED
  BY <1>1 DEF Matches, Within

LEMMA Row3 ==
    ASSUME NEW s \in Strings, NEW i \in 1 .. Len(s), NEW a, NEW b, NEW c
    PROVE  Matches(s, i, <<a, b, c>>) <=>
              i + 2 <= Len(s) /\ Within(s[i], a) /\ Within(s[i + 1], b) /\ Within(s[i + 2], c)
<1>1. i \in Int /\ Len(s) \in Nat /\ i <= Len(s)
  BY Bytes
<1> QED
  BY <1>1 DEF Matches, Within

LEMMA Row4 ==
    ASSUME NEW s \in Strings, NEW i \in 1 .. Len(s), NEW a, NEW b, NEW c, NEW d
    PROVE  Matches(s, i, <<a, b, c, d>>) <=>
              /\ i + 3 <= Len(s) /\ Within(s[i], a) /\ Within(s[i + 1], b) /\ Within(s[i + 2], c)
              /\ Within(s[i + 3], d)
<1> DEFINE row == <<a, b, c, d>>
           At1 == Within(s[i + 1 - 1], row[1])
           At2 == Within(s[i + 2 - 1], row[2])
           At3 == Within(s[i + 3 - 1], row[3])
           At4 == Within(s[i + 4 - 1], row[4])
<1>1. i \in Int /\ Len(s) \in Nat
  BY Bytes
<1>2. DOMAIN row = {1, 2, 3, 4} /\ i + Len(row) - 1 = i + 3
  BY <1>1
<1>3. Matches(s, i, row) <=> i + Len(row) - 1 <= Len(s) /\ \A j \in DOMAIN row : Within(s[i + j - 1], row[j])
  BY Zenon DEF Matches, Within
<1>4. (\A j \in {1, 2, 3, 4} : Within(s[i + j - 1], row[j])) <=> At1 /\ At2 /\ At3 /\ At4
  <2> HIDE DEF row
  <2> QED
    BY Zenon
<1>5. /\ At1 <=> Within(s[i], a)
      /\ At2 <=> Within(s[i + 1], b)
      /\ At3 <=> Within(s[i + 2], c)
      /\ At4 <=> Within(s[i + 3], d)
  <2>1. i + 1 - 1 = i /\ i + 2 - 1 = i + 1 /\ i + 3 - 1 = i + 2 /\ i + 4 - 1 = i + 3
    BY <1>1
  <2>2. row[1] = a /\ row[2] = b /\ row[3] = c /\ row[4] = d
    OBVIOUS
  <2> HIDE DEF row
  <2> QED
    BY <2>1, <2>2, Zenon
<1> HIDE DEF row, At1, At2, At3, At4
<1> QED
  BY <1>2, <1>3, <1>4, <1>5, Zenon DEF row

LEMMA WithinIs ==
    ASSUME NEW u, NEW low, NEW high
    PROVE  Within(u, <<low, high>>) <=> low <= u /\ u <= high
  BY DEF Within

\* The table of the standard has a row for each kind, and more than one where
\* the second byte is restricted.
LEMMA TableIs ==
    ASSUME NEW s \in Strings, NEW i \in 1 .. Len(s)
    PROVE  /\ (\E row \in Utf8Table : Matches(s, i, row)) <=> ValidChar(s, i)
           /\ \A row \in Utf8Table : Matches(s, i, row) => Len(row) = Char(s, i).len
<1> DEFINE tail == <<128, 191>>
           p0 == <<0, 127>>
           p194 == <<194, 223>>
           p224 == <<224, 224>>
           p160 == <<160, 191>>
           p225 == <<225, 236>>
           p237 == <<237, 237>>
           low3 == <<128, 159>>
           p238 == <<238, 239>>
           p240 == <<240, 240>>
           p144 == <<144, 191>>
           p241 == <<241, 243>>
           p244 == <<244, 244>>
           low4 == <<128, 143>>
           r1 == <<p0>>
           r2 == <<p194, tail>>
           r3 == <<p224, p160, tail>>
           r4 == <<p225, tail, tail>>
           r5 == <<p237, low3, tail>>
           r6 == <<p238, tail, tail>>
           r7 == <<p240, p144, tail, tail>>
           r8 == <<p241, tail, tail, tail>>
           r9 == <<p244, low4, tail, tail>>
           x == s[i]
           y == s[i + 1]
           z == s[i + 2]
           w == s[i + 3]
<1>0. /\ x \in Int /\ x > 0
      /\ i + 1 <= Len(s) => y \in Int
      /\ i + 2 <= Len(s) => y \in Int /\ z \in Int
      /\ i + 3 <= Len(s) => y \in Int /\ z \in Int /\ w \in Int
  BY Bytes
<1>1. /\ Good1(s, i) <=> x < 128
      /\ Good2(s, i) <=> i + 1 <= Len(s) /\ 194 <= x /\ x < 224 /\ Follows(y)
      /\ Good3(s, i) <=>
            /\ i + 2 <= Len(s) /\ 224 <= x /\ x < 240 /\ Follows(y) /\ Follows(z)
            /\ x = 224 => y >= 160
            /\ x = 237 => y < 160
      /\ Good4(s, i) <=>
            /\ i + 3 <= Len(s) /\ 240 <= x /\ x < 245 /\ Follows(y) /\ Follows(z) /\ Follows(w)
            /\ x = 240 => y >= 144
            /\ x = 244 => y < 144
  BY Zenon DEF Good1, Good2, Good3, Good4
<1>3. \A u : Within(u, tail) <=> Follows(u)
  BY WithinIs, ZenonT(60) DEF Follows
<1>4. Utf8Table = {r1, r2, r3, r4, r5, r6, r7, r8, r9}
  BY Zenon DEF Utf8Table, Trail
<1>5. /\ \A u : Within(u, p0) <=> 0 <= u /\ u <= 127
      /\ \A u : Within(u, p194) <=> 194 <= u /\ u <= 223
      /\ \A u : Within(u, p224) <=> 224 <= u /\ u <= 224
      /\ \A u : Within(u, p160) <=> 160 <= u /\ u <= 191
      /\ \A u : Within(u, p225) <=> 225 <= u /\ u <= 236
      /\ \A u : Within(u, p237) <=> 237 <= u /\ u <= 237
      /\ \A u : Within(u, low3) <=> 128 <= u /\ u <= 159
      /\ \A u : Within(u, p238) <=> 238 <= u /\ u <= 239
      /\ \A u : Within(u, p240) <=> 240 <= u /\ u <= 240
      /\ \A u : Within(u, p144) <=> 144 <= u /\ u <= 191
      /\ \A u : Within(u, p241) <=> 241 <= u /\ u <= 243
      /\ \A u : Within(u, p244) <=> 244 <= u /\ u <= 244
      /\ \A u : Within(u, low4) <=> 128 <= u /\ u <= 143
  <2>1. \A u : Within(u, p0) <=> 0 <= u /\ u <= 127
    BY WithinIs, ZenonT(60)
  <2>2. \A u : Within(u, p194) <=> 194 <= u /\ u <= 223
    BY WithinIs, ZenonT(60)
  <2>3. \A u : Within(u, p224) <=> 224 <= u /\ u <= 224
    BY WithinIs, ZenonT(60)
  <2>4. \A u : Within(u, p160) <=> 160 <= u /\ u <= 191
    BY WithinIs, ZenonT(60)
  <2>5. \A u : Within(u, p225) <=> 225 <= u /\ u <= 236
    BY WithinIs, ZenonT(60)
  <2>6. \A u : Within(u, p237) <=> 237 <= u /\ u <= 237
    BY WithinIs, ZenonT(60)
  <2>7. \A u : Within(u, low3) <=> 128 <= u /\ u <= 159
    BY WithinIs, ZenonT(60)
  <2>8. \A u : Within(u, p238) <=> 238 <= u /\ u <= 239
    BY WithinIs, ZenonT(60)
  <2>9. \A u : Within(u, p240) <=> 240 <= u /\ u <= 240
    BY WithinIs, ZenonT(60)
  <2>10. \A u : Within(u, p144) <=> 144 <= u /\ u <= 191
    BY WithinIs, ZenonT(60)
  <2>11. \A u : Within(u, p241) <=> 241 <= u /\ u <= 243
    BY WithinIs, ZenonT(60)
  <2>12. \A u : Within(u, p244) <=> 244 <= u /\ u <= 244
    BY WithinIs, ZenonT(60)
  <2>13. \A u : Within(u, low4) <=> 128 <= u /\ u <= 143
    BY WithinIs, ZenonT(60)
  <2> HIDE DEF p0, p194, p224, p160, p225, p237, low3, p238, p240, p144, p241, p244, low4
  <2> QED
    BY <2>1, <2>2, <2>3, <2>4, <2>5, <2>6, <2>7, <2>8, <2>9, <2>10, <2>11, <2>12, <2>13
<1> HIDE DEF tail, p0, p194, p224, p160, p225, p237, low3, p238, p240, p144, p241, p244, low4
<1>2. /\ Matches(s, i, r1) <=> Within(x, p0)
      /\ Matches(s, i, r2) <=> i + 1 <= Len(s) /\ Within(x, p194) /\ Within(y, tail)
      /\ Matches(s, i, r3) <=> i + 2 <= Len(s) /\ Within(x, p224) /\ Within(y, p160) /\ Within(z, tail)
      /\ Matches(s, i, r4) <=> i + 2 <= Len(s) /\ Within(x, p225) /\ Within(y, tail) /\ Within(z, tail)
      /\ Matches(s, i, r5) <=> i + 2 <= Len(s) /\ Within(x, p237) /\ Within(y, low3) /\ Within(z, tail)
      /\ Matches(s, i, r6) <=> i + 2 <= Len(s) /\ Within(x, p238) /\ Within(y, tail) /\ Within(z, tail)
      /\ Matches(s, i, r7) <=>
            i + 3 <= Len(s) /\ Within(x, p240) /\ Within(y, p144) /\ Within(z, tail) /\ Within(w, tail)
      /\ Matches(s, i, r8) <=>
            i + 3 <= Len(s) /\ Within(x, p241) /\ Within(y, tail) /\ Within(z, tail) /\ Within(w, tail)
      /\ Matches(s, i, r9) <=>
            i + 3 <= Len(s) /\ Within(x, p244) /\ Within(y, low4) /\ Within(z, tail) /\ Within(w, tail)
  <2>1. Matches(s, i, r1) <=> Within(x, p0)
    BY Row1, Zenon
  <2>2. Matches(s, i, r2) <=> i + 1 <= Len(s) /\ Within(x, p194) /\ Within(y, tail)
    BY Row2, Zenon
  <2>3. Matches(s, i, r3) <=> i + 2 <= Len(s) /\ Within(x, p224) /\ Within(y, p160) /\ Within(z, tail)
    BY Row3, Zenon
  <2>4. Matches(s, i, r4) <=> i + 2 <= Len(s) /\ Within(x, p225) /\ Within(y, tail) /\ Within(z, tail)
    BY Row3, Zenon
  <2>5. Matches(s, i, r5) <=> i + 2 <= Len(s) /\ Within(x, p237) /\ Within(y, low3) /\ Within(z, tail)
    BY Row3, Zenon
  <2>6. Matches(s, i, r6) <=> i + 2 <= Len(s) /\ Within(x, p238) /\ Within(y, tail) /\ Within(z, tail)
    BY Row3, Zenon
  <2>7. Matches(s, i, r7) <=>
            i + 3 <= Len(s) /\ Within(x, p240) /\ Within(y, p144) /\ Within(z, tail) /\ Within(w, tail)
    BY Row4, Zenon
  <2>8. Matches(s, i, r8) <=>
            i + 3 <= Len(s) /\ Within(x, p241) /\ Within(y, tail) /\ Within(z, tail) /\ Within(w, tail)
    BY Row4, Zenon
  <2>9. Matches(s, i, r9) <=>
            i + 3 <= Len(s) /\ Within(x, p244) /\ Within(y, low4) /\ Within(z, tail) /\ Within(w, tail)
    BY Row4, Zenon
  <2> QED
    BY <2>1, <2>2, <2>3, <2>4, <2>5, <2>6, <2>7, <2>8, <2>9, Zenon
<1>13. /\ Len(r1) = 1 /\ Len(r2) = 2 /\ Len(r3) = 3 /\ Len(r4) = 3 /\ Len(r5) = 3 /\ Len(r6) = 3
      /\ Len(r7) = 4 /\ Len(r8) = 4 /\ Len(r9) = 4
  OBVIOUS
<1> HIDE DEF r1, r2, r3, r4, r5, r6, r7, r8, r9, x, y, z, w
<1>6. Matches(s, i, r1) <=> Good1(s, i)
  BY <1>0, <1>1, <1>2, <1>5
<1>7. Matches(s, i, r2) <=> Good2(s, i)
  BY <1>0, <1>1, <1>2, <1>3, <1>5
<1>8. Matches(s, i, r3) \/ Matches(s, i, r4) \/ Matches(s, i, r5) \/ Matches(s, i, r6) <=> Good3(s, i)
  <2>2. CASE i + 2 <= Len(s)
    <3>1. /\ Within(x, p224) /\ Within(y, p160) <=> x = 224 /\ Follows(y) /\ y >= 160
          /\ Within(x, p237) /\ Within(y, low3) <=> x = 237 /\ Follows(y) /\ y < 160
          /\ Within(x, p225) \/ Within(x, p238) <=> 224 < x /\ x < 240 /\ x # 237
      BY <1>0, <1>5, <2>2 DEF Follows
    <3>2. Matches(s, i, r3) <=> x = 224 /\ Follows(y) /\ y >= 160 /\ Follows(z)
      BY <1>2, <1>3, <2>2, <3>1
    <3>3. Matches(s, i, r5) <=> x = 237 /\ Follows(y) /\ y < 160 /\ Follows(z)
      BY <1>2, <1>3, <2>2, <3>1
    <3>4. Matches(s, i, r4) \/ Matches(s, i, r6) <=> (224 < x /\ x < 240 /\ x # 237) /\ Follows(y) /\ Follows(z)
      BY <1>2, <1>3, <2>2, <3>1
    <3> QED
      BY <1>0, <1>1, <2>2, <3>2, <3>3, <3>4
  <2>3. CASE ~(i + 2 <= Len(s))
    BY <1>1, <1>2, <2>3, Zenon
  <2> QED
    BY <2>2, <2>3
<1>9. Matches(s, i, r7) \/ Matches(s, i, r8) \/ Matches(s, i, r9) <=> Good4(s, i)
  <2>2. CASE i + 3 <= Len(s)
    <3>1. /\ Within(x, p240) /\ Within(y, p144) <=> x = 240 /\ Follows(y) /\ y >= 144
          /\ Within(x, p244) /\ Within(y, low4) <=> x = 244 /\ Follows(y) /\ y < 144
          /\ Within(x, p241) <=> 240 < x /\ x < 244
      BY <1>0, <1>5, <2>2 DEF Follows
    <3>2. Matches(s, i, r7) <=> x = 240 /\ Follows(y) /\ y >= 144 /\ Follows(z) /\ Follows(w)
      BY <1>2, <1>3, <2>2, <3>1
    <3>3. Matches(s, i, r9) <=> x = 244 /\ Follows(y) /\ y < 144 /\ Follows(z) /\ Follows(w)
      BY <1>2, <1>3, <2>2, <3>1
    <3>4. Matches(s, i, r8) <=> (240 < x /\ x < 244) /\ Follows(y) /\ Follows(z) /\ Follows(w)
      BY <1>2, <1>3, <2>2, <3>1
    <3> QED
      BY <1>0, <1>1, <2>2, <3>2, <3>3, <3>4
  <2>3. CASE ~(i + 3 <= Len(s))
    BY <1>1, <1>2, <2>3, Zenon
  <2> QED
    BY <2>2, <2>3
<1>10. /\ Good1(s, i) => Char(s, i).len = 1
       /\ Good2(s, i) => Char(s, i).len = 2
       /\ Good3(s, i) => Char(s, i).len = 3
       /\ Good4(s, i) => Char(s, i).len = 4
  BY CharIs
<1>11. (\E row \in Utf8Table : Matches(s, i, row)) <=> GoodChar(s, i)
  BY <1>4, <1>6, <1>7, <1>8, <1>9, Zenon DEF GoodChar
<1>12. ASSUME NEW row \in Utf8Table, Matches(s, i, row) PROVE Len(row) = Char(s, i).len
  <2>1. row \in {r1, r2, r3, r4, r5, r6, r7, r8, r9}
    BY <1>4, Zenon
  <2> QED
    BY <1>6, <1>7, <1>8, <1>9, <1>10, <1>12, <1>13, <2>1, Zenon
<1> QED
  BY <1>11, <1>12, ValidIs

\* The places of a string from which on it is made of characters.
Readable(s, from) ==
    /\ from \subseteq 1 .. Len(s) + 1 /\ Len(s) + 1 \in from
    /\ \A i \in 1 .. Len(s) : i \in from <=> ValidChar(s, i) /\ i + Char(s, i).len \in from

LEMMA CheckString ==
    ASSUME NEW s \in Strings
    PROVE  \E from : Readable(s, from) /\ (Lex!utf8_check_string(s) <=> 1 \in from)
<1> DEFINE D == 1 .. Len(s) + 1
           step(f) == [i \in D |->
                          IF i = Len(s) + 1 \/ Lex!utf8_iterate(s, i).cp = -1 THEN i
                          ELSE f[i + Lex!utf8_iterate(s, i).len]]
           stop == CHOOSE f : f = step(f)
           More(i) == i # Len(s) + 1 /\ ValidChar(s, i)
           F == [p \in D \X Int |-> IF More(p[1]) THEN p[2] ELSE p[1]]
           jump == [i \in D |-> IF More(i) THEN Char(s, i).len ELSE 1]
<1>0. Len(s) \in Nat
  BY Bytes
<1>12. ASSUME NEW i \in D, More(i)
      PROVE  i \in 1 .. Len(s) /\ Char(s, i).len \in 1 .. 4 /\ i + Char(s, i).len \in D
  <2>1. i \in 1 .. Len(s) /\ ValidChar(s, i)
    BY <1>0, <1>12
  <2>2. Char(s, i).len \in 1 .. 4 /\ i + Char(s, i).len - 1 <= Len(s)
    BY <2>1, CharShape DEF Shape
  <2> QED
    BY <1>0, <2>1, <2>2
<1> HIDE DEF More
<1>1. \E g : Backward(g, D, Int, 0, F, jump)
  <2>1. F \in [D \X Int -> Int]
    OBVIOUS
  <2>2. jump \in [D -> Nat \ {0}]
    BY <1>12
  <2>3. 1 \in Int /\ Len(s) + 1 \in Int /\ 0 \in Int
    BY <1>0
  <2> HIDE DEF F, jump
  <2> QED
    BY <2>1, <2>2, <2>3, Recursion, Zenon
<1>2. PICK g : Backward(g, D, Int, 0, F, jump)
  BY <1>1
<1>3. g \in [D -> Int] /\ \A i \in D : g[i] = F[<<i, IF i + jump[i] \in D THEN g[i + jump[i]] ELSE 0>>]
  BY <1>2 DEF Backward
<1>4. ASSUME NEW i \in D PROVE g[i] = IF More(i) THEN g[i + Char(s, i).len] ELSE i
  <2> DEFINE u == IF i + jump[i] \in D THEN g[i + jump[i]] ELSE 0
  <2>1. u \in Int
    <3> HIDE DEF jump
    <3> QED
      BY <1>3
  <2>2. g[i] = F[<<i, u>>]
    BY <1>3
  <2>3. jump[i] = IF More(i) THEN Char(s, i).len ELSE 1
    OBVIOUS
  <2>4. More(i) => u = g[i + Char(s, i).len]
    <3> HIDE DEF jump
    <3> QED
      BY <1>12, <2>3
  <2> HIDE DEF u
  <2>5. F[<<i, u>>] = IF More(i) THEN u ELSE i
    BY <2>1
  <2> HIDE DEF F, jump
  <2> QED
    BY <2>2, <2>4, <2>5
<1>5. \A f, i : i \in D => step(f)[i] = IF More(i) THEN f[i + Char(s, i).len] ELSE i
  BY DEF More, ValidChar, Char
<1>6. g = step(g)
  <2>1. step(g) = [i \in D |-> step(g)[i]]
    OBVIOUS
  <2>2. g = [i \in D |-> g[i]]
    BY <1>3
  <2> HIDE DEF step
  <2> QED
    BY <1>4, <1>5, <2>1, <2>2, SMTT(30)
<1>7. stop = step(stop)
  <2> HIDE DEF step
  <2> QED
    BY <1>6, Zenon
<1>8. Lex!utf8_check_string(s) <=> stop[1] = Len(s) + 1
  BY DEF Lex!utf8_check_string
<1> HIDE DEF stop
<1>9. \A i \in D : stop[i] = IF More(i) THEN stop[i + Char(s, i).len] ELSE i
  <2> HIDE DEF step
  <2> QED
    BY <1>5, <1>7
<1> DEFINE from == {i \in D : stop[i] = Len(s) + 1}
<1>10. Readable(s, from)
  <2>1. Len(s) + 1 \in from
    BY <1>0, <1>9 DEF More
  <2>2. ASSUME NEW i \in 1 .. Len(s) PROVE i \in from <=> ValidChar(s, i) /\ i + Char(s, i).len \in from
    <3>1. i \in D /\ i # Len(s) + 1 /\ (More(i) <=> ValidChar(s, i))
      BY <1>0 DEF More
    <3>2. More(i) => i + Char(s, i).len \in D
      BY <1>12, <3>1
    <3> QED
      BY <1>9, <3>1, <3>2
  <2> QED
    BY <2>1, <2>2 DEF Readable
<1>11. 1 \in D
  BY <1>0
<1> QED
  BY <1>8, <1>10, <1>11

\* utf8_check_string finds out whether a string is well-formed.
LEMMA CheckIsWellFormed ==
    ASSUME NEW s \in Strings
    PROVE  Lex!utf8_check_string(s) <=> WellFormed(s)
<1>0. Len(s) \in Nat
  BY Bytes
<1>1. PICK from : Readable(s, from) /\ (Lex!utf8_check_string(s) <=> 1 \in from)
  BY CheckString
<1>2. /\ from \subseteq 1 .. Len(s) + 1 /\ Len(s) + 1 \in from
      /\ \A i \in 1 .. Len(s) : i \in from <=> ValidChar(s, i) /\ i + Char(s, i).len \in from
  BY <1>1 DEF Readable
<1>3. ASSUME 1 \in from PROVE WellFormed(s)
  <2>1. from \in SUBSET (1 .. Len(s) + 1) /\ {1, Len(s) + 1} \subseteq from
    BY <1>2, <1>3
  <2>2. ASSUME NEW i \in from \ {Len(s) + 1}
        PROVE  \E row \in Utf8Table : Matches(s, i, row) /\ i + Len(row) \in from
    <3>1. i \in 1 .. Len(s)
      BY <1>0, <1>2
    <3>2. ValidChar(s, i) /\ i + Char(s, i).len \in from
      BY <1>2, <3>1
    <3>3. PICK row \in Utf8Table : Matches(s, i, row)
      BY <3>1, <3>2, TableIs
    <3>4. Len(row) = Char(s, i).len
      BY <3>1, <3>3, TableIs
    <3> QED
      BY <3>2, <3>3, <3>4, Zenon
  <2> QED
    BY <2>1, <2>2, Zenon DEF WellFormed
<1>4. ASSUME WellFormed(s) PROVE 1 \in from
  <2>1. PICK cut \in SUBSET (1 .. Len(s) + 1) :
            /\ {1, Len(s) + 1} \subseteq cut
            /\ \A i \in cut \ {Len(s) + 1} : \E row \in Utf8Table : Matches(s, i, row) /\ i + Len(row) \in cut
    BY <1>4, Zenon DEF WellFormed
  <2> DEFINE S == {i \in 1 .. Len(s) + 1 : i \in cut => i \in from}
  <2>2. ASSUME NEW i \in 1 .. Len(s) + 1, \A j \in i + 1 .. Len(s) + 1 : j \in S PROVE i \in S
    <3>1. CASE i \notin cut \/ i = Len(s) + 1
      BY <1>2, <3>1
    <3>2. CASE i \in cut /\ i # Len(s) + 1
      <4>1. i \in 1 .. Len(s) /\ i \in cut \ {Len(s) + 1}
        BY <1>0, <3>2
      <4>2. PICK row \in Utf8Table : Matches(s, i, row) /\ i + Len(row) \in cut
        BY <2>1, <4>1, Zenon
      <4>3. ValidChar(s, i) /\ Len(row) = Char(s, i).len
        BY <4>1, <4>2, TableIs
      <4>4. Char(s, i).len \in 1 .. 4
        BY <4>1, <4>3, CharShape DEF Shape
      <4>5. i + Char(s, i).len \in cut
        BY <4>2, <4>3, Zenon
      <4>6. i + Char(s, i).len \in i + 1 .. Len(s) + 1
        BY <2>1, <4>1, <4>4, <4>5
      <4>7. i + Char(s, i).len \in from
        BY <2>2, <4>5, <4>6
      <4> QED
        BY <1>2, <4>1, <4>3, <4>7
    <3> QED
      BY <3>1, <3>2
  <2>3. \A i \in 1 .. Len(s) + 1 : i \in S
    <3>1. 1 \in Int /\ Len(s) + 1 \in Int
      BY <1>0
    <3> HIDE DEF S
    <3> QED
      BY <2>2, <3>1, FromEnd, Zenon
  <2> QED
    BY <1>0, <2>1, <2>3
<1> QED
  BY <1>1, <1>3, <1>4

\* Four hexadecimal digits are read back.
LEMMA HexIs ==
    ASSUME NEW n \in Int, 0 <= n, n < 16
    PROVE  /\ Lex!Hex(n) \in Lex!HexDigit /\ Lex!Unhex(Lex!Hex(n)) = n
           /\ Lex!Hex(n) \in Int /\ 48 <= Lex!Hex(n) /\ Lex!Hex(n) < 128
<1>1. CASE n < 10
  <2>1. Lex!Hex(n) = 48 + n
    BY <1>1, SMT DEF Lex!Hex
  <2>2. 48 + n \in Lex!Digit
    BY <1>1, SMT DEF Lex!Digit
  <2> QED
    BY <1>1, <2>1, <2>2, SMT DEF Lex!HexDigit, Lex!Unhex
<1>2. CASE n >= 10
  <2>1. Lex!Hex(n) = 87 + n
    BY <1>2, SMT DEF Lex!Hex
  <2>2. 87 + n \in 97 .. 102 /\ 87 + n \notin Lex!Digit /\ 87 + n \in Lex!Lower
    BY <1>2, SMT DEF Lex!Digit, Lex!Lower
  <2>3. Lex!Hex(n) \in Lex!HexDigit
    BY <2>1, <2>2, SMT DEF Lex!HexDigit
  <2>4. Lex!Unhex(Lex!Hex(n)) = n
    BY <2>1, <2>2, SMT DEF Lex!Unhex
  <2> QED
    BY <1>2, <2>1, <2>3, <2>4, SMT
<1> QED
  BY <1>1, <1>2, SMT

LEMMA Nibbles ==
    ASSUME NEW n \in Int, 0 <= n, n < 65536
    PROVE  /\ (n \div 4096) \in Int /\ 0 <= (n \div 4096) /\ (n \div 4096) < 16
           /\ ((n \div 256) % 16) \in Int /\ 0 <= ((n \div 256) % 16) /\ ((n \div 256) % 16) < 16
           /\ ((n \div 16) % 16) \in Int /\ 0 <= ((n \div 16) % 16) /\ ((n \div 16) % 16) < 16
           /\ (n % 16) \in Int /\ 0 <= (n % 16) /\ (n % 16) < 16
           /\ 4096 * (n \div 4096) + 256 * ((n \div 256) % 16) + 16 * ((n \div 16) % 16) + (n % 16) = n
  BY SMT

\* The bytes of w stand in b from q on.
Stands(w, b, q) == q >= 1 /\ q + Len(w) - 1 <= Len(b) /\ \A k \in 1 .. Len(w) : b[q + k - 1] = w[k]

LEMMA StandsAt ==
    ASSUME NEW w, NEW b, NEW q \in Int, Stands(w, b, q), Len(w) \in Int
    PROVE  \A k \in Int : 0 <= k /\ k < Len(w) => b[q + k] = w[k + 1]
<1>1. \A k \in 1 .. Len(w) : b[q + k - 1] = w[k]
  BY Zenon DEF Stands
<1> QED
  BY <1>1, SMT

LEMMA StandsSix ==
    ASSUME NEW w, NEW b, NEW q \in Int, Stands(w, b, q), Len(w) \in Int, 6 <= Len(w)
    PROVE  /\ b[q] = w[1] /\ b[q + 1] = w[2] /\ b[q + 2] = w[3]
           /\ b[q + 3] = w[4] /\ b[q + 4] = w[5] /\ b[q + 5] = w[6]
<1>1. \A k \in 1 .. Len(w) : b[q + k - 1] = w[k]
  BY Zenon DEF Stands
<1>2. b[q] = w[1]
  BY <1>1
<1>3. b[q + 1] = w[2]
  BY <1>1
<1>4. b[q + 2] = w[3]
  BY <1>1
<1>5. b[q + 3] = w[4]
  BY <1>1
<1>6. b[q + 4] = w[5]
  BY <1>1
<1>7. b[q + 5] = w[6]
  BY <1>1
<1> QED
  BY <1>2, <1>3, <1>4, <1>5, <1>6, <1>7

\* An escape of four digits: six bytes, and what they say.
Spells(e, v) ==
    /\ e \in Strings /\ Len(e) >= 6 /\ Len(e) <= 6
    /\ \A k \in 1 .. Len(e) : e[k] < 128
    /\ \A b \in Seq(Int), q \in Int : Stands(e, b, q) =>
           /\ b[q] = 92 /\ Lex!IsEscape(b, q, 117) /\ Lex!UnitLength(b, q) = 6
           /\ b[q + 1] = 117 /\ Lex!Unescape(b, q + 1) = v

FourDigits(x, y, z, w) == 4096 * Lex!Unhex(x) + 256 * Lex!Unhex(y) + 16 * Lex!Unhex(z) + Lex!Unhex(w)
LongEscape(x, y, z, w) == <<92, 117, x, y, z, w>>

LEMMA DigitIs ==
    ASSUME NEW x \in Lex!HexDigit
    PROVE  x \in Int /\ 48 <= x /\ x < 128
  BY SMT DEF Lex!HexDigit, Lex!Digit

LEMMA SixIs ==
    ASSUME NEW x \in Lex!HexDigit, NEW y \in Lex!HexDigit, NEW z \in Lex!HexDigit, NEW w \in Lex!HexDigit
    PROVE  Spells(LongEscape(x, y, z, w), FourDigits(x, y, z, w))
<1> DEFINE e == LongEscape(x, y, z, w)
           v == FourDigits(x, y, z, w)
<1>1. /\ x \in Int /\ 48 <= x /\ x < 128 /\ y \in Int /\ 48 <= y /\ y < 128
      /\ z \in Int /\ 48 <= z /\ z < 128 /\ w \in Int /\ 48 <= w /\ w < 128
  BY DigitIs
<1>2. /\ Len(e) >= 6 /\ 6 <= Len(e) /\ Len(e) <= 6 /\ Len(e) \in Int
      /\ e[1] = 92 /\ e[2] = 117 /\ e[3] = x /\ e[4] = y /\ e[5] = z /\ e[6] = w
  BY DEF LongEscape
<1>3. e \in Strings
  BY <1>1 DEF Strings, LongEscape
<1>4. \A k \in 1 .. Len(e) : e[k] < 128
  BY <1>1 DEF LongEscape
<1> HIDE DEF e
<1>5. ASSUME NEW b \in Seq(Int), NEW q \in Int, Stands(e, b, q)
      PROVE  /\ b[q] = 92 /\ Lex!IsEscape(b, q, 117) /\ Lex!UnitLength(b, q) = 6
             /\ b[q + 1] = 117 /\ Lex!Unescape(b, q + 1) = v
  <2>1. b[q] = e[1] /\ b[q + 1] = e[2] /\ b[q + 2] = e[3] /\ b[q + 3] = e[4] /\ b[q + 4] = e[5] /\ b[q + 5] = e[6]
    <3>1. 6 <= Len(e) /\ Len(e) \in Int
      BY <1>2
    <3>2. Stands(e, b, q)
      BY <1>5
    <3> QED
      BY <3>1, <3>2, StandsSix, SMT
  <2>2. b[q] = 92 /\ b[q + 1] = 117 /\ b[q + 2] = x /\ b[q + 3] = y /\ b[q + 4] = z /\ b[q + 5] = w
    BY <1>2, <2>1, Zenon
  <2>3. Lex!IsEscape(b, q, 117)
    BY <2>2 DEF Lex!IsEscape, Lex!Backslash
  <2>4. \A d \in 2 .. 5 : b[q + d] \in Lex!HexDigit
    <3>1. b[q + 2] \in Lex!HexDigit /\ b[q + 3] \in Lex!HexDigit
          /\ b[q + 4] \in Lex!HexDigit /\ b[q + 5] \in Lex!HexDigit
      BY <2>2, Zenon
    <3>2. \A d \in 2 .. 5 : d = 2 \/ d = 3 \/ d = 4 \/ d = 5
      OBVIOUS
    <3> QED
      BY <3>1, <3>2, Zenon
  <2>5. Lex!UnitLength(b, q) = 6
    BY <2>2, <2>3, <2>4 DEF Lex!UnitLength, Lex!Backslash, Lex!Quote, Lex!Slash, Lex!Escape
  <2>6. Lex!Unescape(b, q + 1) = v
    <3>1. q + 1 + 1 = q + 2 /\ q + 1 + 2 = q + 3 /\ q + 1 + 3 = q + 4 /\ q + 1 + 4 = q + 5
      OBVIOUS
    <3> QED
      BY <2>2, <3>1, SMTT(30) DEF Lex!Unescape, FourDigits
  <2> QED
    BY <2>2, <2>3, <2>5, <2>6
<1> HIDE DEF v
<1>6. Spells(e, v)
  BY <1>2, <1>3, <1>4, <1>5, Zenon DEF Spells
<1> QED
  BY <1>6, Zenon DEF e, v

LEMMA EscapeIs ==
    ASSUME NEW n \in Int, 0 <= n, n < 65536
    PROVE  /\ Lex!U(n) \in Strings /\ Len(Lex!U(n)) >= 6 /\ Len(Lex!U(n)) <= 6
           /\ \A k \in 1 .. Len(Lex!U(n)) : Lex!U(n)[k] < 128
           /\ \A b \in Seq(Int), q \in Int : Stands(Lex!U(n), b, q) =>
                  /\ b[q] = 92 /\ Lex!IsEscape(b, q, 117) /\ Lex!UnitLength(b, q) = 6
                  /\ b[q + 1] = 117 /\ Lex!Unescape(b, q + 1) = n
<1> DEFINE x == Lex!Hex(n \div 4096)
           y == Lex!Hex((n \div 256) % 16)
           z == Lex!Hex((n \div 16) % 16)
           w == Lex!Hex(n % 16)
<1>1. Lex!U(n) = <<92, 117, x, y, z, w>>
  BY SMT DEF Lex!U, Lex!Backslash
<1>2. /\ x \in Lex!HexDigit /\ y \in Lex!HexDigit /\ z \in Lex!HexDigit /\ w \in Lex!HexDigit
      /\ x \in Int /\ 48 <= x /\ x < 128 /\ y \in Int /\ 48 <= y /\ y < 128
      /\ z \in Int /\ 48 <= z /\ z < 128 /\ w \in Int /\ 48 <= w /\ w < 128
      /\ 4096 * Lex!Unhex(x) + 256 * Lex!Unhex(y) + 16 * Lex!Unhex(z) + Lex!Unhex(w) = n
  <2> DEFINE a == n \div 4096
             b == (n \div 256) % 16
             c == (n \div 16) % 16
             d == n % 16
  <2>1. /\ a \in Int /\ 0 <= a /\ a < 16 /\ b \in Int /\ 0 <= b /\ b < 16
        /\ c \in Int /\ 0 <= c /\ c < 16 /\ d \in Int /\ 0 <= d /\ d < 16
        /\ 4096 * a + 256 * b + 16 * c + d = n
    BY Nibbles, SMT
  <2>2. x = Lex!Hex(a) /\ y = Lex!Hex(b) /\ z = Lex!Hex(c) /\ w = Lex!Hex(d)
    OBVIOUS
  <2> HIDE DEF a, b, c, d, x, y, z, w
  <2>3. /\ x \in Lex!HexDigit /\ Lex!Unhex(x) = a /\ x \in Int /\ 48 <= x /\ x < 128
    BY <2>1, <2>2, HexIs, SMT
  <2>4. /\ y \in Lex!HexDigit /\ Lex!Unhex(y) = b /\ y \in Int /\ 48 <= y /\ y < 128
    BY <2>1, <2>2, HexIs, SMT
  <2>5. /\ z \in Lex!HexDigit /\ Lex!Unhex(z) = c /\ z \in Int /\ 48 <= z /\ z < 128
    BY <2>1, <2>2, HexIs, SMT
  <2>6. /\ w \in Lex!HexDigit /\ Lex!Unhex(w) = d /\ w \in Int /\ 48 <= w /\ w < 128
    BY <2>1, <2>2, HexIs, SMT
  <2> QED
    BY <2>1, <2>3, <2>4, <2>5, <2>6, SMT
<1> HIDE DEF x, y, z, w
<1>3. Spells(LongEscape(x, y, z, w), FourDigits(x, y, z, w))
  <2>1. x \in Lex!HexDigit /\ y \in Lex!HexDigit /\ z \in Lex!HexDigit /\ w \in Lex!HexDigit
    BY <1>2
  <2> QED
    BY <2>1, SixIs, SMT
<1>4. Lex!U(n) = LongEscape(x, y, z, w) /\ FourDigits(x, y, z, w) = n
  BY <1>1, <1>2 DEF LongEscape, FourDigits
<1>5. Spells(Lex!U(n), n)
  BY <1>3, <1>4
<1> QED
  BY <1>5, SMT DEF Spells

\* What is written for a character is one of four: its own bytes, a letter after
\* a backslash, an escape, or two.
AsIs(s, i, w) ==
    /\ w = SubSeq(s, i, i + Char(s, i).len - 1)
    /\ Char(s, i).cp > 31 /\ Char(s, i).cp # 34 /\ Char(s, i).cp # 92
Short(s, i, w) ==
    /\ Char(s, i).cp < 128
    /\ \E e \in {34, 92} \cup DOMAIN Lex!Escape :
           w = <<92, e>> /\ Char(s, i).cp = IF e \in DOMAIN Lex!Escape THEN Lex!Escape[e] ELSE e
Long(s, i, w) == Char(s, i).cp < 65536 /\ w = Lex!U(Char(s, i).cp)
HighHalf(v) == 55296 + ((v - 65536) \div 1024)
LowHalf(v) == 56320 + ((v - 65536) % 1024)
Twin(s, i, w) ==
    /\ Char(s, i).cp >= 65536
    /\ w = Lex!U(HighHalf(Char(s, i).cp)) \o Lex!U(LowHalf(Char(s, i).cp))

LEMMA EscapeValues ==
    /\ DOMAIN Lex!Escape = {98, 102, 110, 114, 116}
    /\ Lex!Escape[98] = 8 /\ Lex!Escape[102] = 12 /\ Lex!Escape[110] = 10
    /\ Lex!Escape[114] = 13 /\ Lex!Escape[116] = 9
<1>1. DOMAIN Lex!Escape = {98, 102, 110, 114, 116}
  BY SMT DEF Lex!Escape
<1>2. \A c \in {98, 102, 110, 114, 116} :
          Lex!Escape[c] = CASE c = 98 -> 8 [] c = 102 -> 12 [] c = 110 -> 10 [] c = 114 -> 13 [] OTHER -> 9
  BY SMT DEF Lex!Escape
<1> QED
  BY <1>1, <1>2, SMT

LEMMA EscapedIs ==
    ASSUME NEW v, v \in Int
    PROVE  /\ v = 34 \/ v = 92 => Lex!Escaped(v) = <<92, v>>
           /\ ~(v = 34 \/ v = 92) /\ (\E e \in DOMAIN Lex!Escape : Lex!Escape[e] = v) =>
                  \E e \in DOMAIN Lex!Escape : Lex!Escape[e] = v /\ Lex!Escaped(v) = <<92, e>>
           /\ ~(v = 34 \/ v = 92) /\ ~(\E e \in DOMAIN Lex!Escape : Lex!Escape[e] = v) =>
                  /\ v < 65536 => Lex!Escaped(v) = Lex!U(v)
                  /\ ~(v < 65536) =>
                         Lex!Escaped(v) = Lex!U(HighHalf(v)) \o Lex!U(LowHalf(v))
<1> DEFINE e == CHOOSE c \in DOMAIN Lex!Escape : Lex!Escape[c] = v
           pair == Lex!U(HighHalf(v)) \o Lex!U(LowHalf(v))
           known == \E c \in DOMAIN Lex!Escape : Lex!Escape[c] = v
<1>1. Lex!Escaped(v) = IF v \in {34, 92} THEN <<92, v>> ELSE IF known THEN <<92, e>>
                       ELSE IF v < 65536 THEN Lex!U(v) ELSE pair
  BY SMT DEF Lex!Escaped, Lex!Quote, Lex!Backslash, HighHalf, LowHalf
<1>2. known => e \in DOMAIN Lex!Escape /\ Lex!Escape[e] = v
  OBVIOUS
<1>3. known <=> \E c \in DOMAIN Lex!Escape : Lex!Escape[c] = v
  OBVIOUS
<1>4. pair = Lex!U(HighHalf(v)) \o Lex!U(LowHalf(v))
  OBVIOUS
<1> HIDE DEF e, pair, known
<1>5. v = 34 \/ v = 92 => Lex!Escaped(v) = <<92, v>>
  BY <1>1, SMT
<1>6. ~(v = 34 \/ v = 92) /\ known => Lex!Escaped(v) = <<92, e>>
  BY <1>1, SMT
<1>7. ~(v = 34 \/ v = 92) /\ ~known /\ v < 65536 => Lex!Escaped(v) = Lex!U(v)
  BY <1>1, SMT
<1>8. ~(v = 34 \/ v = 92) /\ ~known /\ ~(v < 65536) => Lex!Escaped(v) = pair
  BY <1>1, SMT
<1> QED
  BY <1>2, <1>3, <1>4, <1>5, <1>6, <1>7, <1>8, SMT

LEMMA WrittenIs ==
    ASSUME NEW s \in Strings, NEW i \in 1 .. Len(s), ValidChar(s, i), NEW ascii \in BOOLEAN
    PROVE  LET w == Lex!Written(s, i, ascii)
           IN  \/ AsIs(s, i, w) /\ (ascii => Char(s, i).cp < 128)
               \/ Short(s, i, w) \/ Long(s, i, w) \/ Twin(s, i, w)
<1> DEFINE w == Lex!Written(s, i, ascii)
           v == Char(s, i).cp
           kept == SubSeq(s, i, i + Char(s, i).len - 1)
           mark == v = 34 \/ v = 92
           known == \E e \in DOMAIN Lex!Escape : Lex!Escape[e] = v
<1>1. v \in Int /\ 1 <= v
  BY CharShape, SMT DEF Shape
<1>2. w = IF v \in {92, 34} \/ v < 32 \/ (ascii /\ v > 127) THEN Lex!Escaped(v) ELSE kept
  BY SMT DEF Lex!Written, Char, Lex!Backslash, Lex!Quote
<1>3. CASE ~(v \in {92, 34} \/ v < 32 \/ (ascii /\ v > 127))
  <2>1. w = kept /\ v > 31 /\ v # 34 /\ v # 92 /\ (ascii => v < 128)
    <3> HIDE DEF w, v, kept
    <3> QED
      BY <1>1, <1>2, <1>3, SMT
  <2>2. AsIs(s, i, w) /\ (ascii => v < 128)
    BY <2>1 DEF AsIs
  <2> QED
    BY <2>2
<1>4. CASE v \in {92, 34} \/ v < 32 \/ (ascii /\ v > 127)
  <2>1. w = Lex!Escaped(v)
    <3> HIDE DEF w, v, kept
    <3> QED
      BY <1>2, <1>4, SMT
  <2>2. CASE mark
    <3>1. w = <<92, v>> /\ v \in {34, 92} \cup DOMAIN Lex!Escape /\ v \notin DOMAIN Lex!Escape /\ v < 128
      <4> HIDE DEF w, v
      <4> QED
        BY <1>1, <2>1, <2>2, EscapedIs, EscapeValues, SMT
    <3>2. Short(s, i, w)
      <4>1. v = IF v \in DOMAIN Lex!Escape THEN Lex!Escape[v] ELSE v
        BY <3>1
      <4> QED
        BY <3>1, <4>1 DEF Short
    <3> QED
      BY <3>2
  <2>3. CASE ~mark /\ known
    <3>1. PICK e \in DOMAIN Lex!Escape : Lex!Escape[e] = v /\ w = <<92, e>>
      <4> HIDE DEF w, v
      <4> QED
        BY <1>1, <2>1, <2>3, EscapedIs
    <3>2. v < 128
      <4> HIDE DEF v
      <4> QED
        BY <3>1, EscapeValues, SMT
    <3>3. Short(s, i, w)
      <4>1. e \in {34, 92} \cup DOMAIN Lex!Escape /\ v = IF e \in DOMAIN Lex!Escape THEN Lex!Escape[e] ELSE e
        BY <3>1
      <4> QED
        BY <3>1, <3>2, <4>1 DEF Short
    <3> QED
      BY <3>3
  <2>4. CASE ~mark /\ ~known /\ v < 65536
    <3>1. w = Lex!U(v)
      <4> HIDE DEF w, v
      <4> QED
        BY <1>1, <2>1, <2>4, EscapedIs
    <3> QED
      BY <2>4, <3>1 DEF Long
  <2>5. CASE ~mark /\ ~known /\ ~(v < 65536)
    <3>1. w = Lex!U(HighHalf(v)) \o Lex!U(LowHalf(v))
      <4> HIDE DEF w, v
      <4> QED
        BY <1>1, <2>1, <2>5, EscapedIs
    <3>2. v >= 65536
      BY <1>1, <2>5, SMT
    <3> QED
      BY <3>1, <3>2 DEF Twin
  <2> QED
    BY <2>2, <2>3, <2>4, <2>5
<1> QED
  BY <1>3, <1>4

\* A text that stands somewhere, its parts.
LEMMA CatIs ==
    ASSUME NEW w \in Seq(Int), NEW u \in Seq(Int)
    PROVE  /\ w \o u \in Seq(Int) /\ Len(w) \in Nat /\ Len(u) \in Nat /\ Len(w \o u) = Len(w) + Len(u)
           /\ \A k \in 1 .. Len(w) : (w \o u)[k] = w[k]
           /\ \A k \in 1 .. Len(u) : (w \o u)[Len(w) + k] = u[k]
  BY SMT

LEMMA StandsCat ==
    ASSUME NEW w \in Seq(Int), NEW u \in Seq(Int), NEW b, NEW q \in Int, Stands(w \o u, b, q), Len(b) \in Int
    PROVE  Stands(w, b, q) /\ Stands(u, b, q + Len(w))
<1> DEFINE x == w \o u
           n == Len(w)
           m == Len(u)
<1>1. /\ n \in Nat /\ m \in Nat /\ Len(x) = n + m
      /\ \A k \in 1 .. n : x[k] = w[k]
      /\ \A k \in 1 .. m : x[n + k] = u[k]
  BY CatIs
<1>2. q >= 1 /\ q + Len(x) - 1 <= Len(b) /\ \A k \in 1 .. Len(x) : b[q + k - 1] = x[k]
  BY DEF Stands
<1>3. n = Len(w) /\ m = Len(u)
  OBVIOUS
<1> HIDE DEF x, n, m
<1>4. Stands(w, b, q)
  <2>1. q + n - 1 <= Len(b)
    BY <1>1, <1>2
  <2>2. \A k \in 1 .. n : b[q + k - 1] = w[k]
    <3> TAKE k \in 1 .. n
    <3>1. k \in 1 .. Len(x)
      BY <1>1
    <3> QED
      BY <1>1, <1>2, <3>1
  <2> QED
    BY <1>2, <1>3, <2>1, <2>2 DEF Stands
<1>5. Stands(u, b, q + n)
  <2>1. q + n >= 1 /\ (q + n) + m - 1 <= Len(b)
    BY <1>1, <1>2
  <2>2. \A k \in 1 .. m : b[(q + n) + k - 1] = u[k]
    <3> TAKE k \in 1 .. m
    <3>1. n + k \in 1 .. Len(x) /\ (q + n) + k - 1 = q + (n + k) - 1
      BY <1>1
    <3> QED
      BY <1>1, <1>2, <3>1
  <2> QED
    BY <1>3, <2>1, <2>2 DEF Stands
<1> QED
  BY <1>3, <1>4, <1>5

\* ASCII text is read character by character.
LEMMA AsciiReadable ==
    ASSUME NEW d \in Strings, NEW from, Readable(d, from), NEW w \in Strings, NEW q \in Int,
           Stands(w, d, q), \A k \in 1 .. Len(w) : w[k] < 128, q + Len(w) \in from
    PROVE  q \in from
<1> DEFINE n == Len(w)
<1>1. n \in Nat /\ q >= 1 /\ q + n - 1 <= Len(d) /\ Len(d) \in Nat
  BY SMT DEF Stands, Strings
<1>2. ASSUME NEW k \in 0 .. n, \A j \in k + 1 .. n : q + j \in from
      PROVE  q + k \in from
  <2>1. CASE k = n
    BY <2>1
  <2>2. CASE k # n
    <3>1. k + 1 \in 1 .. n /\ q + (k + 1) - 1 = q + k /\ q + k \in 1 .. Len(d)
      BY <1>1, <2>2, SMT
    <3>2. d[q + k] < 128
      <4>1. d[q + (k + 1) - 1] = w[k + 1]
        BY <3>1 DEF Stands
      <4> QED
        BY <3>1, <4>1
    <3>3. Char(d, q + k) = [cp |-> d[q + k], len |-> 1] /\ ValidChar(d, q + k)
      BY <3>1, <3>2, CharAscii
    <3>4. k + 1 \in k + 1 .. n
      BY <1>1, <2>2, SMT
    <3>5. (q + k) + Char(d, q + k).len \in from
      <4>1. (q + k) + Char(d, q + k).len = q + (k + 1)
        BY <3>3, SMT
      <4> QED
        BY <1>2, <3>4, <4>1
    <3> QED
      BY <3>1, <3>3, <3>5 DEF Readable
  <2> QED
    BY <2>1, <2>2
<1>3. \A k \in 0 .. n : q + k \in from
  <2> DEFINE S == {k \in 0 .. n : q + k \in from}
  <2>1. \A k \in 0 .. n : (\A j \in k + 1 .. n : j \in S) => k \in S
    BY <1>2
  <2>2. 0 \in Int /\ n \in Int
    BY <1>1
  <2> HIDE DEF S
  <2>3. \A k \in 0 .. n : k \in S
    BY <2>1, <2>2, FromEnd, Zenon
  <2> QED
    BY <2>3 DEF S
<1>4. 0 \in 0 .. n /\ q + 0 = q
  BY <1>1
<1> QED
  BY <1>3, <1>4

\* The end of a string and what it says, from place to place.
EndOf(b, i, end) ==
    \A j \in i .. Len(b) :
        end[j] = IF b[j] = 34 THEN j
                 ELSE IF Lex!UnitLength(b, j) = 0 THEN 0 ELSE end[j + Lex!UnitLength(b, j)]
Onward(b, j, dec) ==
    [ok |-> Lex!Unit(b, j).bytes # <<>> /\ dec[j + Lex!Unit(b, j).len].ok,
     text |-> Lex!Unit(b, j).bytes \o dec[j + Lex!Unit(b, j).len].text]
Done == [ok |-> TRUE, text |-> <<>>]
DecodeOf(b, i, e, dec) == \A j \in i .. e + 11 : dec[j] = IF j >= e THEN Done ELSE Onward(b, j, dec)

UnitIs(b, j, t, n) == Lex!Unit(b, j) = [bytes |-> t, len |-> n]
Reads(result, t) == result = [ok |-> TRUE, text |-> t]
Agree(f, p, q) == f[p] = f[q]
Open(b, q, n) == n \in Nat /\ n # 0 /\ b[q] # 34 /\ Lex!UnitLength(b, q) = n

\* One byte that stands for itself.
LEMMA UnitByte ==
    ASSUME NEW b, NEW j \in Int, b[j] \in Int, b[j] > 31, b[j] # 34, b[j] # 92
    PROVE  Lex!UnitLength(b, j) = 1 /\ UnitIs(b, j, <<b[j]>>, 1)
<1>1. b[j] # Lex!Backslash /\ ~Lex!IsEscape(b, j, 117)
  BY DEF Lex!Backslash, Lex!IsEscape
<1>2. Lex!UnitLength(b, j) = 1
  BY <1>1 DEF Lex!UnitLength
<1>3. Lex!Unit(b, j) = [bytes |-> <<b[j]>>, len |-> 1]
  BY <1>1 DEF Lex!Unit
<1>4. UnitIs(b, j, <<b[j]>>, 1)
  BY <1>3 DEF UnitIs
<1> QED
  BY <1>2, <1>4

LEMMA EndStep ==
    ASSUME NEW b, NEW i \in Int, NEW end, EndOf(b, i, end), NEW q \in i .. Len(b),
           NEW n, Open(b, q, n)
    PROVE  Agree(end, q, q + n)
<1>1. end[q] = end[q + n]
  BY DEF EndOf, Open
<1> QED
  BY <1>1, Zenon DEF Agree

LEMMA DecodeStep ==
    ASSUME NEW b, NEW i \in Int, NEW e \in Int, NEW dec, DecodeOf(b, i, e, dec), NEW q \in Int, i <= q, q < e,
           NEW n \in Int, NEW t \in Seq(Int), t # <<>>, UnitIs(b, q, t, n), NEW u, Reads(dec[q + n], u)
    PROVE  Reads(dec[q], t \o u)
<1>1. q \in i .. e + 11 /\ ~(q >= e)
  OBVIOUS
<1>2. dec[q] = Onward(b, q, dec)
  BY <1>1 DEF DecodeOf
<1>3. Lex!Unit(b, q).bytes = t /\ Lex!Unit(b, q).len = n
  BY DEF UnitIs
<1>4. Onward(b, q, dec) = [ok |-> t # <<>> /\ dec[q + n].ok, text |-> t \o dec[q + n].text]
  BY <1>3, Zenon DEF Onward
<1>5. dec[q + n].ok = TRUE /\ dec[q + n].text = u
  BY DEF Reads
<1> HIDE DEF Onward
<1>6. dec[q] = [ok |-> t # <<>> /\ TRUE, text |-> t \o u]
  BY <1>2, <1>4, <1>5, Zenon
<1>7. (t # <<>> /\ TRUE) = TRUE
  OBVIOUS
<1> QED
  BY <1>6, <1>7, Zenon DEF Reads

\* A character that is written as it is.
LEMMA KeptIs ==
    ASSUME NEW s \in Strings, NEW i \in 1 .. Len(s), ValidChar(s, i), NEW w, AsIs(s, i, w)
    PROVE  /\ w \in Strings /\ Len(w) = Char(s, i).len /\ w # <<>>
           /\ \A k \in 1 .. Len(w) : w[k] = s[i + k - 1] /\ w[k] > 31 /\ w[k] # 34 /\ w[k] # 92
           /\ Char(s, i).cp < 128 => \A k \in 1 .. Len(w) : w[k] < 128
<1> DEFINE c == Char(s, i)
           n == c.len
<1>1. /\ n \in 1 .. 4 /\ i + n - 1 <= Len(s) /\ c.cp \in Int
      /\ c.cp < 128 => n = 1 /\ s[i] = c.cp
      /\ c.cp >= 128 => \A k \in 0 .. n - 1 : s[i + k] >= 128
  BY CharShape DEF Shape
<1>2. w = SubSeq(s, i, i + n - 1) /\ c.cp > 31 /\ c.cp # 34 /\ c.cp # 92
  BY DEF AsIs
<1>3. Len(s) \in Nat /\ \A k \in 1 .. Len(s) : s[k] \in Int /\ s[k] > 0
  BY Bytes
<1>4. n = Char(s, i).len /\ c = Char(s, i)
  OBVIOUS
<1> HIDE DEF c, n
<1>5. n \in Int /\ 1 <= n /\ i + n - 1 <= Len(s) /\ i \in Int /\ 1 <= i
  BY <1>1
<1>6. w = [k \in 1 .. n |-> s[i + k - 1]]
  <2>1. w = [k \in 1 .. (i + n - 1) - i + 1 |-> s[i + k - 1]]
    BY <1>2, <1>5, SubSeqFunction
  <2>2. (i + n - 1) - i + 1 = n
    BY <1>5
  <2> QED
    BY <2>1, <2>2, Zenon
<1>7. \A k \in 1 .. n : i + k - 1 \in 1 .. Len(s)
  BY <1>3, <1>5
<1>8. w \in Strings /\ Len(w) = n
  <2>1. w \in Seq(Nat \ {0}) /\ Len(w) = n
    <3>1. \A k \in 1 .. n : s[i + k - 1] \in Nat \ {0}
      BY <1>3, <1>7
    <3>2. n \in Nat
      BY <1>5
    <3> QED
      BY <1>6, <3>1, <3>2
  <2> QED
    BY <2>1 DEF Strings
<1>9. \A k \in 1 .. n : w[k] = s[i + k - 1]
  BY <1>6
<1>10. ASSUME NEW k \in 1 .. n
       PROVE  w[k] > 31 /\ w[k] # 34 /\ w[k] # 92 /\ (c.cp < 128 => w[k] < 128)
  <2>1. CASE c.cp < 128
    <3>1. k = 1 /\ i + k - 1 = i
      BY <1>1, <1>5, <2>1
    <3>2. w[k] = s[i + k - 1]
      BY <1>9
    <3>3. s[i] = c.cp
      BY <1>1, <2>1
    <3>4. w[k] = c.cp
      BY <3>1, <3>2, <3>3, Zenon
    <3> QED
      BY <1>1, <1>2, <2>1, <3>4
  <2>2. CASE ~(c.cp < 128)
    <3>1. k - 1 \in 0 .. n - 1 /\ i + (k - 1) = i + k - 1
      BY <1>5
    <3>2. w[k] >= 128
      <4>3. c.cp >= 128
        BY <1>1, <2>2
      <4>1. s[i + (k - 1)] >= 128
        BY <1>1, <3>1, <4>3, Zenon
      <4>2. w[k] = s[i + k - 1]
        BY <1>9
      <4> QED
        BY <3>1, <4>1, <4>2
    <3>3. w[k] \in Int
      BY <1>3, <1>7, <1>9
    <3> QED
      BY <2>2, <3>2, <3>3
  <2> QED
    BY <2>1, <2>2
<1>11. w # <<>>
  BY <1>5, <1>8
<1> QED
  BY <1>4, <1>8, <1>9, <1>10, <1>11

\* A letter after a backslash.
LEMMA ShortIs ==
    ASSUME NEW s \in Strings, NEW i \in 1 .. Len(s), ValidChar(s, i), NEW w, Short(s, i, w)
    PROVE  /\ w \in Strings /\ Len(w) = 2 /\ Char(s, i).len = 1
           /\ \A k \in 1 .. Len(w) : w[k] < 128
           /\ \A b, q : q \in Int /\ Stands(w, b, q) =>
                  /\ b[q] = 92 /\ Lex!UnitLength(b, q) = 2
                  /\ UnitIs(b, q, SubSeq(s, i, i + Char(s, i).len - 1), 2)
<1>1. PICK e \in {34, 92} \cup DOMAIN Lex!Escape :
          w = <<92, e>> /\ Char(s, i).cp = IF e \in DOMAIN Lex!Escape THEN Lex!Escape[e] ELSE e
  BY DEF Short
<1>2. Char(s, i).len = 1 /\ s[i] = Char(s, i).cp
  BY CharShape DEF Short, Shape
<1>3. e \in Int /\ 34 <= e /\ e < 128 /\ e # 117
  BY EscapeValues
<1>4. w \in Strings /\ Len(w) = 2 /\ \A k \in 1 .. Len(w) : w[k] < 128
  BY <1>1, <1>3 DEF Strings
<1>5. ASSUME NEW b, NEW q, q \in Int, Stands(w, b, q)
      PROVE  /\ b[q] = 92 /\ Lex!UnitLength(b, q) = 2
             /\ UnitIs(b, q, SubSeq(s, i, i + Char(s, i).len - 1), 2)
  <2>1. b[q] = 92 /\ b[q + 1] = e
    <3>1. Len(w) \in Int /\ 1 < Len(w) /\ w[1] = 92 /\ w[2] = e
      BY <1>1
    <3>2. \A k \in Int : 0 <= k /\ k < Len(w) => b[q + k] = w[k + 1]
      BY <1>5, <3>1, StandsAt
    <3>3. b[q + 0] = w[0 + 1] /\ b[q + 1] = w[1 + 1]
      BY <3>1, <3>2
    <3>4. q + 0 = q /\ 0 + 1 = 1 /\ 1 + 1 = 2
      BY <1>5
    <3> QED
      BY <3>1, <3>3, <3>4
  <2>2. ~Lex!IsEscape(b, q, 117)
    BY <1>3, <2>1 DEF Lex!IsEscape
  <2>3. Lex!UnitLength(b, q) = 2
    BY <1>1, <2>1, <2>2 DEF Lex!UnitLength, Lex!Backslash, Lex!Quote, Lex!Slash
  <2>4. Lex!Unit(b, q) = [bytes |-> <<IF e \in DOMAIN Lex!Escape THEN Lex!Escape[e] ELSE e>>, len |-> 2]
    BY <1>3, <2>1 DEF Lex!Unit, Lex!Backslash
  <2>5. <<IF e \in DOMAIN Lex!Escape THEN Lex!Escape[e] ELSE e>> = <<s[i]>>
    BY <1>1, <1>2
  <2>6. SubSeq(s, i, i + Char(s, i).len - 1) = <<s[i]>>
    <3>1. i + Char(s, i).len - 1 = i
      BY <1>2
    <3> QED
      BY <3>1, SubSeqIs, Zenon
  <2> QED
    <3>1. UnitIs(b, q, <<s[i]>>, 2)
      BY <2>4, <2>5, Zenon DEF UnitIs
    <3>2. UnitIs(b, q, SubSeq(s, i, i + Char(s, i).len - 1), 2)
      BY <2>6, <3>1, Zenon
    <3> QED
      BY <2>1, <2>3, <3>2
<1> QED
  BY <1>2, <1>4, <1>5

\* An escape for a character of the first plane.
LEMMA LongIs ==
    ASSUME NEW s \in Strings, NEW i \in 1 .. Len(s), ValidChar(s, i), NEW w, Long(s, i, w)
    PROVE  /\ w \in Strings /\ Len(w) >= 6 /\ Len(w) <= 6
           /\ \A k \in 1 .. Len(w) : w[k] < 128
           /\ \A b \in Seq(Int), q \in Int : Stands(w, b, q) =>
                  /\ b[q] = 92 /\ Lex!UnitLength(b, q) = 6
                  /\ UnitIs(b, q, SubSeq(s, i, i + Char(s, i).len - 1), 6)
<1> DEFINE v == Char(s, i).cp
           t == SubSeq(s, i, i + Char(s, i).len - 1)
<1>1. v \in Int /\ 1 <= v /\ ~(55296 <= v /\ v < 57344) /\ v < 65536 /\ w = Lex!U(v)
  BY CharShape DEF Shape, Long
<1>2. Lex!utf8_encode(v) = t
  BY Encodes
<1>3. t = SubSeq(s, i, i + Char(s, i).len - 1)
  OBVIOUS
<1> HIDE DEF v, t
<1>4. w \in Strings /\ Len(w) >= 6 /\ Len(w) <= 6 /\ \A k \in 1 .. Len(w) : w[k] < 128
  BY <1>1, EscapeIs
<1>5. ASSUME NEW b \in Seq(Int), NEW q \in Int, Stands(w, b, q)
      PROVE  /\ b[q] = 92 /\ Lex!UnitLength(b, q) = 6
             /\ UnitIs(b, q, t, 6)
  <2>1. b[q] = 92 /\ Lex!UnitLength(b, q) = 6 /\ b[q + 1] = 117 /\ Lex!Unescape(b, q + 1) = v
    BY <1>1, <1>5, EscapeIs
  <2>2. ~Lex!IsHigh(v) /\ ~Lex!IsLow(v) /\ v # 0
    BY <1>1 DEF Lex!IsHigh, Lex!IsLow
  <2>3. Lex!Unit(b, q) = [bytes |-> Lex!utf8_encode(v), len |-> 6]
    BY <2>1, <2>2 DEF Lex!Unit, Lex!Backslash
  <2> QED
    BY <1>2, <2>1, <2>3 DEF UnitIs
<1> QED
  BY <1>3, <1>4, <1>5

LEMMA StringsAreInts ==
    ASSUME NEW w \in Strings
    PROVE  w \in Seq(Int)
  BY DEF Strings

LEMMA AsciiCat ==
    ASSUME NEW w \in Strings, NEW u \in Strings,
           \A k \in 1 .. Len(w) : w[k] < 128, \A k \in 1 .. Len(u) : u[k] < 128
    PROVE  /\ w \o u \in Strings /\ Len(w \o u) = Len(w) + Len(u)
           /\ \A k \in 1 .. Len(w \o u) : (w \o u)[k] < 128
<1>1. w \o u \in Strings /\ Len(w \o u) = Len(w) + Len(u) /\ Len(w) \in Nat /\ Len(u) \in Nat
  BY DEF Strings
<1>2. ASSUME NEW k \in 1 .. Len(w \o u)
      PROVE  (w \o u)[k] < 128
  <2>1. /\ \A j \in 1 .. Len(w) : (w \o u)[j] = w[j]
        /\ \A j \in 1 .. Len(u) : (w \o u)[Len(w) + j] = u[j]
    BY StringsAreInts, CatIs
  <2>2. CASE k <= Len(w)
    BY <1>1, <2>1, <2>2
  <2>3. CASE ~(k <= Len(w))
    <3>1. k - Len(w) \in 1 .. Len(u) /\ Len(w) + (k - Len(w)) = k
      BY <1>1, <2>3
    <3> QED
      BY <2>1, <3>1
  <2> QED
    BY <2>2, <2>3
<1> QED
  BY <1>1, <1>2

\* Two escapes for a character of another plane.
LEMMA TwinIs ==
    ASSUME NEW s \in Strings, NEW i \in 1 .. Len(s), ValidChar(s, i), NEW w, Twin(s, i, w)
    PROVE  /\ w \in Strings /\ Len(w) >= 12 /\ Len(w) <= 12
           /\ \A k \in 1 .. Len(w) : w[k] < 128
           /\ \A b \in Seq(Int), q \in Int : Stands(w, b, q) =>
                  /\ b[q] = 92 /\ Lex!UnitLength(b, q) = 6
                  /\ b[q + 6] = 92 /\ Lex!UnitLength(b, q + 6) = 6
                  /\ UnitIs(b, q, SubSeq(s, i, i + Char(s, i).len - 1), 12)
<1> DEFINE v == Char(s, i).cp
           t == SubSeq(s, i, i + Char(s, i).len - 1)
           h == HighHalf(v)
           l == LowHalf(v)
           hw == Lex!U(h)
           lw == Lex!U(l)
<1>1. v \in Int /\ 65536 <= v /\ v <= 1114111 /\ w = hw \o lw
  BY CharShape DEF Shape, Twin
<1>2. Lex!utf8_encode(v) = t
  BY Encodes
<1>3. t = SubSeq(s, i, i + Char(s, i).len - 1)
  OBVIOUS
<1>4. h = HighHalf(v) /\ l = LowHalf(v)
  OBVIOUS
<1>5. hw = Lex!U(h) /\ lw = Lex!U(l)
  OBVIOUS
<1> HIDE DEF v, t, h, l, hw, lw
<1>6. /\ h \in Int /\ 55296 <= h /\ h < 56320 /\ l \in Int /\ 56320 <= l /\ l < 57344
      /\ (h - 55296) * 1024 + (l - 56320) + 65536 = v
  <2> DEFINE z == v - 65536
  <2>1. z \in Int /\ 0 <= z /\ z < 1048576 /\ z = v - 65536
    BY <1>1
  <2> HIDE DEF z
  <2>2. h = 55296 + (z \div 1024) /\ l = 56320 + (z % 1024)
    BY <1>4, <2>1 DEF HighHalf, LowHalf
  <2>3. /\ (z \div 1024) \in Int /\ 0 <= z \div 1024 /\ z \div 1024 < 1024
        /\ (z % 1024) \in Int /\ 0 <= z % 1024 /\ z % 1024 < 1024
        /\ (z \div 1024) * 1024 + (z % 1024) = z
    <3>1. (z % 1024) \in Int /\ 0 <= z % 1024 /\ z % 1024 < 1024
      BY <2>1
    <3>2. (z \div 1024) \in Int /\ (z \div 1024) * 1024 + (z % 1024) = z
      BY <2>1
    <3> DEFINE a == z \div 1024
               b == z % 1024
    <3>3. a \in Int /\ b \in Int /\ 0 <= b /\ b < 1024 /\ a * 1024 + b = z
      BY <3>1, <3>2
    <3> HIDE DEF a, b
    <3>4. 0 <= a /\ a < 1024
      BY <2>1, <3>3
    <3> QED
      BY <3>3, <3>4 DEF a, b
  <2> QED
    BY <1>1, <2>1, <2>2, <2>3
<1>7. /\ hw \in Strings /\ Len(hw) >= 6 /\ Len(hw) <= 6 /\ \A k \in 1 .. Len(hw) : hw[k] < 128
      /\ lw \in Strings /\ Len(lw) >= 6 /\ Len(lw) <= 6 /\ \A k \in 1 .. Len(lw) : lw[k] < 128
  <2>1. hw \in Strings /\ Len(hw) >= 6 /\ Len(hw) <= 6 /\ \A k \in 1 .. Len(hw) : hw[k] < 128
    BY <1>5, <1>6, EscapeIs
  <2>2. lw \in Strings /\ Len(lw) >= 6 /\ Len(lw) <= 6 /\ \A k \in 1 .. Len(lw) : lw[k] < 128
    BY <1>5, <1>6, EscapeIs
  <2> QED
    BY <2>1, <2>2
<1>8. hw \in Seq(Int) /\ lw \in Seq(Int)
  BY <1>7, StringsAreInts
<1>9. w \in Strings /\ Len(w) >= 12 /\ Len(w) <= 12 /\ \A k \in 1 .. Len(w) : w[k] < 128
  <2>1. w \in Strings /\ Len(w) = Len(hw) + Len(lw) /\ \A k \in 1 .. Len(w) : w[k] < 128
    <3>1. /\ hw \o lw \in Strings /\ Len(hw \o lw) = Len(hw) + Len(lw)
          /\ \A k \in 1 .. Len(hw \o lw) : (hw \o lw)[k] < 128
      <4>1. hw \in Strings /\ \A k \in 1 .. Len(hw) : hw[k] < 128
        BY <1>7
      <4>2. lw \in Strings /\ \A k \in 1 .. Len(lw) : lw[k] < 128
        BY <1>7
      <4> QED
        BY <4>1, <4>2, AsciiCat, Zenon
    <3>2. w = hw \o lw
      BY <1>1
    <3> QED
      BY <3>1, <3>2, Zenon
  <2>2. Len(w) >= 12 /\ Len(w) <= 12
    BY <1>7, <1>8, <2>1
  <2> QED
    BY <2>1, <2>2
<1>10. ASSUME NEW b \in Seq(Int), NEW q \in Int, Stands(w, b, q)
       PROVE  /\ b[q] = 92 /\ Lex!UnitLength(b, q) = 6
              /\ b[q + 6] = 92 /\ Lex!UnitLength(b, q + 6) = 6
              /\ UnitIs(b, q, t, 12)
  <2>1. Stands(hw, b, q) /\ Stands(lw, b, q + 6)
    <3>1. Stands(hw \o lw, b, q) /\ Len(b) \in Int
      BY <1>1, <1>10
    <3>2. Stands(hw, b, q) /\ Stands(lw, b, q + Len(hw))
      BY <1>8, <3>1, StandsCat, Zenon
    <3> QED
      <4>1. q + Len(hw) = q + 6
        BY <1>7, <1>8
      <4> QED
        BY <3>2, <4>1, Zenon
  <2>2. b[q] = 92 /\ Lex!UnitLength(b, q) = 6 /\ b[q + 1] = 117 /\ Lex!Unescape(b, q + 1) = h
    BY <1>5, <1>6, <2>1, EscapeIs
  <2>3. /\ b[q + 6] = 92 /\ Lex!UnitLength(b, q + 6) = 6 /\ Lex!IsEscape(b, q + 6, 117)
        /\ Lex!Unescape(b, q + 6 + 1) = l
    <3>1. q + 6 \in Int
      OBVIOUS
    <3> QED
      BY <1>5, <1>6, <2>1, <3>1, EscapeIs
  <2>4. Lex!IsHigh(h) /\ Lex!IsLow(l)
    BY <1>6 DEF Lex!IsHigh, Lex!IsLow
  <2>5. q + 6 + 1 = q + 7
    OBVIOUS
  <2>6. Lex!Unescape(b, q + 7) = l
    BY <2>3, <2>5
  <2>7. Lex!Unit(b, q) = [bytes |-> Lex!utf8_encode((h - 55296) * 1024 + (l - 56320) + 65536), len |-> 12]
    BY <2>2, <2>3, <2>4, <2>6 DEF Lex!Unit, Lex!Backslash
  <2> QED
    BY <1>2, <1>6, <2>2, <2>3, <2>7 DEF UnitIs
<1> QED
  BY <1>3, <1>9, <1>10

LEMMA CatCat ==
    ASSUME NEW x \in Seq(Int), NEW y \in Seq(Int), NEW z \in Seq(Int)
    PROVE  x \o (y \o z) = (x \o y) \o z
  OBVIOUS

\* The rest of a text from place to place.
LEMMA BytesRest ==
    ASSUME NEW w \in Seq(Int), NEW u \in Seq(Int)
    PROVE  /\ SubSeq(w, Len(w) + 1, Len(w)) \o u = u
           /\ SubSeq(w, 1, Len(w)) \o u = w \o u
           /\ \A k \in 1 .. Len(w) :
                  <<w[k]>> \o (SubSeq(w, k + 1, Len(w)) \o u) = SubSeq(w, k, Len(w)) \o u
<1>1. SubSeq(w, Len(w) + 1, Len(w)) = <<>>
  BY SMT
<1>2. SubSeq(w, 1, Len(w)) = w
  BY SMT
<1>3. <<>> \o u = u
  BY SMT
<1>4. ASSUME NEW k \in 1 .. Len(w)
      PROVE  <<w[k]>> \o (SubSeq(w, k + 1, Len(w)) \o u) = SubSeq(w, k, Len(w)) \o u
  <2> DEFINE x == SubSeq(w, k + 1, Len(w))
             y == <<w[k]>>
  <2>1. x \in Seq(Int) /\ y \in Seq(Int)
    BY SMT
  <2>2. SubSeq(w, k, Len(w)) = y \o x
    BY SMT
  <2> HIDE DEF x, y
  <2>3. y \o (x \o u) = (y \o x) \o u
    BY <2>1, CatCat, ZenonT(60)
  <2> QED
    BY <2>2, <2>3, Zenon DEF x, y
<1> QED
  BY <1>1, <1>2, <1>3, <1>4, Zenon

Itself(w) == \A k \in 1 .. Len(w) : w[k] > 31 /\ w[k] # 34 /\ w[k] # 92

\* Bytes that stand for themselves.
LEMMA ItselfAt ==
    ASSUME NEW w \in Seq(Int), Itself(w), NEW b, NEW q \in Int, Stands(w, b, q), NEW k \in 1 .. Len(w)
    PROVE  b[q + k - 1] = w[k] /\ w[k] \in Int /\ w[k] > 31 /\ w[k] # 34 /\ w[k] # 92
<1>1. b[q + k - 1] = w[k]
  BY DEF Stands
<1>2. w[k] \in Int /\ w[k] > 31 /\ w[k] # 34 /\ w[k] # 92
  BY DEF Itself
<1> QED
  BY <1>1, <1>2

LEMMA ItselfByte ==
    ASSUME NEW w \in Seq(Int), Itself(w), NEW b, NEW q \in Int, Stands(w, b, q), NEW k \in 1 .. Len(w)
    PROVE  b[q + k - 1] # 34 /\ q + k - 1 <= Len(b) /\ Lex!UnitLength(b, q + k - 1) = 1
<1>1. b[q + k - 1] \in Int /\ b[q + k - 1] > 31 /\ b[q + k - 1] # 34 /\ b[q + k - 1] # 92
  BY ItselfAt
<1>2. q + k - 1 <= Len(b)
  BY DEF Stands
<1>3. q + k - 1 \in Int
  OBVIOUS
<1>4. Lex!UnitLength(b, q + k - 1) = 1
  BY <1>1, <1>3, UnitByte, Zenon
<1> QED
  BY <1>1, <1>2, <1>4

LEMMA ItselfUnit ==
    ASSUME NEW w \in Seq(Int), Itself(w), NEW b, NEW q \in Int, Stands(w, b, q), NEW k \in 1 .. Len(w)
    PROVE  UnitIs(b, q + k - 1, <<w[k]>>, 1)
<1>1. b[q + k - 1] = w[k]
  BY ItselfAt
<1>2. b[q + k - 1] \in Int /\ b[q + k - 1] > 31 /\ b[q + k - 1] # 34 /\ b[q + k - 1] # 92
  BY ItselfAt
<1>3. q + k - 1 \in Int
  OBVIOUS
<1>4. UnitIs(b, q + k - 1, <<b[q + k - 1]>>, 1)
  BY <1>2, <1>3, UnitByte
<1> QED
  BY <1>1, <1>4

LEMMA KeptEnd ==
    ASSUME NEW b \in Seq(Int), NEW i \in Int, NEW end, EndOf(b, i, end), NEW q \in Int, i <= q,
           NEW w \in Seq(Int), Itself(w), Stands(w, b, q)
    PROVE  end[q] = end[q + Len(w)]
<1> DEFINE n == Len(w)
           S == {k \in 0 .. n : end[q + k] = end[q + n]}
<1>1. n \in Nat
  OBVIOUS
<1>2. ASSUME NEW k \in 0 .. n, \A j \in k + 1 .. n : j \in S
      PROVE  k \in S
  <2>1. CASE k = n
    BY <2>1
  <2>2. CASE k # n
    <3>1. k + 1 \in 1 .. n /\ k + 1 \in k + 1 .. n /\ q + (k + 1) - 1 = q + k /\ (q + k) + 1 = q + (k + 1)
      BY <1>1, <2>2
    <3>2. b[q + k] # 34 /\ q + k <= Len(b) /\ Lex!UnitLength(b, q + k) = 1
      <4>1. PICK m \in 1 .. n : m = k + 1
        BY <3>1
      <4>2. b[q + m - 1] # 34 /\ q + m - 1 <= Len(b) /\ Lex!UnitLength(b, q + m - 1) = 1
        BY ItselfByte
      <4>3. q + m - 1 = q + k
        BY <4>1
      <4> QED
        BY <4>2, <4>3, Zenon
    <3>3. q + k \in i .. Len(b)
      BY <3>2
    <3>4. end[q + k] = end[(q + k) + 1]
      <4>1. 1 \in Nat /\ 1 # 0
        OBVIOUS
      <4> QED
        <5>1. Agree(end, q + k, (q + k) + 1)
          <6>1. Open(b, q + k, 1)
            BY <3>2, <4>1, Zenon DEF Open
          <6> QED
            BY <3>3, <6>1, EndStep, Zenon
        <5> QED
          BY <5>1, Zenon DEF Agree
    <3>5. end[q + (k + 1)] = end[q + n]
      BY <1>2, <3>1
    <3> QED
      BY <3>1, <3>4, <3>5
  <2> QED
    BY <2>1, <2>2
<1>3. \A k \in 0 .. n : (\A j \in k + 1 .. n : j \in S) => k \in S
  BY <1>2
<1>4. 0 \in Int /\ n \in Int /\ 0 \in 0 .. n /\ q + 0 = q
  BY <1>1
<1>5. \A k \in 0 .. n : k \in S
  <2> HIDE DEF S, n
  <2> QED
    BY <1>3, <1>4, FromEnd, Zenon
<1> QED
  BY <1>4, <1>5

LEMMA KeptDecode ==
    ASSUME NEW b, NEW i \in Int, NEW e \in Int, NEW dec, DecodeOf(b, i, e, dec), NEW q \in Int, i <= q,
           NEW w \in Seq(Int), Itself(w), Stands(w, b, q), q + Len(w) <= e,
           NEW u \in Seq(Int), Reads(dec[q + Len(w)], u)
    PROVE  Reads(dec[q], w \o u)
<1> DEFINE n == Len(w)
           T(k) == SubSeq(w, k + 1, n) \o u
           S == {k \in 0 .. n : Reads(dec[q + k], T(k))}
<1>1. n \in Nat
  OBVIOUS
<1>2. /\ T(n) = u /\ T(0) = w \o u
      /\ \A k \in 0 .. n : T(k) \in Seq(Int)
      /\ \A k \in 0 .. n - 1 : <<w[k + 1]>> \o T(k + 1) = T(k)
  <2>1. T(n) = u
    BY BytesRest
  <2>2. T(0) = w \o u
    <3>1. T(0) = SubSeq(w, 1, n) \o u
      OBVIOUS
    <3> QED
      BY <3>1, BytesRest, Zenon
  <2>3. \A k \in 0 .. n : T(k) \in Seq(Int)
    BY <1>1
  <2>4. ASSUME NEW k \in 0 .. n - 1
        PROVE  <<w[k + 1]>> \o T(k + 1) = T(k)
    <3>1. k + 1 \in 1 .. Len(w)
      BY <1>1
    <3> QED
      BY <3>1, BytesRest, Zenon
  <2> HIDE DEF T
  <2> QED
    BY <2>1, <2>2, <2>3, <2>4, Zenon
<1> HIDE DEF T
<1>3. ASSUME NEW k \in 0 .. n, \A j \in k + 1 .. n : j \in S
      PROVE  k \in S
  <2>1. CASE k = n
    BY <1>2, <2>1
  <2>2. CASE k # n
    <3>1. /\ k \in 0 .. n - 1 /\ k + 1 \in 0 .. n /\ k + 1 \in 1 .. n /\ k + 1 \in k + 1 .. n
          /\ q + (k + 1) - 1 = q + k /\ (q + k) + 1 = q + (k + 1)
          /\ q + k \in Int /\ i <= q + k /\ q + k < e
      BY <1>1, <2>2
    <3>2. UnitIs(b, q + k, <<w[k + 1]>>, 1)
      <4>1. PICK m \in 1 .. n : m = k + 1
        BY <3>1
      <4>2. UnitIs(b, q + m - 1, <<w[m]>>, 1)
        BY ItselfUnit, Zenon
      <4>3. q + m - 1 = q + k
        BY <4>1
      <4> QED
        BY <4>1, <4>2, <4>3, Zenon
    <3>4. <<w[k + 1]>> \in Seq(Int) /\ <<w[k + 1]>> # <<>> /\ 1 \in Int
      BY <3>1
    <3>5. Reads(dec[(q + k) + 1], T(k + 1))
      BY <1>3, <3>1
    <3>6. T(k + 1) \in Seq(Int)
      BY <1>2, <3>1
    <3>7. Reads(dec[q + k], <<w[k + 1]>> \o T(k + 1))
      <4> DEFINE p == q + k
                 t == <<w[k + 1]>>
                 v == T(k + 1)
      <4>1. p \in Int /\ i <= p /\ p < e
        BY <3>1
      <4>2. t \in Seq(Int) /\ t # <<>> /\ v \in Seq(Int)
        BY <3>4, <3>6
      <4>3. UnitIs(b, p, t, 1)
        BY <3>2
      <4>4. Reads(dec[p + 1], v)
        BY <3>5
      <4> HIDE DEF p, t, v
      <4>5. Reads(dec[p], t \o v)
        BY <3>4, <4>1, <4>2, <4>3, <4>4, DecodeStep
      <4> QED
        BY <4>5 DEF p, t, v
    <3>8. <<w[k + 1]>> \o T(k + 1) = T(k)
      BY <1>2, <3>1, Zenon
    <3> QED
      BY <3>7, <3>8, Zenon
  <2> QED
    BY <2>1, <2>2
<1>4. \A k \in 0 .. n : (\A j \in k + 1 .. n : j \in S) => k \in S
  BY <1>3
<1>5. 0 \in Int /\ n \in Int /\ 0 \in 0 .. n /\ q + 0 = q
  BY <1>1
<1>6. \A k \in 0 .. n : k \in S
  <2> HIDE DEF S, n
  <2> QED
    BY <1>4, <1>5, FromEnd, Zenon
<1>7. Reads(dec[q + 0], T(0))
  BY <1>5, <1>6
<1> QED
  BY <1>2, <1>5, <1>7, Zenon

\* What is written for a character: ASCII if asked for, a text that is read
\* again, that has no closing quote in it and stands for the character.
PieceOf(s, i, ascii, w) ==
    \/ AsIs(s, i, w) /\ (ascii => Char(s, i).cp < 128)
    \/ Short(s, i, w) \/ Long(s, i, w) \/ Twin(s, i, w)

LEMMA PieceIs ==
    ASSUME NEW s \in Strings, NEW i \in 1 .. Len(s), ValidChar(s, i), NEW ascii \in BOOLEAN
    PROVE  PieceOf(s, i, ascii, Lex!Written(s, i, ascii))
  BY WrittenIs DEF PieceOf

Ascii(w) == \A k \in 1 .. Len(w) : w[k] < 128

LEMMA PieceTyped ==
    ASSUME NEW s \in Strings, NEW i \in 1 .. Len(s), ValidChar(s, i), NEW ascii, NEW w, PieceOf(s, i, ascii, w)
    PROVE  w \in Strings /\ (AsIs(s, i, w) \/ Ascii(w)) /\ (ascii => Ascii(w))
<1>1. CASE AsIs(s, i, w) /\ (ascii => Char(s, i).cp < 128)
  <2>1. w \in Strings /\ (Char(s, i).cp < 128 => Ascii(w))
    BY <1>1, KeptIs DEF Ascii
  <2> QED
    BY <1>1, <2>1
<1>2. CASE Short(s, i, w)
  BY <1>2, ShortIs DEF Ascii
<1>3. CASE Long(s, i, w)
  BY <1>3, LongIs DEF Ascii
<1>4. CASE Twin(s, i, w)
  BY <1>4, TwinIs DEF Ascii
<1> QED
  BY <1>1, <1>2, <1>3, <1>4 DEF PieceOf

LEMMA PieceReadable ==
    ASSUME NEW s \in Strings, NEW i \in 1 .. Len(s), ValidChar(s, i), NEW ascii, NEW w, PieceOf(s, i, ascii, w),
           NEW d \in Strings, NEW from, Readable(d, from), NEW q \in Int, Stands(w, d, q), q + Len(w) \in from
    PROVE  q \in from
<1>1. w \in Strings /\ (AsIs(s, i, w) \/ Ascii(w))
  BY PieceTyped
<1>2. CASE AsIs(s, i, w)
  <2> DEFINE n == Char(s, i).len
  <2>1. Len(w) = n /\ \A k \in 1 .. Len(w) : w[k] = s[i + k - 1]
    BY <1>2, KeptIs
  <2>2. n \in 1 .. 4
    BY CharShape DEF Shape
  <2>3. n = Char(s, i).len
    OBVIOUS
  <2>4. Len(d) \in Int
    BY Bytes
  <2> HIDE DEF n
  <2>5. q >= 1 /\ q + n - 1 <= Len(d) /\ \A k \in 1 .. n : d[q + k - 1] = s[i + k - 1]
    BY <2>1 DEF Stands
  <2>6. n \in Int /\ 1 <= n
    BY <2>2
  <2>7. q \in 1 .. Len(d)
    BY <2>4, <2>5, <2>6
  <2>8. \A k \in 0 .. n - 1 : d[q + k] = s[i + k]
    <3> TAKE k \in 0 .. n - 1
    <3>1. PICK m \in 1 .. n : m = k + 1
      BY <2>6
    <3>2. q + m - 1 = q + k /\ i + m - 1 = i + k
      BY <3>1
    <3> QED
      BY <2>5, <3>2, Zenon
  <2>9. SameBytes(s, i, d, q, n)
    BY <2>5, <2>8 DEF SameBytes
  <2>10. Char(d, q) = Char(s, i) /\ ValidChar(d, q)
    BY <2>3, <2>7, <2>9, CharLocal
  <2>11. q + Char(d, q).len \in from
    BY <2>1, <2>3, <2>10, Zenon
  <2> QED
    BY <2>7, <2>10, <2>11 DEF Readable
<1>3. CASE Ascii(w)
  BY <1>1, <1>3, AsciiReadable DEF Ascii
<1> QED
  BY <1>1, <1>2, <1>3

LEMMA PieceEnd ==
    ASSUME NEW s \in Strings, NEW i \in 1 .. Len(s), ValidChar(s, i), NEW ascii, NEW w, PieceOf(s, i, ascii, w),
           NEW b \in Seq(Int), NEW a \in Int, NEW end, EndOf(b, a, end), NEW q \in Int, a <= q, Stands(w, b, q)
    PROVE  end[q] = end[q + Len(w)]
<1>1. w \in Strings /\ w \in Seq(Int)
  BY PieceTyped, StringsAreInts
<1>2. Len(b) \in Int /\ Len(w) \in Int
  BY <1>1
<1>3. q + Len(w) - 1 <= Len(b)
  BY DEF Stands
<1>4. CASE AsIs(s, i, w)
  <2>1. Itself(w)
    BY <1>4, KeptIs DEF Itself
  <2> QED
    BY <1>1, <2>1, KeptEnd
<1>5. CASE Short(s, i, w)
  <2>1. b[q] = 92 /\ Lex!UnitLength(b, q) = 2
    BY <1>5, ShortIs
  <2>2. Len(w) = 2
    BY <1>5, ShortIs
  <2>3. Open(b, q, 2)
    BY <2>1 DEF Open
  <2>4. q \in a .. Len(b)
    BY <1>2, <1>3, <2>2
  <2>5. end[q] = end[q + 2]
    <3>1. Agree(end, q, q + 2)
      BY <2>3, <2>4, EndStep, Zenon
    <3> QED
      BY <3>1, Zenon DEF Agree
  <2> QED
    BY <2>2, <2>5
<1>6. CASE Long(s, i, w)
  <2>1. b[q] = 92 /\ Lex!UnitLength(b, q) = 6
    BY <1>6, LongIs
  <2>2. Len(w) >= 6 /\ Len(w) <= 6
    BY <1>6, LongIs
  <2>3. Open(b, q, 6)
    BY <2>1 DEF Open
  <2>4. q \in a .. Len(b) /\ q + Len(w) = q + 6
    BY <1>2, <1>3, <2>2
  <2>5. end[q] = end[q + 6]
    <3>1. Agree(end, q, q + 6)
      BY <2>3, <2>4, EndStep, Zenon
    <3> QED
      BY <3>1, Zenon DEF Agree
  <2> QED
    BY <2>4, <2>5, Zenon
<1>7. CASE Twin(s, i, w)
  <2>1. b[q] = 92 /\ Lex!UnitLength(b, q) = 6 /\ b[q + 6] = 92 /\ Lex!UnitLength(b, q + 6) = 6
    BY <1>7, TwinIs
  <2>2. Len(w) >= 12 /\ Len(w) <= 12
    BY <1>7, TwinIs
  <2>3. Open(b, q, 6) /\ Open(b, q + 6, 6)
    BY <2>1 DEF Open
  <2>4. q \in a .. Len(b) /\ q + 6 \in a .. Len(b) /\ q + Len(w) = (q + 6) + 6
    BY <1>2, <1>3, <2>2
  <2>5. end[q] = end[q + 6]
    <3>1. Agree(end, q, q + 6)
      BY <2>3, <2>4, EndStep, Zenon
    <3> QED
      BY <3>1, Zenon DEF Agree
  <2>6. end[q + 6] = end[(q + 6) + 6]
    <3>1. Agree(end, q + 6, (q + 6) + 6)
      BY <2>3, <2>4, EndStep, Zenon
    <3> QED
      BY <3>1, Zenon DEF Agree
  <2> QED
    BY <2>4, <2>5, <2>6, Zenon
<1> QED
  BY <1>4, <1>5, <1>6, <1>7 DEF PieceOf

LEMMA NotEmpty ==
    ASSUME NEW x, Len(x) > 0
    PROVE  x # <<>>
<1>1. Len(<<>>) = 0 /\ ~(0 > 0)
  OBVIOUS
<1> QED
  BY <1>1, Zenon

LEMMA PieceDecode ==
    ASSUME NEW s \in Strings, NEW i \in 1 .. Len(s), ValidChar(s, i), NEW ascii, NEW w, PieceOf(s, i, ascii, w),
           NEW b \in Seq(Int), NEW a \in Int, NEW e \in Int, NEW dec, DecodeOf(b, a, e, dec),
           NEW q \in Int, a <= q, Stands(w, b, q), q + Len(w) <= e,
           NEW u \in Seq(Int), Reads(dec[q + Len(w)], u)
    PROVE  Reads(dec[q], SubSeq(s, i, i + Char(s, i).len - 1) \o u)
<1> DEFINE t == SubSeq(s, i, i + Char(s, i).len - 1)
<1>1. w \in Strings /\ w \in Seq(Int)
  BY PieceTyped, StringsAreInts
<1>2. Len(w) \in Int
  BY <1>1
<1>3. t \in Seq(Int) /\ t # <<>>
  <2>1. Char(s, i).len \in 1 .. 4 /\ i + Char(s, i).len - 1 <= Len(s)
    BY CharShape DEF Shape
  <2>2. s \in Seq(Int)
    BY StringsAreInts
  <2> DEFINE j == i + Char(s, i).len - 1
  <2>3. j \in Int /\ i <= j /\ j <= Len(s)
    BY <2>1
  <2> HIDE DEF j
  <2>4. SubSeq(s, i, j) \in Seq(Int) /\ SubSeq(s, i, j) # <<>>
    <3>1. SubSeq(s, i, j) \in Seq(Int)
      BY <2>2, <2>3, SMTT(30)
    <3>2. Len(SubSeq(s, i, j)) = j - i + 1
      BY <2>2, <2>3, SMTT(30)
    <3>3. Len(SubSeq(s, i, j)) > 0
      <4>1. j - i + 1 > 0
        BY <2>3
      <4> QED
        BY <3>2, <4>1, Zenon
    <3>4. SubSeq(s, i, j) # <<>>
      BY <3>3, NotEmpty, Zenon
    <3> QED
      BY <3>1, <3>4
  <2> QED
    BY <2>4 DEF j
<1>4. t = SubSeq(s, i, i + Char(s, i).len - 1)
  OBVIOUS
<1> HIDE DEF t
<1>5. CASE AsIs(s, i, w)
  <2>1. Itself(w) /\ w = t
    <3>1. Itself(w)
      BY <1>5, KeptIs DEF Itself
    <3>2. w = t
      BY <1>4, <1>5 DEF AsIs
    <3> QED
      BY <3>1, <3>2
  <2>2. Reads(dec[q], w \o u)
    BY <1>1, <2>1, KeptDecode
  <2> QED
    BY <1>4, <2>1, <2>2
<1>6. CASE ~AsIs(s, i, w)
  <2>1. PICK n \in Int : UnitIs(b, q, t, n) /\ Len(w) >= n /\ Len(w) <= n /\ n > 0
    <3>1. CASE Short(s, i, w)
      <4>1. UnitIs(b, q, t, 2)
        BY <1>4, <3>1, ShortIs
      <4>2. Len(w) = 2
        BY <3>1, ShortIs
      <4> QED
        BY <1>2, <4>1, <4>2
    <3>2. CASE Long(s, i, w)
      <4>1. UnitIs(b, q, t, 6)
        BY <1>4, <3>2, LongIs
      <4>2. Len(w) >= 6 /\ Len(w) <= 6
        BY <3>2, LongIs
      <4> QED
        BY <4>1, <4>2
    <3>3. CASE Twin(s, i, w)
      <4>1. UnitIs(b, q, t, 12)
        BY <1>4, <3>3, TwinIs
      <4>2. Len(w) >= 12 /\ Len(w) <= 12
        BY <3>3, TwinIs
      <4> QED
        BY <4>1, <4>2
    <3> QED
      BY <1>6, <3>1, <3>2, <3>3 DEF PieceOf
  <2>2. q + Len(w) = q + n /\ q < e
    BY <1>2, <2>1
  <2>3. Reads(dec[q + n], u)
    BY <2>2, Zenon
  <2>4. Reads(dec[q], t \o u)
    BY <1>3, <2>1, <2>2, <2>3, DecodeStep
  <2> QED
    BY <1>4, <2>4
<1> QED
  BY <1>5, <1>6

LEMMA StringsCat ==
    ASSUME NEW w \in Strings, NEW u \in Strings
    PROVE  w \o u \in Strings /\ Len(w \o u) = Len(w) + Len(u)
  BY DEF Strings

\* What dump_string writes, place by place.
TextOf(s, ascii, text) ==
    /\ \A i \in 1 .. Len(s) + 1 : text[i] \in Strings
    /\ text[Len(s) + 1] = <<>>
    /\ \A i \in 1 .. Len(s) : ValidChar(s, i) => text[i] = Lex!Written(s, i, ascii) \o text[i + Char(s, i).len]

LEMMA DumpIs ==
    ASSUME NEW s \in Strings, NEW ascii \in BOOLEAN
    PROVE  \E text : /\ TextOf(s, ascii, text)
                     /\ Lex!dump_string(s, ascii) =
                            IF Lex!utf8_check_string(s) THEN <<34>> \o text[1] \o <<34>> ELSE <<>>
<1> DEFINE D == 1 .. Len(s) + 1
           step(f) == [i \in D |->
                          IF i = Len(s) + 1 \/ Lex!utf8_iterate(s, i).cp = -1 THEN <<>>
                          ELSE Lex!Written(s, i, ascii) \o f[i + Lex!utf8_iterate(s, i).len]]
           text == CHOOSE f : f = step(f)
           More(i) == i # Len(s) + 1 /\ ValidChar(s, i)
           W(i) == Lex!Written(s, i, ascii)
           F == [p \in D \X Strings |-> IF More(p[1]) THEN W(p[1]) \o p[2] ELSE <<>>]
           jump == [i \in D |-> IF More(i) THEN Char(s, i).len ELSE 1]
<1>1. Len(s) \in Nat
  BY Bytes
<1>2. ASSUME NEW i \in D, More(i)
      PROVE  /\ i \in 1 .. Len(s) /\ Char(s, i).len \in 1 .. 4 /\ i + Char(s, i).len \in D
             /\ W(i) \in Strings
  <2>1. i \in 1 .. Len(s) /\ ValidChar(s, i)
    BY <1>1, <1>2
  <2>2. Char(s, i).len \in 1 .. 4 /\ i + Char(s, i).len - 1 <= Len(s)
    BY <2>1, CharShape DEF Shape
  <2>3. W(i) \in Strings
    BY <2>1, PieceIs, PieceTyped
  <2> HIDE DEF W
  <2> QED
    BY <1>1, <2>1, <2>2, <2>3
<1>3. <<>> \in Strings
  BY DEF Strings
<1> HIDE DEF More
<1>5. \E g : Backward(g, D, Strings, <<>>, F, jump)
  <2>1. F \in [D \X Strings -> Strings]
    <3>1. ASSUME NEW p \in D \X Strings
          PROVE  (IF More(p[1]) THEN W(p[1]) \o p[2] ELSE <<>>) \in Strings
      <4>1. p[1] \in D /\ p[2] \in Strings
        OBVIOUS
      <4>2. CASE More(p[1])
        <5>1. W(p[1]) \in Strings
          BY <1>2, <4>1, <4>2
        <5> HIDE DEF W
        <5>2. W(p[1]) \o p[2] \in Strings
          BY <4>1, <5>1, StringsCat
        <5> QED
          BY <4>2, <5>2
      <4>3. CASE ~More(p[1])
        BY <1>3, <4>3
      <4> QED
        BY <4>2, <4>3
    <3> QED
      BY <3>1
  <2>2. jump \in [D -> Nat \ {0}]
    BY <1>2
  <2>3. 1 \in Int /\ Len(s) + 1 \in Int
    BY <1>1
  <2> HIDE DEF F, jump
  <2> QED
    BY <1>3, <2>1, <2>2, <2>3, Recursion, Zenon
<1>6. PICK g : Backward(g, D, Strings, <<>>, F, jump)
  BY <1>5, Zenon
<1>7. g \in [D -> Strings] /\ \A i \in D : g[i] = F[<<i, IF i + jump[i] \in D THEN g[i + jump[i]] ELSE <<>>>>]
  BY <1>6, Zenon DEF Backward
<1>8. ASSUME NEW i \in D PROVE g[i] = IF More(i) THEN W(i) \o g[i + Char(s, i).len] ELSE <<>>
  <2> DEFINE u == IF i + jump[i] \in D THEN g[i + jump[i]] ELSE <<>>
  <2>1. u \in Strings
    <3> HIDE DEF jump
    <3> QED
      BY <1>3, <1>7
  <2>2. g[i] = F[<<i, u>>]
    BY <1>7, Zenon
  <2>3. jump[i] = IF More(i) THEN Char(s, i).len ELSE 1
    OBVIOUS
  <2>4. More(i) => u = g[i + Char(s, i).len]
    <3> HIDE DEF jump
    <3> QED
      BY <1>2, <2>3
  <2> HIDE DEF u
  <2>5. F[<<i, u>>] = IF More(i) THEN W(i) \o u ELSE <<>>
    <3> HIDE DEF W
    <3> QED
      BY <2>1
  <2> HIDE DEF F, jump, W
  <2> QED
    BY <2>2, <2>4, <2>5, Zenon
<1>9. \A f, i : i \in D => step(f)[i] = IF More(i) THEN W(i) \o f[i + Char(s, i).len] ELSE <<>>
  BY DEF More, ValidChar, Char
<1>10. g = step(g)
  <2>1. step(g) = [i \in D |-> step(g)[i]]
    OBVIOUS
  <2>2. g = [i \in D |-> g[i]]
    BY <1>7
  <2> HIDE DEF step, W
  <2>3. \A i \in D : g[i] = step(g)[i]
    BY <1>8, <1>9, Zenon
  <2> QED
    BY <2>1, <2>2, <2>3
<1>11. text = step(text)
  <2> HIDE DEF step
  <2> QED
    BY <1>10, Zenon
<1>12. Lex!dump_string(s, ascii) = IF Lex!utf8_check_string(s) THEN <<34>> \o text[1] \o <<34>> ELSE <<>>
  BY DEF Lex!dump_string, Lex!Quote, Lex!NoText
<1> HIDE DEF text
<1>13. \A i \in D : text[i] = IF More(i) THEN W(i) \o text[i + Char(s, i).len] ELSE <<>>
  <2> HIDE DEF step, W
  <2>1. \A i \in D : text[i] = step(text)[i]
    BY <1>11, Zenon
  <2> QED
    BY <1>9, <2>1, Zenon
<1>14. \A i \in D : text[i] \in Strings
  <2> DEFINE S == {i \in D : text[i] \in Strings}
  <2>1. ASSUME NEW i \in D, \A j \in i + 1 .. Len(s) + 1 : j \in S
        PROVE  i \in S
    <3>1. CASE More(i)
      <4>1. W(i) \in Strings
        BY <1>2, <3>1
      <4>2. i + Char(s, i).len \in i + 1 .. Len(s) + 1
        BY <1>2, <3>1
      <4>3. text[i + Char(s, i).len] \in Strings
        BY <2>1, <4>2
      <4> HIDE DEF W
      <4>4. W(i) \o text[i + Char(s, i).len] \in Strings
        BY <4>1, <4>3, StringsCat
      <4> QED
        BY <1>13, <3>1, <4>4
    <3>2. CASE ~More(i)
      <4> HIDE DEF W
      <4> QED
        BY <1>3, <1>13, <3>2
    <3> QED
      BY <3>1, <3>2
  <2>2. \A i \in 1 .. Len(s) + 1 : (\A j \in i + 1 .. Len(s) + 1 : j \in S) => i \in S
    BY <2>1
  <2>3. 1 \in Int /\ Len(s) + 1 \in Int
    BY <1>1
  <2> HIDE DEF S
  <2>4. \A i \in 1 .. Len(s) + 1 : i \in S
    BY <2>2, <2>3, FromEnd, Zenon
  <2> QED
    BY <2>4 DEF S
<1>15. TextOf(s, ascii, text)
  <2>1. text[Len(s) + 1] = <<>>
    <3>1. Len(s) + 1 \in D /\ ~More(Len(s) + 1)
      BY <1>1 DEF More
    <3> HIDE DEF W
    <3> QED
      BY <1>13, <3>1
  <2>2. ASSUME NEW i \in 1 .. Len(s), ValidChar(s, i)
        PROVE  text[i] = Lex!Written(s, i, ascii) \o text[i + Char(s, i).len]
    <3>1. i \in D /\ More(i)
      BY <1>1, <2>2 DEF More
    <3> QED
      BY <1>13, <3>1, Zenon
  <2> QED
    BY <1>14, <2>1, <2>2, Zenon DEF TextOf
<1> QED
  BY <1>12, <1>15, Zenon

\* No byte and no escape goes past the end of a stream.
LEMMA UnitInside ==
    ASSUME NEW b \in Seq(Int), b[Len(b)] = -1, NEW j \in 1 .. Len(b)
    PROVE  /\ Lex!UnitLength(b, j) \in {0, 1, 2, 6}
           /\ Lex!UnitLength(b, j) # 0 => j + Lex!UnitLength(b, j) <= Len(b)
<1> DEFINE n == Len(b)
           escape == Lex!IsEscape(b, j, 117)
           hex == \A d \in 2 .. 5 : b[j + d] \in Lex!HexDigit
           short == b[j] = 92 /\ b[j + 1] \in {34, 92, 47} \cup DOMAIN Lex!Escape
           plain == b[j] > 31 /\ b[j] # 92
<1>1. n \in Int /\ 1 <= n /\ j <= n /\ b[n] = -1
  OBVIOUS
<1>2. Lex!UnitLength(b, j) = IF escape THEN (IF hex THEN 6 ELSE 0)
                             ELSE IF short THEN 2 ELSE IF plain THEN 1 ELSE 0
  <2>1. Lex!UnitLength(b, j) = CASE escape -> IF hex THEN 6 ELSE 0
                                 [] short -> 2
                                 [] plain -> 1
                                 [] OTHER -> 0
    BY Zenon DEF Lex!UnitLength, Lex!Backslash, Lex!Quote, Lex!Slash
  <2>2. escape => b[j] = 92 /\ b[j + 1] = 117
    BY DEF Lex!IsEscape, Lex!Backslash
  <2>3. ~(escape /\ short) /\ ~(escape /\ plain) /\ ~(short /\ plain)
    <3>1. 117 \notin {34, 92, 47} \cup DOMAIN Lex!Escape
      BY EscapeValues
    <3>2. escape => ~short
      BY <2>2, <3>1, Zenon
    <3>3. plain => ~short
      OBVIOUS
    <3>4. escape => ~plain
      BY <2>2, Zenon
    <3> QED
      BY <3>2, <3>3, <3>4
  <2> HIDE DEF escape, hex, short, plain
  <2> QED
    BY <2>1, <2>3
<1>3. escape => j + 2 <= n
  <2>1. escape => b[j] = 92 /\ b[j + 1] = 117
    BY DEF Lex!IsEscape, Lex!Backslash
  <2> HIDE DEF escape
  <2>2. SUFFICES ASSUME escape PROVE j + 2 <= n
    OBVIOUS
  <2>3. j # n
    BY <1>1, <2>1, <2>2
  <2>4. j + 1 # n
    BY <1>1, <2>1, <2>2
  <2> QED
    BY <1>1, <2>3, <2>4
<1>4. short => j + 2 <= n
  <2> SUFFICES ASSUME short PROVE j + 2 <= n
    OBVIOUS
  <2>1. j # n
    BY <1>1
  <2>2. b[j + 1] # -1
    <3>1. b[j + 1] \in {34, 92, 47} \cup {98, 102, 110, 114, 116}
      BY EscapeValues, Zenon
    <3> QED
      BY <3>1
  <2>3. j + 1 # n
    BY <1>1, <2>2
  <2> QED
    BY <1>1, <2>1, <2>3
<1>5. plain => j + 1 <= n
  <2> SUFFICES ASSUME plain PROVE j + 1 <= n
    OBVIOUS
  <2>1. j # n
    BY <1>1
  <2> QED
    BY <1>1, <2>1
<1>6. escape /\ hex => j + 6 <= n
  <2> SUFFICES ASSUME escape, hex PROVE j + 6 <= n
    OBVIOUS
  <2>1. \A d \in 2 .. 5 : b[j + d] # -1
    <3>1. -1 \notin Lex!HexDigit
      BY DEF Lex!HexDigit, Lex!Digit
    <3> QED
      BY <3>1
  <2>2. \A d \in 2 .. 5 : j + d # n
    BY <1>1, <2>1
  <2> HIDE DEF escape, hex, n
  <2>3. j + 2 # n /\ j + 3 # n /\ j + 4 # n /\ j + 5 # n
    BY <2>2
  <2> QED
    BY <1>1, <1>3, <2>3
<1> HIDE DEF escape, hex, short, plain, n
<1>7. CASE escape /\ hex
  BY <1>2, <1>6, <1>7 DEF n
<1>8. CASE escape /\ ~hex
  BY <1>2, <1>8
<1>9. CASE ~escape /\ short
  BY <1>2, <1>4, <1>9 DEF n
<1>10. CASE ~escape /\ ~short /\ plain
  BY <1>2, <1>5, <1>10 DEF n
<1>11. CASE ~escape /\ ~short /\ ~plain
  BY <1>2, <1>11
<1> QED
  BY <1>7, <1>8, <1>9, <1>10, <1>11

LEMMA EndIs ==
    ASSUME NEW b \in Seq(Int), b[Len(b)] = -1, NEW i \in 1 .. Len(b)
    PROVE  \E end : EndOf(b, i, end) /\ Lex!StringEnd(b, i) = end[i]
<1> DEFINE D == i .. Len(b)
           U(j) == Lex!UnitLength(b, j)
           step(f) == [j \in D |-> IF b[j] = 34 THEN j ELSE IF U(j) = 0 THEN 0 ELSE f[j + U(j)]]
           end == CHOOSE f : f = step(f)
           More(j) == b[j] # 34 /\ U(j) # 0
           base(j) == IF b[j] = 34 THEN j ELSE 0
           F == [p \in D \X Int |-> IF More(p[1]) THEN p[2] ELSE base(p[1])]
           jump == [j \in D |-> IF More(j) THEN U(j) ELSE 1]
<1>1. Len(b) \in Nat /\ i \in Int /\ 1 <= i
  OBVIOUS
<1>2. ASSUME NEW j \in D, More(j)
      PROVE  U(j) \in Nat \ {0} /\ j + U(j) \in D
  <2>1. j \in 1 .. Len(b)
    BY <1>1
  <2>2. U(j) \in {0, 1, 2, 6} /\ (U(j) # 0 => j + U(j) <= Len(b))
    BY <2>1, UnitInside
  <2>3. U(j) # 0
    BY <1>2
  <2> HIDE DEF U
  <2> DEFINE u == U(j)
             n == Len(b)
  <2>4. u \in {1, 2, 6} /\ j + u <= n /\ n \in Nat /\ j \in i .. n /\ i \in Int
    BY <1>1, <2>2, <2>3
  <2> HIDE DEF u, n
  <2>5. u \in Nat \ {0} /\ j + u \in i .. n
    BY <2>4
  <2> QED
    BY <2>5 DEF u, n
<1>3. \A j \in D : base(j) \in Int
  OBVIOUS
<1>4. \A f : \A j \in D : step(f)[j] = IF More(j) THEN f[j + U(j)] ELSE base(j)
  <2> HIDE DEF U
  <2> QED
    OBVIOUS
<1> HIDE DEF More, U, base
<1>5. \E g : Backward(g, D, Int, 0, F, jump)
  <2>1. F \in [D \X Int -> Int]
    BY <1>3
  <2>2. jump \in [D -> Nat \ {0}]
    BY <1>2
  <2>3. i \in Int /\ Len(b) \in Int /\ 0 \in Int
    BY <1>1
  <2> HIDE DEF F, jump
  <2> QED
    BY <2>1, <2>2, <2>3, Recursion, Zenon
<1>6. PICK g : Backward(g, D, Int, 0, F, jump)
  BY <1>5, Zenon
<1>7. g \in [D -> Int] /\ \A j \in D : g[j] = F[<<j, IF j + jump[j] \in D THEN g[j + jump[j]] ELSE 0>>]
  BY <1>6, Zenon DEF Backward
<1>8. ASSUME NEW j \in D PROVE g[j] = IF More(j) THEN g[j + U(j)] ELSE base(j)
  <2> DEFINE u == IF j + jump[j] \in D THEN g[j + jump[j]] ELSE 0
  <2>1. u \in Int
    <3> HIDE DEF jump
    <3> QED
      BY <1>7
  <2>2. g[j] = F[<<j, u>>]
    BY <1>7, Zenon
  <2>3. jump[j] = IF More(j) THEN U(j) ELSE 1
    OBVIOUS
  <2>4. More(j) => u = g[j + U(j)]
    <3> HIDE DEF jump
    <3> QED
      BY <1>2, <2>3
  <2> HIDE DEF u
  <2>5. F[<<j, u>>] = IF More(j) THEN u ELSE base(j)
    BY <2>1
  <2> HIDE DEF F, jump
  <2> QED
    BY <2>2, <2>4, <2>5, Zenon
<1>9. g = step(g)
  <2>1. step(g) = [j \in D |-> step(g)[j]]
    OBVIOUS
  <2>2. g = [j \in D |-> g[j]]
    BY <1>7
  <2> HIDE DEF step
  <2>3. \A j \in D : g[j] = step(g)[j]
    BY <1>4, <1>8, Zenon
  <2> QED
    BY <2>1, <2>2, <2>3
<1>10. end = step(end)
  <2> HIDE DEF step
  <2> QED
    BY <1>9, Zenon
<1>11. Lex!StringEnd(b, i) = end[i]
  BY DEF Lex!StringEnd, Lex!Quote, U
<1> HIDE DEF end
<1>12. EndOf(b, i, end)
  <2>1. \A j \in D : end[j] = IF b[j] = 34 THEN j ELSE IF U(j) = 0 THEN 0 ELSE end[j + U(j)]
    <3>1. \A f : \A j \in D : step(f)[j] = IF b[j] = 34 THEN j ELSE IF U(j) = 0 THEN 0 ELSE f[j + U(j)]
      OBVIOUS
    <3> HIDE DEF step
    <3>2. end = step(end)
      BY <1>10, Zenon
    <3> TAKE j \in D
    <3>3. step(end)[j] = IF b[j] = 34 THEN j ELSE IF U(j) = 0 THEN 0 ELSE end[j + U(j)]
      BY <3>1
    <3> QED
      BY <3>2, <3>3, Zenon
  <2> QED
    BY <2>1 DEF EndOf, U
<1> QED
  BY <1>11, <1>12, Zenon

\* What the decoder makes of the bytes, place by place; an escape of two may
\* reach behind the closing quote.
LEMMA DecodeIs ==
    ASSUME NEW b, NEW i \in Int, Lex!StringEnd(b, i) \in Int
    PROVE  LET e == Lex!StringEnd(b, i)
           IN  \E dec : /\ DecodeOf(b, i, e, dec)
                        /\ Lex!lex_scan_string(b, i) =
                               IF e = 0 \/ ~dec[i].ok THEN Lex!Bad ELSE Lex!Token("string", dec[i].text, e + 1)
<1> DEFINE e == Lex!StringEnd(b, i)
           n == e + 11
           D == i .. n
           V(f, j) == IF j >= e THEN Done ELSE Onward(b, j, f)
           step(f) == [j \in D |-> V(f, j)]
           dec == CHOOSE f : f = step(f)
           Fits(g, k) == g = [j \in D |-> g[j]] /\ \A j \in D : n - j < k => g[j] = V(g, j)
           Ok == {k \in Nat : \E g : Fits(g, k)}
<1>9. Lex!lex_scan_string(b, i) = IF e = 0 \/ ~dec[i].ok THEN Lex!Bad ELSE Lex!Token("string", dec[i].text, e + 1)
  BY Zenon DEF Lex!lex_scan_string, V, Onward, Done
<1>1. n \in Int /\ e \in Int /\ n = e + 11
  OBVIOUS
<1> SUFFICES \E f : DecodeOf(b, i, e, f) /\ f = dec
  BY <1>9, Zenon
<1> HIDE DEF e, n
<1>2. ASSUME NEW j \in D, ~(j >= e)
      PROVE  Lex!Unit(b, j).len \in Nat \ {0} /\ j + Lex!Unit(b, j).len \in D
  <2>1. Lex!Unit(b, j).len \in {1, 2, 6, 12}
    BY DEF Lex!Unit
  <2> DEFINE m == Lex!Unit(b, j).len
  <2> HIDE DEF m
  <2>2. m \in {1, 2, 6, 12}
    BY <2>1 DEF m
  <2>3. m \in Nat \ {0} /\ j + m \in D
    BY <1>1, <1>2, <2>2
  <2> QED
    BY <2>3 DEF m
<1>3. ASSUME NEW g, NEW h, NEW j \in D,
             ~(j >= e) => g[j + Lex!Unit(b, j).len] = h[j + Lex!Unit(b, j).len]
      PROVE  V(g, j) = V(h, j)
  BY <1>3, Zenon DEF Onward
<1> HIDE DEF V
<1>4. 0 \in Ok
  <2> DEFINE g == [j \in D |-> Done]
  <2>1. g = [j \in D |-> g[j]]
    OBVIOUS
  <2>2. \A j \in D : ~(n - j < 0)
    BY <1>1
  <2> HIDE DEF g
  <2>3. Fits(g, 0)
    BY <2>1, <2>2
  <2> HIDE DEF Fits
  <2> QED
    BY <2>3
<1>5. ASSUME NEW k \in Nat, k \in Ok PROVE k + 1 \in Ok
  <2>1. PICK g : Fits(g, k)
    BY <1>5
  <2> DEFINE h == [j \in D |-> IF n - j = k THEN V(g, j) ELSE g[j]]
  <2>2. h = [j \in D |-> h[j]]
    OBVIOUS
  <2>3. \A j \in D : h[j] = IF n - j = k THEN V(g, j) ELSE g[j]
    OBVIOUS
  <2> HIDE DEF h
  <2>4. ASSUME NEW j \in D, n - j < k + 1 PROVE h[j] = V(h, j)
    <3>1. V(g, j) = V(h, j)
      <4>1. ASSUME ~(j >= e)
            PROVE  g[j + Lex!Unit(b, j).len] = h[j + Lex!Unit(b, j).len]
        <5> DEFINE m == j + Lex!Unit(b, j).len
        <5>1. m \in D /\ m > j
          BY <1>2, <4>1
        <5> HIDE DEF m
        <5>2. n - m # k
          BY <1>1, <2>4, <5>1
        <5>3. g[m] = h[m]
          BY <2>3, <5>1, <5>2
        <5> QED
          BY <5>3 DEF m
      <4> QED
        BY <1>3, <4>1
    <3>2. CASE n - j = k
      BY <2>3, <3>1, <3>2
    <3>3. CASE n - j # k
      <4>1. n - j < k
        BY <1>1, <2>4, <3>3
      <4>2. g[j] = V(g, j)
        BY <2>1, <4>1
      <4> QED
        BY <2>3, <3>1, <3>3, <4>2
    <3> QED
      BY <3>2, <3>3
  <2>5. Fits(h, k + 1)
    BY <2>2, <2>4
  <2> HIDE DEF Fits
  <2> QED
    BY <2>5
<1>6. \A k \in Nat : k \in Ok
  <2> HIDE DEF Ok
  <2> QED
    BY <1>4, <1>5, Induction
<1>7. \E g : g = step(g)
  <2>1. PICK k \in Nat : \A j \in D : n - j < k
    <3>1. CASE n < i
      BY <1>1, <3>1
    <3>2. CASE ~(n < i)
      <4> DEFINE m == n - i + 1
      <4>1. m \in Nat /\ \A j \in D : n - j < m
        BY <1>1, <3>2
      <4> HIDE DEF m
      <4> QED
        BY <4>1
    <3> QED
      BY <3>1, <3>2
  <2>2. PICK g : Fits(g, k)
    <3>1. k \in Ok
      <4> HIDE DEF Ok
      <4> QED
        BY <1>6
    <3> QED
      BY <3>1
  <2>3. g = [j \in D |-> g[j]] /\ \A j \in D : g[j] = V(g, j)
    BY <2>1, <2>2
  <2>4. g = step(g)
    BY <2>3
  <2> QED
    BY <2>4
<1>8. dec = step(dec)
  <2> HIDE DEF step
  <2> QED
    BY <1>7, Zenon
<1> HIDE DEF dec
<1>10. DecodeOf(b, i, e, dec)
  <2>1. \A f : \A j \in D : step(f)[j] = V(f, j)
    OBVIOUS
  <2>2. \A j \in D : dec[j] = V(dec, j)
    <3> HIDE DEF step
    <3> QED
      BY <1>8, <2>1, Zenon
  <2> QED
    BY <2>2, Zenon DEF DecodeOf, V, n
<1> QED
  BY <1>10, Zenon

LEMMA SubSeqTyped ==
    ASSUME NEW d \in Seq(Int), NEW i \in Int, NEW j \in Int, 1 <= i, j <= Len(d)
    PROVE  SubSeq(d, i, j) \in Seq(Int)
  OBVIOUS

LEMMA SplitAt ==
    ASSUME NEW d \in Seq(Int), NEW i \in Int, NEW m \in Int, 1 <= i, i < m, m - 1 <= Len(d), NEW u \in Seq(Int)
    PROVE  SubSeq(d, i, m - 1) \o (SubSeq(d, m, Len(d)) \o u) = SubSeq(d, i, Len(d)) \o u
<1> DEFINE n == Len(d)
           x == SubSeq(d, i, m - 1)
           y == SubSeq(d, m, n)
<1>1. n \in Int
  OBVIOUS
<1> HIDE DEF n
<1>2. i \in 1 .. n + 1 /\ m - 1 \in i - 1 .. n /\ n \in m - 1 .. n /\ (m - 1) + 1 = m
  BY <1>1 DEF n
<1>3. SubSeq(d, i, m - 1) \o SubSeq(d, (m - 1) + 1, n) = SubSeq(d, i, n)
  BY <1>2, ConcatAdjacentSubSeq, Zenon DEF n
<1>4. x \o y = SubSeq(d, i, n)
  BY <1>2, <1>3, Zenon
<1>5. x \in Seq(Int) /\ y \in Seq(Int)
  <2>1. m - 1 \in Int /\ m - 1 <= n /\ 1 <= m /\ n <= n
    BY <1>1, <1>2
  <2> QED
    BY <1>1, <2>1, SubSeqTyped, Zenon DEF n
<1> HIDE DEF x, y
<1>6. x \o (y \o u) = (x \o y) \o u
  BY <1>5, CatCat, ZenonT(60)
<1>7. x \o (y \o u) = SubSeq(d, i, n) \o u
  BY <1>4, <1>6, Zenon
<1> QED
  BY <1>7, Zenon DEF x, y, n

\* A text of characters is read to its end, byte for byte.
Received(result, t) == result = [bytes |-> t, eof |-> TRUE]

LEMMA StreamIs ==
    ASSUME NEW d \in Strings, Lex!utf8_check_string(d)
    PROVE  Received(Lex!Stream(d), d \o <<-1>>)
<1> DEFINE n == Len(d)
           D == 1 .. n + 1
           Broken(i) == [bytes |-> <<-1>>, eof |-> i + Char(d, i).len > n \/ (Char(d, i).len = 0 /\ i = n)]
           Together(f, i) == [bytes |-> SubSeq(d, i, i + Char(d, i).len - 1) \o f[i + Char(d, i).len].bytes,
                           eof |-> f[i + Char(d, i).len].eof]
           V(f, i) == IF i > n THEN [bytes |-> <<-1>>, eof |-> TRUE]
                      ELSE IF ValidChar(d, i) THEN Together(f, i) ELSE Broken(i)
           step(f) == [i \in D |-> V(f, i)]
           from == CHOOSE f : f = step(f)
           Fits(g, k) == g = [i \in D |-> g[i]] /\ \A i \in D : n + 1 - i < k => g[i] = V(g, i)
           Ok == {k \in Nat : \E g : Fits(g, k)}
<1>1. Lex!Stream(d) = from[1]
  BY Zenon DEF Lex!Stream, Lex!Eof, Char, ValidChar
<1>2. n \in Nat /\ n = Len(d)
  BY Bytes
<1> HIDE DEF n
<1>3. ASSUME NEW i \in D, ~(i > n), ValidChar(d, i)
      PROVE  /\ i \in 1 .. Len(d) /\ i + Char(d, i).len - 1 <= n /\ Char(d, i).len \in 1 .. 4
             /\ i + Char(d, i).len \in D /\ i + Char(d, i).len > i
  <2>1. i \in 1 .. Len(d)
    BY <1>2, <1>3
  <2>2. Char(d, i).len \in 1 .. 4 /\ i + Char(d, i).len - 1 <= n
    BY <1>2, <1>3, <2>1, CharShape DEF Shape
  <2> QED
    BY <1>2, <2>1, <2>2
<1>4. ASSUME NEW g, NEW h, NEW i \in D,
             ~(i > n) /\ ValidChar(d, i) => g[i + Char(d, i).len] = h[i + Char(d, i).len]
      PROVE  V(g, i) = V(h, i)
  BY <1>4, Zenon
<1> HIDE DEF V
<1>5. 0 \in Ok
  <2> DEFINE g == [i \in D |-> 0]
  <2>1. g = [i \in D |-> g[i]]
    OBVIOUS
  <2>2. \A i \in D : ~(n + 1 - i < 0)
    BY <1>2
  <2> HIDE DEF g
  <2>3. Fits(g, 0)
    BY <2>1, <2>2
  <2> HIDE DEF Fits
  <2> QED
    BY <2>3
<1>6. ASSUME NEW k \in Nat, k \in Ok PROVE k + 1 \in Ok
  <2>1. PICK g : Fits(g, k)
    BY <1>6
  <2> DEFINE h == [i \in D |-> IF n + 1 - i = k THEN V(g, i) ELSE g[i]]
  <2>2. h = [i \in D |-> h[i]]
    OBVIOUS
  <2>3. \A i \in D : h[i] = IF n + 1 - i = k THEN V(g, i) ELSE g[i]
    OBVIOUS
  <2> HIDE DEF h
  <2>4. ASSUME NEW i \in D, n + 1 - i < k + 1 PROVE h[i] = V(h, i)
    <3>1. V(g, i) = V(h, i)
      <4>1. ASSUME ~(i > n), ValidChar(d, i)
            PROVE  g[i + Char(d, i).len] = h[i + Char(d, i).len]
        <5> DEFINE m == i + Char(d, i).len
        <5>1. m \in D /\ m > i
          BY <1>3, <4>1
        <5> HIDE DEF m
        <5>2. n + 1 - m # k
          BY <1>2, <2>4, <5>1
        <5>3. g[m] = h[m]
          BY <2>3, <5>1, <5>2
        <5> QED
          BY <5>3 DEF m
      <4> QED
        BY <1>4, <4>1
    <3>2. CASE n + 1 - i = k
      BY <2>3, <3>1, <3>2
    <3>3. CASE n + 1 - i # k
      <4>1. n + 1 - i < k
        BY <1>2, <2>4, <3>3
      <4>2. g[i] = V(g, i)
        BY <2>1, <4>1
      <4> QED
        BY <2>3, <3>1, <3>3, <4>2
    <3> QED
      BY <3>2, <3>3
  <2>5. Fits(h, k + 1)
    BY <2>2, <2>4
  <2> HIDE DEF Fits
  <2> QED
    BY <2>5
<1>7. \A k \in Nat : k \in Ok
  <2> HIDE DEF Ok
  <2> QED
    BY <1>5, <1>6, Induction
<1>8. \E g : g = step(g)
  <2>1. n + 1 \in Nat /\ \A i \in D : n + 1 - i < n + 1
    BY <1>2
  <2>2. PICK g : Fits(g, n + 1)
    <3>1. n + 1 \in Ok
      <4> HIDE DEF Ok
      <4> QED
        BY <1>7, <2>1
    <3> QED
      BY <3>1
  <2>3. g = [i \in D |-> g[i]] /\ \A i \in D : g[i] = V(g, i)
    BY <2>1, <2>2
  <2> QED
    BY <2>3
<1>9. from = step(from)
  <2> HIDE DEF step
  <2> QED
    BY <1>8, Zenon
<1>10. \A i \in D : from[i] = V(from, i)
  <2>1. \A f : \A i \in D : step(f)[i] = V(f, i)
    OBVIOUS
  <2> HIDE DEF step, from
  <2> QED
    BY <1>9, <2>1, Zenon
<1> HIDE DEF from
<1>11. PICK readable : Readable(d, readable) /\ 1 \in readable
  BY CheckString
<1> DEFINE T(i) == SubSeq(d, i, n) \o <<-1>>
           S == {i \in D : i \in readable => Received(from[i], T(i))}
<1>12. ASSUME NEW i \in D, \A j \in i + 1 .. n + 1 : j \in S
       PROVE  i \in S
  <2>1. CASE i > n
    <3>1. i = n + 1
      BY <1>2, <2>1
    <3>2. Received(from[i], <<-1>>)
      <4>1. from[i] = V(from, i)
        BY <1>10, Zenon
      <4>2. V(from, i) = [bytes |-> <<-1>>, eof |-> TRUE]
        BY <2>1, Zenon DEF V
      <4> QED
        BY <4>1, <4>2, Zenon DEF Received
    <3>3. T(i) = <<-1>>
      <4>1. d \in Seq(Int) /\ <<-1>> \in Seq(Int)
        BY StringsAreInts
      <4>2. SubSeq(d, n + 1, n) \o <<-1>> = <<-1>>
        BY <1>2, <4>1, BytesRest, Zenon
      <4> QED
        BY <3>1, <4>2, Zenon
    <3> HIDE DEF T
    <3> QED
      BY <3>2, <3>3, Zenon
  <2>2. CASE ~(i > n)
    <3> SUFFICES ASSUME i \in readable PROVE Received(from[i], T(i))
      OBVIOUS
    <3> DEFINE m == i + Char(d, i).len
    <3>1. i \in 1 .. Len(d) /\ ValidChar(d, i) /\ m \in readable
      BY <1>2, <1>11, <2>2 DEF Readable
    <3>2. m \in D /\ m > i /\ m - 1 <= n /\ m - 1 = i + Char(d, i).len - 1
      BY <1>3, <2>2, <3>1
    <3>3. from[i] = [bytes |-> SubSeq(d, i, i + Char(d, i).len - 1) \o from[m].bytes, eof |-> from[m].eof]
      BY <1>10, <2>2, <3>1, Zenon DEF V
    <3> HIDE DEF m
    <3>4. m \in S
      BY <1>2, <1>12, <3>2
    <3>5. Received(from[m], T(m))
      BY <3>1, <3>4
    <3>6. from[m].bytes = T(m) /\ from[m].eof = TRUE
      <4> HIDE DEF T
      <4> QED
        BY <3>5 DEF Received
    <3>7. SubSeq(d, i, m - 1) \o T(m) = T(i)
      <4>1. d \in Seq(Int)
        BY StringsAreInts
      <4>2. i \in Int /\ m \in Int /\ 1 <= i /\ i < m /\ m - 1 <= n /\ n = Len(d)
        BY <1>2, <3>1, <3>2
      <4>3. <<-1>> \in Seq(Int)
        OBVIOUS
      <4> QED
        BY <4>1, <4>2, <4>3, SplitAt, Zenon
    <3> HIDE DEF T
    <3> QED
      BY <3>2, <3>3, <3>6, <3>7, Zenon DEF Received
  <2> QED
    BY <2>1, <2>2
<1>13. \A i \in 1 .. n + 1 : (\A j \in i + 1 .. n + 1 : j \in S) => i \in S
  BY <1>12
<1>14. 1 \in Int /\ n + 1 \in Int /\ 1 \in D
  BY <1>2
<1>15. \A i \in 1 .. n + 1 : i \in S
  <2> HIDE DEF S
  <2> QED
    BY <1>13, <1>14, FromEnd, Zenon
<1>16. T(1) = d \o <<-1>>
  <2>1. d \in Seq(Int) /\ <<-1>> \in Seq(Int)
    BY StringsAreInts
  <2> QED
    BY <1>2, <2>1, BytesRest, Zenon
<1> HIDE DEF T
<1> QED
  BY <1>1, <1>11, <1>14, <1>15, <1>16, Zenon

\* A text in two pieces: where the second one begins and ends.
Pieces(w, u, all) ==
    \A q \in Int : /\ q + Len(w) \in Int /\ q <= q + Len(w) /\ (q + Len(w)) + Len(u) = q + Len(all)
                   /\ q + Len(all) \in Int /\ q + Len(w) <= q + Len(all)

LEMMA PiecesIs ==
    ASSUME NEW w \in Seq(Int), NEW u \in Seq(Int)
    PROVE  Pieces(w, u, w \o u)
<1> SUFFICES ASSUME NEW q \in Int
             PROVE  /\ q + Len(w) \in Int /\ q <= q + Len(w) /\ (q + Len(w)) + Len(u) = q + Len(w \o u)
                    /\ q + Len(w \o u) \in Int /\ q + Len(w) <= q + Len(w \o u)
  BY DEF Pieces
<1> DEFINE x == Len(w)
           y == Len(u)
           z == Len(w \o u)
<1>1. x \in Nat /\ y \in Nat /\ z = x + y
  OBVIOUS
<1> HIDE DEF x, y, z
<1>2. q + x \in Int /\ q <= q + x /\ (q + x) + y = q + z /\ q + z \in Int /\ q + x <= q + z
  BY <1>1
<1> QED
  BY <1>2, Zenon DEF x, y, z

\* The text from a character on: what is written for it and the text behind it.
LEMMA TextStep ==
    ASSUME NEW s \in Strings, NEW ascii \in BOOLEAN, NEW source, Readable(s, source), NEW text, TextOf(s, ascii, text),
           NEW i \in 1 .. Len(s), i \in source
    PROVE  LET w == Lex!Written(s, i, ascii)
               m == i + Char(s, i).len
           IN  /\ ValidChar(s, i) /\ PieceOf(s, i, ascii, w) /\ w \in Strings /\ w \in Seq(Int) /\ Len(w) \in Int
               /\ m \in source /\ m \in i + 1 .. Len(s) + 1 /\ m \in Int /\ m - 1 = i + Char(s, i).len - 1
               /\ text[m] \in Strings /\ text[m] \in Seq(Int) /\ Len(text[m]) \in Int
               /\ text[i] = w \o text[m] /\ Pieces(w, text[m], text[i])
<1> DEFINE w == Lex!Written(s, i, ascii)
           m == i + Char(s, i).len
<1>1. ValidChar(s, i) /\ m \in source
  BY DEF Readable
<1>2. PieceOf(s, i, ascii, w)
  BY <1>1, PieceIs
<1> HIDE DEF w
<1>3. w \in Strings
  BY <1>1, <1>2, PieceTyped
<1>4. w \in Seq(Int) /\ Len(w) \in Int
  <2>1. w \in Seq(Int)
    BY <1>3, StringsAreInts
  <2> QED
    BY <2>1
<1>5. m \in i + 1 .. Len(s) + 1 /\ m \in Int /\ m - 1 = i + Char(s, i).len - 1
  <2>1. Char(s, i).len \in 1 .. 4 /\ i + Char(s, i).len - 1 <= Len(s)
    BY <1>1, CharShape DEF Shape
  <2>2. Len(s) \in Int
    BY Bytes
  <2> QED
    BY <2>1, <2>2
<1>6. text[m] \in Strings
  <2>1. m \in 1 .. Len(s) + 1
    BY <1>5
  <2> HIDE DEF m
  <2> QED
    BY <2>1 DEF TextOf
<1>7. text[i] = w \o text[m]
  BY <1>1, Zenon DEF TextOf, w
<1> HIDE DEF m
<1>8. text[m] \in Seq(Int) /\ Len(text[m]) \in Int
  <2>1. text[m] \in Seq(Int)
    BY <1>6, StringsAreInts
  <2> QED
    BY <2>1
<1>9. Pieces(w, text[m], text[i])
  <2>1. Pieces(w, text[m], w \o text[m])
    BY <1>4, <1>8, PiecesIs
  <2> QED
    BY <1>7, <2>1, Zenon
<1> QED
  BY <1>1, <1>2, <1>3, <1>4, <1>5, <1>6, <1>7, <1>8, <1>9, Zenon DEF w, m

\* All of it is ASCII if asked for.
LEMMA TextAscii ==
    ASSUME NEW s \in Strings, NEW ascii \in BOOLEAN, NEW source, Readable(s, source), 1 \in source,
           NEW text, TextOf(s, ascii, text)
    PROVE  ascii => Ascii(text[1])
<1> DEFINE S == {i \in 1 .. Len(s) + 1 : i \in source => (ascii => Ascii(text[i]))}
<1>1. Len(s) \in Nat
  BY Bytes
<1>2. ASSUME NEW i \in 1 .. Len(s) + 1, \A j \in i + 1 .. Len(s) + 1 : j \in S
      PROVE  i \in S
  <2>1. CASE i = Len(s) + 1
    <3>1. text[i] = <<>>
      BY <2>1 DEF TextOf
    <3>2. Ascii(<<>>)
      BY DEF Ascii
    <3> QED
      BY <3>1, <3>2
  <2>2. CASE i # Len(s) + 1 /\ i \in source
    <3> DEFINE w == Lex!Written(s, i, ascii)
               m == i + Char(s, i).len
    <3>1. i \in 1 .. Len(s)
      BY <1>1, <2>2
    <3>2. /\ ValidChar(s, i) /\ PieceOf(s, i, ascii, w) /\ w \in Strings
          /\ m \in source /\ m \in i + 1 .. Len(s) + 1 /\ text[m] \in Strings /\ text[i] = w \o text[m]
      BY <2>2, <3>1, TextStep
    <3> HIDE DEF w, m
    <3>3. ascii => Ascii(w)
      BY <3>1, <3>2, PieceTyped, Zenon
    <3>4. ascii => Ascii(text[m])
      BY <1>2, <3>2
    <3>5. Ascii(w) /\ Ascii(text[m]) => Ascii(w \o text[m])
      BY <3>2, AsciiCat DEF Ascii
    <3> QED
      BY <3>2, <3>3, <3>4, <3>5, Zenon
  <2>3. CASE i \notin source
    BY <2>3
  <2> QED
    BY <2>1, <2>2, <2>3
<1>3. \A i \in 1 .. Len(s) + 1 : (\A j \in i + 1 .. Len(s) + 1 : j \in S) => i \in S
  BY <1>2
<1>4. 1 \in Int /\ Len(s) + 1 \in Int /\ 1 \in 1 .. Len(s) + 1
  BY <1>1
<1>5. \A i \in 1 .. Len(s) + 1 : i \in S
  <2> HIDE DEF S
  <2> QED
    BY <1>3, <1>4, FromEnd, Zenon
<1> QED
  BY <1>4, <1>5

\* The text is a text of characters again.
LEMMA TextReadable ==
    ASSUME NEW s \in Strings, NEW ascii \in BOOLEAN, NEW source, Readable(s, source), 1 \in source,
           NEW text, TextOf(s, ascii, text), NEW d \in Strings, NEW from, Readable(d, from),
           NEW p \in Int, Stands(text[1], d, p), p + Len(text[1]) \in from
    PROVE  p \in from
<1> DEFINE Again(i) == \A q \in Int : Stands(text[i], d, q) /\ q + Len(text[i]) \in from => q \in from
           S == {i \in 1 .. Len(s) + 1 : i \in source => Again(i)}
<1>1. Len(s) \in Nat /\ Len(d) \in Int
  BY Bytes
<1>2. ASSUME NEW i \in 1 .. Len(s) + 1, \A j \in i + 1 .. Len(s) + 1 : j \in S
      PROVE  i \in S
  <2>1. CASE i = Len(s) + 1
    <3>1. text[i] = <<>>
      BY <2>1 DEF TextOf
    <3>2. \A q \in Int : q + Len(text[i]) = q
      BY <3>1
    <3> QED
      BY <3>2
  <2>2. CASE i # Len(s) + 1 /\ i \in source
    <3> DEFINE w == Lex!Written(s, i, ascii)
               m == i + Char(s, i).len
    <3>1. i \in 1 .. Len(s)
      BY <1>1, <2>2
    <3>2. /\ ValidChar(s, i) /\ PieceOf(s, i, ascii, w) /\ w \in Seq(Int) /\ Len(w) \in Int
          /\ m \in source /\ m \in i + 1 .. Len(s) + 1
          /\ text[m] \in Seq(Int) /\ Len(text[m]) \in Int
          /\ text[i] = w \o text[m] /\ Pieces(w, text[m], text[i])
      BY <2>2, <3>1, TextStep
    <3> HIDE DEF w, m
    <3>3. ASSUME NEW q \in Int, Stands(text[i], d, q), q + Len(text[i]) \in from
          PROVE  q \in from
      <4>1. Stands(w, d, q) /\ Stands(text[m], d, q + Len(w))
        <5>1. Stands(w \o text[m], d, q)
          BY <3>2, <3>3
        <5> QED
          BY <1>1, <3>2, <5>1, StandsCat
      <4>2. q + Len(w) \in Int /\ (q + Len(w)) + Len(text[m]) = q + Len(text[i])
        BY <3>2, <3>3, Zenon DEF Pieces
      <4>3. Again(m)
        <5> HIDE DEF Again
        <5> QED
          BY <1>2, <3>2
      <4>4. q + Len(w) \in from
        BY <3>3, <4>1, <4>2, <4>3, Zenon
      <4> QED
        BY <3>1, <3>2, <4>1, <4>4, PieceReadable
    <3>4. Again(i)
      BY <3>3
    <3> HIDE DEF Again
    <3> QED
      BY <3>4
  <2>3. CASE i \notin source
    BY <2>3
  <2> HIDE DEF S
  <2> QED
    BY <2>1, <2>2, <2>3
<1>3. \A i \in 1 .. Len(s) + 1 : (\A j \in i + 1 .. Len(s) + 1 : j \in S) => i \in S
  <2> HIDE DEF S
  <2> QED
    BY <1>2
<1>4. 1 \in Int /\ Len(s) + 1 \in Int /\ 1 \in 1 .. Len(s) + 1
  BY <1>1
<1>5. \A i \in 1 .. Len(s) + 1 : i \in S
  <2> HIDE DEF S
  <2> QED
    BY <1>3, <1>4, FromEnd, Zenon
<1>6. Again(1)
  BY <1>4, <1>5
<1> QED
  BY <1>6

\* There is no closing quote in it.
LEMMA TextEnd ==
    ASSUME NEW s \in Strings, NEW ascii \in BOOLEAN, NEW source, Readable(s, source), 1 \in source,
           NEW text, TextOf(s, ascii, text), NEW b \in Seq(Int), NEW a \in Int, NEW end, EndOf(b, a, end),
           NEW p \in Int, a <= p, Stands(text[1], b, p)
    PROVE  Agree(end, p, p + Len(text[1]))
<1> DEFINE Past(i) == \A q \in Int : a <= q /\ Stands(text[i], b, q) => end[q] = end[q + Len(text[i])]
           S == {i \in 1 .. Len(s) + 1 : i \in source => Past(i)}
<1>1. Len(s) \in Nat /\ Len(b) \in Int
  BY Bytes
<1>2. ASSUME NEW i \in 1 .. Len(s) + 1, \A j \in i + 1 .. Len(s) + 1 : j \in S
      PROVE  i \in S
  <2>1. CASE i = Len(s) + 1
    <3>1. text[i] = <<>>
      BY <2>1 DEF TextOf
    <3>2. \A q \in Int : q + Len(text[i]) = q
      BY <3>1
    <3> QED
      BY <3>2
  <2>2. CASE i # Len(s) + 1 /\ i \in source
    <3> DEFINE w == Lex!Written(s, i, ascii)
               m == i + Char(s, i).len
    <3>1. i \in 1 .. Len(s)
      BY <1>1, <2>2
    <3>2. /\ ValidChar(s, i) /\ PieceOf(s, i, ascii, w) /\ w \in Seq(Int) /\ Len(w) \in Int
          /\ m \in source /\ m \in i + 1 .. Len(s) + 1
          /\ text[m] \in Seq(Int) /\ Len(text[m]) \in Int
          /\ text[i] = w \o text[m] /\ Pieces(w, text[m], text[i])
      BY <2>2, <3>1, TextStep
    <3> HIDE DEF w, m
    <3>3. ASSUME NEW q \in Int, a <= q, Stands(text[i], b, q)
          PROVE  end[q] = end[q + Len(text[i])]
      <4>1. Stands(w, b, q) /\ Stands(text[m], b, q + Len(w))
        <5>1. Stands(w \o text[m], b, q)
          BY <3>2, <3>3
        <5> QED
          BY <1>1, <3>2, <5>1, StandsCat
      <4>2. q + Len(w) \in Int /\ (q + Len(w)) + Len(text[m]) = q + Len(text[i]) /\ a <= q + Len(w)
        <5>1. q + Len(w) \in Int /\ (q + Len(w)) + Len(text[m]) = q + Len(text[i]) /\ q <= q + Len(w)
          BY <3>2, <3>3, Zenon DEF Pieces
        <5>2. a <= q + Len(w)
          BY <3>3, <5>1
        <5> QED
          BY <5>1, <5>2, Zenon
      <4>3. Past(m)
        <5> HIDE DEF Past
        <5> QED
          BY <1>2, <3>2
      <4>4. end[q + Len(w)] = end[(q + Len(w)) + Len(text[m])]
        BY <4>1, <4>2, <4>3, Zenon
      <4>5. end[q] = end[q + Len(w)]
        BY <3>1, <3>2, <3>3, <4>1, PieceEnd
      <4> QED
        BY <4>2, <4>4, <4>5, Zenon
    <3>4. Past(i)
      BY <3>3
    <3> HIDE DEF Past
    <3> QED
      BY <3>4
  <2>3. CASE i \notin source
    BY <2>3
  <2> HIDE DEF S
  <2> QED
    BY <2>1, <2>2, <2>3
<1>3. \A i \in 1 .. Len(s) + 1 : (\A j \in i + 1 .. Len(s) + 1 : j \in S) => i \in S
  <2> HIDE DEF S
  <2> QED
    BY <1>2
<1>4. 1 \in Int /\ Len(s) + 1 \in Int /\ 1 \in 1 .. Len(s) + 1
  BY <1>1
<1>5. \A i \in 1 .. Len(s) + 1 : i \in S
  <2> HIDE DEF S
  <2> QED
    BY <1>3, <1>4, FromEnd, Zenon
<1>6. Past(1)
  BY <1>4, <1>5
<1>7. end[p] = end[p + Len(text[1])]
  BY <1>6
<1> QED
  BY <1>7, Zenon DEF Agree

LEMMA SplitRest ==
    ASSUME NEW d \in Seq(Int), NEW i \in Int, NEW m \in Int, 1 <= i, i < m, m - 1 <= Len(d)
    PROVE  SubSeq(d, i, m - 1) \o SubSeq(d, m, Len(d)) = SubSeq(d, i, Len(d))
<1> DEFINE n == Len(d)
<1>1. n \in Int
  OBVIOUS
<1> HIDE DEF n
<1>2. i \in 1 .. n + 1 /\ m - 1 \in i - 1 .. n /\ n \in m - 1 .. n /\ (m - 1) + 1 = m
  BY <1>1 DEF n
<1>3. SubSeq(d, i, m - 1) \o SubSeq(d, (m - 1) + 1, n) = SubSeq(d, i, n)
  BY <1>2, ConcatAdjacentSubSeq, Zenon DEF n
<1> QED
  BY <1>2, <1>3, Zenon DEF n

\* It is decoded into the string it was written for.
LEMMA TextDecode ==
    ASSUME NEW s \in Strings, NEW ascii \in BOOLEAN, NEW source, Readable(s, source), 1 \in source,
           NEW text, TextOf(s, ascii, text),
           NEW b \in Seq(Int), NEW a \in Int, NEW e \in Int, NEW dec, DecodeOf(b, a, e, dec),
           NEW p \in Int, a <= p, Stands(text[1], b, p), p + Len(text[1]) <= e,
           Reads(dec[p + Len(text[1])], <<>>)
    PROVE  Reads(dec[p], s)
<1> DEFINE Said(i) == \A q \in Int :
               a <= q /\ Stands(text[i], b, q) /\ q + Len(text[i]) <= e /\ Reads(dec[q + Len(text[i])], <<>>)
                   => Reads(dec[q], SubSeq(s, i, Len(s)))
           S == {i \in 1 .. Len(s) + 1 : i \in source => Said(i)}
<1>1. Len(s) \in Nat /\ Len(b) \in Int /\ s \in Seq(Int)
  <2>1. Len(s) \in Nat
    BY Bytes
  <2>2. s \in Seq(Int)
    BY StringsAreInts
  <2> QED
    BY <2>1, <2>2
<1>2. ASSUME NEW i \in 1 .. Len(s) + 1, \A j \in i + 1 .. Len(s) + 1 : j \in S
      PROVE  i \in S
  <2>1. CASE i = Len(s) + 1
    <3>1. text[i] = <<>>
      BY <2>1 DEF TextOf
    <3>2. \A q \in Int : q + Len(text[i]) = q
      BY <3>1
    <3>3. SubSeq(s, i, Len(s)) = <<>>
      <4>1. i \in Int /\ Len(s) \in Int /\ Len(s) < i
        BY <1>1, <2>1
      <4> QED
        BY <4>1, SubSeqEmpty, Zenon
    <3>4. Said(i)
      BY <3>2, <3>3
    <3> HIDE DEF Said
    <3> QED
      BY <3>4
  <2>2. CASE i # Len(s) + 1 /\ i \in source
    <3> DEFINE w == Lex!Written(s, i, ascii)
               m == i + Char(s, i).len
    <3>1. i \in 1 .. Len(s)
      BY <1>1, <2>2
    <3>2. /\ ValidChar(s, i) /\ PieceOf(s, i, ascii, w) /\ w \in Seq(Int) /\ Len(w) \in Int
          /\ m \in source /\ m \in i + 1 .. Len(s) + 1 /\ m - 1 = i + Char(s, i).len - 1
          /\ text[m] \in Seq(Int) /\ Len(text[m]) \in Int
          /\ text[i] = w \o text[m] /\ Pieces(w, text[m], text[i])
      BY <2>2, <3>1, TextStep
    <3> HIDE DEF w, m
    <3>3. ASSUME NEW q \in Int, a <= q, Stands(text[i], b, q), q + Len(text[i]) <= e,
                 Reads(dec[q + Len(text[i])], <<>>)
          PROVE  Reads(dec[q], SubSeq(s, i, Len(s)))
      <4>1. Stands(w, b, q) /\ Stands(text[m], b, q + Len(w))
        <5>1. Stands(w \o text[m], b, q)
          BY <3>2, <3>3
        <5> QED
          BY <1>1, <3>2, <5>1, StandsCat
      <4>2. /\ q + Len(w) \in Int /\ (q + Len(w)) + Len(text[m]) = q + Len(text[i])
            /\ a <= q + Len(w) /\ q + Len(w) <= e
        <5> DEFINE x == q + Len(w)
                   z == q + Len(text[i])
        <5>1. /\ x \in Int /\ q <= x /\ x + Len(text[m]) = z
              /\ z \in Int /\ x <= z
          BY <3>2, <3>3, Zenon DEF Pieces
        <5>2. z <= e
          BY <3>3
        <5> HIDE DEF x, z
        <5>3. a <= x /\ x <= e
          BY <3>3, <5>1, <5>2
        <5> QED
          BY <5>1, <5>3, Zenon DEF x, z
      <4>3. Said(m)
        <5> HIDE DEF Said
        <5> QED
          BY <1>2, <3>2
      <4>4. Reads(dec[q + Len(w)], SubSeq(s, m, Len(s)))
        BY <3>3, <4>1, <4>2, <4>3, Zenon
      <4>5. SubSeq(s, m, Len(s)) \in Seq(Int)
        BY <1>1, <3>2, SubSeqTyped
      <4>6. Reads(dec[q], SubSeq(s, i, i + Char(s, i).len - 1) \o SubSeq(s, m, Len(s)))
        <5> DEFINE u == SubSeq(s, m, Len(s))
        <5>1. u \in Seq(Int) /\ Reads(dec[q + Len(w)], u)
          BY <4>4, <4>5
        <5> HIDE DEF u
        <5>2. Reads(dec[q], SubSeq(s, i, i + Char(s, i).len - 1) \o u)
          BY <3>1, <3>2, <3>3, <4>1, <4>2, <5>1, PieceDecode, Zenon
        <5> QED
          BY <5>2, Zenon DEF u
      <4>7. SubSeq(s, i, m - 1) \o SubSeq(s, m, Len(s)) = SubSeq(s, i, Len(s))
        <5>1. i \in Int /\ m \in Int /\ 1 <= i /\ i < m /\ m - 1 <= Len(s)
          BY <1>1, <3>1, <3>2
        <5> QED
          BY <1>1, <5>1, SplitRest, Zenon
      <4> QED
        BY <3>2, <4>6, <4>7, Zenon
    <3>4. Said(i)
      BY <3>3
    <3> HIDE DEF Said
    <3> QED
      BY <3>4
  <2>3. CASE i \notin source
    BY <2>3
  <2> HIDE DEF S
  <2> QED
    BY <2>1, <2>2, <2>3
<1>3. \A i \in 1 .. Len(s) + 1 : (\A j \in i + 1 .. Len(s) + 1 : j \in S) => i \in S
  <2> HIDE DEF S
  <2> QED
    BY <1>2
<1>4. 1 \in Int /\ Len(s) + 1 \in Int /\ 1 \in 1 .. Len(s) + 1
  BY <1>1
<1>5. \A i \in 1 .. Len(s) + 1 : i \in S
  <2> HIDE DEF S
  <2> QED
    BY <1>3, <1>4, FromEnd, Zenon
<1>6. Said(1)
  BY <1>4, <1>5
<1>7. SubSeq(s, 1, Len(s)) = s
  BY <1>1, SubSeqFull, Zenon
<1>8. Reads(dec[p], SubSeq(s, 1, Len(s)))
  BY <1>6
<1> QED
  BY <1>7, <1>8, Zenon

\* A text in quotes, and the end of the stream behind it.
LEMMA StandsSelf ==
    ASSUME NEW x \in Seq(Int)
    PROVE  Stands(x, x, 1)
  BY DEF Stands

ByteAt(b, q, v) == b[q] = v

LEMMA OneAt ==
    ASSUME NEW v \in Int, NEW b, NEW q \in Int, Stands(<<v>>, b, q)
    PROVE  ByteAt(b, q, v)
<1> DEFINE n == Len(b)
<1>1. q >= 1 /\ q + Len(<<v>>) - 1 <= n /\ \A k \in 1 .. Len(<<v>>) : b[q + k - 1] = <<v>>[k]
  BY DEF Stands
<1>2. Len(<<v>>) = 1 /\ <<v>>[1] = v
  OBVIOUS
<1> HIDE DEF n
<1>3. q + 1 - 1 <= n /\ b[q + 1 - 1] = v /\ q + 1 - 1 = q
  BY <1>1, <1>2
<1> QED
  BY <1>3, Zenon DEF ByteAt

Quoted(t) == (<<34>> \o t) \o <<34>>

LEMMA QuotedAt ==
    ASSUME NEW t \in Seq(Int), NEW b, Len(b) \in Int, Stands(Quoted(t), b, 1)
    PROVE  Stands(<<34>>, b, 1) /\ Stands(t, b, 2) /\ Stands(<<34>>, b, 2 + Len(t))
<1> DEFINE o == <<34>>
           x == o \o t
<1>1. o \in Seq(Int) /\ Len(o) = 1
  OBVIOUS
<1> HIDE DEF o
<1>2. x \in Seq(Int) /\ Len(x) = 1 + Len(t) /\ Len(t) \in Nat
  <2>1. x \in Seq(Int) /\ Len(t) \in Nat /\ Len(x) = Len(o) + Len(t)
    BY <1>1, CatIs, Zenon
  <2> QED
    BY <1>1, <2>1, Zenon
<1>3. Stands(x, b, 1) /\ Stands(o, b, 1 + Len(x))
  <2>1. Stands(x \o o, b, 1)
    BY DEF o, Quoted
  <2> HIDE DEF x
  <2> QED
    BY <1>1, <1>2, <2>1, StandsCat
<1>4. Stands(o, b, 1) /\ Stands(t, b, 1 + Len(o))
  <2>1. 1 \in Int
    OBVIOUS
  <2> QED
    BY <1>1, <1>3, <2>1, StandsCat, Zenon
<1>5. 1 + Len(o) = 2 /\ 1 + Len(x) = 2 + Len(t)
  <2> HIDE DEF x
  <2> QED
    BY <1>1, <1>2
<1>6. Stands(o, b, 2 + Len(t)) /\ Stands(t, b, 2)
  BY <1>3, <1>4, <1>5, Zenon
<1> QED
  BY <1>4, <1>6 DEF o

LEMMA QuotedIs ==
    ASSUME NEW t \in Strings
    PROVE  LET d == Quoted(t)
               b == d \o <<-1>>
           IN  /\ d \in Strings /\ b \in Seq(Int) /\ Len(t) \in Nat /\ Len(d) \in Nat /\ Len(b) \in Nat
               /\ Len(d) = Len(t) + 2 /\ Len(b) = Len(t) + 3 /\ b[Len(b)] = -1
               /\ Stands(<<34>>, d, 1) /\ Stands(t, d, 2) /\ Stands(<<34>>, d, 2 + Len(t))
               /\ Stands(<<34>>, b, 1) /\ Stands(t, b, 2) /\ Stands(<<34>>, b, 2 + Len(t))
<1> DEFINE o == <<34>>
           d == Quoted(t)
           b == d \o <<-1>>
<1>1. o \in Strings /\ Len(o) = 1
  BY DEF Strings
<1>2. d \in Strings /\ Len(d) = Len(t) + 2 /\ Len(t) \in Nat
  <2> DEFINE x == o \o t
  <2> HIDE DEF o
  <2>1. x \in Strings /\ Len(x) = Len(o) + Len(t)
    BY <1>1, StringsCat, Zenon
  <2>2. d = x \o o
    BY DEF Quoted, o
  <2> HIDE DEF x, d
  <2>3. x \o o \in Strings /\ Len(x \o o) = Len(x) + Len(o)
    BY <1>1, <2>1, StringsCat, Zenon
  <2>4. d \in Strings /\ Len(d) = Len(x) + Len(o)
    BY <2>2, <2>3, Zenon
  <2>5. Len(t) \in Nat
    BY Bytes
  <2> QED
    BY <1>1, <2>1, <2>4, <2>5
<1>3. t \in Seq(Int) /\ d \in Seq(Int)
  BY <1>2, StringsAreInts
<1> HIDE DEF d
<1>4. b \in Seq(Int) /\ Len(b) = Len(t) + 3 /\ b[Len(b)] = -1
  <2> DEFINE z == <<-1>>
  <2>1. z \in Seq(Int) /\ Len(z) = 1 /\ z[1] = -1
    OBVIOUS
  <2> HIDE DEF z
  <2>2. /\ d \o z \in Seq(Int) /\ Len(d \o z) = Len(d) + 1 /\ (d \o z)[Len(d) + 1] = -1
    <3>1. /\ d \o z \in Seq(Int) /\ Len(d \o z) = Len(d) + Len(z)
          /\ \A k \in 1 .. Len(z) : (d \o z)[Len(d) + k] = z[k]
      BY <1>3, <2>1, CatIs, Zenon
    <3>2. 1 \in 1 .. Len(z)
      BY <2>1
    <3> QED
      BY <2>1, <3>1, <3>2, Zenon
  <2>3. b = d \o z
    BY DEF z
  <2> HIDE DEF b
  <2>4. b \in Seq(Int) /\ Len(b) = Len(d) + 1 /\ b[Len(d) + 1] = -1
    BY <2>2, <2>3, Zenon
  <2>5. b[Len(b)] = -1
    BY <2>4, Zenon
  <2>6. Len(b) = Len(t) + 3
    BY <1>2, <2>4
  <2> QED
    BY <2>4, <2>5, <2>6, Zenon
<1>5. Stands(d, d, 1) /\ Stands(d, b, 1)
  <2> DEFINE z == <<-1>>
  <2>1. z \in Seq(Int)
    OBVIOUS
  <2>2. b = d \o z
    BY DEF z
  <2> HIDE DEF z
  <2>3. Stands(d \o z, b, 1)
    BY <1>4, <2>2, StandsSelf, Zenon
  <2>4. Len(b) \in Int
    BY <1>4
  <2> HIDE DEF b
  <2> QED
    BY <1>3, <2>1, <2>3, <2>4, StandsCat, StandsSelf
<1>6. Len(d) \in Int /\ Len(b) \in Int /\ Len(d) \in Nat /\ Len(b) \in Nat
  BY <1>3, <1>4
<1> HIDE DEF b
<1>7. d = Quoted(t)
  BY DEF d
<1>8. Stands(Quoted(t), d, 1) /\ Stands(Quoted(t), b, 1)
  BY <1>5, <1>7, Zenon
<1>9. Stands(<<34>>, d, 1) /\ Stands(t, d, 2) /\ Stands(<<34>>, d, 2 + Len(t))
  BY <1>3, <1>6, <1>8, QuotedAt
<1>10. Stands(<<34>>, b, 1) /\ Stands(t, b, 2) /\ Stands(<<34>>, b, 2 + Len(t))
  BY <1>3, <1>6, <1>8, QuotedAt
<1> QED
  BY <1>2, <1>4, <1>6, <1>9, <1>10, Zenon DEF b, d

Scanned(result, t, n) == result = Lex!Token("string", t, n)

LEMMA DoneAt ==
    ASSUME NEW b, NEW e \in Int, NEW dec, NEW a \in Int, a <= e, DecodeOf(b, a, e, dec)
    PROVE  Reads(dec[e], <<>>)
<1>1. e \in a .. e + 11 /\ e >= e
  OBVIOUS
<1>2. dec[e] = Done
  BY <1>1, Zenon DEF DecodeOf
<1> QED
  BY <1>2, Zenon DEF Reads, Done

LEMMA ScannedIs ==
    ASSUME NEW b, NEW i \in Int, NEW e \in Int, Lex!StringEnd(b, i) = e, e # 0, NEW t,
           \A dec : DecodeOf(b, i, e, dec) => Reads(dec[i], t)
    PROVE  Scanned(Lex!lex_scan_string(b, i), t, e + 1)
<1>1. \E dec : /\ DecodeOf(b, i, e, dec)
               /\ Lex!lex_scan_string(b, i) =
                      IF e = 0 \/ ~dec[i].ok THEN Lex!Bad ELSE Lex!Token("string", dec[i].text, e + 1)
  BY DecodeIs, Zenon
<1>2. PICK dec : /\ DecodeOf(b, i, e, dec)
                 /\ Lex!lex_scan_string(b, i) =
                        IF e = 0 \/ ~dec[i].ok THEN Lex!Bad ELSE Lex!Token("string", dec[i].text, e + 1)
  BY <1>1, Zenon
<1>3. dec[i].ok /\ dec[i].text = t
  <2>1. Reads(dec[i], t)
    BY <1>2
  <2> QED
    BY <2>1 DEF Reads
<1>4. Lex!lex_scan_string(b, i) = Lex!Token("string", t, e + 1)
  BY <1>2, <1>3, Zenon
<1> QED
  BY <1>4, Zenon DEF Scanned

\* What is written for a string of characters is text, ASCII if asked for, and
\* the lexer reads the string back.
LEMMA DumpReads ==
    ASSUME NEW s \in Strings, NEW ascii \in BOOLEAN, Lex!utf8_check_string(s)
    PROVE  \E t \in Strings :
               /\ Lex!dump_string(s, ascii) = Quoted(t)
               /\ ascii => Ascii(t)
               /\ Lex!utf8_check_string(Quoted(t))
               /\ Scanned(Lex!lex_scan_string(Quoted(t) \o <<-1>>, 2), s, Len(Quoted(t)) + 1)
<1>1. \E source : Readable(s, source) /\ (Lex!utf8_check_string(s) <=> 1 \in source)
  BY CheckString, Zenon
<1>2. PICK source : Readable(s, source) /\ 1 \in source
  BY <1>1, Zenon
<1>3. \E text : /\ TextOf(s, ascii, text)
                /\ Lex!dump_string(s, ascii) =
                       IF Lex!utf8_check_string(s) THEN <<34>> \o text[1] \o <<34>> ELSE <<>>
  BY DumpIs, Zenon
<1>4. PICK text : TextOf(s, ascii, text) /\ Lex!dump_string(s, ascii) = <<34>> \o text[1] \o <<34>>
  BY <1>3, Zenon
<1> DEFINE o == <<34>>
           t == text[1]
           d == Quoted(t)
           b == d \o <<-1>>
           n == Len(t)
<1>5. t \in Strings
  <2>1. 1 \in 1 .. Len(s) + 1
    BY Bytes
  <2> QED
    BY <1>4, <2>1 DEF TextOf
<1>6. Lex!dump_string(s, ascii) = d
  BY <1>4, Zenon DEF Quoted
<1>7. ascii => Ascii(t)
  BY <1>2, <1>4, TextAscii, Zenon
<1>8. /\ d \in Strings /\ b \in Seq(Int) /\ n \in Nat /\ Len(d) \in Nat /\ Len(b) \in Nat
      /\ Len(d) = n + 2 /\ Len(b) = n + 3 /\ b[Len(b)] = -1
      /\ Stands(o, d, 1) /\ Stands(t, d, 2) /\ Stands(o, d, 2 + n)
      /\ Stands(o, b, 1) /\ Stands(t, b, 2) /\ Stands(o, b, 2 + n)
  BY <1>5, QuotedIs, Zenon
<1>9. o \in Strings /\ (\A k \in 1 .. Len(o) : o[k] < 128) /\ 1 + Len(o) = 2 /\ 2 \in Int /\ 1 \in Int
  BY DEF Strings
<1>10. (2 + n) + Len(o) = Len(d) + 1 /\ 2 + n \in Int /\ 2 + n # 0 /\ 2 <= 2 /\ 2 <= 2 + n
  <2>1. Len(o) = 1
    OBVIOUS
  <2> HIDE DEF d, n, o
  <2> QED
    BY <1>8, <2>1
<1>11. Lex!utf8_check_string(d)
  <2> HIDE DEF d, o, t
  <2>1. \E from : Readable(d, from) /\ (Lex!utf8_check_string(d) <=> 1 \in from)
    BY <1>8, CheckString, Zenon
  <2>2. PICK from : Readable(d, from) /\ (Lex!utf8_check_string(d) <=> 1 \in from)
    BY <2>1, Zenon
  <2>3. Len(d) + 1 \in from
    BY <2>2, Zenon DEF Readable
  <2>4. 2 + n \in from
    <3>1. (2 + n) + Len(o) \in from
      BY <1>10, <2>3, Zenon
    <3> QED
      BY <1>8, <1>9, <1>10, <2>2, <3>1, AsciiReadable, Zenon
  <2>5. 2 \in from
    BY <1>2, <1>4, <1>8, <1>9, <2>2, <2>4, TextReadable, Zenon DEF t
  <2>6. 1 \in from
    <3>1. 1 + Len(o) \in from
      BY <1>9, <2>5, Zenon
    <3> QED
      BY <1>8, <1>9, <2>2, <3>1, AsciiReadable, Zenon
  <2> QED
    BY <2>2, <2>6, Zenon
<1>12. Lex!StringEnd(b, 2) = 2 + n
  <2> HIDE DEF b, o, n
  <2>1. 2 \in 1 .. Len(b) /\ 2 + n \in 2 .. Len(b)
    BY <1>8
  <2>2. \E end : EndOf(b, 2, end) /\ Lex!StringEnd(b, 2) = end[2]
    BY <1>8, <2>1, EndIs, Zenon
  <2>3. PICK end : EndOf(b, 2, end) /\ Lex!StringEnd(b, 2) = end[2]
    BY <2>2, Zenon
  <2>4. end[2] = end[2 + n]
    <3>1. Stands(text[1], b, 2) /\ b \in Seq(Int)
      BY <1>8
    <3>2. TextOf(s, ascii, text) /\ EndOf(b, 2, end) /\ 2 \in Int /\ 2 <= 2
      BY <1>4, <2>3
    <3>3. Agree(end, 2, 2 + Len(text[1]))
      BY <1>2, <3>1, <3>2, TextEnd, Zenon
    <3> QED
      BY <3>3, Zenon DEF n, Agree
  <2>5. b[2 + n] = 34
    <3>1. 34 \in Int /\ Stands(<<34>>, b, 2 + n) /\ 2 + n \in Int
      BY <1>8, <1>10 DEF o
    <3>2. ByteAt(b, 2 + n, 34)
      BY <3>1, OneAt, Zenon
    <3> QED
      BY <3>2, Zenon DEF ByteAt
  <2>6. end[2 + n] = 2 + n
    BY <2>1, <2>3, <2>5, Zenon DEF EndOf
  <2> QED
    BY <2>3, <2>4, <2>6, Zenon
<1>13. ASSUME NEW dec, DecodeOf(b, 2, 2 + n, dec)
       PROVE  Reads(dec[2], s)
  <2> HIDE DEF b
  <2>1. Reads(dec[2 + n], <<>>)
    BY <1>9, <1>10, <1>13, DoneAt, Zenon
  <2>2. 2 + n <= 2 + n
    BY <1>10
  <2> QED
    BY <1>2, <1>4, <1>8, <1>9, <1>10, <1>13, <2>1, <2>2, TextDecode, Zenon DEF t, n
<1>14. Scanned(Lex!lex_scan_string(b, 2), s, Len(d) + 1)
  <2>1. Scanned(Lex!lex_scan_string(b, 2), s, (2 + n) + 1)
    BY <1>9, <1>10, <1>12, <1>13, ScannedIs, Zenon
  <2>2. (2 + n) + 1 = Len(d) + 1
    <3> HIDE DEF d, n
    <3> QED
      BY <1>8
  <2> QED
    BY <2>1, <2>2, Zenon
<1> QED
  BY <1>5, <1>6, <1>7, <1>11, <1>14, Zenon

LEMMA FirstIs ==
    ASSUME NEW b \in Seq(Int), NEW n \in Nat, Len(b) = n, n >= 1, b[1] \notin Lex!Blank
    PROVE  Lex!Skip(b, 1, Lex!Blank) = 1
<1> DEFINE j == Lex!Skip(b, 1, Lex!Blank)
<1>1. b[1] \notin Lex!Blank
  OBVIOUS
<1>2. 1 \in 1 .. n /\ \A k \in 1 .. 1 - 1 : b[k] \in Lex!Blank
  OBVIOUS
<1>3. \E x \in 1 .. n : b[x] \notin Lex!Blank /\ \A k \in 1 .. x - 1 : b[k] \in Lex!Blank
  BY <1>1, <1>2, Zenon
<1>4. j \in 1 .. n /\ \A k \in 1 .. j - 1 : b[k] \in Lex!Blank
  BY <1>3, Zenon DEF Lex!Skip
<1> HIDE DEF j
<1>5. j = 1
  BY <1>1, <1>4
<1> QED
  BY <1>5 DEF j

\* At an opening quote a string is read.
LEMMA ScanAtQuote ==
    ASSUME NEW r, NEW b \in Seq(Int), Received(r, b), NEW n \in Nat, Len(b) = n, n >= 1, b[1] = 34
    PROVE  Lex!lex_scan(r, 1) = Lex!lex_scan_string(b, 2)
<1>1. r.bytes = b
  BY DEF Received
<1>2. Lex!Skip(b, 1, Lex!Blank) = 1
  <2>1. b[1] \notin Lex!Blank
    BY DEF Lex!Blank
  <2> QED
    BY <2>1, FirstIs, Zenon
<1> DEFINE j == Lex!Skip(r.bytes, 1, Lex!Blank)
           c == r.bytes[j]
           word == Lex!Skip(r.bytes, j, Lex!Upper \cup Lex!Lower)
           A == IF r.eof THEN Lex!Token("end", <<>>, j) ELSE Lex!Bad
           B == Lex!Token("mark", c, j + 1)
           C == Lex!lex_scan_string(r.bytes, j + 1)
           D == Lex!lex_scan_number(r.bytes, j)
           E == IF SubSeq(r.bytes, j, word - 1) \in Lex!Names
                THEN Lex!Token("name", SubSeq(r.bytes, j, word - 1), word) ELSE Lex!Bad
<1>3. Lex!lex_scan(r, 1) =
          CASE c = Lex!Eof -> A [] c \in {123, 125, 91, 93, 58, 44} -> B [] c = Lex!Quote -> C
            [] c \in Lex!Digit \cup {Lex!Minus} -> D [] c \in Lex!Upper \cup Lex!Lower -> E [] OTHER -> Lex!Bad
  BY Zenon DEF Lex!lex_scan
<1>4. c = 34 /\ C = Lex!lex_scan_string(b, 2)
  <2>1. j = 1 /\ r.bytes = b /\ 1 + 1 = 2
    BY <1>1, <1>2
  <2> QED
    BY <2>1, Zenon
<1> HIDE DEF A, B, C, D, E, c
<1>5. Lex!lex_scan(r, 1) = C
  BY <1>3, <1>4 DEF Lex!Eof, Lex!Quote, Lex!Digit, Lex!Minus, Lex!Upper, Lex!Lower
<1> QED
  BY <1>4, <1>5

LEMMA AsciiQuoted ==
    ASSUME NEW t \in Strings, Ascii(t)
    PROVE  \A i \in DOMAIN Quoted(t) : Quoted(t)[i] < 128
<1> DEFINE o == <<34>>
           x == o \o t
           d == Quoted(t)
<1>1. o \in Strings /\ \A k \in 1 .. Len(o) : o[k] < 128
  BY DEF Strings
<1>2. d = x \o o
  BY DEF Quoted
<1> HIDE DEF o
<1>3. x \in Strings /\ \A k \in 1 .. Len(x) : x[k] < 128
  BY <1>1, AsciiCat, Zenon DEF Ascii
<1> HIDE DEF x
<1>4. x \o o \in Strings /\ \A k \in 1 .. Len(x \o o) : (x \o o)[k] < 128
  BY <1>1, <1>3, AsciiCat, Zenon
<1> HIDE DEF d
<1>5. d \in Strings /\ \A k \in 1 .. Len(d) : d[k] < 128
  BY <1>2, <1>4, Zenon
<1>6. DOMAIN d = 1 .. Len(d)
  BY <1>5 DEF Strings
<1>7. \A i \in DOMAIN d : d[i] < 128
  BY <1>5, <1>6
<1> QED
  BY <1>7 DEF d

\* What StringRoundTrip says of one string.
LEMMA RoundTrip ==
    ASSUME NEW s \in Strings, NEW ascii \in BOOLEAN
    PROVE  LET d == Lex!dump_string(s, ascii)
           IN  /\ d # Lex!NoText <=> WellFormed(s)
               /\ d # Lex!NoText =>
                      /\ Lex!lex_scan(Lex!Stream(d), 1) = Lex!Token("string", s, Len(d) + 1)
                      /\ ascii => \A i \in DOMAIN d : d[i] < 128
<1>1. Lex!utf8_check_string(s) <=> WellFormed(s)
  BY CheckIsWellFormed
<1>2. CASE ~Lex!utf8_check_string(s)
  <2>1. \E text : /\ TextOf(s, ascii, text)
                  /\ Lex!dump_string(s, ascii) =
                         IF Lex!utf8_check_string(s) THEN <<34>> \o text[1] \o <<34>> ELSE <<>>
    BY DumpIs, Zenon
  <2>2. Lex!dump_string(s, ascii) = Lex!NoText
    BY <1>2, <2>1, Zenon DEF Lex!NoText
  <2> QED
    BY <1>1, <1>2, <2>2, Zenon
<1>3. CASE Lex!utf8_check_string(s)
  <2>1. \E t \in Strings :
               /\ Lex!dump_string(s, ascii) = Quoted(t)
               /\ ascii => Ascii(t)
               /\ Lex!utf8_check_string(Quoted(t))
               /\ Scanned(Lex!lex_scan_string(Quoted(t) \o <<-1>>, 2), s, Len(Quoted(t)) + 1)
    BY <1>3, DumpReads, Zenon
  <2>2. PICK t \in Strings :
               /\ Lex!dump_string(s, ascii) = Quoted(t)
               /\ ascii => Ascii(t)
               /\ Lex!utf8_check_string(Quoted(t))
               /\ Scanned(Lex!lex_scan_string(Quoted(t) \o <<-1>>, 2), s, Len(Quoted(t)) + 1)
    BY <2>1, Zenon
  <2> DEFINE d == Quoted(t)
             b == d \o <<-1>>
             n == Len(b)
  <2>3. /\ d \in Strings /\ Len(t) \in Nat /\ Len(d) = Len(t) + 2
        /\ b \in Seq(Int) /\ n \in Nat /\ n = Len(t) + 3 /\ Stands(<<34>>, b, 1)
    BY QuotedIs, Zenon
  <2>4. d # <<>>
    <3> HIDE DEF d
    <3>1. Len(d) > 0
      BY <2>3
    <3> QED
      BY <3>1, NotEmpty
  <2>5. b[1] = 34 /\ n >= 1
    <3> HIDE DEF b
    <3>1. 34 \in Int /\ 1 \in Int
      OBVIOUS
    <3>2. ByteAt(b, 1, 34)
      BY <2>3, <3>1, OneAt, Zenon
    <3> HIDE DEF n
    <3> QED
      BY <2>3, <3>2 DEF ByteAt
  <2>6. Received(Lex!Stream(d), b)
    BY <2>2, <2>3, StreamIs, Zenon
  <2>7. Lex!lex_scan(Lex!Stream(d), 1) = Lex!lex_scan_string(b, 2)
    <3> HIDE DEF b, d
    <3> QED
      BY <2>3, <2>5, <2>6, ScanAtQuote, Zenon DEF n
  <2>8. Lex!lex_scan_string(b, 2) = Lex!Token("string", s, Len(d) + 1)
    BY <2>2, Zenon DEF Scanned
  <2>9. ascii => \A i \in DOMAIN d : d[i] < 128
    BY <2>2, AsciiQuoted, Zenon
  <2>10. Lex!dump_string(s, ascii) = d
    BY <2>2
  <2>11. Lex!lex_scan(Lex!Stream(d), 1) = Lex!Token("string", s, Len(d) + 1)
    BY <2>7, <2>8, Zenon
  <2> HIDE DEF b, d
  <2> QED
    BY <1>1, <1>3, <2>4, <2>9, <2>10, <2>11, Zenon DEF Lex!NoText
<1> QED
  BY <1>2, <1>3, Zenon

\* An input consists of symbols of its kind.
SymbolsOK == kind \in DOMAIN Alphabet /\ input \in Seq(Alphabet[kind])

LEMMA SymbolsTyped == HelpersSpec => []SymbolsOK
<1>1. HelpersInit => SymbolsOK
  BY DEF HelpersInit, SymbolsOK
<1>2. SymbolsOK /\ [Grow]_<<kind, input>> => SymbolsOK'
  BY DEF SymbolsOK, Grow
<1> QED
  BY <1>1, <1>2, PTL DEF HelpersSpec

(***************************************************************************)
(* dump_string (dump.c:69), the UTF-8 checks of utf.c and lex_scan_string  *)
(* with stream_get below it (load.c:159-403): for a string of any length   *)
(* and any bytes, written as UTF-8 or as ASCII, exactly the well-formed    *)
(* ones are written, and the lexer reads back the very bytes.              *)
(***************************************************************************)
THEOREM StringsReadBack == HelpersSpec => []StringRoundTrip
<1>1. SymbolsOK => StringRoundTrip
  <2> SUFFICES ASSUME SymbolsOK, kind = "bytes", NEW ascii \in BOOLEAN
               PROVE  LET d == Lex!dump_string(input, ascii)
                      IN  /\ d # Lex!NoText <=> WellFormed(input)
                          /\ d # Lex!NoText =>
                                 /\ Lex!lex_scan(Lex!Stream(d), 1) = Lex!Token("string", input, Len(d) + 1)
                                 /\ ascii => \A i \in DOMAIN d : d[i] < 128
    BY Zenon DEF StringRoundTrip
  <2>1. input \in Seq(Alphabet["bytes"])
    BY DEF SymbolsOK
  <2>2. Alphabet["bytes"] \subseteq Nat \ {0}
    BY CharactersAssumption
  <2>3. input \in Strings
    BY <2>1, <2>2 DEF Strings
  <2> QED
    BY <2>3, RoundTrip, Zenon
<1> QED
  BY <1>1, SymbolsTyped, PTL

-----------------------------------------------------------------------------
(* Numbers.  The grammar is restated by places of the text. *)

IsDig(x) == 48 <= x /\ x <= 57
AllDigits(s, i, j) == \A k \in i .. j : IsDig(s[k])
\* t is what stands from i to j.
PartOf(t, s, i, j) ==
    t \in Seq(Int) /\ i \in Int /\ j \in Int /\ Len(t) = j - i + 1 /\ \A k \in 1 .. j - i + 1 : t[k] = s[i + k - 1]

FirstDigit(s) == IF s # <<>> /\ s[1] = 45 THEN 2 ELSE 1
LeadTo(s, f, a) == f <= a /\ AllDigits(s, f, a) /\ (s[f] = 48 => a = f)
FractionTo(s, a, c) == c = a \/ (s[a + 1] = 46 /\ a + 2 <= c /\ AllDigits(s, a + 2, c))
ExponentFrom(s, c) ==
    \/ c = Len(s)
    \/ /\ s[c + 1] \in {69, 101}
       /\ \/ c + 2 <= Len(s) /\ AllDigits(s, c + 2, Len(s))
          \/ c + 3 <= Len(s) /\ s[c + 2] \in {43, 45} /\ AllDigits(s, c + 3, Len(s))

LEMMA DigIs ==
    ASSUME NEW x \in Int
    PROVE  x \in 48 .. 57 <=> IsDig(x)
  BY DEF IsDig

LEMMA PartSubSeq ==
    ASSUME NEW s \in Seq(Int), NEW i \in Int, NEW j \in Int, 1 <= i, i <= j + 1, j <= Len(s)
    PROVE  PartOf(SubSeq(s, i, j), s, i, j)
  BY DEF PartOf

LEMMA PartWhole ==
    ASSUME NEW s \in Seq(Int)
    PROVE  PartOf(s, s, 1, Len(s))
  BY DEF PartOf

LEMMA PartEmpty ==
    ASSUME NEW t, NEW s, NEW i, NEW j, PartOf(t, s, i, j)
    PROVE  t = <<>> <=> ~(i <= j)
<1>1. t \in Seq(Int) /\ i \in Int /\ j \in Int /\ Len(t) = j - i + 1
  BY DEF PartOf
<1>2. t = <<>> <=> Len(t) = 0
  BY <1>1
<1>3. Len(t) \in Nat
  BY <1>1
<1> QED
  BY <1>1, <1>2, <1>3

LEMMA PartFirst ==
    ASSUME NEW t, NEW s, NEW i, NEW j, PartOf(t, s, i, j), i <= j
    PROVE  ByteAt(t, 1, s[i])
<1>1. i \in Int /\ j \in Int /\ 1 \in 1 .. j - i + 1 /\ i + 1 - 1 = i
  BY DEF PartOf
<1> QED
  BY <1>1 DEF PartOf, ByteAt

LEMMA PartTail ==
    ASSUME NEW t, NEW s, NEW i, NEW j, PartOf(t, s, i, j), i <= j
    PROVE  PartOf(Tail(t), s, i + 1, j)
<1> DEFINE u == Tail(t)
<1>1. t \in Seq(Int) /\ i \in Int /\ j \in Int /\ Len(t) = j - i + 1 /\ \A k \in 1 .. j - i + 1 : t[k] = s[i + k - 1]
  BY DEF PartOf
<1>2. Len(t) > 0
  BY <1>1
<1>3. u \in Seq(Int) /\ Len(u) = Len(t) - 1 /\ \A k \in 1 .. Len(u) : u[k] = t[k + 1]
  BY <1>1, <1>2
<1> HIDE DEF u
<1>4. Len(u) = j - (i + 1) + 1 /\ i + 1 \in Int
  BY <1>1, <1>3
<1>5. \A k \in 1 .. j - (i + 1) + 1 : u[k] = s[(i + 1) + k - 1]
  <2> TAKE k \in 1 .. j - (i + 1) + 1
  <2>1. k + 1 \in 1 .. j - i + 1 /\ k \in 1 .. Len(u) /\ i + (k + 1) - 1 = (i + 1) + k - 1
    BY <1>1, <1>4
  <2> QED
    BY <1>1, <1>3, <2>1, Zenon
<1>6. PartOf(u, s, i + 1, j)
  BY <1>1, <1>3, <1>4, <1>5 DEF PartOf
<1> QED
  BY <1>6 DEF u

LEMMA PartThird ==
    ASSUME NEW t, NEW s, NEW i, NEW j, PartOf(t, s, i, j), i + 1 <= j
    PROVE  PartOf(SubSeq(t, 3, Len(t)), s, i + 2, j)
<1> DEFINE n == Len(t)
           u == SubSeq(t, 3, n)
<1>1. t \in Seq(Int) /\ i \in Int /\ j \in Int /\ n = j - i + 1 /\ \A k \in 1 .. j - i + 1 : t[k] = s[i + k - 1]
  BY DEF PartOf
<1>2. 3 \in Int /\ n \in Int /\ 1 <= 3 /\ 3 <= n + 1 /\ n <= Len(t)
  <2>1. n = Len(t)
    OBVIOUS
  <2> HIDE DEF n
  <2> QED
    BY <1>1, <2>1
<1>3. PartOf(u, t, 3, n)
  BY <1>1, <1>2, PartSubSeq, Zenon
<1> HIDE DEF n, u
<1>4. u \in Seq(Int) /\ Len(u) = n - 3 + 1 /\ \A k \in 1 .. n - 3 + 1 : u[k] = t[3 + k - 1]
  BY <1>3 DEF PartOf
<1>5. Len(u) = j - (i + 2) + 1 /\ i + 2 \in Int
  BY <1>1, <1>4
<1>6. \A k \in 1 .. j - (i + 2) + 1 : u[k] = s[(i + 2) + k - 1]
  <2> TAKE k \in 1 .. j - (i + 2) + 1
  <2>1. k + 2 \in 1 .. j - i + 1 /\ k \in 1 .. n - 3 + 1 /\ i + (k + 2) - 1 = (i + 2) + k - 1 /\ 3 + k - 1 = k + 2
    BY <1>1
  <2> QED
    BY <1>1, <1>4, <2>1, Zenon
<1>7. PartOf(u, s, i + 2, j)
  BY <1>1, <1>4, <1>5, <1>6 DEF PartOf
<1> QED
  BY <1>7 DEF u, n

LEMMA PartDigits ==
    ASSUME NEW t, NEW s, NEW i, NEW j, PartOf(t, s, i, j)
    PROVE  IsDigits(t) <=> i <= j /\ AllDigits(s, i, j)
<1>1. t \in Seq(Int) /\ i \in Int /\ j \in Int /\ Len(t) = j - i + 1 /\ \A k \in 1 .. j - i + 1 : t[k] = s[i + k - 1]
  BY DEF PartOf
<1>2. t # <<>> <=> i <= j
  BY PartEmpty
<1>3. DOMAIN t = 1 .. j - i + 1 /\ \A k \in 1 .. j - i + 1 : t[k] \in Int
  <2>1. DOMAIN t = 1 .. Len(t) /\ \A k \in 1 .. Len(t) : t[k] \in Int
    BY <1>1
  <2> QED
    BY <1>1, <2>1, Zenon
<1>4. (\A k \in DOMAIN t : t[k] \in 48 .. 57) <=> \A k \in 1 .. j - i + 1 : IsDig(t[k])
  BY <1>3, DigIs, Zenon
<1>5. (\A k \in 1 .. j - i + 1 : IsDig(t[k])) <=> AllDigits(s, i, j)
  <2>1. ASSUME \A k \in 1 .. j - i + 1 : IsDig(t[k]), NEW k \in i .. j PROVE IsDig(s[k])
    <3>1. k - i + 1 \in 1 .. j - i + 1 /\ i + (k - i + 1) - 1 = k
      BY <1>1
    <3> QED
      BY <1>1, <2>1, <3>1, Zenon
  <2>2. ASSUME AllDigits(s, i, j), NEW k \in 1 .. j - i + 1 PROVE IsDig(t[k])
    <3>1. i + k - 1 \in i .. j
      BY <1>1
    <3> QED
      BY <1>1, <2>2, <3>1, Zenon DEF AllDigits
  <2> QED
    BY <2>1, <2>2, Zenon DEF AllDigits
<1> QED
  BY <1>2, <1>4, <1>5, Zenon DEF IsDigits

LEMMA PartInt ==
    ASSUME NEW s \in Seq(Int), NEW a \in 0 .. Len(s), NEW t, PartOf(t, s, 1, a)
    PROVE  IsInt(t) <=> LeadTo(s, FirstDigit(s), a)
<1> DEFINE f == FirstDigit(s)
           u == IF t # <<>> /\ t[1] = 45 THEN Tail(t) ELSE t
<1>1. IsInt(t) <=> IsDigits(u) /\ (u[1] = 48 => Len(u) = 1)
  BY Zenon DEF IsInt
<1>2. a \in Int /\ 0 <= a /\ a <= Len(s) /\ Len(s) \in Nat
  OBVIOUS
<1>3. f \in {1, 2} /\ (f = 2 <=> s # <<>> /\ s[1] = 45)
  BY DEF FirstDigit
<1>4. t = <<>> <=> ~(1 <= a)
  BY PartEmpty
<1>5. CASE a = 0
  <2>1. u = t /\ ~(1 <= a)
    BY <1>4, <1>5
  <2>2. ~IsDigits(t)
    BY <2>1, PartDigits
  <2>3. ~(f <= a)
    BY <1>3, <1>5
  <2> QED
    BY <1>1, <2>1, <2>2, <2>3, Zenon DEF LeadTo
<1>6. CASE a # 0
  <2>1. 1 <= a /\ s # <<>>
    BY <1>2, <1>6
  <2>2. t # <<>>
    BY <1>4, <2>1
  <2>3. t[1] = s[1]
    <3>1. ByteAt(t, 1, s[1])
      BY <2>1, PartFirst
    <3> QED
      BY <3>1, Zenon DEF ByteAt
  <2>4. PartOf(u, s, f, a)
    <3>1. CASE s[1] = 45
      <4>1. u = Tail(t)
        BY <2>2, <2>3, <3>1, Zenon
      <4>2. f = 1 + 1
        BY <1>3, <2>1, <3>1
      <4>3. PartOf(Tail(t), s, 1 + 1, a)
        BY <2>1, PartTail
      <4> QED
        BY <4>1, <4>2, <4>3, Zenon
    <3>2. CASE s[1] # 45
      <4>1. u = t
        BY <2>3, <3>2, Zenon
      <4>2. f = 1
        BY <1>3, <3>2
      <4> QED
        BY <4>1, <4>2, Zenon
    <3> QED
      BY <3>1, <3>2
  <2> HIDE DEF u, f
  <2>5. IsDigits(u) <=> f <= a /\ AllDigits(s, f, a)
    BY <2>4, PartDigits, Zenon
  <2>6. ASSUME f <= a PROVE u[1] = s[f] /\ (Len(u) = 1 <=> a = f)
    <3>1. ByteAt(u, 1, s[f])
      BY <2>4, <2>6, PartFirst
    <3>2. Len(u) = a - f + 1 /\ f \in Int
      BY <2>4 DEF PartOf
    <3>3. Len(u) = 1 <=> a = f
      BY <1>2, <3>2
    <3> QED
      BY <3>1, <3>3, Zenon DEF ByteAt
  <2>7. IsInt(t) <=> LeadTo(s, f, a)
    BY <1>1, <2>5, <2>6, Zenon DEF LeadTo
  <2> QED
    BY <2>7 DEF f
<1> QED
  BY <1>5, <1>6

LEMMA PartFraction ==
    ASSUME NEW s \in Seq(Int), NEW a \in Int, NEW c \in Int, 0 <= a, a <= c, NEW t, PartOf(t, s, a + 1, c)
    PROVE  IsFraction(t) <=> FractionTo(s, a, c)
<1>1. t = <<>> <=> c = a
  <2>1. t = <<>> <=> ~(a + 1 <= c)
    BY PartEmpty
  <2> QED
    BY <2>1
<1>2. CASE c = a
  BY <1>1, <1>2, Zenon DEF IsFraction, FractionTo
<1>3. CASE c # a
  <2>1. a + 1 <= c /\ (a + 1) + 1 = a + 2
    BY <1>3
  <2>2. ByteAt(t, 1, s[a + 1])
    BY <2>1, PartFirst
  <2>3. PartOf(Tail(t), s, (a + 1) + 1, c)
    BY <2>1, PartTail
  <2>4. PartOf(Tail(t), s, a + 2, c)
    BY <2>1, <2>3, Zenon
  <2>5. IsDigits(Tail(t)) <=> a + 2 <= c /\ AllDigits(s, a + 2, c)
    BY <2>4, PartDigits
  <2> QED
    BY <1>1, <1>3, <2>2, <2>5, Zenon DEF IsFraction, FractionTo, ByteAt
<1> QED
  BY <1>2, <1>3

LEMMA PartExponent ==
    ASSUME NEW s \in Seq(Int), NEW c \in Int, 0 <= c, c <= Len(s), NEW t, PartOf(t, s, c + 1, Len(s))
    PROVE  IsExponent(t) <=> ExponentFrom(s, c)
<1> DEFINE n == Len(s)
<1>0. n \in Int /\ c <= n /\ PartOf(t, s, c + 1, n)
  OBVIOUS
<1>9. n = Len(s)
  OBVIOUS
<1> HIDE DEF n
<1>1. t = <<>> <=> c = n
  <2>1. t = <<>> <=> ~(c + 1 <= n)
    BY <1>0, PartEmpty
  <2> QED
    BY <1>0, <2>1
<1>2. CASE c = n
  BY <1>1, <1>2, <1>9, Zenon DEF IsExponent, ExponentFrom
<1>3. CASE c # n
  <2>1. c + 1 <= n /\ (c + 1) + 1 = c + 2 /\ c + 1 \in Int
    BY <1>0, <1>3
  <2>2. t[1] = s[c + 1]
    <3>1. ByteAt(t, 1, s[c + 1])
      BY <1>0, <2>1, PartFirst
    <3> QED
      BY <3>1, Zenon DEF ByteAt
  <2>3. PartOf(Tail(t), s, c + 2, n)
    <3>1. PartOf(Tail(t), s, (c + 1) + 1, n)
      BY <1>0, <2>1, PartTail
    <3> QED
      BY <2>1, <3>1, Zenon
  <2>4. IsDigits(Tail(t)) <=> c + 2 <= n /\ AllDigits(s, c + 2, n)
    BY <2>3, PartDigits
  <2>5. Len(t) > 1 <=> c + 2 <= n
    <3>1. Len(t) = n - (c + 1) + 1
      BY <1>0 DEF PartOf
    <3> QED
      BY <1>0, <3>1
  <2>6. CASE c + 2 <= n
    <3>1. t[2] = s[c + 2]
      <4>1. 2 \in 1 .. n - (c + 1) + 1 /\ (c + 1) + 2 - 1 = c + 2
        BY <1>0, <2>6
      <4> QED
        BY <1>0, <4>1, Zenon DEF PartOf
    <3>2. IsDigits(SubSeq(t, 3, Len(t))) <=> c + 3 <= n /\ AllDigits(s, c + 3, n)
      <4>1. (c + 1) + 1 <= n /\ (c + 1) + 2 = c + 3
        BY <2>6
      <4>2. PartOf(SubSeq(t, 3, Len(t)), s, (c + 1) + 2, n)
        BY <1>0, <4>1, PartThird, Zenon
      <4>3. PartOf(SubSeq(t, 3, Len(t)), s, c + 3, n)
        BY <4>1, <4>2, Zenon
      <4> QED
        BY <4>3, PartDigits, Zenon
    <3> QED
      BY <1>1, <1>3, <1>9, <2>2, <2>4, <2>5, <2>6, <3>1, <3>2, Zenon DEF IsExponent, ExponentFrom
  <2>7. CASE ~(c + 2 <= n)
    <3>1. ~(c + 3 <= n)
      BY <1>0, <2>7
    <3> QED
      BY <1>1, <1>3, <1>9, <2>2, <2>4, <2>5, <2>7, <3>1, Zenon DEF IsExponent, ExponentFrom
  <2> QED
    BY <2>6, <2>7
<1> QED
  BY <1>2, <1>3

LEMMA NumberIs ==
    ASSUME NEW s \in Seq(Int)
    PROVE  IsNumber(s) <=> \E a \in 0 .. Len(s) : \E c \in a .. Len(s) :
                               LeadTo(s, FirstDigit(s), a) /\ FractionTo(s, a, c) /\ ExponentFrom(s, c)
<1>1. ASSUME NEW a \in 0 .. Len(s), NEW c \in a .. Len(s)
      PROVE  /\ IsInt(SubSeq(s, 1, a)) <=> LeadTo(s, FirstDigit(s), a)
             /\ IsFraction(SubSeq(s, a + 1, c)) <=> FractionTo(s, a, c)
             /\ IsExponent(SubSeq(s, c + 1, Len(s))) <=> ExponentFrom(s, c)
  <2> DEFINE n == Len(s)
  <2>1. n \in Int /\ a \in Int /\ c \in Int /\ 0 <= a /\ a <= c /\ c <= n
    OBVIOUS
  <2>2. n = Len(s)
    OBVIOUS
  <2> HIDE DEF n
  <2>3. /\ 1 <= a + 1 /\ a <= n /\ a + 1 <= c + 1 /\ c + 1 <= n + 1 /\ n <= n /\ a + 1 \in Int /\ c + 1 \in Int
        /\ 1 <= 1 /\ 1 <= c + 1 /\ 1 \in Int /\ 0 <= c
    BY <2>1
  <2>4. PartOf(SubSeq(s, 1, a), s, 1, a)
    BY <2>1, <2>2, <2>3, PartSubSeq, Zenon
  <2>5. PartOf(SubSeq(s, a + 1, c), s, a + 1, c)
    BY <2>1, <2>2, <2>3, PartSubSeq, Zenon
  <2>6. PartOf(SubSeq(s, c + 1, Len(s)), s, c + 1, Len(s))
    BY <2>1, <2>2, <2>3, PartSubSeq, Zenon
  <2>7. IsInt(SubSeq(s, 1, a)) <=> LeadTo(s, FirstDigit(s), a)
    BY <2>4, PartInt, Zenon
  <2>8. IsFraction(SubSeq(s, a + 1, c)) <=> FractionTo(s, a, c)
    BY <2>1, <2>5, PartFraction, Zenon
  <2>9. IsExponent(SubSeq(s, c + 1, Len(s))) <=> ExponentFrom(s, c)
    BY <2>1, <2>2, <2>3, <2>6, PartExponent, Zenon
  <2> QED
    BY <2>7, <2>8, <2>9
<1> QED
  BY <1>1, Zenon DEF IsNumber

-----------------------------------------------------------------------------
\* b is the stream of s, n bytes and the end.
Streamed(b, s, n) ==
    /\ n \in Nat /\ n = Len(s) /\ Len(b) = n + 1 /\ b \in Seq(Int)
    /\ b[n + 1] = -1
    /\ \A k \in 1 .. n + 1 : b[k] \in Int
    /\ \A k \in 1 .. n : b[k] = s[k]

\* The run of digits from i on ends before j.
DigitsEnd(b, i, j) == i <= j /\ AllDigits(b, i, j - 1) /\ ~IsDig(b[j])

LEMMA StreamedIs ==
    ASSUME NEW s \in Seq(Int), NEW b, b = s \o <<-1>>
    PROVE  Streamed(b, s, Len(s))
<1> DEFINE n == Len(s)
<1>1. n \in Nat /\ Len(b) = n + 1 /\ b \in Seq(Int) /\ b[n + 1] = -1 /\ \A k \in 1 .. n : b[k] = s[k]
  OBVIOUS
<1>2. \A k \in 1 .. Len(b) : b[k] \in Int
  BY <1>1
<1> HIDE DEF n
<1>3. \A k \in 1 .. n + 1 : b[k] \in Int
  BY <1>1, <1>2, Zenon
<1>4. n = Len(s)
  BY DEF n
<1> QED
  BY <1>1, <1>3, <1>4, Zenon DEF Streamed

LEMMA SkipDigits ==
    ASSUME NEW b, NEW s, NEW n, Streamed(b, s, n), NEW i \in 1 .. n + 1
    PROVE  LET j == Lex!Skip(b, i, Lex!Digit)
           IN  j \in i .. n + 1 /\ DigitsEnd(b, i, j)
<1>1. n \in Nat /\ Len(b) = n + 1 /\ b[n + 1] = -1 /\ \A k \in 1 .. n + 1 : b[k] \in Int
  BY DEF Streamed
<1>2. \A k \in 1 .. n + 1 : b[k] \in Lex!Digit <=> IsDig(b[k])
  BY <1>1, DigIs, Zenon DEF Lex!Digit
<1> DEFINE S == {k \in i .. n + 1 : ~IsDig(b[k])}
<1>3. S \in SUBSET Nat /\ n + 1 \in S /\ S # {}
  BY <1>1 DEF IsDig
<1>4. \E m \in S : \A k \in S : m <= k
  BY <1>3, Least, Zenon
<1>5. PICK m \in S : \A k \in S : m <= k
  BY <1>4, Zenon
<1>6. m \in i .. n + 1 /\ ~IsDig(b[m]) /\ \A k \in i .. m - 1 : IsDig(b[k])
  BY <1>1, <1>5
<1>7. \A x \in i .. n + 1 : (b[x] \notin Lex!Digit /\ \A k \in i .. x - 1 : b[k] \in Lex!Digit)
                             <=> DigitsEnd(b, i, x)
  <2> TAKE x \in i .. n + 1
  <2>1. x \in 1 .. n + 1 /\ i <= x /\ \A k \in i .. x - 1 : k \in 1 .. n + 1
    BY <1>1
  <2> QED
    BY <1>2, <2>1, Zenon DEF DigitsEnd, AllDigits
<1>8. \E x \in i .. Len(b) : b[x] \notin Lex!Digit /\ \A k \in i .. x - 1 : b[k] \in Lex!Digit
  <2>1. DigitsEnd(b, i, m)
    <3>1. i <= m
      BY <1>1, <1>6
    <3> QED
      BY <1>6, <3>1, Zenon DEF DigitsEnd, AllDigits
  <2> QED
    BY <1>1, <1>6, <1>7, <2>1, Zenon
<1> DEFINE j == Lex!Skip(b, i, Lex!Digit)
<1>9. j \in i .. Len(b) /\ b[j] \notin Lex!Digit /\ \A k \in i .. j - 1 : b[k] \in Lex!Digit
  BY <1>8, Zenon DEF Lex!Skip
<1> QED
  BY <1>1, <1>7, <1>9, Zenon

\* The exponent, if any, goes to the end of the text.
ExpFrom(b, n, c) ==
    \/ c = n
    \/ /\ b[c + 1] \in {69, 101}
       /\ \/ c + 2 <= n /\ AllDigits(b, c + 2, n)
          \/ c + 3 <= n /\ b[c + 2] \in {43, 45} /\ AllDigits(b, c + 3, n)

\* What the rest of a number makes of it: a real, to the end of the text
\* exactly if good.
RealIff(r, n, good) == r.kind \in {"real", "invalid"} /\ (r.kind = "real" /\ r.next = n + 1 <=> good)

LEMMA RealToken ==
    ASSUME NEW v, NEW j, NEW n
    PROVE  RealIff(Lex!Token("real", v, j), n, j = n + 1)
  BY Zenon DEF Lex!Token, RealIff

LEMMA BadToken ==
    ASSUME NEW n
    PROVE  RealIff(Lex!Bad, n, FALSE) /\ Lex!Bad.kind = "invalid"
  BY Zenon DEF Lex!Token, Lex!Bad, RealIff

LEMMA ScanExponentIs ==
    ASSUME NEW b, NEW s, NEW n, Streamed(b, s, n), NEW i, NEW j \in 1 .. n + 1
    PROVE  RealIff(Lex!ScanExponent(b, i, j), n, ExpFrom(b, n, j - 1))
<1> DEFINE d == IF b[j + 1] \in {43, 45} THEN j + 2 ELSE j + 1
           Real(e) == Lex!Token("real", SubSeq(b, i, e - 1), e)
           r == Lex!ScanExponent(b, i, j)
<1>0. n \in Nat /\ Len(b) = n + 1 /\ b[n + 1] = -1 /\ \A k \in 1 .. n + 1 : b[k] \in Int
  BY DEF Streamed
<1>1. r = IF b[j] \notin {69, 101} THEN Real(j)
          ELSE IF b[d] \notin Lex!Digit THEN Lex!Bad
          ELSE Real(Lex!Skip(b, d, Lex!Digit))
  BY Zenon DEF Lex!ScanExponent, Lex!Plus, Lex!Minus
<1>2. \A e : RealIff(Real(e), n, e = n + 1)
  BY RealToken, Zenon
<1>3. j \in Int /\ (j - 1) + 1 = j /\ (j - 1) + 2 = j + 1 /\ (j - 1) + 3 = j + 2 /\ (j - 1 = n <=> j = n + 1)
  BY <1>0
<1>4. ExpFrom(b, n, j - 1) <=>
          \/ j = n + 1
          \/ /\ b[j] \in {69, 101}
             /\ \/ j + 1 <= n /\ AllDigits(b, j + 1, n)
                \/ j + 2 <= n /\ b[j + 1] \in {43, 45} /\ AllDigits(b, j + 2, n)
  BY <1>3, ZenonT(60) DEF ExpFrom
<1> HIDE DEF Real
<1>5. CASE b[j] \notin {69, 101}
  <2>1. r = Real(j)
    BY <1>1, <1>5
  <2> QED
    BY <1>2, <1>4, <1>5, <2>1, Zenon DEF RealIff
<1>6. CASE b[j] \in {69, 101}
  <2>1. j <= n
    BY <1>0, <1>6
  <2>2. d \in 1 .. n + 1 /\ d > j
    BY <1>0, <1>6, <2>1
  <2>3. ExpFrom(b, n, j - 1) <=> d <= n /\ AllDigits(b, d, n)
    <3>0. j # n + 1
      BY <1>0, <2>1
    <3>1. CASE b[j + 1] \in {43, 45}
      <4>1. ~AllDigits(b, j + 1, n)
        <5>1. j + 1 <= n
          BY <1>0, <2>1, <3>1
        <5>2. ~IsDig(b[j + 1]) /\ j + 1 \in j + 1 .. n
          BY <1>0, <3>1, <5>1 DEF IsDig
        <5> QED
          BY <5>2, Zenon DEF AllDigits
      <4>2. d = j + 2
        BY <3>1
      <4> QED
        BY <1>4, <1>6, <3>0, <3>1, <4>1, <4>2, Zenon
    <3>2. CASE b[j + 1] \notin {43, 45}
      <4>1. d = j + 1
        BY <3>2
      <4> QED
        BY <1>4, <1>6, <3>0, <3>2, <4>1, Zenon
    <3> QED
      BY <3>1, <3>2
  <2>4. b[d] \in Lex!Digit <=> IsDig(b[d])
    BY <1>0, <2>2, DigIs, Zenon DEF Lex!Digit
  <2> HIDE DEF d, r
  <2>5. CASE ~IsDig(b[d])
    <3>1. r = Lex!Bad
      BY <1>1, <1>6, <2>4, <2>5, Zenon
    <3>2. ~(d <= n /\ AllDigits(b, d, n))
      <4>1. ASSUME d <= n, AllDigits(b, d, n) PROVE FALSE
        <5>1. d \in d .. n
          BY <2>2, <4>1
        <5> QED
          BY <2>5, <4>1, <5>1, Zenon DEF AllDigits
      <4> QED
        BY <4>1
    <3>3. RealIff(r, n, FALSE)
      BY <3>1, BadToken, Zenon
    <3> QED
      BY <2>3, <3>2, <3>3, Zenon DEF r, RealIff
  <2>6. CASE IsDig(b[d])
    <3> DEFINE e == Lex!Skip(b, d, Lex!Digit)
    <3>1. r = Real(e)
      BY <1>1, <1>6, <2>4, <2>6, Zenon
    <3>2. e \in d .. n + 1 /\ DigitsEnd(b, d, e)
      BY <2>2, SkipDigits, Zenon
    <3> HIDE DEF e
    <3>3. d <= n
      <4>1. d # n + 1
        BY <1>0, <2>6 DEF IsDig
      <4> QED
        BY <1>0, <2>2, <4>1
    <3>4. e = n + 1 <=> AllDigits(b, d, n)
      <4>1. CASE e = n + 1
        <5>1. e - 1 = n
          BY <1>0, <4>1
        <5> QED
          BY <3>2, <4>1, <5>1, Zenon DEF DigitsEnd
      <4>2. CASE e # n + 1
        <5>1. e \in d .. n
          BY <1>0, <2>2, <3>2, <4>2
        <5> QED
          BY <3>2, <4>2, <5>1, Zenon DEF DigitsEnd, AllDigits
      <4> QED
        BY <4>1, <4>2
    <3>5. RealIff(r, n, e = n + 1)
      BY <1>2, <3>1, Zenon
    <3> QED
      BY <2>3, <3>3, <3>4, <3>5, Zenon DEF r, RealIff
  <2> QED
    BY <2>5, <2>6
<1> QED
  BY <1>5, <1>6

\* The grammar at the places of the stream, from the first digit on.
GoodRest(b, n, a, c) == FractionTo(b, a, c) /\ ExpFrom(b, n, c)
\* What stands from j on is a good rest of the digits before it.
RestGood(b, n, j) == \E c \in j - 1 .. n : GoodRest(b, n, j - 1, c)
GoodFrom(b, n, f) == \E a \in 0 .. n : \E c \in a .. n : LeadTo(b, f, a) /\ GoodRest(b, n, a, c)

LEMMA SameDigits ==
    ASSUME NEW b, NEW s, NEW n, Streamed(b, s, n), NEW i \in Int, NEW j \in Int, 1 <= i, j <= n
    PROVE  AllDigits(s, i, j) <=> AllDigits(b, i, j)
<1>1. \A k \in i .. j : k \in 1 .. n
  BY DEF Streamed
<1> QED
  BY <1>1, Zenon DEF Streamed, AllDigits

LEMMA NumberAt ==
    ASSUME NEW s \in Seq(Int), NEW b, NEW n, Streamed(b, s, n)
    PROVE  IsNumber(s) <=> GoodFrom(b, n, FirstDigit(s))
<1> DEFINE f == FirstDigit(s)
<1>1. f \in {1, 2}
  BY DEF FirstDigit
<1>2. n \in Nat /\ n = Len(s) /\ \A k \in 1 .. n : b[k] = s[k]
  BY DEF Streamed
<1>6. \A i, j \in Int : 1 <= i /\ j <= n => (AllDigits(s, i, j) <=> AllDigits(b, i, j))
  BY SameDigits, Zenon
<1>3. ASSUME NEW a \in 0 .. n, NEW c \in a .. n
      PROVE  /\ LeadTo(s, f, a) <=> LeadTo(b, f, a)
             /\ FractionTo(s, a, c) <=> FractionTo(b, a, c)
             /\ ExponentFrom(s, c) <=> ExpFrom(b, n, c)
  <2> HIDE DEF f
  <2>1. a \in Int /\ c \in Int /\ f \in Int /\ 1 <= f /\ 1 <= a + 2 /\ 1 <= c + 2 /\ 1 <= c + 3 /\ n <= n
        /\ c <= n /\ a <= n /\ a + 2 \in Int /\ c + 2 \in Int /\ c + 3 \in Int /\ n \in Int
    BY <1>1, <1>2
  <2>2. AllDigits(s, f, a) <=> AllDigits(b, f, a)
    BY <1>6, <2>1
  <2>3. f <= a => s[f] = b[f]
    <3>1. f <= a => f \in 1 .. n
      BY <1>2, <2>1
    <3> QED
      BY <1>2, <3>1, Zenon
  <2>4. LeadTo(s, f, a) <=> LeadTo(b, f, a)
    BY <2>2, <2>3, Zenon DEF LeadTo
  <2>5. AllDigits(s, a + 2, c) <=> AllDigits(b, a + 2, c)
    BY <1>6, <2>1
  <2>6. a + 2 <= c => s[a + 1] = b[a + 1]
    <3>1. a + 2 <= c => a + 1 \in 1 .. n
      BY <1>2, <2>1
    <3> QED
      BY <1>2, <3>1, Zenon
  <2>7. FractionTo(s, a, c) <=> FractionTo(b, a, c)
    BY <2>5, <2>6, Zenon DEF FractionTo
  <2>8. AllDigits(s, c + 2, n) <=> AllDigits(b, c + 2, n)
    BY <1>6, <2>1
  <2>9. AllDigits(s, c + 3, n) <=> AllDigits(b, c + 3, n)
    BY <1>6, <2>1
  <2>10. c # n => s[c + 1] = b[c + 1]
    <3>1. c # n => c + 1 \in 1 .. n
      BY <1>2, <2>1
    <3> QED
      BY <1>2, <3>1, Zenon
  <2>11. c + 3 <= n => s[c + 2] = b[c + 2]
    <3>1. c + 3 <= n => c + 2 \in 1 .. n
      BY <1>2, <2>1
    <3> QED
      BY <1>2, <3>1, Zenon
  <2>12. ExponentFrom(s, c) <=> ExpFrom(b, n, c)
    BY <1>2, <2>8, <2>9, <2>10, <2>11, Zenon DEF ExponentFrom, ExpFrom
  <2> QED
    BY <2>4, <2>7, <2>12, Zenon
<1>4. IsNumber(s) <=> \E a \in 0 .. n : \E c \in a .. n :
                          LeadTo(s, f, a) /\ FractionTo(s, a, c) /\ ExponentFrom(s, c)
  BY <1>2, NumberIs, Zenon
<1> HIDE DEF f
<1>5. IsNumber(s) <=> GoodFrom(b, n, f)
  BY <1>3, <1>4, Zenon DEF GoodFrom, GoodRest
<1> QED
  BY <1>5, Zenon DEF f

\* A digit is neither a point nor the letter of an exponent.
LEMMA DigitGoesOn ==
    ASSUME NEW b, NEW n, NEW a, a # n, IsDig(b[a + 1]), b[a + 1] \in Int
    PROVE  ~ExpFrom(b, n, a) /\ \A c : ~GoodRest(b, n, a, c)
<1>1. b[a + 1] \notin {69, 101} /\ b[a + 1] # 46
  BY DEF IsDig
<1>2. ~ExpFrom(b, n, a)
  BY <1>1, Zenon DEF ExpFrom
<1> QED
  BY <1>1, <1>2, Zenon DEF GoodRest, FractionTo

\* The digits before a point go on as long as there are digits.
LEMMA LeadIs ==
    ASSUME NEW b, NEW s, NEW n, Streamed(b, s, n), NEW f \in 1 .. n, NEW j \in f + 1 .. n + 1,
           DigitsEnd(b, f, j), b[f] = 48 => j = f + 1
    PROVE  /\ LeadTo(b, f, n) <=> j = n + 1
           /\ GoodFrom(b, n, f) <=> \E c \in j - 1 .. n : GoodRest(b, n, j - 1, c)
<1>0. n \in Nat /\ \A k \in 1 .. n + 1 : b[k] \in Int
  BY DEF Streamed
<1>1. LeadTo(b, f, j - 1)
  <2>1. f <= j - 1 /\ (j = f + 1 => j - 1 = f)
    BY <1>0
  <2> QED
    BY <2>1, Zenon DEF LeadTo, DigitsEnd
<1>2. ASSUME NEW a \in 0 .. n, LeadTo(b, f, a) PROVE a <= j - 1
  <2>1. ASSUME ~(a <= j - 1) PROVE FALSE
    <3>1. j \in f .. a
      BY <1>0, <2>1
    <3> QED
      BY <1>2, <3>1, Zenon DEF LeadTo, DigitsEnd, AllDigits
  <2> QED
    BY <2>1
<1>3. ASSUME NEW a \in 0 .. n, LeadTo(b, f, a), NEW c \in a .. n, GoodRest(b, n, a, c) PROVE a = j - 1
  <2>1. f <= a
    BY <1>3 DEF LeadTo
  <2>2. a <= j - 1
    BY <1>2, <1>3, Zenon
  <2>3. ASSUME a # j - 1 PROVE FALSE
    <3>1. a + 1 \in f .. j - 1 /\ a # n /\ a + 1 \in 1 .. n + 1
      BY <1>0, <2>1, <2>2, <2>3
    <3>2. IsDig(b[a + 1]) /\ b[a + 1] \in Int
      BY <1>0, <3>1, Zenon DEF DigitsEnd, AllDigits
    <3> QED
      BY <1>3, <3>1, <3>2, DigitGoesOn, Zenon
  <2> QED
    BY <2>3
<1>4. j - 1 \in 0 .. n
  BY <1>0
<1>5. GoodFrom(b, n, f) <=> \E c \in j - 1 .. n : GoodRest(b, n, j - 1, c)
  BY <1>1, <1>3, <1>4, Zenon DEF GoodFrom
<1>6. LeadTo(b, f, n) => j = n + 1
  <2>1. n \in 0 .. n
    BY <1>0
  <2>2. LeadTo(b, f, n) => n <= j - 1
    BY <1>2, <2>1, Zenon
  <2> QED
    BY <1>0, <2>2
<1>7. j = n + 1 => j - 1 = n
  BY <1>0
<1> QED
  BY <1>1, <1>5, <1>6, <1>7, Zenon

\* What may stand where the digits end: nothing, an exponent, or a point.
LEMMA RestPlain ==
    ASSUME NEW b, NEW n \in Int, NEW a \in Int, a <= n, b[a + 1] # 46
    PROVE  (\E c \in a .. n : GoodRest(b, n, a, c)) <=> ExpFrom(b, n, a)
<1>1. a \in a .. n
  OBVIOUS
<1> QED
  BY <1>1, Zenon DEF GoodRest, FractionTo

LEMMA RestPoint ==
    ASSUME NEW b, NEW s, NEW n, Streamed(b, s, n), NEW j \in 1 .. n, b[j] = 46
    PROVE  /\ ~IsDig(b[j + 1]) => ~\E c \in j - 1 .. n : GoodRest(b, n, j - 1, c)
           /\ \A k \in j + 2 .. n + 1 : DigitsEnd(b, j + 1, k) =>
                  ((\E c \in j - 1 .. n : GoodRest(b, n, j - 1, c)) <=> ExpFrom(b, n, k - 1))
<1>0. n \in Nat /\ \A k \in 1 .. n + 1 : b[k] \in Int
  BY DEF Streamed
<1>1. (j - 1) + 1 = j /\ (j - 1) + 2 = j + 1 /\ j - 1 # n /\ j - 1 \in Int
  BY <1>0
<1>2. ~ExpFrom(b, n, j - 1)
  <2>1. b[j] \notin {69, 101}
    OBVIOUS
  <2> QED
    BY <1>1, <2>1, Zenon DEF ExpFrom
<1>3. ASSUME NEW c, GoodRest(b, n, j - 1, c)
      PROVE  j + 1 <= c /\ AllDigits(b, j + 1, c)
  BY <1>1, <1>2, <1>3, Zenon DEF GoodRest, FractionTo
<1>4. ASSUME ~IsDig(b[j + 1]), NEW c \in j - 1 .. n, GoodRest(b, n, j - 1, c) PROVE FALSE
  <2>1. j + 1 <= c /\ AllDigits(b, j + 1, c)
    BY <1>3, <1>4, Zenon
  <2>2. j + 1 \in j + 1 .. c
    BY <1>0, <2>1
  <2> QED
    BY <1>4, <2>1, <2>2, Zenon DEF AllDigits
<1>5. ASSUME NEW k \in j + 2 .. n + 1, DigitsEnd(b, j + 1, k)
      PROVE  (\E c \in j - 1 .. n : GoodRest(b, n, j - 1, c)) <=> ExpFrom(b, n, k - 1)
  <2>1. k - 1 \in j - 1 .. n /\ j + 1 <= k - 1
    BY <1>0
  <2>2. FractionTo(b, j - 1, k - 1)
    BY <1>1, <1>5, <2>1, Zenon DEF FractionTo, DigitsEnd
  <2>3. ASSUME NEW c \in j - 1 .. n, GoodRest(b, n, j - 1, c) PROVE c = k - 1
    <3>1. j + 1 <= c /\ AllDigits(b, j + 1, c)
      BY <1>3, <2>3, Zenon
    <3>2. ASSUME c > k - 1 PROVE FALSE
      <4>1. k \in j + 1 .. c
        BY <1>0, <3>2
      <4> QED
        BY <1>5, <3>1, <4>1, Zenon DEF DigitsEnd, AllDigits
    <3>3. ASSUME c < k - 1 PROVE FALSE
      <4>1. c + 1 \in j + 1 .. k - 1 /\ c + 1 \in 1 .. n + 1 /\ c # n
        BY <1>0, <3>1, <3>3
      <4>2. IsDig(b[c + 1]) /\ b[c + 1] \in Int
        BY <1>0, <1>5, <4>1, Zenon DEF DigitsEnd, AllDigits
      <4>3. ~ExpFrom(b, n, c)
        BY <4>1, <4>2, DigitGoesOn, Zenon
      <4> QED
        BY <2>3, <4>3, Zenon DEF GoodRest
    <3> QED
      BY <1>0, <3>2, <3>3
  <2> QED
    BY <2>1, <2>2, <2>3, Zenon DEF GoodRest
<1> QED
  BY <1>4, <1>5, Zenon

\* Whether a token is a number that ends with the text.
Verdict(r, n, good) == r.next = n + 1 /\ r.kind \in {"integer", "real"} <=> good

LEMMA RealVerdict ==
    ASSUME NEW r, NEW n, NEW good, RealIff(r, n, good)
    PROVE  Verdict(r, n, good)
<1>1. r.kind # "integer" /\ (r.kind = "real" /\ r.next = n + 1 <=> good)
  BY DEF RealIff
<1>2. r.kind \in {"integer", "real"} <=> r.kind = "real"
  BY <1>1
<1> QED
  BY <1>1, <1>2, Zenon DEF Verdict

LEMMA IntegerShort ==
    ASSUME NEW b, NEW i, NEW j \in Int, NEW n \in Nat, j # n + 1
    PROVE  Lex!ScanInteger(b, i, j).next # n + 1
<1> DEFINE r == Lex!ScanInteger(b, i, j)
           v == IF b[i] = Lex!Minus THEN -Lex!Decimal(SubSeq(b, i + 1, j - 1)) ELSE Lex!Decimal(SubSeq(b, i, j - 1))
<1>1. r = IF v \in Lex!IntMin .. IntMax THEN Lex!Token("integer", v, j) ELSE Lex!Bad
  BY Zenon DEF Lex!ScanInteger
<1> HIDE DEF v, r
<1>2. r.next = 0 \/ r.next = j
  BY <1>1 DEF Lex!Bad, Lex!Token
<1>3. 0 # n + 1
  OBVIOUS
<1> QED
  BY <1>2, <1>3, Zenon DEF r

\* From the digits before a point on.
LEMMA ScanFractionIs ==
    ASSUME NEW b, NEW s, NEW n, Streamed(b, s, n), NEW i, NEW j \in 2 .. n + 1,
           NEW r, r = Lex!ScanFraction(b, i, j)
    PROVE  \/ j = n + 1 /\ r = Lex!ScanInteger(b, i, n + 1) /\ RestGood(b, n, j)
           \/ j # n + 1 /\ Verdict(r, n, RestGood(b, n, j))
<1> DEFINE good == RestGood(b, n, j)
<1>0. n \in Nat /\ Len(b) = n + 1 /\ b[n + 1] = -1 /\ \A k \in 1 .. n + 1 : b[k] \in Int
  BY DEF Streamed
<1>1. r = IF b[j] \notin {46, 69, 101} THEN Lex!ScanInteger(b, i, j)
          ELSE IF b[j] # 46 THEN Lex!ScanExponent(b, i, j)
          ELSE IF b[j + 1] \notin Lex!Digit THEN Lex!Bad
          ELSE Lex!ScanExponent(b, i, Lex!Skip(b, j + 1, Lex!Digit))
  BY Zenon DEF Lex!ScanFraction, Lex!Dot
<1>2. /\ j - 1 \in Int /\ n \in Int /\ j - 1 <= n /\ (j - 1) + 1 = j /\ (j - 1 = n <=> j = n + 1)
      /\ j \in Int /\ j \in 1 .. n + 1
  BY <1>0
<1>3. b[j] # 46 => (good <=> ExpFrom(b, n, j - 1))
  BY <1>2, RestPlain, Zenon DEF RestGood
<1>4. ASSUME NEW k \in 1 .. n + 1 PROVE RealIff(Lex!ScanExponent(b, i, k), n, ExpFrom(b, n, k - 1))
  BY ScanExponentIs, Zenon
<1> HIDE DEF good
<1>5. CASE b[j] \notin {46, 69, 101}
  <2>1. r = Lex!ScanInteger(b, i, j) /\ b[j] # 46 /\ b[j] \notin {69, 101}
    BY <1>1, <1>5
  <2>2. good <=> j = n + 1
    BY <1>2, <1>3, <2>1, Zenon DEF ExpFrom
  <2>3. CASE j = n + 1
    BY <2>1, <2>2, <2>3, Zenon DEF good
  <2>4. CASE j # n + 1
    <3>1. r.next # n + 1
      BY <1>0, <1>2, <2>1, <2>4, IntegerShort, Zenon
    <3>2. Verdict(r, n, good)
      BY <2>2, <2>4, <3>1, Zenon DEF Verdict
    <3> QED
      BY <2>4, <3>2, Zenon DEF good, Verdict
  <2> QED
    BY <2>3, <2>4
<1>6. CASE b[j] \in {46, 69, 101}
  <2>1. j # n + 1 /\ j \in 1 .. n
    BY <1>0, <1>6
  <2>2. RealIff(r, n, good)
    <3>1. CASE b[j] # 46
      <4>1. r = Lex!ScanExponent(b, i, j)
        BY <1>1, <1>6, <3>1
      <4>2. RealIff(r, n, ExpFrom(b, n, j - 1))
        BY <1>2, <1>4, <4>1, Zenon
      <4> QED
        BY <1>3, <3>1, <4>2, Zenon DEF RealIff
    <3>2. CASE b[j] = 46
      <4>0. j + 1 \in 1 .. n + 1
        BY <1>0, <2>1
      <4>1. b[j + 1] \in Lex!Digit <=> IsDig(b[j + 1])
        BY <1>0, <4>0, DigIs, Zenon DEF Lex!Digit
      <4>2. CASE ~IsDig(b[j + 1])
        <5>1. r = Lex!Bad
          BY <1>1, <3>2, <4>1, <4>2
        <5>2. ~good
          BY <2>1, <3>2, <4>2, RestPoint, Zenon DEF good, RestGood
        <5>3. RealIff(r, n, FALSE)
          BY <5>1, BadToken, Zenon
        <5> QED
          BY <5>2, <5>3, Zenon DEF RealIff
      <4>3. CASE IsDig(b[j + 1])
        <5> DEFINE k == Lex!Skip(b, j + 1, Lex!Digit)
        <5>1. r = Lex!ScanExponent(b, i, k)
          BY <1>1, <3>2, <4>1, <4>3
        <5>2. k \in j + 1 .. n + 1 /\ DigitsEnd(b, j + 1, k)
          BY <4>0, SkipDigits, Zenon
        <5> HIDE DEF k
        <5>3. k \in j + 2 .. n + 1 /\ k \in 1 .. n + 1
          <6>1. k # j + 1
            BY <4>3, <5>2, Zenon DEF DigitsEnd
          <6> QED
            BY <1>0, <1>2, <5>2, <6>1
        <5>4. good <=> ExpFrom(b, n, k - 1)
          BY <2>1, <3>2, <5>2, <5>3, RestPoint, Zenon DEF good, RestGood
        <5>5. RealIff(r, n, ExpFrom(b, n, k - 1))
          BY <1>4, <5>1, <5>3, Zenon
        <5> QED
          BY <5>4, <5>5, Zenon DEF RealIff
      <4> QED
        BY <4>2, <4>3
    <3> QED
      BY <3>1, <3>2
  <2>3. Verdict(r, n, good)
    BY <2>2, RealVerdict, Zenon
  <2> QED
    BY <2>1, <2>3, Zenon DEF good, Verdict
<1> QED
  BY <1>5, <1>6

\* A number is taken to the end of the text exactly if the text is a number.
LEMMA ScanNumberIs ==
    ASSUME NEW s \in Seq(Int), NEW b, NEW n, Streamed(b, s, n), n >= 1
    PROVE  LET f == FirstDigit(s)
               r == Lex!lex_scan_number(b, 1)
           IN  \/ LeadTo(b, f, n) /\ GoodFrom(b, n, f) /\ r = Lex!ScanInteger(b, 1, n + 1)
               \/ ~LeadTo(b, f, n) /\ Verdict(r, n, GoodFrom(b, n, f))
<1> DEFINE f == FirstDigit(s)
           g == IF b[1] = Lex!Minus THEN 1 + 1 ELSE 1
           r == Lex!lex_scan_number(b, 1)
<1>0. /\ n \in Nat /\ n = Len(s) /\ Len(b) = n + 1 /\ b[n + 1] = -1
      /\ \A k \in 1 .. n + 1 : b[k] \in Int
      /\ \A k \in 1 .. n : b[k] = s[k]
  BY DEF Streamed
<1>1. f = g
  <2>1. s # <<>> /\ b[1] = s[1] /\ 1 + 1 = 2
    BY <1>0
  <2> QED
    BY <2>1, Zenon DEF FirstDigit, Lex!Minus
<1>2. r = IF b[g] \notin Lex!Digit \/ (b[g] = 48 /\ b[g + 1] \in Lex!Digit) THEN Lex!Bad
          ELSE Lex!ScanFraction(b, 1, IF b[g] = 48 THEN g + 1 ELSE Lex!Skip(b, g, Lex!Digit))
  BY Zenon DEF Lex!lex_scan_number
<1>3. f \in 1 .. n + 1
  BY <1>0 DEF FirstDigit
<1> HIDE DEF f, g, r
<1>4. b[f] \in Lex!Digit <=> IsDig(b[f])
  BY <1>0, <1>3, DigIs, Zenon DEF Lex!Digit
<1>5. ASSUME r = Lex!Bad, ~LeadTo(b, f, n), ~GoodFrom(b, n, f)
      PROVE  ~LeadTo(b, f, n) /\ Verdict(r, n, GoodFrom(b, n, f))
  <2>1. RealIff(r, n, FALSE)
    BY <1>5, BadToken, Zenon
  <2>2. Verdict(r, n, FALSE)
    BY <2>1, RealVerdict, Zenon
  <2> QED
    BY <1>5, <2>2, Zenon DEF Verdict
<1>6. CASE ~IsDig(b[f])
  <2>1. r = Lex!Bad
    BY <1>1, <1>2, <1>4, <1>6, Zenon
  <2>2. ASSUME NEW a, LeadTo(b, f, a) PROVE FALSE
    <3>1. f \in f .. a
      BY <1>3, <2>2, SMT DEF LeadTo
    <3> QED
      BY <1>6, <2>2, <3>1, Zenon DEF LeadTo, AllDigits
  <2>3. ~LeadTo(b, f, n) /\ ~GoodFrom(b, n, f)
    BY <2>2, Zenon DEF GoodFrom
  <2> QED
    BY <1>5, <2>1, <2>3, Zenon DEF f, r
<1>7. CASE IsDig(b[f])
  <2>1. f \in 1 .. n /\ f + 1 \in 1 .. n + 1
    <3>1. f # n + 1
      BY <1>0, <1>7 DEF IsDig
    <3> QED
      BY <1>0, <1>3, <3>1
  <2>2. b[f + 1] \in Lex!Digit <=> IsDig(b[f + 1])
    BY <1>0, <2>1, DigIs, Zenon DEF Lex!Digit
  <2>3. CASE b[f] = 48 /\ IsDig(b[f + 1])
    <3>1. r = Lex!Bad
      BY <1>1, <1>2, <2>2, <2>3, Zenon
    <3>2. f # n
      BY <1>0, <2>3 DEF IsDig
    <3>3. ~LeadTo(b, f, n)
      BY <2>3, <3>2, Zenon DEF LeadTo
    <3>4. \A c : ~GoodRest(b, n, f, c)
      BY <1>0, <2>1, <2>3, <3>2, DigitGoesOn, Zenon
    <3>5. ~GoodFrom(b, n, f)
      BY <2>3, <3>4, Zenon DEF GoodFrom, LeadTo
    <3> QED
      BY <1>5, <3>1, <3>3, <3>5, Zenon DEF f, r
  <2>4. CASE ~(b[f] = 48 /\ IsDig(b[f + 1]))
    <3> DEFINE j == IF b[f] = 48 THEN f + 1 ELSE Lex!Skip(b, f, Lex!Digit)
    <3>1. r = Lex!ScanFraction(b, 1, j)
      BY <1>1, <1>2, <1>4, <1>7, <2>2, <2>4, Zenon
    <3>2. j \in f + 1 .. n + 1 /\ DigitsEnd(b, f, j) /\ (b[f] = 48 => j = f + 1)
      <4>1. CASE b[f] = 48
        <5>1. j = f + 1 /\ ~IsDig(b[f + 1])
          BY <2>4, <4>1, Zenon
        <5>2. f <= f + 1 /\ \A k \in f .. (f + 1) - 1 : k = f
          BY <2>1
        <5>3. DigitsEnd(b, f, f + 1)
          BY <1>7, <5>1, <5>2, Zenon DEF DigitsEnd, AllDigits
        <5>4. f + 1 \in f + 1 .. n + 1
          BY <1>0, <2>1
        <5> QED
          BY <5>1, <5>3, <5>4, Zenon
      <4>2. CASE b[f] # 48
        <5>1. j = Lex!Skip(b, f, Lex!Digit)
          BY <4>2, Zenon
        <5>2. j \in f .. n + 1 /\ DigitsEnd(b, f, j)
          BY <1>3, <5>1, SkipDigits, ZenonT(60)
        <5>3. j # f
          BY <1>7, <5>2, Zenon DEF DigitsEnd
        <5> HIDE DEF j
        <5>4. j \in f + 1 .. n + 1
          BY <1>0, <1>3, <5>2, <5>3
        <5> QED
          BY <4>2, <5>2, <5>4, Zenon
      <4> QED
        BY <4>1, <4>2
    <3> HIDE DEF j
    <3>3. /\ LeadTo(b, f, n) <=> j = n + 1
          /\ GoodFrom(b, n, f) <=> RestGood(b, n, j)
      BY <2>1, <3>2, LeadIs, Zenon DEF RestGood
    <3>4. j \in 2 .. n + 1
      BY <1>0, <2>1, <3>2
    <3>5. \/ j = n + 1 /\ r = Lex!ScanInteger(b, 1, n + 1) /\ RestGood(b, n, j)
          \/ j # n + 1 /\ Verdict(r, n, RestGood(b, n, j))
      BY <3>1, <3>4, ScanFractionIs, Zenon
    <3> QED
      BY <3>3, <3>5, Zenon DEF f, r, Verdict
  <2> QED
    BY <2>3, <2>4
<1> QED
  BY <1>6, <1>7

-----------------------------------------------------------------------------
(* What an integer says. *)

\* A function from the front of a text to its end.
Forward(g, n, F) == g \in [0 .. n -> Int] /\ g[0] = 0 /\ \A k \in 1 .. n : g[k] = F[<<k - 1, g[k - 1]>>]

LEMMA ForwardIs ==
    ASSUME NEW n \in Nat, NEW F \in [Nat \X Int -> Int]
    PROVE  \E g : Forward(g, n, F)
<1>0. 0 \in Int
  OBVIOUS
<1>1. \E x : Runs(x, Int, 0, F)
  BY <1>0, Iterates, Zenon
<1>2. PICK x : Runs(x, Int, 0, F)
  BY <1>1, Zenon
<1>3. x \in [Nat -> Int] /\ x[0] = 0 /\ \A k \in Nat : x[k + 1] = F[<<k, x[k]>>]
  BY <1>2, Zenon DEF Runs
<1> DEFINE g == [k \in 0 .. n |-> x[k]]
<1>4. g \in [0 .. n -> Int] /\ g[0] = 0 /\ \A k \in 0 .. n : g[k] = x[k]
  BY <1>3
<1>5. ASSUME NEW k \in 1 .. n PROVE g[k] = F[<<k - 1, g[k - 1]>>]
  <2> HIDE DEF g
  <2>1. k - 1 \in Nat /\ k - 1 \in 0 .. n /\ k \in 0 .. n /\ (k - 1) + 1 = k
    OBVIOUS
  <2>2. g[k] = x[k] /\ g[k - 1] = x[k - 1]
    BY <1>4, <2>1, Zenon
  <2>3. x[(k - 1) + 1] = F[<<k - 1, x[k - 1]>>]
    BY <1>3, <2>1, Zenon
  <2> QED
    BY <2>1, <2>2, <2>3, Zenon
<1>6. Forward(g, n, F)
  BY <1>4, <1>5, Zenon DEF Forward
<1> QED
  BY <1>6, Zenon

\* The sum of the digits of t; a minus makes it 0.
Summed(g, t, n) ==
    \A k \in 0 .. n : g[k] = IF k = 0 THEN 0 ELSE IF t[k] = 45 THEN 0 ELSE 10 * g[k - 1] + t[k] - 48

LEMMA SumTyped ==
    ASSUME NEW n \in Nat, NEW t, \A k \in 1 .. n : t[k] \in Int, NEW g, Summed(g, t, n)
    PROVE  \A k \in 0 .. n : g[k] \in Int
<1> DEFINE S == {k \in Nat : k <= n => g[k] \in Int}
<1>1. 0 \in S
  BY DEF Summed
<1>2. ASSUME NEW k \in Nat, k \in S PROVE k + 1 \in S
  <2>1. CASE k + 1 <= n
    <3>1. k <= n /\ k + 1 \in 0 .. n /\ k + 1 \in 1 .. n /\ k + 1 # 0 /\ (k + 1) - 1 = k
      BY <2>1
    <3>2. g[k] \in Int
      BY <1>2, <3>1, Zenon
    <3>3. g[k + 1] = IF t[k + 1] = 45 THEN 0 ELSE 10 * g[(k + 1) - 1] + t[k + 1] - 48
      BY <3>1, Zenon DEF Summed
    <3>4. t[k + 1] \in Int /\ g[k + 1] = IF t[k + 1] = 45 THEN 0 ELSE 10 * g[k] + t[k + 1] - 48
      BY <3>1, <3>3, Zenon
    <3>5. g[k + 1] \in Int
      BY <3>2, <3>4
    <3>6. k + 1 \in Nat
      OBVIOUS
    <3> QED
      BY <3>5, <3>6, Zenon
  <2>2. CASE ~(k + 1 <= n)
    BY <2>2
  <2> QED
    BY <2>1, <2>2
<1> HIDE DEF S
<1>3. \A k \in Nat : k \in S
  BY <1>1, <1>2, Induction, Zenon
<1>4. \A k \in 0 .. n : k \in Nat /\ k <= n
  OBVIOUS
<1> QED
  BY <1>3, <1>4, Zenon DEF S

LEMMA SumExists ==
    ASSUME NEW n \in Nat, NEW t, \A k \in 1 .. n : t[k] \in Int
    PROVE  \E g : g \in [0 .. n -> Int] /\ Summed(g, t, n)
<1> DEFINE F == [p \in Nat \X Int |-> IF p[1] < n THEN IF t[p[1] + 1] = 45 THEN 0 ELSE 10 * p[2] + t[p[1] + 1] - 48
                                      ELSE 0]
<1>1. F \in [Nat \X Int -> Int]
  OBVIOUS
<1>2. \A k \in Nat, v \in Int :
          F[<<k, v>>] = IF k < n THEN IF t[k + 1] = 45 THEN 0 ELSE 10 * v + t[k + 1] - 48 ELSE 0
  OBVIOUS
<1> HIDE DEF F
<1>3. \E g : Forward(g, n, F)
  BY <1>1, ForwardIs, Zenon
<1>4. PICK g : Forward(g, n, F)
  BY <1>3, Zenon
<1>5. g \in [0 .. n -> Int] /\ g[0] = 0 /\ \A k \in 1 .. n : g[k] = F[<<k - 1, g[k - 1]>>]
  BY <1>4, Zenon DEF Forward
<1>6. ASSUME NEW k \in 1 .. n PROVE g[k] = IF t[k] = 45 THEN 0 ELSE 10 * g[k - 1] + t[k] - 48
  <2>1. k - 1 \in Nat /\ k - 1 < n /\ (k - 1) + 1 = k /\ k - 1 \in 0 .. n
    OBVIOUS
  <2>2. g[k - 1] \in Int
    BY <1>5, <2>1
  <2>3. F[<<k - 1, g[k - 1]>>] = IF t[(k - 1) + 1] = 45 THEN 0 ELSE 10 * g[k - 1] + t[(k - 1) + 1] - 48
    BY <1>2, <2>1, <2>2, Zenon
  <2> QED
    BY <1>5, <2>1, <2>3, Zenon
<1>7. \A k \in 0 .. n : k = 0 \/ k \in 1 .. n
  OBVIOUS
<1>8. Summed(g, t, n)
  BY <1>5, <1>6, <1>7, Zenon DEF Summed
<1> QED
  BY <1>5, <1>8, Zenon

LEMMA DecimalIs ==
    ASSUME NEW t \in Seq(Int), \A k \in 1 .. Len(t) : t[k] # 45
    PROVE  \E g : Summed(g, t, Len(t)) /\ Lex!Decimal(t) = g[Len(t)]
<1> DEFINE n == Len(t)
           Sum(f, k) == IF k = 0 THEN 0 ELSE 10 * f[k - 1] + t[k] - 48
           step(f) == [k \in 0 .. n |-> Sum(f, k)]
           value == CHOOSE f : f = step(f)
<1>1. n \in Nat /\ \A k \in 1 .. n : t[k] \in Int /\ t[k] # 45
  OBVIOUS
<1>2. Lex!Decimal(t) = value[n]
  BY Zenon DEF Lex!Decimal
<1> HIDE DEF n
<1>3. \A f : Summed(f, t, n) <=> \A k \in 0 .. n : f[k] = Sum(f, k)
  <2>1. \A k \in 0 .. n : k = 0 \/ k \in 1 .. n
    BY <1>1
  <2> QED
    BY <1>1, <2>1, Zenon DEF Summed
<1> HIDE DEF Sum
<1>4. \E g : g \in [0 .. n -> Int] /\ Summed(g, t, n)
  BY <1>1, SumExists, Zenon
<1>5. \E g : g = step(g)
  <2>1. PICK g : g \in [0 .. n -> Int] /\ Summed(g, t, n)
    BY <1>4, Zenon
  <2>2. g = [k \in 0 .. n |-> g[k]]
    BY <2>1
  <2>3. \A k \in 0 .. n : g[k] = Sum(g, k)
    BY <1>3, <2>1, Zenon
  <2>4. g = step(g)
    BY <2>2, <2>3
  <2> QED
    BY <2>4, Zenon
<1>6. value = step(value)
  <2> HIDE DEF step
  <2> QED
    BY <1>5, Zenon
<1>7. \A k \in 0 .. n : value[k] = Sum(value, k)
  <2>1. \A f : \A k \in 0 .. n : step(f)[k] = Sum(f, k)
    OBVIOUS
  <2> HIDE DEF step, value
  <2> QED
    BY <1>6, <2>1, Zenon
<1> HIDE DEF value
<1>8. Summed(value, t, n)
  BY <1>3, <1>7, Zenon
<1> QED
  BY <1>2, <1>8, Zenon DEF n

LEMMA NumberValue ==
    ASSUME NEW t \in Seq(Int)
    PROVE  \E g : Summed(g, t, Len(t)) /\ Number(t) = IF t[1] = 45 THEN -g[Len(t)] ELSE g[Len(t)]
<1> DEFINE n == Len(t)
           Sum(f, k) == IF k = 0 THEN 0 ELSE IF t[k] = 45 THEN 0 ELSE 10 * f[k - 1] + t[k] - 48
           step(f) == [k \in 0 .. n |-> Sum(f, k)]
           value == CHOOSE f : f = step(f)
<1>1. n \in Nat /\ \A k \in 1 .. n : t[k] \in Int
  OBVIOUS
<1>2. Number(t) = IF t[1] = 45 THEN -value[n] ELSE value[n]
  BY Zenon DEF Number
<1> HIDE DEF n
<1>3. \A f : Summed(f, t, n) <=> \A k \in 0 .. n : f[k] = Sum(f, k)
  BY Zenon DEF Summed
<1> HIDE DEF Sum
<1>4. \E g : g \in [0 .. n -> Int] /\ Summed(g, t, n)
  BY <1>1, SumExists, Zenon
<1>5. \E g : g = step(g)
  <2>1. PICK g : g \in [0 .. n -> Int] /\ Summed(g, t, n)
    BY <1>4, Zenon
  <2>2. g = [k \in 0 .. n |-> g[k]]
    BY <2>1
  <2>3. \A k \in 0 .. n : g[k] = Sum(g, k)
    BY <1>3, <2>1, Zenon
  <2>4. g = step(g)
    BY <2>2, <2>3
  <2> QED
    BY <2>4, Zenon
<1>6. value = step(value)
  <2> HIDE DEF step
  <2> QED
    BY <1>5, Zenon
<1>7. \A k \in 0 .. n : value[k] = Sum(value, k)
  <2>1. \A f : \A k \in 0 .. n : step(f)[k] = Sum(f, k)
    OBVIOUS
  <2> HIDE DEF step, value
  <2> QED
    BY <1>6, <2>1, Zenon
<1> HIDE DEF value
<1>8. Summed(value, t, n)
  BY <1>3, <1>7, Zenon
<1> QED
  BY <1>2, <1>8, Zenon DEF n

\* Where the digits of s begin; two numbers that are the same.
Leads(f, s) == f \in {1, 2} /\ (f = 2 <=> s[1] = 45)
Same(x, y) == x = y

\* The digits behind a minus say what they say without it.
LEMMA SameSum ==
    ASSUME NEW s \in Seq(Int), NEW f, Leads(f, s), NEW n \in Nat, n = Len(s), f <= n, AllDigits(s, f, n),
           NEW t, PartOf(t, s, f, n), NEW g, Summed(g, t, n - f + 1), NEW h, Summed(h, s, n)
    PROVE  Same(g[n - f + 1], h[n])
<1> DEFINE m == n - f + 1
           S == {k \in Nat : k <= m => g[k] = h[k + f - 1]}
<1>0. f \in {1, 2} /\ (f = 2 => s[1] = 45)
  BY DEF Leads
<1>1. m \in Nat /\ f \in Int
  BY <1>0
<1>2. \A k \in 1 .. m : t[k] = s[f + k - 1]
  BY DEF PartOf
<1>3. 0 \in S
  <2>1. g[0] = 0
    <3>1. 0 \in 0 .. n - f + 1
      BY <1>0
    <3> QED
      BY <3>1, Zenon DEF Summed
  <2>2. h[f - 1] = 0
    <3>1. CASE f = 1
      <4>1. f - 1 = 0 /\ 0 \in 0 .. n
        BY <3>1
      <4> QED
        BY <4>1, Zenon DEF Summed
    <3>2. CASE f = 2
      <4>1. f - 1 = 1 /\ 1 \in 0 .. n /\ 1 # 0
        BY <3>2
      <4> QED
        BY <1>0, <3>2, <4>1, ZenonT(60) DEF Summed
    <3> QED
      BY <1>0, <3>1, <3>2
  <2>3. 0 + f - 1 = f - 1
    BY <1>1
  <2>4. g[0] = h[0 + f - 1]
    BY <2>1, <2>2, <2>3, Zenon
  <2> QED
    BY <2>4
<1>4. ASSUME NEW k \in Nat, k \in S PROVE k + 1 \in S
  <2>1. CASE k + 1 <= m
    <3>1. /\ k <= m /\ k + 1 \in 0 .. n - f + 1 /\ k + 1 \in 1 .. m /\ k + 1 # 0 /\ (k + 1) - 1 = k
          /\ k + f \in 0 .. n /\ k + f # 0 /\ (k + f) - 1 = k + f - 1 /\ f + (k + 1) - 1 = k + f
          /\ (k + 1) + f - 1 = k + f /\ k + f \in f .. n
      BY <1>0, <1>1, <2>1
    <3>2. g[k] = h[k + f - 1]
      BY <1>4, <3>1, Zenon
    <3>3. t[k + 1] = s[k + f]
      BY <1>2, <3>1, Zenon
    <3>4. s[k + f] # 45
      <4>1. IsDig(s[k + f])
        BY <3>1, Zenon DEF AllDigits
      <4> QED
        BY <4>1 DEF IsDig
    <3>9. g[k + 1] = IF k + 1 = 0 THEN 0 ELSE IF t[k + 1] = 45 THEN 0 ELSE 10 * g[(k + 1) - 1] + t[k + 1] - 48
      BY <3>1, Zenon DEF Summed
    <3>5. g[k + 1] = 10 * g[k] + t[k + 1] - 48
      BY <3>1, <3>3, <3>4, <3>9, Zenon
    <3>6. h[k + f] = 10 * h[k + f - 1] + s[k + f] - 48
      BY <3>1, <3>4, Zenon DEF Summed
    <3>7. g[k + 1] = h[(k + 1) + f - 1]
      BY <3>1, <3>2, <3>3, <3>5, <3>6, Zenon
    <3>8. k + 1 \in Nat
      OBVIOUS
    <3> QED
      BY <3>7, <3>8, Zenon
  <2>2. CASE ~(k + 1 <= m)
    BY <2>2
  <2> QED
    BY <2>1, <2>2
<1> HIDE DEF S
<1>5. \A k \in Nat : k \in S
  BY <1>3, <1>4, Induction, Zenon
<1>6. g[m] = h[m + f - 1] /\ m + f - 1 = n
  <2>1. m \in S /\ m <= m /\ m + f - 1 = n
    BY <1>1, <1>5
  <2> QED
    BY <2>1, Zenon DEF S
<1>7. g[n - f + 1] = h[n]
  BY <1>6, Zenon
<1> QED
  BY <1>7 DEF Same

\* A whole number is read as what it says, if an int holds it.
IntegerRead(r, s) ==
    \/ Number(s) \in -IntMax - 1 .. IntMax /\ r = Lex!Token("integer", Number(s), Len(s) + 1)
    \/ Number(s) \notin -IntMax - 1 .. IntMax /\ r = Lex!Bad

LEMMA DigitsArePart ==
    ASSUME NEW s \in Seq(Int), NEW f, Leads(f, s), NEW n \in Nat, n = Len(s), f <= n, AllDigits(s, f, n),
           NEW b, Streamed(b, s, n), NEW t, t = SubSeq(b, f, n)
    PROVE  t \in Seq(Int) /\ Len(t) \in Nat /\ PartOf(t, s, f, n) /\ \A k \in 1 .. Len(t) : t[k] # 45
<1>1. b \in Seq(Int) /\ Len(b) = n + 1 /\ \A k \in 1 .. n : b[k] = s[k]
  BY DEF Streamed
<1>2. f \in Int /\ n \in Int /\ 1 <= f /\ f <= n + 1 /\ n <= Len(b)
  BY <1>1 DEF Leads
<1>3. PartOf(t, b, f, n)
  BY <1>1, <1>2, PartSubSeq, Zenon
<1>4. t \in Seq(Int) /\ Len(t) = n - f + 1 /\ \A k \in 1 .. n - f + 1 : t[k] = b[f + k - 1]
  BY <1>3, Zenon DEF PartOf
<1>5. ASSUME NEW k \in 1 .. n - f + 1 PROVE t[k] = s[f + k - 1] /\ t[k] # 45
  <2>1. f + k - 1 \in 1 .. n /\ f + k - 1 \in f .. n
    BY <1>2
  <2>2. t[k] = s[f + k - 1] /\ IsDig(s[f + k - 1])
    BY <1>1, <1>4, <2>1, Zenon DEF AllDigits
  <2>3. IsDig(t[k])
    BY <2>2, Zenon
  <2>4. ~IsDig(45)
    BY DEF IsDig
  <2> QED
    BY <2>2, <2>3, <2>4, Zenon
<1>6. PartOf(t, s, f, n)
  BY <1>2, <1>4, <1>5, Zenon DEF PartOf
<1>7. \A k \in 1 .. Len(t) : t[k] # 45
  BY <1>4, <1>5, Zenon
<1>8. Len(t) \in Nat
  BY <1>4
<1> QED
  BY <1>4, <1>6, <1>7, <1>8, Zenon

LEMMA ScanIntegerIs ==
    ASSUME NEW s \in Seq(Int), NEW n \in Nat, n = Len(s), n >= 1, NEW b, Streamed(b, s, n),
           LeadTo(s, FirstDigit(s), n)
    PROVE  IntegerRead(Lex!ScanInteger(b, 1, n + 1), s)
<1> DEFINE f == FirstDigit(s)
           t == SubSeq(b, f, n)
           r == Lex!ScanInteger(b, 1, n + 1)
           v == IF b[1] = 45 THEN -Lex!Decimal(t) ELSE Lex!Decimal(t)
<1>1. f \in {1, 2} /\ (f = 2 <=> s[1] = 45) /\ b[1] = s[1]
  <2>1. s # <<>> /\ b[1] = s[1]
    BY DEF Streamed
  <2> QED
    BY <2>1 DEF FirstDigit
<1>2. r = IF v \in Lex!IntMin .. IntMax THEN Lex!Token("integer", v, n + 1) ELSE Lex!Bad
  <2>1. 1 + 1 = 2 /\ (n + 1) - 1 = n
    OBVIOUS
  <2>2. f = IF b[1] = 45 THEN 2 ELSE 1
    BY <1>1
  <2> HIDE DEF f
  <2>3. SubSeq(b, IF b[1] = 45 THEN 1 + 1 ELSE 1, (n + 1) - 1) = t
    BY <2>1, <2>2, Zenon
  <2> HIDE DEF t
  <2>4. v = IF b[1] = 45 THEN -Lex!Decimal(SubSeq(b, 1 + 1, (n + 1) - 1)) ELSE Lex!Decimal(SubSeq(b, 1, (n + 1) - 1))
    BY <2>3, Zenon
  <2> HIDE DEF v
  <2> QED
    BY <2>4, Zenon DEF Lex!ScanInteger, Lex!Minus
<1>3. f <= n /\ AllDigits(s, f, n)
  BY Zenon DEF LeadTo
<1> HIDE DEF f
<1>0. Leads(f, s)
  BY <1>1, Zenon DEF Leads
<1>4. t \in Seq(Int) /\ Len(t) \in Nat /\ PartOf(t, s, f, n) /\ \A k \in 1 .. Len(t) : t[k] # 45
  BY <1>0, <1>3, DigitsArePart, ZenonT(60)
<1> HIDE DEF t, r
<1>5. \E g : Summed(g, t, Len(t)) /\ Lex!Decimal(t) = g[Len(t)]
  BY <1>4, DecimalIs, Zenon
<1>6. PICK g : Summed(g, t, Len(t)) /\ Lex!Decimal(t) = g[Len(t)]
  BY <1>5, Zenon
<1>7. \E h : Summed(h, s, Len(s)) /\ Number(s) = IF s[1] = 45 THEN -h[Len(s)] ELSE h[Len(s)]
  BY NumberValue, Zenon
<1>8. PICK h : Summed(h, s, Len(s)) /\ Number(s) = IF s[1] = 45 THEN -h[Len(s)] ELSE h[Len(s)]
  BY <1>7, Zenon
<1>9. Len(t) = n - f + 1
  BY <1>4, Zenon DEF PartOf
<1>10. g[n - f + 1] = h[n]
  <2>1. Summed(g, t, n - f + 1) /\ Summed(h, s, n)
    BY <1>6, <1>8, <1>9, Zenon
  <2>2. Same(g[n - f + 1], h[n])
    BY <1>0, <1>3, <1>4, <2>1, SameSum, Zenon
  <2> QED
    BY <2>2 DEF Same
<1>11. v = Number(s)
  BY <1>1, <1>6, <1>8, <1>9, <1>10, Zenon
<1>12. r = Lex!Bad \/ r = Lex!Token("integer", Number(s), n + 1)
  BY <1>2, <1>11, Zenon
<1> HIDE DEF v
<1>13. Lex!IntMin = -IntMax - 1
  BY Zenon DEF Lex!IntMin
<1>14. IntegerRead(r, s)
  BY <1>2, <1>11, <1>13, Zenon DEF IntegerRead
<1> QED
  BY <1>14, Zenon DEF r

-----------------------------------------------------------------------------
\* A text of ASCII is received as it is.
LEMMA AsciiReceived ==
    ASSUME NEW s \in Strings, Ascii(s)
    PROVE  Received(Lex!Stream(s), s \o <<-1>>)
<1>1. \E from : Readable(s, from) /\ (Lex!utf8_check_string(s) <=> 1 \in from)
  BY CheckString, Zenon
<1>2. PICK from : Readable(s, from) /\ (Lex!utf8_check_string(s) <=> 1 \in from)
  BY <1>1, Zenon
<1>3. Len(s) + 1 \in from /\ 1 + Len(s) = Len(s) + 1 /\ 1 \in Int /\ Stands(s, s, 1)
  <2>1. s \in Seq(Int) /\ 1 + Len(s) = Len(s) + 1
    BY DEF Strings
  <2> QED
    BY <1>2, <2>1, StandsSelf DEF Readable
<1>4. 1 + Len(s) \in from /\ \A k \in 1 .. Len(s) : s[k] < 128
  BY <1>3, Zenon DEF Ascii
<1>5. 1 \in from
  BY <1>2, <1>3, <1>4, AsciiReadable, Zenon
<1>9. Lex!utf8_check_string(s)
  BY <1>2, <1>5, Zenon
<1> QED
  BY <1>9, StreamIs, Zenon

\* What the first byte decides.
LEMMA ScanAtNumber ==
    ASSUME NEW r, NEW b \in Seq(Int), Received(r, b), NEW n \in Nat, Len(b) = n, n >= 1, b[1] \in {45} \cup 48 .. 57
    PROVE  Lex!lex_scan(r, 1) = Lex!lex_scan_number(b, 1)
<1>1. r.bytes = b
  BY DEF Received
<1>2. Lex!Skip(b, 1, Lex!Blank) = 1
  <2>1. b[1] \notin Lex!Blank
    BY DEF Lex!Blank
  <2> QED
    BY <2>1, FirstIs, Zenon
<1> DEFINE j == Lex!Skip(r.bytes, 1, Lex!Blank)
           c == r.bytes[j]
           word == Lex!Skip(r.bytes, j, Lex!Upper \cup Lex!Lower)
           A == IF r.eof THEN Lex!Token("end", <<>>, j) ELSE Lex!Bad
           B == Lex!Token("mark", c, j + 1)
           C == Lex!lex_scan_string(r.bytes, j + 1)
           D == Lex!lex_scan_number(r.bytes, j)
           E == IF SubSeq(r.bytes, j, word - 1) \in Lex!Names
                THEN Lex!Token("name", SubSeq(r.bytes, j, word - 1), word) ELSE Lex!Bad
           isEof == c = Lex!Eof
           isMark == c \in {123, 125, 91, 93, 58, 44}
           isQuote == c = Lex!Quote
           isNumber == c \in Lex!Digit \cup {Lex!Minus}
           isLetter == c \in Lex!Upper \cup Lex!Lower
<1>3. Lex!lex_scan(r, 1) =
          CASE isEof -> A [] isMark -> B [] isQuote -> C [] isNumber -> D [] isLetter -> E [] OTHER -> Lex!Bad
  BY Zenon DEF Lex!lex_scan
<1>4. c = b[1] /\ D = Lex!lex_scan_number(b, 1)
  BY <1>1, <1>2, Zenon
<1> HIDE DEF A, B, C, D, E, c
<1>5. ~isEof /\ ~isMark /\ ~isQuote /\ isNumber /\ ~isLetter
  <2>1. c \in {45} \cup 48 .. 57
    BY <1>4, Zenon
  <2>2. c # -1 /\ c # 34 /\ c # 123 /\ c # 125 /\ c # 91 /\ c # 93 /\ c # 58 /\ c # 44
        /\ c \notin (65 .. 90) \cup (97 .. 122)
    BY <2>1
  <2>3. c \in (48 .. 57) \cup {45}
    BY <2>1, Zenon
  <2> QED
    BY <2>2, <2>3, Zenon DEF Lex!Eof, Lex!Quote, Lex!Digit, Lex!Minus, Lex!Upper, Lex!Lower
<1>6. Lex!lex_scan(r, 1) = D
  <2> HIDE DEF isEof, isMark, isQuote, isNumber, isLetter
  <2> QED
    BY <1>3, <1>5
<1> QED
  BY <1>4, <1>6, Zenon

LEMMA ScanElsewhere ==
    ASSUME NEW r, NEW b \in Seq(Int), Received(r, b), NEW n \in Nat, Len(b) = n, n >= 1, b[1] \in {-1, 43, 46, 69, 101}
    PROVE  Lex!lex_scan(r, 1).kind \in {"end", "name", "invalid"}
<1>1. r.bytes = b
  BY DEF Received
<1>2. Lex!Skip(b, 1, Lex!Blank) = 1
  <2>1. b[1] \notin Lex!Blank
    BY DEF Lex!Blank
  <2> QED
    BY <2>1, FirstIs, Zenon
<1> DEFINE j == Lex!Skip(r.bytes, 1, Lex!Blank)
           c == r.bytes[j]
           word == Lex!Skip(r.bytes, j, Lex!Upper \cup Lex!Lower)
           A == IF r.eof THEN Lex!Token("end", <<>>, j) ELSE Lex!Bad
           B == Lex!Token("mark", c, j + 1)
           C == Lex!lex_scan_string(r.bytes, j + 1)
           D == Lex!lex_scan_number(r.bytes, j)
           E == IF SubSeq(r.bytes, j, word - 1) \in Lex!Names
                THEN Lex!Token("name", SubSeq(r.bytes, j, word - 1), word) ELSE Lex!Bad
           isEof == c = Lex!Eof
           isMark == c \in {123, 125, 91, 93, 58, 44}
           isQuote == c = Lex!Quote
           isNumber == c \in Lex!Digit \cup {Lex!Minus}
           isLetter == c \in Lex!Upper \cup Lex!Lower
<1>3. Lex!lex_scan(r, 1) =
          CASE isEof -> A [] isMark -> B [] isQuote -> C [] isNumber -> D [] isLetter -> E [] OTHER -> Lex!Bad
  BY Zenon DEF Lex!lex_scan
<1>4. c = b[1]
  BY <1>1, <1>2, Zenon
<1>5. A.kind \in {"end", "name", "invalid"} /\ E.kind \in {"end", "name", "invalid"} /\ Lex!Bad.kind = "invalid"
  <2> HIDE DEF j, word
  <2>1. \A v, m : Lex!Token("end", v, m).kind = "end" /\ Lex!Token("name", v, m).kind = "name" /\ Lex!Bad.kind = "invalid"
    BY DEF Lex!Token, Lex!Bad
  <2> QED
    BY <2>1
<1> HIDE DEF A, B, C, D, E, c
<1>6. ~isMark /\ ~isQuote /\ ~isNumber
  <2>1. c = -1 \/ c = 43 \/ c = 46 \/ c = 69 \/ c = 101
    BY <1>4
  <2>3. c \in Int
    BY <2>1
  <2>2. c # 45 /\ c # 34 /\ c # 123 /\ c # 125 /\ c # 91 /\ c # 93 /\ c # 58 /\ c # 44 /\ c \notin 48 .. 57
    BY <2>1, <2>3
  <2> QED
    BY <2>2, Zenon DEF Lex!Quote, Lex!Digit, Lex!Minus
<1>7. Lex!lex_scan(r, 1) = A \/ Lex!lex_scan(r, 1) = E \/ Lex!lex_scan(r, 1) = Lex!Bad
  <2> HIDE DEF isEof, isMark, isQuote, isNumber, isLetter
  <2> QED
    BY <1>3, <1>6
<1> QED
  BY <1>5, <1>7

\* What LexExact says of a number.
NumberRead(t, s) ==
    /\ t.next = Len(s) + 1 /\ t.kind \in {"integer", "real"}
        <=> IsNumber(s) /\ (IsInt(s) => Number(s) \in -IntMax - 1 .. IntMax)
    /\ IsInt(s) /\ t.kind = "integer" => t.value = Number(s)

LEMMA NotLed ==
    ASSUME NEW b, NEW f \in Int, ~IsDig(b[f]), NEW a \in Int
    PROVE  ~LeadTo(b, f, a)
<1>1. ASSUME LeadTo(b, f, a) PROVE FALSE
  <2>1. f \in f .. a
    BY <1>1 DEF LeadTo
  <2> QED
    BY <1>1, <2>1, Zenon DEF LeadTo, AllDigits
<1> QED
  BY <1>1

LEMMA IntegerFields ==
    ASSUME NEW v, NEW j
    PROVE  /\ Lex!Token("integer", v, j).kind = "integer" /\ Lex!Token("integer", v, j).next = j
           /\ Lex!Token("integer", v, j).value = v
           /\ Lex!Bad.kind = "invalid"
  BY DEF Lex!Token, Lex!Bad

NumberBytes == {43, 45, 46, 69, 101} \cup 48 .. 57

LEMMA ReadsNumbers ==
    ASSUME NEW s \in Seq(NumberBytes)
    PROVE  NumberRead(Lex!lex_scan(Lex!Stream(s), 1), s)
<1> DEFINE n == Len(s)
           b == s \o <<-1>>
           r == Lex!Stream(s)
           t == Lex!lex_scan(r, 1)
           f == FirstDigit(s)
<1>1. s \in Seq(Int) /\ s \in Strings /\ n \in Nat /\ \A k \in 1 .. n : s[k] \in NumberBytes
  BY DEF Strings, NumberBytes
<1>2. Ascii(s)
  <2>1. \A x \in NumberBytes : x < 128
    BY DEF NumberBytes
  <2> QED
    BY <1>1, <2>1, Zenon DEF Ascii
<1>3. Received(r, b)
  BY <1>1, <1>2, AsciiReceived, Zenon
<1>4. Streamed(b, s, n)
  BY <1>1, StreamedIs, Zenon
<1>5. IsNumber(s) <=> GoodFrom(b, n, f)
  BY <1>1, <1>4, NumberAt, Zenon
<1>6. IsInt(s) <=> LeadTo(s, f, n)
  <2>1. n \in 0 .. Len(s) /\ PartOf(s, s, 1, n)
    BY <1>1, PartWhole
  <2> QED
    BY <1>1, <2>1, PartInt, Zenon
<1>7. b \in Seq(Int) /\ Len(b) = n + 1 /\ n + 1 \in Nat /\ n + 1 >= 1 /\ b[n + 1] = -1
      /\ \A k \in 1 .. n : b[k] = s[k]
  BY <1>1, <1>4 DEF Streamed
<1>11. n = Len(s)
  OBVIOUS
<1> HIDE DEF b, r, n
<1>8. LeadTo(s, f, n) <=> LeadTo(b, f, n)
  <2>1. f \in Int /\ n \in Int /\ 1 <= f /\ n <= n
    BY <1>1 DEF FirstDigit
  <2>2. AllDigits(s, f, n) <=> AllDigits(b, f, n)
    BY <1>4, <2>1, SameDigits, Zenon
  <2>3. f <= n => s[f] = b[f]
    <3>1. f <= n => f \in 1 .. n
      BY <2>1
    <3> QED
      BY <1>7, <3>1, Zenon
  <2> QED
    BY <2>2, <2>3, Zenon DEF LeadTo
<1>9. CASE b[1] \in {-1, 43, 46, 69, 101}
  <2>1. t.kind \in {"end", "name", "invalid"}
    BY <1>3, <1>7, <1>9, ScanElsewhere, Zenon
  <2>2. f = 1 /\ ~IsDig(b[f])
    <3>1. ~(s # <<>> /\ s[1] = 45)
      <4>1. s # <<>> => b[1] = s[1]
        BY <1>1, <1>7, <1>11
      <4> QED
        BY <1>9, <4>1
    <3>2. f = 1
      BY <3>1 DEF FirstDigit
    <3> HIDE DEF f
    <3> QED
      BY <1>9, <3>2 DEF IsDig
  <2>3. \A a \in Int : ~LeadTo(b, f, a)
    BY <2>2, NotLed
  <2>4. \A a \in 0 .. n : a \in Int
    OBVIOUS
  <2>5. ~GoodFrom(b, n, f) /\ ~LeadTo(b, f, n)
    BY <1>1, <2>3, <2>4 DEF GoodFrom
  <2>6. t.kind \notin {"integer", "real"} /\ t.kind # "integer"
    BY <2>1
  <2> HIDE DEF t, f
  <2>7. NumberRead(t, s)
    BY <1>5, <1>6, <1>8, <2>5, <2>6, Zenon DEF NumberRead
  <2> QED
    BY <2>7, Zenon DEF t, r
<1>10. CASE b[1] \notin {-1, 43, 46, 69, 101}
  <2>1. n >= 1 /\ b[1] \in {45} \cup 48 .. 57
    <3>1. n # 0
      BY <1>1, <1>7, <1>10
    <3>2. n >= 1 /\ b[1] = s[1] /\ s[1] \in NumberBytes
      BY <1>1, <1>7, <3>1
    <3> QED
      BY <1>10, <3>2 DEF NumberBytes
  <2>2. t = Lex!lex_scan_number(b, 1)
    BY <1>3, <1>7, <2>1, ScanAtNumber, Zenon
  <2>3. \/ LeadTo(b, f, n) /\ GoodFrom(b, n, f) /\ t = Lex!ScanInteger(b, 1, n + 1)
        \/ ~LeadTo(b, f, n) /\ Verdict(t, n, GoodFrom(b, n, f))
    BY <1>1, <1>4, <2>1, <2>2, ScanNumberIs, Zenon
  <2> HIDE DEF t
  <2>4. CASE LeadTo(b, f, n) /\ GoodFrom(b, n, f) /\ t = Lex!ScanInteger(b, 1, n + 1)
    <3>1. IntegerRead(t, s)
      BY <1>1, <1>4, <1>8, <1>11, <2>1, <2>4, ScanIntegerIs, Zenon
    <3>2. IsNumber(s) /\ IsInt(s)
      BY <1>5, <1>6, <1>8, <2>4, Zenon
    <3>3. CASE Number(s) \in -IntMax - 1 .. IntMax
      <4>1. t = Lex!Token("integer", Number(s), Len(s) + 1)
        BY <3>1, <3>3, Zenon DEF IntegerRead
      <4>2. t.kind = "integer" /\ t.next = Len(s) + 1 /\ t.value = Number(s)
        BY <4>1, IntegerFields
      <4> QED
        BY <3>2, <3>3, <4>2, Zenon DEF NumberRead, t, r
    <3>4. CASE Number(s) \notin -IntMax - 1 .. IntMax
      <4>1. t = Lex!Bad
        BY <3>1, <3>4, Zenon DEF IntegerRead
      <4>2. t.kind = "invalid"
        BY <4>1, IntegerFields, Zenon
      <4>3. t.kind \notin {"integer", "real"} /\ t.kind # "integer"
        BY <4>2
      <4> QED
        BY <3>2, <3>4, <4>3, Zenon DEF NumberRead, t, r
    <3> QED
      BY <3>3, <3>4
  <2>5. CASE ~LeadTo(b, f, n) /\ Verdict(t, n, GoodFrom(b, n, f))
    <3>1. ~IsInt(s)
      BY <1>6, <1>8, <2>5, Zenon
    <3>2. NumberRead(t, s)
      BY <1>5, <1>11, <2>5, <3>1, Zenon DEF NumberRead, Verdict
    <3> QED
      BY <3>2, Zenon DEF t, r
  <2> QED
    BY <2>3, <2>4, <2>5
<1> QED
  BY <1>9, <1>10

-----------------------------------------------------------------------------
(* Texts one behind the other. *)

AsciiText == {w \in Strings : Ascii(w)}

LEMMA AsciiTextCat ==
    ASSUME NEW w \in AsciiText, NEW u \in AsciiText
    PROVE  w \o u \in AsciiText
<1>1. w \o u \in Strings /\ \A k \in 1 .. Len(w \o u) : (w \o u)[k] < 128
  BY AsciiCat, Zenon DEF AsciiText, Ascii
<1> QED
  BY <1>1, Zenon DEF AsciiText, Ascii

\* x[k] is the first k of the texts T, one behind the other.
Joined(x, T) ==
    /\ x[0] = <<>>
    /\ \A k \in 0 .. Len(T) : x[k] \in AsciiText
    /\ \A k \in 1 .. Len(T) : x[k] = x[k - 1] \o T[k]

LEMMA FlattenIs ==
    ASSUME NEW T \in Seq(AsciiText)
    PROVE  \E x : Joined(x, T) /\ FlattenSeq(T) = x[Len(T)]
<1> DEFINE m == Len(T)
           step(f) == [i \in 1 .. m |-> IF i = 1 THEN T[i] ELSE f[i - 1] \o T[i]]
           flatten == CHOOSE f : f = step(f)
           F == [p \in Nat \X AsciiText |-> IF p[1] < m THEN p[2] \o T[p[1] + 1] ELSE p[2]]
           y == [k \in 0 .. m |-> IF k = 0 THEN <<>> ELSE flatten[k]]
<1>1. m \in Nat /\ \A k \in 1 .. m : T[k] \in AsciiText
  OBVIOUS
<1>2. <<>> \in AsciiText /\ \A w \in AsciiText : <<>> \o w = w
  <2>1. <<>> \in Strings /\ \A w \in Strings : <<>> \o w = w
    BY DEF Strings
  <2>2. Ascii(<<>>)
    BY DEF Ascii
  <2> QED
    BY <2>1, <2>2, Zenon DEF AsciiText
<1>3. FlattenSeq(T) = IF m = 0 THEN T ELSE flatten[m]
  BY Zenon DEF FlattenSeq
<1>4. m = 0 => T = <<>>
  OBVIOUS
<1> HIDE DEF m
<1>5. F \in [Nat \X AsciiText -> AsciiText]
  <2>1. ASSUME NEW p \in Nat \X AsciiText, p[1] < m PROVE p[2] \o T[p[1] + 1] \in AsciiText
    <3>1. p[2] \in AsciiText /\ p[1] + 1 \in 1 .. m
      BY <1>1, <2>1
    <3>2. T[p[1] + 1] \in AsciiText
      BY <1>1, <3>1, Zenon
    <3> QED
      BY <3>1, <3>2, AsciiTextCat, Zenon
  <2>2. \A p \in Nat \X AsciiText : p[2] \in AsciiText
    OBVIOUS
  <2> QED
    BY <2>1, <2>2
<1>6. \A k \in Nat, w \in AsciiText : F[<<k, w>>] = IF k < m THEN w \o T[k + 1] ELSE w
  OBVIOUS
<1> HIDE DEF F
<1>7. \E g : Runs(g, AsciiText, <<>>, F)
  BY <1>2, <1>5, Iterates, Zenon
<1>8. PICK g : Runs(g, AsciiText, <<>>, F)
  BY <1>7, Zenon
<1>9. g \in [Nat -> AsciiText] /\ g[0] = <<>> /\ \A k \in Nat : g[k + 1] = F[<<k, g[k]>>]
  BY <1>8, Zenon DEF Runs
<1>10. ASSUME NEW k \in 1 .. m PROVE g[k] = g[k - 1] \o T[k]
  <2>1. k - 1 \in Nat /\ (k - 1) + 1 = k /\ k - 1 < m
    BY <1>1
  <2>2. g[k - 1] \in AsciiText
    BY <1>9, <2>1
  <2>3. g[(k - 1) + 1] = F[<<k - 1, g[k - 1]>>]
    BY <1>9, <2>1, Zenon
  <2>4. F[<<k - 1, g[k - 1]>>] = g[k - 1] \o T[(k - 1) + 1]
    BY <1>6, <2>1, <2>2, Zenon
  <2> QED
    BY <2>1, <2>3, <2>4, Zenon
<1>11. \E f : f = step(f)
  <2> DEFINE h == [k \in 1 .. m |-> g[k]]
  <2>1. \A k \in 1 .. m : h[k] = g[k]
    OBVIOUS
  <2>2. h = [k \in 1 .. m |-> h[k]]
    OBVIOUS
  <2> HIDE DEF h
  <2>3. ASSUME NEW k \in 1 .. m PROVE h[k] = IF k = 1 THEN T[k] ELSE h[k - 1] \o T[k]
    <3>1. CASE k = 1
      <4>1. k - 1 = 0
        BY <3>1
      <4>2. g[k] = <<>> \o T[k] /\ T[k] \in AsciiText
        BY <1>1, <1>9, <1>10, <4>1, Zenon
      <4> QED
        BY <1>2, <2>1, <3>1, <4>2, Zenon
    <3>2. CASE k # 1
      <4>1. k - 1 \in 1 .. m
        BY <1>1, <3>2
      <4> QED
        BY <1>10, <2>1, <3>2, <4>1, Zenon
    <3> QED
      BY <3>1, <3>2
  <2>4. h = step(h)
    <3> DEFINE V(k) == IF k = 1 THEN T[k] ELSE h[k - 1] \o T[k]
    <3>1. \A k \in 1 .. m : h[k] = V(k)
      BY <2>3
    <3> HIDE DEF V
    <3>2. h = [k \in 1 .. m |-> V(k)]
      BY <2>2, <3>1
    <3> QED
      BY <3>2, Zenon DEF V
  <2> HIDE DEF step
  <2> QED
    BY <2>4, Zenon
<1>12. flatten = step(flatten)
  <2> HIDE DEF step
  <2> QED
    BY <1>11, Zenon
<1>13. ASSUME NEW k \in 1 .. m PROVE flatten[k] = IF k = 1 THEN T[k] ELSE flatten[k - 1] \o T[k]
  <2>1. \A f : \A i \in 1 .. m : step(f)[i] = IF i = 1 THEN T[i] ELSE f[i - 1] \o T[i]
    OBVIOUS
  <2> HIDE DEF step, flatten
  <2> QED
    BY <1>12, <2>1, Zenon
<1> HIDE DEF flatten
<1>14. \A k \in 0 .. m : y[k] = IF k = 0 THEN <<>> ELSE flatten[k]
  OBVIOUS
<1> HIDE DEF y
<1>15. ASSUME NEW k \in 1 .. m PROVE y[k] = y[k - 1] \o T[k]
  <2>1. k \in 0 .. m /\ k - 1 \in 0 .. m /\ k # 0 /\ (k = 1 <=> k - 1 = 0)
    BY <1>1
  <2>2. T[k] \in AsciiText
    BY <1>1
  <2> QED
    BY <1>2, <1>13, <1>14, <2>1, <2>2, Zenon
<1>16. y[0] = <<>>
  <2>1. 0 \in 0 .. m
    BY <1>1
  <2> QED
    BY <1>14, <2>1, Zenon
<1>17. \A k \in 0 .. m : y[k] \in AsciiText
  <2> DEFINE S == {k \in Nat : k <= m => y[k] \in AsciiText}
  <2>1. 0 \in S
    BY <1>2, <1>16
  <2>2. ASSUME NEW k \in Nat, k \in S PROVE k + 1 \in S
    <3>1. CASE k + 1 <= m
      <4>1. k <= m /\ k + 1 \in 1 .. m /\ (k + 1) - 1 = k /\ k + 1 \in Nat
        BY <1>1, <3>1
      <4>2. y[k] \in AsciiText /\ T[k + 1] \in AsciiText
        BY <1>1, <2>2, <4>1, Zenon
      <4>3. y[k + 1] = y[k] \o T[k + 1]
        BY <1>15, <4>1, Zenon
      <4>4. y[k + 1] \in AsciiText
        BY <4>2, <4>3, AsciiTextCat, Zenon
      <4> QED
        BY <4>1, <4>4, Zenon
    <3>2. CASE ~(k + 1 <= m)
      BY <3>2
    <3> QED
      BY <3>1, <3>2
  <2> HIDE DEF S
  <2>3. \A k \in Nat : k \in S
    BY <2>1, <2>2, Induction, Zenon
  <2>4. \A k \in 0 .. m : k \in Nat /\ k <= m
    OBVIOUS
  <2> QED
    BY <2>3, <2>4, Zenon DEF S
<1>18. FlattenSeq(T) = y[m]
  <2>1. m \in 0 .. m
    BY <1>1
  <2> QED
    BY <1>3, <1>4, <1>14, <2>1, Zenon
<1>19. Joined(y, T)
  BY <1>15, <1>16, <1>17, Zenon DEF Joined, m
<1> QED
  BY <1>18, <1>19, Zenon DEF m

\* The texts T stand in the stream b, the first one behind a quote, each at its
\* place, and another quote at the end.
Laid(pos, T, b) ==
    /\ pos[1] = 2 /\ b \in Seq(Int)
    /\ \A k \in 1 .. Len(T) + 1 : pos[k] \in Int /\ 2 <= pos[k]
    /\ \A k \in 1 .. Len(T) : Stands(T[k], b, pos[k]) /\ pos[k + 1] = pos[k] + Len(T[k])
    /\ b[1] = 34 /\ b[pos[Len(T) + 1]] = 34
    /\ Len(b) = pos[Len(T) + 1] + 1 /\ b[Len(b)] = -1

LEMMA AsciiTextIs ==
    ASSUME NEW w \in AsciiText
    PROVE  w \in Strings /\ w \in Seq(Int) /\ Len(w) \in Nat /\ Ascii(w)
<1>1. w \in Strings /\ Ascii(w)
  BY Zenon DEF AsciiText
<1>2. w \in Seq(Int)
  BY <1>1, StringsAreInts, Zenon
<1>3. Len(w) \in Nat
  BY <1>2
<1> QED
  BY <1>1, <1>2, <1>3

LEMMA JoinedStands ==
    ASSUME NEW T \in Seq(AsciiText), NEW x, Joined(x, T), NEW b, Len(b) \in Int, Stands(x[Len(T)], b, 2)
    PROVE  /\ \A k \in 0 .. Len(T) : Len(x[k]) \in Nat
           /\ \A k \in 1 .. Len(T) : /\ Stands(T[k], b, 2 + Len(x[k - 1]))
                                     /\ Len(x[k]) = Len(x[k - 1]) + Len(T[k])
<1> DEFINE m == Len(T)
           S == {k \in 0 .. m : Stands(x[k], b, 2)}
<1>1. /\ m \in Nat /\ \A k \in 1 .. m : T[k] \in AsciiText
      /\ Stands(x[m], b, 2)
  OBVIOUS
<1>2. /\ \A k \in 0 .. m : x[k] \in AsciiText
      /\ \A k \in 1 .. m : x[k] = x[k - 1] \o T[k]
  BY Zenon DEF Joined
<1>9. m = Len(T)
  OBVIOUS
<1> HIDE DEF m
<1>3. ASSUME NEW k \in 1 .. m
      PROVE  /\ x[k - 1] \in Seq(Int) /\ T[k] \in Seq(Int) /\ k - 1 \in 0 .. m
             /\ Len(x[k]) = Len(x[k - 1]) + Len(T[k])
  <2>1. k - 1 \in 0 .. m
    BY <1>1
  <2>2. x[k - 1] \in Seq(Int) /\ T[k] \in Seq(Int)
    BY <1>1, <1>2, <2>1, AsciiTextIs, Zenon
  <2>3. Len(x[k - 1] \o T[k]) = Len(x[k - 1]) + Len(T[k])
    BY <2>2, CatIs, Zenon
  <2> QED
    BY <1>2, <2>1, <2>2, <2>3, Zenon
<1>4. ASSUME NEW k \in 1 .. m, k \in S PROVE k - 1 \in S /\ Stands(T[k], b, 2 + Len(x[k - 1]))
  <2>1. x[k] = x[k - 1] \o T[k] /\ Stands(x[k], b, 2)
    BY <1>2, <1>4, Zenon
  <2>3. 2 \in Int
    OBVIOUS
  <2>2. Stands(x[k - 1], b, 2) /\ Stands(T[k], b, 2 + Len(x[k - 1]))
    BY <1>3, <2>1, <2>3, StandsCat, Zenon
  <2> QED
    BY <1>3, <2>2, Zenon
<1>5. ASSUME NEW k \in 0 .. m, \A j \in k + 1 .. m : j \in S PROVE k \in S
  <2>1. CASE k = m
    BY <1>1, <2>1
  <2>2. CASE k # m
    <3>1. k + 1 \in k + 1 .. m /\ k + 1 \in 1 .. m /\ (k + 1) - 1 = k
      BY <1>1, <2>2
    <3>2. (k + 1) - 1 \in S
      BY <1>4, <1>5, <3>1, Zenon
    <3> QED
      BY <3>1, <3>2, Zenon
  <2> QED
    BY <2>1, <2>2
<1>6. \A k \in 0 .. m : k \in S
  <2>1. 0 \in Int /\ m \in Int
    BY <1>1
  <2> HIDE DEF S
  <2> QED
    BY <1>5, <2>1, FromEnd, Zenon
<1>7. \A k \in 0 .. m : Len(x[k]) \in Nat
  BY <1>2, AsciiTextIs, Zenon
<1>8. \A k \in 1 .. m : k \in 0 .. m
  BY <1>1
<1> HIDE DEF S
<1> QED
  BY <1>3, <1>4, <1>6, <1>7, <1>8, <1>9, Zenon

LEMMA LaidIs ==
    ASSUME NEW T \in Seq(AsciiText)
    PROVE  LET q == Quoted(FlattenSeq(T))
               b == q \o <<-1>>
           IN  /\ FlattenSeq(T) \in AsciiText
               /\ q \in Strings /\ Len(q) \in Nat
               /\ \E pos : Laid(pos, T, b) /\ pos[Len(T) + 1] = Len(q)
<1> DEFINE t == FlattenSeq(T)
           q == Quoted(t)
           b == q \o <<-1>>
           m == Len(T)
<1>1. \E x : Joined(x, T) /\ t = x[m]
  BY FlattenIs, Zenon
<1>2. PICK x : Joined(x, T) /\ t = x[m]
  BY <1>1, Zenon
<1>3. m \in Nat /\ m \in 0 .. m /\ m = Len(T)
  OBVIOUS
<1> HIDE DEF m
<1>4. t \in AsciiText
  BY <1>2, <1>3, Zenon DEF Joined
<1>5. t \in Strings
  BY <1>4, AsciiTextIs, Zenon
<1>6. /\ q \in Strings /\ b \in Seq(Int) /\ Len(t) \in Nat /\ Len(q) \in Nat /\ Len(b) \in Nat
      /\ Len(q) = Len(t) + 2 /\ Len(b) = Len(t) + 3 /\ b[Len(b)] = -1
      /\ Stands(<<34>>, b, 1) /\ Stands(t, b, 2) /\ Stands(<<34>>, b, 2 + Len(t))
  BY <1>5, QuotedIs, Zenon
<1> HIDE DEF q, b
<1>7. b[1] = 34 /\ b[2 + Len(t)] = 34
  <2>1. 34 \in Int /\ 1 \in Int /\ 2 + Len(t) \in Int
    BY <1>6
  <2>2. ByteAt(b, 1, 34) /\ ByteAt(b, 2 + Len(t), 34)
    BY <1>6, <2>1, OneAt, Zenon
  <2> QED
    BY <2>2, Zenon DEF ByteAt
<1>8. /\ \A k \in 0 .. m : Len(x[k]) \in Nat
      /\ \A k \in 1 .. m : Stands(T[k], b, 2 + Len(x[k - 1])) /\ Len(x[k]) = Len(x[k - 1]) + Len(T[k])
  <2>1. Len(b) \in Int /\ Stands(x[Len(T)], b, 2)
    BY <1>2, <1>3, <1>6
  <2> QED
    BY <1>2, <1>3, <2>1, JoinedStands, Zenon
<1> DEFINE pos == [k \in 1 .. m + 1 |-> 2 + Len(x[k - 1])]
<1>9. \A k \in 1 .. m + 1 : pos[k] = 2 + Len(x[k - 1])
  OBVIOUS
<1> HIDE DEF pos, t
<1>10. pos[1] = 2
  <2>1. 1 \in 1 .. m + 1 /\ 1 - 1 = 0
    BY <1>3
  <2>2. x[0] = <<>>
    BY <1>2, Zenon DEF Joined
  <2>3. pos[1] = 2 + Len(<<>>)
    BY <1>9, <2>1, <2>2, Zenon
  <2> QED
    BY <2>3
<1>11. ASSUME NEW k \in 1 .. m + 1 PROVE pos[k] \in Int /\ 2 <= pos[k]
  <2>1. k - 1 \in 0 .. m
    BY <1>3
  <2>2. Len(x[k - 1]) \in Nat
    BY <1>8, <2>1
  <2> QED
    BY <1>9, <2>2
<1>12. ASSUME NEW k \in 1 .. m PROVE Stands(T[k], b, pos[k]) /\ pos[k + 1] = pos[k] + Len(T[k])
  <2>1. k \in 1 .. m + 1 /\ k + 1 \in 1 .. m + 1 /\ (k + 1) - 1 = k /\ k - 1 \in 0 .. m /\ k \in 0 .. m
    BY <1>3
  <2>2. pos[k] = 2 + Len(x[k - 1]) /\ pos[k + 1] = 2 + Len(x[k])
    BY <1>9, <2>1, Zenon
  <2>3. /\ Len(x[k - 1]) \in Nat /\ Len(x[k]) \in Nat
        /\ Stands(T[k], b, 2 + Len(x[k - 1])) /\ Len(x[k]) = Len(x[k - 1]) + Len(T[k])
    BY <1>8, <2>1, Zenon
  <2>4. T[k] \in AsciiText
    BY <1>3
  <2>5. Len(T[k]) \in Nat
    BY <2>4, AsciiTextIs, Zenon
  <2>6. Stands(T[k], b, pos[k])
    BY <2>2, <2>3, Zenon
  <2> DEFINE l == Len(x[k - 1])
             l2 == Len(x[k])
             l3 == Len(T[k])
  <2>7. l \in Nat /\ l3 \in Nat /\ l2 = l + l3 /\ pos[k] = 2 + l /\ pos[k + 1] = 2 + l2
    BY <2>2, <2>3, <2>5, Zenon
  <2> HIDE DEF l, l2, l3
  <2>8. pos[k + 1] = pos[k] + l3
    BY <2>7
  <2> QED
    BY <2>6, <2>8, Zenon DEF l3
<1>13. pos[m + 1] = 2 + Len(t)
  <2>1. m + 1 \in 1 .. m + 1 /\ (m + 1) - 1 = m
    BY <1>3
  <2> QED
    BY <1>2, <1>9, <2>1, Zenon
<1>14. pos[m + 1] = Len(q) /\ Len(b) = pos[m + 1] + 1
  BY <1>6, <1>13
<1>15. Laid(pos, T, b)
  BY <1>3, <1>6, <1>7, <1>10, <1>11, <1>12, <1>13, <1>14, Zenon DEF Laid
<1> QED
  BY <1>3, <1>4, <1>6, <1>14, <1>15, Zenon DEF t, q, b

-----------------------------------------------------------------------------
(* The pieces of a text with escapes. *)

Telling == 1 .. 5
Broken == {7, 8, 9}

LEMMA PiecesAre ==
    /\ Piece[1].text = <<122>> /\ Piece[1].says = <<122>>
    /\ Piece[2].text = <<92, 110>> /\ Piece[2].says = <<10>>
    /\ Piece[3].text = <<92, 47>> /\ Piece[3].says = <<47>>
    /\ Piece[4].text = LongEscape(48, 48, 52, 49) /\ Piece[4].says = <<65>>
    /\ Piece[5].text = LongEscape(48, 55, 70, 102) /\ Piece[5].says = <<223, 191>>
    /\ Piece[6].text = LongEscape(48, 48, 48, 48) /\ Piece[6].says = <<>>
    /\ Piece[7].text = <<92, 117, 48, 48>> /\ Piece[7].says = <<>>
    /\ Piece[8].text = <<92, 120>> /\ Piece[8].says = <<>>
    /\ Piece[9].text = <<31>> /\ Piece[9].says = <<>>
    /\ Piece[10].text = LongEscape(68, 56, 51, 52) /\ Piece[10].says = <<>>
    /\ Piece[11].text = LongEscape(100, 100, 49, 101) /\ Piece[11].says = <<>>
<1>1. Piece[1].text = <<122>> /\ Piece[1].says = <<122>>
  BY DEF Piece
<1>2. Piece[2].text = <<92, 110>> /\ Piece[2].says = <<10>>
  BY DEF Piece
<1>3. Piece[3].text = <<92, 47>> /\ Piece[3].says = <<47>>
  BY DEF Piece
<1>4. Piece[4].text = LongEscape(48, 48, 52, 49) /\ Piece[4].says = <<65>>
  BY DEF Piece, LongEscape
<1>5. Piece[5].text = LongEscape(48, 55, 70, 102) /\ Piece[5].says = <<223, 191>>
  BY DEF Piece, LongEscape
<1>6. Piece[6].text = LongEscape(48, 48, 48, 48) /\ Piece[6].says = <<>>
  BY DEF Piece, LongEscape
<1>7. Piece[7].text = <<92, 117, 48, 48>> /\ Piece[7].says = <<>>
  BY DEF Piece
<1>8. Piece[8].text = <<92, 120>> /\ Piece[8].says = <<>>
  BY DEF Piece
<1>9. Piece[9].text = <<31>> /\ Piece[9].says = <<>>
  BY DEF Piece
<1>10. Piece[10].text = LongEscape(68, 56, 51, 52) /\ Piece[10].says = <<>>
  BY DEF Piece, LongEscape
<1>11. Piece[11].text = LongEscape(100, 100, 49, 101) /\ Piece[11].says = <<>>
  BY DEF Piece, LongEscape
<1> QED
  BY <1>1, <1>2, <1>3, <1>4, <1>5, <1>6, <1>7, <1>8, <1>9, <1>10, <1>11

\* The escapes of four digits among them.
LEMMA PiecesSpell ==
    /\ Spells(Piece[4].text, 65) /\ Spells(Piece[5].text, 2047) /\ Spells(Piece[6].text, 0)
    /\ Spells(Piece[10].text, 55348) /\ Spells(Piece[11].text, 56606)
<1>1. \A x \in {48, 49, 51, 52, 55, 56, 68, 70, 100, 101, 102} : x \in Lex!HexDigit
  BY DEF Lex!HexDigit, Lex!Digit
<1>2. /\ Lex!Unhex(48) = 0 /\ Lex!Unhex(49) = 1 /\ Lex!Unhex(51) = 3 /\ Lex!Unhex(52) = 4
      /\ Lex!Unhex(55) = 7 /\ Lex!Unhex(56) = 8 /\ Lex!Unhex(68) = 13 /\ Lex!Unhex(70) = 15
      /\ Lex!Unhex(100) = 13 /\ Lex!Unhex(101) = 14 /\ Lex!Unhex(102) = 15
  BY DEF Lex!Unhex, Lex!Digit, Lex!Lower
<1>3. /\ FourDigits(48, 48, 52, 49) = 65 /\ FourDigits(48, 55, 70, 102) = 2047
      /\ FourDigits(48, 48, 48, 48) = 0 /\ FourDigits(68, 56, 51, 52) = 55348
      /\ FourDigits(100, 100, 49, 101) = 56606
  BY <1>2 DEF FourDigits
<1>4. /\ Spells(LongEscape(48, 48, 52, 49), FourDigits(48, 48, 52, 49))
      /\ Spells(LongEscape(48, 55, 70, 102), FourDigits(48, 55, 70, 102))
      /\ Spells(LongEscape(48, 48, 48, 48), FourDigits(48, 48, 48, 48))
      /\ Spells(LongEscape(68, 56, 51, 52), FourDigits(68, 56, 51, 52))
      /\ Spells(LongEscape(100, 100, 49, 101), FourDigits(100, 100, 49, 101))
  BY <1>1, SixIs
<1>5. /\ Piece[4].text = LongEscape(48, 48, 52, 49) /\ Piece[5].text = LongEscape(48, 55, 70, 102)
      /\ Piece[6].text = LongEscape(48, 48, 48, 48) /\ Piece[10].text = LongEscape(68, 56, 51, 52)
      /\ Piece[11].text = LongEscape(100, 100, 49, 101)
  BY PiecesAre
<1> QED
  BY <1>3, <1>4, <1>5

LEMMA SpellsText ==
    ASSUME NEW e, NEW v, Spells(e, v)
    PROVE  e \in AsciiText /\ Len(e) >= 6 /\ Len(e) <= 6
  BY Zenon DEF Spells, AsciiText, Ascii

LEMMA ShortTexts ==
    ASSUME NEW v \in 1 .. 127
    PROVE  /\ <<v>> \in AsciiText /\ Len(<<v>>) >= 1
           /\ <<92, v>> \in AsciiText /\ Len(<<92, v>>) >= 1
           /\ <<92, v, 48, 48>> \in AsciiText /\ Len(<<92, v, 48, 48>>) >= 1
<1>1. <<v>> \in Strings /\ Len(<<v>>) >= 1 /\ \A k \in 1 .. Len(<<v>>) : <<v>>[k] < 128
  BY DEF Strings
<1>2. <<92, v>> \in Strings /\ Len(<<92, v>>) >= 1 /\ \A k \in 1 .. Len(<<92, v>>) : <<92, v>>[k] < 128
  BY DEF Strings
<1> DEFINE w == <<92, v, 48, 48>>
<1>3. w \in Strings /\ Len(w) >= 1 /\ \A k \in 1 .. Len(w) : w[k] < 128
  BY DEF Strings
<1> QED
  BY <1>1, <1>2, <1>3, Zenon DEF AsciiText, Ascii

LEMMA PiecesTyped ==
    ASSUME NEW p \in 1 .. 11
    PROVE  Piece[p].text \in AsciiText /\ Len(Piece[p].text) >= 1
<1> DEFINE Text(w) == w \in AsciiText /\ Len(w) >= 1
<1>1. \A v \in 1 .. 127 : Text(<<v>>) /\ Text(<<92, v>>) /\ Text(<<92, v, 48, 48>>)
  BY ShortTexts, ZenonT(60)
<1>2. ASSUME NEW e, NEW v, Spells(e, v) PROVE Text(e)
  <2>1. e \in AsciiText /\ Len(e) >= 6
    BY <1>2, SpellsText, Zenon
  <2>2. Len(e) \in Nat
    BY <2>1, AsciiTextIs, Zenon
  <2> QED
    BY <2>1, <2>2
<1> HIDE DEF Text
<1>3. /\ Text(Piece[4].text) /\ Text(Piece[5].text) /\ Text(Piece[6].text)
      /\ Text(Piece[10].text) /\ Text(Piece[11].text)
  BY <1>2, PiecesSpell
<1>4. Text(<<122>>) /\ Text(<<92, 110>>) /\ Text(<<92, 47>>)
  <2>1. 122 \in 1 .. 127 /\ 110 \in 1 .. 127 /\ 47 \in 1 .. 127
    OBVIOUS
  <2> QED
    BY <1>1, <2>1, Zenon
<1>5. Text(<<92, 117, 48, 48>>) /\ Text(<<92, 120>>) /\ Text(<<31>>)
  <2>1. 117 \in 1 .. 127 /\ 120 \in 1 .. 127 /\ 31 \in 1 .. 127
    OBVIOUS
  <2> QED
    BY <1>1, <2>1, Zenon
<1>6. Text(Piece[1].text) /\ Text(Piece[2].text) /\ Text(Piece[3].text)
  BY <1>4, PiecesAre, ZenonT(60)
<1>7. Text(Piece[7].text) /\ Text(Piece[8].text) /\ Text(Piece[9].text)
  BY <1>5, PiecesAre, Zenon
<1>8. p \in {1, 2, 3} \/ p \in {4, 5, 6, 10, 11} \/ p \in {7, 8, 9}
  OBVIOUS
<1>9. Text(Piece[p].text)
  BY <1>3, <1>6, <1>7, <1>8, Zenon
<1> QED
  BY <1>9, Zenon DEF Text

\* What stands for itself, or for another byte, or is half of a pair.
Unitary(b, q, t, n) == Open(b, q, n) /\ UnitIs(b, q, t, n)
Stuck(b, q) == b[q] # 34 /\ Lex!UnitLength(b, q) = 0
LowAt(b, j) == Lex!IsEscape(b, j, 117) /\ Lex!IsLow(Lex!Unescape(b, j + 1))
Alone(v) == IF v = 0 \/ Lex!IsLow(v) THEN <<>> ELSE Lex!utf8_encode(v)
PairSays(v, u) == Lex!utf8_encode((v - 55296) * 1024 + (u - 56320) + 65536)

LEMMA SpellsUnit ==
    ASSUME NEW v, NEW e, Spells(e, v), NEW b \in Seq(Int), NEW q \in Int, Stands(e, b, q)
    PROVE  /\ Open(b, q, 6) /\ Lex!IsEscape(b, q, 117) /\ Lex!Unescape(b, q + 1) = v
           /\ ~Lex!IsHigh(v) => UnitIs(b, q, Alone(v), 6)
           /\ Lex!IsHigh(v) /\ ~LowAt(b, q + 6) => UnitIs(b, q, <<>>, 12)
           /\ Lex!IsHigh(v) /\ LowAt(b, q + 6) => UnitIs(b, q, PairSays(v, Lex!Unescape(b, q + 7)), 12)
<1>1. /\ b[q] = 92 /\ Lex!IsEscape(b, q, 117) /\ Lex!UnitLength(b, q) = 6
      /\ b[q + 1] = 117 /\ Lex!Unescape(b, q + 1) = v
  BY Zenon DEF Spells
<1>2. Open(b, q, 6)
  BY <1>1 DEF Open
<1>3. ~Lex!IsHigh(v) => UnitIs(b, q, Alone(v), 6)
  BY <1>1 DEF UnitIs, Lex!Unit, Lex!Backslash, Alone
<1>4. q + 6 + 1 = q + 7
  OBVIOUS
<1>5. ASSUME Lex!IsHigh(v), ~LowAt(b, q + 6) PROVE UnitIs(b, q, <<>>, 12)
  <2>1. ~Lex!IsEscape(b, q + 6, 117) \/ ~Lex!IsLow(Lex!Unescape(b, q + 7))
    BY <1>4, <1>5 DEF LowAt
  <2>2. ~Lex!IsLow(-1)
    BY DEF Lex!IsLow
  <2>3. Lex!Unit(b, q) = [bytes |-> <<>>, len |-> 12]
    BY <1>1, <1>5, <2>1, <2>2 DEF Lex!Unit, Lex!Backslash
  <2> QED
    BY <2>3 DEF UnitIs
<1>6. ASSUME Lex!IsHigh(v), LowAt(b, q + 6)
      PROVE  UnitIs(b, q, PairSays(v, Lex!Unescape(b, q + 7)), 12)
  <2>1. Lex!IsEscape(b, q + 6, 117) /\ Lex!IsLow(Lex!Unescape(b, q + 7))
    BY <1>4, <1>6 DEF LowAt
  <2>2. Lex!Unit(b, q) = [bytes |-> PairSays(v, Lex!Unescape(b, q + 7)), len |-> 12]
    BY <1>1, <1>6, <2>1 DEF Lex!Unit, Lex!Backslash, PairSays
  <2> QED
    BY <2>2 DEF UnitIs
<1> QED
  BY <1>1, <1>2, <1>3, <1>5, <1>6

\* The values that occur.
LEMMA ValuesSay ==
    /\ ~Lex!IsHigh(65) /\ Alone(65) = <<65>> /\ ~Lex!IsHigh(2047) /\ Alone(2047) = <<223, 191>>
    /\ ~Lex!IsHigh(0) /\ Alone(0) = <<>> /\ ~Lex!IsHigh(56606) /\ Alone(56606) = <<>>
    /\ Lex!IsHigh(55348) /\ Lex!IsLow(56606) /\ PairSays(55348, 56606) = Clef
    /\ ~Lex!IsLow(65) /\ ~Lex!IsLow(2047) /\ ~Lex!IsLow(0) /\ ~Lex!IsLow(55348)
<1>1. /\ ~Lex!IsHigh(65) /\ ~Lex!IsHigh(2047) /\ ~Lex!IsHigh(0) /\ ~Lex!IsHigh(56606)
      /\ Lex!IsHigh(55348) /\ Lex!IsLow(56606)
      /\ ~Lex!IsLow(65) /\ ~Lex!IsLow(2047) /\ ~Lex!IsLow(0) /\ ~Lex!IsLow(55348)
  BY DEF Lex!IsHigh, Lex!IsLow
<1>2. Alone(0) = <<>> /\ Alone(56606) = <<>>
  BY <1>1 DEF Alone
<1>3. Alone(65) = <<65>>
  <2>1. Lex!utf8_encode(65) = <<65>>
    BY EncodeIs
  <2> QED
    BY <1>1, <2>1 DEF Alone
<1>4. Alone(2047) = <<223, 191>>
  <2>1. Lex!utf8_encode(2047) = <<192 + (2047 \div 64), 128 + ((2047 \div 1) % 64)>>
    BY EncodeIs
  <2>2. 192 + (2047 \div 64) = 223 /\ 128 + ((2047 \div 1) % 64) = 191
    OBVIOUS
  <2> QED
    BY <1>1, <2>1, <2>2 DEF Alone
<1>5. PairSays(55348, 56606) = Clef
  <2> DEFINE v == 119070
  <2>1. (55348 - 55296) * 1024 + (56606 - 56320) + 65536 = v
    OBVIOUS
  <2>2. Lex!utf8_encode(v) = <<240 + (v \div 262144), 128 + ((v \div 4096) % 64),
                               128 + ((v \div 64) % 64), 128 + ((v \div 1) % 64)>>
    BY EncodeIs
  <2>3. /\ 240 + (v \div 262144) = 240 /\ 128 + ((v \div 4096) % 64) = 157
        /\ 128 + ((v \div 64) % 64) = 132 /\ 128 + ((v \div 1) % 64) = 158
    OBVIOUS
  <2> QED
    BY <2>1, <2>2, <2>3 DEF PairSays, Clef
<1> QED
  BY <1>1, <1>2, <1>3, <1>4, <1>5

\* A letter behind a backslash.
ShortEscape(v) == <<92, v>>

LEMMA StandsTwo ==
    ASSUME NEW v, NEW b, NEW q \in Int, Stands(ShortEscape(v), b, q)
    PROVE  ByteAt(b, q, 92) /\ ByteAt(b, q + 1, v)
<1> DEFINE w == ShortEscape(v)
<1>1. Len(w) \in Int /\ 0 < Len(w) /\ 1 < Len(w) /\ w[1] = 92 /\ w[2] = v
  BY DEF ShortEscape
<1>2. Stands(w, b, q)
  OBVIOUS
<1> HIDE DEF w
<1>3. \A k \in Int : 0 <= k /\ k < Len(w) => b[q + k] = w[k + 1]
  BY <1>1, <1>2, StandsAt
<1>4. b[q + 0] = w[0 + 1] /\ b[q + 1] = w[1 + 1] /\ q + 0 = q
  BY <1>1, <1>3
<1> QED
  BY <1>1, <1>4 DEF ByteAt

LEMMA ShortUnit ==
    ASSUME NEW v \in {110, 47, 120}, NEW b, NEW q \in Int, Stands(ShortEscape(v), b, q)
    PROVE  /\ v = 110 => Unitary(b, q, <<10>>, 2)
           /\ v = 47 => Unitary(b, q, <<47>>, 2)
           /\ v = 120 => Stuck(b, q)
<1>1. b[q] = 92 /\ b[q + 1] = v
  <2>1. ByteAt(b, q, 92) /\ ByteAt(b, q + 1, v)
    BY StandsTwo, Zenon
  <2> QED
    BY <2>1, Zenon DEF ByteAt
<1>2. ~Lex!IsEscape(b, q, 117)
  BY <1>1 DEF Lex!IsEscape
<1>3. /\ DOMAIN Lex!Escape = {98, 102, 110, 114, 116} /\ Lex!Escape[110] = 10
  BY DEF Lex!Escape
<1>4. v # 120 => v \in {Lex!Quote, Lex!Backslash, Lex!Slash} \cup DOMAIN Lex!Escape
  BY <1>3 DEF Lex!Slash
<1>5. v = 120 => v \notin {Lex!Quote, Lex!Backslash, Lex!Slash} \cup DOMAIN Lex!Escape
  BY <1>3 DEF Lex!Slash, Lex!Quote, Lex!Backslash
<1>6. v # 120 => Lex!UnitLength(b, q) = 2
  BY <1>1, <1>2, <1>4 DEF Lex!UnitLength, Lex!Backslash
<1>7. v = 120 => Lex!UnitLength(b, q) = 0
  BY <1>1, <1>2, <1>5 DEF Lex!UnitLength, Lex!Backslash
<1>8. Lex!Unit(b, q) = [bytes |-> <<IF v \in DOMAIN Lex!Escape THEN Lex!Escape[v] ELSE v>>, len |-> 2]
  BY <1>1 DEF Lex!Unit, Lex!Backslash
<1>9. v = 110 => UnitIs(b, q, <<10>>, 2)
  BY <1>3, <1>8 DEF UnitIs
<1>10. v = 47 => UnitIs(b, q, <<47>>, 2)
  BY <1>3, <1>8 DEF UnitIs
<1> QED
  BY <1>1, <1>6, <1>7, <1>9, <1>10 DEF Unitary, Open, Stuck

LEMMA SixLong ==
    ASSUME NEW e, NEW v, Spells(e, v)
    PROVE  Len(e) = 6
<1>1. e \in AsciiText /\ Len(e) >= 6 /\ Len(e) <= 6
  BY SpellsText, Zenon
<1>2. Len(e) \in Nat
  BY <1>1, AsciiTextIs, Zenon
<1> DEFINE n == Len(e)
<1>3. n \in Nat /\ n >= 6 /\ n <= 6
  BY <1>1, <1>2, Zenon
<1> HIDE DEF n
<1>4. n = 6
  BY <1>3
<1> QED
  BY <1>4, Zenon DEF n

LEMMA AloneIs ==
    ASSUME NEW e, NEW v, Spells(e, v), ~Lex!IsHigh(v), NEW b \in Seq(Int), NEW q \in Int, Stands(e, b, q)
    PROVE  Unitary(b, q, Alone(v), Len(e))
<1>1. Open(b, q, 6) /\ UnitIs(b, q, Alone(v), 6)
  BY SpellsUnit, Zenon
<1>2. Len(e) = 6
  BY SixLong, Zenon
<1> QED
  BY <1>1, <1>2, Zenon DEF Unitary

\* A piece that says something by itself.
LEMMA TellingIs ==
    ASSUME NEW p \in Telling, NEW b \in Seq(Int), NEW q \in Int, Stands(Piece[p].text, b, q)
    PROVE  Unitary(b, q, Piece[p].says, Len(Piece[p].text))
<1>1. CASE p = 1
  <2>1. Stands(<<122>>, b, q) /\ 122 \in Int
    BY <1>1, PiecesAre
  <2>2. ByteAt(b, q, 122)
    BY <2>1, OneAt, Zenon
  <2>3. b[q] = 122
    BY <2>2, Zenon DEF ByteAt
  <2>4. Lex!UnitLength(b, q) = 1 /\ UnitIs(b, q, <<b[q]>>, 1)
    <3>1. b[q] \in Int /\ b[q] > 31 /\ b[q] # 34 /\ b[q] # 92
      BY <2>3
    <3> QED
      BY <3>1, UnitByte, Zenon
  <2>5. Open(b, q, 1)
    BY <2>3, <2>4 DEF Open
  <2>6. Len(<<122>>) = 1
    OBVIOUS
  <2>7. Unitary(b, q, <<122>>, Len(<<122>>))
    BY <2>3, <2>4, <2>5, <2>6, Zenon DEF Unitary
  <2> QED
    BY <1>1, <2>7, PiecesAre, Zenon
<1>2. CASE p = 2
  <2>1. Piece[p].text = ShortEscape(110) /\ Piece[p].says = <<10>>
    BY <1>2, PiecesAre, Zenon DEF ShortEscape
  <2>2. Len(ShortEscape(110)) = 2
    BY DEF ShortEscape
  <2>3. Stands(ShortEscape(110), b, q)
    BY <2>1, Zenon
  <2>4. Unitary(b, q, <<10>>, 2)
    BY <2>3, ShortUnit, Zenon
  <2> QED
    BY <2>1, <2>2, <2>4, Zenon
<1>3. CASE p = 3
  <2>1. Piece[p].text = ShortEscape(47) /\ Piece[p].says = <<47>>
    BY <1>3, PiecesAre, Zenon DEF ShortEscape
  <2>2. Len(ShortEscape(47)) = 2
    BY DEF ShortEscape
  <2>3. Stands(ShortEscape(47), b, q)
    BY <2>1, Zenon
  <2>4. Unitary(b, q, <<47>>, 2)
    BY <2>3, ShortUnit, Zenon
  <2> QED
    BY <2>1, <2>2, <2>4, Zenon
<1>4. CASE p = 4
  <2>1. Spells(Piece[4].text, 65) /\ ~Lex!IsHigh(65) /\ Stands(Piece[4].text, b, q)
    BY <1>4, PiecesSpell, ValuesSay
  <2>2. Unitary(b, q, Alone(65), Len(Piece[4].text))
    BY <2>1, AloneIs
  <2>3. Alone(65) = Piece[4].says
    BY PiecesAre, ValuesSay
  <2> QED
    BY <1>4, <2>2, <2>3
<1>5. CASE p = 5
  <2>1. Spells(Piece[5].text, 2047) /\ ~Lex!IsHigh(2047) /\ Stands(Piece[5].text, b, q)
    BY <1>5, PiecesSpell, ValuesSay
  <2>2. Unitary(b, q, Alone(2047), Len(Piece[5].text))
    BY <2>1, AloneIs
  <2>3. Alone(2047) = Piece[5].says
    BY PiecesAre, ValuesSay
  <2> QED
    BY <1>5, <2>2, <2>3
<1> QED
  BY <1>1, <1>2, <1>3, <1>4, <1>5 DEF Telling

LEMMA TellingSays ==
    ASSUME NEW p \in Telling
    PROVE  Piece[p].says \in Seq(Int) /\ Piece[p].says # <<>>
<1>1. Len(<<>>) = 0
  OBVIOUS
<1>2. ASSUME NEW v \in Int PROVE <<v>> \in Seq(Int) /\ Len(<<v>>) # 0
  OBVIOUS
<1>3. ASSUME NEW v \in Int, NEW u \in Int PROVE <<v, u>> \in Seq(Int) /\ Len(<<v, u>>) # 0
  OBVIOUS
<1>4. \A v \in Int : <<v>> \in Seq(Int) /\ <<v>> # <<>>
  BY <1>1, <1>2, Zenon
<1>5. \A v, u \in Int : <<v, u>> \in Seq(Int) /\ <<v, u>> # <<>>
  BY <1>1, <1>3, Zenon
<1> DEFINE Good(t) == t \in Seq(Int) /\ t # <<>>
<1>6. Good(<<122>>) /\ Good(<<10>>) /\ Good(<<47>>) /\ Good(<<65>>) /\ Good(<<223, 191>>)
  <2>1. 122 \in Int /\ 10 \in Int /\ 47 \in Int /\ 65 \in Int /\ 223 \in Int /\ 191 \in Int
    OBVIOUS
  <2> QED
    BY <1>4, <1>5, <2>1, ZenonT(60)
<1> HIDE DEF Good
<1>7. /\ Good(Piece[1].says) /\ Good(Piece[2].says) /\ Good(Piece[3].says)
      /\ Good(Piece[4].says) /\ Good(Piece[5].says)
  <2>1. /\ Piece[1].says = <<122>> /\ Piece[2].says = <<10>> /\ Piece[3].says = <<47>>
        /\ Piece[4].says = <<65>> /\ Piece[5].says = <<223, 191>>
    BY PiecesAre
  <2> QED
    BY <1>6, <2>1
<1>8. p = 1 \/ p = 2 \/ p = 3 \/ p = 4 \/ p = 5
  BY DEF Telling
<1> QED
  BY <1>7, <1>8, Zenon DEF Good

\* A zero, and a low surrogate that comes first.
LEMMA SilentIs ==
    ASSUME NEW p \in {6, 11}, NEW b \in Seq(Int), NEW q \in Int, Stands(Piece[p].text, b, q)
    PROVE  Unitary(b, q, <<>>, Len(Piece[p].text))
<1>1. PICK v \in {0, 56606} : Spells(Piece[p].text, v) /\ ~Lex!IsHigh(v) /\ Alone(v) = <<>>
  BY PiecesSpell, ValuesSay
<1>2. Open(b, q, 6) /\ UnitIs(b, q, Alone(v), 6)
  BY <1>1, SpellsUnit
<1>3. Len(Piece[p].text) = 6
  BY <1>1, SixLong
<1>4. Open(b, q, 6) /\ UnitIs(b, q, <<>>, 6)
  BY <1>1, <1>2
<1> QED
  BY <1>3, <1>4 DEF Unitary

\* A high surrogate asks for a low one.
LEMMA HighIs ==
    ASSUME NEW b \in Seq(Int), NEW q \in Int, Stands(Piece[10].text, b, q)
    PROVE  /\ Len(Piece[10].text) = 6 /\ Len(Piece[11].text) = 6 /\ Open(b, q, 6)
           /\ ~LowAt(b, q + 6) => UnitIs(b, q, <<>>, 12)
           /\ Stands(Piece[11].text, b, q + 6) => UnitIs(b, q, Clef, 12)
<1>1. Spells(Piece[10].text, 55348) /\ Spells(Piece[11].text, 56606)
  BY PiecesSpell
<1>2. Len(Piece[10].text) = 6 /\ Len(Piece[11].text) = 6
  BY <1>1, SixLong
<1>3. Open(b, q, 6) /\ (~LowAt(b, q + 6) => UnitIs(b, q, <<>>, 12))
  BY <1>1, SpellsUnit, ValuesSay
<1>4. LowAt(b, q + 6) => UnitIs(b, q, PairSays(55348, Lex!Unescape(b, q + 7)), 12)
  BY <1>1, SpellsUnit, ValuesSay
<1>5. ASSUME Stands(Piece[11].text, b, q + 6) PROVE UnitIs(b, q, Clef, 12)
  <2>1. q + 6 \in Int /\ (q + 6) + 1 = q + 7
    OBVIOUS
  <2>2. Lex!IsEscape(b, q + 6, 117) /\ Lex!Unescape(b, (q + 6) + 1) = 56606
    BY <1>1, <1>5, <2>1, SpellsUnit
  <2>3. LowAt(b, q + 6)
    BY <2>2, ValuesSay DEF LowAt
  <2>4. Lex!Unescape(b, q + 7) = 56606
    BY <2>1, <2>2
  <2>5. UnitIs(b, q, PairSays(55348, 56606), 12)
    BY <1>4, <2>3, <2>4
  <2>6. PairSays(55348, 56606) = Clef
    BY ValuesSay
  <2> QED
    BY <2>5, <2>6
<1> QED
  BY <1>2, <1>3, <1>5, Zenon

NoDigit(b, q) == b[q] \notin Lex!HexDigit

LEMMA NoHex == 34 \notin Lex!HexDigit /\ 31 \notin Lex!HexDigit /\ 92 \notin Lex!HexDigit /\ 122 \notin Lex!HexDigit
  BY DEF Lex!HexDigit, Lex!Digit

LEMMA NoEscape ==
    ASSUME NEW b, NEW q, b[q] # 92
    PROVE  ~LowAt(b, q)
  BY DEF LowAt, Lex!IsEscape, Lex!Backslash

LEMMA HalfAt ==
    ASSUME NEW b, NEW q \in Int, Stands(Piece[7].text, b, q)
    PROVE  ByteAt(b, q, 92) /\ ByteAt(b, q + 1, 117) /\ Len(Piece[7].text) = 4
<1> DEFINE w == <<92, 117, 48, 48>>
<1>1. Len(Piece[7].text) = 4
  BY PiecesAre
<1>2. Len(w) \in Int /\ 0 < Len(w) /\ 1 < Len(w) /\ w[1] = 92 /\ w[2] = 117
  OBVIOUS
<1>3. Piece[7].text = w
  BY PiecesAre
<1>4. Stands(w, b, q)
  BY <1>3, Zenon
<1> HIDE DEF w
<1>5. \A k \in Int : 0 <= k /\ k < Len(w) => b[q + k] = w[k + 1]
  BY <1>2, <1>4, StandsAt
<1>6. b[q + 0] = w[0 + 1] /\ b[q + 1] = w[1 + 1] /\ q + 0 = q
  BY <1>2, <1>5
<1>7. ByteAt(b, q, 92) /\ ByteAt(b, q + 1, 117)
  BY <1>2, <1>6 DEF ByteAt
<1> QED
  BY <1>1, <1>7, Zenon

LEMMA OneByteAt ==
    ASSUME NEW b, NEW q \in Int
    PROVE  /\ Stands(Piece[1].text, b, q) => ByteAt(b, q, 122)
           /\ Stands(Piece[9].text, b, q) => ByteAt(b, q, 31)
<1>1. 122 \in Int /\ 31 \in Int
  OBVIOUS
<1>2. Piece[1].text = <<122>> /\ Piece[9].text = <<31>>
  BY PiecesAre
<1>3. Stands(<<122>>, b, q) => ByteAt(b, q, 122)
  BY <1>1, OneAt, Zenon
<1>4. Stands(<<31>>, b, q) => ByteAt(b, q, 31)
  BY <1>1, OneAt, Zenon
<1> QED
  BY <1>2, <1>3, <1>4, Zenon

\* A piece that cannot stand in a string, whatever follows it.
LEMMA BrokenIs ==
    ASSUME NEW p \in Broken, NEW b \in Seq(Int), NEW q \in Int, Stands(Piece[p].text, b, q),
           NoDigit(b, q + Len(Piece[p].text))
    PROVE  Stuck(b, q)
<1>1. CASE p = 7
  <2>1. Stands(Piece[7].text, b, q) /\ NoDigit(b, q + Len(Piece[7].text))
    BY <1>1
  <2>2. b[q] = 92 /\ b[q + 1] = 117 /\ Len(Piece[7].text) = 4
    <3>1. ByteAt(b, q, 92) /\ ByteAt(b, q + 1, 117) /\ Len(Piece[7].text) = 4
      BY <2>1, HalfAt, Zenon
    <3> QED
      BY <3>1, Zenon DEF ByteAt
  <2>3. b[q + 4] \notin Lex!HexDigit
    BY <2>1, <2>2, Zenon DEF NoDigit
  <2>4. ~\A d \in 2 .. 5 : b[q + d] \in Lex!HexDigit
    <3>1. 4 \in 2 .. 5
      OBVIOUS
    <3> QED
      BY <2>3, <3>1, Zenon
  <2>5. 117 \notin {Lex!Quote, Lex!Backslash, Lex!Slash} \cup DOMAIN Lex!Escape
    BY DEF Lex!Quote, Lex!Backslash, Lex!Slash, Lex!Escape
  <2>6. Lex!IsEscape(b, q, 117)
    BY <2>2 DEF Lex!IsEscape, Lex!Backslash
  <2> DEFINE four == \A d \in 2 .. 5 : b[q + d] \in Lex!HexDigit
             letter == b[q + 1] \in {Lex!Quote, Lex!Backslash, Lex!Slash} \cup DOMAIN Lex!Escape
  <2>7. ~four /\ ~letter
    BY <2>2, <2>4, <2>5, Zenon
  <2>8. Lex!UnitLength(b, q) =
            CASE Lex!IsEscape(b, q, 117) -> IF four THEN 6 ELSE 0
              [] b[q] = Lex!Backslash /\ letter -> 2
              [] b[q] > 31 /\ b[q] # Lex!Backslash -> 1
              [] OTHER -> 0
    BY Zenon DEF Lex!UnitLength
  <2> HIDE DEF four, letter
  <2>9. Lex!UnitLength(b, q) = 0
    BY <2>2, <2>6, <2>7, <2>8 DEF Lex!Backslash
  <2> QED
    BY <2>2, <2>9 DEF Stuck
<1>2. CASE p = 8
  <2>1. Piece[p].text = ShortEscape(120)
    BY <1>2, PiecesAre, Zenon DEF ShortEscape
  <2>2. Stands(ShortEscape(120), b, q)
    BY <2>1, Zenon
  <2> QED
    BY <2>2, ShortUnit, ZenonT(60)
<1>3. CASE p = 9
  <2>1. ByteAt(b, q, 31)
    BY <1>3, OneByteAt, Zenon
  <2>2. b[q] = 31
    BY <2>1, Zenon DEF ByteAt
  <2>3. ~Lex!IsEscape(b, q, 117)
    BY <2>2 DEF Lex!IsEscape, Lex!Backslash
  <2>4. Lex!UnitLength(b, q) = 0
    BY <2>2, <2>3 DEF Lex!UnitLength, Lex!Backslash
  <2> QED
    BY <2>2, <2>4 DEF Stuck
<1> QED
  BY <1>1, <1>2, <1>3 DEF Broken

\* No piece begins with a digit, and only the last one is a low surrogate.
LEMMA FirstByte ==
    ASSUME NEW p \in 1 .. 11, NEW b \in Seq(Int), NEW q \in Int, Stands(Piece[p].text, b, q)
    PROVE  NoDigit(b, q) /\ (p \notin {7, 11} => ~LowAt(b, q))
<1> USE DEF NoDigit
<1>1. CASE p = 1 \/ p = 9
  <2>1. ByteAt(b, q, 122) \/ ByteAt(b, q, 31)
    BY <1>1, OneByteAt, Zenon
  <2>2. b[q] = 122 \/ b[q] = 31
    BY <2>1, Zenon DEF ByteAt
  <2>3. b[q] # 92 /\ b[q] \notin Lex!HexDigit
    BY <2>2, NoHex
  <2> QED
    BY <2>3, NoEscape, Zenon
<1>2. CASE p = 7
  <2>1. ByteAt(b, q, 92)
    BY <1>2, HalfAt, Zenon
  <2>2. b[q] \notin Lex!HexDigit
    BY <2>1, NoHex, Zenon DEF ByteAt
  <2> QED
    BY <1>2, <2>2
<1>3. CASE p \in {2, 3, 8}
  <2>1. ASSUME NEW v, v # 117, Stands(ShortEscape(v), b, q)
        PROVE  b[q] \notin Lex!HexDigit /\ ~LowAt(b, q)
    <3>1. ByteAt(b, q, 92) /\ ByteAt(b, q + 1, v)
      BY <2>1, StandsTwo, Zenon
    <3>2. b[q] = 92 /\ b[q + 1] = v
      BY <3>1, Zenon DEF ByteAt
    <3>3. ~LowAt(b, q)
      BY <2>1, <3>2, Zenon DEF LowAt, Lex!IsEscape
    <3> QED
      BY <3>2, <3>3, NoHex, Zenon
  <2>2. CASE p = 2
    <3>1. Piece[p].text = ShortEscape(110)
      BY <2>2, PiecesAre, Zenon DEF ShortEscape
    <3>2. Stands(ShortEscape(110), b, q) /\ 110 # 117
      BY <3>1
    <3> QED
      BY <2>1, <3>2, ZenonT(60)
  <2>3. CASE p = 3
    <3>1. Piece[p].text = ShortEscape(47)
      BY <2>3, PiecesAre, Zenon DEF ShortEscape
    <3>2. Stands(ShortEscape(47), b, q) /\ 47 # 117
      BY <3>1
    <3> QED
      BY <2>1, <3>2, ZenonT(60)
  <2>4. CASE p = 8
    <3>1. Piece[p].text = ShortEscape(120)
      BY <2>4, PiecesAre, Zenon DEF ShortEscape
    <3>2. Stands(ShortEscape(120), b, q) /\ 120 # 117
      BY <3>1
    <3> QED
      BY <2>1, <3>2, ZenonT(60)
  <2> QED
    BY <1>3, <2>2, <2>3, <2>4
<1>4. CASE p \in {4, 5, 6, 10, 11}
  <2>1. \E v \in {65, 2047, 0, 55348, 56606} :
            Spells(Piece[p].text, v) /\ (p # 11 => ~Lex!IsLow(v))
    BY <1>4, PiecesSpell, ValuesSay
  <2>2. PICK v \in {65, 2047, 0, 55348, 56606} :
            Spells(Piece[p].text, v) /\ (p # 11 => ~Lex!IsLow(v))
    BY <2>1
  <2>3. Spells(Piece[p].text, v)
    BY <2>2
  <2>4. b[q] = 92 /\ Lex!Unescape(b, q + 1) = v
    BY <2>3 DEF Spells
  <2>5. b[q] \notin Lex!HexDigit
    BY <2>4, NoHex
  <2>6. p # 11 => ~LowAt(b, q)
    BY <2>2, <2>4 DEF LowAt
  <2> QED
    BY <2>5, <2>6
<1> QED
  BY <1>1, <1>2, <1>3, <1>4

\* What the pieces say, from place to place.
Twins(c, i) == c[i] = 10 /\ i < Len(c) /\ c[i + 1] = 11
Ahead(c, i) == IF Twins(c, i) THEN i + 2 ELSE i + 1
Answers == [ok : BOOLEAN, text : Seq(Int)]
Told(c, i, u) ==
    IF Twins(c, i) THEN [u EXCEPT !.text = Clef \o @]
    ELSE [ok |-> Piece[c[i]].says # <<>> /\ u.ok, text |-> Piece[c[i]].says \o u.text]
SaysOf(c, from) ==
    /\ from[Len(c) + 1] = Done
    /\ \A i \in 1 .. Len(c) + 1 : from[i] \in Answers
    /\ \A i \in 1 .. Len(c) : from[i] = Told(c, i, from[Ahead(c, i)])

LEMMA SaysTyped ==
    ASSUME NEW p \in 1 .. 11
    PROVE  Piece[p].says \in Seq(Int)
<1>1. CASE p \in Telling
  BY <1>1, TellingSays, Zenon
<1>2. CASE p \notin Telling
  <2>1. /\ Piece[6].says = <<>> /\ Piece[7].says = <<>> /\ Piece[8].says = <<>>
        /\ Piece[9].says = <<>> /\ Piece[10].says = <<>> /\ Piece[11].says = <<>>
    BY PiecesAre
  <2>2. p = 6 \/ p = 7 \/ p = 8 \/ p = 9 \/ p = 10 \/ p = 11
    BY <1>2 DEF Telling
  <2>3. Piece[p].says = <<>> /\ <<>> \in Seq(Int)
    BY <2>1, <2>2
  <2> QED
    BY <2>3, Zenon
<1> QED
  BY <1>1, <1>2

LEMMA AnswerIs ==
    ASSUME NEW c \in Seq(1 .. 11), NEW i \in 1 .. Len(c), NEW u \in Answers
    PROVE  /\ Told(c, i, u) \in Answers
           /\ Twins(c, i) => Told(c, i, u) = [ok |-> u.ok, text |-> Clef \o u.text]
<1>1. u = [ok |-> u.ok, text |-> u.text] /\ u.ok \in BOOLEAN /\ u.text \in Seq(Int)
  BY DEF Answers
<1>2. Clef \in Seq(Int)
  BY DEF Clef
<1>3. c[i] \in 1 .. 11
  OBVIOUS
<1>4. Piece[c[i]].says \in Seq(Int)
  BY <1>3, SaysTyped, Zenon
<1> DEFINE y == Piece[c[i]].says
<1>5. y \o u.text \in Seq(Int) /\ Clef \o u.text \in Seq(Int)
  <2> HIDE DEF y
  <2>1. y \in Seq(Int)
    BY <1>4 DEF y
  <2> QED
    BY <1>1, <1>2, <2>1
<1>6. CASE Twins(c, i)
  <2>1. Told(c, i, u) = [u EXCEPT !.text = Clef \o u.text]
    BY <1>6, Zenon DEF Told
  <2> DEFINE t == Clef \o u.text
  <2>2. t \in Seq(Int)
    BY <1>5
  <2> HIDE DEF t
  <2>3. [u EXCEPT !.text = t] = [ok |-> u.ok, text |-> t]
    BY <1>1
  <2>4. [ok |-> u.ok, text |-> t] \in Answers
    BY <1>1, <2>2 DEF Answers
  <2> QED
    BY <2>1, <2>3, <2>4 DEF t
<1>7. CASE ~Twins(c, i)
  <2>1. Told(c, i, u) = [ok |-> y # <<>> /\ u.ok, text |-> y \o u.text]
    BY <1>7, Zenon DEF Told
  <2> DEFINE t == y \o u.text
             k == y # <<>> /\ u.ok
  <2>2. t \in Seq(Int) /\ k \in BOOLEAN
    BY <1>5
  <2> HIDE DEF t, k
  <2>3. [ok |-> k, text |-> t] \in Answers
    BY <2>2 DEF Answers
  <2> QED
    BY <1>7, <2>1, <2>3 DEF t, k
<1> QED
  BY <1>6, <1>7

LEMMA SaysIs ==
    ASSUME NEW c \in Seq(1 .. 11)
    PROVE  \E from : SaysOf(c, from) /\ Says(c) = from[1]
<1> DEFINE m == Len(c)
           D == 1 .. m
           E == 1 .. m + 1
           step(f) == [i \in E |-> IF i > m THEN Done
                                   ELSE IF Twins(c, i) THEN [f[i + 2] EXCEPT !.text = Clef \o @]
                                   ELSE [ok |-> Piece[c[i]].says # <<>> /\ f[i + 1].ok,
                                         text |-> Piece[c[i]].says \o f[i + 1].text]]
           from == CHOOSE f : f = step(f)
           F == [p \in D \X Answers |-> Told(c, p[1], p[2])]
           jump == [i \in D |-> IF Twins(c, i) THEN 2 ELSE 1]
<1>1. m \in Nat /\ 1 \in Int /\ m \in Int
  OBVIOUS
<1>2. Says(c) = from[1]
  BY Zenon DEF Says, Done, Twins
<1>3. Done \in Answers
  BY DEF Done, Answers
<1>4. \A i \in D, u \in Answers : Told(c, i, u) \in Answers
  BY AnswerIs, Zenon
<1>5. \A i \in D : Ahead(c, i) = i + jump[i] /\ Ahead(c, i) \in E
  BY DEF Ahead, Twins
<1>6. ASSUME NEW f, NEW i \in E
      PROVE  step(f)[i] = IF i > m THEN Done ELSE Told(c, i, f[Ahead(c, i)])
  <2>1. step(f)[i] = IF i > m THEN Done
                     ELSE IF Twins(c, i) THEN [f[i + 2] EXCEPT !.text = Clef \o @]
                     ELSE [ok |-> Piece[c[i]].says # <<>> /\ f[i + 1].ok,
                           text |-> Piece[c[i]].says \o f[i + 1].text]
    BY Zenon
  <2> HIDE DEF step
  <2> QED
    BY <2>1, Zenon DEF Told, Ahead
<1> HIDE DEF m
<1>7. \E g : Backward(g, D, Answers, Done, F, jump)
  <2>1. F \in [D \X Answers -> Answers]
    BY <1>4
  <2>2. jump \in [D -> Nat \ {0}]
    OBVIOUS
  <2> HIDE DEF F, jump
  <2> QED
    BY <1>1, <1>3, <2>1, <2>2, Recursion, Zenon
<1>8. PICK g : Backward(g, D, Answers, Done, F, jump)
  BY <1>7, Zenon
<1>9. g \in [D -> Answers] /\ \A i \in D : g[i] = F[<<i, IF i + jump[i] \in D THEN g[i + jump[i]] ELSE Done>>]
  BY <1>8, Zenon DEF Backward
<1> DEFINE h == [i \in E |-> IF i > m THEN Done ELSE g[i]]
<1>10. \A i \in E : h[i] = IF i > m THEN Done ELSE g[i]
  OBVIOUS
<1>11. h = [i \in E |-> h[i]]
  OBVIOUS
<1>12. \A i \in D : i \in E /\ ~(i > m)
  BY <1>1
<1>13. \A i \in E : i > m \/ i \in D
  BY <1>1
<1> HIDE DEF h
<1>14. \A i \in E : h[i] \in Answers
  BY <1>3, <1>9, <1>10, <1>13
<1>15. ASSUME NEW i \in D PROVE h[i] = Told(c, i, h[Ahead(c, i)])
  <2> DEFINE a == i + jump[i]
             u == IF a \in D THEN g[a] ELSE Done
  <2>1. h[i] = g[i]
    BY <1>10, <1>12, Zenon
  <2>2. g[i] = F[<<i, u>>]
    BY <1>9, Zenon
  <2>3. a = Ahead(c, i) /\ a \in E
    <3> HIDE DEF jump, a
    <3> QED
      BY <1>5 DEF a
  <2> HIDE DEF jump, a
  <2>4. u = h[a]
    BY <1>10, <1>12, <1>13, <2>3
  <2>5. u \in Answers
    BY <1>14, <2>3, <2>4
  <2> HIDE DEF u
  <2>6. F[<<i, u>>] = Told(c, i, u)
    BY <2>5
  <2> HIDE DEF F
  <2> QED
    BY <2>1, <2>2, <2>3, <2>4, <2>6, Zenon
<1>16. h = step(h)
  <2>1. step(h) = [i \in E |-> step(h)[i]]
    OBVIOUS
  <2> HIDE DEF step, E
  <2>2. \A i \in E : h[i] = step(h)[i]
    BY <1>6, <1>10, <1>13, <1>15, Zenon
  <2> QED
    BY <1>11, <2>1, <2>2
<1>17. m + 1 \in E /\ m + 1 > m
  BY <1>1
<1>18. from = step(from)
  <2> HIDE DEF step
  <2> QED
    BY <1>16, Zenon
<1>19. \A i \in E : from[i] = IF i > m THEN Done ELSE Told(c, i, from[Ahead(c, i)])
  <2> HIDE DEF step, from, E
  <2> QED
    BY <1>6, <1>18, Zenon
<1> HIDE DEF from, step
<1>20. from[m + 1] = Done
  BY <1>17, <1>19, Zenon
<1>21. \A i \in D : from[i] = Told(c, i, from[Ahead(c, i)])
  BY <1>12, <1>19, Zenon
<1>22. \A i \in D : Ahead(c, i) \in i + 1 .. m + 1
  BY <1>5 DEF Ahead
<1>23. \A i \in E : from[i] \in Answers
  <2> DEFINE S == {i \in E : from[i] \in Answers}
  <2>1. ASSUME NEW i \in 1 .. m + 1, \A j \in i + 1 .. m + 1 : j \in S PROVE i \in S
    <3>1. CASE i \in D
      <4>1. Ahead(c, i) \in S
        BY <1>22, <2>1, <3>1, Zenon
      <4>2. from[Ahead(c, i)] \in Answers
        BY <4>1
      <4>3. from[i] \in Answers
        BY <1>4, <1>21, <3>1, <4>2, Zenon
      <4> QED
        BY <4>3
    <3>2. CASE i \notin D
      <4>1. i = m + 1
        BY <1>1, <3>2
      <4>2. from[i] \in Answers
        BY <1>3, <1>20, <4>1, Zenon
      <4> QED
        BY <4>2
    <3> QED
      BY <3>1, <3>2
  <2>2. m + 1 \in Int /\ 1 \in Int
    BY <1>1
  <2> HIDE DEF S
  <2>3. \A i \in 1 .. m + 1 : i \in S
    BY <2>1, <2>2, FromEnd, Zenon
  <2> QED
    BY <2>3, Zenon DEF S
<1>24. SaysOf(c, from)
  BY <1>20, <1>21, <1>23, Zenon DEF SaysOf, m
<1> QED
  BY <1>2, <1>24, Zenon

\* Pieces that stand in a stream, each at its place, between two quotes.
Texts(c) == [i \in DOMAIN c |-> Piece[c[i]].text]
Placed(c, b, pos) ==
    /\ b \in Seq(Int) /\ Len(b) \in Int /\ b[Len(b)] = -1 /\ Len(b) = pos[Len(c) + 1] + 1
    /\ pos[1] = 2 /\ b[pos[Len(c) + 1]] = 34
    /\ \A i \in 1 .. Len(c) + 1 : pos[i] \in Int /\ 2 <= pos[i] /\ pos[i] <= pos[Len(c) + 1]
    /\ \A i \in 1 .. Len(c) :
           /\ Stands(Piece[c[i]].text, b, pos[i])
           /\ pos[i + 1] = pos[i] + Len(Piece[c[i]].text)
           /\ pos[i] < pos[Len(c) + 1]

LEMMA TextsIs ==
    ASSUME NEW c \in Seq(1 .. 11)
    PROVE  Texts(c) \in Seq(AsciiText) /\ Len(Texts(c)) = Len(c)
<1> DEFINE V(i) == Piece[c[i]].text
           m == Len(c)
<1>1. DOMAIN c = 1 .. m /\ m \in Nat /\ \A i \in 1 .. m : c[i] \in 1 .. 11
  OBVIOUS
<1>2. \A i \in 1 .. m : V(i) \in AsciiText
  BY <1>1, PiecesTyped, Zenon
<1>3. Texts(c) = [i \in 1 .. m |-> V(i)]
  BY <1>1, Zenon DEF Texts
<1> HIDE DEF V, m
<1>4. [i \in 1 .. m |-> V(i)] \in Seq(AsciiText) /\ Len([i \in 1 .. m |-> V(i)]) = m
  BY <1>1, <1>2
<1> QED
  BY <1>3, <1>4, Zenon DEF m

LEMMA PlacedIs ==
    ASSUME NEW c \in Seq(1 .. 11), NEW b, NEW pos, Laid(pos, Texts(c), b)
    PROVE  Placed(c, b, pos)
<1> DEFINE T == Texts(c)
           m == Len(c)
           last == pos[m + 1]
<1>1. T \in Seq(AsciiText) /\ Len(T) = m
  BY TextsIs, Zenon
<1>2. m \in Nat /\ \A i \in 1 .. m : c[i] \in 1 .. 11 /\ T[i] = Piece[c[i]].text
  <2>1. m \in Nat /\ DOMAIN c = 1 .. m /\ \A i \in 1 .. m : c[i] \in 1 .. 11
    OBVIOUS
  <2> QED
    BY <2>1 DEF Texts
<1>3. /\ pos[1] = 2 /\ b \in Seq(Int)
      /\ \A k \in 1 .. m + 1 : pos[k] \in Int /\ 2 <= pos[k]
      /\ \A k \in 1 .. m : Stands(T[k], b, pos[k]) /\ pos[k + 1] = pos[k] + Len(T[k])
      /\ b[last] = 34 /\ Len(b) = last + 1 /\ b[Len(b)] = -1
  BY <1>1, Zenon DEF Laid
<1>4. Len(b) \in Int
  BY <1>3
<1> HIDE DEF T, m
<1>5. ASSUME NEW i \in 1 .. m
      PROVE  /\ Stands(Piece[c[i]].text, b, pos[i])
             /\ pos[i + 1] = pos[i] + Len(Piece[c[i]].text)
             /\ pos[i] < pos[i + 1]
  <2>1. /\ Stands(Piece[c[i]].text, b, pos[i])
        /\ pos[i + 1] = pos[i] + Len(Piece[c[i]].text)
    BY <1>2, <1>3, Zenon
  <2> DEFINE n == Len(Piece[c[i]].text)
  <2>2. n >= 1 /\ n \in Nat
    BY <1>2, PiecesTyped, AsciiTextIs, Zenon
  <2>3. pos[i] \in Int
    <3>1. i \in 1 .. m + 1
      BY <1>2
    <3> QED
      BY <1>3, <3>1, Zenon
  <2>4. pos[i + 1] = pos[i] + n
    BY <2>1
  <2> HIDE DEF n
  <2>5. pos[i] < pos[i + 1]
    BY <2>2, <2>3, <2>4
  <2> QED
    BY <2>1, <2>5
<1>6. \A i \in 1 .. m + 1 : pos[i] <= last
  <2> DEFINE S == {i \in 1 .. m + 1 : pos[i] <= last}
  <2>1. ASSUME NEW i \in 1 .. m + 1, \A j \in i + 1 .. m + 1 : j \in S PROVE i \in S
    <3>1. CASE i = m + 1
      <4>1. pos[i] \in Int
        BY <1>3
      <4> QED
        BY <3>1, <4>1
    <3>2. CASE i # m + 1
      <4>1. i \in 1 .. m /\ i + 1 \in i + 1 .. m + 1 /\ i + 1 \in 1 .. m + 1 /\ m + 1 \in 1 .. m + 1
        BY <1>2, <3>2
      <4>2. pos[i + 1] <= last
        BY <2>1, <4>1
      <4>3. pos[i] < pos[i + 1]
        BY <1>5, <4>1, Zenon
      <4>4. pos[i] \in Int /\ pos[i + 1] \in Int /\ last \in Int
        BY <1>3, <4>1, Zenon
      <4> HIDE DEF last
      <4>5. pos[i] <= last
        BY <4>2, <4>3, <4>4
      <4> QED
        BY <4>5
    <3> QED
      BY <3>1, <3>2
  <2>2. m + 1 \in Int /\ 1 \in Int
    BY <1>2
  <2> HIDE DEF S
  <2>3. \A i \in 1 .. m + 1 : i \in S
    BY <2>1, <2>2, FromEnd, Zenon
  <2> QED
    BY <2>3, Zenon DEF S
<1>7. \A i \in 1 .. m : pos[i] < last
  <2> SUFFICES ASSUME NEW i \in 1 .. m PROVE pos[i] < last
    OBVIOUS
  <2>1. i \in 1 .. m + 1 /\ i + 1 \in 1 .. m + 1 /\ m + 1 \in 1 .. m + 1
    BY <1>2
  <2>2. pos[i] \in Int /\ pos[i + 1] \in Int /\ last \in Int
    BY <1>3, <2>1, Zenon
  <2>3. pos[i] < pos[i + 1] /\ pos[i + 1] <= last
    BY <1>5, <1>6, <2>1, Zenon
  <2> HIDE DEF last
  <2> QED
    BY <2>2, <2>3
<1> QED
  BY <1>3, <1>4, <1>5, <1>6, <1>7, Zenon DEF Placed, m

\* What stands behind a piece.
LEMMA NextIs ==
    ASSUME NEW c \in Seq(1 .. 11), NEW b, NEW pos, Placed(c, b, pos), NEW i \in 1 .. Len(c) + 1
    PROVE  /\ NoDigit(b, pos[i])
           /\ i = Len(c) + 1 \/ c[i] \notin {7, 11} => ~LowAt(b, pos[i])
<1> DEFINE m == Len(c)
<1>1. m \in Nat /\ \A k \in 1 .. m : c[k] \in 1 .. 11
  OBVIOUS
<1>2. b[pos[m + 1]] = 34 /\ b \in Seq(Int) /\ pos[i] \in Int
  BY Zenon DEF Placed
<1>3. CASE i = m + 1
  <2>1. b[pos[i]] = 34 /\ 34 # 92
    BY <1>2, <1>3
  <2>2. ~LowAt(b, pos[i])
    BY <2>1, NoEscape
  <2> QED
    BY <2>1, <2>2, NoHex, Zenon DEF NoDigit
<1>4. CASE i # m + 1
  <2>1. i \in 1 .. m /\ c[i] \in 1 .. 11
    BY <1>1, <1>4
  <2>2. Stands(Piece[c[i]].text, b, pos[i])
    BY <2>1, Zenon DEF Placed
  <2>3. NoDigit(b, pos[i]) /\ (c[i] \notin {7, 11} => ~LowAt(b, pos[i]))
    BY <1>2, <2>1, <2>2, FirstByte, Zenon
  <2> QED
    BY <1>4, <2>3, Zenon
<1> QED
  BY <1>3, <1>4

BrokenFrom(c, i) == \E k \in i .. Len(c) : c[k] \in Broken
EndFits(c, i, last, e) == e = IF BrokenFrom(c, i) THEN 0 ELSE last

LEMMA BrokenStep ==
    ASSUME NEW c \in Seq(1 .. 11), NEW i \in 1 .. Len(c)
    PROVE  /\ BrokenFrom(c, i) <=> c[i] \in Broken \/ BrokenFrom(c, i + 1)
           /\ ~BrokenFrom(c, Len(c) + 1)
<1> DEFINE m == Len(c)
<1>1. m \in Nat
  OBVIOUS
<1> HIDE DEF m
<1>2. i \in i .. m /\ \A k \in i + 1 .. m : k \in i .. m
  BY <1>1 DEF m
<1>3. \A k \in i .. m : k = i \/ k \in i + 1 .. m
  BY <1>1 DEF m
<1>4. \A k : k \notin m + 1 .. m
  BY <1>1
<1> QED
  BY <1>2, <1>3, <1>4, Zenon DEF BrokenFrom, m

\* A piece that may stand in a string is passed.
LEMMA PieceOpens ==
    ASSUME NEW p \in 1 .. 11, p \notin Broken, NEW b \in Seq(Int), NEW q \in Int, Stands(Piece[p].text, b, q)
    PROVE  Open(b, q, Len(Piece[p].text))
<1>1. CASE p \in Telling
  BY <1>1, TellingIs, Zenon DEF Unitary
<1>2. CASE p \in {6, 11}
  BY <1>2, SilentIs, Zenon DEF Unitary
<1>3. CASE p = 10
  <2>1. Len(Piece[10].text) = 6 /\ Open(b, q, 6)
    BY <1>3, HighIs, Zenon
  <2> QED
    BY <1>3, <2>1, Zenon
<1> QED
  BY <1>1, <1>2, <1>3 DEF Telling, Broken

LEMMA EndAt ==
    ASSUME NEW c \in Seq(1 .. 11), NEW b, NEW pos, Placed(c, b, pos), NEW end, EndOf(b, 2, end)
    PROVE  \A i \in 1 .. Len(c) + 1 : EndFits(c, i, pos[Len(c) + 1], end[pos[i]])
<1> DEFINE m == Len(c)
           last == pos[m + 1]
           S == {i \in 1 .. m + 1 : EndFits(c, i, last, end[pos[i]])}
<1>1. m \in Nat /\ \A i \in 1 .. m : c[i] \in 1 .. 11
  OBVIOUS
<1>2. /\ b \in Seq(Int) /\ Len(b) \in Int /\ Len(b) = last + 1 /\ b[last] = 34
      /\ \A i \in 1 .. m + 1 : pos[i] \in Int /\ 2 <= pos[i] /\ pos[i] <= last
      /\ \A i \in 1 .. m :
             /\ Stands(Piece[c[i]].text, b, pos[i])
             /\ pos[i + 1] = pos[i] + Len(Piece[c[i]].text)
  BY Zenon DEF Placed
<1>3. \A i \in 1 .. m : (BrokenFrom(c, i) <=> c[i] \in Broken \/ BrokenFrom(c, i + 1))
  BY BrokenStep, Zenon
<1>4. ~BrokenFrom(c, m + 1)
  <2>1. \A k : k \notin m + 1 .. m
    BY <1>1
  <2> QED
    BY <2>1, Zenon DEF BrokenFrom
<1>5. \A i \in 1 .. m + 1 : NoDigit(b, pos[i])
  BY NextIs, Zenon
<1>6. \A k \in 2 .. Len(b) :
          end[k] = IF b[k] = 34 THEN k
                   ELSE IF Lex!UnitLength(b, k) = 0 THEN 0 ELSE end[k + Lex!UnitLength(b, k)]
  BY Zenon DEF EndOf
<1>7. \A i \in 1 .. m + 1 : pos[i] \in 2 .. Len(b)
  <2> SUFFICES ASSUME NEW i \in 1 .. m + 1 PROVE pos[i] \in 2 .. Len(b)
    OBVIOUS
  <2>1. pos[i] \in Int /\ 2 <= pos[i] /\ pos[i] <= last
    BY <1>2, Zenon
  <2>2. last \in Int
    BY <1>1, <1>2
  <2> HIDE DEF last
  <2> QED
    BY <1>2, <2>1, <2>2
<1> HIDE DEF m
<1>8. ASSUME NEW i \in 1 .. m + 1, \A j \in i + 1 .. m + 1 : j \in S PROVE i \in S
  <2>1. CASE i = m + 1
    <3>1. pos[i] = last /\ b[pos[i]] = 34
      BY <1>2, <2>1, Zenon
    <3>2. end[pos[i]] = last
      BY <1>6, <1>7, <3>1, Zenon
    <3>3. EndFits(c, i, last, end[pos[i]])
      BY <1>4, <2>1, <3>2, Zenon DEF EndFits
    <3> QED
      BY <3>3
  <2>2. CASE i # m + 1
    <3>1. i \in 1 .. m /\ i + 1 \in i + 1 .. m + 1 /\ i + 1 \in 1 .. m + 1
      BY <1>1, <2>2
    <3>2. c[i] \in 1 .. 11 /\ pos[i] \in Int /\ pos[i] \in 2 .. Len(b)
      BY <1>1, <1>2, <1>7, <3>1, Zenon
    <3>3. CASE c[i] \in Broken
      <4>1. NoDigit(b, pos[i] + Len(Piece[c[i]].text))
        BY <1>2, <1>5, <3>1, Zenon
      <4>2. Stuck(b, pos[i])
        BY <1>2, <3>1, <3>2, <3>3, <4>1, BrokenIs, Zenon
      <4>3. end[pos[i]] = 0
        BY <1>6, <3>2, <4>2, Zenon DEF Stuck
      <4>4. EndFits(c, i, last, end[pos[i]])
        BY <1>3, <3>1, <3>3, <4>3, Zenon DEF EndFits
      <4> QED
        BY <4>4
    <3>4. CASE c[i] \notin Broken
      <4>1. Open(b, pos[i], Len(Piece[c[i]].text))
        BY <1>2, <3>1, <3>2, <3>4, PieceOpens, Zenon
      <4>2. Agree(end, pos[i], pos[i] + Len(Piece[c[i]].text))
        <5>1. 2 \in Int
          OBVIOUS
        <5> QED
          BY <3>2, <4>1, <5>1, EndStep, Zenon
      <4>3. end[pos[i]] = end[pos[i + 1]]
        BY <1>2, <3>1, <4>2, Zenon DEF Agree
      <4>4. i + 1 \in S
        BY <1>8, <3>1, Zenon
      <4>5. EndFits(c, i + 1, last, end[pos[i + 1]])
        BY <4>4
      <4>6. EndFits(c, i, last, end[pos[i]])
        BY <1>3, <3>1, <3>4, <4>3, <4>5, Zenon DEF EndFits
      <4> QED
        BY <4>6
    <3> QED
      BY <3>3, <3>4
  <2> QED
    BY <2>1, <2>2
<1>9. m + 1 \in Int /\ 1 \in Int
  BY <1>1
<1> HIDE DEF S
<1>10. \A i \in 1 .. m + 1 : i \in S
  BY <1>8, <1>9, FromEnd, Zenon
<1> QED
  BY <1>10, Zenon DEF S, m

LEMMA AnswerFields ==
    ASSUME NEW c \in Seq(1 .. 11), NEW i \in 1 .. Len(c), NEW u \in Answers
    PROVE  LET v == Told(c, i, u)
           IN  /\ Twins(c, i) => (v.ok <=> u.ok) /\ v.text = Clef \o u.text
               /\ ~Twins(c, i) => /\ v.ok <=> Piece[c[i]].says # <<>> /\ u.ok
                                  /\ v.text = Piece[c[i]].says \o u.text
<1> DEFINE v == Told(c, i, u)
<1>1. CASE Twins(c, i)
  <2> DEFINE t == Clef \o u.text
  <2>1. v = [ok |-> u.ok, text |-> t]
    BY <1>1, AnswerIs, Zenon
  <2> HIDE DEF t, v
  <2>2. v.ok = u.ok /\ v.text = t
    BY <2>1
  <2> QED
    BY <1>1, <2>2, Zenon DEF t, v
<1>2. CASE ~Twins(c, i)
  <2> DEFINE t == Piece[c[i]].says \o u.text
             k == Piece[c[i]].says # <<>> /\ u.ok
  <2>1. v = [ok |-> k, text |-> t]
    BY <1>2, Zenon DEF Told
  <2> HIDE DEF t, k, v
  <2>2. v.ok = k /\ v.text = t
    BY <2>1
  <2> QED
    BY <1>2, <2>2, Zenon DEF t, k, v
<1> QED
  BY <1>1, <1>2, Zenon

\* A piece that cannot stand in a string spoils the text.
LEMMA SaysBroken ==
    ASSUME NEW c \in Seq(1 .. 11), NEW from, SaysOf(c, from)
    PROVE  \A i \in 1 .. Len(c) + 1 : BrokenFrom(c, i) => ~from[i].ok
<1> DEFINE m == Len(c)
           S == {i \in 1 .. m + 1 : BrokenFrom(c, i) => ~from[i].ok}
<1>1. m \in Nat /\ \A i \in 1 .. m : c[i] \in 1 .. 11
  OBVIOUS
<1>2. /\ \A i \in 1 .. m + 1 : from[i] \in Answers
      /\ \A i \in 1 .. m : from[i] = Told(c, i, from[Ahead(c, i)])
  BY Zenon DEF SaysOf
<1>3. ~BrokenFrom(c, m + 1)
  <2>1. \A k : k \notin m + 1 .. m
    BY <1>1
  <2> QED
    BY <2>1, Zenon DEF BrokenFrom
<1>4. \A i \in 1 .. m : (BrokenFrom(c, i) <=> c[i] \in Broken \/ BrokenFrom(c, i + 1))
  BY BrokenStep, Zenon
<1>5. \A p \in Broken : Piece[p].says = <<>> /\ p # 10 /\ p # 11
  <2>1. Piece[7].says = <<>> /\ Piece[8].says = <<>> /\ Piece[9].says = <<>>
    BY PiecesAre
  <2> QED
    BY <2>1 DEF Broken
<1>6. \A i \in 1 .. m : Ahead(c, i) \in i + 1 .. m + 1 /\ Ahead(c, i) \in 1 .. m + 1
  BY <1>1 DEF Ahead, Twins
<1>7. \A i \in 1 .. m : Twins(c, i) => c[i] = 10 /\ c[i + 1] = 11 /\ i + 1 \in 1 .. m /\ Ahead(c, i) = (i + 1) + 1
  BY <1>1 DEF Ahead, Twins
<1>8. \A i \in 1 .. m : ~Twins(c, i) => Ahead(c, i) = i + 1
  BY DEF Ahead
<1>9. \A i \in 1 .. m :
           /\ Twins(c, i) => (from[i].ok <=> from[Ahead(c, i)].ok)
           /\ ~Twins(c, i) => (from[i].ok <=> Piece[c[i]].says # <<>> /\ from[Ahead(c, i)].ok)
  <2> SUFFICES ASSUME NEW i \in 1 .. m
               PROVE  /\ Twins(c, i) => (from[i].ok <=> from[Ahead(c, i)].ok)
                      /\ ~Twins(c, i) => (from[i].ok <=> Piece[c[i]].says # <<>> /\ from[Ahead(c, i)].ok)
    BY Zenon
  <2> DEFINE u == from[Ahead(c, i)]
  <2>1. u \in Answers /\ from[i] = Told(c, i, u)
    BY <1>2, <1>6, Zenon
  <2> HIDE DEF u
  <2>2. /\ Twins(c, i) => (Told(c, i, u).ok <=> u.ok)
        /\ ~Twins(c, i) => (Told(c, i, u).ok <=> Piece[c[i]].says # <<>> /\ u.ok)
    BY <2>1, AnswerFields, Zenon
  <2> QED
    BY <2>1, <2>2, Zenon DEF u
<1> HIDE DEF m
<1>10. ASSUME NEW i \in 1 .. m + 1, \A j \in i + 1 .. m + 1 : j \in S PROVE i \in S
  <2>1. CASE i = m + 1
    BY <1>3, <2>1
  <2>2. CASE i # m + 1
    <3>1. i \in 1 .. m
      BY <1>1, <2>2
    <3>2. BrokenFrom(c, Ahead(c, i)) => ~from[Ahead(c, i)].ok
      <4>1. Ahead(c, i) \in S
        BY <1>6, <1>10, <3>1, Zenon
      <4> QED
        BY <4>1
    <3>3. CASE Twins(c, i)
      <4>1. BrokenFrom(c, i) => BrokenFrom(c, Ahead(c, i))
        <5>1. BrokenFrom(c, i) => BrokenFrom(c, (i + 1) + 1)
          BY <1>4, <1>5, <1>7, <3>1, <3>3, Zenon
        <5>2. Ahead(c, i) = (i + 1) + 1
          BY <1>7, <3>1, <3>3, Zenon
        <5> QED
          BY <5>1, <5>2
      <4>2. BrokenFrom(c, i) => ~from[i].ok
        BY <1>9, <3>1, <3>2, <3>3, <4>1, Zenon
      <4> QED
        BY <4>2
    <3>4. CASE ~Twins(c, i)
      <4>1. BrokenFrom(c, i) => c[i] \in Broken \/ BrokenFrom(c, Ahead(c, i))
        <5>1. Ahead(c, i) = i + 1
          BY <1>8, <3>1, <3>4, Zenon
        <5>2. BrokenFrom(c, i) => c[i] \in Broken \/ BrokenFrom(c, i + 1)
          BY <1>4, <3>1, Zenon
        <5> QED
          BY <5>1, <5>2
      <4>2. BrokenFrom(c, i) => ~from[i].ok
        BY <1>5, <1>9, <3>1, <3>2, <3>4, <4>1, Zenon
      <4> QED
        BY <4>2
    <3> QED
      BY <3>3, <3>4
  <2> QED
    BY <2>1, <2>2
<1>11. m + 1 \in Int /\ 1 \in Int
  BY <1>1
<1> HIDE DEF S
<1>12. \A i \in 1 .. m + 1 : i \in S
  BY <1>10, <1>11, FromEnd, Zenon
<1> QED
  BY <1>12, Zenon DEF S, m

LEMMA DecodeStops ==
    ASSUME NEW b, NEW i \in Int, NEW e \in Int, NEW dec, DecodeOf(b, i, e, dec), NEW q \in Int, i <= q, q < e,
           NEW n, NEW t, UnitIs(b, q, t, n), t = <<>> \/ ~dec[q + n].ok
    PROVE  ~dec[q].ok
<1>1. q \in i .. e + 11 /\ ~(q >= e)
  OBVIOUS
<1>2. dec[q] = Onward(b, q, dec)
  BY <1>1 DEF DecodeOf
<1>3. Lex!Unit(b, q).bytes = t /\ Lex!Unit(b, q).len = n
  BY DEF UnitIs
<1> DEFINE k == t # <<>> /\ dec[q + n].ok
           x == t \o dec[q + n].text
<1>4. Onward(b, q, dec) = [ok |-> k, text |-> x]
  BY <1>3, Zenon DEF Onward
<1>5. ~k
  BY Zenon
<1> HIDE DEF k, x, Onward
<1>6. dec[q].ok = k
  BY <1>2, <1>4
<1> QED
  BY <1>5, <1>6, Zenon

\* What the decoder makes of the pieces from some place on.
Agrees(d, u) == (u.ok => Reads(d, u.text)) /\ (~u.ok => ~d.ok)

LEMMA FollowsStep ==
    ASSUME NEW b, NEW e \in Int, NEW dec, DecodeOf(b, 2, e, dec), NEW q \in Int, 2 <= q, q < e,
           NEW n \in Int, NEW t \in Seq(Int), t # <<>>, UnitIs(b, q, t, n), NEW u, Agrees(dec[q + n], u),
           NEW v, v.ok <=> u.ok, v.text = t \o u.text
    PROVE  Agrees(dec[q], v)
<1>1. 2 \in Int
  OBVIOUS
<1>2. CASE u.ok
  <2>1. Reads(dec[q + n], u.text)
    BY <1>2, Zenon DEF Agrees
  <2>2. Reads(dec[q], t \o u.text)
    BY <1>1, <2>1, DecodeStep, Zenon
  <2> QED
    BY <1>2, <2>2, Zenon DEF Agrees
<1>3. CASE ~u.ok
  <2>1. ~dec[q + n].ok
    BY <1>3, Zenon DEF Agrees
  <2>2. ~dec[q].ok
    BY <1>1, <2>1, DecodeStops, Zenon
  <2> QED
    BY <1>3, <2>2, Zenon DEF Agrees
<1> QED
  BY <1>2, <1>3, Zenon

LEMMA FollowsStop ==
    ASSUME NEW b, NEW e \in Int, NEW dec, DecodeOf(b, 2, e, dec), NEW q \in Int, 2 <= q, q < e,
           NEW n, UnitIs(b, q, <<>>, n), NEW v, ~v.ok
    PROVE  Agrees(dec[q], v)
<1>1. 2 \in Int
  OBVIOUS
<1>2. ~dec[q].ok
  BY <1>1, DecodeStops, Zenon
<1> QED
  BY <1>2, Zenon DEF Agrees

LEMMA DecodeAt ==
    ASSUME NEW c \in Seq(1 .. 11), ~BrokenFrom(c, 1), NEW b, NEW pos, Placed(c, b, pos),
           NEW from, SaysOf(c, from), NEW dec, DecodeOf(b, 2, pos[Len(c) + 1], dec)
    PROVE  Agrees(dec[2], from[1])
<1> DEFINE m == Len(c)
           e == pos[m + 1]
           S == {i \in 1 .. m + 1 : Agrees(dec[pos[i]], from[i])}
<1>1. m \in Nat /\ \A i \in 1 .. m : c[i] \in 1 .. 11
  OBVIOUS
<1>2. /\ b \in Seq(Int) /\ pos[1] = 2
      /\ \A i \in 1 .. m + 1 : pos[i] \in Int /\ 2 <= pos[i] /\ pos[i] <= e
      /\ \A i \in 1 .. m :
             /\ Stands(Piece[c[i]].text, b, pos[i])
             /\ pos[i + 1] = pos[i] + Len(Piece[c[i]].text)
             /\ pos[i] < e
  BY Zenon DEF Placed
<1>3. /\ from[m + 1] = Done
      /\ \A i \in 1 .. m + 1 : from[i] \in Answers
      /\ \A i \in 1 .. m : from[i] = Told(c, i, from[Ahead(c, i)])
  BY Zenon DEF SaysOf
<1>4. \A i \in 1 .. m : c[i] \notin Broken
  BY <1>1, Zenon DEF BrokenFrom
<1>5. e \in Int /\ 2 <= e /\ DecodeOf(b, 2, e, dec)
  <2>1. m + 1 \in 1 .. m + 1
    BY <1>1
  <2> QED
    BY <1>2, <2>1, Zenon
<1>6. \A i \in 1 .. m + 1 : i = m + 1 \/ c[i] \notin {7, 11} => ~LowAt(b, pos[i])
  BY NextIs, Zenon
<1> HIDE DEF m, e
<1>7. Agrees(dec[e], Done)
  <2>1. e \in 2 .. e + 11 /\ e >= e
    BY <1>5
  <2>2. dec[e] = Done
    BY <1>5, <2>1, Zenon DEF DecodeOf
  <2>3. Done.ok /\ Done = [ok |-> TRUE, text |-> Done.text]
    BY DEF Done
  <2> QED
    BY <2>2, <2>3, Zenon DEF Agrees, Reads
<1>8. ASSUME NEW i \in 1 .. m, Agrees(dec[pos[Ahead(c, i)]], from[Ahead(c, i)])
      PROVE  Agrees(dec[pos[i]], from[i])
  <2> DEFINE q == pos[i]
             p == c[i]
             n == Len(Piece[p].text)
             u == from[Ahead(c, i)]
             v == from[i]
  <2>1. /\ i + 1 \in 1 .. m + 1 /\ Ahead(c, i) \in 1 .. m + 1 /\ p \in 1 .. 11 /\ p \notin Broken
        /\ i \in 1 .. m + 1
    BY <1>1, <1>4 DEF Ahead, Twins, m
  <2>2. q \in Int /\ 2 <= q /\ q < e /\ Stands(Piece[p].text, b, q) /\ pos[i + 1] = q + n
    BY <1>2, <2>1, Zenon
  <2>3. u \in Answers /\ v = Told(c, i, u)
    BY <1>3, <2>1, Zenon
  <2>4. n \in Nat
    BY <2>1, PiecesTyped, AsciiTextIs, Zenon
  <2>5. /\ Twins(c, i) => (v.ok <=> u.ok) /\ v.text = Clef \o u.text
        /\ ~Twins(c, i) => /\ v.ok <=> Piece[p].says # <<>> /\ u.ok
                           /\ v.text = Piece[p].says \o u.text
    <3> HIDE DEF v, u
    <3>1. /\ Twins(c, i) => (Told(c, i, u).ok <=> u.ok) /\ Told(c, i, u).text = Clef \o u.text
          /\ ~Twins(c, i) => /\ Told(c, i, u).ok <=> Piece[c[i]].says # <<>> /\ u.ok
                             /\ Told(c, i, u).text = Piece[c[i]].says \o u.text
      BY <2>3, AnswerFields, Zenon DEF m
    <3> QED
      BY <2>3, <3>1, Zenon
  <2>6. CASE Twins(c, i)
    <3>1. p = 10 /\ c[i + 1] = 11 /\ i + 1 \in 1 .. m /\ Ahead(c, i) = (i + 1) + 1
      BY <1>1, <2>6 DEF Ahead, Twins, m
    <3>2. Stands(Piece[10].text, b, q) /\ n = Len(Piece[10].text)
      BY <2>2, <3>1, Zenon
    <3>3. Len(Piece[10].text) = 6 /\ Len(Piece[11].text) = 6
      BY <1>2, <2>2, <3>2, HighIs, Zenon
    <3>4. pos[i + 1] = q + 6
      BY <2>2, <3>2, <3>3, Zenon
    <3>5. Stands(Piece[11].text, b, q + 6) /\ pos[(i + 1) + 1] = (q + 6) + 6
      BY <1>2, <3>1, <3>3, <3>4, Zenon
    <3>6. UnitIs(b, q, Clef, 12)
      BY <1>2, <2>2, <3>2, <3>5, HighIs, Zenon
    <3>7. pos[Ahead(c, i)] = q + 12
      <4> HIDE DEF q
      <4> QED
        BY <2>2, <3>1, <3>5
    <3>8. Agrees(dec[q + 12], u)
      BY <1>8, <3>7, Zenon
    <3>9. Clef \in Seq(Int) /\ Clef # <<>> /\ 12 \in Int
      BY DEF Clef
    <3> HIDE DEF q, u, v
    <3>10. Agrees(dec[q], v)
      BY <1>5, <2>2, <2>5, <2>6, <3>6, <3>8, <3>9, FollowsStep, ZenonT(60)
    <3> QED
      BY <3>10, Zenon DEF q, v
  <2>7. CASE ~Twins(c, i) /\ p \in Telling
    <3>1. Ahead(c, i) = i + 1
      BY <2>7, Zenon DEF Ahead
    <3>2. UnitIs(b, q, Piece[p].says, n) /\ Piece[p].says \in Seq(Int) /\ Piece[p].says # <<>>
      BY <1>2, <2>2, <2>7, TellingIs, TellingSays, Zenon DEF Unitary
    <3>3. Agrees(dec[q + n], u)
      BY <1>8, <2>2, <3>1, Zenon
    <3>4. n \in Int
      BY <2>4
    <3> DEFINE t == Piece[p].says
    <3>5. (v.ok <=> u.ok) /\ v.text = t \o u.text
      BY <2>5, <2>7, <3>2, Zenon
    <3> HIDE DEF q, u, v, n, t
    <3>6. t \in Seq(Int) /\ t # <<>> /\ UnitIs(b, q, t, n)
      BY <3>2, Zenon DEF t
    <3>7. Agrees(dec[q], v)
      BY <1>5, <2>2, <3>3, <3>4, <3>5, <3>6, FollowsStep, Zenon
    <3> QED
      BY <3>7, Zenon DEF q, v
  <2>8. CASE ~Twins(c, i) /\ p \notin Telling
    <3>1. p = 6 \/ p = 10 \/ p = 11
      BY <2>1, <2>8 DEF Telling, Broken
    <3>2. ~v.ok
      <4>1. Piece[6].says = <<>> /\ Piece[10].says = <<>> /\ Piece[11].says = <<>>
        BY PiecesAre
      <4>2. Piece[p].says = <<>>
        BY <3>1, <4>1, Zenon
      <4> QED
        BY <2>5, <2>8, <4>2, Zenon
    <3>3. \E k \in Int : UnitIs(b, q, <<>>, k)
      <4>1. CASE p = 10
        <5>1. Stands(Piece[10].text, b, q) /\ n = Len(Piece[10].text)
          BY <2>2, <4>1, Zenon
        <5>2. Len(Piece[10].text) = 6 /\ (~LowAt(b, q + 6) => UnitIs(b, q, <<>>, 12))
          BY <1>2, <2>2, <5>1, HighIs, Zenon
        <5>3. i + 1 = m + 1 \/ c[i + 1] \notin {7, 11}
          BY <1>1, <1>4, <2>8, <4>1 DEF Twins, Broken, m
        <5>4. ~LowAt(b, pos[i + 1])
          BY <1>6, <2>1, <5>3, Zenon
        <5>5. ~LowAt(b, q + 6)
          BY <2>2, <5>1, <5>2, <5>4, Zenon
        <5>6. 12 \in Int
          OBVIOUS
        <5> QED
          BY <5>2, <5>5, <5>6, Zenon
      <4>2. CASE p \in {6, 11}
        <5>1. UnitIs(b, q, <<>>, n)
          BY <1>2, <2>2, <4>2, SilentIs, Zenon DEF Unitary
        <5>2. n \in Int
          BY <2>4
        <5> HIDE DEF q, n
        <5> QED
          BY <5>1, <5>2, Zenon
      <4> QED
        BY <3>1, <4>1, <4>2
    <3> HIDE DEF q, v
    <3>4. PICK k \in Int : UnitIs(b, q, <<>>, k)
      BY <3>3, Zenon
    <3>5. Agrees(dec[q], v)
      BY <1>5, <2>2, <3>2, <3>4, FollowsStop, Zenon
    <3> QED
      BY <3>5, Zenon DEF q, v
  <2> QED
    BY <2>6, <2>7, <2>8
<1>9. ASSUME NEW i \in 1 .. m + 1, \A j \in i + 1 .. m + 1 : j \in S PROVE i \in S
  <2>1. CASE i = m + 1
    <3>1. Agrees(dec[pos[i]], from[i])
      BY <1>3, <1>7, <2>1, Zenon DEF e
    <3> QED
      BY <3>1
  <2>2. CASE i # m + 1
    <3>1. i \in 1 .. m /\ Ahead(c, i) \in i + 1 .. m + 1
      BY <1>1, <2>2 DEF Ahead, Twins, m
    <3>2. Ahead(c, i) \in S
      BY <1>9, <3>1, Zenon
    <3>3. Agrees(dec[pos[Ahead(c, i)]], from[Ahead(c, i)])
      BY <3>2
    <3>4. Agrees(dec[pos[i]], from[i])
      BY <1>8, <3>1, <3>3, Zenon
    <3> QED
      BY <3>4
  <2> QED
    BY <2>1, <2>2
<1>10. m + 1 \in Int /\ 1 \in Int /\ 1 \in 1 .. m + 1
  BY <1>1
<1> HIDE DEF S
<1>11. \A i \in 1 .. m + 1 : i \in S
  BY <1>9, <1>10, FromEnd, Zenon
<1>12. Agrees(dec[pos[1]], from[1])
  BY <1>10, <1>11, Zenon DEF S
<1> QED
  BY <1>2, <1>12, Zenon

TokenIs(t, said, n) == t = IF said.ok THEN Lex!Token("string", said.text, n) ELSE Lex!Bad

\* What LexExact says of a text with escapes.
LEMMA EscapesRead ==
    ASSUME NEW c \in Seq(1 .. 11)
    PROVE  LET q == Quoted(FlattenSeq(Texts(c)))
           IN  TokenIs(Lex!lex_scan(Lex!Stream(q), 1), Says(c), Len(q) + 1)
<1> DEFINE t == FlattenSeq(Texts(c))
           q == Quoted(t)
           b == q \o <<-1>>
           m == Len(c)
           n == Len(b)
           r == Lex!Stream(q)
<1>1. Texts(c) \in Seq(AsciiText) /\ Len(Texts(c)) = m
  BY TextsIs, Zenon
<1>2. /\ t \in AsciiText /\ q \in Strings /\ Len(q) \in Nat
      /\ \E pos : Laid(pos, Texts(c), b) /\ pos[Len(Texts(c)) + 1] = Len(q)
  BY <1>1, LaidIs, Zenon
<1>3. PICK pos : Laid(pos, Texts(c), b) /\ pos[m + 1] = Len(q)
  BY <1>1, <1>2, Zenon
<1>4. Placed(c, b, pos) /\ b[1] = 34
  <2>1. Placed(c, b, pos)
    BY <1>3, PlacedIs, Zenon
  <2>2. b[1] = 34
    BY <1>3, Zenon DEF Laid
  <2> QED
    BY <2>1, <2>2
<1>5. Ascii(q)
  <2>1. \A i \in DOMAIN q : q[i] < 128
    BY <1>2, AsciiTextIs, AsciiQuoted, Zenon
  <2>2. DOMAIN q = 1 .. Len(q)
    <3> HIDE DEF q
    <3> QED
      BY <1>2 DEF Strings
  <2> QED
    BY <2>1, <2>2, Zenon DEF Ascii
<1>6. Received(r, b)
  BY <1>2, <1>5, AsciiReceived, Zenon
<1>7. m \in Nat
  OBVIOUS
<1>8. q = Quoted(FlattenSeq(Texts(c)))
  OBVIOUS
<1> HIDE DEF t, q, b, m, r
<1>9. /\ b \in Seq(Int) /\ b[n] = -1 /\ n = pos[m + 1] + 1 /\ pos[1] = 2
      /\ 2 <= pos[m + 1] /\ pos[m + 1] \in Int
  <2>1. /\ b \in Seq(Int) /\ b[n] = -1 /\ n = pos[m + 1] + 1 /\ pos[1] = 2
        /\ \A i \in 1 .. m + 1 : pos[i] \in Int /\ 2 <= pos[i]
    BY <1>4, Zenon DEF Placed, m
  <2>2. m + 1 \in 1 .. m + 1
    BY <1>7
  <2> QED
    BY <2>1, <2>2, Zenon
<1> DEFINE last == pos[m + 1]
<1>10. last \in Int /\ 2 <= last /\ n = last + 1 /\ last = Len(q)
  BY <1>3, <1>9, Zenon
<1> HIDE DEF last, n
<1>11. n \in Nat /\ n >= 1 /\ 2 \in 1 .. n /\ n = Len(b) /\ last # 0
  <2>1. n = Len(b)
    BY DEF n
  <2> QED
    BY <1>10, <2>1
<1>12. Lex!lex_scan(r, 1) = Lex!lex_scan_string(b, 2)
  BY <1>4, <1>6, <1>9, <1>11, ScanAtQuote, Zenon
<1>13. \E end : EndOf(b, 2, end) /\ Lex!StringEnd(b, 2) = end[2]
  BY <1>9, <1>11, EndIs, Zenon
<1>14. PICK end : EndOf(b, 2, end) /\ Lex!StringEnd(b, 2) = end[2]
  BY <1>13, Zenon
<1> DEFINE e == Lex!StringEnd(b, 2)
<1>15. e = IF BrokenFrom(c, 1) THEN 0 ELSE last
  <2>1. 1 \in 1 .. m + 1
    BY <1>7
  <2>2. EndFits(c, 1, last, end[pos[1]])
    BY <1>4, <1>14, <2>1, EndAt, Zenon DEF last, m
  <2> QED
    BY <1>9, <1>14, <2>2, Zenon DEF EndFits
<1>16. e \in Int /\ 2 \in Int
  <2> HIDE DEF e
  <2> QED
    BY <1>10, <1>15
<1>17. \E dec : /\ DecodeOf(b, 2, e, dec)
                /\ Lex!lex_scan_string(b, 2) =
                       IF e = 0 \/ ~dec[2].ok THEN Lex!Bad ELSE Lex!Token("string", dec[2].text, e + 1)
  BY <1>16, DecodeIs, Zenon
<1>18. PICK dec : /\ DecodeOf(b, 2, e, dec)
                  /\ Lex!lex_scan_string(b, 2) =
                         IF e = 0 \/ ~dec[2].ok THEN Lex!Bad ELSE Lex!Token("string", dec[2].text, e + 1)
  BY <1>17, Zenon
<1>19. \E from : SaysOf(c, from) /\ Says(c) = from[1]
  BY SaysIs, Zenon
<1>20. PICK from : SaysOf(c, from) /\ Says(c) = from[1]
  BY <1>19, Zenon
<1> HIDE DEF e
<1>21. CASE BrokenFrom(c, 1)
  <2>1. Lex!lex_scan(r, 1) = Lex!Bad
    BY <1>12, <1>15, <1>18, <1>21, Zenon
  <2>2. 1 \in 1 .. m + 1
    BY <1>7
  <2>3. ~Says(c).ok
    BY <1>20, <1>21, <2>2, SaysBroken, Zenon DEF m
  <2>4. TokenIs(Lex!lex_scan(r, 1), Says(c), Len(q) + 1)
    BY <2>1, <2>3, Zenon DEF TokenIs
  <2> QED
    BY <1>8, <2>4, Zenon DEF r
<1>22. CASE ~BrokenFrom(c, 1)
  <2>1. e = last /\ e # 0 /\ e = Len(q)
    BY <1>10, <1>11, <1>15, <1>22, Zenon
  <2>2. DecodeOf(b, 2, last, dec)
    BY <1>18, <2>1, Zenon
  <2>3. Agrees(dec[2], Says(c))
    <3>1. Agrees(dec[2], from[1])
      BY <1>4, <1>20, <1>22, <2>2, DecodeAt, Zenon DEF last, m
    <3> QED
      BY <1>20, <3>1, Zenon
  <2>4. Lex!lex_scan(r, 1) = IF ~dec[2].ok THEN Lex!Bad ELSE Lex!Token("string", dec[2].text, Len(q) + 1)
    BY <1>12, <1>18, <2>1, Zenon
  <2>5. TokenIs(Lex!lex_scan(r, 1), Says(c), Len(q) + 1)
    <3>1. CASE Says(c).ok
      <4>1. dec[2] = [ok |-> TRUE, text |-> Says(c).text]
        BY <2>3, <3>1, Zenon DEF Agrees, Reads
      <4> DEFINE x == Says(c).text
                 d == dec[2]
      <4>2. d = [ok |-> TRUE, text |-> x]
        BY <4>1, Zenon
      <4> HIDE DEF x, d
      <4>3. d.ok /\ d.text = x
        BY <4>2
      <4>4. Lex!lex_scan(r, 1) = Lex!Token("string", x, Len(q) + 1)
        BY <2>4, <4>3, Zenon DEF d
      <4> QED
        BY <3>1, <4>4, Zenon DEF TokenIs, x
    <3>2. CASE ~Says(c).ok
      <4>1. ~dec[2].ok
        BY <2>3, <3>2, Zenon DEF Agrees
      <4> QED
        BY <2>4, <3>2, <4>1, Zenon DEF TokenIs
    <3> QED
      BY <3>1, <3>2
  <2> QED
    BY <1>8, <2>5, Zenon DEF r
<1> QED
  BY <1>21, <1>22

(***************************************************************************)
(* lex_scan_string and lex_scan_number (load.c:248-497): a text of any     *)
(* number of escapes and plain bytes, and a number of any length, are      *)
(* taken exactly if JSON allows them (an integer also has to fit an int),  *)
(* and the token says what the text says.                                  *)
(***************************************************************************)
THEOREM LexingExact == HelpersSpec => []LexExact
<1>1. SymbolsOK => LexExact
  <2> SUFFICES ASSUME SymbolsOK PROVE LexExact
    OBVIOUS
  <2>1. kind = "escapes" => TokenIs(Lex!lex_scan(Lex!Stream(Quoted(FlattenSeq(Texts(input)))), 1), Says(input),
                                    Len(Quoted(FlattenSeq(Texts(input)))) + 1)
    <3> SUFFICES ASSUME kind = "escapes"
                 PROVE  TokenIs(Lex!lex_scan(Lex!Stream(Quoted(FlattenSeq(Texts(input)))), 1), Says(input),
                                Len(Quoted(FlattenSeq(Texts(input)))) + 1)
      OBVIOUS
    <3>1. input \in Seq(Alphabet["escapes"]) /\ Alphabet["escapes"] \subseteq 1 .. 11
      BY CharactersAssumption DEF SymbolsOK
    <3>2. input \in Seq(1 .. 11)
      BY <3>1
    <3> QED
      BY <3>2, EscapesRead, Zenon
  <2>2. kind = "number" => NumberRead(Lex!lex_scan(Lex!Stream(input), 1), input)
    <3> SUFFICES ASSUME kind = "number" PROVE NumberRead(Lex!lex_scan(Lex!Stream(input), 1), input)
      OBVIOUS
    <3>1. input \in Seq(Alphabet["number"]) /\ Alphabet["number"] \subseteq NumberBytes
      BY CharactersAssumption DEF SymbolsOK, NumberBytes
    <3>2. input \in Seq(NumberBytes)
      BY <3>1
    <3> QED
      BY <3>2, ReadsNumbers, Zenon
  <2> QED
    BY <2>1, <2>2, Zenon DEF LexExact, TokenIs, NumberRead, Quoted, Texts
<1> QED
  BY <1>1, SymbolsTyped, PTL
=============================================================================
