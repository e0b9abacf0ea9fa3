---------------------------- MODULE HelperProofs ----------------------------
(***************************************************************************)
(* The helpers of cpuminer compute what Helpers says they should, and the  *)
(* lists of elist.h stay what Lists says, for inputs of any length.        *)
(***************************************************************************)
EXTENDS Helpers, Lists, EListProofs, WellFoundedInduction, TLAPS

\* An input consists of symbols of its kind and is not too long.
InputOK ==
    /\ kind \in DOMAIN Alphabet /\ input \in Seq(Alphabet[kind])
    /\ Len(input) <= MaxInput[kind]

LEMMA InputsTyped == HelpersSpec => []InputOK
<1>1. HelpersInit => InputOK
  BY AlphabetAssumption DEF HelpersInit, InputOK
<1>2. InputOK /\ [Grow]_<<kind, input>> => InputOK'
  <2> SUFFICES ASSUME InputOK, [Grow]_<<kind, input>> PROVE InputOK'
    OBVIOUS
  <2>1. CASE Grow
    <3>1. PICK a \in Alphabet[kind] : input' = Append(input, a)
      BY <2>1 DEF Grow
    <3>2. kind' = kind /\ kind \in DOMAIN Alphabet /\ Len(input) < MaxInput[kind]
      BY <2>1 DEF Grow
    <3>3. MaxInput[kind] \in Nat
      BY <3>2, AlphabetAssumption
    <3>4. input' \in Seq(Alphabet[kind]) /\ Len(input') = Len(input) + 1 /\ Len(input) \in Nat
      BY <3>1 DEF InputOK
    <3> QED
      BY <3>2, <3>3, <3>4 DEF InputOK
  <2>2. CASE UNCHANGED <<kind, input>>
    BY <2>2 DEF InputOK
  <2> QED
    BY <2>1, <2>2
<1> QED
  BY <1>1, <1>2, PTL DEF HelpersSpec

-----------------------------------------------------------------------------
(* Times. *)

\* A quotient and its remainder.
LEMMA Division ==
    ASSUME NEW a \in Nat, NEW b \in Nat, b > 0, NEW q, NEW m,
           q = a \div b, m = a % b
    PROVE  q \in Nat /\ m \in 0 .. b - 1 /\ a = b * q + m
<1>1. q \in Nat /\ m \in 0 .. b - 1
  OBVIOUS
<1>2. q \in Nat /\ m \in Nat
  BY <1>1
<1>3. a = b * q + m
  BY <1>2, Z3T(20)
<1> QED
  BY <1>1, <1>3

\* The time (bs, b) written as (zs, zu), within a second S of a.
Near(S, a, bs, b, zs, zu) ==
    /\ zs \in Int /\ zu \in Int
    /\ zs * S + zu = bs * S + b
    /\ a - zu \in 0 .. S
    /\ a < S /\ b < S => a - zu < S /\ zs = IF a < b THEN bs + 1 ELSE bs

LEMMA CarriedUp ==
    ASSUME NEW S \in Nat, S > 0, NEW a \in Nat, NEW b \in Nat, NEW bs \in Nat, a < b,
           NEW n, n = (b - a) \div S + 1, NEW zs, NEW zu, zs = bs + n, zu = b - S * n
    PROVE  Near(S, a, bs, b, zs, zu)
<1> SUFFICES ASSUME NEW d \in Nat, d = b - a, NEW q, q = d \div S, NEW m, m = d % S
             PROVE  Near(S, a, bs, b, zs, zu)
  OBVIOUS
<1>1. q \in Nat /\ m \in 0 .. S - 1 /\ d = S * q + m
  BY Division
<1>2. n = q + 1 /\ n \in Nat
  BY <1>1
<1>3. S * n = S * q + S /\ S * q \in Nat /\ n * S = S * n
  BY <1>1, <1>2
<1>4. a - zu = S - m
  BY <1>1, <1>3
<1>5. (bs + n) * S = bs * S + n * S /\ bs * S \in Nat
  BY <1>2
<1>6. zs * S + zu = bs * S + b
  BY <1>3, <1>5
<1>7. ASSUME b < S PROVE q = 0 /\ m # 0
  <2>1. d < S /\ d > 0
    BY <1>7
  <2>2. q = 0
    <3>1. q > 0 => S * q >= S
      BY <1>1
    <3> QED
      BY <2>1, <3>1, <1>1, <1>3
  <2> QED
    BY <2>1, <2>2, <1>1
<1> QED
  BY <1>1, <1>2, <1>3, <1>4, <1>6, <1>7 DEF Near

LEMMA CarriedDown ==
    ASSUME NEW S \in Nat, S > 0, NEW a \in Nat, NEW b \in Nat, NEW bs \in Nat, a - b > S,
           NEW n, n = (a - b) \div S, NEW zs, NEW zu, zs = bs - n, zu = b + S * n
    PROVE  Near(S, a, bs, b, zs, zu)
<1> SUFFICES ASSUME NEW d \in Nat, d = a - b, NEW m, m = d % S
             PROVE  Near(S, a, bs, b, zs, zu)
  OBVIOUS
<1>1. n \in Nat /\ m \in 0 .. S - 1 /\ d = S * n + m
  BY Division
<1>2. S * n \in Nat /\ n * S = S * n /\ bs * S \in Nat
  BY <1>1
<1>3. (bs - n) * S = bs * S - n * S
  BY <1>1
<1>4. zs * S + zu = bs * S + b
  BY <1>2, <1>3
<1> QED
  BY <1>1, <1>2, <1>4 DEF Near

Time == [sec : Nat, usec : Nat]

\* The carries keep the time y is and bring its microseconds to within a second
\* of those of x.
LEMMA Carried ==
    ASSUME NEW x \in Time, NEW y \in Time, NEW z, z = Cod!Excess(x, Cod!Carry(x, y))
    PROVE  Near(Second, x.usec, y.sec, y.usec, z.sec, z.usec)
<1>0. /\ Second \in Nat /\ Second > 0
      /\ x.usec \in Nat /\ y.usec \in Nat /\ y.sec \in Nat
  BY BasesAssumption DEF Time
<1>1. CASE x.usec < y.usec
  <2> SUFFICES ASSUME NEW n, n = (y.usec - x.usec) \div Second + 1, NEW c, c = Cod!Carry(x, y)
               PROVE  Near(Second, x.usec, y.sec, y.usec, z.sec, z.usec)
    OBVIOUS
  <2>1. c = [sec |-> y.sec + n, usec |-> y.usec - Second * n]
    BY <1>1 DEF Cod!Carry
  <2>2. c.sec = y.sec + n /\ c.usec = y.usec - Second * n
    BY <2>1
  <2>3. Near(Second, x.usec, y.sec, y.usec, c.sec, c.usec)
    BY <1>0, <1>1, <2>2, CarriedUp
  <2>4. ~(x.usec - c.usec > Second)
    BY <2>3, <1>0 DEF Near
  <2>5. z = c
    BY <2>4 DEF Cod!Excess
  <2> QED
    BY <2>3, <2>5
<1>2. CASE ~(x.usec < y.usec) /\ x.usec - y.usec > Second
  <2> SUFFICES ASSUME NEW n, n = (x.usec - y.usec) \div Second
               PROVE  Near(Second, x.usec, y.sec, y.usec, z.sec, z.usec)
    OBVIOUS
  <2>1. z = [sec |-> y.sec - n, usec |-> y.usec + Second * n]
    BY <1>2 DEF Cod!Carry, Cod!Excess
  <2>2. z.sec = y.sec - n /\ z.usec = y.usec + Second * n
    BY <2>1
  <2> QED
    BY <1>0, <1>2, <2>2, CarriedDown
<1>3. CASE ~(x.usec < y.usec) /\ ~(x.usec - y.usec > Second)
  <2>1. z = y
    BY <1>3 DEF Cod!Carry, Cod!Excess
  <2>2. y.sec * Second \in Nat
    BY <1>0
  <2> QED
    BY <1>0, <1>3, <2>1, <2>2 DEF Near
<1> QED
  BY <1>1, <1>2, <1>3

LEMMA Distribute ==
    ASSUME NEW a \in Int, NEW b \in Int, NEW c \in Int
    PROVE  /\ (a - b) * c = a * c - b * c
           /\ a * c \in Int /\ b * c \in Int
OBVIOUS

LEMMA Signs ==
    ASSUME NEW a \in Nat, NEW b \in Nat, NEW S \in Nat
    PROVE  /\ a < b => a * S + S <= b * S
           /\ b < a => b * S + S <= a * S
OBVIOUS

\* The difference of (xs, a) and (zs, zu) is that of (xs, a) and (ys, b).
Differ(S, xs, a, ys, b, zs, zu) ==
    /\ (xs - zs) * S + (a - zu) = (xs - ys) * S + a - b
    /\ a - zu \in 0 .. S
    /\ a < S /\ b < S => a - zu < S /\ (xs < zs <=> (xs - ys) * S + a - b < 0)

LEMMA Differences ==
    ASSUME NEW S \in Nat, S > 0, NEW xs \in Nat, NEW a \in Nat, NEW ys \in Nat, NEW b \in Nat,
           NEW zs, NEW zu, Near(S, a, ys, b, zs, zu)
    PROVE  Differ(S, xs, a, ys, b, zs, zu)
<1>1. zs \in Int /\ zu \in Int /\ zs * S + zu = ys * S + b
  BY DEF Near
<1> SUFFICES ASSUME NEW X, X = xs * S, NEW Y, Y = ys * S, NEW Z, Z = zs * S
             PROVE  Differ(S, xs, a, ys, b, zs, zu)
  OBVIOUS
<1>2. /\ (xs - zs) * S = X - Z /\ (xs - ys) * S = X - Y
      /\ X \in Int /\ Y \in Int /\ Z \in Int
  <2>1. xs \in Int /\ ys \in Int /\ S \in Int
    OBVIOUS
  <2> QED
    BY <2>1, <1>1, Distribute
<1>3. (xs - zs) * S + (a - zu) = X - Y + (a - b)
  BY <1>1, <1>2
<1>4. ASSUME a < S, b < S PROVE xs < zs <=> X - Y + (a - b) < 0
  <2>1. zs = IF a < b THEN ys + 1 ELSE ys
    BY <1>4 DEF Near
  <2>2. CASE xs < ys
    <3>1. X + S <= Y
      BY <2>2, Signs
    <3> QED
      BY <2>1, <2>2, <3>1, <1>2, <1>4
  <2>3. CASE xs = ys
    <3>1. X = Y
      BY <2>3
    <3> QED
      BY <2>1, <2>3, <3>1, <1>2
  <2>4. CASE xs > ys
    <3>1. Y + S <= X
      BY <2>4, Signs
    <3> QED
      BY <2>1, <2>4, <3>1, <1>2, <1>4
  <2> QED
    BY <2>2, <2>3, <2>4
<1>5. a - zu \in 0 .. S /\ (a < S /\ b < S => a - zu < S)
  BY DEF Near
<1>6. (xs - ys) * S + a - b = X - Y + (a - b)
  BY <1>2
<1> QED
  BY <1>3, <1>4, <1>5, <1>6 DEF Differ

LEMMA InputTimes ==
    ASSUME InputOK, kind = "time", Len(input) = 4
    PROVE  input[1] \in Nat /\ input[2] \in Nat /\ input[3] \in Nat /\ input[4] \in Nat
<1>1. input \in Seq(Alphabet["time"])
  BY DEF InputOK
<1>2. input[1] \in Alphabet["time"] /\ input[2] \in Alphabet["time"]
      /\ input[3] \in Alphabet["time"] /\ input[4] \in Alphabet["time"]
  BY <1>1
<1> QED
  BY <1>2, AlphabetAssumption

(***************************************************************************)
(* timeval_subtract (util.c:372) is exact for all times, however large     *)
(* their microseconds; the sign it returns is right for normalised ones.   *)
(***************************************************************************)
THEOREM TimesExact == HelpersSpec => []TimeExact
<1>1. InputOK => TimeExact
  <2> SUFFICES ASSUME InputOK, kind = "time", Len(input) = 4 PROVE TimeExact
    BY DEF TimeExact
  <2> SUFFICES ASSUME NEW x, NEW y, NEW r, NEW z,
                      x = [sec |-> input[1], usec |-> input[2]],
                      y = [sec |-> input[3], usec |-> input[4]],
                      z = Cod!Excess(x, Cod!Carry(x, y)), r = Cod!timeval_subtract(x, y)
               PROVE  LET difference == (x.sec - y.sec) * Second + x.usec - y.usec
                      IN  /\ r.sec * Second + r.usec = difference
                          /\ r.usec \in 0 .. Second
                          /\ x.usec < Second /\ y.usec < Second =>
                              r.usec < Second /\ (r.negative <=> difference < 0)
    BY Zenon DEF TimeExact
  <2>1. x \in Time /\ y \in Time
    BY InputTimes DEF Time
  <2>2. r = [sec |-> x.sec - z.sec, usec |-> x.usec - z.usec, negative |-> x.sec < z.sec]
    BY DEF Cod!timeval_subtract
  <2>3. r.sec = x.sec - z.sec /\ r.usec = x.usec - z.usec
    BY <2>2
  <2>4. Near(Second, x.usec, y.sec, y.usec, z.sec, z.usec)
    BY <2>1, Carried
  <2>5. /\ Second \in Nat /\ Second > 0
        /\ x.sec \in Nat /\ x.usec \in Nat /\ y.usec \in Nat /\ y.sec \in Nat
    BY <2>1, BasesAssumption DEF Time
  <2>6. LET difference == (x.sec - y.sec) * Second + x.usec - y.usec
        IN  /\ r.sec * Second + r.usec = difference
            /\ r.usec \in 0 .. Second
            /\ x.usec < Second /\ y.usec < Second =>
                r.usec < Second /\ (x.sec < z.sec <=> difference < 0)
    <3>1. Differ(Second, x.sec, x.usec, y.sec, y.usec, z.sec, z.usec)
      BY <2>4, <2>5, Differences
    <3> QED
      BY <2>3, <3>1 DEF Differ
  <2>7. r.negative <=> x.sec < z.sec
    <3>1. r.negative = (x.sec < z.sec)
      BY <2>2
    <3> QED
      BY <3>1, Zenon
  <2> QED
    BY <2>6, <2>7, Zenon
<1> QED
  BY <1>1, InputsTyped, PTL
-----------------------------------------------------------------------------
(* Hexadecimal. *)

Digit == 0 .. Base - 1
Symbol == Digit \cup {-1, -2, -3, -4}

LEMMA Product ==
    ASSUME NEW a \in Nat, NEW b \in Nat
    PROVE  a * b \in Nat /\ a * b = b * a
OBVIOUS

LEMMA Multiples ==
    ASSUME NEW a \in Nat, NEW b \in Nat, NEW S \in Nat
    PROVE  a < b => S * a + S <= S * b
OBVIOUS

\* Quotient and remainder are unique.
LEMMA Unique ==
    ASSUME NEW S \in Nat, NEW q \in Nat, NEW c \in Nat, NEW m \in Nat, NEW d \in Nat, m < S, d < S,
           S * q + m = S * c + d
    PROVE  q = c /\ m = d
<1> SUFFICES ASSUME NEW Q, Q = S * q, NEW C, C = S * c PROVE q = c /\ m = d
  OBVIOUS
<1>1. Q \in Nat /\ C \in Nat /\ Q + m = C + d
  BY Product
<1>2. (q < c => Q + S <= C) /\ (c < q => C + S <= Q)
  BY Multiples
<1>3. ~(q < c) /\ ~(c < q)
  BY <1>1, <1>2
<1>4. q = c
  BY <1>3
<1> QED
  BY <1>1, <1>4

LEMMA BaseIs == Base \in Nat /\ Base > 1
BY BasesAssumption

LEMMA ByBase ==
    ASSUME NEW b \in Nat
    PROVE  /\ b \div Base \in Nat /\ b % Base \in 0 .. Base - 1
           /\ b = Base * (b \div Base) + (b % Base)
<1> SUFFICES ASSUME NEW q, NEW m, q = b \div Base, m = b % Base
             PROVE  q \in Nat /\ m \in 0 .. Base - 1 /\ b = Base * q + m
  OBVIOUS
<1>1. \A B \in Nat : B > 0 /\ q = b \div B /\ m = b % B =>
          q \in Nat /\ m \in 0 .. B - 1 /\ b = B * q + m
  BY Division
<1>2. Base \in Nat /\ Base > 0
  BY BaseIs
<1> QED
  BY <1>1, <1>2, Zenon

LEMMA Bases == Base \in Nat /\ Base > 1 /\ Base * Base \in Nat /\ Base + Base <= Base * Base
<1>1. Base \in Nat /\ Base > 1
  BY BasesAssumption
<1>2. Base * 1 + Base <= Base * Base
  BY <1>1, Multiples
<1> QED
  BY <1>1, <1>2, Product

\* Two digits make a byte, which has them for its digits.
LEMMA TwoDigits ==
    ASSUME NEW c \in Digit, NEW d \in Digit, NEW b, b = Base * c + d
    PROVE  b \in Cod!Byte /\ b \div Base = c /\ b % Base = d
<1>1. c \in Nat /\ d \in Nat /\ c < Base /\ d < Base
  BY Bases DEF Digit
<1> SUFFICES ASSUME NEW C, C = Base * c, NEW W, W = Base * Base
             PROVE  b \in Cod!Byte /\ b \div Base = c /\ b % Base = d
  OBVIOUS
<1>2. C \in Nat /\ W \in Nat /\ C + Base <= W
  BY <1>1, Bases, Product, Multiples
<1>3. b \in Nat /\ b < W
  BY <1>1, <1>2, Bases
<1> SUFFICES ASSUME NEW q, q = b \div Base, NEW m, m = b % Base PROVE q = c /\ m = d
  BY <1>2, <1>3 DEF Cod!Byte
<1>4. q \in Nat /\ m \in 0 .. Base - 1 /\ b = Base * q + m
  BY <1>3, Bases, Division
<1>5. m \in Nat /\ m < Base
  BY <1>4, Bases
<1> QED
  BY <1>1, <1>4, <1>5, Bases, Unique

\* What sscanf makes of two characters.
LEMMA ScanIs ==
    ASSUME NEW c \in Symbol, NEW d \in Symbol
    PROVE  /\ Cod!ScanByte(c, d) # -1 =>
               Cod!ScanByte(c, d) \in Cod!Byte /\ (Cod!IsDigit(c) \/ Cod!IsDigit(d))
           /\ c \in Digit /\ d \in Digit => Cod!ScanByte(c, d) = Base * c + d
<1>1. /\ Cod!IsDigit(c) <=> c \in Digit
      /\ Cod!IsDigit(d) <=> d \in Digit
  BY Bases DEF Symbol, Digit, Cod!IsDigit
<1>2. CASE c \in Digit /\ d \in Digit
  <2>1. Cod!ScanByte(c, d) = Base * c + d
    <3>1. c \notin {Cod!Space, Cod!PlusSign} /\ c # Cod!MinusSign
      BY <1>2, BaseIs DEF Digit, Cod!Space, Cod!PlusSign, Cod!MinusSign
    <3> QED
      BY <1>1, <1>2, <3>1, Zenon DEF Cod!ScanByte
  <2>2. Base * c + d \in Cod!Byte
    BY <1>2, TwoDigits
  <2> QED
    BY <2>1, <2>2, <1>1, <1>2, Zenon
<1>3. CASE c \in Digit /\ d \notin Digit
  <2>1. Cod!ScanByte(c, d) = c
    BY <1>1, <1>3 DEF Cod!ScanByte
  <2> QED
    BY <2>1, <1>1, <1>3, Bases DEF Digit, Cod!Byte
<1>4. CASE c \notin Digit /\ d \in Digit
  <2>1. Cod!ScanByte(c, d) \in {d, (Base * Base - d) % (Base * Base), -1}
    BY <1>1, <1>4 DEF Cod!ScanByte
  <2>2. d \in Cod!Byte
    BY <1>4, Bases DEF Digit, Cod!Byte
  <2>3. (Base * Base - d) % (Base * Base) \in Cod!Byte
    <3>1. Base * Base - d \in Nat
      BY <1>4, Bases DEF Digit
    <3> QED
      BY <3>1, Bases DEF Cod!Byte
  <2> QED
    BY <1>1, <1>4, <2>1, <2>2, <2>3
<1>5. CASE c \notin Digit /\ d \notin Digit
  <2>1. Cod!ScanByte(c, d) = -1
    BY <1>1, <1>5 DEF Cod!ScanByte
  <2> QED
    BY <2>1, <1>5
<1> QED
  BY <1>2, <1>3, <1>4, <1>5

LEMMA EvenOdd ==
    ASSUME NEW j \in Nat \ {0}
    PROVE  LET i == (j + 1) \div 2
           IN  /\ i \in Nat \ {0}
               /\ j % 2 = 1 => j = 2 * i - 1
               /\ j % 2 # 1 => j = 2 * i
OBVIOUS

\* hex2bin reads a text of digits, and bin2hex writes that text.
LEMMA HexRead ==
    ASSUME NEW len \in Nat, NEW text \in Seq(Digit), Len(text) = 2 * len,
           NEW r, r = Cod!hex2bin(text, len)
    PROVE  r.ok /\ Cod!bin2hex(r.bytes) = text
<1>1. ASSUME NEW i \in 1 .. len
      PROVE  /\ text[2 * i - 1] \in Digit /\ text[2 * i] \in Digit
             /\ Cod!ScanByte(text[2 * i - 1], text[2 * i]) = Base * text[2 * i - 1] + text[2 * i]
             /\ Cod!ScanByte(text[2 * i - 1], text[2 * i]) # -1
  <2>1. 2 * i - 1 \in 1 .. Len(text) /\ 2 * i \in 1 .. Len(text)
    OBVIOUS
  <2>2. text[2 * i - 1] \in Digit /\ text[2 * i] \in Digit
    BY <2>1
  <2>3. Cod!ScanByte(text[2 * i - 1], text[2 * i]) = Base * text[2 * i - 1] + text[2 * i]
    BY <2>2, ScanIs DEF Symbol
  <2>4. Base * text[2 * i - 1] + text[2 * i] \in Cod!Byte
    BY <2>2, TwoDigits
  <2> QED
    BY <2>2, <2>3, <2>4, Bases DEF Cod!Byte
<1>2. r = [ok |-> TRUE, bytes |-> [i \in 1 .. len |-> Cod!ScanByte(text[2 * i - 1], text[2 * i])]]
  BY <1>1 DEF Cod!hex2bin
<1>3. /\ r.ok /\ Len(r.bytes) = len
      /\ \A i \in 1 .. len : r.bytes[i] = Base * text[2 * i - 1] + text[2 * i]
  BY <1>1, <1>2
<1> SUFFICES ASSUME NEW t, t = Cod!bin2hex(r.bytes) PROVE t = text
  BY <1>3
<1>4. t = [j \in 1 .. 2 * len |-> LET byte == r.bytes[(j + 1) \div 2]
                                  IN  IF j % 2 = 1 THEN byte \div Base ELSE byte % Base]
  BY <1>3 DEF Cod!bin2hex
<1>5. ASSUME NEW j \in 1 .. 2 * len PROVE t[j] = text[j]
  <2> SUFFICES ASSUME NEW i, i = (j + 1) \div 2 PROVE t[j] = text[j]
    OBVIOUS
  <2>1. i \in 1 .. len /\ (j % 2 = 1 => j = 2 * i - 1) /\ (j % 2 # 1 => j = 2 * i)
    BY EvenOdd
  <2>2. r.bytes[i] = Base * text[2 * i - 1] + text[2 * i]
    BY <1>3, <2>1
  <2>3. r.bytes[i] \div Base = text[2 * i - 1] /\ r.bytes[i] % Base = text[2 * i]
    BY <1>1, <2>1, <2>2, TwoDigits
  <2>4. t[j] = IF j % 2 = 1 THEN r.bytes[i] \div Base ELSE r.bytes[i] % Base
    BY <1>4
  <2> QED
    BY <2>1, <2>3, <2>4
<1>6. t \in Seq(Digit) /\ Len(t) = 2 * len
  <2>1. \A j \in 1 .. 2 * len : t[j] \in Digit
    BY <1>5
  <2> QED
    BY <1>4, <2>1
<1> QED
  BY <1>5, <1>6, SeqEqual

LEMMA ByteDigits ==
    ASSUME NEW b \in Cod!Byte
    PROVE  b \div Base \in Digit /\ b % Base \in Digit
<1> SUFFICES ASSUME NEW W, W = Base * Base PROVE b \div Base \in Digit /\ b % Base \in Digit
  OBVIOUS
<1>1. b \in Nat /\ b < W
  BY Bases DEF Cod!Byte
<1> SUFFICES ASSUME NEW q, q = b \div Base, NEW m, m = b % Base PROVE q \in Digit /\ m \in Digit
  OBVIOUS
<1>2. q \in Nat /\ m \in 0 .. Base - 1 /\ b = Base * q + m
  BY <1>1, ByBase
<1> SUFFICES ASSUME NEW Q, Q = Base * q PROVE q \in Digit /\ m \in Digit
  OBVIOUS
<1>3. q \in Nat /\ m \in Nat /\ b = Q + m
  BY <1>2, Bases
<1>4. Q \in Nat /\ W \in Nat
  BY <1>3, Bases, Product
<1>5. Base < q => W + Base <= Q
  BY <1>3, Bases, Multiples
<1>6. Q < W
  BY <1>1, <1>3, <1>4
<1>7. q < Base
  <2>1. Base # q
    BY <1>4, <1>6
  <2>2. ~(Base < q)
    BY <1>4, <1>5, <1>6, Bases
  <2> QED
    BY <2>1, <2>2, <1>3, Bases
<1> QED
  BY <1>2, <1>3, <1>7, Bases DEF Digit

\* And bytes are written in digits, two for each.
LEMMA HexWritten ==
    ASSUME NEW p \in Seq(Cod!Byte)
    PROVE  Cod!bin2hex(p) \in Seq(Digit) /\ Len(Cod!bin2hex(p)) = 2 * Len(p)
<1>1. ASSUME NEW j \in 1 .. 2 * Len(p) PROVE Cod!bin2hex(p)[j] \in Digit
  <2> SUFFICES ASSUME NEW i, i = (j + 1) \div 2, NEW b, b = p[i] PROVE Cod!bin2hex(p)[j] \in Digit
    OBVIOUS
  <2>1. i \in 1 .. Len(p)
    BY EvenOdd
  <2>2. b \in Cod!Byte
    BY <2>1
  <2> QED
    BY <2>2, ByteDigits DEF Cod!bin2hex
<1>2. DOMAIN Cod!bin2hex(p) = 1 .. 2 * Len(p)
  BY DEF Cod!bin2hex
<1>3. Cod!bin2hex(p) = [j \in 1 .. 2 * Len(p) |-> Cod!bin2hex(p)[j]]
  BY DEF Cod!bin2hex
<1> QED
  BY <1>1, <1>2, <1>3

LEMMA SomeHex ==
    ASSUME NEW text \in Seq(Symbol), NEW len \in 0 .. Len(text), NEW r, r = Cod!hex2bin(text, len)
    PROVE  /\ r.ok => /\ Len(text) = 2 * len
                      /\ \A i \in DOMAIN r.bytes : r.bytes[i] \in Cod!Byte
                      /\ \A i \in 1 .. len : \E j \in {2 * i - 1, 2 * i} : Cod!IsDigit(text[j])
           /\ Len(text) = 2 * len /\ Digits(text) => r.ok /\ Cod!bin2hex(r.bytes) = text
<1>1. ASSUME r.ok
      PROVE  /\ Len(text) = 2 * len
             /\ \A i \in DOMAIN r.bytes : r.bytes[i] \in Cod!Byte
             /\ \A i \in 1 .. len : \E j \in {2 * i - 1, 2 * i} : Cod!IsDigit(text[j])
  <2> DEFINE byte(i) == Cod!ScanByte(text[2 * i - 1], text[2 * i])
  <2>1. CASE Len(text) # 2 * len \/ \E i \in 1 .. len : byte(i) = -1
    <3>1. r = [ok |-> FALSE, bytes |-> <<>>]
      BY <2>1 DEF Cod!hex2bin
    <3> QED
      BY <1>1, <3>1
  <2>2. CASE Len(text) = 2 * len /\ \A i \in 1 .. len : byte(i) # -1
    <3>1. r = [ok |-> TRUE, bytes |-> [i \in 1 .. len |-> byte(i)]]
      BY <2>2 DEF Cod!hex2bin
    <3>2. ASSUME NEW i \in 1 .. len
          PROVE  byte(i) \in Cod!Byte /\ \E j \in {2 * i - 1, 2 * i} : Cod!IsDigit(text[j])
      <4>1. 2 * i - 1 \in 1 .. Len(text) /\ 2 * i \in 1 .. Len(text)
        BY <2>2
      <4>2. text[2 * i - 1] \in Symbol /\ text[2 * i] \in Symbol
        BY <4>1
      <4> QED
        BY <2>2, <4>2, ScanIs
    <3> QED
      BY <2>2, <3>1, <3>2
  <2> QED
    BY <2>1, <2>2
<1>2. ASSUME Len(text) = 2 * len, Digits(text) PROVE r.ok /\ Cod!bin2hex(r.bytes) = text
  <2>1. \A i \in 1 .. Len(text) : text[i] \in Digit
    <3>1. \A i \in 1 .. Len(text) : text[i] \in Symbol /\ Cod!IsDigit(text[i])
      BY <1>2 DEF Digits
    <3> QED
      BY <3>1, Bases DEF Symbol, Digit, Cod!IsDigit
  <2>2. text \in Seq(Digit) /\ len \in Nat
    BY <2>1
  <2> QED
    BY <1>2, <2>2, HexRead
<1> QED
  BY <1>1, <1>2

\* What the server may have done to a field.
Spoiled == {"good", "number", "long", "short"}

\* The text of a field in order.
Good(f) == Cod!bin2hex([i \in 1 .. Sizes[f] |-> i])

LEMMA GoodIs ==
    ASSUME NEW f \in DOMAIN Sizes
    PROVE  /\ Sizes[f] \in Nat \ {0} /\ Good(f) \in Seq(Digit) /\ Len(Good(f)) = 2 * Sizes[f]
           /\ DOMAIN Sizes = {"midstate", "data", "hash1", "target"}
<1>1. Sizes[f] \in 1 .. Base * Base - 1 /\ DOMAIN Sizes = {"midstate", "data", "hash1", "target"}
  BY BasesAssumption
<1> SUFFICES ASSUME NEW n, n = Sizes[f], NEW p, p = [i \in 1 .. n |-> i]
             PROVE  /\ n \in Nat \ {0}
                    /\ Cod!bin2hex(p) \in Seq(Digit) /\ Len(Cod!bin2hex(p)) = 2 * n
  BY <1>1 DEF Good
<1>2. n \in Nat \ {0} /\ n <= Base * Base - 1
  BY <1>1, Bases
<1>3. p \in Seq(Cod!Byte) /\ Len(p) = n
  <2>1. \A i \in 1 .. n : p[i] \in Cod!Byte
    BY <1>2, Bases DEF Cod!Byte
  <2> QED
    BY <2>1, <1>2
<1> QED
  BY <1>2, <1>3, HexWritten

LEMMA FieldIs ==
    ASSUME NEW f \in DOMAIN Sizes, NEW how \in Spoiled, NEW val, f \in DOMAIN val,
           val[f] = Field(f, how), NEW r, r = Cod!jobj_binary(val, f, Sizes[f])
    PROVE  /\ r.ok <=> how = "good"
           /\ r.ok => Cod!bin2hex(r.bytes) = val[f].text
<1> SUFFICES ASSUME NEW n, n = Sizes[f], NEW good, good = Good(f)
             PROVE  /\ r.ok <=> how = "good"
                    /\ r.ok => Cod!bin2hex(r.bytes) = val[f].text
  OBVIOUS
<1>1. n \in Nat \ {0} /\ good \in Seq(Digit) /\ Len(good) = 2 * n
  BY GoodIs
<1>2. CASE how = "good"
  <2>1. val[f].kind = "string" /\ val[f].text = good
    BY <1>2 DEF Field, Good, Cod!Text
  <2>2. r = Cod!hex2bin(good, n)
    BY <2>1 DEF Cod!jobj_binary
  <2>3. r.ok /\ Cod!bin2hex(r.bytes) = good
    BY <2>2, <1>1, HexRead
  <2> QED
    BY <1>2, <2>1, <2>3
<1>3. CASE how = "number"
  <2>1. val[f].kind # "string"
    BY <1>3 DEF Field, Cod!NoString
  <2>2. r = [ok |-> FALSE, bytes |-> <<>>]
    BY <2>1 DEF Cod!jobj_binary
  <2>3. ~r.ok
    BY <2>2
  <2> QED
    BY <1>3, <2>3
<1>4. ASSUME NEW text, val[f].kind = "string", val[f].text = text, Len(text) # 2 * n
      PROVE  ~r.ok
  <2>1. r = Cod!hex2bin(text, n)
    BY <1>4 DEF Cod!jobj_binary
  <2>2. r = [ok |-> FALSE, bytes |-> <<>>]
    BY <2>1, <1>4 DEF Cod!hex2bin
  <2> QED
    BY <2>2
<1>5. CASE how = "long"
  <2>1. val[f].kind = "string" /\ val[f].text = Append(good, 0)
    BY <1>5 DEF Field, Good, Cod!Text
  <2>2. Len(Append(good, 0)) # 2 * n
    BY <1>1
  <2> QED
    BY <1>4, <1>5, <2>1, <2>2
<1>6. CASE how = "short"
  <2>1. val[f].kind = "string" /\ val[f].text = Tail(good)
    <3>1. how # "good" /\ how # "number" /\ how # "long"
      BY <1>6
    <3>2. val[f] = [kind |-> "string", text |-> Tail(good)]
      BY <1>6, <3>1, Zenon DEF Field, Good, Cod!Text
    <3> QED
      BY <3>2
  <2>2. good # <<>>
    <3>1. Len(good) # 0
      BY <1>1
    <3> QED
      BY <3>1, EmptySeq, Zenon
  <2>3. Len(Tail(good)) # 2 * n
    BY <1>1, <2>2
  <2> QED
    BY <1>4, <1>6, <2>1, <2>3
<1> QED
  BY <1>2, <1>3, <1>5, <1>6 DEF Spoiled

\* The answer has the fields the server did not leave out.
LEMMA AnswerIs ==
    ASSUME InputOK, kind = "work"
    PROVE  /\ Len(input) \in 0 .. 4
           /\ \A i \in 1 .. Len(input) : input[i] \in Spoiled \cup {"absent"}
           /\ \A i \in 1 .. 4 : FieldOrder[i] \in DOMAIN Answer <=> i <= Len(input) /\ input[i] # "absent"
           /\ \A i \in 1 .. Len(input) : input[i] # "absent" => Answer[FieldOrder[i]] = Field(FieldOrder[i], input[i])
<1>1. input \in Seq(Alphabet["work"]) /\ Len(input) <= 4 /\ Len(input) \in Nat
  <2>1. kind \in DOMAIN Alphabet /\ input \in Seq(Alphabet[kind]) /\ Len(input) <= MaxInput[kind]
    BY DEF InputOK
  <2>2. MaxInput["work"] \in Nat /\ MaxInput["work"] <= 4
    BY <2>1, AlphabetAssumption
  <2> QED
    BY <2>1, <2>2
<1>2. \A i \in 1 .. Len(input) : input[i] \in Spoiled \cup {"absent"}
  <2>1. \A i \in 1 .. Len(input) : input[i] \in Alphabet["work"]
    BY <1>1
  <2> QED
    BY <2>1, AlphabetAssumption DEF Spoiled
<1>3. \A i, j \in 1 .. 4 : FieldOrder[i] = FieldOrder[j] => i = j
  BY DEF FieldOrder
<1> DEFINE there == {i \in DOMAIN input : input[i] # "absent"}
<1>4. there \subseteq 1 .. 4 /\ DOMAIN input = 1 .. Len(input)
  BY <1>1
<1>5. DOMAIN Answer = {FieldOrder[i] : i \in there}
  BY DEF Answer
<1>6. ASSUME NEW i \in 1 .. 4
      PROVE  FieldOrder[i] \in DOMAIN Answer <=> i <= Len(input) /\ input[i] # "absent"
  <2>1. FieldOrder[i] \in DOMAIN Answer <=> i \in there
    <3> HIDE DEF there
    <3> QED
      BY <1>3, <1>4, <1>5
  <2> QED
    BY <2>1, <1>1, <1>4
<1>7. ASSUME NEW i \in 1 .. Len(input), input[i] # "absent"
      PROVE  Answer[FieldOrder[i]] = Field(FieldOrder[i], input[i])
  <2> DEFINE k == CHOOSE j \in DOMAIN input : FieldOrder[j] = FieldOrder[i]
  <2>1. i \in DOMAIN input /\ FieldOrder[i] = FieldOrder[i]
    BY <1>4
  <2>2. k \in DOMAIN input /\ FieldOrder[k] = FieldOrder[i]
    BY <2>1
  <2>3. k \in 1 .. 4 /\ i \in 1 .. 4
    BY <2>1, <2>2, <1>1, <1>4
  <2>4. k = i
    BY <2>2, <2>3, <1>3
  <2>5. FieldOrder[i] \in {FieldOrder[j] : j \in {m \in DOMAIN input : input[m] # "absent"}}
    BY <1>7, <2>1
  <2> DEFINE value(f) == Field(f, input[CHOOSE j \in DOMAIN input : FieldOrder[j] = f])
  <2>6. Answer[FieldOrder[i]] = value(FieldOrder[i])
    <3>1. Answer = [f \in {FieldOrder[j] : j \in {m \in DOMAIN input : input[m] # "absent"}} |-> value(f)]
      BY Zenon DEF Answer
    <3> HIDE DEF value
    <3> QED
      BY <2>5, <3>1
  <2>7. value(FieldOrder[i]) = Field(FieldOrder[i], input[k])
    BY Zenon
  <2> HIDE DEF k, value
  <2> QED
    BY <2>4, <2>6, <2>7
<1>8. Len(input) \in 0 .. 4
  <2>1. \A n \in Nat : n <= 4 => n \in 0 .. 4
    OBVIOUS
  <2> QED
    BY <1>1, <2>1, Zenon
<1>9. \A i \in 1 .. 4 : FieldOrder[i] \in DOMAIN Answer <=> i <= Len(input) /\ input[i] # "absent"
  BY <1>6
<1>10. \A i \in 1 .. Len(input) : input[i] # "absent" => Answer[FieldOrder[i]] = Field(FieldOrder[i], input[i])
  BY <1>7
<1> QED
  BY <1>2, <1>8, <1>9, <1>10, Zenon

LEMMA WorkIs ==
    ASSUME InputOK, kind = "work", NEW r, r = Cod!work_decode(Answer)
    PROVE  /\ r.ok <=> Len(input) = 4 /\ \A i \in 1 .. 4 : input[i] = "good"
           /\ r.ok => \A f \in DOMAIN Sizes : Cod!bin2hex(r.work[f]) = Answer[f].text
<1> DEFINE field(f) == Cod!jobj_binary(Answer, f, Sizes[f])
           whole(i) == i <= Len(input) /\ input[i] = "good"
<1>1. /\ \A i \in 1 .. 4 : FieldOrder[i] \in DOMAIN Sizes
      /\ \A f \in DOMAIN Sizes : \E i \in 1 .. 4 : FieldOrder[i] = f
  <2>1. DOMAIN Sizes = {"midstate", "data", "hash1", "target"}
    BY BasesAssumption
  <2>2. /\ 1 \in 1 .. 4 /\ 2 \in 1 .. 4 /\ 3 \in 1 .. 4 /\ 4 \in 1 .. 4
        /\ FieldOrder[1] = "midstate" /\ FieldOrder[2] = "data"
        /\ FieldOrder[3] = "hash1" /\ FieldOrder[4] = "target"
    BY DEF FieldOrder
  <2>3. \A i \in 1 .. 4 : i = 1 \/ i = 2 \/ i = 3 \/ i = 4
    OBVIOUS
  <2> QED
    BY <2>1, <2>2, <2>3
<1>2. ASSUME NEW i \in 1 .. 4, NEW f, f = FieldOrder[i]
      PROVE  (field(f).ok <=> whole(i)) /\ (field(f).ok => Cod!bin2hex(field(f).bytes) = Answer[f].text)
  <2>1. CASE f \notin DOMAIN Answer
    <3>1. field(f) = [ok |-> FALSE, bytes |-> <<>>]
      BY <2>1 DEF Cod!jobj_binary
    <3>2. ~field(f).ok
      BY <3>1
    <3>3. ~whole(i)
      BY <2>1, <1>2, AnswerIs
    <3> QED
      BY <3>2, <3>3
  <2>2. CASE f \in DOMAIN Answer
    <3>1. i \in 1 .. Len(input) /\ input[i] # "absent"
      BY <2>2, <1>2, AnswerIs
    <3>2. input[i] \in Spoiled /\ Answer[f] = Field(f, input[i])
      BY <3>1, <1>2, AnswerIs
    <3>3. f \in DOMAIN Sizes
      BY <1>1, <1>2
    <3>4. /\ field(f).ok <=> input[i] = "good"
          /\ field(f).ok => Cod!bin2hex(field(f).bytes) = Answer[f].text
      BY <2>2, <3>2, <3>3, FieldIs
    <3>5. whole(i) <=> input[i] = "good"
      BY <3>1
    <3> QED
      BY <3>4, <3>5
  <2> QED
    BY <2>1, <2>2
<1>3. (\A i \in 1 .. 4 : whole(i)) <=> Len(input) = 4 /\ \A i \in 1 .. 4 : input[i] = "good"
  <2>1. Len(input) \in 0 .. 4
    BY AnswerIs
  <2>2. Len(input) = 4 <=> \A i \in 1 .. 4 : i <= Len(input)
    <3> SUFFICES ASSUME NEW n \in 0 .. 4, n = Len(input)
                 PROVE  n = 4 <=> \A i \in 1 .. 4 : i <= n
      BY <2>1
    <3>1. 4 \in 1 .. 4
      OBVIOUS
    <3>2. n = 4 \/ ~(4 <= n)
      OBVIOUS
    <3> QED
      BY <3>1, <3>2
  <2> QED
    BY <2>2
<1> HIDE DEF field, whole
<1>4. (\A f \in DOMAIN Sizes : field(f).ok) <=> \A i \in 1 .. 4 : whole(i)
  BY <1>1, <1>2
<1>5. CASE \E f \in DOMAIN Sizes : ~field(f).ok
  <2>1. r = [ok |-> FALSE]
    BY <1>5 DEF Cod!work_decode, field
  <2>2. ~r.ok
    BY <2>1
  <2> QED
    BY <2>2, <1>3, <1>4, <1>5
<1>6. CASE \A f \in DOMAIN Sizes : field(f).ok
  <2>1. r = [ok |-> TRUE, work |-> [f \in DOMAIN Sizes |-> field(f).bytes]]
    BY <1>6 DEF Cod!work_decode, field
  <2>2. r.ok /\ \A f \in DOMAIN Sizes : r.work[f] = field(f).bytes
    BY <2>1
  <2>3. \A f \in DOMAIN Sizes : Cod!bin2hex(field(f).bytes) = Answer[f].text
    BY <1>1, <1>2, <1>6
  <2> QED
    BY <2>2, <2>3, <1>3, <1>4, <1>6
<1> QED
  BY <1>5, <1>6

(***************************************************************************)
(* bin2hex, hex2bin and work_decode (util.c:324, cpu-miner.c:271) lose     *)
(* nothing of a piece of work of any size and take no spoiled one.         *)
(***************************************************************************)
THEOREM WorkExact == HelpersSpec => []HexExact
<1>1. InputOK => HexExact
  <2> SUFFICES ASSUME InputOK PROVE HexExact
    OBVIOUS
  <2>1. ASSUME kind = "hex" PROVE input \in Seq(Symbol)
    <3>1. input \in Seq(Alphabet["hex"])
      BY <2>1 DEF InputOK
    <3>2. Alphabet["hex"] \subseteq Symbol
      BY AlphabetAssumption DEF Symbol, Digit
    <3> QED
      BY <3>1, <3>2
  <2>2. ASSUME kind = "hex", NEW len \in 0 .. Len(input)
        PROVE  LET r == Cod!hex2bin(input, len)
               IN  /\ r.ok => /\ Len(input) = 2 * len /\ \A i \in DOMAIN r.bytes : r.bytes[i] \in Cod!Byte
                              /\ \A i \in 1 .. len : \E j \in {2 * i - 1, 2 * i} : Cod!IsDigit(input[j])
                   /\ Len(input) = 2 * len /\ Digits(input) => r.ok /\ Cod!bin2hex(r.bytes) = input
    BY <2>1, <2>2, SomeHex
  <2>3. ASSUME kind = "work"
        PROVE  LET r == Cod!work_decode(Answer)
               IN  /\ r.ok <=> Len(input) = 4 /\ \A i \in 1 .. 4 : input[i] = "good"
                   /\ r.ok => \A f \in DOMAIN Sizes : Cod!bin2hex(r.work[f]) = Answer[f].text
    BY <2>3, WorkIs
  <2> QED
    BY <2>2, <2>3 DEF HexExact
<1> QED
  BY <1>1, InputsTyped, PTL
-----------------------------------------------------------------------------
(* Lists. *)

On(t, x) == \E l \in Heads : x \in ToSet(t[l])
Loose(h, x) == h.next[x] \in {Nil, x} /\ h.prev[x] \in {Nil, x}
Same(g, h, y) == g.next[y] = h.next[y] /\ g.prev[y] = h.prev[y]

\* The lists t of heap h are circles without a common node.
Kept(h, t) ==
    /\ h \in Heap /\ t \in [Heads -> Seq(Entry)]
    /\ \A l \in Heads : Distinct(l, t[l]) /\ Holds(h, l, t[l])
    /\ \A l, m \in Heads : l # m => Apart(l, t[l], m, t[m])

\* Heaps g and h agree about every node but x.
Elsewhere(g, h, x) == \A y \in Node \ {x} : Same(g, h, y)

\* u is t without the entry k of l.
IsRest(t, u, l, k) ==
    /\ u \in [Heads -> Seq(Entry)] /\ u[l] = RemoveAt(t[l], k)
    /\ \A m \in Heads \ {l} : u[m] = t[m]

\* u is t with the entries of m before those of l.
IsJoined(t, u, m, l) ==
    /\ u \in [Heads -> Seq(Entry)] /\ u[l] = t[m] \o t[l] /\ u[m] = <<>>
    /\ \A k \in Heads \ {l, m} : u[k] = t[k]

\* What is always true of the lists: ListsKeepOrder with its types, and that
\* no entry is at two places.
ListsInv == Kept(heap, held) /\ \A x \in Entry : ~On(held, x) => Loose(heap, x)

LEMMA HeadsNotEntries ==
    ASSUME NEW x \in Entry, NEW l \in Heads
    PROVE  x # l /\ x \in Node /\ l \in Node
BY HeadsAssumption DEF Entry

LEMMA OnIs ==
    ASSUME NEW t \in [Heads -> Seq(Entry)], NEW x
    PROVE  On(t, x) <=> \E l \in Heads : \E i \in 1 .. Len(t[l]) : t[l][i] = x
<1>1. \A l \in Heads : t[l] \in Seq(Entry) /\ DOMAIN t[l] = 1 .. Len(t[l])
  OBVIOUS
<1> QED
  BY <1>1 DEF On, ToSet

\* A circle consists of its head and its entries.
LEMMA CircleIs ==
    ASSUME NEW l \in Heads, NEW s \in Seq(Entry)
    PROVE  /\ Len(s) \in Nat /\ 0 \in 0 .. Len(s) /\ At(l, s, 0) = l
           /\ \A i \in 1 .. Len(s) : At(l, s, i) = s[i] /\ s[i] \in Entry
           /\ \A i \in 0 .. Len(s) : At(l, s, i) = l \/ (i \in 1 .. Len(s) /\ At(l, s, i) = s[i])
           /\ \A i \in 0 .. Len(s) : \E j \in 0 .. Len(s) : After(l, s, i) = At(l, s, j)
<1>1. Len(s) \in Nat
  OBVIOUS
<1>2. ASSUME NEW i \in 0 .. Len(s) PROVE \E j \in 0 .. Len(s) : After(l, s, i) = At(l, s, j)
  <2>1. CASE i = Len(s)
    BY <2>1, <1>1 DEF After, At
  <2>2. CASE i # Len(s)
    <3>1. i + 1 \in 0 .. Len(s) /\ i + 1 # 0
      BY <2>2, <1>1
    <3> QED
      BY <2>2, <3>1 DEF After, At
  <2> QED
    BY <2>1, <2>2
<1>3. 0 \in 0 .. Len(s) /\ At(l, s, 0) = l
  BY <1>1 DEF At
<1>4. \A i \in 1 .. Len(s) : At(l, s, i) = s[i] /\ s[i] \in Entry
  BY <1>1 DEF At
<1>5. \A i \in 0 .. Len(s) : i = 0 \/ i \in 1 .. Len(s)
  BY <1>1
<1> QED
  BY <1>1, <1>2, <1>3, <1>4, <1>5

\* An entry of no list is on no circle.
LEMMA NotOn ==
    ASSUME NEW t \in [Heads -> Seq(Entry)], NEW x \in Entry, ~On(t, x), NEW l \in Heads
    PROVE  Outside(x, l, t[l])
<1>1. t[l] \in Seq(Entry) /\ x # l /\ x \in Node
  BY HeadsNotEntries
<1>2. \A i \in 1 .. Len(t[l]) : t[l][i] # x
  BY OnIs
<1>3. \A i \in 0 .. Len(t[l]) : At(l, t[l], i) # x
  <2>1. \A i \in 0 .. Len(t[l]) : At(l, t[l], i) = l \/ (i \in 1 .. Len(t[l]) /\ At(l, t[l], i) = t[l][i])
    BY <1>1, CircleIs
  <2> QED
    BY <2>1, <1>1, <1>2, Zenon
<1> QED
  BY <1>1, <1>3 DEF Outside

LEMMA Rearranged ==
    ASSUME NEW h, NEW t, Kept(h, t), NEW T \in SUBSET Heads,
           NEW u \in [Heads -> Seq(Entry)], NEW g \in Heap,
           \A l \in Heads \ T : u[l] = t[l],
           \A l \in T : Distinct(l, u[l]) /\ Holds(g, l, u[l]),
           \A l \in T, m \in Heads : l # m => Apart(l, u[l], m, u[m]),
           \A l \in Heads \ T : \A i \in 0 .. Len(t[l]) : Same(g, h, At(l, t[l], i))
    PROVE  Kept(g, u)
<1>1. ASSUME NEW l \in Heads PROVE Distinct(l, u[l]) /\ Holds(g, l, u[l])
  <2>1. CASE l \in T
    BY <2>1
  <2>2. CASE l \notin T
    <3>1. u[l] = t[l] /\ Distinct(l, t[l]) /\ Holds(h, l, t[l])
      BY <2>2 DEF Kept
    <3>2. \A i \in 0 .. Len(t[l]) : Same(g, h, At(l, t[l], i))
      BY <2>2
    <3>3. Holds(g, l, t[l])
      BY <3>1, <3>2, Untouched DEF Same
    <3> QED
      BY <3>1, <3>3
  <2> QED
    BY <2>1, <2>2
<1>2. ASSUME NEW l \in Heads, NEW m \in Heads, l # m PROVE Apart(l, u[l], m, u[m])
  <2>1. CASE l \in T
    BY <1>2, <2>1
  <2>2. CASE m \in T
    <3>1. Apart(m, u[m], l, u[l])
      BY <1>2, <2>2
    <3> QED
      BY <3>1 DEF Apart
  <2>3. CASE l \notin T /\ m \notin T
    BY <1>2, <2>3 DEF Kept
  <2> QED
    BY <2>1, <2>2, <2>3
<1> QED
  BY <1>1, <1>2 DEF Kept

\* An entry of no list is put at either end of one.
LEMMA Put ==
    ASSUME NEW h, NEW t, Kept(h, t), NEW x \in Entry, ~On(t, x), NEW l \in Heads, NEW g, NEW s,
           \/ g = list_add(h, x, l) /\ s = <<x>> \o t[l]
           \/ g = list_add_tail(h, x, l) /\ s = Append(t[l], x),
           NEW u, u = [t EXCEPT ![l] = s]
    PROVE  /\ Kept(g, u) /\ On(u, x)
           /\ \A y \in Entry : On(t, y) => On(u, y)
           /\ \A y \in Entry : ~On(u, y) => Same(g, h, y)
<1> DEFINE r == t[l]
           n == Len(r)
<1>1. /\ h \in Heap /\ t \in [Heads -> Seq(Entry)] /\ r \in Seq(Entry) /\ n \in Nat
      /\ Distinct(l, r) /\ Holds(h, l, r) /\ x \in Node /\ l \in Node
  BY HeadsNotEntries DEF Kept
<1>2. Outside(x, l, r)
  BY <1>1, NotOn
<1>3. g \in Heap /\ Distinct(l, s) /\ Holds(g, l, s)
  BY <1>1, <1>2, HeadAdded, TailAdded
<1>4. /\ s \in Seq(Entry) /\ Len(s) = n + 1
      /\ \A i \in 1 .. n + 1 : s[i] = x \/ \E j \in 1 .. n : s[i] = r[j]
      /\ \E i \in 1 .. n + 1 : s[i] = x
      /\ \A j \in 1 .. n : \E i \in 1 .. n + 1 : s[i] = r[j]
  <2>1. CASE s = <<x>> \o r
    <3>1. s \in Seq(Entry) /\ Len(s) = n + 1 /\ s[1] = x
      BY <2>1, <1>1
    <3>2. \A i \in 1 .. n + 1 : i = 1 \/ (i - 1 \in 1 .. n /\ s[i] = r[i - 1])
      BY <2>1, <1>1
    <3>3. \A j \in 1 .. n : j + 1 \in 1 .. n + 1 /\ s[j + 1] = r[j]
      BY <2>1, <1>1
    <3>4. 1 \in 1 .. n + 1
      BY <1>1
    <3> QED
      BY <3>1, <3>2, <3>3, <3>4
  <2>2. CASE s = Append(r, x)
    <3>1. s \in Seq(Entry) /\ Len(s) = n + 1 /\ s[n + 1] = x
      BY <2>2, <1>1
    <3>2. \A i \in 1 .. n : i \in 1 .. n + 1 /\ s[i] = r[i]
      BY <2>2, <1>1
    <3>3. n + 1 \in 1 .. n + 1 /\ \A i \in 1 .. n + 1 : i = n + 1 \/ i \in 1 .. n
      BY <1>1
    <3> QED
      BY <3>1, <3>2, <3>3
  <2> QED
    BY <2>1, <2>2
<1>5. u \in [Heads -> Seq(Entry)] /\ u[l] = s /\ \A m \in Heads \ {l} : u[m] = t[m]
  BY <1>1, <1>4
<1>6. ASSUME NEW y \in Node, y # x, \A i \in 0 .. n : At(l, r, i) # y PROVE Same(g, h, y)
  <2>1. l # y /\ h.next[l] # y /\ h.prev[l] # y
    <3>1. h.next[At(l, r, 0)] = After(l, r, 0) /\ h.prev[After(l, r, n)] = At(l, r, n)
      BY <1>1, CircleIs, Round
    <3>2. After(l, r, n) = l /\ n \in 0 .. n /\ At(l, r, 0) = l /\ 0 \in 0 .. n
      BY <1>1, CircleIs DEF After
    <3> QED
      BY <3>1, <3>2, <1>1, <1>6, CircleIs
  <2>2. \A p, q : p # y /\ q # y => Same(list_add_between(h, x, p, q), h, y)
    BY <1>1, <1>6 DEF Same, list_add_between, Heap
  <2> QED
    BY <2>1, <2>2 DEF list_add, list_add_tail
<1>7. \A i \in 0 .. Len(s) : At(l, s, i) = x \/ \E j \in 0 .. n : At(l, s, i) = At(l, r, j)
  <2> SUFFICES ASSUME NEW i \in 0 .. Len(s)
               PROVE  At(l, s, i) = x \/ \E j \in 0 .. n : At(l, s, i) = At(l, r, j)
    OBVIOUS
  <2>1. CASE At(l, s, i) = l
    BY <2>1, <1>1, CircleIs
  <2>2. CASE i \in 1 .. Len(s) /\ At(l, s, i) = s[i]
    <3>1. CASE s[i] = x
      BY <2>2, <3>1
    <3>2. CASE \E j \in 1 .. n : s[i] = r[j]
      <4>1. PICK j \in 1 .. n : s[i] = r[j]
        BY <3>2
      <4>2. j \in 0 .. n /\ At(l, r, j) = r[j]
        BY <1>1, CircleIs
      <4> QED
        BY <2>2, <4>1, <4>2
    <3> QED
      BY <2>2, <3>1, <3>2, <1>4
  <2> QED
    BY <2>1, <2>2, <1>4, CircleIs
<1>8. ASSUME NEW m \in Heads, l # m
      PROVE  /\ Apart(l, s, m, t[m])
             /\ \A i \in 0 .. Len(t[m]) : Same(g, h, At(m, t[m], i))
  <2>1. Apart(l, r, m, t[m])
    BY <1>8 DEF Kept
  <2>2. \A i \in 0 .. Len(t[m]) : At(m, t[m], i) # x /\ At(m, t[m], i) \in Node
    <3>1. Outside(x, m, t[m]) /\ Distinct(m, t[m])
      BY <1>1, NotOn DEF Kept
    <3> QED
      BY <3>1, CircleNodes DEF Outside
  <2> QED
    BY <2>1, <2>2, <1>6, <1>7 DEF Apart
<1>9. Kept(g, u)
  <2> SUFFICES ASSUME NEW T \in SUBSET Heads, T = {l} PROVE Kept(g, u)
    OBVIOUS
  <2>1. \A k \in T : Distinct(k, u[k]) /\ Holds(g, k, u[k])
    BY <1>3, <1>5
  <2>2. \A k \in T, m \in Heads : k # m => Apart(k, u[k], m, u[m])
    BY <1>5, <1>8
  <2>3. \A k \in Heads \ T : u[k] = t[k] /\ \A i \in 0 .. Len(t[k]) : Same(g, h, At(k, t[k], i))
    BY <1>5, <1>8
  <2> HIDE DEF r, n
  <2> QED
    BY <2>1, <2>2, <2>3, <1>3, <1>5, Rearranged
<1>10. On(u, x)
  BY <1>4, <1>5, OnIs
<1>11. ASSUME NEW y \in Entry, On(t, y) PROVE On(u, y)
  <2>1. PICK m \in Heads : \E i \in 1 .. Len(t[m]) : t[m][i] = y
    BY <1>1, <1>11, OnIs
  <2>2. CASE m = l
    <3>1. \E i \in 1 .. Len(u[l]) : u[l][i] = y
      BY <2>1, <2>2, <1>4, <1>5
    <3> QED
      BY <3>1, <1>5, OnIs
  <2>3. CASE m # l
    <3>1. u[m] = t[m]
      BY <2>3, <1>5
    <3>2. \E i \in 1 .. Len(u[m]) : u[m][i] = y
      BY <2>1, <3>1
    <3> QED
      BY <3>2, <1>5, OnIs, Zenon
  <2> QED
    BY <2>2, <2>3
<1>12. ASSUME NEW y \in Entry, ~On(u, y) PROVE Same(g, h, y)
  <2>1. y # x /\ ~On(t, y)
    BY <1>10, <1>11, <1>12
  <2>2. \A i \in 0 .. n : At(l, r, i) # y
    BY <2>1, <1>1, NotOn DEF Outside
  <2> QED
    BY <2>1, <2>2, <1>6, HeadsNotEntries DEF Entry
<1> QED
  BY <1>9, <1>10, <1>11, <1>12

LEMMA Removed ==
    ASSUME NEW s \in Seq(Entry), NEW k \in 1 .. Len(s)
    PROVE  RemoveAt(s, k) = Without(s, k) /\ Without(s, k) \in Seq(Entry)
<1> DEFINE n == Len(s)
           before == SubSeq(s, 1, k - 1)
           behind == SubSeq(s, k + 1, n)
<1>1. n \in Nat /\ k \in 1 .. n
  OBVIOUS
<1>2. /\ before \in Seq(Entry) /\ Len(before) = k - 1
      /\ \A i \in 1 .. k - 1 : before[i] = s[i]
  BY <1>1
<1>3. /\ behind \in Seq(Entry) /\ Len(behind) = n - k
      /\ \A i \in 1 .. n - k : behind[i] = s[k + i]
  BY <1>1
<1>4. RemoveAt(s, k) = before \o behind
  BY DEF RemoveAt
<1> HIDE DEF before, behind
<1>5. /\ before \o behind \in Seq(Entry) /\ Len(before \o behind) = n - 1
      /\ \A i \in 1 .. n - 1 : (before \o behind)[i] = IF i < k THEN s[i] ELSE s[i + 1]
  <2>1. before \o behind \in Seq(Entry) /\ Len(before \o behind) = n - 1
    <3>1. before \o behind \in Seq(Entry) /\ Len(before \o behind) = Len(before) + Len(behind)
      BY <1>2, <1>3, ConcatProperties, Zenon
    <3>2. (k - 1) + (n - k) = n - 1
      BY <1>1
    <3> QED
      BY <3>1, <3>2, <1>2, <1>3
  <2>2. ASSUME NEW i \in 1 .. n - 1
        PROVE  (before \o behind)[i] = IF i < k THEN s[i] ELSE s[i + 1]
    <3>1. CASE i < k
      <4>1. i \in 1 .. k - 1
        BY <1>1, <3>1
      <4> QED
        BY <3>1, <4>1, <1>1, <1>2, <1>3
    <3>2. CASE ~(i < k)
      <4>1. i - (k - 1) \in 1 .. n - k /\ k + (i - (k - 1)) = i + 1 /\ ~(i <= k - 1)
        BY <1>1, <3>2
      <4>2. (before \o behind)[i] = behind[i - (k - 1)]
        BY <4>1, <1>1, <1>2, <1>3
      <4> QED
        BY <3>2, <4>1, <4>2, <1>3
    <3> QED
      BY <3>1, <3>2
  <2> QED
    BY <2>1, <2>2
<1>6. Without(s, k) \in Seq(Entry) /\ Len(Without(s, k)) = n - 1
  <2>1. \A i \in 1 .. n - 1 : Without(s, k)[i] \in Entry
    BY <1>1 DEF Without
  <2> QED
    BY <2>1, <1>1 DEF Without
<1>7. \A i \in 1 .. n - 1 : (before \o behind)[i] = Without(s, k)[i]
  BY <1>5 DEF Without
<1> QED
  BY <1>4, <1>5, <1>6, <1>7, SeqEqual

\* An entry is taken out of its list; what becomes of its own pointers is
\* left open.
LEMMA Taken ==
    ASSUME NEW h, NEW t, Kept(h, t), NEW l \in Heads, NEW k \in 1 .. Len(t[l]),
           NEW x, x = t[l][k], NEW g \in Heap,
           Elsewhere(g, unlink(h, x), x), NEW u, IsRest(t, u, l, k)
    PROVE  /\ Kept(g, u) /\ x \in Entry /\ ~On(u, x)
           /\ \A y \in Entry : On(t, y) /\ y # x => On(u, y)
           /\ \A y \in Entry : ~On(t, y) => Same(g, h, y)
<1> DEFINE r == t[l]
           n == Len(r)
           s == Without(r, k)
<1>1. /\ h \in Heap /\ t \in [Heads -> Seq(Entry)] /\ r \in Seq(Entry) /\ n \in Nat
      /\ Distinct(l, r) /\ Holds(h, l, r) /\ l \in Node /\ k \in 1 .. n /\ k \in 0 .. n
      /\ x \in Entry /\ x \in Node /\ x = At(l, r, k)
  BY HeadsAssumption, CircleIs DEF Kept, Entry
<1>2. u \in [Heads -> Seq(Entry)] /\ u[l] = s /\ \A m \in Heads \ {l} : u[m] = t[m]
  BY <1>1, Removed DEF IsRest
<1>3. Distinct(l, s) /\ Outside(x, l, s) /\ Holds(g, l, s)
  <2>1. \A y \in Node \ {r[k]} : /\ g.next[y] = unlink(h, r[k]).next[y]
                                 /\ g.prev[y] = unlink(h, r[k]).prev[y]
    BY DEF Same, Elsewhere
  <2> QED
    BY <2>1, <1>1, LinksRemain, Zenon
<1>4. /\ s \in Seq(Entry) /\ Len(s) = n - 1
      /\ \A i \in 1 .. n - 1 : \E j \in 1 .. n : s[i] = r[j]
      /\ \A j \in 1 .. n : j # k => \E i \in 1 .. n - 1 : s[i] = r[j]
  <2>1. s \in Seq(Entry)
    BY <1>1, Removed
  <2>2. \A i \in 1 .. n - 1 : /\ s[i] = IF i < k THEN r[i] ELSE r[i + 1]
                              /\ i \in 1 .. n /\ i + 1 \in 1 .. n
    BY <1>1 DEF Without
  <2>3. ASSUME NEW j \in 1 .. n, j # k PROVE \E i \in 1 .. n - 1 : s[i] = r[j]
    <3>1. CASE j < k
      <4>1. j \in 1 .. n - 1 /\ s[j] = r[j]
        BY <3>1, <1>1, <2>2
      <4> QED
        BY <4>1
    <3>2. CASE ~(j < k)
      <4>1. j - 1 \in 1 .. n - 1 /\ ~(j - 1 < k) /\ (j - 1) + 1 = j
        BY <3>2, <1>1, <2>3
      <4>2. s[j - 1] = r[j]
        BY <4>1, <2>2
      <4> QED
        BY <4>1, <4>2
    <3> QED
      BY <3>1, <3>2
  <2>4. Len(s) = n - 1
    BY <1>1 DEF Without
  <2> QED
    BY <2>1, <2>2, <2>3, <2>4
<1> HIDE DEF s
<1>5. ASSUME NEW y \in Node, y # x, \A i \in 0 .. n : At(l, r, i) # y PROVE Same(g, h, y)
  <2>1. h.next[x] # y /\ h.prev[x] # y
    <3>1. h.next[At(l, r, k)] = After(l, r, k)
      BY <1>1, Round
    <3>2. k - 1 \in 0 .. n /\ After(l, r, k - 1) = x
      <4>1. k - 1 \in 0 .. n /\ k - 1 # n /\ (k - 1) + 1 = k
        BY <1>1
      <4> QED
        BY <4>1 DEF After
    <3>3. h.prev[x] = At(l, r, k - 1)
      BY <3>2, <1>1, Round
    <3> QED
      BY <3>1, <3>2, <3>3, <1>1, <1>5, CircleIs
  <2>2. Same(unlink(h, x), h, y)
    BY <2>1, <1>1 DEF Same, unlink, list_del_between, Heap
  <2> QED
    BY <2>2, <1>5 DEF Same, Elsewhere
<1>6. \A i \in 0 .. Len(s) : \E j \in 0 .. n : At(l, s, i) = At(l, r, j)
  <2> SUFFICES ASSUME NEW i \in 0 .. Len(s) PROVE \E j \in 0 .. n : At(l, s, i) = At(l, r, j)
    OBVIOUS
  <2>1. CASE At(l, s, i) = l
    BY <2>1, <1>1, CircleIs
  <2>2. CASE i \in 1 .. Len(s) /\ At(l, s, i) = s[i]
    <3>1. PICK j \in 1 .. n : s[i] = r[j]
      BY <2>2, <1>4
    <3>2. j \in 0 .. n /\ At(l, r, j) = r[j]
      BY <1>1, CircleIs
    <3> QED
      BY <2>2, <3>1, <3>2
  <2> QED
    BY <2>1, <2>2, <1>4, CircleIs
<1>7. ASSUME NEW m \in Heads, l # m
      PROVE  /\ Apart(l, s, m, t[m])
             /\ \A i \in 0 .. Len(t[m]) : Same(g, h, At(m, t[m], i)) /\ At(m, t[m], i) # x
  <2>1. Apart(l, r, m, t[m]) /\ Distinct(m, t[m])
    BY <1>7 DEF Kept
  <2>2. \A i \in 0 .. Len(t[m]) : At(m, t[m], i) # x /\ At(m, t[m], i) \in Node
    BY <2>1, <1>1, CircleNodes DEF Apart
  <2> QED
    BY <2>1, <2>2, <1>5, <1>6 DEF Apart
<1>8. Kept(g, u)
  <2> SUFFICES ASSUME NEW T \in SUBSET Heads, T = {l} PROVE Kept(g, u)
    OBVIOUS
  <2>1. \A j \in T : Distinct(j, u[j]) /\ Holds(g, j, u[j])
    BY <1>2, <1>3
  <2>2. \A j \in T, m \in Heads : j # m => Apart(j, u[j], m, u[m])
    BY <1>2, <1>7
  <2>3. \A j \in Heads \ T : u[j] = t[j] /\ \A i \in 0 .. Len(t[j]) : Same(g, h, At(j, t[j], i))
    BY <1>2, <1>7
  <2> HIDE DEF r, n
  <2> QED
    BY <2>1, <2>2, <2>3, <1>2, Rearranged, Zenon
<1>9. ~On(u, x)
  <2> SUFFICES ASSUME On(u, x) PROVE FALSE
    OBVIOUS
  <2>0. PICK m \in Heads : \E i \in 1 .. Len(u[m]) : u[m][i] = x
    <3>1. u \in [Heads -> Seq(Entry)] /\ On(u, x)
      BY <1>2
    <3> QED
      BY <3>1, OnIs
  <2> SUFFICES ASSUME NEW i \in 1 .. Len(u[m]), u[m][i] = x PROVE FALSE
    BY <2>0
  <2>1. i \in 0 .. Len(u[m]) /\ At(m, u[m], i) = x
    <3>1. u[m] \in Seq(Entry)
      BY <1>2
    <3>2. At(m, u[m], i) = u[m][i] /\ Len(u[m]) \in Nat
      BY <3>1, CircleIs
    <3> QED
      BY <3>2
  <2>2. CASE m = l
    BY <2>1, <2>2, <1>2, <1>3 DEF Outside
  <2>3. CASE m # l
    BY <2>1, <2>3, <1>2, <1>7
  <2> QED
    BY <2>2, <2>3
<1>10. ASSUME NEW y \in Entry, On(t, y), y # x PROVE On(u, y)
  <2>1. PICK m \in Heads : \E i \in 1 .. Len(t[m]) : t[m][i] = y
    BY <1>1, <1>10, OnIs
  <2>2. CASE m = l
    <3>1. PICK j \in 1 .. n : r[j] = y
      BY <2>1, <2>2
    <3>2. \E i \in 1 .. Len(u[l]) : u[l][i] = y
      BY <3>1, <1>2, <1>4, <1>10
    <3> QED
      BY <3>2, <1>2, OnIs, Zenon
  <2>3. CASE m # l
    <3>1. \E i \in 1 .. Len(u[m]) : u[m][i] = y
      BY <2>1, <2>3, <1>2
    <3> QED
      BY <3>1, <1>2, OnIs, Zenon
  <2> QED
    BY <2>2, <2>3
<1>11. ASSUME NEW y \in Entry, ~On(t, y) PROVE Same(g, h, y)
  <2>1. Outside(y, l, r)
    BY <1>1, <1>11, NotOn
  <2>2. y # x
    BY <2>1, <1>1 DEF Outside
  <2> QED
    BY <2>1, <2>2, <1>5 DEF Outside
<1> QED
  BY <1>1, <1>8, <1>9, <1>10, <1>11

\* A list is empty for list_empty when it has no entries.
LEMMA EmptyIs ==
    ASSUME NEW h, NEW t, Kept(h, t), NEW l \in Heads
    PROVE  /\ list_empty(h, l) <=> t[l] = <<>>
           /\ t[l] = <<>> => h.next[l] = l /\ h.prev[l] = l
           /\ \E i, j \in 0 .. Len(t[l]) : h.next[l] = At(l, t[l], i) /\ h.prev[l] = At(l, t[l], j)
<1> DEFINE s == t[l]
<1>1. s \in Seq(Entry) /\ Distinct(l, s) /\ Holds(h, l, s)
  BY DEF Kept
<1>2. /\ Len(s) \in Nat /\ 0 \in 0 .. Len(s) /\ Len(s) \in 0 .. Len(s) /\ At(l, s, 0) = l
      /\ s = <<>> <=> Len(s) = 0
  BY <1>1, CircleIs, EmptySeq
<1>3. h.next[l] = After(l, s, 0) /\ h.prev[l] = At(l, s, Len(s))
  BY <1>1, <1>2, Round DEF After
<1>4. \E i \in 0 .. Len(s) : h.next[l] = At(l, s, i)
  BY <1>1, <1>2, <1>3, CircleIs
<1>5. CASE Len(s) = 0
  BY <1>2, <1>3, <1>4, <1>5 DEF After, list_empty
<1>6. CASE Len(s) # 0
  <2>1. 1 \in 1 .. Len(s) /\ After(l, s, 0) = s[1]
    BY <1>2, <1>6 DEF After
  <2>2. s[1] # l
    BY <2>1, <1>1, HeadsNotEntries
  <2> QED
    BY <2>1, <2>2, <1>2, <1>3, <1>4, <1>6 DEF list_empty
<1> QED
  BY <1>5, <1>6

\* The entries of one list are put before those of another one.
LEMMA Spliced ==
    ASSUME NEW h, NEW t, Kept(h, t), NEW l \in Heads, NEW m \in Heads, m # l, NEW g,
           g = INIT_LIST_HEAD(list_splice(h, m, l), m) \/ g = list_splice_init(h, m, l),
           NEW u, IsJoined(t, u, m, l)
    PROVE  /\ Kept(g, u)
           /\ \A y \in Entry : On(t, y) => On(u, y)
           /\ \A y \in Entry : ~On(t, y) => Same(g, h, y)
<1> DEFINE s == t[l]
           r == t[m]
           v == r \o s
<1>1. /\ h \in Heap /\ t \in [Heads -> Seq(Entry)] /\ s \in Seq(Entry) /\ r \in Seq(Entry)
      /\ Distinct(l, s) /\ Holds(h, l, s) /\ Distinct(m, r) /\ Holds(h, m, r)
      /\ Apart(l, s, m, r) /\ l \in Node /\ m \in Node
  BY HeadsAssumption DEF Kept
<1>0. /\ u \in [Heads -> Seq(Entry)] /\ u[l] = v /\ u[m] = <<>>
      /\ \A k \in Heads \ {l, m} : u[k] = t[k]
  BY DEF IsJoined
<1>2. CASE r = <<>>
  <2>1. list_empty(h, m) /\ h.next[m] = m /\ h.prev[m] = m
    BY <1>2, EmptyIs
  <2>2. g = h \/ g = INIT_LIST_HEAD(h, m)
    BY <2>1 DEF list_splice, list_splice_init
  <2>3. g \in Heap /\ \A y \in Node : Same(g, h, y)
    BY <2>1, <2>2, <1>1 DEF INIT_LIST_HEAD, Heap, Same
  <2>4. \A k \in Heads : u[k] = t[k]
    <3>1. <<>> \o s = s
      BY <1>1
    <3>2. u[l] = s /\ u[m] = r
      BY <1>0, <1>2, <3>1
    <3> QED
      BY <1>0, <3>2
  <2>5. \A k \in Heads : \A i \in 0 .. Len(t[k]) : Same(g, h, At(k, t[k], i))
    <3>1. \A k \in Heads : \A i \in 0 .. Len(t[k]) : At(k, t[k], i) \in Node
      BY CircleNodes DEF Kept
    <3> QED
      BY <2>3, <3>1
  <2>6. Kept(g, u)
    <3> DEFINE T == {}
    <3>1. T \in SUBSET Heads
      OBVIOUS
    <3>2. /\ \A k \in T : Distinct(k, u[k]) /\ Holds(g, k, u[k])
          /\ \A k \in T, j \in Heads : k # j => Apart(k, u[k], j, u[j])
      OBVIOUS
    <3> HIDE DEF s, r, v, T
    <3> QED
      BY <2>3, <2>4, <2>5, <3>1, <3>2, <1>0, Rearranged, Zenon
  <2>7. u = t
    BY <2>4, <1>0, <1>1
  <2> QED
    BY <2>3, <2>6, <2>7 DEF Entry
<1>3. CASE r # <<>>
  <2> DEFINE joined == list_splice(h, m, l)
  <2>1. ~list_empty(h, m)
    BY <1>3, EmptyIs
  <2>2. g = INIT_LIST_HEAD(joined, m)
    BY <2>1 DEF list_splice_init
  <2>3. joined \in Heap /\ Distinct(l, v) /\ Holds(joined, l, v)
    BY <1>1, <1>3, ListsSpliced
  <2> HIDE DEF joined
  <2>4. /\ g \in Heap /\ g.next[m] = m /\ g.prev[m] = m
        /\ \A y \in Node \ {m} : Same(g, joined, y)
    BY <2>2, <2>3, <1>1 DEF INIT_LIST_HEAD, Heap, Same
  <2>5. /\ v \in Seq(Entry) /\ Len(v) = Len(r) + Len(s)
        /\ \A i \in 1 .. Len(v) : (\E j \in 1 .. Len(r) : v[i] = r[j]) \/ \E j \in 1 .. Len(s) : v[i] = s[j]
        /\ \A j \in 1 .. Len(r) : \E i \in 1 .. Len(v) : v[i] = r[j]
        /\ \A j \in 1 .. Len(s) : \E i \in 1 .. Len(v) : v[i] = s[j]
    <3>1. /\ v \in Seq(Entry) /\ Len(v) = Len(r) + Len(s) /\ Len(r) \in Nat /\ Len(s) \in Nat
          /\ \A i \in 1 .. Len(r) + Len(s) : v[i] = IF i <= Len(r) THEN r[i] ELSE s[i - Len(r)]
      BY <1>1
    <3> HIDE DEF s, r, v
    <3>2. ASSUME NEW i \in 1 .. Len(v)
          PROVE  (\E j \in 1 .. Len(r) : v[i] = r[j]) \/ \E j \in 1 .. Len(s) : v[i] = s[j]
      <4>1. i <= Len(r) => i \in 1 .. Len(r)
        BY <3>1
      <4>2. ~(i <= Len(r)) => i - Len(r) \in 1 .. Len(s)
        BY <3>1
      <4> QED
        BY <3>1, <4>1, <4>2
    <3>3. \A j \in 1 .. Len(r) : j \in 1 .. Len(v) /\ v[j] = r[j]
      BY <3>1
    <3>4. ASSUME NEW j \in 1 .. Len(s) PROVE \E i \in 1 .. Len(v) : v[i] = s[j]
      <4>1. j + Len(r) \in 1 .. Len(v) /\ ~(j + Len(r) <= Len(r)) /\ (j + Len(r)) - Len(r) = j
        BY <3>1
      <4>2. v[j + Len(r)] = s[j]
        BY <3>1, <4>1
      <4> QED
        BY <4>1, <4>2
    <3> QED
      BY <3>1, <3>2, <3>3, <3>4
  <2> HIDE DEF v
  <2>6. \A i \in 0 .. Len(v) : \/ \E j \in 0 .. Len(s) : At(l, v, i) = At(l, s, j)
                               \/ \E j \in 1 .. Len(r) : At(l, v, i) = At(m, r, j)
    <3> SUFFICES ASSUME NEW i \in 0 .. Len(v)
                 PROVE  \/ \E j \in 0 .. Len(s) : At(l, v, i) = At(l, s, j)
                        \/ \E j \in 1 .. Len(r) : At(l, v, i) = At(m, r, j)
      OBVIOUS
    <3>1. CASE At(l, v, i) = l
      BY <3>1, <1>1, CircleIs
    <3>2. CASE i \in 1 .. Len(v) /\ At(l, v, i) = v[i]
      <4>1. CASE \E j \in 1 .. Len(r) : v[i] = r[j]
        <5>1. PICK j \in 1 .. Len(r) : v[i] = r[j]
          BY <4>1
        <5>2. At(m, r, j) = r[j]
          BY <1>1, CircleIs
        <5> QED
          BY <3>2, <5>1, <5>2
      <4>2. CASE \E j \in 1 .. Len(s) : v[i] = s[j]
        <5>1. PICK j \in 1 .. Len(s) : v[i] = s[j]
          BY <4>2
        <5>2. At(l, s, j) = s[j] /\ Len(s) \in Nat
          BY <1>1, CircleIs
        <5>3. j \in 0 .. Len(s)
          BY <5>2
        <5> QED
          BY <3>2, <5>1, <5>2, <5>3
      <4> QED
        BY <3>2, <4>1, <4>2, <2>5
    <3> QED
      BY <3>1, <3>2, <2>5, CircleIs
  <2>7. \A i \in 0 .. Len(v) : At(l, v, i) # m
    <3>1. 0 \in 0 .. Len(r) /\ At(m, r, 0) = m /\ \A j \in 1 .. Len(r) : j \in 0 .. Len(r) /\ j # 0
      BY <1>1, CircleIs
    <3>2. \A j \in 0 .. Len(s) : At(l, s, j) # m
      BY <3>1, <1>1 DEF Apart
    <3>3. \A j \in 1 .. Len(r) : At(m, r, j) # m
      BY <3>1, <1>1, CircleNodes
    <3> QED
      BY <2>6, <3>2, <3>3
  <2>8. Holds(g, l, v)
    <3>1. \A i \in 0 .. Len(v) : Same(g, joined, At(l, v, i))
      BY <2>3, <2>4, <2>7, CircleNodes
    <3> QED
      BY <2>3, <3>1, Untouched DEF Same
  <2>9. Distinct(m, <<>>) /\ Holds(g, m, <<>>)
    BY <2>4, <1>1 DEF Distinct, Holds, At
  <2>10. ASSUME NEW y \in Node, \A i \in 0 .. Len(s) : At(l, s, i) # y, \A i \in 0 .. Len(r) : At(m, r, i) # y
         PROVE  Same(g, h, y)
    <3>1. y # l /\ y # m /\ h.next[l] # y /\ h.next[m] # y /\ h.prev[m] # y
      <4>1. l = At(l, s, 0) /\ m = At(m, r, 0) /\ 0 \in 0 .. Len(s) /\ 0 \in 0 .. Len(r)
        BY <1>1, CircleIs
      <4>2. PICK i \in 0 .. Len(s) : h.next[l] = At(l, s, i)
        BY EmptyIs
      <4>3. PICK j, n \in 0 .. Len(r) : h.next[m] = At(m, r, j) /\ h.prev[m] = At(m, r, n)
        BY EmptyIs
      <4> QED
        BY <2>10, <4>1, <4>2, <4>3
    <3>2. Same(joined, h, y)
      BY <2>1, <3>1, <1>1 DEF joined, Same, list_splice, Heap
    <3> QED
      BY <3>1, <3>2, <2>4 DEF Same
  <2>11. ASSUME NEW k \in Heads, k # l, k # m
         PROVE  /\ Apart(l, v, k, t[k]) /\ Apart(m, <<>>, k, t[k])
                /\ \A i \in 0 .. Len(t[k]) : Same(g, h, At(k, t[k], i))
    <3>1. Apart(l, s, k, t[k]) /\ Apart(m, r, k, t[k]) /\ Distinct(k, t[k])
      BY <2>11 DEF Kept
    <3>2. \A i \in 0 .. Len(t[k]) : /\ \A j \in 0 .. Len(s) : At(l, s, j) # At(k, t[k], i)
                                    /\ \A j \in 0 .. Len(r) : At(m, r, j) # At(k, t[k], i)
                                    /\ At(k, t[k], i) \in Node
      BY <3>1, CircleNodes DEF Apart
    <3>3. \A j \in 1 .. Len(r) : j \in 0 .. Len(r)
      BY <1>1
    <3>4. \A i \in 0 .. Len(t[k]) : m # At(k, t[k], i)
      BY <3>2, <1>1, CircleIs
    <3>5. Apart(m, <<>>, k, t[k])
      BY <3>4 DEF Apart, At
    <3> QED
      BY <2>6, <2>10, <3>2, <3>3, <3>5 DEF Apart
  <2>12. Apart(l, v, m, <<>>)
    BY <2>7 DEF Apart, At
  <2>13. u[l] = v /\ u[m] = <<>>
    BY <1>0
  <2>14. Kept(g, u)
    <3> DEFINE T == {l, m}
    <3>1. \A k \in T : Distinct(k, u[k]) /\ Holds(g, k, u[k])
      BY <2>3, <2>8, <2>9, <2>13
    <3>2. \A j \in T, k \in Heads : j # k => Apart(j, u[j], k, u[k])
      <4>1. Apart(m, <<>>, l, v)
        BY <2>12 DEF Apart
      <4>2. \A k \in Heads : k # l /\ k # m => u[k] = t[k]
        BY <1>0
      <4>3. \A k \in Heads : k # l => Apart(l, u[l], k, u[k])
        BY <4>2, <2>11, <2>12, <2>13
      <4>4. \A k \in Heads : k # m => Apart(m, u[m], k, u[k])
        BY <4>1, <4>2, <2>11, <2>13
      <4> QED
        BY <4>3, <4>4
    <3>3. \A j \in Heads \ T : u[j] = t[j] /\ \A i \in 0 .. Len(t[j]) : Same(g, h, At(j, t[j], i))
      BY <1>0, <2>11
    <3>4. T \in SUBSET Heads /\ g \in Heap
      BY <2>4
    <3> HIDE DEF s, r, T
    <3> QED
      <4>1. Kept(h, t) /\ u \in [Heads -> Seq(Entry)]
        BY <1>0
      <4>2. \A j \in Heads \ T : u[j] = t[j]
        BY <3>3
      <4>3. \A j \in Heads \ T : \A i \in 0 .. Len(t[j]) : Same(g, h, At(j, t[j], i))
        BY <3>3
      <4> QED
        BY <3>1, <3>2, <3>4, <4>1, <4>2, <4>3, Rearranged
  <2>15. ASSUME NEW y \in Entry, On(t, y) PROVE On(u, y)
    <3>1. PICK k \in Heads : \E i \in 1 .. Len(t[k]) : t[k][i] = y
      BY <1>1, <2>15, OnIs
    <3>2. CASE k = l \/ k = m
      <4>1. \E i \in 1 .. Len(u[l]) : u[l][i] = y
        <5>1. (\E i \in 1 .. Len(s) : s[i] = y) \/ \E i \in 1 .. Len(r) : r[i] = y
          BY <3>1, <3>2
        <5> HIDE DEF s, r
        <5> QED
          BY <5>1, <2>5, <2>13
      <4> QED
        BY <4>1, <1>0, OnIs
    <3>3. CASE k # l /\ k # m
      <4>1. \E i \in 1 .. Len(u[k]) : u[k][i] = y
        BY <3>1, <3>3, <1>0
      <4> QED
        BY <4>1, <1>0, OnIs
    <3> QED
      BY <3>2, <3>3
  <2>16. ASSUME NEW y \in Entry, ~On(t, y) PROVE Same(g, h, y)
    <3>1. Outside(y, l, s) /\ Outside(y, m, r)
      BY <1>1, <2>16, NotOn
    <3> QED
      BY <3>1, <2>10 DEF Outside
  <2> QED
    BY <2>14, <2>15, <2>16
<1> QED
  BY <1>2, <1>3

LEMMA Neighbours ==
    ASSUME NEW h, NEW head, NEW s, Distinct(head, s), Holds(h, head, s), NEW k \in 1 .. Len(s)
    PROVE  h.next[s[k]] \in Node /\ h.prev[s[k]] \in Node
<1>1. /\ s[k] = At(head, s, k) /\ k \in 0 .. Len(s)
      /\ s[k] = After(head, s, k - 1) /\ k - 1 \in 0 .. Len(s)
  BY CircleNodes DEF After
<1> QED
  BY <1>1, CircleNodes, Round

\* What list_del and list_del_init do to an entry and to the others.
LEMMA Unlinked ==
    ASSUME NEW h, NEW t, Kept(h, t), NEW l \in Heads, NEW k \in 1 .. Len(t[l]), NEW x, x = t[l][k]
    PROVE  /\ x \in Entry /\ x \in Node /\ unlink(h, x) \in Heap
           /\ \A g \in {list_del(h, x), list_del_init(h, x)} :
                  g \in Heap /\ Loose(g, x) /\ Elsewhere(g, unlink(h, x), x)
<1>1. /\ h \in Heap /\ t[l] \in Seq(Entry) /\ Distinct(l, t[l]) /\ Holds(h, l, t[l])
      /\ x \in Entry /\ x \in Node
  <2>1. h \in Heap /\ t[l] \in Seq(Entry) /\ Distinct(l, t[l]) /\ Holds(h, l, t[l])
    BY DEF Kept
  <2>2. x \in Entry
    BY <2>1
  <2> QED
    BY <2>1, <2>2 DEF Entry
<1>2. h.next[x] \in Node /\ h.prev[x] \in Node
  BY <1>1, Neighbours
<1> DEFINE v == unlink(h, x)
<1>3. v \in Heap
  BY <1>1, <1>2 DEF unlink, list_del_between, Heap
<1>4. list_del(h, x) = [next |-> [v.next EXCEPT ![x] = Nil], prev |-> [v.prev EXCEPT ![x] = Nil]]
  BY DEF list_del
<1>5. list_del_init(h, x) = [next |-> [v.next EXCEPT ![x] = x], prev |-> [v.prev EXCEPT ![x] = x]]
  BY DEF list_del_init, INIT_LIST_HEAD
<1> HIDE DEF v
<1>6. ASSUME NEW g, NEW z \in {Nil, x}, g = [next |-> [v.next EXCEPT ![x] = z], prev |-> [v.prev EXCEPT ![x] = z]]
      PROVE  g \in Heap /\ Loose(g, x) /\ Elsewhere(g, v, x)
  BY <1>1, <1>3, <1>6 DEF Heap, Loose, Same, Elsewhere
<1> QED
  BY <1>1, <1>3, <1>4, <1>5, <1>6 DEF v

LEMMA RestIs ==
    ASSUME ListsInv, NEW l \in Heads, NEW i \in 1 .. Len(held[l])
    PROVE  IsRest(held, Rest(l, i), l, i)
<1> DEFINE s == RemoveAt(held[l], i)
<1>1. held \in [Heads -> Seq(Entry)]
  BY DEF ListsInv, Kept
<1>2. s \in Seq(Entry)
  BY <1>1, Removed
<1>3. Rest(l, i) = [held EXCEPT ![l] = s]
  BY DEF Rest
<1> HIDE DEF s
<1>4. /\ Rest(l, i) \in [Heads -> Seq(Entry)] /\ Rest(l, i)[l] = s
      /\ \A m \in Heads \ {l} : Rest(l, i)[m] = held[m]
  BY <1>1, <1>2, <1>3
<1> QED
  BY <1>4 DEF s, IsRest

LEMMA AddKeeps ==
    ASSUME ListsInv, NEW x \in Entry, NEW l \in Heads, Add(x, l) \/ AddTail(x, l)
    PROVE  ListsInv'
<1>1. Kept(heap, held) /\ ~On(held, x)
  BY DEF ListsInv, Add, AddTail, Linked, On
<1>2. PICK s : /\ \/ heap' = list_add(heap, x, l) /\ s = <<x>> \o held[l]
                  \/ heap' = list_add_tail(heap, x, l) /\ s = Append(held[l], x)
               /\ held' = [held EXCEPT ![l] = s]
  BY DEF Add, AddTail
<1>3. /\ Kept(heap', held')
      /\ \A y \in Entry : On(held, y) => On(held', y)
      /\ \A y \in Entry : ~On(held', y) => Same(heap', heap, y)
  BY <1>1, <1>2, Put
<1> QED
  BY <1>3 DEF ListsInv, Loose, Same

LEMMA DelKeeps ==
    ASSUME ListsInv, NEW l \in Heads, NEW i \in 1 .. Len(held[l]), Del(l, i) \/ DelInit(l, i)
    PROVE  ListsInv'
<1> DEFINE x == held[l][i]
<1>1. Kept(heap, held)
  BY DEF ListsInv
<1>2. heap' \in {list_del(heap, x), list_del_init(heap, x)} /\ held' = Rest(l, i)
  BY DEF Del, DelInit
<1>3. heap' \in Heap /\ Loose(heap', x) /\ Elsewhere(heap', unlink(heap, x), x)
  BY <1>1, <1>2, Unlinked
<1>4. /\ Kept(heap', held')
      /\ \A y \in Entry : On(held, y) /\ y # x => On(held', y)
      /\ \A y \in Entry : ~On(held, y) => Same(heap', heap, y)
  BY <1>1, <1>2, <1>3, RestIs, Taken
<1> QED
  BY <1>3, <1>4 DEF ListsInv, Loose, Same

LEMMA MoveKeeps ==
    ASSUME ListsInv, NEW l \in Heads, NEW i \in 1 .. Len(held[l]), NEW m \in Heads,
           Move(l, i, m) \/ MoveTail(l, i, m)
    PROVE  ListsInv'
<1> DEFINE x == held[l][i]
           v == unlink(heap, x)
           rest == Rest(l, i)
<1>1. Kept(heap, held)
  BY DEF ListsInv
<1>2. x \in Entry /\ v \in Heap
  BY <1>1, Unlinked
<1>3. /\ Kept(v, rest) /\ ~On(rest, x)
      /\ \A y \in Entry : On(held, y) /\ y # x => On(rest, y)
      /\ \A y \in Entry : ~On(held, y) => Same(v, heap, y)
  <2>1. Elsewhere(v, unlink(heap, x), x)
    BY DEF Same, Elsewhere
  <2>2. IsRest(held, rest, l, i)
    BY RestIs
  <2> QED
    BY <2>1, <2>2, <1>1, <1>2, Taken
<1>4. PICK s : /\ \/ heap' = list_add(v, x, m) /\ s = <<x>> \o rest[m]
                  \/ heap' = list_add_tail(v, x, m) /\ s = Append(rest[m], x)
               /\ held' = [rest EXCEPT ![m] = s]
  BY DEF Move, MoveTail, list_move, list_move_tail
<1> HIDE DEF v, rest
<1>5. /\ Kept(heap', held') /\ On(held', x)
      /\ \A y \in Entry : On(rest, y) => On(held', y)
      /\ \A y \in Entry : ~On(held', y) => Same(heap', v, y)
  BY <1>2, <1>3, <1>4, Put
<1>6. ASSUME NEW y \in Entry, ~On(held', y) PROVE Loose(heap', y)
  <2>1. ~On(held, y)
    BY <1>3, <1>5, <1>6
  <2>2. Same(heap', heap, y)
    BY <2>1, <1>3, <1>5, <1>6 DEF Same
  <2> QED
    BY <2>1, <2>2 DEF ListsInv, Loose, Same
<1> QED
  BY <1>5, <1>6 DEF ListsInv

LEMMA SpliceKeeps ==
    ASSUME ListsInv, NEW l \in Heads, NEW m \in Heads, Splice(m, l) \/ SpliceInit(m, l)
    PROVE  ListsInv'
<1>1. Kept(heap, held) /\ held \in [Heads -> Seq(Entry)]
  BY DEF ListsInv, Kept
<1>2. /\ m # l /\ held' = Joined(m, l)
      /\ \/ heap' = INIT_LIST_HEAD(list_splice(heap, m, l), m)
         \/ heap' = list_splice_init(heap, m, l)
  BY DEF Splice, SpliceInit
<1>3. IsJoined(held, held', m, l)
  <2>1. held[m] \o held[l] \in Seq(Entry) /\ <<>> \in Seq(Entry)
    BY <1>1
  <2> DEFINE v == held[m] \o held[l]
  <2>2. held' = [held EXCEPT ![l] = v, ![m] = <<>>]
    BY <1>2 DEF Joined
  <2> HIDE DEF v
  <2>3. /\ held' \in [Heads -> Seq(Entry)] /\ held'[l] = v /\ held'[m] = <<>>
        /\ \A k \in Heads \ {l, m} : held'[k] = held[k]
    BY <2>1, <2>2, <1>1, <1>2 DEF v
  <2> QED
    BY <2>3 DEF v, IsJoined
<1>4. /\ Kept(heap', held')
      /\ \A y \in Entry : On(held, y) => On(held', y)
      /\ \A y \in Entry : ~On(held, y) => Same(heap', heap, y)
  BY <1>1, <1>2, <1>3, Spliced
<1> QED
  BY <1>4 DEF ListsInv, Loose, Same

LEMMA ListsInvariant == ListsSpec => []ListsInv
<1>1. ListsInit => ListsInv
  <2> SUFFICES ASSUME ListsInit PROVE ListsInv
    OBVIOUS
  <2> DEFINE links == [x \in Node |-> IF x \in Heads THEN x ELSE Nil]
  <2>0. heap = [next |-> links, prev |-> links] /\ links \in [Node -> Node \cup {Nil}]
    BY DEF ListsInit
  <2>1. /\ heap \in Heap /\ held \in [Heads -> Seq(Entry)]
        /\ \A l \in Heads : held[l] = <<>> /\ heap.next[l] = l /\ heap.prev[l] = l
    <3>1. heap \in Heap
      BY <2>0, Zenon DEF Heap
    <3>2. held \in [Heads -> Seq(Entry)] /\ \A l \in Heads : held[l] = <<>>
      BY DEF ListsInit
    <3>3. \A l \in Heads : heap.next[l] = l /\ heap.prev[l] = l
      BY <2>0, HeadsAssumption
    <3> QED
      BY <3>1, <3>2, <3>3
  <2>2. \A l \in Heads : Distinct(l, <<>>) /\ Holds(heap, l, <<>>)
    BY <2>1, HeadsAssumption DEF Distinct, Holds, At
  <2>3. \A l, m \in Heads : l # m => Apart(l, <<>>, m, <<>>)
    BY DEF Apart, At
  <2>4. \A x \in Entry : Loose(heap, x)
    BY DEF ListsInit, Loose, Entry
  <2> QED
    BY <2>1, <2>2, <2>3, <2>4 DEF ListsInv, Kept
<1>2. ListsInv /\ [ListsNext]_listsVars => ListsInv'
  <2> SUFFICES ASSUME ListsInv, [ListsNext]_listsVars PROVE ListsInv'
    OBVIOUS
  <2>1. ASSUME NEW x \in Entry, NEW l \in Heads, Add(x, l) \/ AddTail(x, l) PROVE ListsInv'
    BY <2>1, AddKeeps
  <2>2. ASSUME NEW l \in Heads, NEW i \in DOMAIN held[l],
               \/ Del(l, i) \/ DelInit(l, i)
               \/ \E m \in Heads : Move(l, i, m) \/ MoveTail(l, i, m)
        PROVE  ListsInv'
    <3>1. i \in 1 .. Len(held[l])
      BY DEF ListsInv, Kept
    <3> QED
      BY <2>2, <3>1, DelKeeps, MoveKeeps
  <2>3. ASSUME NEW l \in Heads, NEW m \in Heads, Splice(m, l) \/ SpliceInit(m, l) PROVE ListsInv'
    BY <2>3, SpliceKeeps
  <2>4. CASE UNCHANGED listsVars
    BY <2>4 DEF ListsInv, Kept, Loose, On, listsVars
  <2> QED
    BY <2>1, <2>2, <2>3, <2>4 DEF ListsNext
<1> QED
  BY <1>1, <1>2, PTL DEF ListsSpec

(***************************************************************************)
(* Whatever is done with the lists of elist.h, in whatever order and with  *)
(* however many heads and entries, each of them holds what it should.      *)
(***************************************************************************)
THEOREM ListsHold == ListsSpec => []ListsKeepOrder
<1>1. ListsInv => ListsKeepOrder
  <2> SUFFICES ASSUME ListsInv PROVE ListsKeepOrder
    OBVIOUS
  <2>1. ASSUME NEW l \in Heads PROVE Holds(heap, l, held[l]) /\ (list_empty(heap, l) <=> held[l] = <<>>)
    BY EmptyIs DEF ListsInv, Kept
  <2>2. ASSUME NEW x \in Entry, ~Linked(x) PROVE heap.next[x] \in {Nil, x} /\ heap.prev[x] \in {Nil, x}
    BY <2>2 DEF ListsInv, Linked, On, Loose
  <2> QED
    BY <2>1, <2>2 DEF ListsKeepOrder
<1> QED
  BY <1>1, ListsInvariant, PTL
-----------------------------------------------------------------------------
(* Hashes and targets. *)

\* v counts the bytes w, the highest first.
Counts(v, w) ==
    /\ v \in [0 .. Len(w) -> Nat] /\ v[0] = 0
    /\ \A n \in 1 .. Len(w) : v[n] = Base * Base * v[n - 1] + w[Len(w) + 1 - n]

\* The recursion of WordValue has a solution, and it is unique in what counts.
LEMMA ValueIs ==
    ASSUME NEW w \in Seq(Cod!Byte)
    PROVE  \E v : Counts(v, w) /\ Cod!WordValue(w) = v[Len(w)]
<1> DEFINE len == Len(w)
<1> SUFFICES ASSUME NEW W, W = Base * Base
             PROVE  \E v : Counts(v, w) /\ Cod!WordValue(w) = v[len]
  OBVIOUS
<1>1. W \in Nat /\ len \in Nat /\ \A n \in 1 .. len : w[n] \in Nat
  <2>1. W \in Nat
    BY BaseIs, Product
  <2> QED
    BY <2>1 DEF Cod!Byte
<1> DEFINE F == [p \in Nat \X Nat |-> IF p[1] < len THEN W * p[2] + w[len - p[1]] ELSE 0]
<1>2. F \in [Nat \X Nat -> Nat]
  <2>1. ASSUME NEW p \in Nat \X Nat
        PROVE  (IF p[1] < len THEN W * p[2] + w[len - p[1]] ELSE 0) \in Nat
    <3>1. p[1] \in Nat /\ p[2] \in Nat /\ W * p[2] \in Nat
      BY <1>1, Product
    <3>2. CASE p[1] < len
      <4>1. len - p[1] \in 1 .. len
        BY <3>1, <3>2, <1>1
      <4> QED
        BY <3>1, <3>2, <4>1, <1>1
    <3>3. CASE ~(p[1] < len)
      BY <3>3
    <3> QED
      BY <3>2, <3>3
  <2> QED
    BY <2>1
<1>3. PICK g : Runs(g, Nat, 0, F)
  <2> HIDE DEF F
  <2> QED
    BY <1>2, Iterates
<1>4. /\ g \in [Nat -> Nat] /\ g[0] = 0
      /\ \A n \in Nat : n < len => g[n + 1] = W * g[n] + w[len - n]
  <2>1. g \in [Nat -> Nat] /\ g[0] = 0 /\ \A n \in Nat : g[n + 1] = F[<<n, g[n]>>]
    BY <1>3 DEF Runs
  <2> QED
    BY <2>1
<1> HIDE DEF F
<1> DEFINE step(f) == [n \in 0 .. len |-> IF n = 0 THEN 0 ELSE W * f[n - 1] + w[len + 1 - n]]
           table == [n \in 0 .. len |-> g[n]]
           upper == CHOOSE f : f = step(f)
<1>5. table = step(table)
  <2>1. ASSUME NEW n \in 0 .. len
        PROVE  table[n] = IF n = 0 THEN 0 ELSE W * table[n - 1] + w[len + 1 - n]
    <3>1. CASE n = 0
      BY <3>1, <1>4
    <3>2. CASE n # 0
      <4>1. n - 1 \in Nat /\ n - 1 \in 0 .. len /\ n - 1 < len /\ (n - 1) + 1 = n
            /\ len - (n - 1) = len + 1 - n
        BY <3>2, <1>1
      <4>2. g[n] = W * g[n - 1] + w[len + 1 - n]
        BY <4>1, <1>4
      <4> QED
        BY <3>2, <4>1, <4>2
    <3> QED
      BY <3>1, <3>2
  <2> QED
    BY <2>1
<1>6. upper = step(upper)
  <2> HIDE DEF table, step
  <2> QED
    BY <1>5
<1>7. Cod!WordValue(w) = upper[len]
  BY DEF Cod!WordValue
<1> HIDE DEF upper
<1>8. /\ 0 \in 0 .. len /\ upper[0] = 0
      /\ \A n \in 1 .. len : upper[n] = W * upper[n - 1] + w[len + 1 - n]
  <2>1. \A n \in 0 .. len : upper[n] = IF n = 0 THEN 0 ELSE W * upper[n - 1] + w[len + 1 - n]
    BY <1>6
  <2>2. 0 \in 0 .. len /\ \A n \in 1 .. len : n \in 0 .. len /\ n # 0
    BY <1>1
  <2> QED
    BY <2>1, <2>2
<1>9. \A n \in 0 .. len : upper[n] \in Nat
  <2> DEFINE S == {n \in Nat : n <= len => upper[n] \in Nat}
  <2>1. 0 \in S
    BY <1>8
  <2>2. ASSUME NEW n \in Nat, n \in S PROVE n + 1 \in S
    <3> SUFFICES ASSUME n + 1 <= len PROVE upper[n + 1] \in Nat
      OBVIOUS
    <3>1. n + 1 \in 1 .. len /\ (n + 1) - 1 = n /\ len + 1 - (n + 1) \in 1 .. len
      BY <1>1
    <3>2. upper[n] \in Nat
      BY <2>2, <3>1
    <3>3. upper[n + 1] = W * upper[n] + w[len + 1 - (n + 1)]
      BY <3>1, <1>8
    <3>4. W * upper[n] \in Nat
      BY <3>2, <1>1, Product
    <3> QED
      BY <3>1, <3>3, <3>4, <1>1
  <2>3. \A n \in Nat : n \in S
    <3> HIDE DEF S
    <3> QED
      BY <2>1, <2>2, Induction
  <2> QED
    BY <2>3, <1>1
<1>10. upper \in [0 .. len -> Nat]
  BY <1>6, <1>9
<1>11. Counts(upper, w)
  BY <1>8, <1>10 DEF Counts
<1> QED
  BY <1>7, <1>11

LEMMA Dominates ==
    ASSUME NEW W \in Nat, NEW x \in Nat, NEW y \in Nat, NEW a \in Nat, NEW b \in Nat, x < y, a < W
    PROVE  W * x + a < W * y + b
<1> SUFFICES ASSUME NEW X, X = W * x, NEW Y, Y = W * y PROVE X + a < Y + b
  OBVIOUS
<1>1. X \in Nat /\ Y \in Nat /\ X + W <= Y
  BY Product, Multiples
<1> QED
  BY <1>1

\* Equal bytes count the same, and the highest that differ decide.
LEMMA HighestDecide ==
    ASSUME NEW a \in Seq(Cod!Byte), NEW b \in Seq(Cod!Byte), Len(a) = Len(b), NEW p \in 1 .. Len(a),
           \A i \in p + 1 .. Len(a) : a[i] = b[i], a[p] < b[p]
    PROVE  Cod!WordValue(a) < Cod!WordValue(b)
<1> SUFFICES ASSUME NEW len \in Nat, len = Len(a), len = Len(b), NEW W, W = Base * Base
             PROVE  Cod!WordValue(a) < Cod!WordValue(b)
  OBVIOUS
<1>1. PICK x : Counts(x, a) /\ Cod!WordValue(a) = x[len]
  BY ValueIs
<1>2. PICK y : Counts(y, b) /\ Cod!WordValue(b) = y[len]
  BY ValueIs
<1>3. /\ W \in Nat /\ p \in 1 .. len
      /\ \A n \in 1 .. len : a[n] \in Nat /\ a[n] < W /\ b[n] \in Nat
  <2>1. W \in Nat
    BY BaseIs, Product
  <2>2. Cod!Byte = 0 .. W - 1
    BY DEF Cod!Byte
  <2>3. \A n \in 1 .. len : a[n] \in Cod!Byte /\ b[n] \in Cod!Byte
    OBVIOUS
  <2> QED
    BY <2>1, <2>2, <2>3
<1>0. p \in Nat /\ 1 <= p /\ p <= len
  OBVIOUS
<1>4. /\ x \in [0 .. len -> Nat] /\ x[0] = 0 /\ y \in [0 .. len -> Nat] /\ y[0] = 0
      /\ \A n \in 1 .. len : /\ x[n] = W * x[n - 1] + a[len + 1 - n]
                             /\ y[n] = W * y[n - 1] + b[len + 1 - n]
  BY <1>1, <1>2 DEF Counts
<1> DEFINE top == len + 1 - p
           S == {n \in Nat : n < top => x[n] = y[n]}
           T == {n \in Nat : top <= n /\ n <= len => x[n] < y[n]}
<1>5. 0 \in S
  BY <1>4
<1>6. ASSUME NEW n \in Nat, n \in S PROVE n + 1 \in S
  <2> SUFFICES ASSUME n + 1 < top PROVE x[n + 1] = y[n + 1]
    OBVIOUS
  <2>1. n + 1 \in 1 .. len /\ (n + 1) - 1 = n /\ len + 1 - (n + 1) \in p + 1 .. len
    BY <1>3
  <2>2. x[n] = y[n]
    BY <1>6, <1>3
  <2>3. a[len + 1 - (n + 1)] = b[len + 1 - (n + 1)]
    BY <2>1
  <2> QED
    BY <2>1, <2>2, <2>3, <1>4
<1>7. \A n \in Nat : n \in S
  <2> HIDE DEF S
  <2> QED
    BY <1>5, <1>6, Induction
<1>8. x[top] < y[top]
  <2>1. top \in 1 .. len /\ top - 1 \in Nat /\ top - 1 < top /\ len + 1 - top = p
        /\ top - 1 \in 0 .. len
    BY <1>3
  <2>2. x[top - 1] = y[top - 1]
    BY <2>1, <1>7
  <2> HIDE DEF top, S, T
  <2>3. x[top] = W * x[top - 1] + a[p] /\ y[top] = W * y[top - 1] + b[p]
    BY <2>1, <1>4
  <2>4. W * x[top - 1] \in Nat
    BY <2>1, <1>3, <1>4, Product
  <2> QED
    BY <2>2, <2>3, <2>4, <1>3
<1>9. 0 \in T
  BY <1>3
<1>10. ASSUME NEW n \in Nat, n \in T PROVE n + 1 \in T
  <2> SUFFICES ASSUME top <= n + 1, n + 1 <= len PROVE x[n + 1] < y[n + 1]
    OBVIOUS
  <2>1. CASE n + 1 = top
    BY <2>1, <1>8
  <2>2. CASE n + 1 # top
    <3> SUFFICES ASSUME NEW k, k = len + 1 - (n + 1) PROVE x[n + 1] < y[n + 1]
      OBVIOUS
    <3>1. n + 1 \in 1 .. len /\ (n + 1) - 1 = n /\ k \in 1 .. len /\ top <= n /\ n \in 0 .. len
      BY <2>2, <1>0
    <3>2. x[n] < y[n]
      BY <3>1, <1>10
    <3>3. x[n] \in Nat /\ y[n] \in Nat
      BY <3>1, <1>4
    <3>4. x[n + 1] = W * x[n] + a[k] /\ y[n + 1] = W * y[n] + b[k]
      BY <3>1, <1>4
    <3>5. a[k] \in Nat /\ b[k] \in Nat /\ a[k] < W
      BY <3>1, <1>3
    <3>6. W * x[n] + a[k] < W * y[n] + b[k]
      BY <3>2, <3>3, <3>5, <1>3, Dominates
    <3> QED
      BY <3>4, <3>6
  <2> QED
    BY <2>1, <2>2
<1>11. \A n \in Nat : n \in T
  <2> HIDE DEF T
  <2> QED
    BY <1>9, <1>10, Induction
<1>12. x[len] < y[len]
  BY <1>3, <1>11
<1> QED
  BY <1>1, <1>2, <1>12

Span == HashWords * WordBytes

\* Where the word begins that is compared as the i-th: the last one is the first.
Start(i) == (HashWords - i) * WordBytes
WordAt(bytes, i) == [j \in 1 .. WordBytes |-> bytes[Start(i) + j]]

Divided(a, b, q, m) == q \in Nat /\ m \in 0 .. b - 1 /\ a = b * q + m

LEMMA Quotient ==
    ASSUME NEW a \in Nat, NEW b \in Nat, b > 0
    PROVE  Divided(a, b, a \div b, a % b)
<1> SUFFICES ASSUME NEW q, q = a \div b, NEW m, m = a % b PROVE Divided(a, b, q, m)
  OBVIOUS
<1> QED
  BY Division DEF Divided

LEMMA Indexed ==
    ASSUME NEW S, NEW s \in Seq(S)
    PROVE  s = [i \in 1 .. Len(s) |-> s[i]]
OBVIOUS

LEMMA Starts ==
    /\ HashWords \in Nat \ {0} /\ WordBytes \in Nat \ {0} /\ Span \in Nat
    /\ \A i \in 1 .. HashWords : Start(i) \in Nat /\ Start(i) + WordBytes <= Span
    /\ \A i, k \in 1 .. HashWords : i < k => Start(k) + WordBytes <= Start(i)
    /\ \A p \in 1 .. Span : \E k \in 1 .. HashWords : p - Start(k) \in 1 .. WordBytes
<1>1. HashWords \in Nat \ {0} /\ WordBytes \in Nat \ {0}
  BY BasesAssumption
<1> SUFFICES ASSUME NEW N \in Nat \ {0}, N = HashWords, NEW B \in Nat \ {0}, B = WordBytes
             PROVE  /\ Span \in Nat
                    /\ \A i \in 1 .. N : Start(i) \in Nat /\ Start(i) + B <= Span
                    /\ \A i, k \in 1 .. N : i < k => Start(k) + B <= Start(i)
                    /\ \A p \in 1 .. Span : \E k \in 1 .. N : p - Start(k) \in 1 .. B
  BY <1>1
<1>2. Span = B * N /\ \A i \in 1 .. N : Start(i) = B * (N - i) /\ N - i \in Nat
  <2>1. Span = B * N
    BY Product DEF Span
  <2>2. ASSUME NEW i \in 1 .. N PROVE Start(i) = B * (N - i) /\ N - i \in Nat
    <3>1. N - i \in Nat
      OBVIOUS
    <3> QED
      BY <3>1, Product DEF Start
  <2> QED
    BY <2>1, <2>2
<1>3. Span \in Nat
  BY <1>2, Product
<1>4. ASSUME NEW i \in 1 .. N PROVE Start(i) \in Nat /\ Start(i) + B <= Span
  <2>1. N - i \in Nat /\ N - i < N
    OBVIOUS
  <2> QED
    BY <2>1, <1>2, Product, Multiples
<1>5. ASSUME NEW i \in 1 .. N, NEW k \in 1 .. N, i < k PROVE Start(k) + B <= Start(i)
  <2>1. N - i \in Nat /\ N - k \in Nat /\ N - k < N - i
    BY <1>5
  <2> QED
    BY <2>1, <1>2, Multiples
<1>6. ASSUME NEW p \in 1 .. Span PROVE \E k \in 1 .. N : p - Start(k) \in 1 .. B
  <2> SUFFICES ASSUME NEW a, a = p - 1, NEW q, q = a \div B, NEW m, m = a % B, NEW Q, Q = B * q
               PROVE  \E k \in 1 .. N : p - Start(k) \in 1 .. B
    OBVIOUS
  <2>1. p \in Nat /\ a \in Nat /\ p <= Span /\ B \in Nat /\ B > 0
    BY <1>3
  <2>2. q \in Nat /\ m \in 0 .. B - 1 /\ p - 1 = Q + m /\ Q \in Nat
    <3>1. q \in Nat /\ m \in 0 .. B - 1 /\ a = B * q + m
      <4>1. Divided(a, B, q, m)
        BY <2>1, Quotient
      <4> QED
        BY <4>1 DEF Divided
    <3> QED
      BY <3>1, <2>1, Product
  <2>3. q < N
    <3>1. q = N => Q = Span
      BY <1>2
    <3>2. N < q => Span + B <= Q
      BY <2>2, <1>2, Multiples
    <3> QED
      BY <3>1, <3>2, <2>1, <2>2, <1>3
  <2>4. N - q \in 1 .. N /\ N - (N - q) = q
    BY <2>2, <2>3
  <2>5. Start(N - q) = Q
    BY <2>4, <1>2
  <2>6. p - Start(N - q) = m + 1
    BY <2>1, <2>2, <2>5
  <2> QED
    BY <2>2, <2>4, <2>6
<1> QED
  BY <1>3, <1>4, <1>5, <1>6

\* swap256 begins with the last word.
LEMMA WordsAre ==
    ASSUME NEW bytes \in Seq(Cod!Byte), Len(bytes) = Span, NEW w, w = Cod!swap256(Cod!Words(bytes))
    PROVE  DOMAIN w = 1 .. HashWords /\ \A i \in 1 .. HashWords : w[i] = WordAt(bytes, i)
<1>1. HashWords \in Nat \ {0} /\ WordBytes \in Nat \ {0} /\ Span \in Nat
  BY Starts
<1>2. Len(bytes) \div WordBytes = HashWords
  <2> SUFFICES ASSUME NEW q, q = Len(bytes) \div WordBytes, NEW m, m = Len(bytes) % WordBytes
               PROVE  q = HashWords
    OBVIOUS
  <2>0. Span \in Nat /\ WordBytes \in Nat /\ WordBytes > 0 /\ Len(bytes) \in Nat
    BY <1>1
  <2>1. q \in Nat /\ m \in 0 .. WordBytes - 1 /\ Span = WordBytes * q + m
    <3>1. q \in Nat /\ m \in 0 .. WordBytes - 1 /\ Len(bytes) = WordBytes * q + m
      <4>1. Divided(Len(bytes), WordBytes, q, m)
        BY <2>0, Quotient
      <4> QED
        BY <4>1 DEF Divided
    <3> QED
      BY <3>1, Zenon
  <2>2. Span = WordBytes * HashWords + 0
    BY <1>1, Product DEF Span
  <2>3. m \in Nat /\ m < WordBytes /\ 0 < WordBytes
    BY <2>1, <1>1
  <2> QED
    BY <2>1, <2>2, <2>3, <1>1, Unique
<1> DEFINE words == Cod!Words(bytes)
<1>3. words = [i \in 1 .. HashWords |-> SubSeq(bytes, (i - 1) * WordBytes + 1, i * WordBytes)]
  BY <1>2 DEF Cod!Words
<1>4. DOMAIN words = 1 .. HashWords /\ Len(words) = HashWords
  BY <1>1, <1>3
<1> HIDE DEF words
<1>5. w = [i \in 1 .. HashWords |-> words[(HashWords - i) + 1]]
  BY <1>4 DEF Cod!swap256, Cod!Reverse, words
<1>6. ASSUME NEW i \in 1 .. HashWords PROVE w[i] = WordAt(bytes, i)
  <2> SUFFICES ASSUME NEW k, k = (HashWords - i) + 1, NEW a, a = Start(i), NEW b, b = k * WordBytes
               PROVE  w[i] = WordAt(bytes, i)
    OBVIOUS
  <2>1. k \in 1 .. HashWords /\ k - 1 = HashWords - i
    BY <1>1
  <2>2. (k - 1) * WordBytes = a
    BY <2>1 DEF Start
  <2>3. b = a + WordBytes
    <3>1. k - 1 \in Nat /\ k \in Nat
      BY <2>1
    <3>2. k * WordBytes = (k - 1) * WordBytes + WordBytes
      BY <3>1, <1>1
    <3> QED
      BY <2>2, <3>2
  <2>4. a \in Nat /\ b <= Span
    BY <2>3, Starts
  <2>5. w[i] = SubSeq(bytes, a + 1, b)
    BY <1>3, <1>5, <2>1, <2>2
  <2>6. SubSeq(bytes, a + 1, b) = [j \in 1 .. WordBytes |-> bytes[a + j]]
    <3>1. Len(SubSeq(bytes, a + 1, b)) = WordBytes /\ SubSeq(bytes, a + 1, b) \in Seq(Cod!Byte)
          /\ \A j \in 1 .. WordBytes : SubSeq(bytes, a + 1, b)[j] = bytes[a + j]
      BY <2>3, <2>4, <1>1
    <3> SUFFICES ASSUME NEW s, s = SubSeq(bytes, a + 1, b)
                 PROVE  s = [j \in 1 .. WordBytes |-> bytes[a + j]]
      OBVIOUS
    <3>2. s = [j \in 1 .. WordBytes |-> s[j]]
      BY <3>1, Indexed, Zenon
    <3>3. \A j \in 1 .. WordBytes : s[j] = bytes[a + j]
      BY <3>1
    <3> QED
      BY <3>2, <3>3, Zenon
  <2> QED
    BY <2>5, <2>6 DEF WordAt
<1> QED
  BY <1>5, <1>6

LEMMA Inside ==
    ASSUME NEW i \in 1 .. HashWords, NEW j \in 1 .. WordBytes
    PROVE  Start(i) + j \in 1 .. Span
<1>1. Start(i) \in Nat /\ Start(i) + WordBytes <= Span /\ WordBytes \in Nat /\ Span \in Nat
  BY Starts, Zenon
<1> QED
  BY <1>1

LEMMA WordIs ==
    ASSUME NEW bytes \in Seq(Cod!Byte), Len(bytes) = Span, NEW i \in 1 .. HashWords
    PROVE  /\ WordAt(bytes, i) \in Seq(Cod!Byte) /\ Len(WordAt(bytes, i)) = WordBytes
           /\ \A j \in 1 .. WordBytes : WordAt(bytes, i)[j] = bytes[Start(i) + j]
<1>1. WordBytes \in Nat /\ \A j \in 1 .. WordBytes : Start(i) + j \in 1 .. Span
  <2>1. WordBytes \in Nat
    BY Starts
  <2> QED
    BY <2>1, Inside
<1>2. \A j \in 1 .. WordBytes : bytes[Start(i) + j] \in Cod!Byte
  BY <1>1
<1> QED
  BY <1>1, <1>2 DEF WordAt

\* The byte that comes to position p = Start(k) + j when the bytes of each word
\* are reversed.
LEMMA Mirrored ==
    ASSUME NEW k \in 1 .. HashWords, NEW j \in 1 .. WordBytes, NEW p, p = Start(k) + j
    PROVE  (2 * ((p - 1) \div WordBytes) + 1) * WordBytes + 1 - p = Start(k) + (WordBytes + 1 - j)
<1>1. HashWords \in Nat /\ WordBytes \in Nat /\ WordBytes > 0 /\ Start(k) \in Nat
  BY Starts
<1> SUFFICES ASSUME NEW a, a = p - 1, NEW q, q = a \div WordBytes, NEW m, m = a % WordBytes
             PROVE  (2 * q + 1) * WordBytes + 1 - p = Start(k) + (WordBytes + 1 - j)
  OBVIOUS
<1>2. a \in Nat /\ a = Start(k) + (j - 1)
  BY <1>1
<1>3. q \in Nat /\ m \in 0 .. WordBytes - 1 /\ a = WordBytes * q + m
  <2>1. Divided(a, WordBytes, q, m)
    BY <1>1, <1>2, Quotient
  <2> QED
    BY <2>1 DEF Divided
<1>4. HashWords - k \in Nat /\ Start(k) = WordBytes * (HashWords - k)
  <2>1. HashWords - k \in Nat
    BY <1>1
  <2> QED
    BY <2>1, <1>1, Product DEF Start
<1>5. q = HashWords - k
  <2>1. m \in Nat /\ m < WordBytes /\ j - 1 \in Nat /\ j - 1 < WordBytes
    BY <1>1, <1>3
  <2>2. WordBytes * q + m = WordBytes * (HashWords - k) + (j - 1)
    BY <1>2, <1>3, <1>4
  <2> QED
    BY <2>1, <2>2, <1>1, <1>3, <1>4, Unique
<1>6. (2 * q + 1) * WordBytes = Start(k) + Start(k) + WordBytes
  <2>1. q * WordBytes = Start(k)
    BY <1>5 DEF Start
  <2>2. (2 * q + 1) * WordBytes = q * WordBytes + q * WordBytes + WordBytes
    BY <1>1, <1>3
  <2> QED
    BY <2>1, <2>2
<1> QED
  BY <1>1, <1>6

LEMMA SwappedIs ==
    ASSUME NEW bytes \in Seq(Cod!Byte), Len(bytes) = Span
    PROVE  /\ Swabbed(bytes) \in Seq(Cod!Byte) /\ Len(Swabbed(bytes)) = Span
           /\ \A i \in 1 .. HashWords : Cod!swab32(WordAt(bytes, i)) = WordAt(Swabbed(bytes), i)
<1>1. WordBytes \in Nat /\ Span \in Nat /\ DOMAIN bytes = 1 .. Span
  BY Starts
<1>2. ASSUME NEW k \in 1 .. HashWords, NEW j \in 1 .. WordBytes
      PROVE  /\ Start(k) + j \in 1 .. Span /\ Start(k) + (WordBytes + 1 - j) \in 1 .. Span
             /\ Swabbed(bytes)[Start(k) + j] = bytes[Start(k) + (WordBytes + 1 - j)]
  <2>1. Start(k) + j \in 1 .. Span /\ Start(k) + (WordBytes + 1 - j) \in 1 .. Span
    <3>1. WordBytes + 1 - j \in 1 .. WordBytes
      BY <1>1
    <3> QED
      BY <3>1, Inside
  <2> SUFFICES ASSUME NEW p, p = Start(k) + j
               PROVE  Swabbed(bytes)[p] = bytes[Start(k) + (WordBytes + 1 - j)]
    BY <2>1
  <2>2. Swabbed(bytes)[p] = bytes[(2 * ((p - 1) \div WordBytes) + 1) * WordBytes + 1 - p]
    BY <2>1, <1>1, Zenon DEF Swabbed
  <2>3. (2 * ((p - 1) \div WordBytes) + 1) * WordBytes + 1 - p = Start(k) + (WordBytes + 1 - j)
    BY Mirrored
  <2> QED
    BY <2>2, <2>3, Zenon
<1>3. ASSUME NEW p \in 1 .. Span PROVE Swabbed(bytes)[p] \in Cod!Byte
  <2>1. PICK k \in 1 .. HashWords : p - Start(k) \in 1 .. WordBytes
    BY Starts
  <2> SUFFICES ASSUME NEW j \in 1 .. WordBytes, j = p - Start(k) PROVE Swabbed(bytes)[p] \in Cod!Byte
    BY <2>1
  <2>2. p = Start(k) + j
    BY Starts
  <2> QED
    BY <2>2, <1>2
<1>4. Swabbed(bytes) \in Seq(Cod!Byte) /\ Len(Swabbed(bytes)) = Span
  <2>1. DOMAIN Swabbed(bytes) = 1 .. Span /\ Swabbed(bytes) = [p \in 1 .. Span |-> Swabbed(bytes)[p]]
    BY <1>1, Zenon DEF Swabbed
  <2> QED
    BY <2>1, <1>1, <1>3
<1>5. ASSUME NEW i \in 1 .. HashWords PROVE Cod!swab32(WordAt(bytes, i)) = WordAt(Swabbed(bytes), i)
  <2>1. Len(WordAt(bytes, i)) = WordBytes /\ \A j \in 1 .. WordBytes : WordAt(bytes, i)[j] = bytes[Start(i) + j]
    BY WordIs
  <2>2. Cod!swab32(WordAt(bytes, i)) = [j \in 1 .. WordBytes |-> WordAt(bytes, i)[(WordBytes - j) + 1]]
    BY <2>1 DEF Cod!swab32, Cod!Reverse
  <2>3. ASSUME NEW j \in 1 .. WordBytes
        PROVE  WordAt(bytes, i)[(WordBytes - j) + 1] = Swabbed(bytes)[Start(i) + j]
    <3>1. (WordBytes - j) + 1 \in 1 .. WordBytes /\ (WordBytes - j) + 1 = WordBytes + 1 - j
      BY <1>1
    <3> QED
      BY <3>1, <2>1, <1>2
  <2> QED
    BY <2>2, <2>3 DEF WordAt
<1> QED
  BY <1>4, <1>5

\* p is the highest byte in which a and b differ, and it decides their order.
Decides(a, b, p) ==
    /\ \A i \in p + 1 .. Len(a) : a[i] = b[i]
    /\ a[p] # b[p]
    /\ a[p] < b[p] <=> Cod!WordValue(a) < Cod!WordValue(b)
    /\ Cod!WordValue(a) # Cod!WordValue(b)
    /\ Cod!WordValue(a) \in Nat /\ Cod!WordValue(b) \in Nat

\* Words that count the same have the same bytes.
LEMMA WordsDiffer ==
    ASSUME NEW a \in Seq(Cod!Byte), NEW b \in Seq(Cod!Byte), Len(a) = Len(b),
           a # b
    PROVE  \E p \in 1 .. Len(a) : Decides(a, b, p)
<1> DEFINE len == Len(a)
<1>1. len \in Nat
  OBVIOUS
<1>2. \E p \in 1 .. len : a[p] # b[p]
  <2> SUFFICES ASSUME \A p \in 1 .. len : a[p] = b[p] PROVE FALSE
    OBVIOUS
  <2> QED
    BY SeqEqual
<1> DEFINE S == {n \in Nat : n < len /\ a[len - n] # b[len - n]}
<1>3. PICK n \in S : \A k \in S : n <= k
  <2>1. S # {} /\ S \in SUBSET Nat
    <3>1. PICK p \in 1 .. len : a[p] # b[p]
      BY <1>2
    <3>2. len - p \in Nat /\ len - p < len /\ len - (len - p) = p
      BY <1>1
    <3> QED
      BY <3>1, <3>2
  <2> HIDE DEF S
  <2> QED
    BY <2>1, Least
<1> SUFFICES ASSUME NEW p, p = len - n
             PROVE  /\ p \in 1 .. len /\ a[p] # b[p] /\ \A i \in p + 1 .. len : a[i] = b[i]
                    /\ a[p] < b[p] <=> Cod!WordValue(a) < Cod!WordValue(b)
                    /\ Cod!WordValue(a) # Cod!WordValue(b)
                    /\ Cod!WordValue(a) \in Nat /\ Cod!WordValue(b) \in Nat
  BY DEF Decides
<1>4. p \in 1 .. len /\ a[p] # b[p]
  BY <1>1, <1>3
<1>5. ASSUME NEW i \in p + 1 .. len PROVE a[i] = b[i]
  <2>1. i \in Nat /\ len - i \in Nat /\ len - i < len /\ len - i < n /\ len - (len - i) = i
    BY <1>1, <1>3, <1>4
  <2>2. len - i \notin S
    BY <2>1, <1>3
  <2> QED
    BY <2>1, <2>2
<1>6. a[p] \in Nat /\ b[p] \in Nat
  <2>1. a[p] \in Cod!Byte /\ b[p] \in Cod!Byte
    BY <1>4
  <2>2. \A x \in Cod!Byte : x \in Nat
    BY BaseIs, Product DEF Cod!Byte
  <2> QED
    BY <2>1, <2>2, Zenon
<1>7. Cod!WordValue(a) \in Nat /\ Cod!WordValue(b) \in Nat
  <2>1. ASSUME NEW w \in Seq(Cod!Byte) PROVE Cod!WordValue(w) \in Nat
    <3>1. PICK v : Counts(v, w) /\ Cod!WordValue(w) = v[Len(w)]
      BY ValueIs
    <3> QED
      BY <3>1 DEF Counts
  <2> QED
    BY <2>1
<1> HIDE DEF S
<1>8. a[p] < b[p] => Cod!WordValue(a) < Cod!WordValue(b)
  BY <1>4, <1>5, HighestDecide
<1>9. b[p] < a[p] => Cod!WordValue(b) < Cod!WordValue(a)
  BY <1>4, <1>5, HighestDecide
<1>10. a[p] < b[p] \/ b[p] < a[p]
  BY <1>4, <1>6
<1> QED
  BY <1>4, <1>5, <1>6, <1>7, <1>8, <1>9, <1>10

\* The words decide as the whole numbers do.
LEMMA FullTest ==
    ASSUME NEW hash \in Seq(Cod!Byte), Len(hash) = Span,
           NEW target \in Seq(Cod!Byte), Len(target) = Span
    PROVE  Cod!fulltest_rc(hash, target) <=> Value256(Swabbed(hash)) <= Value256(target)
<1> SUFFICES ASSUME NEW swabbed, swabbed = Swabbed(hash)
             PROVE  Cod!fulltest_rc(hash, target) <=> Cod!WordValue(swabbed) <= Cod!WordValue(target)
  BY Zenon DEF Value256
<1> DEFINE h == Cod!swap256(Cod!Words(hash))
           t == Cod!swap256(Cod!Words(target))
           x(i) == Cod!WordValue(Cod!swab32(h[i]))
           y(i) == Cod!WordValue(t[i])
           differ == {i \in DOMAIN h : x(i) # y(i)}
           i0 == CHOOSE j \in differ : \A k \in differ : j <= k
<1>1. Cod!fulltest_rc(hash, target) <=> differ = {} \/ x(i0) < y(i0)
  BY DEF Cod!fulltest_rc
<1>2. DOMAIN h = 1 .. HashWords /\ \A i \in 1 .. HashWords : h[i] = WordAt(hash, i) /\ t[i] = WordAt(target, i)
  BY WordsAre
<1> HIDE DEF h, t
<1>3. /\ swabbed \in Seq(Cod!Byte) /\ Len(swabbed) = Span
      /\ \A i \in 1 .. HashWords : Cod!swab32(WordAt(hash, i)) = WordAt(swabbed, i)
  BY SwappedIs
<1>4. \A i \in 1 .. HashWords : x(i) = Cod!WordValue(WordAt(swabbed, i)) /\ y(i) = Cod!WordValue(WordAt(target, i))
  BY <1>2, <1>3
<1> HIDE DEF x, y
<1>5. Span \in Nat /\ WordBytes \in Nat
  BY Starts
<1>6. CASE swabbed = target
  <2>1. \A i \in 1 .. HashWords : x(i) = y(i)
    BY <1>4, <1>6
  <2>2. differ = {}
    BY <2>1, <1>2
  <2>3. Cod!WordValue(swabbed) \in Nat
    <3>1. PICK v : Counts(v, swabbed) /\ Cod!WordValue(swabbed) = v[Len(swabbed)]
      BY <1>3, ValueIs
    <3>2. Len(swabbed) \in 0 .. Len(swabbed)
      BY <1>3, <1>5
    <3> QED
      BY <3>1, <3>2 DEF Counts
  <2>4. Cod!WordValue(swabbed) <= Cod!WordValue(target)
    BY <2>3, <1>6
  <2> QED
    BY <2>2, <2>4, <1>1
<1>7. CASE swabbed # target
  <2>1. PICK p \in 1 .. Span :
            /\ \A i \in p + 1 .. Span : swabbed[i] = target[i]
            /\ swabbed[p] # target[p]
            /\ swabbed[p] < target[p] <=> Cod!WordValue(swabbed) < Cod!WordValue(target)
            /\ Cod!WordValue(swabbed) # Cod!WordValue(target)
            /\ Cod!WordValue(swabbed) \in Nat /\ Cod!WordValue(target) \in Nat
    <3>1. \E p \in 1 .. Len(swabbed) : Decides(swabbed, target, p)
      BY <1>3, <1>7, WordsDiffer
    <3>2. PICK p \in 1 .. Span : Decides(swabbed, target, p)
      BY <3>1, <1>3
    <3>3. /\ \A i \in p + 1 .. Span : swabbed[i] = target[i]
          /\ swabbed[p] # target[p]
          /\ swabbed[p] < target[p] <=> Cod!WordValue(swabbed) < Cod!WordValue(target)
          /\ Cod!WordValue(swabbed) # Cod!WordValue(target)
          /\ Cod!WordValue(swabbed) \in Nat /\ Cod!WordValue(target) \in Nat
      BY <3>2, <1>3 DEF Decides
    <3> QED
      BY <3>3
  <2>2. PICK k \in 1 .. HashWords : p - Start(k) \in 1 .. WordBytes
    BY Starts
  <2> SUFFICES ASSUME NEW j \in 1 .. WordBytes, j = p - Start(k)
               PROVE  Cod!fulltest_rc(hash, target) <=> Cod!WordValue(swabbed) <= Cod!WordValue(target)
    BY <2>2
  <2>3. Start(k) \in Nat /\ p = Start(k) + j
    BY Starts
  <2> DEFINE a == WordAt(swabbed, k)
             b == WordAt(target, k)
  <2>4. /\ a \in Seq(Cod!Byte) /\ Len(a) = WordBytes /\ \A i \in 1 .. WordBytes : a[i] = swabbed[Start(k) + i]
        /\ b \in Seq(Cod!Byte) /\ Len(b) = WordBytes /\ \A i \in 1 .. WordBytes : b[i] = target[Start(k) + i]
    BY <1>3, WordIs
  <2>5. a[j] = swabbed[p] /\ b[j] = target[p]
    BY <2>3, <2>4
  <2>6. \A i \in j + 1 .. WordBytes : a[i] = b[i]
    <3> SUFFICES ASSUME NEW i \in j + 1 .. WordBytes PROVE a[i] = b[i]
      OBVIOUS
    <3>1. i \in 1 .. WordBytes
      BY <1>5
    <3>2. Start(k) + i \in 1 .. Span /\ Start(k) + i \in p + 1 .. Span
      BY <3>1, <2>3, <1>5, Inside
    <3> QED
      BY <3>1, <3>2, <2>1, <2>4
  <2>7. a[j] \in Nat /\ b[j] \in Nat
    <3>1. a[j] \in Cod!Byte /\ b[j] \in Cod!Byte
      BY <2>4
    <3>2. \A z \in Cod!Byte : z \in Nat
      BY BaseIs, Product DEF Cod!Byte
    <3> QED
      BY <3>1, <3>2, Zenon
  <2>8. a[j] < b[j] => Cod!WordValue(a) < Cod!WordValue(b)
    <3> HIDE DEF a, b
    <3> QED
      BY <2>4, <2>6, HighestDecide
  <2>9. b[j] < a[j] => Cod!WordValue(b) < Cod!WordValue(a)
    <3> HIDE DEF a, b
    <3> QED
      BY <2>4, <2>6, HighestDecide
  <2>10. a # b
    BY <2>1, <2>5
  <2>11. Cod!WordValue(a) # Cod!WordValue(b) /\ Cod!WordValue(a) \in Nat /\ Cod!WordValue(b) \in Nat
    <3> HIDE DEF a, b
    <3> QED
      BY <2>4, <2>10, WordsDiffer DEF Decides
  <2>12. x(k) = Cod!WordValue(a) /\ y(k) = Cod!WordValue(b)
    BY <1>4
  <2> HIDE DEF a, b
  <2>13. k \in differ
    BY <2>11, <2>12, <1>2
  <2>14. ASSUME NEW i \in differ PROVE k <= i
    <3> SUFFICES ASSUME i < k PROVE FALSE
      BY <1>2, Starts
    <3>1. i \in 1 .. HashWords /\ x(i) # y(i)
      BY <1>2
    <3>2. Start(k) + WordBytes <= Start(i) /\ Start(i) \in Nat
      BY <3>1, Starts
    <3>3. \A m \in 1 .. WordBytes : swabbed[Start(i) + m] = target[Start(i) + m]
      <4> SUFFICES ASSUME NEW m \in 1 .. WordBytes PROVE swabbed[Start(i) + m] = target[Start(i) + m]
        OBVIOUS
      <4>1. Start(i) + m \in 1 .. Span
        BY <3>1, Inside
      <4>2. Start(i) + m \in p + 1 .. Span
        BY <4>1, <3>2, <2>3, <1>5
      <4> QED
        BY <4>2, <2>1
    <3>4. WordAt(swabbed, i) = WordAt(target, i)
      BY <3>3 DEF WordAt
    <3> QED
      BY <3>1, <3>4, <1>4
  <2>15. i0 = k
    <3>1. i0 \in differ /\ \A i \in differ : i0 <= i
      <4> HIDE DEF differ
      <4> QED
        BY <2>13, <2>14
    <3>2. i0 <= k /\ k <= i0 /\ i0 \in 1 .. HashWords
      BY <3>1, <2>13, <2>14, <1>2
    <3> HIDE DEF i0
    <3> QED
      BY <3>2
  <2> HIDE DEF i0, differ
  <2>16. Cod!fulltest_rc(hash, target) <=> Cod!WordValue(a) < Cod!WordValue(b)
    BY <2>12, <2>13, <2>15, <1>1
  <2>17. Cod!WordValue(a) < Cod!WordValue(b) <=> swabbed[p] < target[p]
    BY <2>1, <2>5, <2>7, <2>8, <2>9, <2>11
  <2>18. Cod!WordValue(swabbed) < Cod!WordValue(target) <=> Cod!WordValue(swabbed) <= Cod!WordValue(target)
    BY <2>1
  <2> QED
    BY <2>1, <2>16, <2>17, <2>18
<1> QED
  BY <1>6, <1>7

(***************************************************************************)
(* fulltest (util.c:394) compares the hash with the target as the 256-bit  *)
(* numbers they are, whatever the number and size of the words.            *)
(***************************************************************************)
THEOREM TargetsExact == HelpersSpec => []TargetExact
<1>1. InputOK => TargetExact
  <2> SUFFICES ASSUME InputOK, kind = "hash", Len(input) = 2 * Span
               PROVE  Cod!fulltest_rc(SubSeq(input, 1, Span), SubSeq(input, Span + 1, 2 * Span))
                          <=> Value256(Swabbed(SubSeq(input, 1, Span)))
                                  <= Value256(SubSeq(input, Span + 1, 2 * Span))
    BY Zenon DEF TargetExact, Span
  <2>1. input \in Seq(Cod!Byte)
    <3>1. input \in Seq(Alphabet["hash"])
      BY DEF InputOK
    <3>2. Alphabet["hash"] \subseteq Cod!Byte
      BY AlphabetAssumption DEF Cod!Byte
    <3> QED
      BY <3>1, <3>2
  <2> DEFINE hash == SubSeq(input, 1, Span)
             target == SubSeq(input, Span + 1, 2 * Span)
  <2>2. Span \in Nat
    BY Starts
  <2>3. hash \in Seq(Cod!Byte) /\ Len(hash) = Span /\ target \in Seq(Cod!Byte) /\ Len(target) = Span
    BY <2>1, <2>2
  <2> HIDE DEF hash, target
  <2>4. Cod!fulltest_rc(hash, target) <=> Value256(Swabbed(hash)) <= Value256(target)
    BY <2>3, FullTest
  <2> QED
    BY <2>4 DEF hash, target
<1> QED
  BY <1>1, InputsTyped, PTL
-----------------------------------------------------------------------------
(* Options. *)

Known == Opt!WithArgument \cup Opt!Switches

LEMMA KnownIs ==
    /\ {"threads", "config", "user", "pass", "userpass"} \subseteq Opt!WithArgument
    /\ DOMAIN Opt!Limits = {"threads", "retries", "retry-pause", "scantime"}
    /\ DOMAIN Opt!Limits \subseteq Opt!WithArgument
    /\ Opt!WithArgument \cap Opt!Switches = {} /\ "help" \notin Known
    /\ \A x \in Opt!Limits["threads"] : x \in Nat /\ x > 0
    /\ Opt!Defaults = [key \in Known |-> Opt!Defaults[key]] /\ Opt!Defaults["threads"] = 0
    /\ \A key \in {"user", "pass", "userpass", "config"} : Opt!Defaults[key] = NullString
    /\ \A key \in Opt!Switches : Opt!Defaults[key] = FALSE
<1>1. Opt!WithArgument \cap Opt!Switches = {} /\ "help" \notin Known
  BY DEF Known, Opt!WithArgument, Opt!Switches
<1>2. /\ {"threads", "config", "user", "pass", "userpass"} \subseteq Opt!WithArgument
      /\ {"threads", "retries", "retry-pause", "scantime"} \subseteq Opt!WithArgument
  BY DEF Opt!WithArgument
<1>3. DOMAIN Opt!Limits = {"threads", "retries", "retry-pause", "scantime"}
  BY DEF Opt!Limits
<1>7. \A x \in Opt!Limits["threads"] : x \in Nat /\ x > 0
  BY DEF Opt!Limits
<1> DEFINE value(key) ==
        CASE key \in Opt!Switches -> FALSE
          [] key = "threads" -> 0 [] key = "retries" -> 10 [] key = "retry-pause" -> 30
          [] key = "scantime" -> 5
          [] key \in {"algo", "url"} -> "default"
          [] key \in {"user", "pass", "userpass", "config"} -> NullString
<1>4. /\ Opt!Defaults = [key \in Known |-> Opt!Defaults[key]]
      /\ \A key \in Known : Opt!Defaults[key] = value(key)
  <2>1. Opt!Defaults = [key \in Known |-> value(key)]
    BY DEF Known, Opt!Defaults
  <2> HIDE DEF Known, value
  <2> QED
    BY <2>1
<1>5. Opt!Defaults["threads"] = 0 /\ \A key \in {"user", "pass", "userpass", "config"} : Opt!Defaults[key] = NullString
  <2>1. \A key \in {"threads", "user", "pass", "userpass", "config"} : key \in Known /\ key \notin Opt!Switches
    BY <1>1, <1>2 DEF Known
  <2> QED
    BY <2>1, <1>4
<1>6. \A key \in Opt!Switches : Opt!Defaults[key] = FALSE
  <2>1. ASSUME NEW key \in Opt!Switches PROVE Opt!Defaults[key] = FALSE
    <3>1. key \in Known /\ key # "threads" /\ key # "retries" /\ key # "retry-pause" /\ key # "scantime"
          /\ key \notin {"algo", "url"} /\ key \notin {"user", "pass", "userpass", "config"}
      BY DEF Known, Opt!Switches
    <3> QED
      BY <3>1, <1>4
  <2> QED
    BY <2>1
<1> QED
  BY <1>1, <1>2, <1>3, <1>4, <1>5, <1>6, <1>7

\* What parse_arg makes of an argument, and the variable without one.
Meaning(key, arg) ==
    IF arg = NullString THEN Opt!Defaults[key]
    ELSE IF key \in DOMAIN Opt!Limits THEN atoi[arg]
    ELSE IF key \in Opt!Switches THEN TRUE
    ELSE IF key = "config" THEN File[arg] ELSE arg

\* The parameters once each option has last had the argument val gives it.
Silent(val) == \A key \in Known : val[key] = NullString
Read(val) ==
    [key \in Known |->
        IF key = "threads" /\ val[key] = NullString /\ ~Silent(val) THEN num_processors
        ELSE Meaning(key, val[key])]
State(val) == [exit |-> FALSE, opt |-> Read(val)]

Valid(val) ==
    /\ val = [key \in Known |-> val[key]]
    /\ \A key \in Known : val[key] # NullString => Opt!Takes(key, val[key])
    /\ val["config"] = NullString \/ val["config"] \in DOMAIN File

LEMMA TakenIsKnown ==
    ASSUME NEW key, NEW arg, Opt!Takes(key, arg)
    PROVE  key \in Known
<1> SUFFICES ASSUME key \notin Known PROVE FALSE
  OBVIOUS
<1>1. key \notin DOMAIN Opt!Limits /\ key \notin {"algo", "url", "userpass", "config"}
      /\ key \notin {"user", "pass"} \cup Opt!Switches
  BY KnownIs DEF Known, Opt!WithArgument
<1> QED
  BY <1>1 DEF Opt!Takes

LEMMA ArgumentRead ==
    ASSUME NEW val, Valid(val), NEW key, NEW arg, arg # NullString, Opt!Takes(key, arg),
           key = "config" => arg \in DOMAIN File, NEW val2, val2 = [val EXCEPT ![key] = arg]
    PROVE  /\ Valid(val2)
           /\ Opt!parse_arg(State(val), key, arg) = State(val2)
<1>1. key \in Known
  BY TakenIsKnown
<1>2. /\ val2 = [k \in Known |-> val2[k]] /\ val2[key] = arg
      /\ \A k \in Known : k # key => val2[k] = val[k]
  BY <1>1 DEF Valid
<1>3. Valid(val2)
  <2>1. "config" \in Known
    BY KnownIs DEF Known
  <2> QED
    BY <2>1, <1>2 DEF Valid
<1>4. Opt!parse_arg(State(val), key, arg) = Opt!Chosen(State(val), key, Meaning(key, arg))
  <2>1. State(val).exit = FALSE
    BY DEF State
  <2> QED
    BY <2>1 DEF Opt!parse_arg, Meaning
<1> DEFINE opt == [Read(val) EXCEPT ![key] = Meaning(key, arg)]
           done == [opt EXCEPT !["threads"] = IF @ = 0 THEN num_processors ELSE @]
<1>5. Opt!Chosen(State(val), key, Meaning(key, arg)) = [exit |-> FALSE, opt |-> done]
  <2>1. State(val).opt = Read(val)
    BY DEF State
  <2> QED
    BY <2>1 DEF Opt!Chosen
<1>6. "threads" \in Known /\ "threads" \in DOMAIN Opt!Limits
      /\ Opt!Defaults["threads"] = 0
  BY KnownIs DEF Known
<1>7. \A k \in Known : opt[k] = IF k = key THEN Meaning(key, arg) ELSE Read(val)[k]
  BY DEF Read
<1>8. done = [k \in Known |-> IF k # "threads" THEN opt[k] ELSE IF opt[k] = 0 THEN num_processors ELSE opt[k]]
  BY <1>6 DEF Read
<1> HIDE DEF opt, done
<1>9. ~Silent(val2)
  BY <1>1, <1>2 DEF Silent
<1>10. ASSUME NEW v, v # NullString, Opt!Takes("threads", v)
       PROVE  Meaning("threads", v) = atoi[v] /\ atoi[v] \in Nat /\ atoi[v] > 0
  <2>1. Meaning("threads", v) = atoi[v]
    BY <1>6, <1>10 DEF Meaning
  <2>2. Opt!Takes("threads", v) = (atoi[v] \in Opt!Limits["threads"])
    BY <1>6 DEF Opt!Takes
  <2>3. atoi[v] \in Nat /\ atoi[v] > 0
    BY <2>2, <1>10, KnownIs, Zenon
  <2> QED
    BY <2>1, <2>3
<1>11. ASSUME NEW k \in Known, k # "threads" PROVE opt[k] = Read(val2)[k]
  BY <1>1, <1>2, <1>7, <1>11 DEF Read
<1>12. (IF opt["threads"] = 0 THEN num_processors ELSE opt["threads"]) = Read(val2)["threads"]
  <2>1. CASE key = "threads"
    <3>1. opt["threads"] = atoi[arg] /\ atoi[arg] # 0 /\ Meaning("threads", arg) = atoi[arg]
      BY <2>1, <1>6, <1>7, <1>10
    <3>2. Read(val2)["threads"] = atoi[arg]
      BY <2>1, <3>1, <1>2, <1>6 DEF Read
    <3> QED
      BY <3>1, <3>2
  <2>2. CASE key # "threads"
    <3>1. opt["threads"] = Read(val)["threads"] /\ val2["threads"] = val["threads"]
      BY <2>2, <1>2, <1>6, <1>7
    <3>2. CASE val["threads"] = NullString
      <4>1. Read(val)["threads"] = IF Silent(val) THEN 0 ELSE num_processors
        BY <3>2, <1>6 DEF Read, Meaning
      <4>2. Read(val2)["threads"] = num_processors
        BY <3>1, <3>2, <1>6, <1>9 DEF Read
      <4> QED
        BY <3>1, <4>1, <4>2
    <3>3. CASE val["threads"] # NullString
      <4>1. Read(val)["threads"] = atoi[val["threads"]] /\ atoi[val["threads"]] # 0
        BY <3>3, <1>6, <1>10 DEF Read, Valid
      <4>2. Read(val2)["threads"] = atoi[val["threads"]]
        BY <3>1, <3>3, <1>3, <1>6, <1>10 DEF Read, Valid
      <4> QED
        BY <3>1, <4>1, <4>2
    <3> QED
      BY <3>2, <3>3
  <2> QED
    BY <2>1, <2>2
<1>13. done = Read(val2)
  <2>1. Read(val2) = [k \in Known |-> Read(val2)[k]]
    BY DEF Read
  <2>2. \A k \in Known : (IF k # "threads" THEN opt[k] ELSE IF opt[k] = 0 THEN num_processors ELSE opt[k]) = Read(val2)[k]
    BY <1>11, <1>12
  <2> QED
    BY <2>1, <2>2, <1>8
<1> QED
  BY <1>3, <1>4, <1>5, <1>13 DEF State

\* After n arguments: the last one given for each option, if all were taken.
Latest(given) ==
    IF given = {} THEN NullString ELSE input[CHOOSE i \in given : \A j \in given : i >= j][2]
Given(n) == [key \in Known |-> Latest({i \in 1 .. n : input[i][1] = key})]
Refused(n) == \E i \in 1 .. n : ~Opt!Takes(input[i][1], input[i][2])
Told(n) == IF Refused(n) THEN Opt!Usage ELSE State(Given(n))
Sound(n) == Refused(n) \/ Valid(Given(n))

LEMMA NothingTold ==
    /\ Told(0) = [exit |-> FALSE, opt |-> Opt!Defaults]
    /\ Sound(0)
<1>1. ~Refused(0)
  BY DEF Refused
<1>2. Given(0) = [key \in Known |-> NullString]
  <2>1. \A key \in Known : {i \in 1 .. 0 : input[i][1] = key} = {}
    OBVIOUS
  <2>2. Latest({}) = NullString
    BY DEF Latest
  <2> QED
    BY <2>1, <2>2, Zenon DEF Given
<1>3. Valid(Given(0)) /\ Silent(Given(0))
  <2>1. "config" \in Known
    BY KnownIs DEF Known
  <2> HIDE DEF Known
  <2> QED
    BY <2>1, <1>2 DEF Valid, Silent
<1>4. Read(Given(0)) = Opt!Defaults
  <2>1. \A key \in Known : Given(0)[key] = NullString /\ Meaning(key, Given(0)[key]) = Opt!Defaults[key]
    BY <1>2 DEF Meaning
  <2>2. Opt!Defaults = [key \in Known |-> Opt!Defaults[key]]
    BY KnownIs
  <2> HIDE DEF Known
  <2>3. Read(Given(0)) = [key \in Known |-> Opt!Defaults[key]]
    BY <2>1, <1>3 DEF Read
  <2> QED
    BY <2>2, <2>3
<1> QED
  BY <1>1, <1>3, <1>4 DEF Told, Sound, State

\* What an argument changes in Given.
LEMMA GivenNext ==
    ASSUME NEW n \in Nat, NEW k, k = n + 1
    PROVE  Given(k) = [Given(n) EXCEPT ![input[k][1]] = input[k][2]]
<1> DEFINE given(m, key) == {i \in 1 .. m : input[i][1] = key}
           last(m, key) == Latest(given(m, key))
<1>1. \A m : Given(m) = [key \in Known |-> last(m, key)]
  BY DEF Given
<1>2. ASSUME NEW key \in Known, key # input[k][1] PROVE last(k, key) = last(n, key)
  <2>1. given(k, key) = given(n, key)
    BY <1>2
  <2> HIDE DEF given
  <2> QED
    BY <2>1
<1>3. last(k, input[k][1]) = input[k][2]
  <2> DEFINE here == given(k, input[k][1])
  <2>1. k \in here /\ \A j \in here : j \in Nat /\ j <= k
    OBVIOUS
  <2> HIDE DEF here
  <2>2. (CHOOSE i \in here : \A j \in here : i >= j) = k
    <3> SUFFICES ASSUME NEW c, c = CHOOSE i \in here : \A j \in here : i >= j PROVE c = k
      OBVIOUS
    <3>1. \E i \in here : \A j \in here : i >= j
      BY <2>1
    <3>2. c \in here /\ \A j \in here : c >= j
      BY <3>1
    <3> QED
      BY <3>2, <2>1
  <2>3. last(k, input[k][1]) = input[CHOOSE i \in here : \A j \in here : i >= j][2]
    BY <2>1, Zenon DEF here, Latest
  <2> QED
    BY <2>2, <2>3
<1> HIDE DEF last
<1> QED
  BY <1>1, <1>2, <1>3

LEMMA ToldNext ==
    ASSUME InputOK, kind = "options", NEW n \in Nat, NEW k, k = n + 1, k <= Len(input), Sound(n)
    PROVE  /\ Sound(k)
           /\ Told(k) = Opt!parse_arg(Told(n), input[k][1], input[k][2])
<1> DEFINE key == input[k][1]
           arg == input[k][2]
<1>1. k \in 1 .. k /\ \A i \in 1 .. k : i = k \/ i \in 1 .. n
  OBVIOUS
<1>2. \A i \in 1 .. n : i \in 1 .. k
  OBVIOUS
<1>3. Refused(k) <=> Refused(n) \/ ~Opt!Takes(key, arg)
  BY <1>1, <1>2, Zenon DEF Refused
<1>4. CASE Refused(n)
  <2>1. Told(n) = Opt!Usage /\ Told(k) = Opt!Usage /\ Sound(k)
    BY <1>3, <1>4 DEF Told, Sound
  <2>2. Opt!parse_arg(Opt!Usage, key, arg) = Opt!Usage
    BY DEF Opt!parse_arg, Opt!Usage
  <2> QED
    BY <2>1, <2>2
<1>5. CASE ~Refused(n) /\ ~Opt!Takes(key, arg)
  <2>1. Told(k) = Opt!Usage /\ Sound(k)
    BY <1>3, <1>5 DEF Told, Sound
  <2>2. Opt!parse_arg(Told(n), key, arg) = Opt!Usage
    BY <1>5 DEF Opt!parse_arg
  <2> QED
    BY <2>1, <2>2
<1>6. CASE ~Refused(n) /\ Opt!Takes(key, arg)
  <2>1. Valid(Given(n)) /\ Told(n) = State(Given(n))
    BY <1>6 DEF Sound, Told
  <2>2. arg # NullString /\ (key = "config" => arg \in DOMAIN File)
    <3>1. input[k] \in Alphabet["options"]
      BY DEF InputOK
    <3> QED
      BY <3>1, StringsAssumption
  <2>3. Given(k) = [Given(n) EXCEPT ![key] = arg]
    BY GivenNext
  <2> HIDE DEF key, arg
  <2>4. Valid(Given(k)) /\ Opt!parse_arg(State(Given(n)), key, arg) = State(Given(k))
    BY <2>1, <2>2, <2>3, <1>6, ArgumentRead
  <2> QED
    BY <2>1, <2>4, <1>3, <1>6 DEF Sound, Told, key, arg
<1> QED
  BY <1>4, <1>5, <1>6

LEMMA CommandLine ==
    ASSUME InputOK, kind = "options"
    PROVE  /\ Sound(Len(input))
           /\ Opt!parse_cmdline(input) = Opt!parse_config(Told(Len(input)))
<1> DEFINE len == Len(input)
           step(f) == [n \in 0 .. len |->
                          IF n = 0 THEN [exit |-> FALSE, opt |-> Opt!Defaults]
                          ELSE Opt!parse_arg(f[n - 1], input[n][1], input[n][2])]
           table == [n \in 0 .. len |-> Told(n)]
           parsed == CHOOSE f : f = step(f)
           S == {n \in Nat : n <= len => Sound(n)}
<1>1. len \in Nat
  BY DEF InputOK
<1>2. \A n \in 0 .. len : Sound(n)
  <2>1. 0 \in S
    BY NothingTold
  <2>2. ASSUME NEW n \in Nat, n \in S PROVE n + 1 \in S
    BY <2>2, <1>1, ToldNext
  <2> HIDE DEF S
  <2>3. \A n \in Nat : n \in S
    BY <2>1, <2>2, Induction
  <2> QED
    BY <2>3, <1>1 DEF S
<1>3. ASSUME NEW n \in 1 .. len
      PROVE  n - 1 \in 0 .. len /\ Told(n) = Opt!parse_arg(Told(n - 1), input[n][1], input[n][2])
  <2>1. n - 1 \in Nat /\ n = (n - 1) + 1 /\ n - 1 \in 0 .. len /\ n <= Len(input)
    BY <1>1
  <2>2. Sound(n - 1)
    BY <2>1, <1>2
  <2> QED
    BY <2>1, <2>2, ToldNext
<1>4. table = step(table)
  <2>1. ASSUME NEW n \in 0 .. len
        PROVE  Told(n) = IF n = 0 THEN [exit |-> FALSE, opt |-> Opt!Defaults]
                         ELSE Opt!parse_arg(table[n - 1], input[n][1], input[n][2])
    <3>1. CASE n = 0
      BY <3>1, NothingTold
    <3>2. CASE n # 0
      <4>1. n \in 1 .. len
        BY <3>2, <1>1
      <4>2. table[n - 1] = Told(n - 1)
        BY <4>1, <1>3
      <4> QED
        BY <3>2, <4>1, <4>2, <1>3
    <3> QED
      BY <3>1, <3>2
  <2> QED
    BY <2>1
<1>5. parsed = step(parsed)
  <2> HIDE DEF table, step
  <2> QED
    BY <1>4
<1>6. Opt!parse_cmdline(input) = Opt!parse_config(parsed[len])
  BY DEF Opt!parse_cmdline
<1> HIDE DEF parsed, table, S
<1>7. \A n \in Nat : n <= len => parsed[n] = Told(n)
  <2> DEFINE T == {n \in Nat : n <= len => parsed[n] = Told(n)}
  <2>1. 0 \in T
    BY <1>1, <1>5, NothingTold
  <2>2. ASSUME NEW n \in Nat, n \in T PROVE n + 1 \in T
    <3> SUFFICES ASSUME n + 1 <= len PROVE parsed[n + 1] = Told(n + 1)
      OBVIOUS
    <3>1. n + 1 \in 0 .. len /\ n + 1 \in 1 .. len /\ n + 1 # 0 /\ (n + 1) - 1 = n
      BY <1>1
    <3>2. parsed[n + 1] = Opt!parse_arg(parsed[n], input[n + 1][1], input[n + 1][2])
      BY <3>1, <1>5
    <3>3. parsed[n] = Told(n)
      BY <2>2, <1>1
    <3> QED
      BY <3>1, <3>2, <3>3, <1>3
  <2> HIDE DEF T
  <2>3. \A n \in Nat : n \in T
    BY <2>1, <2>2, Induction
  <2> QED
    BY <2>3 DEF T
<1>8. parsed[len] = Told(len)
  BY <1>1, <1>7
<1> QED
  BY <1>1, <1>2, <1>6, <1>8

-----------------------------------------------------------------------------
(* The configuration file. *)

LEMMA OptionsAre ==
    /\ Len(Opt!options) \in Nat
    /\ \A i \in 1 .. Len(Opt!options) : Opt!options[i] \in Known \cup {"help"}
    /\ \A key \in Known \cup {"help"} : \E i \in 1 .. Len(Opt!options) : Opt!options[i] = key
<1>1. Len(Opt!options) = 16
  BY DEF Opt!options
<1>2. \A i \in 1 .. 16 : Opt!options[i] \in Known \cup {"help"}
  BY DEF Opt!options, Known, Opt!WithArgument, Opt!Switches
<1>3. \A key \in Known \cup {"help"} : \E i \in 1 .. 16 : Opt!options[i] = key
  BY DEF Opt!options, Known, Opt!WithArgument, Opt!Switches
<1> QED
  BY <1>1, <1>2, <1>3

\* After n options of the file: the arguments that count, if all were taken.
Settled(n) ==
    [key \in Known |->
        IF (\E i \in 1 .. n : Opt!options[i] = key) /\ Configured(key) # NullString
        THEN Configured(key) ELSE Given(Len(input))[key]]
Objected(n) ==
    \E i \in 1 .. n : /\ Configured(Opt!options[i]) # NullString
                      /\ ~Opt!Takes(Opt!options[i], Configured(Opt!options[i]))
Agreed(n) == IF Objected(n) THEN Opt!Usage ELSE State(Settled(n))
Lawful(n) == Objected(n) \/ Valid(Settled(n))

LEMMA LastGivenIs ==
    ASSUME InputOK, kind = "options", NEW key \in Known
    PROVE  LastGiven(key) = Given(Len(input))[key]
<1>1. DOMAIN input = 1 .. Len(input)
  BY DEF InputOK
<1>2. LastGiven(key) = Latest({i \in DOMAIN input : input[i][1] = key})
  BY Zenon DEF LastGiven, Latest
<1>3. Given(Len(input))[key] = Latest({i \in 1 .. Len(input) : input[i][1] = key})
  BY DEF Given
<1> QED
  BY <1>1, <1>2, <1>3, Zenon

\* The file the command line names is an object.
LEMMA FileIs ==
    ASSUME InputOK, kind = "options", Valid(Given(Len(input))),
           NEW file, file = Given(Len(input))["config"]
    PROVE  /\ LastGiven("config") = file
           /\ Read(Given(Len(input)))["config"] = IF file = NullString THEN NullString ELSE File[file]
           /\ file # NullString =>
                /\ file \in DOMAIN File /\ File[file] # NullString /\ File[file].kind = "object"
<1>1. "config" \in Known /\ "config" \notin DOMAIN Opt!Limits /\ "config" \notin Opt!Switches
      /\ Opt!Defaults["config"] = NullString
  BY KnownIs DEF Known
<1>2. LastGiven("config") = file
  BY <1>1, LastGivenIs
<1>3. Read(Given(Len(input)))["config"] = IF file = NullString THEN NullString ELSE File[file]
  BY <1>1 DEF Read, Meaning
<1>4. ASSUME file # NullString PROVE file \in DOMAIN File /\ File[file] # NullString /\ File[file].kind = "object"
  <2>1. file \in DOMAIN File /\ Opt!Takes("config", file)
    BY <1>1, <1>4 DEF Valid
  <2>2. Opt!Takes("config", file) = Opt!IsObjectFile(file)
    BY <1>1 DEF Opt!Takes
  <2>3. Opt!IsObjectFile(file)
    BY <2>1, <2>2
  <2> QED
    BY <2>1, <2>3 DEF Opt!IsObjectFile
<1> QED
  BY <1>2, <1>3, <1>4

\* An entry of the file says what Configured says.
EntryOf(member, t, key) ==
    IF t.exit \/ key = "config" \/ key \notin DOMAIN member THEN t
    ELSE Opt!ParseEntry(t, key, member[key])

LEMMA EntryIs ==
    ASSUME NEW file \in DOMAIN File, file # NullString, File[file] # NullString, File[file].kind = "object",
           LastGiven("config") = file, NEW t, NEW key
    PROVE  EntryOf(File[file].member, t, key) =
               IF t.exit \/ Configured(key) = NullString THEN t
               ELSE Opt!parse_arg(t, key, Configured(key))
<1> DEFINE member == File[file].member
<1>1. Configured(key) =
        IF key = "config" THEN NullString
        ELSE IF key \notin DOMAIN member THEN NullString
        ELSE IF key \in Opt!WithArgument /\ member[key].kind = "string" THEN member[key].text
        ELSE IF key \notin Opt!WithArgument /\ member[key].kind = "true" THEN ""
        ELSE NullString
  BY Zenon DEF Configured
<1>2. "" # NullString /\ (key \in DOMAIN member /\ member[key].kind = "string" => member[key].text # NullString)
  BY StringsAssumption
<1> QED
  BY <1>1, <1>2 DEF EntryOf, Opt!ParseEntry

LEMMA SettledNext ==
    ASSUME NEW n \in Nat, NEW k, k = n + 1, NEW key, key = Opt!options[k]
    PROVE  /\ Configured(key) = NullString => Settled(k) = Settled(n)
           /\ Configured(key) # NullString => Settled(k) = [Settled(n) EXCEPT ![key] = Configured(key)]
           /\ Objected(k) <=> \/ Objected(n)
                              \/ Configured(key) # NullString /\ ~Opt!Takes(key, Configured(key))
<1>1. k \in 1 .. k /\ (\A i \in 1 .. k : i = k \/ i \in 1 .. n) /\ \A i \in 1 .. n : i \in 1 .. k
  OBVIOUS
<1>2. \A o : (\E i \in 1 .. k : Opt!options[i] = o) <=> o = key \/ \E i \in 1 .. n : Opt!options[i] = o
  BY <1>1, Zenon
<1>3. Objected(k) <=> Objected(n) \/ (Configured(key) # NullString /\ ~Opt!Takes(key, Configured(key)))
  BY <1>1, Zenon DEF Objected
<1>4. ASSUME NEW o \in Known, o # key \/ Configured(key) = NullString PROVE Settled(k)[o] = Settled(n)[o]
  BY <1>2, <1>4 DEF Settled
<1>5. ASSUME key \in Known, Configured(key) # NullString PROVE Settled(k)[key] = Configured(key)
  BY <1>2, <1>5 DEF Settled
<1>6. \A m : Settled(m) = [o \in Known |-> Settled(m)[o]] /\ DOMAIN Settled(m) = Known
  BY DEF Settled
<1> QED
  BY <1>3, <1>4, <1>5, <1>6

LEMMA AgreedNext ==
    ASSUME InputOK, kind = "options", Valid(Given(Len(input))),
           NEW file, file = Given(Len(input))["config"], file # NullString,
           NEW n \in Nat, NEW k, k = n + 1, Lawful(n)
    PROVE  /\ Lawful(k)
           /\ Agreed(k) = EntryOf(File[file].member, Agreed(n), Opt!options[k])
<1> SUFFICES ASSUME NEW key, key = Opt!options[k], NEW c, c = Configured(key)
             PROVE  /\ Lawful(k)
                    /\ Agreed(k) = EntryOf(File[file].member, Agreed(n), key)
  OBVIOUS
<1>1. EntryOf(File[file].member, Agreed(n), key) =
          IF Agreed(n).exit \/ c = NullString THEN Agreed(n) ELSE Opt!parse_arg(Agreed(n), key, c)
  BY FileIs, EntryIs
<1>2. /\ c = NullString => Settled(k) = Settled(n)
      /\ c # NullString => Settled(k) = [Settled(n) EXCEPT ![key] = c]
      /\ Objected(k) <=> Objected(n) \/ (c # NullString /\ ~Opt!Takes(key, c))
  BY SettledNext
<1>3. CASE Objected(n)
  <2>1. Agreed(n) = Opt!Usage /\ Agreed(k) = Opt!Usage /\ Lawful(k) /\ Opt!Usage.exit = TRUE
    BY <1>2, <1>3 DEF Agreed, Lawful, Opt!Usage
  <2> QED
    BY <2>1, <1>1
<1>4. CASE ~Objected(n) /\ c = NullString
  <2>1. Lawful(k) /\ Agreed(k) = Agreed(n)
    BY <1>2, <1>4 DEF Lawful, Agreed
  <2> QED
    BY <2>1, <1>1, <1>4
<1>5. CASE ~Objected(n) /\ c # NullString
  <2>1. Agreed(n) = State(Settled(n)) /\ Valid(Settled(n)) /\ Agreed(n).exit = FALSE
    BY <1>5 DEF Agreed, Lawful, State
  <2>2. EntryOf(File[file].member, Agreed(n), key) = Opt!parse_arg(State(Settled(n)), key, c)
    BY <2>1, <1>1, <1>5
  <2>3. CASE Opt!Takes(key, c)
    <3>1. key # "config"
      BY <1>5 DEF Configured
    <3>2. Valid(Settled(k)) /\ Opt!parse_arg(State(Settled(n)), key, c) = State(Settled(k))
      BY <2>1, <2>3, <3>1, <1>2, <1>5, ArgumentRead
    <3> QED
      BY <2>2, <2>3, <3>2, <1>2, <1>5 DEF Lawful, Agreed
  <2>4. CASE ~Opt!Takes(key, c)
    <3>1. Opt!parse_arg(State(Settled(n)), key, c) = Opt!Usage
      BY <2>4 DEF Opt!parse_arg
    <3> QED
      BY <2>2, <2>4, <3>1, <1>2, <1>5 DEF Lawful, Agreed
  <2> QED
    BY <2>3, <2>4
<1> QED
  BY <1>3, <1>4, <1>5

Final == [key \in Known |-> Effective(key)]
Wrong ==
    \/ \E i \in DOMAIN input : ~Opt!Takes(input[i][1], input[i][2])
    \/ \E key \in Known \cup {"help"} : Configured(key) # NullString /\ ~Opt!Takes(key, Configured(key))

LEMMA NothingAgreed ==
    ASSUME Valid(Given(Len(input)))
    PROVE  Lawful(0) /\ Agreed(0) = State(Given(Len(input)))
<1>1. ~\E i \in 1 .. 0 : TRUE
  OBVIOUS
<1>2. ~Objected(0)
  BY <1>1 DEF Objected
<1>3. Settled(0) = [key \in Known |-> Given(Len(input))[key]]
  BY <1>1, Zenon DEF Settled
<1>4. Settled(0) = Given(Len(input))
  BY <1>3 DEF Given
<1> QED
  BY <1>2, <1>4 DEF Lawful, Agreed

LEMMA AllAgreed ==
    ASSUME InputOK, kind = "options", ~Refused(Len(input)), NEW n, n = Len(Opt!options)
    PROVE  /\ Settled(n) = Final
           /\ Objected(n) <=> Wrong
<1>1. DOMAIN input = 1 .. Len(input)
  BY DEF InputOK
<1>2. ~\E i \in DOMAIN input : ~Opt!Takes(input[i][1], input[i][2])
  BY <1>1, Zenon DEF Refused
<1>3. Objected(n) <=> \E key \in Known \cup {"help"} : Configured(key) # NullString /\ ~Opt!Takes(key, Configured(key))
  <2>1. ASSUME NEW i \in 1 .. n PROVE Opt!options[i] \in Known \cup {"help"}
    BY OptionsAre
  <2>2. ASSUME NEW key \in Known \cup {"help"} PROVE \E i \in 1 .. n : Opt!options[i] = key
    BY OptionsAre
  <2> QED
    BY <2>1, <2>2, Zenon DEF Objected
<1>4. ASSUME NEW key \in Known PROVE Settled(n)[key] = Effective(key)
  <2>1. \E i \in 1 .. n : Opt!options[i] = key
    BY OptionsAre
  <2>2. LastGiven(key) = Given(Len(input))[key]
    BY LastGivenIs
  <2> QED
    BY <2>1, <2>2, Zenon DEF Settled, Effective
<1>5. Settled(n) = [key \in Known |-> Settled(n)[key]]
  BY DEF Settled
<1> QED
  BY <1>2, <1>3, <1>4, <1>5 DEF Final, Wrong

\* Without a file the command line alone counts.
LEMMA NoFile ==
    ASSUME InputOK, kind = "options", ~Refused(Len(input)), Valid(Given(Len(input))),
           Given(Len(input))["config"] = NullString
    PROVE  ~Wrong /\ Final = Given(Len(input))
<1>1. LastGiven("config") = NullString
  BY FileIs
<1>2. \A key : Configured(key) = NullString
  BY <1>1, Zenon DEF Configured
<1>3. DOMAIN input = 1 .. Len(input)
  BY DEF InputOK
<1>4. ~Wrong
  BY <1>2, <1>3, Zenon DEF Wrong, Refused
<1>5. \A key \in Known : Effective(key) = Given(Len(input))[key]
  BY <1>2, LastGivenIs, Zenon DEF Effective
<1> QED
  BY <1>4, <1>5 DEF Final, Given

LEMMA FileRead ==
    ASSUME InputOK, kind = "options", ~Refused(Len(input)), Valid(Given(Len(input))),
           NEW file, file = Given(Len(input))["config"], file # NullString
    PROVE  /\ Wrong \/ Valid(Final)
           /\ Opt!parse_config(State(Given(Len(input)))) = IF Wrong THEN Opt!Usage ELSE State(Final)
<1> DEFINE len == Len(Opt!options)
           s == State(Given(Len(input)))
           step(f) == [n \in 0 .. len |-> IF n = 0 THEN s ELSE EntryOf(File[file].member, f[n - 1], Opt!options[n])]
           table == [n \in 0 .. len |-> Agreed(n)]
           parsed == CHOOSE f : f = step(f)
           S == {n \in Nat : Lawful(n)}
<1>1. len \in Nat
  BY OptionsAre
<1>2. Agreed(0) = s /\ Lawful(0)
  BY NothingAgreed
<1>3. \A n \in Nat : Lawful(n)
  <2>1. 0 \in S
    BY <1>2
  <2>2. ASSUME NEW n \in Nat, n \in S PROVE n + 1 \in S
    BY <2>2, AgreedNext
  <2> HIDE DEF S
  <2>3. \A n \in Nat : n \in S
    BY <2>1, <2>2, Induction
  <2> QED
    BY <2>3 DEF S
<1>4. ASSUME NEW n \in 1 .. len
      PROVE  n - 1 \in 0 .. len /\ Agreed(n) = EntryOf(File[file].member, Agreed(n - 1), Opt!options[n])
  <2>1. n - 1 \in Nat /\ n = (n - 1) + 1 /\ n - 1 \in 0 .. len
    BY <1>1
  <2>2. Lawful(n - 1)
    BY <2>1, <1>3
  <2> QED
    BY <2>1, <2>2, AgreedNext
<1>5. s.exit = FALSE /\ s.opt.config = File[file] /\ File[file] # NullString
  <2>1. Read(Given(Len(input)))["config"] = File[file] /\ File[file] # NullString
    BY FileIs
  <2> QED
    BY <2>1 DEF State
<1>6. Opt!parse_config(s) = parsed[len]
  <2>1. Opt!parse_config(s) =
            LET member == s.opt.config.member
                Stated(t, key) == IF t.exit \/ key = "config" \/ key \notin DOMAIN member THEN t
                                  ELSE Opt!ParseEntry(t, key, member[key])
                entries[n \in 0 .. len] == IF n = 0 THEN s ELSE Stated(entries[n - 1], Opt!options[n])
            IN  entries[len]
    <3> HIDE DEF s
    <3> QED
      BY <1>5 DEF Opt!parse_config
  <2> QED
    BY <2>1, <1>5 DEF EntryOf
<1> HIDE DEF s
<1>7. table = step(table)
  <2>1. ASSUME NEW n \in 0 .. len
        PROVE  Agreed(n) = IF n = 0 THEN s ELSE EntryOf(File[file].member, table[n - 1], Opt!options[n])
    <3>1. CASE n = 0
      BY <3>1, <1>2
    <3>2. CASE n # 0
      <4>1. n \in 1 .. len
        BY <3>2, <1>1
      <4>2. table[n - 1] = Agreed(n - 1)
        BY <4>1, <1>4
      <4> QED
        BY <3>2, <4>1, <4>2, <1>4
    <3> QED
      BY <3>1, <3>2
  <2> QED
    BY <2>1
<1>8. parsed = step(parsed)
  <2> HIDE DEF table, step
  <2> QED
    BY <1>7
<1> HIDE DEF parsed, table, S
<1>9. parsed[len] = Agreed(len)
  <2> DEFINE T == {n \in Nat : n <= len => parsed[n] = Agreed(n)}
  <2>1. 0 \in T
    BY <1>1, <1>2, <1>8
  <2>2. ASSUME NEW n \in Nat, n \in T PROVE n + 1 \in T
    <3> SUFFICES ASSUME n + 1 <= len PROVE parsed[n + 1] = Agreed(n + 1)
      OBVIOUS
    <3>1. n + 1 \in 0 .. len /\ n + 1 \in 1 .. len /\ n + 1 # 0 /\ (n + 1) - 1 = n
      BY <1>1
    <3>2. parsed[n + 1] = EntryOf(File[file].member, parsed[n], Opt!options[n + 1])
      BY <3>1, <1>8
    <3>3. parsed[n] = Agreed(n)
      BY <2>2, <1>1
    <3> QED
      BY <3>1, <3>2, <3>3, <1>4
  <2> HIDE DEF T
  <2>3. \A n \in Nat : n \in T
    BY <2>1, <2>2, Induction
  <2> QED
    BY <2>3, <1>1 DEF T
<1>10. Settled(len) = Final /\ (Objected(len) <=> Wrong)
  BY AllAgreed
<1> QED
  BY <1>1, <1>3, <1>6, <1>9, <1>10 DEF Agreed, Lawful, s

LEMMA CommandRead ==
    ASSUME InputOK, kind = "options"
    PROVE  /\ Wrong \/ Valid(Final)
           /\ Opt!parse_cmdline(input) = IF Wrong THEN Opt!Usage ELSE State(Final)
<1> DEFINE len == Len(input)
<1>1. Sound(len) /\ Opt!parse_cmdline(input) = Opt!parse_config(Told(len))
  BY CommandLine
<1>2. CASE Refused(len)
  <2>1. Wrong
    <3>1. DOMAIN input = 1 .. Len(input)
      BY DEF InputOK
    <3> QED
      BY <3>1, <1>2, Zenon DEF Refused, Wrong
  <2>2. Opt!parse_config(Opt!Usage) = Opt!Usage
    BY DEF Opt!parse_config, Opt!Usage
  <2> QED
    BY <2>1, <2>2, <1>1, <1>2 DEF Told
<1>3. CASE ~Refused(len)
  <2>1. Valid(Given(len)) /\ Told(len) = State(Given(len))
    BY <1>1, <1>3 DEF Sound, Told
  <2>2. CASE Given(len)["config"] = NullString
    <3>1. ~Wrong /\ Final = Given(len)
      BY <2>1, <2>2, <1>3, NoFile
    <3>2. State(Given(len)).opt.config = NullString
      <4>1. Read(Given(len))["config"] = NullString
        BY <2>1, <2>2, FileIs
      <4> QED
        BY <4>1 DEF State
    <3>3. Opt!parse_config(State(Given(len))) = State(Given(len))
      BY <3>2 DEF Opt!parse_config
    <3> QED
      BY <3>1, <3>3, <2>1, <1>1
  <2>3. CASE Given(len)["config"] # NullString
    <3>1. /\ Wrong \/ Valid(Final)
          /\ Opt!parse_config(State(Given(len))) = IF Wrong THEN Opt!Usage ELSE State(Final)
      BY <2>1, <2>3, <1>3, FileRead
    <3> QED
      BY <3>1, <2>1, <1>1
  <2> QED
    BY <2>2, <2>3
<1> QED
  BY <1>2, <1>3

\* What the parameters are that the program runs with.
LEMMA FinalRead ==
    ASSUME Valid(Final), NEW opt, opt = Read(Final)
    PROVE  /\ \A key \in DOMAIN Opt!Limits :
                IF Effective(key) # NullString THEN opt[key] = atoi[Effective(key)]
                ELSE key # "threads" => opt[key] = Opt!Defaults[key]
           /\ \A key \in {"user", "pass", "userpass"} : opt[key] = Effective(key)
           /\ \A key \in Opt!Switches : opt[key] <=> Effective(key) # NullString
           /\ (\E key \in {"user", "pass", "userpass"} : opt[key] # NullString) =>
                /\ opt["threads"] > 0
                /\ Effective("threads") = NullString => opt["threads"] = num_processors
<1>1. \A key \in Known : Final[key] = Effective(key)
  BY DEF Final
<1>2. \A key \in Known : key # "threads" \/ Final[key] # NullString => opt[key] = Meaning(key, Final[key])
  BY DEF Read
<1>3. ASSUME NEW key \in DOMAIN Opt!Limits
      PROVE  IF Effective(key) # NullString THEN opt[key] = atoi[Effective(key)]
             ELSE key # "threads" => opt[key] = Opt!Defaults[key]
  <2>1. key \in Known
    BY KnownIs DEF Known
  <2> QED
    BY <2>1, <1>1, <1>2 DEF Meaning
<1>4. ASSUME NEW key \in {"user", "pass", "userpass"}
      PROVE  key \in Known /\ opt[key] = Effective(key)
  <2>1. key \in Known /\ key \notin DOMAIN Opt!Limits /\ key \notin Opt!Switches /\ key # "config"
        /\ key # "threads" /\ Opt!Defaults[key] = NullString
    BY KnownIs DEF Known
  <2> QED
    BY <2>1, <1>1, <1>2 DEF Meaning
<1>5. ASSUME NEW key \in Opt!Switches PROVE opt[key] <=> Effective(key) # NullString
  <2>1. key \in Known /\ key \notin DOMAIN Opt!Limits /\ key # "threads" /\ Opt!Defaults[key] = FALSE
    BY KnownIs DEF Known
  <2>2. opt[key] = Meaning(key, Effective(key))
    BY <2>1, <1>1, <1>2
  <2>3. Meaning(key, Effective(key)) = IF Effective(key) = NullString THEN FALSE ELSE TRUE
    BY <2>1 DEF Meaning
  <2> QED
    BY <2>2, <2>3, Zenon
<1>6. ASSUME NEW key \in {"user", "pass", "userpass"}, opt[key] # NullString
      PROVE  /\ opt["threads"] > 0
             /\ Effective("threads") = NullString => opt["threads"] = num_processors
  <2>1. ~Silent(Final)
    BY <1>1, <1>4, <1>6 DEF Silent
  <2>2. "threads" \in Known /\ "threads" \in DOMAIN Opt!Limits
    BY KnownIs DEF Known
  <2>3. CASE Effective("threads") = NullString
    <3>1. opt["threads"] = num_processors
      BY <2>1, <2>2, <2>3, <1>1 DEF Read
    <3> QED
      BY <3>1, ProcessorsAssumption
  <2>4. CASE Effective("threads") # NullString
    <3>1. opt["threads"] = atoi[Effective("threads")]
      BY <2>2, <2>4, <1>3
    <3>2. Opt!Takes("threads", Effective("threads"))
      BY <2>2, <2>4, <1>1 DEF Valid
    <3>3. Opt!Takes("threads", Effective("threads")) = (atoi[Effective("threads")] \in Opt!Limits["threads"])
      BY <2>2 DEF Opt!Takes
    <3>4. atoi[Effective("threads")] > 0
      BY <3>2, <3>3, KnownIs, Zenon
    <3> QED
      BY <3>1, <3>4, <2>4
  <2> QED
    BY <2>3, <2>4
<1> QED
  BY <1>3, <1>4, <1>5, <1>6

(***************************************************************************)
(* main's reading of its options (cpu-miner.c:766-922): for a command line *)
(* of any length, files of any content and any number of processors, the   *)
(* program runs on exactly if everything it is told is right, with what    *)
(* the file says or else the command line said last, and with a thread at  *)
(* least whenever there are credentials.                                   *)
(***************************************************************************)
THEOREM OptionsRead == HelpersSpec => []OptionsExact
<1>1. InputOK => OptionsExact
  <2> SUFFICES ASSUME InputOK, kind = "options", NEW s, s = Opt!parse_cmdline(input)
               PROVE  /\ s.exit <=> Wrong
                      /\ ~s.exit =>
                            /\ \A key \in DOMAIN Opt!Limits :
                                IF Effective(key) # NullString THEN s.opt[key] = atoi[Effective(key)]
                                ELSE key # "threads" => s.opt[key] = Opt!Defaults[key]
                            /\ \A key \in {"user", "pass", "userpass"} : s.opt[key] = Effective(key)
                            /\ \A key \in Opt!Switches : s.opt[key] <=> Effective(key) # NullString
                      /\ Opt!Credentials(s) # NullString =>
                            /\ s.opt.threads > 0
                            /\ Effective("threads") = NullString => s.opt.threads = num_processors
    BY Zenon DEF OptionsExact, Wrong, Known
  <2>1. (Wrong \/ Valid(Final)) /\ s = IF Wrong THEN Opt!Usage ELSE State(Final)
    BY CommandRead
  <2>2. CASE Wrong
    <3>1. s.exit = TRUE
      BY <2>1, <2>2 DEF Opt!Usage
    <3>2. Opt!Credentials(s) = NullString
      BY <3>1 DEF Opt!Credentials
    <3> QED
      BY <3>1, <3>2, <2>2
  <2>3. CASE ~Wrong
    <3>1. s.exit = FALSE /\ s.opt = Read(Final) /\ Valid(Final)
      BY <2>1, <2>3 DEF State
    <3>2. Opt!Credentials(s) # NullString => \E key \in {"user", "pass", "userpass"} : s.opt[key] # NullString
      BY <3>1 DEF Opt!Credentials
    <3>3. /\ \A key \in DOMAIN Opt!Limits :
                IF Effective(key) # NullString THEN s.opt[key] = atoi[Effective(key)]
                ELSE key # "threads" => s.opt[key] = Opt!Defaults[key]
          /\ \A key \in {"user", "pass", "userpass"} : s.opt[key] = Effective(key)
          /\ \A key \in Opt!Switches : s.opt[key] <=> Effective(key) # NullString
          /\ (\E key \in {"user", "pass", "userpass"} : s.opt[key] # NullString) =>
                /\ s.opt["threads"] > 0
                /\ Effective("threads") = NullString => s.opt["threads"] = num_processors
      BY <3>1, FinalRead, Zenon
    <3> QED
      BY <3>1, <3>2, <3>3, <2>3, Zenon
  <2> QED
    BY <2>2, <2>3
<1> QED
  BY <1>1, InputsTyped, PTL
=============================================================================
