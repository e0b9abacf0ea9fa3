----------------------------- MODULE ScanProofs -----------------------------
(***************************************************************************)
(* Proofs about a scan and about the scans one after the other.  ScanHash: *)
(* what a scan returns, covers and counts, for nonces of any width, any    *)
(* number of lanes and any set of solutions.  ScanTime: the limit computed *)
(* from a scan's time in whole seconds meets opt_scantime up to the        *)
(* rounding, for every rate, every time asked for and nonces of any width. *)
(***************************************************************************)
EXTENDS ScanHash, ScanTime, WellFoundedInduction, FiniteSetTheorems, TLAPS

\* The nonces hashed when the loop's variable has the value n, unless it has
\* wrapped.
Covered(n) ==
    CASE algo = "scalar" -> 1 .. n
      [] algo = "4way" -> NPAR .. n + NPAR - 1
      [] algo = "sse2_64" -> 0 .. n - 1

\* 4way has stepped over 2^32.
AllRound == algo = "4way" /\ max > W - NPAR /\ tested = Nonces

Types ==
    /\ algo \in Algos /\ max \in 0 .. W - 6 /\ good \subseteq Nonces
    /\ pc \in {"begin", "scan", "returned"}
    /\ restart \in BOOLEAN /\ rc \in BOOLEAN
    /\ nonce \in Nonces

\* The nonces of 4way are those of its batches.
Aligned == algo = "4way" => \E k \in Nat : nonce = k * NPAR

\* While nothing is found everything up to nonce has been hashed, and the limit
\* has not been met unless the scan has returned or stepped over it.
Scanning ==
    pc # "returned" =>
        /\ tested \cap good = {} /\ done = 0 /\ ~rc
        /\ \/ tested = Covered(nonce) /\ (nonce = 0 \/ nonce < max)
           \/ AllRound

NothingFound ==
    pc = "returned" /\ ~rc =>
        /\ tested \cap good \subseteq Dropped /\ done = nonce
        /\ \/ /\ tested = Covered(nonce)
              /\ nonce >= max \/ restart \/ (algo = "4way" /\ nonce = W - NPAR)
           \/ AllRound

SomethingFound ==
    pc = "returned" /\ rc =>
        /\ stored \in good /\ done = nonce
        /\ \/ tested = IF algo = "sse2_64" THEN 0 .. nonce + 3 ELSE Covered(nonce)
           \/ AllRound

ScanInv == Types /\ Aligned /\ Scanning /\ NothingFound /\ SomethingFound

-----------------------------------------------------------------------------
\* Quotient and remainder.
LEMMA Division ==
    ASSUME NEW a \in Nat, NEW b \in Nat, b > 0, NEW q, NEW m,
           q = a \div b, m = a % b
    PROVE  q \in Nat /\ m \in 0 .. b - 1 /\ a = b * q + m
<1>1. q \in Nat /\ m \in 0 .. b - 1
  OBVIOUS
<1>2. q \in Nat /\ m \in Nat
  BY <1>1
<1>3. a = b * q + m
  BY <1>2, Z3T(20)
<1> QED
  BY <1>1, <1>3

LEMMA Product == ASSUME NEW a \in Nat, NEW b \in Nat PROVE a * b \in Nat
OBVIOUS

\* A common factor may be multiplied in or cancelled.
LEMMA Factor ==
    ASSUME NEW a \in Nat, NEW b \in Nat, NEW s \in Nat
    PROVE  /\ a <= b => a * s <= b * s
           /\ s > 0 /\ a * s <= b * s => a <= b
           /\ s > 0 /\ a * s < b * s => a < b
OBVIOUS

\* A nonce below 2^32 is not wrapped.
LEMMA NotWrapped == ASSUME NEW n \in Nonces PROVE n % W = n
BY WidthAssumption DEF Nonces

LEMMA Limits ==
    ASSUME Types
    PROVE  /\ W \in Nat /\ W > 6 /\ NPAR \in Nat /\ NPAR > 0 /\ 2 * NPAR < W
           /\ max \in Nat /\ max <= W - 6
BY WidthAssumption DEF Types

\* A batch of 4way ends at 2^32 or before.
LEMMA LastBatch ==
    ASSUME NEW k \in Nat, NEW n \in Nat, n = k * NPAR, n < W
    PROVE  n + NPAR <= W
<1> DEFINE K == W \div NPAR
           m == W % NPAR
<1>1. W \in Nat /\ NPAR \in Nat /\ NPAR > 0 /\ m = 0
  BY WidthAssumption
<1>2. K \in Nat /\ W = NPAR * K + m
  BY <1>1, Division
<1> HIDE DEF K, m
<1>3. W = K * NPAR
  BY <1>1, <1>2
<1>4. k < K
  BY <1>1, <1>2, <1>3, Factor
<1>5. (k + 1) * NPAR <= K * NPAR
  BY <1>1, <1>2, <1>4, Factor
<1>6. (k + 1) * NPAR = k * NPAR + NPAR
  BY <1>1
<1> QED
  BY <1>3, <1>5, <1>6

\* A batch that does not reach 2^32 is an interval; the hit chosen is in it.
LEMMA BatchPlain ==
    ASSUME W \in Nat, NEW n \in Nat, Lanes \in Nat, n + Lanes <= W
    PROVE  /\ Batch(n) = n .. n + Lanes - 1
           /\ Hits(n) = {j \in 0 .. Lanes - 1 : n + j \in good}
           /\ Hits(n) = {} => Batch(n) \cap good = {}
<1>1. \A j \in 0 .. Lanes - 1 : n + j \in Nonces /\ (n + j) % W = n + j
  <2>1. \A j \in 0 .. Lanes - 1 : n + j \in Nonces
    BY DEF Nonces
  <2> QED
    BY <2>1, NotWrapped
<1>2. Batch(n) = {n + j : j \in 0 .. Lanes - 1}
  BY <1>1 DEF Batch
<1>3. {n + j : j \in 0 .. Lanes - 1} = n .. n + Lanes - 1
  <2>1. \A x \in n .. n + Lanes - 1 : x - n \in 0 .. Lanes - 1 /\ n + (x - n) = x
    OBVIOUS
  <2> QED
    BY <2>1
<1>4. Hits(n) = {j \in 0 .. Lanes - 1 : n + j \in good}
  BY <1>1 DEF Hits
<1>5. Hits(n) = {} => Batch(n) \cap good = {}
  BY <1>2, <1>4
<1> QED
  BY <1>2, <1>3, <1>4, <1>5

\* A set of natural numbers has a least element.
LEMMA Least ==
    ASSUME NEW S \in SUBSET Nat, S # {}
    PROVE  \E m \in S : \A k \in S : m <= k
<1>1. IsWellFoundedOn(OpToRel(<, Nat), Nat)
  BY NatLessThanWellFounded, Zenon
<1>2. PICK m \in S : \A k \in S : <<k, m>> \notin OpToRel(<, Nat)
  BY <1>1, WFMin, Zenon
<1>3. \A k \in S : k < m => <<k, m>> \in OpToRel(<, Nat)
  BY Zenon DEF OpToRel
<1>4. \A k \in S : ~(k < m)
  BY <1>2, <1>3, Zenon
<1> QED
  BY <1>4

\* The first hit of a batch is one.
LEMMA FirstIsHit ==
    ASSUME NEW n, Lanes \in Nat, Hits(n) # {}
    PROVE  FirstHit(n) \in Hits(n)
<1>1. Hits(n) \in SUBSET Nat
  BY DEF Hits
<1>2. \E j \in Hits(n) : \A i \in Hits(n) : j <= i
  BY <1>1, Least
<1> QED
  BY <1>2 DEF FirstHit
-----------------------------------------------------------------------------
\* The scalar loop keeps the invariant.
LEMMA ScalarKeeps == ASSUME ScanInv, ScanScalar PROVE ScanInv'
<1>1. /\ pc = "scan" /\ algo = "scalar" /\ Lanes = 1
      /\ UNCHANGED <<algo, max, good, restart>>
  BY DEF ScanScalar, Static, Lanes
<1>2. /\ W \in Nat /\ W > 6 /\ max \in Nat /\ max <= W - 6
  BY Limits DEF ScanInv
<1>3. /\ nonce \in Nat /\ (nonce = 0 \/ nonce < max)
      /\ tested = 1 .. nonce /\ tested \cap good = {} /\ done = 0 /\ ~rc
  BY <1>1 DEF ScanInv, Types, Scanning, Covered, Nonces, AllRound
<1>4. nonce + 1 \in Nonces /\ (nonce + 1) % W = nonce + 1
  <2>1. nonce + 1 \in Nonces
    BY <1>2, <1>3 DEF Nonces
  <2> QED
    BY <2>1, NotWrapped
<1> DEFINE n == nonce + 1
<1>5. Batch(n) = n .. n /\ Hits(n) = {j \in 0 .. 0 : n + j \in good}
      /\ (Hits(n) = {} => Batch(n) \cap good = {})
  BY <1>1, <1>2, <1>3, BatchPlain
<1>6. nonce' = n /\ tested' = 1 .. n
  <2>1. nonce' = n /\ tested' = tested \cup Batch(n)
    BY <1>4 DEF ScanScalar, Tested
  <2>2. (1 .. nonce) \cup (n .. n) = 1 .. n
    BY <1>3
  <2> QED
    BY <2>1, <2>2, <1>3, <1>5
<1>7. Types'
  BY <1>1, <1>3, <1>4, <1>6 DEF ScanInv, Types, ScanScalar, Found, StopOrGoOn
<1>8. CASE Hits(n) # {}
  <2>1. stored' = n /\ done' = n /\ rc' /\ pc' = "returned"
    BY <1>4, <1>8 DEF ScanScalar, Found
  <2>2. n \in good
    BY <1>3, <1>5, <1>8
  <2> QED
    BY <1>1, <1>6, <1>7, <2>1, <2>2 DEF ScanInv, Aligned, Scanning, NothingFound, SomethingFound, Covered
<1>9. CASE Hits(n) = {}
  <2>1. /\ ~rc'
        /\ \/ (n >= max \/ restart) /\ done' = n /\ pc' = "returned"
           \/ ~(n >= max) /\ done' = 0 /\ pc' = "scan"
    BY <1>1, <1>3, <1>4, <1>9 DEF ScanScalar, StopOrGoOn
  <2>2. tested' \cap good = {}
    BY <1>3, <1>4, <1>5, <1>9 DEF ScanScalar, Tested
  <2> QED
    BY <1>1, <1>2, <1>3, <1>6, <1>7, <2>1, <2>2
    DEF ScanInv, Aligned, Scanning, NothingFound, SomethingFound, Covered
<1> QED
  BY <1>8, <1>9

\* The 4way loop keeps the invariant while its batch stays below 2^32; the last
\* nonce is dropped only with a limit in the last two batches.
LEMMA FourWayBelow ==
    ASSUME ScanInv, Scan4Way, tested = Covered(nonce), nonce = 0 \/ nonce < max, nonce + NPAR < W
    PROVE  ScanInv'
<1>1. /\ pc = "scan" /\ algo = "4way" /\ Lanes = NPAR
      /\ UNCHANGED <<algo, max, good, restart>>
  BY DEF Scan4Way, Static, Lanes
<1>2. /\ W \in Nat /\ NPAR \in Nat /\ NPAR > 0 /\ 2 * NPAR < W
      /\ max \in Nat /\ max <= W - 6
  BY <1>1, Limits DEF ScanInv
<1>3. /\ nonce \in Nat
      /\ tested = NPAR .. nonce + NPAR - 1 /\ tested \cap good = {} /\ done = 0 /\ ~rc
  BY <1>1 DEF ScanInv, Types, Scanning, Covered, Nonces
<1> DEFINE n == nonce + NPAR
<1>4. n \in Nat /\ n + NPAR <= W /\ n \in Nonces /\ n % W = n /\ \E k \in Nat : n = k * NPAR
  <2>1. PICK k \in Nat : nonce = k * NPAR
    BY <1>1 DEF ScanInv, Aligned
  <2>2. n = (k + 1) * NPAR /\ k + 1 \in Nat /\ n \in Nat /\ n < W
    BY <1>2, <1>3, <2>1
  <2> HIDE DEF n
  <2>3. n + NPAR <= W
    BY <2>2, LastBatch
  <2>4. n \in Nonces
    BY <1>2, <2>2 DEF Nonces
  <2> QED
    BY <2>2, <2>3, <2>4, NotWrapped
<1>5. Batch(n) = n .. n + NPAR - 1 /\ Hits(n) = {j \in 0 .. NPAR - 1 : n + j \in good}
      /\ (Hits(n) = {} => Batch(n) \cap good = {})
  <2>1. n + Lanes <= W /\ Lanes \in Nat
    BY <1>1, <1>2, <1>4
  <2> QED
    BY <1>1, <1>2, <1>4, <2>1, BatchPlain
<1>6. nonce' = n /\ tested' = tested \cup Batch(n) /\ tested' = NPAR .. n + NPAR - 1
  <2>1. nonce' = n /\ tested' = tested \cup Batch(n)
    BY <1>4 DEF Scan4Way, Tested
  <2>2. (NPAR .. nonce + NPAR - 1) \cup (n .. n + NPAR - 1) = NPAR .. n + NPAR - 1
    BY <1>2, <1>3
  <2> QED
    BY <2>1, <2>2, <1>3, <1>5
<1>7. tested' = Covered(nonce)' /\ Aligned'
  BY <1>1, <1>4, <1>6 DEF Covered, Aligned
<1>8. CASE Hits(n) # {}
  <2> DEFINE f == FirstHit(n)
             k == n + f
  <2>1. f \in 0 .. NPAR - 1 /\ k \in good
    BY <1>1, <1>2, <1>5, <1>8, FirstIsHit
  <2>2. \A i \in Hits(n) : f <= i
    <3>1. Hits(n) \in SUBSET Nat
      BY <1>2, <1>5
    <3> QED
      BY <1>8, <3>1, Least DEF FirstHit
  <2> HIDE DEF f
  <2>3. k \in Nonces /\ k % W = k
    <3>1. k \in Nonces
      BY <1>2, <1>4, <2>1 DEF Nonces
    <3> QED
      BY <3>1, NotWrapped
  <2>4. stored' = k /\ done' = n /\ rc' = (k # NoNonce) /\ pc' = "returned"
    BY <1>4, <1>8, <2>3 DEF Scan4Way, Found, f
  <2>5. Types'
    BY <1>1, <1>4, <1>6, <2>4 DEF ScanInv, Types
  <2>6. CASE k # NoNonce
    BY <1>1, <1>6, <1>7, <2>1, <2>4, <2>5, <2>6 DEF ScanInv, Scanning, NothingFound, SomethingFound
  <2>7. CASE k = NoNonce
    <3>1. f = NPAR - 1 /\ n = W - NPAR
      BY <1>2, <1>4, <2>1, <2>7 DEF NoNonce
    <3>2. nonce = W - 2 * NPAR /\ nonce > 0 /\ max > W - 2 * NPAR
      BY <1>2, <1>3, <3>1
    <3>3. Batch(n) \cap good \subseteq {NoNonce}
      <4>1. SUFFICES ASSUME NEW x \in Batch(n), x \in good PROVE x = NoNonce
        OBVIOUS
      <4>2. x \in n .. n + NPAR - 1
        BY <1>5, <4>1
      <4>3. x - n \in 0 .. NPAR - 1 /\ n + (x - n) = x
        BY <1>2, <1>4, <4>2
      <4>4. x - n \in Hits(n)
        BY <1>5, <4>1, <4>3
      <4>5. f <= x - n
        BY <2>2, <4>4
      <4> QED
        BY <1>2, <1>4, <3>1, <4>2, <4>5 DEF NoNonce
    <3>4. tested' \cap good \subseteq {NoNonce}
      BY <1>3, <1>6, <3>3
    <3>5. Dropped' = {NoNonce}
      BY <1>1, <3>2 DEF Dropped, NoNonce
    <3>6. NothingFound'
      BY <1>1, <1>6, <1>7, <2>4, <3>1, <3>4, <3>5 DEF NothingFound
    <3> QED
      BY <1>7, <2>4, <2>5, <2>7, <3>6 DEF ScanInv, Scanning, SomethingFound
  <2> QED
    BY <2>6, <2>7
<1>9. CASE Hits(n) = {}
  <2>1. /\ rc' = FALSE
        /\ \/ (n >= max \/ restart) /\ done' = n /\ pc' = "returned"
           \/ ~(n >= max) /\ done' = 0 /\ pc' = "scan"
    BY <1>1, <1>3, <1>4, <1>9 DEF Scan4Way, StopOrGoOn, ScanInv, Types
  <2>2. tested' \cap good = {}
    BY <1>3, <1>5, <1>6, <1>9
  <2>3. Types'
    BY <1>1, <1>4, <1>6, <2>1 DEF ScanInv, Types
  <2>4. Scanning'
    <3>1. n < max \/ n >= max
      BY <1>2, <1>4
    <3>2. pc' # "returned" => nonce' < max' /\ done' = 0
      BY <1>1, <1>6, <2>1, <3>1
    <3>3. tested' \cap good' = {} /\ ~rc'
      BY <1>1, <2>1, <2>2
    <3> QED
      BY <1>7, <3>2, <3>3 DEF Scanning
  <2>5. NothingFound'
    BY <1>1, <1>6, <1>7, <2>1, <2>2 DEF NothingFound
  <2> QED
    BY <1>7, <2>1, <2>3, <2>4, <2>5 DEF ScanInv, SomethingFound
<1> QED
  BY <1>8, <1>9

\* The step over 2^32: the batch before the first is hashed at last.
LEMMA FourWayWraps ==
    ASSUME ScanInv, Scan4Way, tested = Covered(nonce), nonce = 0 \/ nonce < max, nonce + NPAR = W
    PROVE  ScanInv'
<1>1. /\ pc = "scan" /\ algo = "4way" /\ Lanes = NPAR
      /\ UNCHANGED <<algo, max, good, restart>>
  BY DEF Scan4Way, Static, Lanes
<1>2. /\ W \in Nat /\ NPAR \in Nat /\ NPAR > 0 /\ 2 * NPAR < W
      /\ max \in Nat /\ max <= W - 6
  BY <1>1, Limits DEF ScanInv
<1>3. /\ nonce \in Nat /\ max > W - NPAR
      /\ tested = NPAR .. nonce + NPAR - 1 /\ tested \cap good = {} /\ done = 0 /\ ~rc
  BY <1>1, <1>2 DEF ScanInv, Types, Scanning, Covered, Nonces
<1>4. (nonce + NPAR) % W = 0
  BY <1>2
<1>5. Batch(0) = 0 .. NPAR - 1 /\ Hits(0) = {j \in 0 .. NPAR - 1 : j \in good}
      /\ (Hits(0) = {} => Batch(0) \cap good = {})
  <2>1. 0 + Lanes <= W /\ Lanes \in Nat
    BY <1>1, <1>2
  <2>2. Batch(0) = 0 .. 0 + Lanes - 1 /\ Hits(0) = {j \in 0 .. Lanes - 1 : 0 + j \in good}
      /\ (Hits(0) = {} => Batch(0) \cap good = {})
    BY <1>2, <2>1, BatchPlain
  <2> QED
    BY <1>1, <1>2, <2>2
<1>6. nonce' = 0 /\ tested' = tested \cup Batch(0) /\ tested' = Nonces
  <2>1. nonce' = 0 /\ tested' = tested \cup Batch(0)
    BY <1>4 DEF Scan4Way, Tested
  <2>2. (NPAR .. W - 1) \cup (0 .. NPAR - 1) = 0 .. W - 1
    BY <1>2
  <2>3. nonce + NPAR - 1 = W - 1
    BY <1>2, <1>3
  <2> QED
    BY <1>3, <1>5, <2>1, <2>2, <2>3 DEF Nonces
<1>7. AllRound' /\ Aligned' /\ 0 \in Nonces
  BY <1>1, <1>2, <1>3, <1>6 DEF AllRound, Aligned, Nonces
<1>8. CASE Hits(0) # {}
  <2> DEFINE k == FirstHit(0)
  <2>1. k \in 0 .. NPAR - 1 /\ k \in good
    BY <1>1, <1>2, <1>5, <1>8, FirstIsHit
  <2> HIDE DEF k
  <2>2. k \in Nonces /\ k % W = k /\ k # NoNonce
    <3>1. k \in Nonces /\ k # NoNonce
      BY <1>2, <2>1 DEF Nonces, NoNonce
    <3> QED
      BY <3>1, NotWrapped
  <2>3. 0 + k = k
    BY <2>1
  <2>4. stored' = k /\ done' = 0 /\ rc' = TRUE /\ pc' = "returned"
    BY <1>4, <1>8, <2>2, <2>3 DEF Scan4Way, Found, k
  <2>5. Types'
    BY <1>1, <1>6, <1>7, <2>4 DEF ScanInv, Types
  <2> QED
    BY <1>1, <1>6, <1>7, <2>1, <2>4, <2>5 DEF ScanInv, Scanning, NothingFound, SomethingFound
<1>9. CASE Hits(0) = {}
  <2>1. rc' = FALSE /\ ((done' = 0 /\ pc' = "returned") \/ (done' = 0 /\ pc' = "scan"))
    BY <1>1, <1>3, <1>4, <1>9 DEF Scan4Way, StopOrGoOn, ScanInv, Types
  <2>2. tested' \cap good' = {}
    BY <1>1, <1>3, <1>5, <1>6, <1>9
  <2>3. Types'
    BY <1>1, <1>6, <1>7, <2>1 DEF ScanInv, Types
  <2> QED
    BY <1>6, <1>7, <2>1, <2>2, <2>3 DEF ScanInv, Scanning, NothingFound, SomethingFound
<1> QED
  BY <1>8, <1>9

\* Once over 2^32 without a solution there is none, and only a restart ends the
\* scan.
LEMMA FourWayAgain == ASSUME ScanInv, Scan4Way, AllRound PROVE ScanInv'
<1>1. /\ pc = "scan" /\ algo = "4way" /\ Lanes = NPAR
      /\ UNCHANGED <<algo, max, good, restart>>
  BY DEF Scan4Way, Static, Lanes
<1>2. /\ W \in Nat /\ W > 6 /\ NPAR \in Nat /\ NPAR > 0 /\ 2 * NPAR < W
  BY <1>1, Limits DEF ScanInv
<1>3. nonce \in Nat /\ nonce < W /\ good = {} /\ tested = Nonces /\ done = 0 /\ ~rc
  BY <1>1, <1>2 DEF ScanInv, Types, Scanning, AllRound, Nonces
<1> DEFINE n == (nonce + NPAR) % W
<1>4. n \in Nonces /\ \E k \in Nat : n = k * NPAR
  <2>1. PICK k \in Nat : nonce = k * NPAR
    BY <1>1 DEF ScanInv, Aligned
  <2>2. nonce + NPAR <= W
    BY <1>3, <2>1, LastBatch
  <2>3. CASE nonce + NPAR = W
    <3>1. n = 0 /\ 0 = 0 * NPAR
      BY <1>2, <2>3
    <3> QED
      BY <1>2, <3>1 DEF Nonces
  <2>4. CASE nonce + NPAR < W
    <3>1. nonce + NPAR \in Nonces
      BY <1>2, <1>3, <2>4 DEF Nonces
    <3>2. n = nonce + NPAR
      BY <3>1, NotWrapped
    <3>3. nonce + NPAR = (k + 1) * NPAR /\ k + 1 \in Nat
      BY <1>2, <2>1
    <3> QED
      BY <3>1, <3>2, <3>3
  <2> QED
    BY <1>2, <1>3, <2>2, <2>3, <2>4
<1>5. Hits(n) = {}
  BY <1>3 DEF Hits
<1>6. Batch(n) \subseteq Nonces
  <2>1. \A j \in 0 .. NPAR - 1 : (n + j) % W \in 0 .. W - 1
    BY <1>2, <1>4 DEF Nonces
  <2> HIDE DEF n
  <2> QED
    BY <1>1, <2>1 DEF Batch, Nonces
<1>7. nonce' = n /\ tested' = Nonces
  <2>1. nonce' = n /\ tested' = tested \cup Batch(n)
    BY DEF Scan4Way, Tested
  <2> QED
    BY <1>3, <1>6, <2>1
<1>8. rc' = FALSE /\ ((done' = n /\ pc' = "returned") \/ (done' = 0 /\ pc' = "scan"))
  BY <1>1, <1>3, <1>5 DEF Scan4Way, StopOrGoOn, ScanInv, Types
<1> HIDE DEF n
<1>9. Types' /\ Aligned' /\ AllRound'
  BY <1>1, <1>4, <1>7, <1>8 DEF ScanInv, Types, Aligned, AllRound, Nonces
<1> QED
  BY <1>1, <1>3, <1>7, <1>8, <1>9 DEF ScanInv, Scanning, NothingFound, SomethingFound

\* The 4way loop keeps the invariant.
LEMMA FourWayKeeps == ASSUME ScanInv, Scan4Way PROVE ScanInv'
<1>1. pc = "scan" /\ algo = "4way"
  BY DEF Scan4Way
<1>2. (tested = Covered(nonce) /\ (nonce = 0 \/ nonce < max)) \/ AllRound
  BY <1>1 DEF ScanInv, Scanning
<1>3. nonce \in Nat /\ NPAR \in Nat /\ W \in Nat /\ nonce + NPAR <= W
  <2>1. PICK k \in Nat : nonce = k * NPAR
    BY <1>1 DEF ScanInv, Aligned
  <2>2. nonce \in Nat /\ nonce < W /\ W \in Nat /\ NPAR \in Nat
    BY WidthAssumption DEF ScanInv, Types, Nonces
  <2> QED
    BY <2>1, <2>2, LastBatch
<1>4. nonce + NPAR < W \/ nonce + NPAR = W
  BY <1>3
<1> QED
  BY <1>2, <1>4, FourWayBelow, FourWayWraps, FourWayAgain

\* The loop of scanhash_sse2_64 keeps the invariant.
LEMMA Sse2Keeps == ASSUME ScanInv, ScanSse2 PROVE ScanInv'
<1>1. /\ pc = "scan" /\ algo = "sse2_64" /\ Lanes = 4
      /\ UNCHANGED <<algo, max, good, restart>>
  BY DEF ScanSse2, Static, Lanes
<1>2. W \in Nat /\ W > 6 /\ max \in Nat /\ max <= W - 6
  BY Limits DEF ScanInv
<1>3. /\ nonce \in Nat /\ (nonce = 0 \/ nonce < max)
      /\ tested = 0 .. nonce - 1 /\ tested \cap good = {} /\ done = 0 /\ ~rc
  BY <1>1 DEF ScanInv, Types, Scanning, Covered, Nonces, AllRound
<1>4. nonce + 4 < W /\ nonce + 4 \in Nonces /\ (nonce + 4) % W = nonce + 4
  <2>1. nonce + 4 < W /\ nonce + 4 \in Nonces
    BY <1>2, <1>3 DEF Nonces
  <2> QED
    BY <2>1, NotWrapped
<1>5. Batch(nonce) = nonce .. nonce + 4 - 1 /\ Hits(nonce) = {j \in 0 .. 4 - 1 : nonce + j \in good}
      /\ (Hits(nonce) = {} => Batch(nonce) \cap good = {})
  <2>1. nonce + Lanes <= W
    BY <1>1, <1>2, <1>3, <1>4
  <2> QED
    BY <1>1, <1>2, <1>3, <2>1, BatchPlain
<1>6. tested' = tested \cup Batch(nonce) /\ tested' = 0 .. nonce + 3
  <2>1. tested' = tested \cup Batch(nonce)
    BY DEF ScanSse2, Tested
  <2>2. (0 .. nonce - 1) \cup (nonce .. nonce + 4 - 1) = 0 .. nonce + 3
    BY <1>3
  <2> QED
    BY <2>1, <2>2, <1>3, <1>5
<1>7. CASE Hits(nonce) # {}
  <2> DEFINE k == nonce + FirstHit(nonce)
  <2>1. FirstHit(nonce) \in 0 .. 4 - 1 /\ k \in good
    BY <1>1, <1>5, <1>7, FirstIsHit
  <2>2. k \in Nonces /\ k % W = k /\ k # NoNonce
    <3>1. k \in Nonces /\ k # NoNonce
      BY <1>2, <1>3, <1>4, <2>1 DEF Nonces, NoNonce
    <3> QED
      BY <3>1, NotWrapped
  <2>3. stored' = k /\ done' = nonce /\ nonce' = nonce /\ rc' = TRUE /\ pc' = "returned"
    BY <1>7, <2>2 DEF ScanSse2, Found
  <2>4. Types'
    BY <1>1, <2>3 DEF ScanInv, Types
  <2>5. SomethingFound'
    BY <1>1, <1>6, <2>1, <2>3 DEF SomethingFound
  <2> QED
    BY <1>1, <2>3, <2>4, <2>5 DEF ScanInv, Aligned, Scanning, NothingFound
<1>8. CASE Hits(nonce) = {}
  <2> DEFINE n == nonce + 4
  <2>1. /\ nonce' = n /\ rc' = FALSE
        /\ \/ (n >= max \/ restart) /\ done' = n /\ pc' = "returned"
           \/ ~(n >= max) /\ done' = 0 /\ pc' = "scan"
    BY <1>1, <1>3, <1>4, <1>8 DEF ScanSse2, StopOrGoOn, ScanInv, Types
  <2>2. tested' \cap good = {}
    BY <1>3, <1>5, <1>6, <1>8
  <2>3. Types'
    BY <1>1, <1>4, <2>1 DEF ScanInv, Types
  <2>4. n - 1 = nonce + 3
    BY <1>3
  <2> QED
    BY <1>1, <1>2, <1>3, <1>6, <2>1, <2>2, <2>3, <2>4
    DEF ScanInv, Aligned, Scanning, NothingFound, SomethingFound, Covered
<1> QED
  BY <1>7, <1>8
-----------------------------------------------------------------------------
\* The invariant holds of every scan.
THEOREM ScansCorrect == Spec => []ScanInv
<1>1. Init => ScanInv
  <2> SUFFICES ASSUME Init PROVE ScanInv
    OBVIOUS
  <2>1. W \in Nat /\ W > 6 /\ NPAR \in Nat
    BY WidthAssumption
  <2>2. Types
    <3>1. nonce \in Nonces
      BY <2>1 DEF Init, Nonces
    <3>2. good \subseteq Nonces
      BY GoodAssumption DEF Init
    <3> QED
      BY <3>1, <3>2 DEF Init, Types
  <2>3. Covered(0) = {}
    BY <2>1 DEF Init, Covered, Algos
  <2>4. nonce = 0 * NPAR
    BY <2>1 DEF Init
  <2> QED
    BY <2>2, <2>3, <2>4 DEF Init, ScanInv, Aligned, Scanning, NothingFound, SomethingFound
<1>2. ScanInv /\ [Next]_vars => ScanInv'
  <2> SUFFICES ASSUME ScanInv, [Next]_vars PROVE ScanInv'
    OBVIOUS
  <2>1. CASE Begin
    BY <2>1 DEF Begin, ScanInv, Types, Aligned, Scanning, NothingFound, SomethingFound, Covered,
                AllRound
  <2>2. CASE ScanScalar
    BY <2>2, ScalarKeeps
  <2>3. CASE Scan4Way
    BY <2>3, FourWayKeeps
  <2>4. CASE ScanSse2
    BY <2>4, Sse2Keeps
  <2>5. CASE RaiseRestart
    BY <2>5 DEF RaiseRestart, ScanInv, Types, Aligned, Scanning, NothingFound, SomethingFound, Covered,
                AllRound, Dropped
  <2>6. CASE UNCHANGED vars
    BY <2>6 DEF vars, ScanInv, Types, Aligned, Scanning, NothingFound, SomethingFound, Covered,
                AllRound, Dropped
  <2> QED
    BY <2>1, <2>2, <2>3, <2>4, <2>5, <2>6 DEF Next, Scan, Returned
<1> QED
  BY <1>1, <1>2, PTL DEF Spec

\* What miner_thread submits solves the work, and no solution that was hashed
\* is thrown away but 2^32 - 1 by 4way with a limit in its last two batches
\* (sha256_4way.c:127-138, cpu-miner.c:590-597): for every width, number of
\* lanes, limit and set of solutions.
THEOREM SolutionsFound == Spec => []SolutionFound
<1>1. ScanInv => SolutionFound
  BY DEF ScanInv, Types, NothingFound, SomethingFound, SolutionFound
<1> QED
  BY <1>1, ScansCorrect, PTL

\* A scan to the limit leaves no nonce out, hashes none twice, and counts what
\* it hashed, at every limit; a scan that has lost count is one of 4way whose
\* limit is in the last batch.
THEOREM RangesScanned == Spec => []RangeScanned
<1>1. ScanInv => RangeScanned
  <2> SUFFICES ASSUME ScanInv, pc = "returned"
               PROVE  /\ ~rc /\ ~restart =>
                          {n \in 1 .. max : (algo = "4way" => n >= NPAR) /\ (algo = "sse2_64" => n < max)}
                              \subseteq tested
                      /\ IF Wrapped
                         THEN max > W - NPAR
                         ELSE Cardinality(tested) - done = IF rc /\ algo = "sse2_64" THEN 4 ELSE 0
    BY DEF RangeScanned
  <2>1. /\ W \in Nat /\ W > 6 /\ NPAR \in Nat /\ NPAR > 0 /\ max \in Nat /\ max <= W - 6
        /\ nonce \in Nat /\ algo \in Algos
    BY Limits DEF ScanInv, Types, Nonces
  <2>2. done = nonce
    BY DEF ScanInv, Types, NothingFound, SomethingFound
  <2>3. \A n \in Nat : Cardinality(Covered(n)) = n
    <3>1. TAKE n \in Nat
    <3>2. Cardinality(1 .. n) = n /\ Cardinality(0 .. n - 1) = n
      BY <3>1, FS_Interval
    <3>3. Cardinality(NPAR .. n + NPAR - 1) = n
      BY <2>1, <3>1, FS_Interval
    <3> QED
      BY <2>1, <3>2, <3>3 DEF Covered, Algos
  <2>4. CASE AllRound
    <3>1. Wrapped /\ max > W - NPAR /\ algo = "4way"
      BY <2>1, <2>4 DEF AllRound, Wrapped, Nonces
    <3>2. {n \in 1 .. max : n >= NPAR} \subseteq tested
      BY <2>1, <2>4 DEF AllRound, Nonces
    <3> QED
      BY <3>1, <3>2
  <2>5. CASE rc /\ ~AllRound
    <3>1. tested = IF algo = "sse2_64" THEN 0 .. nonce + 3 ELSE Covered(nonce)
      BY <2>5 DEF ScanInv, SomethingFound
    <3>2. Cardinality(0 .. nonce + 3) = nonce + 4
      BY <2>1, FS_Interval
    <3>3. Cardinality(tested) = IF algo = "sse2_64" THEN nonce + 4 ELSE nonce
      BY <2>1, <2>3, <3>1, <3>2
    <3>4. ~Wrapped
      BY <2>1, <3>1 DEF Wrapped, Covered
    <3> QED
      BY <2>1, <2>2, <2>5, <3>3, <3>4
  <2>6. CASE ~rc /\ ~AllRound
    <3>1. /\ tested = Covered(nonce)
          /\ nonce >= max \/ restart \/ (algo = "4way" /\ nonce = W - NPAR)
      BY <2>6 DEF ScanInv, NothingFound
    <3>2. Cardinality(tested) = nonce /\ ~Wrapped
      BY <2>1, <2>3, <3>1 DEF Wrapped, Covered
    <3>3. ~restart =>
            {n \in 1 .. max : (algo = "4way" => n >= NPAR) /\ (algo = "sse2_64" => n < max)} \subseteq tested
      BY <2>1, <3>1 DEF Covered, Algos
    <3> QED
      BY <2>1, <2>2, <2>6, <3>2, <3>3
  <2> QED
    BY <2>4, <2>5, <2>6
<1> QED
  BY <1>1, ScansCorrect, PTL

\* A restart ends the scan with the batch in progress, whatever the limit.
THEOREM RestartsStop == Spec => RestartStops
<1>1. [Next]_vars => [pc = "scan" /\ restart => pc' = "returned"]_vars
  <2> SUFFICES ASSUME Next, pc = "scan", restart PROVE pc' = "returned"
    BY DEF vars
  <2>1. CASE Scan
    BY <2>1 DEF Scan, ScanScalar, Scan4Way, ScanSse2, Found, StopOrGoOn
  <2> QED
    BY <2>1 DEF Next, Begin, RaiseRestart, Returned
<1> QED
  BY <1>1, PTL DEF Spec, RestartStops
-----------------------------------------------------------------------------
(* The control of max_nonce. *)

TimeInv == TimeTypeOK /\ ScanTimeMet

-----------------------------------------------------------------------------
\* The time rounded to whole seconds is half a second off at most.
LEMMA Rounded ==
    ASSUME NEW n \in Nat, NEW r \in Nat, r > 0
    PROVE  LET s == n \div r + IF 2 * (n % r) > r THEN 1 ELSE 0
           IN  /\ s \in Nat
               /\ 2 * n <= 2 * (r * s) + r /\ 2 * (r * s) <= 2 * n + r
<1> SUFFICES ASSUME NEW q, NEW m, NEW s, q = n \div r, m = n % r,
                    s = q + IF 2 * m > r THEN 1 ELSE 0
             PROVE  /\ s \in Nat
                    /\ 2 * n <= 2 * (r * s) + r /\ 2 * (r * s) <= 2 * n + r
  OBVIOUS
<1>1. q \in Nat /\ m \in 0 .. r - 1 /\ n = r * q + m
  BY Division
<1>2. r * q \in Nat /\ m \in Nat /\ m < r
  BY <1>1, Product
<1>3. r * (q + 1) = r * q + r
  BY <1>1
<1> QED
  BY <1>1, <1>2, <1>3

\* h nonces took s seconds, rounded: a limit of n * t \div s, where n is h or up
\* to d less, is good for t seconds.
LEMMA Quotient ==
    ASSUME NEW n \in Nat, NEW h \in Nat, NEW d \in Nat, NEW t \in Nat, NEW r \in Nat, NEW s \in Nat,
           s > 0, n <= h, h <= n + d,
           2 * h <= 2 * (r * s) + r, 2 * (r * s) <= 2 * h + r,
           NEW M, M = (n * t) \div s
    PROVE  2 * M <= 3 * (t * r) /\ 2 * (M + 1 + d * t) > t * r
<1> DEFINE m == (n * t) % s
<1>1. n * t \in Nat /\ r * s \in Nat /\ t * r \in Nat /\ d * t \in Nat
  BY Product
<1>2. M \in Nat /\ m \in 0 .. s - 1 /\ n * t = s * M + m
  BY <1>1, Division
<1>3. s * M \in Nat /\ (d * t) * s \in Nat
  BY <1>1, <1>2, Product
<1>4. r <= r * s /\ d * t <= (d * t) * s
  BY <1>1
<1>5. 2 * n <= 3 * (r * s) /\ r * s <= 2 * (n + d)
  BY <1>1, <1>4
<1>6. (2 * n) * t <= (3 * (r * s)) * t /\ (r * s) * t <= (2 * (n + d)) * t
  BY <1>1, <1>5, Factor
<1>7. (3 * (r * s)) * t = (3 * (t * r)) * s /\ (r * s) * t = (t * r) * s
  OBVIOUS
<1>8. (2 * n) * t = 2 * (n * t) /\ (2 * (n + d)) * t = 2 * (n * t) + 2 * (d * t)
  OBVIOUS
<1>9. /\ (2 * M) * s = 2 * (s * M)
      /\ (2 * (M + 1 + d * t)) * s = 2 * (s * M) + 2 * s + 2 * ((d * t) * s)
  BY <1>1, <1>2
<1> HIDE DEF m
<1>10. (2 * M) * s <= (3 * (t * r)) * s
  <2>1. (2 * M) * s <= 2 * (n * t)
    BY <1>1, <1>2, <1>3, <1>9
  <2> QED
    BY <2>1, <1>6, <1>7, <1>8
<1>11. (t * r) * s < (2 * (M + 1 + d * t)) * s
  <2>1. 2 * (n * t) + 2 * (d * t) < (2 * (M + 1 + d * t)) * s
    BY <1>1, <1>2, <1>3, <1>4, <1>9
  <2> QED
    BY <2>1, <1>6, <1>7, <1>8
<1>12. 2 * M \in Nat /\ 3 * (t * r) \in Nat /\ 2 * (M + 1 + d * t) \in Nat
  BY <1>1, <1>2
<1> QED
  BY <1>1, <1>2, <1>10, <1>11, <1>12, Factor

-----------------------------------------------------------------------------
\* One scan of any number of nonces and the adjustment after it.
LEMMA Adjusted ==
    ASSUME TimeInv, NEW n \in Nat, NEW h \in Nat, n <= h, ScanAndAdjust(n, h)
    PROVE  TimeInv'
<1>1. /\ rate \in Nat /\ rate > 0 /\ scantime \in Nat /\ scantime > 0
      /\ Cap \in Nat /\ Cap < Width /\ Width \in Nat /\ scanner.missed \in Nat
  BY CapAssumption, TimesAssumption, RatesAssumption, ScannersAssumption
  DEF TimeInv, TimeTypeOK, Cap
<1>2. Seconds(h) \in Nat /\ 2 * h <= 2 * (rate * Seconds(h)) + rate
      /\ 2 * (rate * Seconds(h)) <= 2 * h + rate
  BY <1>1, Rounded DEF Seconds
<1>3. UNCHANGED <<scanner, scantime, haveLongpoll, rate, steady>>
  BY DEF ScanAndAdjust
<1>4. CASE Seconds(h) > 0
  <2> DEFINE M == (n * scantime) \div Seconds(h)
             d == scanner.missed
  <2>1. M \in Nat
    BY <1>1, <1>2, <1>4, Product, Division
  <2>2. h <= n + d => 2 * M <= 3 * (scantime * rate) /\ 2 * (M + 1 + d * scantime) > scantime * rate
    BY <1>1, <1>2, <1>4, Quotient
  <2>3. max_nonce' = (IF M > Cap THEN Cap ELSE M) % Width /\ adjusted' = (h <= n + d)
    BY <1>4 DEF ScanAndAdjust, NextMax
  <2> HIDE DEF M
  <2>4. max_nonce' = IF M > Cap THEN Cap ELSE M
    BY <1>1, <2>1, <2>3
  <2>5. scantime * rate \in Nat /\ d * scantime \in Nat
    BY <1>1, Product
  <2>6. max_nonce' \in 0 .. Cap /\ max_nonce' <= Cap
    BY <1>1, <2>1, <2>4
  <2>7. adjusted' => 2 * max_nonce' <= 3 * (scantime * rate)
                     /\ (2 * (max_nonce' + 1 + d * scantime) > scantime * rate \/ max_nonce' = Cap)
    <3>1. SUFFICES ASSUME h <= n + d
                   PROVE  2 * max_nonce' <= 3 * (scantime * rate)
                          /\ (2 * (max_nonce' + 1 + d * scantime) > scantime * rate \/ max_nonce' = Cap)
      BY <2>3
    <3>2. 2 * M <= 3 * (scantime * rate) /\ 2 * (M + 1 + d * scantime) > scantime * rate
      BY <2>2, <3>1
    <3>3. CASE M > Cap
      BY <1>1, <2>1, <2>4, <2>5, <3>2, <3>3
    <3>4. CASE M <= Cap
      BY <1>1, <2>1, <2>4, <3>2, <3>4
    <3> QED
      BY <1>1, <2>1, <3>3, <3>4
  <2>8. 3 * scantime * rate = 3 * (scantime * rate)
    BY <1>1
  <2>9. TimeTypeOK'
    BY <1>3, <2>3, <2>6 DEF TimeInv, TimeTypeOK
  <2>10. adjusted' => 2 * max_nonce' <= 3 * scantime' * rate' /\ LongEnough'
    BY <1>3, <2>7, <2>8 DEF LongEnough, Cap
  <2> QED
    BY <2>6, <2>9, <2>10 DEF TimeInv, ScanTimeMet, Cap
<1>5. CASE ~(Seconds(h) > 0)
  BY <1>3, <1>5 DEF ScanAndAdjust, TimeInv, TimeTypeOK, ScanTimeMet, LongEnough, Cap
<1> QED
  BY <1>4, <1>5

\* A scan counts no nonce that it has not hashed.
LEMMA Counted ==
    ASSUME TimeInv, FullScan \/ ShortScan \/ WrappedScan
    PROVE  \E n, h \in Nat : n <= h /\ ScanAndAdjust(n, h)
<1> DEFINE l == scanner.lanes
           d == scanner.missed
<1>1. l \in Nat /\ l > 0 /\ d \in Nat /\ d <= l /\ Width \in Nat /\ max_nonce \in Nat
  BY CapAssumption, ScannersAssumption DEF TimeInv, TimeTypeOK, Cap
<1>2. Batches \in Nat
  <2>1. max_nonce + l - 1 \in Nat
    BY <1>1
  <2>2. (max_nonce + l - 1) \div l \in Nat
    BY <1>1, <2>1, Division
  <2> QED
    BY <2>2 DEF Batches
<1> HIDE DEF l, d
<1>3. \A b \in Nat : b * l \in Nat /\ (b > 0 => b * l >= d)
  <2>1. TAKE b \in Nat
  <2>2. b * l \in Nat
    BY <1>1, <2>1, Product
  <2>3. b > 0 => b * l >= 1 * l
    BY <1>1, <2>1, Factor
  <2> QED
    BY <1>1, <2>2, <2>3
<1>4. CASE FullScan
  <2>1. Last \in Nat
    BY <1>2, <1>3 DEF Last, l
  <2> QED
    BY <1>4, <2>1 DEF FullScan
<1>5. CASE ShortScan
  <2>1. PICK b \in 1 .. Batches : \E n \in {b * l, b * l - d} : ScanAndAdjust(n, b * l)
    BY <1>5 DEF ShortScan, l, d
  <2>2. PICK n \in {b * l, b * l - d} : ScanAndAdjust(n, b * l)
    BY <2>1
  <2>3. b * l \in Nat /\ b * l >= d
    BY <1>2, <1>3
  <2>4. n \in Nat /\ n <= b * l
    BY <1>1, <2>2, <2>3
  <2> QED
    BY <2>2, <2>3, <2>4
<1>6. CASE WrappedScan
  <2>1. PICK w \in 1 .. MaxWraps, b \in 0 .. Batches - 1 : ScanAndAdjust(b * l, w * Width + b * l)
    BY <1>6 DEF WrappedScan, l
  <2>2. b * l \in Nat /\ w \in Nat
    BY <1>2, <1>3, WrapsAssumption
  <2>3. w * Width \in Nat
    BY <1>1, <2>2, Product
  <2>4. w * Width + b * l \in Nat /\ b * l <= w * Width + b * l
    BY <2>2, <2>3
  <2> QED
    BY <2>1, <2>2, <2>4
<1> QED
  BY <1>4, <1>5, <1>6

\* The limit keeps its distance from 2^32, and once it was adjusted a full scan
\* takes from half to one and a half times opt_scantime (cpu-miner.c:640-656),
\* whatever the scanner, the rate, the time asked for and the scans that ended
\* early or went round.
THEOREM ScanTimeKept == TimeSpec => []ScanTimeMet
<1>1. TimeInit => TimeInv
  <2> SUFFICES ASSUME TimeInit PROVE TimeInv
    OBVIOUS
  <2>1. FirstNonce \in 1 .. Cap /\ Cap \in Nat
    BY CapAssumption DEF Cap
  <2>2. max_nonce \in 0 .. Cap /\ max_nonce <= Cap
    BY <2>1 DEF TimeInit
  <2>3. TimeTypeOK
    BY <2>2 DEF TimeInit, TimeTypeOK
  <2> QED
    BY <2>2, <2>3 DEF TimeInit, TimeInv, ScanTimeMet
<1>2. TimeInv /\ [TimeNext]_timeVars => TimeInv'
  <2> SUFFICES ASSUME TimeInv, [TimeNext]_timeVars PROVE TimeInv'
    OBVIOUS
  <2>1. CASE FullScan \/ ShortScan \/ WrappedScan
    BY <2>1, Counted, Adjusted
  <2>2. CASE Activate
    BY <2>2 DEF Activate, TimeInv, TimeTypeOK, ScanTimeMet, Cap
  <2>3. CASE ChangeRate
    BY <2>3 DEF ChangeRate, TimeInv, TimeTypeOK, ScanTimeMet, Cap
  <2>4. CASE UNCHANGED timeVars
    BY <2>4 DEF timeVars, TimeInv, TimeTypeOK, ScanTimeMet, LongEnough, Cap
  <2> QED
    BY <2>1, <2>2, <2>3, <2>4 DEF TimeNext
<1>3. TimeInv => ScanTimeMet
  BY DEF TimeInv
<1> QED
  BY <1>1, <1>2, <1>3, PTL DEF TimeSpec
=============================================================================
