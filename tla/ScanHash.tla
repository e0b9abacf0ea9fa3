------------------------------ MODULE ScanHash ------------------------------
(***************************************************************************)
(* One scan of miner_thread: the nonce loops of the scanhash functions     *)
(* (sha256_generic.c, sha256_cryptopp.c, sha256_via.c, sha256_4way.c,      *)
(* sha256_sse2_amd64.c) and what miner_thread makes of their result.  The  *)
(* double SHA-256 of the header is a predicate on the nonce: whether the   *)
(* last word of the hash is zero.  That alone makes a solution, since      *)
(* fulltest returns true whatever the target (its FIXME).                  *)
(***************************************************************************)
EXTENDS Integers, FiniteSets

CONSTANTS
    W,              \* 2^32 in the code: nonces are unsigned 32-bit integers
    NPAR,           \* lanes of ScanHash_4WaySSE2: 32
    GoodSets        \* which sets of nonces may be the solutions

\* ALGO_C, ALGO_CRYPTOPP, ALGO_CRYPTOPP_ASM32 and ALGO_VIA loop alike.
Algos == {"scalar", "4way", "sse2_64"}

Nonces == 0 .. W - 1
NoNonce == W - 1                \* (unsigned int) -1

ASSUME WidthAssumption ==
    /\ W \in Nat /\ W > 6 /\ W % 4 = 0
    /\ NPAR \in Nat \ {0} /\ 2 * NPAR < W /\ W % NPAR = 0
ASSUME GoodAssumption == GoodSets \subseteq SUBSET Nonces

VARIABLES
    algo,           \* opt_algo
    max,            \* max_nonce
    good,           \* the nonces whose hash ends in zeros
    restart,        \* work_restart[thr_id].restart
    pc,             \* "begin", "scan", "returned"
    nonce,          \* the loop's variable
    stored,         \* the nonce in work.data
    done,           \* *hashes_done
    rc,             \* whether miner_thread takes the work as solved
    tested          \* history: the nonces hashed

vars == <<algo, max, good, restart, pc, nonce, stored, done, rc, tested>>

Lanes == CASE algo = "scalar" -> 1 [] algo = "4way" -> NPAR [] algo = "sse2_64" -> 4

TypeOK ==
    /\ algo \in Algos /\ max \in 0 .. W - 6 /\ good \subseteq Nonces
    /\ restart \in BOOLEAN /\ rc \in BOOLEAN
    /\ pc \in {"begin", "scan", "returned"}
    /\ nonce \in Nonces /\ stored \in Nonces /\ done \in Nonces
    /\ tested \subseteq Nonces

Init ==
    /\ algo \in Algos
    /\ max \in 0 .. W - 6
    /\ good \in GoodSets
    /\ restart \in BOOLEAN
    /\ pc = "begin"
    /\ nonce = 0 /\ stored = 0 /\ done = 0
    /\ rc = FALSE
    /\ tested = {}

Begin ==
    /\ pc = "begin"
    /\ restart' = FALSE
    /\ pc' = "scan"
    /\ UNCHANGED <<algo, max, good, nonce, stored, done, rc, tested>>

\* The nonces of one batch, and the first solution among them.
Batch(n) == {(n + j) % W : j \in 0 .. Lanes - 1}
Hits(n) == {j \in 0 .. Lanes - 1 : (n + j) % W \in good}
FirstHit(n) == CHOOSE j \in Hits(n) : \A i \in Hits(n) : j <= i

Tested(n) == tested' = tested \cup Batch(n)

\* Return nonce n after h hashes; the SSE2 scanners return it as the result,
\* where -1 stands for none.
Found(n, h, isResult) ==
    /\ stored' = n
    /\ done' = h
    /\ rc' = ~(isResult /\ n = NoNonce)
    /\ pc' = "returned"

\* Stop after h hashes at the limit or because of a restart, or go on.
StopOrGoOn(limit, h) ==
    /\ IF limit \/ restart
       THEN done' = h /\ pc' = "returned"
       ELSE UNCHANGED <<done, pc>>
    /\ UNCHANGED rc

Static == UNCHANGED <<algo, max, good, restart>>

\* Mutant: the last nonce is left out.
ScanScalar_Short ==
    /\ pc = "scan" /\ algo = "scalar"
    /\ LET n == (nonce + 1) % W IN
        /\ nonce' = n
        /\ Tested(n)
        /\ IF Hits(n) # {}
           THEN Found(n, n, FALSE)
           ELSE stored' = n /\ StopOrGoOn(n + 1 >= max, n)
    /\ Static

\* scanhash_c, _cryptopp, _asm32, _via: stat_ctr counts what n counts.
ScanScalar ==
    /\ pc = "scan" /\ algo = "scalar"
    /\ LET n == (nonce + 1) % W IN
        /\ nonce' = n
        /\ Tested(n)
        /\ IF Hits(n) # {}
           THEN Found(n, n, FALSE)
           ELSE stored' = n /\ StopOrGoOn(n >= max, n)
    /\ Static

\* Mutant: the lane is not added to the nonce.
Scan4Way_Lane0 ==
    /\ pc = "scan" /\ algo = "4way"
    /\ LET n == (nonce + NPAR) % W IN
        /\ nonce' = n
        /\ Tested(n)
        /\ IF Hits(n) # {}
           THEN Found(n, n, TRUE)
           ELSE stored' = n /\ StopOrGoOn(n >= max, n)
    /\ Static

\* ScanHash_4WaySSE2: NPAR lanes, the nonce advanced before they are hashed.
Scan4Way ==
    /\ pc = "scan" /\ algo = "4way"
    /\ LET n == (nonce + NPAR) % W IN
        /\ nonce' = n
        /\ Tested(n)
        /\ IF Hits(n) # {}
           THEN Found((n + FirstHit(n)) % W, n, TRUE)
           ELSE stored' = n /\ StopOrGoOn(n >= max, n)
    /\ Static

\* Mutant: the limit must be met exactly.
ScanSse2_Equal ==
    /\ pc = "scan" /\ algo = "sse2_64"
    /\ Tested(nonce)
    /\ IF Hits(nonce) # {}
       THEN /\ Found((nonce + FirstHit(nonce)) % W, nonce, TRUE)
            /\ UNCHANGED nonce
       ELSE /\ nonce' = (nonce + 4) % W
            /\ StopOrGoOn(nonce' = max, nonce')
            /\ UNCHANGED stored
    /\ Static

\* Mutant: the restart flag is not looked at.
ScanSse2_Deaf ==
    /\ pc = "scan" /\ algo = "sse2_64"
    /\ Tested(nonce)
    /\ IF Hits(nonce) # {}
       THEN /\ Found((nonce + FirstHit(nonce)) % W, nonce, TRUE)
            /\ UNCHANGED nonce
       ELSE /\ nonce' = (nonce + 4) % W
            /\ IF nonce' >= max
               THEN done' = nonce' /\ pc' = "returned"
               ELSE UNCHANGED <<done, pc>>
            /\ UNCHANGED <<stored, rc>>
    /\ Static

\* scanhash_sse2_64: four lanes, the nonce advanced after they are hashed, and
\* not counted when one of them is a solution.
ScanSse2 ==
    /\ pc = "scan" /\ algo = "sse2_64"
    /\ Tested(nonce)
    /\ IF Hits(nonce) # {}
       THEN /\ Found((nonce + FirstHit(nonce)) % W, nonce, TRUE)
            /\ UNCHANGED nonce
       ELSE /\ nonce' = (nonce + 4) % W
            /\ StopOrGoOn(nonce' >= max, nonce')
            /\ UNCHANGED stored
    /\ Static

\* restart_threads, from the long-poll thread, at any time.
RaiseRestart ==
    /\ ~restart
    /\ restart' = TRUE
    /\ UNCHANGED <<algo, max, good, pc, nonce, stored, done, rc, tested>>

\* miner_thread goes on with the result.
Returned == pc = "returned" /\ UNCHANGED vars

Scan == ScanScalar \/ Scan4Way \/ ScanSse2

Next == Begin \/ Scan \/ RaiseRestart \/ Returned

Spec == Init /\ [][Next]_vars

\* The miner runs; no restart need ever come.
FairSpec == Spec /\ WF_vars(Begin \/ Scan)
-----------------------------------------------------------------------------
\* The solution that 4way cannot return, if its limit lets it come to it.
Dropped == IF algo = "4way" /\ max > W - 2 * NPAR THEN {NoNonce} ELSE {}

\* The work a scan hands in carries a nonce that solves it, and no solution that
\* was hashed is thrown away (cpu-miner.c: "if nonce found, submit work") but
\* the last nonce of all, and that by 4way alone.
SolutionFound == pc = "returned" => IF rc THEN stored \in good ELSE tested \cap good \subseteq Dropped

\* 4way starts from its second batch: it has hashed nonce 0 only once it has
\* stepped over the last one.
Wrapped == algo = "4way" /\ 0 \in tested

\* A scan without solution or restart has hashed every nonce up to the limit,
\* but for 4way those before its first batch, and for sse2_64 the limit itself;
\* and hashes_done, from which the next max_nonce is computed, is the number of
\* nonces hashed, none twice, or one batch less when sse2_64 has found something.
\* 4way alone may step over 2^32, if its limit is in the last batch: then the
\* count is lost.
RangeScanned ==
    pc = "returned" =>
        /\ ~rc /\ ~restart =>
            {n \in 1 .. max : (algo = "4way" => n >= NPAR) /\ (algo = "sse2_64" => n < max)}
                \subseteq tested
        /\ IF Wrapped
           THEN max > W - NPAR
           ELSE Cardinality(tested) - done = IF rc /\ algo = "sse2_64" THEN 4 ELSE 0

\* A scan ends with the batch during which its flag was raised.
RestartStops == [][pc = "scan" /\ restart => pc' = "returned"]_vars

\* Every scan ends, restart or not.
ScanEnds == pc = "scan" ~> pc = "returned"

\* Every scan ends, restart or not, but one: 4way with a limit in its last batch
\* and nothing to find.
ScanEndsInRange ==
    (pc = "scan" /\ (algo = "4way" /\ max > W - NPAR => good # {})) ~> pc = "returned"
=============================================================================
