------------------------------ MODULE ScanTime ------------------------------
(***************************************************************************)
(* How miner_thread adjusts max_nonce (cpu-miner.c:633-656) so that a scan *)
(* takes about opt_scantime seconds.  Time is exact: a scan of n nonces at *)
(* a rate of r nonces a second takes n/r seconds.  The rate stands for the *)
(* processor's speed, its load and the wall clock, which may be set.       *)
(***************************************************************************)
EXTENDS Naturals

CONSTANTS
    Width,          \* 2^32 in the code
    FirstNonce,     \* the first max_nonce: 0xffffff in the code
    ScanTimes,      \* values of --scantime
    LpScanTime,     \* what long polling sets opt_scantime to: 60 in the code
    Rates,          \* nonces a second
    Scanners,       \* the scanhash functions: the nonces of a batch, and those
                    \* of a batch with a solution that hashes_done leaves out
    MaxWraps        \* bound: how often a scan steps over 2^32

Cap == Width - 6                \* 0xfffffffa

ASSUME CapAssumption == Width \in Nat /\ Width > 6 /\ FirstNonce \in 1 .. Cap
ASSUME TimesAssumption == ScanTimes \subseteq Nat \ {0} /\ LpScanTime \in Nat \ {0}
ASSUME RatesAssumption == Rates \subseteq Nat \ {0}
ASSUME ScannersAssumption ==
    \A s \in Scanners :
        /\ s \in [lanes : Nat \ {0}, missed : Nat]
        /\ s.missed <= s.lanes /\ Width % s.lanes = 0 /\ s.lanes < Width
ASSUME WrapsAssumption == MaxWraps \in Nat

VARIABLES
    scanner,        \* opt_algo
    max_nonce,
    scantime,       \* opt_scantime
    haveLongpoll,   \* have_longpoll
    rate,           \* the rate of the scans
    steady,         \* whether the rate has settled for good
    adjusted        \* history: max_nonce was computed at this rate for this scantime
                    \* from what was hashed

timeVars == <<scanner, max_nonce, scantime, haveLongpoll, rate, steady, adjusted>>

TimeTypeOK ==
    /\ scanner \in Scanners
    /\ max_nonce \in 0 .. Cap
    /\ scantime \in ScanTimes \cup {LpScanTime}
    /\ haveLongpoll \in BOOLEAN /\ steady \in BOOLEAN /\ adjusted \in BOOLEAN
    /\ rate \in Rates

TimeInit ==
    /\ scanner \in Scanners
    /\ max_nonce = FirstNonce
    /\ scantime \in ScanTimes
    /\ haveLongpoll = FALSE
    /\ rate \in Rates
    /\ steady = FALSE
    /\ adjusted = FALSE

\* Mutant: the fraction of a second is dropped.
Seconds_Down(n) == n \div rate

\* n nonces' time in whole seconds, rounded to the nearest.
Seconds(n) == n \div rate + IF 2 * (n % rate) > rate THEN 1 ELSE 0

\* The next limit, after s seconds for the n nonces of hashes_done.
NextMax(n, s) ==
    LET max64 == (n * scantime) \div s
    IN  (IF max64 > Cap THEN Cap ELSE max64) % Width

\* A scan of h nonces with hashes_done = n, and the adjustment.
ScanAndAdjust(n, h) ==
    /\ IF Seconds(h) > 0
       THEN /\ max_nonce' = NextMax(n, Seconds(h))
            /\ adjusted' = (h <= n + scanner.missed)
       ELSE UNCHANGED <<max_nonce, adjusted>>
    /\ UNCHANGED <<scanner, scantime, haveLongpoll, rate, steady>>

\* The batches up to the limit: the loop looks at it after each of them.
Batches == IF max_nonce = 0 THEN 1 ELSE (max_nonce + scanner.lanes - 1) \div scanner.lanes

\* The nonce after the last batch; it wraps if it does not fit.
Last == Batches * scanner.lanes

FullScan == Last < Width /\ ScanAndAdjust(Last, Last)

\* A solution or a restart ends the scan with one of its batches.
ShortScan ==
    \E b \in 1 .. Batches :
        LET h == b * scanner.lanes
        IN  h < Width /\ \E n \in {h, h - scanner.missed} : ScanAndAdjust(n, h)

\* A scan that never meets its limit goes round until it finds a solution or is
\* restarted; hashes_done counts from the last wrap on.
WrappedScan ==
    /\ Last >= Width
    /\ \E w \in 1 .. MaxWraps, b \in 0 .. Batches - 1 :
           LET n == b * scanner.lanes IN ScanAndAdjust(n, w * Width + n)

\* json_rpc_call, in the work I/O thread, sees the long-poll header.
Activate ==
    /\ ~haveLongpoll
    /\ haveLongpoll' = TRUE
    /\ scantime' = LpScanTime
    /\ adjusted' = FALSE
    /\ UNCHANGED <<scanner, max_nonce, rate, steady>>

ChangeRate ==
    /\ ~steady
    /\ rate' \in Rates
    /\ steady' \in BOOLEAN
    /\ adjusted' = FALSE
    /\ UNCHANGED <<scanner, max_nonce, scantime, haveLongpoll>>

TimeNext == FullScan \/ ShortScan \/ WrappedScan \/ Activate \/ ChangeRate

TimeSpec == TimeInit /\ [][TimeNext]_timeVars

\* The miner goes on scanning, and now and then to the end.
TimeFairSpec == TimeSpec /\ WF_timeVars(FullScan)
-----------------------------------------------------------------------------
\* A full scan takes half of opt_scantime or more, or all the nonces there are;
\* but for the one nonce that the division loses and those that sse2_64 does not
\* count when it has found something.
LongEnough ==
    \/ 2 * (max_nonce + 1 + scanner.missed * scantime) > scantime * rate
    \/ max_nonce = Cap

\* The limit keeps its distance from 2^32, where it would be cut off, and once it
\* was adjusted to what was hashed a full scan takes from half to one and a half
\* times opt_scantime, as far as the nonces last.
ScanTimeMet ==
    /\ max_nonce <= Cap
    /\ adjusted => 2 * max_nonce <= 3 * scantime * rate /\ LongEnough

\* No scan with the limit the scanner has, or will be given, steps over 2^32.
StaysBelow ==
    \/ Cap <= Width - scanner.lanes
    \/ /\ max_nonce <= Width - scanner.lanes - 1
       /\ 3 * scantime * rate < 2 * (Width - scanner.lanes)

\* A limit a full scan at this rate takes half a second for is put right by
\* that scan, and stays right.
ReachesScanTime ==
    (steady /\ haveLongpoll /\ 2 * max_nonce > rate /\ StaysBelow) ~> []adjusted

\* cpu-miner.c: "adjust max_nonce to meet target scan time".
MeetsScanTime == steady ~> LongEnough
=============================================================================
