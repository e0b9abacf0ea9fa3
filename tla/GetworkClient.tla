---------------------------- MODULE GetworkClient ----------------------------
(***************************************************************************)
(* What minerd promises the getwork server and its own miners: a miner has *)
(* one request at a time, which is answered at most once, with the block   *)
(* of that moment, and only after the server has answered the miner's last *)
(* solution; and nothing sent is forgotten before the client closes.       *)
(***************************************************************************)
EXTENDS Naturals

CONSTANTS
    Miner,
    MaxBlock,
    NoWork,         \* no block
    MayLose,        \* may memory be missing?
    MayWake,        \* may a miner be woken without an answer?
    MayClose        \* may the client have reason to close?

VARIABLES
    block,          \* the server's current block
    open,           \* requests and solutions still go out
    place,          \* place[m]: what miner m is at
    requests,       \* the miners whose request the server has yet to answer
    offer,          \* offer[m]: the answer m has yet to take
    work,           \* work[m]: the work m is at
    solution,       \* solution[m]: m's last solution, until the server answers it
    handed          \* the miners whose solution is on its way

vars == <<block, open, place, requests, offer, work, solution, handed>>

None == [m \in Miner |-> NoWork]

Init ==
    /\ block = 1 /\ open = TRUE
    /\ place = [m \in Miner |-> "idle"]
    /\ requests = {} /\ handed = {}
    /\ offer = None /\ work = None /\ solution = None

\* Miner m goes from one place to another.
Moves(m, from, to) == place[m] = from /\ place' = [place EXCEPT ![m] = to]

\* What is sent once the client has closed goes nowhere.
Sent(S, m) == IF open THEN S \cup {m} ELSE S

Ask(m) ==
    /\ Moves(m, "idle", "asking")
    /\ requests' = Sent(requests, m)
    /\ UNCHANGED <<block, open, offer, work, solution, handed>>

\* However often the call had to be repeated, the server's answer is one.
Answer(m) ==
    /\ m \in requests /\ offer[m] = NoWork /\ solution[m] = NoWork
    /\ requests' = requests \ {m}
    /\ offer' = [offer EXCEPT ![m] = block]
    /\ UNCHANGED <<block, open, place, work, solution, handed>>

\* An answer is lost for want of memory or of a miner.
Lose(m) ==
    /\ offer[m] # NoWork
    /\ MayLose \/ place[m] = "gone"
    /\ offer' = [offer EXCEPT ![m] = NoWork]
    /\ UNCHANGED <<block, open, place, requests, work, solution, handed>>

Take(m) ==
    /\ Moves(m, "asking", "working")
    /\ offer[m] # NoWork
    /\ work' = [work EXCEPT ![m] = offer[m]]
    /\ offer' = [offer EXCEPT ![m] = NoWork]
    /\ UNCHANGED <<block, open, requests, solution, handed>>

Leave(m) ==
    /\ Moves(m, "working", "idle")
    /\ work' = [work EXCEPT ![m] = NoWork]
    /\ UNCHANGED <<block, open, requests, offer, solution, handed>>

Solve(m) ==
    /\ Moves(m, "working", "solved")
    /\ solution[m] = NoWork
    /\ solution' = [solution EXCEPT ![m] = work[m]]
    /\ UNCHANGED <<block, open, requests, offer, work, handed>>

HandIn(m) ==
    /\ Moves(m, "solved", "idle")
    /\ work' = [work EXCEPT ![m] = NoWork]
    /\ handed' = Sent(handed, m)
    /\ UNCHANGED <<block, open, requests, offer, solution>>

\* The server answers a solution, accepted or not.
Settle(m) ==
    /\ m \in handed
    /\ handed' = handed \ {m}
    /\ solution' = [solution EXCEPT ![m] = NoWork]
    /\ UNCHANGED <<block, open, place, requests, offer, work>>

\* A miner ends when it cannot send or gets no answer; an answer on its way
\* finds nobody, a solution not yet handed in is lost.
Quit(m) ==
    /\ \/ Moves(m, "idle", "gone") /\ (MayLose \/ ~open)
       \/ Moves(m, "asking", "gone") /\ MayWake
       \/ Moves(m, "solved", "gone") /\ (MayLose \/ ~open)
    /\ work' = [work EXCEPT ![m] = NoWork]
    /\ UNCHANGED <<block, open, requests, offer, solution, handed>>

Close ==
    /\ MayClose /\ open
    /\ open' = FALSE /\ requests' = {} /\ handed' = {}
    /\ UNCHANGED <<block, place, offer, work, solution>>

NewBlock ==
    /\ block < MaxBlock
    /\ block' = block + 1
    /\ UNCHANGED <<open, place, requests, offer, work, solution, handed>>

Next ==
    \/ \E m \in Miner :
        \/ Ask(m) \/ Answer(m) \/ Lose(m) \/ Take(m) \/ Leave(m)
        \/ Solve(m) \/ HandIn(m) \/ Settle(m) \/ Quit(m)
    \/ Close \/ NewBlock

Spec == Init /\ [][Next]_vars
=============================================================================
