------------------------------- MODULE Minerd -------------------------------
(***************************************************************************)
(* The threads of minerd (cpu-miner.c) and the queues between them.        *)
(*                                                                         *)
(* main() starts the work I/O thread, the long-poll thread and             *)
(* opt_n_threads miner threads, then joins the work I/O thread: when that  *)
(* one ends, the process ends, whatever the others do.  A miner asks for   *)
(* work and hands in solutions through thr_info[work_thr_id].q, and gets   *)
(* its answer through its own queue; the first getwork reply that carries  *)
(* an X-Long-Polling header hands its path to the long-poll thread, which  *)
(* from then on raises the restart flag of every miner at each new block.  *)
(*                                                                         *)
(* A queue operation (tq_push, tq_pop, tq_freeze) is one step here: it     *)
(* holds the queue's mutex, and ThreadQueue shows what one step of it may  *)
(* do.  A piece of work is the number of the block it builds on, 0 for     *)
(* none.  What a scan tests before it returns is module ScanHash; here     *)
(* a scan is a bounded number of batches.  opt_scantime, which activation  *)
(* sets to 60 with have_longpoll, is read by module ScanTime only.         *)
(***************************************************************************)
EXTENDS Integers, Sequences

CONSTANTS
    N,              \* opt_n_threads
    OptRetries,     \* opt_retries: failed calls to retry, negative: no limit
    LpRetries,      \* consecutive long-poll failures survived (10 in the code)
    WantLongpoll,   \* want_longpoll
    Faults,         \* what may go wrong, a subset of FaultKinds
    MaxBlock,       \* bound: blocks the server ever has
    MaxBatch        \* bound: batches of one scan

(***************************************************************************)
(* "oom"       an allocation returns NULL once main() has started threads  *)
(* "spurious"  pthread_cond_wait returns without a signal                  *)
(* "rpc"       json_rpc_call returns NULL: no reply, or not a valid one    *)
(* "curl"      curl_easy_init returns NULL                                 *)
(* "create"    tq_new or pthread_create fails in main()                    *)
(***************************************************************************)
FaultKinds == {"oom", "spurious", "rpc", "curl", "create"}

ASSUME ThreadsAssumption == N \in Nat \ {0}
ASSUME RetriesAssumption == OptRetries \in Int /\ LpRetries \in Nat
ASSUME OptionsAssumption == WantLongpoll \in BOOLEAN /\ Faults \subseteq FaultKinds
ASSUME BoundsAssumption == MaxBlock \in Nat \ {0} /\ MaxBatch \in Nat

Miners == 0 .. N - 1
WorkThr == N                    \* work_thr_id
LongpollThr == N + 1            \* longpoll_thr_id
Threads == 0 .. N + 1           \* the indexes of thr_info

Blocks == 1 .. MaxBlock
NoWork == 0
Work == Blocks \cup {NoWork}

\* A command carries its miner; a solution is copied into it.
GetCmd(m) == [cmd |-> "get", thr |-> m, work |-> NoWork]
SubmitCmd(m, w) == [cmd |-> "submit", thr |-> m, work |-> w]
WorkioCmd == [cmd : {"get", "submit"}, thr : Miners, work : Work]
Poison == GetCmd(0)             \* a freed command: all its bytes are zero

VARIABLES
    main,           \* where main() is
    started,        \* miner threads main() has created
    pc,             \* pc[t]: where thread t is, "none" before it exists
    wq,             \* thr_info[work_thr_id].q: the commands
    mq,             \* mq[m] = thr_info[m].q: the answers to miner m
    lpq,            \* thr_info[longpoll_thr_id].q: the long-poll path
    frozen,         \* frozen[t] = thr_info[t].q->frozen
    wc,             \* the command work I/O is executing
    failures,       \* its failed calls so far
    answer,         \* ret_work
    work,           \* work[m]: miner m's local copy
    restart,        \* work_restart[m].restart
    batch,          \* batch[m]: batches of the scan done so far
    haveLongpoll,   \* have_longpoll
    lpNext,         \* restart_threads: the next index
    lpFailures,     \* longpoll_thread: failures
    block,          \* the server's current block
    lpSeen,         \* the block the server last reported to the long poll
    asked,          \* history: the server's block when m asked for its work
    unsent          \* history: m's solution the server has not yet answered

mainVars == <<main, started>>
queueVars == <<wq, mq, lpq, frozen>>
workioVars == <<wc, failures, answer, haveLongpoll>>
minerVars == <<work, batch>>
lpVars == <<lpNext, lpFailures>>
serverVars == <<block, lpSeen>>
historyVars == <<asked, unsent>>
vars == <<mainVars, pc, queueVars, workioVars, minerVars, restart, lpVars,
          serverVars, historyVars>>

MinerPC == {"none", "get_work", "wait", "scanhash", "scan", "submit", "out", "dead"}
WorkioPC == {"none", "init", "pop", "get", "pause", "push", "submit", "out", "dead"}
LongpollPC == {"none", "pop", "connect", "call", "restart", "out", "dead"}

MainTypes ==
    /\ main \in {"workio", "longpoll", "miners", "join", "exited"}
    /\ started \in 0 .. N

PcTypes ==
    /\ pc \in [Threads -> MinerPC \cup WorkioPC \cup LongpollPC]
    /\ \A m \in Miners : pc[m] \in MinerPC
    /\ pc[WorkThr] \in WorkioPC
    /\ pc[LongpollThr] \in LongpollPC

QueueTypes ==
    /\ wq \in Seq(WorkioCmd)
    /\ mq \in [Miners -> Seq(Blocks)]
    /\ lpq \in Seq({"path"})
    /\ frozen \in [Threads -> BOOLEAN]

WorkioTypes ==
    /\ wc \in WorkioCmd
    /\ failures \in Nat
    /\ OptRetries >= 0 => failures <= OptRetries
    /\ answer \in Work
    /\ pc[WorkThr] = "push" => answer # NoWork
    /\ haveLongpoll \in BOOLEAN

MinerTypes ==
    /\ work \in [Miners -> Work]
    /\ \A m \in Miners : pc[m] \in {"scanhash", "scan", "submit"} => work[m] # NoWork
    /\ restart \in [Miners -> BOOLEAN]
    /\ batch \in [Miners -> 0 .. MaxBatch]
    /\ unsent \in [Miners -> Work]

LongpollTypes == lpNext \in Miners /\ lpFailures \in 0 .. LpRetries

ServerTypes == block \in Blocks /\ lpSeen \in 0 .. block /\ asked \in [Miners -> 0 .. block]

TypeOK ==
    /\ MainTypes /\ PcTypes /\ QueueTypes /\ WorkioTypes
    /\ MinerTypes /\ LongpollTypes /\ ServerTypes

Init ==
    /\ main = "workio"
    /\ started = 0
    /\ pc = [t \in Threads |-> "none"]
    /\ wq = <<>>
    /\ mq = [m \in Miners |-> <<>>]
    /\ lpq = <<>>
    /\ frozen = [t \in Threads |-> FALSE]
    /\ wc = Poison
    /\ failures = 0
    /\ answer = NoWork
    /\ work = [m \in Miners |-> NoWork]
    /\ restart = [m \in Miners |-> FALSE]
    /\ batch = [m \in Miners |-> 0]
    /\ haveLongpoll = FALSE
    /\ lpNext = 0
    /\ lpFailures = 0
    /\ block = 1
    /\ lpSeen = 1
    /\ asked = [m \in Miners |-> 0]
    /\ unsent = [m \in Miners |-> NoWork]

Goto(t, label) == pc' = [pc EXCEPT ![t] = label]

\* Thread t takes a step from `from`, while the process lives.
At(t, from) == main # "exited" /\ pc[t] = from

(***************************************************************************)
(* tq_push on the queue of thread t appends unless the queue is frozen or  *)
(* the entry cannot be allocated.                                          *)
(***************************************************************************)
MayPush(t) == ~frozen[t]
MayNotPush(t) == frozen[t] \/ "oom" \in Faults

\* json_rpc_call may return NULL.
CallMayFail == Faults \cap {"rpc", "oom"} # {}

-----------------------------------------------------------------------------
(* main() *)

MainRest == UNCHANGED <<queueVars, workioVars, minerVars, restart, lpVars,
                        serverVars, historyVars>>

\* The queue of thread t and the thread itself; return 1 if either fails.
StartThread(t, first, next) ==
    \/ /\ Goto(t, first)
       /\ main' = next
    \/ /\ "create" \in Faults
       /\ main' = "exited"
       /\ UNCHANGED pc

StartWorkio ==
    /\ main = "workio"
    /\ StartThread(WorkThr, "init", IF WantLongpoll THEN "longpoll" ELSE "miners")
    /\ UNCHANGED started
    /\ MainRest

StartLongpoll ==
    /\ main = "longpoll"
    /\ StartThread(LongpollThr, "pop", "miners")
    /\ UNCHANGED started
    /\ MainRest

StartMiner ==
    /\ main = "miners"
    /\ StartThread(started, "get_work", IF started = N - 1 THEN "join" ELSE "miners")
    /\ started' = started + 1
    /\ MainRest

\* Mutant: main() joins the long-poll thread.
JoinWorkio_Longpoll ==
    /\ main = "join"
    /\ pc[LongpollThr] = "dead"
    /\ main' = "exited"
    /\ UNCHANGED <<started, pc>>
    /\ MainRest

JoinWorkio ==
    /\ main = "join"
    /\ pc[WorkThr] = "dead"
    /\ main' = "exited"
    /\ UNCHANGED <<started, pc>>
    /\ MainRest

MainStep == StartWorkio \/ StartLongpoll \/ StartMiner \/ JoinWorkio

-----------------------------------------------------------------------------
(* workio_thread *)

WorkioRest == UNCHANGED <<mainVars, minerVars, restart, lpVars, serverVars, asked>>

\* A thread whose curl_easy_init fails returns at once, its queue not frozen.
WorkioInit ==
    /\ At(WorkThr, "init")
    /\ \/ Goto(WorkThr, "pop")
       \/ "curl" \in Faults /\ Goto(WorkThr, "dead")
    /\ UNCHANGED <<queueVars, workioVars, unsent>>
    /\ WorkioRest

\* The command is freed, and its count of failures with it.
CommandDone(next) ==
    /\ wc' = Poison
    /\ failures' = 0
    /\ Goto(WorkThr, next)

\* Mutant: tq_pop takes the newest entry.
WorkioPop_Last ==
    /\ At(WorkThr, "pop")
    /\ wq # <<>>
    /\ wq' = SubSeq(wq, 1, Len(wq) - 1)
    /\ \/ /\ wc' = wq[Len(wq)]
          /\ Goto(WorkThr, wq[Len(wq)].cmd)
          /\ UNCHANGED failures
       \/ /\ wq[Len(wq)].cmd = "get"
          /\ "oom" \in Faults
          /\ CommandDone("out")
    /\ UNCHANGED <<mq, lpq, frozen, answer, haveLongpoll, unsent>>
    /\ WorkioRest

\* tq_pop gives a command; workio_get_work first allocates the answer.
WorkioPop ==
    /\ At(WorkThr, "pop")
    /\ wq # <<>>
    /\ wq' = Tail(wq)
    /\ \/ /\ wc' = Head(wq)
          /\ Goto(WorkThr, Head(wq).cmd)
          /\ UNCHANGED failures
       \/ /\ Head(wq).cmd = "get"
          /\ "oom" \in Faults
          /\ CommandDone("out")
    /\ UNCHANGED <<mq, lpq, frozen, answer, haveLongpoll, unsent>>
    /\ WorkioRest

\* tq_pop waits once: woken with the queue still empty, it returns NULL.
WorkioSpurious ==
    /\ At(WorkThr, "pop")
    /\ wq = <<>>
    /\ "spurious" \in Faults
    /\ Goto(WorkThr, "out")
    /\ UNCHANGED <<queueVars, workioVars, unsent>>
    /\ WorkioRest

\* Mutant: the header is looked for in every reply.
LpActivation_Again ==
    \/ UNCHANGED <<haveLongpoll, lpq>>
    \/ /\ WantLongpoll
       /\ haveLongpoll' = TRUE
       /\ \/ MayPush(LongpollThr) /\ lpq' = Append(lpq, "path")
          \/ MayNotPush(LongpollThr) /\ UNCHANGED lpq

(***************************************************************************)
(* The end of json_rpc_call's HTTP exchange: a reply may carry the         *)
(* X-Long-Polling header, looked for until one came.  It activates long    *)
(* polling even when the body of the reply is then refused.                *)
(***************************************************************************)
LpActivation ==
    \/ UNCHANGED <<haveLongpoll, lpq>>
    \/ /\ WantLongpoll
       /\ ~haveLongpoll
       /\ haveLongpoll' = TRUE
       /\ \/ MayPush(LongpollThr) /\ lpq' = Append(lpq, "path")
          \/ MayNotPush(LongpollThr) /\ UNCHANGED lpq

\* Mutant: a negative opt_retries is a limit like any other.
CallFailed_AnyLimit ==
    \/ failures + 1 > OptRetries /\ CommandDone("out")
    \/ /\ failures + 1 <= OptRetries
       /\ failures' = failures + 1
       /\ Goto(WorkThr, "pause")
       /\ UNCHANGED wc

\* One more failed call: give up beyond opt_retries, if that is a limit;
\* otherwise sleep for opt_fail_pause seconds.
CallFailed ==
    \/ /\ OptRetries >= 0
       /\ failures + 1 > OptRetries
       /\ CommandDone("out")
    \/ /\ OptRetries >= 0
       /\ failures + 1 <= OptRetries
       /\ failures' = failures + 1
       /\ Goto(WorkThr, "pause")
       /\ UNCHANGED wc
    \/ /\ OptRetries < 0
       /\ Goto(WorkThr, "pause")
       /\ UNCHANGED <<wc, failures>>

PauseEnd ==
    /\ At(WorkThr, "pause")
    /\ Goto(WorkThr, wc.cmd)
    /\ UNCHANGED <<queueVars, workioVars, unsent>>
    /\ WorkioRest

GetReply ==
    /\ At(WorkThr, "get")
    /\ LpActivation
    /\ answer' = block
    /\ Goto(WorkThr, "push")
    /\ UNCHANGED <<wq, mq, frozen, wc, failures, unsent>>
    /\ WorkioRest

\* Mutant: a failed call ends the command.
GetFailed_Dropped ==
    /\ At(WorkThr, "get")
    /\ CallMayFail
    /\ LpActivation
    /\ CommandDone("pop")
    /\ UNCHANGED <<wq, mq, frozen, answer, unsent>>
    /\ WorkioRest

GetFailed ==
    /\ At(WorkThr, "get")
    /\ CallMayFail
    /\ LpActivation
    /\ CallFailed
    /\ UNCHANGED <<wq, mq, frozen, answer, unsent>>
    /\ WorkioRest

\* An answer that cannot be queued is freed, and the command still counts as done.
PushAnswer ==
    /\ At(WorkThr, "push")
    /\ \/ MayPush(wc.thr) /\ mq' = [mq EXCEPT ![wc.thr] = Append(@, answer)]
       \/ MayNotPush(wc.thr) /\ UNCHANGED mq
    /\ answer' = NoWork
    /\ CommandDone("pop")
    /\ UNCHANGED <<wq, lpq, frozen, haveLongpoll, unsent>>
    /\ WorkioRest

\* A reply of false (not accepted) ends the command like one of true.
SubmitReply ==
    /\ At(WorkThr, "submit")
    /\ unsent' = [unsent EXCEPT ![wc.thr] = NoWork]
    /\ CommandDone("pop")
    /\ UNCHANGED <<queueVars, answer, haveLongpoll>>
    /\ WorkioRest

\* Mutant: a failed call ends the command.
SubmitFailed_Dropped ==
    /\ At(WorkThr, "submit")
    /\ CallMayFail
    /\ CommandDone("pop")
    /\ UNCHANGED <<queueVars, answer, haveLongpoll, unsent>>
    /\ WorkioRest

\* bin2hex without memory counts as a failed call.
SubmitFailed ==
    /\ At(WorkThr, "submit")
    /\ CallMayFail
    /\ CallFailed
    /\ UNCHANGED <<queueVars, answer, haveLongpoll, unsent>>
    /\ WorkioRest

WorkioOut ==
    /\ At(WorkThr, "out")
    /\ frozen' = [frozen EXCEPT ![WorkThr] = TRUE]
    /\ Goto(WorkThr, "dead")
    /\ UNCHANGED <<wq, mq, lpq, workioVars, unsent>>
    /\ WorkioRest

WorkioRun ==
    \/ WorkioInit \/ WorkioPop \/ GetReply \/ GetFailed \/ PauseEnd
    \/ PushAnswer \/ SubmitReply \/ SubmitFailed \/ WorkioOut

WorkioStep == WorkioRun \/ WorkioSpurious

-----------------------------------------------------------------------------
(* miner_thread *)

MinerRest == UNCHANGED <<mainVars, lpq, workioVars, lpVars, serverVars>>

\* get_work: send the request to the work I/O thread.
GetWork(m) ==
    /\ At(m, "get_work")
    /\ \/ /\ MayPush(WorkThr)
          /\ wq' = Append(wq, GetCmd(m))
          /\ asked' = [asked EXCEPT ![m] = block]
          /\ Goto(m, "wait")
       \/ /\ MayNotPush(WorkThr)
          /\ Goto(m, "out")
          /\ UNCHANGED <<wq, asked>>
    /\ UNCHANGED <<mq, frozen, minerVars, restart, unsent>>
    /\ MinerRest

\* Mutant: the answer stays in the queue.
PopWork_Kept(m) ==
    /\ At(m, "wait")
    /\ mq[m] # <<>>
    /\ work' = [work EXCEPT ![m] = Head(mq[m])]
    /\ Goto(m, "scanhash")
    /\ UNCHANGED <<wq, mq, frozen, batch, restart, asked, unsent>>
    /\ MinerRest

\* get_work: wait for the answer and copy it.
PopWork(m) ==
    /\ At(m, "wait")
    /\ mq[m] # <<>>
    /\ work' = [work EXCEPT ![m] = Head(mq[m])]
    /\ mq' = [mq EXCEPT ![m] = Tail(@)]
    /\ Goto(m, "scanhash")
    /\ UNCHANGED <<wq, frozen, batch, restart, asked, unsent>>
    /\ MinerRest

\* Mutant: a miner that got no answer asks again.
PopSpurious_AsksAgain(m) ==
    /\ At(m, "wait")
    /\ mq[m] = <<>>
    /\ "spurious" \in Faults
    /\ Goto(m, "get_work")
    /\ UNCHANGED <<wq, mq, frozen, minerVars, restart, asked, unsent>>
    /\ MinerRest

PopSpurious(m) ==
    /\ At(m, "wait")
    /\ mq[m] = <<>>
    /\ "spurious" \in Faults
    /\ Goto(m, "out")
    /\ UNCHANGED <<wq, mq, frozen, minerVars, restart, asked, unsent>>
    /\ MinerRest

\* scanhash_*: the flag is lowered when the scan begins, with the work in hand.
ScanStart(m) ==
    /\ At(m, "scanhash")
    /\ restart' = [restart EXCEPT ![m] = FALSE]
    /\ batch' = [batch EXCEPT ![m] = 0]
    /\ Goto(m, "scan")
    /\ UNCHANGED <<wq, mq, frozen, work, asked, unsent>>
    /\ MinerRest

ScanFound(m) ==
    /\ At(m, "scan")
    /\ unsent' = [unsent EXCEPT ![m] = work[m]]
    /\ Goto(m, "submit")
    /\ UNCHANGED <<wq, mq, frozen, minerVars, restart, asked>>
    /\ MinerRest

\* `work` is local to one turn of the miner's loop.
WorkDropped(m) ==
    /\ work' = [work EXCEPT ![m] = NoWork]
    /\ asked' = [asked EXCEPT ![m] = 0]

\* Mutant: a miner whose scan ended scans the same work again.
ScanEnd_Rescan(m) ==
    /\ At(m, "scan")
    /\ Goto(m, "scanhash")
    /\ UNCHANGED <<wq, mq, frozen, minerVars, restart, asked, unsent>>
    /\ MinerRest

\* A batch without a solution: the nonces ran out (after any batch, since
\* max_nonce may be anything) or the flag is up.
ScanEnd(m) ==
    /\ At(m, "scan")
    /\ WorkDropped(m)
    /\ Goto(m, "get_work")
    /\ UNCHANGED <<wq, mq, frozen, batch, restart, unsent>>
    /\ MinerRest

\* A batch without a solution, nonces left and the flag down.
ScanOn(m) ==
    /\ At(m, "scan")
    /\ ~restart[m]
    /\ batch[m] < MaxBatch
    /\ batch' = [batch EXCEPT ![m] = @ + 1]
    /\ UNCHANGED <<pc, wq, mq, frozen, work, restart, asked, unsent>>
    /\ MinerRest

SubmitWork(m) ==
    /\ At(m, "submit")
    /\ \/ /\ MayPush(WorkThr)
          /\ wq' = Append(wq, SubmitCmd(m, work[m]))
          /\ Goto(m, "get_work")
       \/ /\ MayNotPush(WorkThr)
          /\ Goto(m, "out")
          /\ UNCHANGED wq
    /\ WorkDropped(m)
    /\ UNCHANGED <<mq, frozen, batch, restart, unsent>>
    /\ MinerRest

MinerOut(m) ==
    /\ At(m, "out")
    /\ frozen' = [frozen EXCEPT ![m] = TRUE]
    /\ Goto(m, "dead")
    /\ UNCHANGED <<wq, mq, minerVars, restart, asked, unsent>>
    /\ MinerRest

MinerRun(m) ==
    \/ GetWork(m) \/ PopWork(m) \/ ScanStart(m) \/ ScanFound(m)
    \/ ScanEnd(m) \/ ScanOn(m) \/ SubmitWork(m) \/ MinerOut(m)

MinerStep(m) == MinerRun(m) \/ PopSpurious(m)

-----------------------------------------------------------------------------
(* longpoll_thread *)

LongpollRest == UNCHANGED <<mainVars, wq, mq, workioVars, minerVars, block, historyVars>>

LpPop ==
    /\ At(LongpollThr, "pop")
    /\ lpq # <<>>
    /\ lpq' = Tail(lpq)
    /\ Goto(LongpollThr, "connect")
    /\ UNCHANGED <<frozen, restart, lpVars, lpSeen>>
    /\ LongpollRest

LpSpurious ==
    /\ At(LongpollThr, "pop")
    /\ lpq = <<>>
    /\ "spurious" \in Faults
    /\ Goto(LongpollThr, "out")
    /\ UNCHANGED <<lpq, frozen, restart, lpVars, lpSeen>>
    /\ LongpollRest

\* Build the URL and the curl handle.
LpConnect ==
    /\ At(LongpollThr, "connect")
    /\ \/ Goto(LongpollThr, "call")
       \/ Faults \cap {"oom", "curl"} # {} /\ Goto(LongpollThr, "out")
    /\ UNCHANGED <<lpq, frozen, restart, lpVars, lpSeen>>
    /\ LongpollRest

\* The server answers a long poll when it has a block it has not reported.
LpReply ==
    /\ At(LongpollThr, "call")
    /\ lpSeen < block
    /\ lpSeen' = block
    /\ lpFailures' = 0
    /\ lpNext' = 0
    /\ Goto(LongpollThr, "restart")
    /\ UNCHANGED <<lpq, frozen, restart>>
    /\ LongpollRest

LpFailed ==
    /\ At(LongpollThr, "call")
    /\ CallMayFail
    /\ IF lpFailures < LpRetries
       THEN lpFailures' = lpFailures + 1 /\ UNCHANGED pc
       ELSE Goto(LongpollThr, "out") /\ UNCHANGED lpFailures
    /\ UNCHANGED <<lpq, frozen, restart, lpNext, lpSeen>>
    /\ LongpollRest

\* restart_threads: one store.
LpRestart ==
    /\ At(LongpollThr, "restart")
    /\ restart' = [restart EXCEPT ![lpNext] = TRUE]
    /\ IF lpNext = N - 1
       THEN Goto(LongpollThr, "call") /\ UNCHANGED lpNext
       ELSE lpNext' = lpNext + 1 /\ UNCHANGED pc
    /\ UNCHANGED <<lpq, frozen, lpFailures, lpSeen>>
    /\ LongpollRest

LpOut ==
    /\ At(LongpollThr, "out")
    /\ frozen' = [frozen EXCEPT ![LongpollThr] = TRUE]
    /\ Goto(LongpollThr, "dead")
    /\ UNCHANGED <<lpq, restart, lpVars, lpSeen>>
    /\ LongpollRest

LongpollRun == LpPop \/ LpConnect \/ LpReply \/ LpFailed \/ LpRestart \/ LpOut

LongpollStep == LongpollRun \/ LpSpurious

-----------------------------------------------------------------------------
(* The bitcoin network gives the server a new block. *)
NewBlock ==
    /\ main # "exited"
    /\ block < MaxBlock
    /\ block' = block + 1
    /\ UNCHANGED <<mainVars, pc, queueVars, workioVars, minerVars, restart,
                   lpVars, lpSeen, historyVars>>

\* The process is gone: nothing happens any more.
Exited == main = "exited" /\ UNCHANGED vars

Next ==
    \/ MainStep
    \/ WorkioStep
    \/ \E m \in Miners : MinerStep(m)
    \/ LongpollStep
    \/ NewBlock
    \/ Exited

Spec == Init /\ [][Next]_vars

\* Every thread is scheduled: one that can go on does so in the end.  Nothing
\* wakes a thread without a signal for sure, and no block is sure to come.
FairSpec ==
    /\ Spec
    /\ WF_vars(MainStep)
    /\ WF_vars(WorkioRun)
    /\ \A m \in Miners : WF_vars(MinerRun(m))
    /\ WF_vars(LongpollRun)

\* The server is never out of reach for good.
OutageSpec == FairSpec /\ SF_vars(GetReply) /\ SF_vars(SubmitReply)
-----------------------------------------------------------------------------
(* What must hold of the threads together. *)

Busy == pc[WorkThr] \in {"get", "pause", "push", "submit"}
Executing(c) == Busy /\ wc = c
Queued(c) == \E i \in DOMAIN wq : wq[i] = c
SolutionPending(m) == Queued(SubmitCmd(m, unsent[m])) \/ Executing(SubmitCmd(m, unsent[m]))
WorkioEnding == pc[WorkThr] \in {"out", "dead"}
MinerEnding(m) == pc[m] \in {"out", "dead"}

InOrder(c, d) == c.thr = d.thr => c.cmd = "submit" /\ d.cmd = "get"

\* Of each miner the commands not yet executed are at most a solution and,
\* behind it, one request for work; so the unbounded queue stays short.
SubmitBeforeGet ==
    /\ \A i, j \in DOMAIN wq : i < j => InOrder(wq[i], wq[j])
    /\ Busy => \A i \in DOMAIN wq : InOrder(wc, wq[i])

\* A miner blocked in tq_pop has its request queued or executed, or its
\* answer waiting, unless work I/O ends (and the process with it) or there
\* was no memory to queue the request's answer.
NoOrphanWait ==
    \A m \in Miners : pc[m] = "wait" =>
        \/ Queued(GetCmd(m))
        \/ Executing(GetCmd(m))
        \/ mq[m] # <<>>
        \/ WorkioEnding
        \/ "oom" \in Faults

\* A solution the server has not answered is still with its miner, queued or
\* being sent, with the work it was found for; it is lost only with work I/O,
\* or with a miner that had no memory to queue it.
SolutionTracked ==
    \A m \in Miners : unsent[m] # NoWork =>
        \/ pc[m] = "submit" /\ work[m] = unsent[m]
        \/ SolutionPending(m)
        \/ WorkioEnding
        \/ "oom" \in Faults /\ MinerEnding(m)

\* A miner gets new work only after the server has answered what it found in
\* the work before.
SolvedBeforeNext ==
    \A m \in Miners : pc[m] \in {"scanhash", "scan"} \/ mq[m] # <<>> => unsent[m] = NoWork

\* No answer is older than the request it answers, so work made stale by a
\* new block (a lost restart included) is scanned at most once more.
FreshWork ==
    \A m \in Miners : pc[m] \in {"scanhash", "scan", "submit"} => work[m] >= asked[m]

(***************************************************************************)
(* Why: the inductive invariant behind the five properties above.          *)
(***************************************************************************)

\* A command still to be executed: its miner has no answer waiting and has not
\* gone on; a solution is the one its miner found last, and goes before the
\* request.
CommandOK(c) ==
    /\ mq[c.thr] = <<>>
    /\ c.cmd = "get" =>
          /\ c = GetCmd(c.thr)
          /\ pc[c.thr] \in {"wait", "out", "dead"}
          /\ unsent[c.thr] # NoWork => SolutionPending(c.thr) \/ WorkioEnding
    /\ c.cmd = "submit" =>
          /\ c = SubmitCmd(c.thr, unsent[c.thr])
          /\ unsent[c.thr] # NoWork
          /\ pc[c.thr] \in {"get_work", "wait", "out", "dead"}

CommandsOK == \A c \in WorkioCmd : Queued(c) \/ Executing(c) => CommandOK(c)

WorkioOK ==
    /\ pc[WorkThr] \in {"get", "push"} => wc.cmd = "get"
    /\ pc[WorkThr] = "submit" => wc.cmd = "submit"
    /\ pc[WorkThr] = "push" => answer >= asked[wc.thr]

\* A miner has at most one answer, and that only while it waits or after it
\* gave up waiting.
AnswersOK ==
    \A m \in Miners :
        /\ Len(mq[m]) <= 1
        /\ mq[m] # <<>> => pc[m] \in {"wait", "out", "dead"} /\ mq[m][1] >= asked[m]
        /\ pc[m] = "submit" => unsent[m] = work[m]

FrozenOK ==
    /\ \A m \in Miners : frozen[m] => pc[m] = "dead"
    /\ frozen[WorkThr] => pc[WorkThr] = "dead"

\* The conversation of every miner with work I/O is in order.
RequestInv ==
    /\ SubmitBeforeGet /\ CommandsOK /\ WorkioOK /\ AnswersOK /\ FrozenOK
    /\ NoOrphanWait /\ SolutionTracked /\ SolvedBeforeNext /\ FreshWork

\* The queue a thread writes to exists: main() starts work I/O before it
\* creates the long-poll queue, and that before any miner.
QueuesCreated ==
    /\ haveLongpoll => pc[LongpollThr] # "none"
    /\ \A i \in DOMAIN wq : pc[wq[i].thr] # "none"
    /\ \A m \in Miners : pc[m] # "none" => pc[WorkThr] # "none"

\* The path of the long poll is handed over at most once, and once it was,
\* somebody is polling or about to, until the long-poll thread ends, or unless
\* there was no memory to queue the path.
LongpollOnce ==
    /\ pc[LongpollThr] \in {"connect", "call", "restart"} => haveLongpoll /\ lpq = <<>>
    /\ ~haveLongpoll => lpq = <<>>
    /\ haveLongpoll =>
          \/ pc[LongpollThr] = "pop" /\ lpq # <<>>
          \/ pc[LongpollThr] \in {"connect", "call", "restart", "out", "dead"}
          \/ "oom" \in Faults

\* A miner that waits for work gets it, or the process ends.
WaitEnds == \A m \in Miners : pc[m] = "wait" ~> (pc[m] # "wait" \/ main = "exited")

\* A solution found is sent until the server answers, or the process ends.
SolutionSent == \A m \in Miners : unsent[m] # NoWork ~> (unsent[m] = NoWork \/ main = "exited")

\* Once work I/O has ended, with its queue frozen or not, the process ends.
WorkioDeathEnds == pc[WorkThr] = "dead" ~> main = "exited"

\* After the last block no miner goes on with work of an older one.
StaleWorkLeaves ==
    block = MaxBlock ~> [](main = "exited" \/ \A m \in Miners : work[m] \in {NoWork, MaxBlock})

\* With no limit on retries an outage of the server is survived: a miner that
\* waits gets work, a solution gets its answer.
OutageSurvived ==
    \A m \in Miners :
        /\ pc[m] = "wait" ~> pc[m] = "scanhash"
        /\ unsent[m] # NoWork ~> unsent[m] = NoWork
-----------------------------------------------------------------------------
(***************************************************************************)
(* The client the threads make together: what a miner asks or hands in is  *)
(* on its way while it is queued or executed, until work I/O ends.         *)
(***************************************************************************)

PlaceOf(label) ==
    CASE label \in {"none", "get_work"} -> "idle"
      [] label = "wait" -> "asking"
      [] label \in {"scanhash", "scan"} -> "working"
      [] label = "submit" -> "solved"
      [] label \in {"out", "dead"} -> "gone"

place == [m \in Miners |-> PlaceOf(pc[m])]

requests ==
    {m \in Miners : ~WorkioEnding /\ (Queued(GetCmd(m)) \/ (Executing(GetCmd(m)) /\ pc[WorkThr] # "push"))}

offer ==
    [m \in Miners |->
        IF pc[WorkThr] = "push" /\ wc.thr = m THEN answer
        ELSE IF mq[m] # <<>> THEN Head(mq[m])
        ELSE NoWork]

holding == [m \in Miners |-> IF place[m] \in {"working", "solved"} THEN work[m] ELSE NoWork]

handed == {m \in Miners : ~WorkioEnding /\ SolutionPending(m)}

Client == INSTANCE GetworkClient WITH
    Miner <- Miners, open <- ~WorkioEnding, work <- holding, solution <- unsent,
    MayLose <- "oom" \in Faults,
    MayWake <- "spurious" \in Faults,
    MayClose <- Faults \cap {"oom", "spurious", "curl"} # {} \/ ("rpc" \in Faults /\ OptRetries >= 0)

\* All threads together are one client of the getwork server: whatever the
\* order in which their steps come, each is a step of one miner's conversation
\* or none, so answers are of their moment and given once, no new work comes
\* before the answer to a solution, and nothing is forgotten before the end.
Conversation == Client!Spec
=============================================================================
