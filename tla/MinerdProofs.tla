----------------------------- MODULE MinerdProofs -----------------------------
(***************************************************************************)
(* What holds of Minerd for every number of threads, every retry limit and *)
(* every combination of faults.                                            *)
(***************************************************************************)
EXTENDS Minerd, SequenceTheorems, TLAPS

USE ThreadsAssumption, RetriesAssumption, OptionsAssumption, BoundsAssumption

-----------------------------------------------------------------------------
(* Types.  main() must not create a miner beyond the last one. *)

\* Thread ids are distinct.
LEMMA ThreadIds ==
    /\ WorkThr \in Threads \ Miners
    /\ LongpollThr \in Threads \ Miners
    /\ WorkThr # LongpollThr
    /\ Miners \subseteq Threads
    /\ \A t \in Threads : t \in Miners \/ t = WorkThr \/ t = LongpollThr
  BY DEF Threads, Miners, WorkThr, LongpollThr

\* Where thread t goes, nobody else moves.
LEMMA GotoMoves ==
    ASSUME NEW t \in Threads, NEW l, PcTypes, Goto(t, l)
    PROVE  /\ pc'[t] = l
           /\ \A u \in Threads : u # t => pc'[u] = pc[u]
           /\ pc' \in [Threads -> MinerPC \cup WorkioPC \cup LongpollPC \cup {l}]
  BY DEF PcTypes, Goto

LEMMA GotoTypes ==
    ASSUME NEW t \in Threads, NEW l, PcTypes, Goto(t, l),
           \/ t \in Miners /\ l \in MinerPC
           \/ t = WorkThr /\ l \in WorkioPC
           \/ t = LongpollThr /\ l \in LongpollPC
    PROVE  PcTypes'
<1>1. pc' \in [Threads -> MinerPC \cup WorkioPC \cup LongpollPC]
  BY GotoMoves
<1>2. /\ \A m \in Miners : pc'[m] \in MinerPC
      /\ pc'[WorkThr] \in WorkioPC
      /\ pc'[LongpollThr] \in LongpollPC
  BY ThreadIds, GotoMoves DEF PcTypes
<1>3. QED
  BY <1>1, <1>2 DEF PcTypes, WorkThr, LongpollThr, Miners, Threads

Startup ==
    /\ main = "workio" => pc[WorkThr] = "none"
    /\ main \in {"workio", "longpoll"} => pc[LongpollThr] = "none"
    /\ main \in {"workio", "longpoll", "miners"} => started < N
    /\ \A m \in Miners : m >= started => pc[m] = "none"
    /\ started > 0 => pc[WorkThr] # "none" /\ (WantLongpoll => pc[LongpollThr] # "none")
    /\ main \in {"longpoll", "miners"} => pc[WorkThr] # "none"
    /\ main = "miners" /\ WantLongpoll => pc[LongpollThr] # "none"

TypeInv == TypeOK /\ Startup

LEMMA InitTypes == Init => TypeInv
<1> SUFFICES ASSUME Init PROVE TypeInv
  OBVIOUS
<1> USE DEF Init
<1>1. MainTypes /\ PcTypes
  BY ThreadIds DEF MainTypes, PcTypes, MinerPC, WorkioPC, LongpollPC
<1>2. QueueTypes
  BY DEF QueueTypes
<1>3. WorkioTypes
  <2>1. wc \in WorkioCmd
    BY DEF WorkioCmd, Poison, GetCmd, Work, NoWork, Miners
  <2>2. QED
    BY <2>1, ThreadIds DEF WorkioTypes, Work, NoWork
<1>4. MinerTypes
  BY ThreadIds DEF MinerTypes, Work, NoWork
<1>5. LongpollTypes /\ ServerTypes
  BY DEF LongpollTypes, ServerTypes, Blocks, Miners
<1>6. Startup
  BY ThreadIds DEF Startup
<1>7. QED
  BY <1>1, <1>2, <1>3, <1>4, <1>5, <1>6 DEF TypeInv, TypeOK

LEMMA MainStepTypes == TypeInv /\ MainStep => TypeInv'
<1> SUFFICES ASSUME TypeInv, MainStep PROVE TypeInv'
  OBVIOUS
<1>1. MainRest
  BY DEF MainStep, StartWorkio, StartLongpoll, StartMiner, JoinWorkio
<1>2. /\ MainTypes' /\ PcTypes' /\ Startup'
      /\ \A t \in Threads : pc'[t] = pc[t] \/ pc'[t] \in {"init", "pop", "get_work"}
  <2> USE ThreadIds DEF TypeInv, TypeOK, MainTypes, Startup, StartThread
  <2>1. CASE StartWorkio
    <3>1. PcTypes'
      BY <2>1, GotoTypes DEF StartWorkio, WorkioPC, PcTypes
    <3>2. QED
      BY <2>1, <3>1, GotoMoves DEF StartWorkio
  <2>2. CASE StartLongpoll
    <3>1. PcTypes'
      BY <2>2, GotoTypes DEF StartLongpoll, LongpollPC, PcTypes
    <3>2. QED
      BY <2>2, <3>1, GotoMoves DEF StartLongpoll
  <2>3. CASE StartMiner
    <3>1. started \in Miners
      BY <2>3 DEF StartMiner, Miners
    <3>2. PcTypes'
      BY <2>3, <3>1, GotoTypes DEF StartMiner, MinerPC, PcTypes
    <3>3. QED
      BY <2>3, <3>1, <3>2, GotoMoves DEF StartMiner
  <2>4. CASE JoinWorkio
    BY <2>4 DEF JoinWorkio, PcTypes
  <2>5. QED
    BY <2>1, <2>2, <2>3, <2>4 DEF MainStep
<1>3. QueueTypes' /\ LongpollTypes' /\ ServerTypes'
  BY <1>1 DEF MainRest, TypeInv, TypeOK, QueueTypes, LongpollTypes, ServerTypes,
     queueVars, lpVars, serverVars, historyVars
<1>4. WorkioTypes' /\ MinerTypes'
  BY <1>1, <1>2, ThreadIds DEF MainRest, TypeInv, TypeOK, WorkioTypes, MinerTypes,
     workioVars, minerVars, historyVars
<1>5. QED
  BY <1>2, <1>3, <1>4 DEF TypeInv, TypeOK

\* The head of the queue of commands is a command.
LEMMA CommandPopped ==
    ASSUME wq \in Seq(WorkioCmd), wq # <<>>
    PROVE  /\ Head(wq) \in WorkioCmd
           /\ Head(wq).cmd \in {"get", "submit"}
           /\ Head(wq).thr \in Miners
           /\ Tail(wq) \in Seq(WorkioCmd)
<1>1. Head(wq) \in WorkioCmd /\ Tail(wq) \in Seq(WorkioCmd)
  BY HeadTailProperties
<1>2. QED
  BY <1>1 DEF WorkioCmd

LEMMA PoisonTypes == Poison \in WorkioCmd
  BY DEF WorkioCmd, Poison, GetCmd, Work, NoWork, Miners

LEMMA WorkioStepTypes == TypeInv /\ WorkioStep => TypeInv'
<1> SUFFICES ASSUME TypeInv, WorkioStep PROVE TypeInv'
  OBVIOUS
<1> USE ThreadIds DEF TypeInv, TypeOK
<1>1. WorkioRest
  BY DEF WorkioStep, WorkioRun, WorkioInit, WorkioPop, WorkioSpurious, GetReply, GetFailed,
     PauseEnd, PushAnswer, SubmitReply, SubmitFailed, WorkioOut
<1>2. MainTypes' /\ LongpollTypes' /\ ServerTypes'
  BY <1>1 DEF WorkioRest, MainTypes, LongpollTypes, ServerTypes, mainVars, lpVars, serverVars
<1>3. \E l \in WorkioPC \ {"none"} :
        Goto(WorkThr, l) /\ (l = "push" => pc[WorkThr] = "get")
  <2>1. CASE WorkioInit \/ WorkioPop \/ WorkioSpurious
    BY <2>1, CommandPopped
    DEF WorkioInit, WorkioPop, WorkioSpurious, CommandDone, WorkioPC, QueueTypes
  <2>2. CASE GetReply \/ PauseEnd \/ PushAnswer \/ SubmitReply \/ WorkioOut
    BY <2>2 DEF GetReply, PauseEnd, PushAnswer, SubmitReply, WorkioOut, At, CommandDone,
       WorkioPC, WorkioTypes, WorkioCmd
  <2>3. CASE GetFailed \/ SubmitFailed
    BY <2>3 DEF GetFailed, SubmitFailed, CallFailed, CommandDone, WorkioPC
  <2>4. QED
    BY <2>1, <2>2, <2>3 DEF WorkioStep, WorkioRun
<1>4. PcTypes'
  BY <1>3, GotoTypes
<1>5. /\ pc'[WorkThr] # "none"
      /\ pc'[WorkThr] = "push" => pc[WorkThr] = "get"
      /\ \A t \in Threads : t # WorkThr => pc'[t] = pc[t]
  BY <1>3, GotoMoves
<1>6. Startup'
  <2>1. pc[WorkThr] # "none"
    BY DEF WorkioStep, WorkioRun, WorkioInit, WorkioPop, WorkioSpurious, GetReply, GetFailed,
       PauseEnd, PushAnswer, SubmitReply, SubmitFailed, WorkioOut, At
  <2>2. QED
    BY <1>1, <1>5, <2>1 DEF Startup, WorkioRest, mainVars
<1>7. QueueTypes'
  <2> USE DEF QueueTypes
  <2>1. CASE WorkioInit \/ WorkioSpurious \/ PauseEnd \/ SubmitReply \/ SubmitFailed
    BY <2>1 DEF WorkioInit, WorkioSpurious, PauseEnd, SubmitReply, SubmitFailed, queueVars
  <2>2. CASE WorkioPop
    BY <2>2, CommandPopped DEF WorkioPop
  <2>3. CASE GetReply \/ GetFailed
    <3>1. Append(lpq, "path") \in Seq({"path"})
      BY AppendProperties
    <3>. HIDE DEF QueueTypes
    <3>2. lpq' = lpq \/ lpq' = Append(lpq, "path")
      BY <2>3 DEF GetReply, GetFailed, LpActivation
    <3> USE DEF QueueTypes
    <3>3. QED
      BY <2>3, <3>1, <3>2 DEF GetReply, GetFailed
  <2>4. CASE PushAnswer
    <3>1. answer \in Blocks /\ wc.thr \in Miners
      BY <2>4 DEF PushAnswer, At, WorkioTypes, Work, WorkioCmd
    <3>2. Append(mq[wc.thr], answer) \in Seq(Blocks)
      BY <3>1, AppendProperties
    <3>3. QED
      BY <2>4, <3>1, <3>2 DEF PushAnswer
  <2>5. CASE WorkioOut
    BY <2>5 DEF WorkioOut
  <2>6. QED
    BY <2>1, <2>2, <2>3, <2>4, <2>5 DEF WorkioStep, WorkioRun
<1>8. WorkioTypes'
  <2> USE PoisonTypes DEF WorkioTypes, workioVars
  <2>1. CASE WorkioInit \/ WorkioSpurious \/ PauseEnd \/ WorkioOut
    BY <2>1, <1>5 DEF WorkioInit, WorkioSpurious, PauseEnd, WorkioOut, At
  <2>2. CASE WorkioPop
    BY <2>2, <1>5, CommandPopped DEF WorkioPop, At, CommandDone, QueueTypes
  <2>3. CASE GetReply
    <3>1. haveLongpoll' \in BOOLEAN
      BY <2>3 DEF GetReply, LpActivation
    <3>2. answer' \in Work /\ answer' # NoWork
      BY <2>3 DEF GetReply, Work, Blocks, NoWork, ServerTypes
    <3>3. QED
      BY <2>3, <3>1, <3>2 DEF GetReply
  <2>4. CASE GetFailed \/ SubmitFailed
    <3>1. pc'[WorkThr] # "push"
      BY <2>4, GotoMoves DEF GetFailed, SubmitFailed, CallFailed, CommandDone
    <3>2. haveLongpoll' \in BOOLEAN
      BY <2>4 DEF GetFailed, SubmitFailed, LpActivation
    <3>3. /\ wc' \in WorkioCmd
          /\ failures' \in Nat
          /\ OptRetries >= 0 => failures' <= OptRetries
      BY <2>4 DEF GetFailed, SubmitFailed, CallFailed, CommandDone
    <3>4. answer' = answer
      BY <2>4 DEF GetFailed, SubmitFailed
    <3>5. QED
      BY <3>1, <3>2, <3>3, <3>4
  <2>5. CASE PushAnswer \/ SubmitReply
    <3>1. pc'[WorkThr] # "push"
      BY <2>5, GotoMoves DEF PushAnswer, SubmitReply, CommandDone
    <3>2. QED
      BY <2>5, <3>1 DEF PushAnswer, SubmitReply, CommandDone, Work
  <2>6. QED
    BY <2>1, <2>2, <2>3, <2>4, <2>5 DEF WorkioStep, WorkioRun
<1>9. MinerTypes'
  <2>1. unsent' \in [Miners -> Work]
    <3>1. CASE SubmitReply
      BY <3>1 DEF SubmitReply, MinerTypes, Work
    <3>2. CASE ~SubmitReply
      BY <3>2 DEF WorkioStep, WorkioRun, WorkioInit, WorkioPop, WorkioSpurious, GetReply,
         GetFailed, PauseEnd, PushAnswer, SubmitFailed, WorkioOut, MinerTypes
    <3>3. QED
      BY <3>1, <3>2
  <2>2. QED
    BY <1>1, <1>5, <2>1 DEF WorkioRest, MinerTypes, minerVars
<1>10. QED
  BY <1>2, <1>4, <1>6, <1>7, <1>8, <1>9

LEMMA MinerStepTypes ==
    ASSUME NEW m \in Miners, TypeInv, MinerStep(m) PROVE TypeInv'
<1> USE ThreadIds DEF TypeInv, TypeOK
<1>1. MinerRest
  BY DEF MinerStep, MinerRun, GetWork, PopWork, PopSpurious, ScanStart, ScanFound, ScanEnd,
     ScanOn, SubmitWork, MinerOut
<1>2. MainTypes' /\ LongpollTypes'
  BY <1>1 DEF MinerRest, MainTypes, LongpollTypes, mainVars, lpVars
<1>3. /\ pc[m] # "none"
      /\ \/ UNCHANGED <<pc, work>> /\ pc[m] = "scan"
         \/ \E l \in MinerPC \ {"none"} :
              /\ Goto(m, l)
              /\ l \in {"scanhash", "scan", "submit"} =>
                    \/ pc[m] \in {"scanhash", "scan", "submit"} /\ UNCHANGED work
                    \/ PopWork(m)
  <2>1. CASE GetWork(m) \/ PopWork(m) \/ PopSpurious(m)
    BY <2>1 DEF GetWork, PopWork, PopSpurious, At, MinerPC
  <2>2. CASE ScanStart(m) \/ ScanFound(m) \/ ScanEnd(m)
    BY <2>2 DEF ScanStart, ScanFound, ScanEnd, At, MinerPC, minerVars
  <2>3. CASE ScanOn(m)
    BY <2>3 DEF ScanOn, At
  <2>4. CASE SubmitWork(m) \/ MinerOut(m)
    BY <2>4 DEF SubmitWork, MinerOut, At, MinerPC
  <2>5. QED
    BY <2>1, <2>2, <2>3, <2>4 DEF MinerStep, MinerRun
<1>4. PcTypes'
  BY <1>3, GotoTypes DEF PcTypes
<1>5. /\ pc'[m] # "none"
      /\ \A t \in Threads : t # m => pc'[t] = pc[t]
      /\ pc'[m] \in {"scanhash", "scan", "submit"} =>
              \/ pc[m] \in {"scanhash", "scan", "submit"} /\ UNCHANGED work
              \/ PopWork(m)
  <2>1. CASE UNCHANGED <<pc, work>> /\ pc[m] = "scan"
    BY <2>1, <1>3
  <2>2. CASE \E l \in MinerPC \ {"none"} :
              /\ Goto(m, l)
              /\ l \in {"scanhash", "scan", "submit"} =>
                    \/ pc[m] \in {"scanhash", "scan", "submit"} /\ UNCHANGED work
                    \/ PopWork(m)
    BY <2>2, GotoMoves
  <2>3. QED
    BY <1>3, <2>1, <2>2
<1>6. Startup'
  BY <1>1, <1>5, <1>3 DEF Startup, MinerRest, mainVars, Miners
<1>7. QueueTypes'
  <2> USE DEF QueueTypes
  <2>1. CASE PopWork(m)
    <3>1. Tail(mq[m]) \in Seq(Blocks)
      BY <2>1, HeadTailProperties DEF PopWork
    <3>2. QED
      BY <2>1, <3>1, <1>1 DEF PopWork, MinerRest
  <2>2. CASE GetWork(m) \/ SubmitWork(m)
    <3>1. /\ GetCmd(m) \in WorkioCmd
          /\ SubmitCmd(m, work[m]) \in WorkioCmd
      BY DEF GetCmd, SubmitCmd, WorkioCmd, MinerTypes, Work, NoWork
    <3>2. /\ Append(wq, GetCmd(m)) \in Seq(WorkioCmd)
          /\ Append(wq, SubmitCmd(m, work[m])) \in Seq(WorkioCmd)
      BY <3>1, AppendProperties
    <3>3. QED
      BY <2>2, <3>2, <1>1 DEF GetWork, SubmitWork, MinerRest
  <2>3. CASE MinerOut(m)
    BY <2>3, <1>1 DEF MinerOut, MinerRest
  <2>4. CASE PopSpurious(m) \/ ScanStart(m) \/ ScanFound(m) \/ ScanEnd(m) \/ ScanOn(m)
    BY <2>4, <1>1 DEF PopSpurious, ScanStart, ScanFound, ScanEnd, ScanOn, MinerRest
  <2>5. QED
    BY <2>1, <2>2, <2>3, <2>4 DEF MinerStep, MinerRun
<1>8. WorkioTypes'
  BY <1>1, <1>5 DEF MinerRest, WorkioTypes, workioVars
<1>9. MinerTypes'
  <2>1. /\ work' \in [Miners -> Work]
        /\ \A n \in Miners : n # m => work'[n] = work[n]
        /\ PopWork(m) => work'[m] # NoWork
    <3>1. CASE PopWork(m)
      <4>1. Head(mq[m]) \in Blocks
        BY <3>1, HeadTailProperties DEF PopWork, QueueTypes
      <4>2. QED
        BY <3>1, <4>1 DEF PopWork, MinerTypes, Work, Blocks, NoWork
    <3>2. CASE ScanEnd(m) \/ SubmitWork(m)
      BY <3>2 DEF ScanEnd, SubmitWork, PopWork, WorkDropped, At, MinerTypes, Work
    <3>3. CASE GetWork(m) \/ PopSpurious(m) \/ ScanStart(m) \/ ScanFound(m) \/ ScanOn(m) \/ MinerOut(m)
      BY <3>3 DEF GetWork, PopSpurious, ScanStart, ScanFound, ScanOn, MinerOut, PopWork, At,
         minerVars, MinerTypes
    <3>4. QED
      BY <3>1, <3>2, <3>3 DEF MinerStep, MinerRun
  <2>2. \A n \in Miners : pc'[n] \in {"scanhash", "scan", "submit"} => work'[n] # NoWork
    BY <1>5, <2>1 DEF MinerTypes
  <2>3. /\ restart' \in [Miners -> BOOLEAN]
        /\ batch' \in [Miners -> 0 .. MaxBatch]
        /\ unsent' \in [Miners -> Work]
    <3>1. CASE ScanStart(m)
      BY <3>1 DEF ScanStart, MinerTypes
    <3>2. CASE ScanFound(m)
      BY <3>2 DEF ScanFound, minerVars, MinerTypes
    <3>3. CASE ScanOn(m)
      <4>1. batch[m] + 1 \in 0 .. MaxBatch
        BY <3>3 DEF ScanOn, MinerTypes
      <4>2. QED
        BY <3>3, <4>1 DEF ScanOn, MinerTypes
    <3>4. CASE GetWork(m) \/ PopWork(m) \/ PopSpurious(m) \/ ScanEnd(m) \/ SubmitWork(m) \/ MinerOut(m)
      BY <3>4 DEF GetWork, PopWork, PopSpurious, ScanEnd, SubmitWork, MinerOut, minerVars, MinerTypes
    <3>5. QED
      BY <3>1, <3>2, <3>3, <3>4 DEF MinerStep, MinerRun
  <2>4. QED
    BY <2>1, <2>2, <2>3 DEF MinerTypes
<1>10. ServerTypes'
  <2>1. asked' \in [Miners -> 0 .. block]
    <3>1. CASE GetWork(m) \/ ScanEnd(m) \/ SubmitWork(m)
      <4>1. 0 \in 0 .. block /\ block \in 0 .. block
        BY DEF ServerTypes, Blocks
      <4>2. QED
        BY <3>1, <4>1 DEF GetWork, ScanEnd, SubmitWork, WorkDropped, ServerTypes
    <3>2. CASE PopWork(m) \/ PopSpurious(m) \/ ScanStart(m) \/ ScanFound(m) \/ ScanOn(m) \/ MinerOut(m)
      BY <3>2 DEF PopWork, PopSpurious, ScanStart, ScanFound, ScanOn, MinerOut, ServerTypes
    <3>3. QED
      BY <3>1, <3>2 DEF MinerStep, MinerRun
  <2>2. QED
    BY <1>1, <2>1 DEF MinerRest, ServerTypes, serverVars
<1>11. QED
  BY <1>2, <1>4, <1>6, <1>7, <1>8, <1>9, <1>10

LEMMA LongpollStepTypes == TypeInv /\ LongpollStep => TypeInv'
<1> SUFFICES ASSUME TypeInv, LongpollStep PROVE TypeInv'
  OBVIOUS
<1> USE ThreadIds DEF TypeInv, TypeOK
<1>1. LongpollRest
  BY DEF LongpollStep, LongpollRun, LpPop, LpSpurious, LpConnect, LpReply, LpFailed, LpRestart, LpOut
<1>2. pc[LongpollThr] # "none" /\ (UNCHANGED pc \/ \E l \in LongpollPC \ {"none"} : Goto(LongpollThr, l))
  BY DEF LongpollStep, LongpollRun, LpPop, LpSpurious, LpConnect, LpReply, LpFailed, LpRestart,
     LpOut, LongpollPC, At
<1>3. PcTypes'
  BY <1>2, GotoTypes DEF PcTypes
<1>4. pc'[LongpollThr] # "none" /\ \A t \in Threads : t # LongpollThr => pc'[t] = pc[t]
  BY <1>2, GotoMoves
<1>5. MainTypes' /\ Startup' /\ WorkioTypes'
  BY <1>1, <1>2, <1>4 DEF LongpollRest, MainTypes, Startup, WorkioTypes, mainVars, workioVars
<1>6. QueueTypes'
  <2>1. lpq' \in Seq({"path"})
    <3>1. lpq' = lpq \/ (lpq # <<>> /\ lpq' = Tail(lpq))
      BY DEF LongpollStep, LongpollRun, LpPop, LpSpurious, LpConnect, LpReply, LpFailed,
         LpRestart, LpOut
    <3>2. lpq \in Seq({"path"})
      BY DEF QueueTypes
    <3>3. QED
      BY <3>1, <3>2, HeadTailProperties
  <2>2. frozen' \in [Threads -> BOOLEAN]
    BY DEF LongpollStep, LongpollRun, LpPop, LpSpurious, LpConnect, LpReply, LpFailed,
       LpRestart, LpOut, QueueTypes
  <2>3. QED
    BY <1>1, <2>1, <2>2 DEF LongpollRest, QueueTypes
<1>7. LongpollTypes'
  BY DEF LongpollStep, LongpollRun, LpPop, LpSpurious, LpConnect, LpReply, LpFailed, LpRestart,
     LpOut, LongpollTypes, lpVars, Miners
<1>8. MinerTypes'
  <2>1. restart' \in [Miners -> BOOLEAN]
    BY DEF LongpollStep, LongpollRun, LpPop, LpSpurious, LpConnect, LpReply, LpFailed, LpRestart,
       LpOut, MinerTypes, LongpollTypes
  <2>2. QED
    BY <1>1, <1>4, <2>1 DEF LongpollRest, MinerTypes, minerVars, historyVars
<1>9. ServerTypes'
  <2>1. lpSeen' = lpSeen \/ lpSeen' = block
    BY DEF LongpollStep, LongpollRun, LpPop, LpSpurious, LpConnect, LpReply, LpFailed, LpRestart, LpOut
  <2>2. QED
    BY <1>1, <2>1 DEF LongpollRest, ServerTypes, historyVars, Blocks
<1>10. QED
  BY <1>3, <1>5, <1>6, <1>7, <1>8, <1>9

LEMMA NewBlockTypes == TypeInv /\ NewBlock => TypeInv'
  BY DEF NewBlock, TypeInv, TypeOK, Startup, MainTypes, PcTypes, QueueTypes, WorkioTypes, MinerTypes,
     LongpollTypes, ServerTypes, Blocks, mainVars, queueVars, workioVars, minerVars, lpVars, historyVars

LEMMA StutterTypes == TypeInv /\ UNCHANGED vars => TypeInv'
  BY DEF vars, TypeInv, TypeOK, Startup, MainTypes, PcTypes, QueueTypes, WorkioTypes, MinerTypes,
     LongpollTypes, ServerTypes, mainVars, queueVars, workioVars, minerVars, lpVars, serverVars, historyVars

LEMMA NextTypes == TypeInv /\ [Next]_vars => TypeInv'
  BY MainStepTypes, WorkioStepTypes, MinerStepTypes, LongpollStepTypes, NewBlockTypes, StutterTypes
     DEF Next, Exited

\* Every variable keeps its type: main() creates exactly N miners, the failure
\* count never passes the limit, a thread that scans has work.
THEOREM TypesCorrect == Spec => []TypeOK
<1>1. TypeInv => TypeOK
  BY DEF TypeInv
<1>2. QED
  BY InitTypes, NextTypes, <1>1, PTL DEF Spec

-----------------------------------------------------------------------------
(* The conversation of the miners with work I/O. *)

LEMMA QueuedAppend ==
    ASSUME wq \in Seq(WorkioCmd), NEW c \in WorkioCmd, wq' = Append(wq, c)
    PROVE  /\ \A d : Queued(d)' <=> Queued(d) \/ d = c
           /\ DOMAIN wq' = 1 .. Len(wq) + 1
           /\ \A i \in DOMAIN wq : wq'[i] = wq[i]
           /\ wq'[Len(wq) + 1] = c
<1>1. /\ DOMAIN wq' = 1 .. Len(wq) + 1
      /\ DOMAIN wq = 1 .. Len(wq)
      /\ \A i \in DOMAIN wq : wq'[i] = wq[i]
      /\ wq'[Len(wq) + 1] = c
  BY AppendProperties
<1>2. QED
  BY <1>1 DEF Queued

LEMMA QueuedPop ==
    ASSUME wq \in Seq(WorkioCmd), wq # <<>>, wq' = Tail(wq)
    PROVE  /\ \A d : Queued(d)' => Queued(d)
           /\ \A d : Queued(d) => Queued(d)' \/ d = Head(wq)
           /\ Queued(Head(wq))
           /\ DOMAIN wq' = 1 .. Len(wq) - 1
           /\ \A i \in DOMAIN wq' : i + 1 \in DOMAIN wq /\ wq'[i] = wq[i + 1]
           /\ Head(wq) = wq[1] /\ 1 \in DOMAIN wq
<1>1. /\ DOMAIN wq' = 1 .. Len(wq) - 1
      /\ DOMAIN wq = 1 .. Len(wq)
      /\ Len(wq) \in Nat /\ Len(wq) > 0
      /\ \A i \in DOMAIN wq' : wq'[i] = wq[i + 1]
      /\ Head(wq) = wq[1]
  BY HeadTailProperties
<1>2. \A d : Queued(d) => Queued(d)' \/ d = Head(wq)
  <2> SUFFICES ASSUME NEW i \in DOMAIN wq, i # 1 PROVE i - 1 \in DOMAIN wq' /\ wq'[i - 1] = wq[i]
    BY <1>1 DEF Queued
  <2>1. QED
    BY <1>1
<1>3. QED
  BY <1>1, <1>2 DEF Queued

LEMMA InitRequests == Init => RequestInv
<1> SUFFICES ASSUME Init PROVE RequestInv
  OBVIOUS
<1>1. DOMAIN wq = {} /\ ~Busy
  BY ThreadIds DEF Init, Busy
<1>2. /\ \A m \in Miners : pc[m] = "none" /\ mq[m] = <<>> /\ ~frozen[m] /\ unsent[m] = NoWork
      /\ pc[WorkThr] = "none" /\ ~frozen[WorkThr]
  BY ThreadIds DEF Init
<1>3. QED
  BY <1>1, <1>2 DEF RequestInv, SubmitBeforeGet, CommandsOK, WorkioOK, AnswersOK, FrozenOK,
     NoOrphanWait, SolutionTracked, SolvedBeforeNext, FreshWork, Queued, Executing

\* What the invariant does not mention may change, and a thread may be created.
LEMMA RequestFrame ==
    ASSUME TypeInv, RequestInv,
           UNCHANGED <<wq, mq, wc, answer, work, asked, unsent>>,
           \A t \in Threads \ {LongpollThr} :
              /\ frozen'[t] = frozen[t]
              /\ \/ pc'[t] = pc[t]
                 \/ pc[t] = "none" /\ pc'[t] \in {"init", "get_work"}
    PROVE  RequestInv'
<1>1. \A m \in Miners :
         /\ frozen'[m] = frozen[m]
         /\ pc'[m] = pc[m] \/ (pc[m] = "none" /\ pc'[m] \in {"init", "get_work"})
  BY ThreadIds
<1>2. /\ frozen'[WorkThr] = frozen[WorkThr]
      /\ pc'[WorkThr] = pc[WorkThr] \/ (pc[WorkThr] = "none" /\ pc'[WorkThr] \in {"init", "get_work"})
  BY ThreadIds
<1>3. /\ Busy' <=> Busy
      /\ \A c : Queued(c)' <=> Queued(c)
      /\ \A c : Executing(c)' <=> Executing(c)
  BY <1>2 DEF Busy, Queued, Executing
<1>4. SubmitBeforeGet'
  BY <1>3 DEF RequestInv, SubmitBeforeGet, InOrder
<1>5. CommandsOK'
  <2> SUFFICES ASSUME NEW c \in WorkioCmd, Queued(c) \/ Executing(c) PROVE CommandOK(c)'
    BY <1>3 DEF CommandsOK
  <2>1. CommandOK(c) /\ c.thr \in Miners
    BY DEF RequestInv, CommandsOK, WorkioCmd
  <2>2. /\ SolutionPending(c.thr) => SolutionPending(c.thr)'
        /\ WorkioEnding => WorkioEnding'
    BY <1>2, <1>3 DEF SolutionPending, WorkioEnding
  <2>3. QED
    BY <1>1, <2>1, <2>2 DEF CommandOK
<1>6. WorkioOK' /\ FrozenOK'
  BY <1>1, <1>2 DEF RequestInv, WorkioOK, FrozenOK
<1>7. AnswersOK' /\ SolvedBeforeNext' /\ FreshWork'
  BY <1>1 DEF RequestInv, AnswersOK, SolvedBeforeNext, FreshWork
<1>8. NoOrphanWait' /\ SolutionTracked'
  BY <1>1, <1>2, <1>3 DEF RequestInv, NoOrphanWait, SolutionTracked, SolutionPending, WorkioEnding, MinerEnding
<1>9. QED
  BY <1>4, <1>5, <1>6, <1>7, <1>8 DEF RequestInv

LEMMA MainRequests == TypeInv /\ RequestInv /\ MainStep => RequestInv'
<1> SUFFICES ASSUME TypeInv, RequestInv, MainStep PROVE RequestInv'
  OBVIOUS
<1>1. MainRest
  BY DEF MainStep, StartWorkio, StartLongpoll, StartMiner, JoinWorkio
<1>2. \A t \in Threads \ {LongpollThr} :
         pc'[t] = pc[t] \/ (pc[t] = "none" /\ pc'[t] \in {"init", "get_work"})
  <2> USE ThreadIds DEF TypeInv, TypeOK, Startup, StartThread
  <2>1. CASE StartWorkio
    BY <2>1, GotoMoves DEF StartWorkio
  <2>2. CASE StartLongpoll
    BY <2>2, GotoMoves DEF StartLongpoll
  <2>3. CASE StartMiner
    <3>1. started \in Miners
      BY <2>3 DEF StartMiner, Miners, MainTypes
    <3>2. pc[started] = "none"
      BY <3>1 DEF Miners
    <3>3. QED
      BY <2>3, <3>1, <3>2, GotoMoves DEF StartMiner
  <2>4. CASE JoinWorkio
    BY <2>4 DEF JoinWorkio
  <2>5. QED
    BY <2>1, <2>2, <2>3, <2>4 DEF MainStep
<1>3. QED
  BY <1>1, <1>2, RequestFrame DEF MainRest, queueVars, workioVars, minerVars, historyVars

LEMMA LongpollRequests == TypeInv /\ RequestInv /\ LongpollStep => RequestInv'
<1> SUFFICES ASSUME TypeInv, RequestInv, LongpollStep PROVE RequestInv'
  OBVIOUS
<1>1. LongpollRest
  BY DEF LongpollStep, LongpollRun, LpPop, LpSpurious, LpConnect, LpReply, LpFailed, LpRestart, LpOut
<1>2. UNCHANGED pc \/ \E l : Goto(LongpollThr, l)
  BY DEF LongpollStep, LongpollRun, LpPop, LpSpurious, LpConnect, LpReply, LpFailed, LpRestart, LpOut
<1>3. \A t \in Threads \ {LongpollThr} : pc'[t] = pc[t]
  BY <1>2, GotoMoves, ThreadIds DEF TypeInv, TypeOK
<1>4. \A t \in Threads \ {LongpollThr} : frozen'[t] = frozen[t]
  BY DEF LongpollStep, LongpollRun, LpPop, LpSpurious, LpConnect, LpReply, LpFailed, LpRestart, LpOut,
     TypeInv, TypeOK, QueueTypes
<1>5. QED
  BY <1>1, <1>3, <1>4, RequestFrame DEF LongpollRest, workioVars, minerVars, historyVars

\* Work I/O goes on with its command, or ends and drops it.
LEMMA WorkioFrame ==
    ASSUME TypeInv, RequestInv,
           UNCHANGED <<wq, mq, work, asked, unsent>>,
           \A m \in Miners : pc'[m] = pc[m] /\ frozen'[m] = frozen[m],
           Busy' => Busy /\ wc' = wc,
           (Busy <=> Busy') \/ WorkioEnding',
           WorkioEnding => WorkioEnding',
           WorkioOK',
           frozen'[WorkThr] => pc'[WorkThr] = "dead"
    PROVE  RequestInv'
<1>1. /\ \A c : Queued(c)' <=> Queued(c)
      /\ \A c : Executing(c)' => Executing(c)
      /\ \A c : Executing(c) => Executing(c)' \/ WorkioEnding'
  BY DEF Queued, Executing
<1>2. SubmitBeforeGet'
  BY DEF RequestInv, SubmitBeforeGet, InOrder
<1>3. CommandsOK'
  <2> SUFFICES ASSUME NEW c \in WorkioCmd, Queued(c) \/ Executing(c) PROVE CommandOK(c)'
    BY <1>1 DEF CommandsOK
  <2>1. CommandOK(c) /\ c.thr \in Miners
    BY DEF RequestInv, CommandsOK, WorkioCmd
  <2>2. SolutionPending(c.thr) => SolutionPending(c.thr)' \/ WorkioEnding'
    BY <1>1 DEF SolutionPending
  <2>3. QED
    BY <2>1, <2>2 DEF CommandOK
<1>4. AnswersOK' /\ SolvedBeforeNext' /\ FreshWork' /\ FrozenOK'
  BY DEF RequestInv, AnswersOK, SolvedBeforeNext, FreshWork, FrozenOK
<1>5. NoOrphanWait' /\ SolutionTracked'
  BY <1>1 DEF RequestInv, NoOrphanWait, SolutionTracked, SolutionPending, MinerEnding
<1>6. QED
  BY <1>2, <1>3, <1>4, <1>5 DEF RequestInv

\* A command goes from the queue to work I/O, or is dropped as work I/O ends.
LEMMA PopRequests == TypeInv /\ RequestInv /\ WorkioPop => RequestInv'
<1> SUFFICES ASSUME TypeInv, RequestInv, WorkioPop PROVE RequestInv'
  OBVIOUS
<1>1. /\ wq \in Seq(WorkioCmd) /\ wq # <<>> /\ wq' = Tail(wq)
      /\ UNCHANGED <<mq, work, asked, unsent, frozen>>
      /\ pc[WorkThr] = "pop"
  BY DEF WorkioPop, WorkioRest, At, minerVars, TypeInv, TypeOK, QueueTypes
<1>2. Head(wq) \in WorkioCmd /\ Head(wq).cmd \in {"get", "submit"}
  BY <1>1, CommandPopped
<1>3. /\ \A t \in Threads : t # WorkThr => pc'[t] = pc[t]
      /\ \/ wc' = Head(wq) /\ pc'[WorkThr] = Head(wq).cmd
         \/ pc'[WorkThr] = "out"
  BY GotoMoves, ThreadIds DEF WorkioPop, CommandDone, TypeInv, TypeOK
<1>4. \A m \in Miners : pc'[m] = pc[m]
  BY <1>3, ThreadIds
<1>5. ~Busy /\ ~WorkioEnding
  BY <1>1 DEF Busy, WorkioEnding
<1>6. /\ Busy' => wc' = Head(wq) /\ pc'[WorkThr] = wc'.cmd
      /\ Busy' \/ WorkioEnding'
      /\ pc'[WorkThr] # "push"
  BY <1>2, <1>3 DEF Busy, WorkioEnding
<1>7. /\ \A c : Queued(c)' \/ Executing(c)' => Queued(c)
      /\ \A c : Queued(c) => Queued(c)' \/ Executing(c)' \/ WorkioEnding'
  BY <1>1, <1>6, QueuedPop DEF Executing
<1>8. SubmitBeforeGet'
  <2>1. ASSUME NEW i \in DOMAIN wq', NEW j \in DOMAIN wq', i < j
        PROVE  InOrder(wq'[i], wq'[j])
    <3>1. i + 1 \in DOMAIN wq /\ j + 1 \in DOMAIN wq /\ i + 1 < j + 1
      BY <1>1, <2>1, QueuedPop
    <3>2. wq'[i] = wq[i + 1] /\ wq'[j] = wq[j + 1]
      BY <1>1, <2>1, QueuedPop
    <3>3. QED
      BY <3>1, <3>2 DEF RequestInv, SubmitBeforeGet
  <2>2. ASSUME Busy', NEW i \in DOMAIN wq' PROVE InOrder(wc', wq'[i])
    <3>1. 1 \in DOMAIN wq /\ i + 1 \in DOMAIN wq /\ 1 < i + 1
      BY <1>1, QueuedPop
    <3>2. wc' = wq[1] /\ wq'[i] = wq[i + 1]
      BY <1>1, <1>6, <2>2, QueuedPop
    <3>3. QED
      BY <3>1, <3>2 DEF RequestInv, SubmitBeforeGet
  <2>3. QED
    BY <2>1, <2>2 DEF SubmitBeforeGet, InOrder
<1>9. CommandsOK'
  <2> SUFFICES ASSUME NEW c \in WorkioCmd, Queued(c) PROVE CommandOK(c)'
    BY <1>7 DEF CommandsOK
  <2>1. CommandOK(c) /\ c.thr \in Miners
    BY DEF RequestInv, CommandsOK, WorkioCmd
  <2>2. SolutionPending(c.thr) => SolutionPending(c.thr)' \/ WorkioEnding'
    BY <1>1, <1>5, <1>7 DEF SolutionPending, Executing
  <2>3. QED
    BY <1>1, <1>4, <1>5, <2>1, <2>2 DEF CommandOK
<1>10. WorkioOK'
  BY <1>2, <1>3, <1>6 DEF WorkioOK
<1>11. AnswersOK' /\ SolvedBeforeNext' /\ FreshWork'
  BY <1>1, <1>4 DEF RequestInv, AnswersOK, SolvedBeforeNext, FreshWork
<1>12. FrozenOK'
  BY <1>1, <1>4 DEF RequestInv, FrozenOK
<1>13. NoOrphanWait' /\ SolutionTracked'
  BY <1>1, <1>4, <1>5, <1>7 DEF RequestInv, NoOrphanWait, SolutionTracked, SolutionPending, MinerEnding, Executing
<1>14. QED
  BY <1>8, <1>9, <1>10, <1>11, <1>12, <1>13 DEF RequestInv

\* The answer reaches its miner, or nobody who waits.
LEMMA PushRequests == TypeInv /\ RequestInv /\ PushAnswer => RequestInv'
<1> SUFFICES ASSUME TypeInv, RequestInv, PushAnswer PROVE RequestInv'
  OBVIOUS
<1> DEFINE m == wc.thr
<1>1. /\ UNCHANGED <<wq, work, asked, unsent, frozen>>
      /\ pc[WorkThr] = "push"
      /\ m \in Miners /\ wc \in WorkioCmd /\ wc.cmd = "get"
      /\ answer \in Blocks /\ answer >= asked[m]
  BY DEF PushAnswer, WorkioRest, At, minerVars, TypeInv, TypeOK, WorkioTypes, WorkioCmd, Work,
     RequestInv, WorkioOK
<1>2. /\ \A n \in Miners : pc'[n] = pc[n]
      /\ pc'[WorkThr] = "pop"
  BY GotoMoves, ThreadIds DEF PushAnswer, CommandDone, TypeInv, TypeOK
<1>3. Busy /\ ~Busy' /\ Executing(wc)
  BY <1>1, <1>2 DEF Busy, Executing
<1>4. /\ mq[m] = <<>>
      /\ pc[m] \in {"wait", "out", "dead"}
      /\ \A c \in WorkioCmd : Queued(c) => c.thr # m
  <2>1. mq[m] = <<>> /\ pc[m] \in {"wait", "out", "dead"}
    BY <1>1, <1>3 DEF RequestInv, CommandsOK, CommandOK
  <2>2. \A i \in DOMAIN wq : wq[i].thr # m
    BY <1>1, <1>3 DEF RequestInv, SubmitBeforeGet, InOrder
  <2>3. QED
    BY <2>1, <2>2 DEF Queued
<1>5. \/ mq' = [mq EXCEPT ![m] = <<answer>>]
      \/ /\ mq' = mq
         /\ "oom" \in Faults \/ pc[m] = "dead"
  BY <1>1, <1>4 DEF PushAnswer, MayPush, MayNotPush, RequestInv, FrozenOK
<1>6. /\ mq \in [Miners -> Seq(Blocks)]
      /\ \A n \in Miners : n # m => mq'[n] = mq[n]
      /\ mq'[m] = <<answer>> \/ (mq'[m] = <<>> /\ ("oom" \in Faults \/ pc[m] = "dead"))
  BY <1>1, <1>4, <1>5 DEF TypeInv, TypeOK, QueueTypes
<1>7. /\ \A c : Queued(c)' <=> Queued(c)
      /\ \A c : ~Executing(c)'
      /\ \A c : Executing(c) => c = wc
  BY <1>1, <1>3 DEF Queued, Executing
<1>8. unsent[m] = NoWork
  <2>1. CASE unsent[m] # NoWork
    <3>1. SubmitCmd(m, unsent[m]) \in WorkioCmd /\ SubmitCmd(m, unsent[m]).thr = m
      BY <1>1 DEF SubmitCmd, WorkioCmd, TypeInv, TypeOK, MinerTypes
    <3>2. ~Queued(SubmitCmd(m, unsent[m])) /\ ~Executing(SubmitCmd(m, unsent[m]))
      <4>1. SubmitCmd(m, unsent[m]).cmd = "submit"
        BY DEF SubmitCmd
      <4>2. QED
        BY <1>1, <1>4, <1>7, <3>1, <4>1
    <3>3. ~WorkioEnding
      BY <1>1 DEF WorkioEnding
    <3>4. QED
      BY <1>1, <1>3, <2>1, <3>2, <3>3 DEF RequestInv, CommandsOK, CommandOK, SolutionPending
  <2>2. QED
    BY <2>1
<1>9. SubmitBeforeGet'
  BY <1>1, <1>3 DEF RequestInv, SubmitBeforeGet, InOrder
<1>10. CommandsOK'
  <2> SUFFICES ASSUME NEW c \in WorkioCmd, Queued(c) PROVE CommandOK(c)'
    BY <1>7 DEF CommandsOK
  <2>1. CommandOK(c) /\ c.thr \in Miners /\ c.thr # m
    BY <1>4 DEF RequestInv, CommandsOK, WorkioCmd
  <2>2. SubmitCmd(c.thr, unsent[c.thr]).thr = c.thr
    BY DEF SubmitCmd
  <2>3. SolutionPending(c.thr) => SolutionPending(c.thr)'
    BY <1>1, <1>7, <2>1, <2>2 DEF SolutionPending
  <2>4. ~WorkioEnding
    BY <1>1 DEF WorkioEnding
  <2>5. QED
    BY <1>1, <1>2, <1>6, <2>1, <2>3, <2>4 DEF CommandOK
<1>11. WorkioOK' /\ FrozenOK'
  BY <1>1, <1>2 DEF RequestInv, WorkioOK, FrozenOK
<1>12. AnswersOK'
  <2>1. mq'[m] = <<answer>> => Len(mq'[m]) = 1 /\ mq'[m][1] = answer
    OBVIOUS
  <2>2. mq'[m] = <<>> => Len(mq'[m]) = 0
    OBVIOUS
  <2>3. ASSUME NEW n \in Miners, n # m
        PROVE  /\ Len(mq'[n]) <= 1
               /\ mq'[n] # <<>> => pc'[n] \in {"wait", "out", "dead"} /\ mq'[n][1] >= asked'[n]
               /\ pc'[n] = "submit" => unsent'[n] = work'[n]
    BY <1>1, <1>2, <1>6, <2>3 DEF RequestInv, AnswersOK
  <2>4. /\ Len(mq'[m]) <= 1
        /\ mq'[m] # <<>> => pc'[m] \in {"wait", "out", "dead"} /\ mq'[m][1] >= asked'[m]
        /\ pc'[m] # "submit"
    <3>1. pc'[m] \in {"wait", "out", "dead"} /\ asked'[m] = asked[m]
      BY <1>1, <1>2, <1>4
    <3>2. CASE mq'[m] = <<answer>>
      BY <1>1, <2>1, <3>1, <3>2
    <3>3. CASE mq'[m] = <<>>
      BY <2>2, <3>1, <3>3
    <3>4. QED
      BY <1>6, <3>1, <3>2, <3>3
  <2>5. QED
    BY <2>3, <2>4 DEF AnswersOK
<1>13. SolvedBeforeNext' /\ FreshWork'
  <2>1. SolvedBeforeNext'
    BY <1>1, <1>2, <1>6, <1>8 DEF RequestInv, SolvedBeforeNext
  <2>2. FreshWork'
    BY <1>1, <1>2 DEF RequestInv, FreshWork
  <2>3. QED
    BY <2>1, <2>2
<1>14. NoOrphanWait'
  <2> SUFFICES ASSUME NEW n \in Miners, pc'[n] = "wait"
               PROVE  Queued(GetCmd(n)) \/ mq'[n] # <<>> \/ WorkioEnding' \/ "oom" \in Faults
    BY <1>7 DEF NoOrphanWait
  <2>1. CASE n = m
    <3>1. pc[m] # "dead"
      BY <1>2, <2>1
    <3>2. <<answer>> # <<>>
      OBVIOUS
    <3>3. QED
      BY <1>6, <2>1, <3>1, <3>2
  <2>2. CASE n # m
    <3>1. GetCmd(n) # wc
      BY <2>2 DEF GetCmd
    <3>2. ~WorkioEnding
      BY <1>1 DEF WorkioEnding
    <3>3. QED
      BY <1>2, <1>6, <1>7, <2>2, <3>1, <3>2 DEF RequestInv, NoOrphanWait
  <2>3. QED
    BY <2>1, <2>2
<1>15. SolutionTracked'
  <2> SUFFICES ASSUME NEW n \in Miners, unsent[n] # NoWork
               PROVE  \/ pc'[n] = "submit" /\ work[n] = unsent[n]
                      \/ Queued(SubmitCmd(n, unsent[n]))
                      \/ "oom" \in Faults /\ MinerEnding(n)'
    BY <1>1, <1>7 DEF SolutionTracked, SolutionPending
  <2>1. SubmitCmd(n, unsent[n]) # wc
    BY <1>1 DEF SubmitCmd
  <2>2. ~WorkioEnding
    BY <1>1 DEF WorkioEnding
  <2>3. QED
    BY <1>2, <1>7, <2>1, <2>2 DEF RequestInv, SolutionTracked, SolutionPending, MinerEnding
<1>16. QED
  BY <1>9, <1>10, <1>11, <1>12, <1>13, <1>14, <1>15 DEF RequestInv

\* The only solution its miner has is answered.
LEMMA SubmitRequests == TypeInv /\ RequestInv /\ SubmitReply => RequestInv'
<1> SUFFICES ASSUME TypeInv, RequestInv, SubmitReply PROVE RequestInv'
  OBVIOUS
<1> DEFINE m == wc.thr
<1>1. /\ UNCHANGED <<wq, mq, work, asked, frozen>>
      /\ pc[WorkThr] = "submit"
      /\ m \in Miners /\ wc \in WorkioCmd /\ wc.cmd = "submit"
      /\ unsent' = [unsent EXCEPT ![m] = NoWork]
      /\ unsent \in [Miners -> Work]
  BY DEF SubmitReply, WorkioRest, At, minerVars, queueVars, TypeInv, TypeOK, WorkioTypes, MinerTypes,
     WorkioCmd, RequestInv, WorkioOK
<1>2. /\ \A n \in Miners : pc'[n] = pc[n]
      /\ pc'[WorkThr] = "pop"
  BY GotoMoves, ThreadIds DEF SubmitReply, CommandDone, TypeInv, TypeOK
<1>3. Busy /\ ~Busy' /\ Executing(wc)
  BY <1>1, <1>2 DEF Busy, Executing
<1>4. /\ pc[m] \in {"get_work", "wait", "out", "dead"}
      /\ \A c \in WorkioCmd : Queued(c) /\ c.thr = m => c.cmd = "get"
  <2>1. pc[m] \in {"get_work", "wait", "out", "dead"}
    BY <1>1, <1>3 DEF RequestInv, CommandsOK, CommandOK
  <2>2. \A i \in DOMAIN wq : wq[i].thr = m => wq[i].cmd = "get"
    BY <1>1, <1>3 DEF RequestInv, SubmitBeforeGet, InOrder
  <2>3. QED
    BY <2>1, <2>2 DEF Queued
<1>5. unsent'[m] = NoWork /\ \A n \in Miners : n # m => unsent'[n] = unsent[n]
  BY <1>1
<1>6. /\ \A c : Queued(c)' <=> Queued(c)
      /\ \A c : ~Executing(c)'
      /\ \A c : Executing(c) => c = wc
  BY <1>1, <1>3 DEF Queued, Executing
<1>7. SubmitBeforeGet'
  BY <1>1, <1>3 DEF RequestInv, SubmitBeforeGet, InOrder
<1>8. CommandsOK'
  <2> SUFFICES ASSUME NEW c \in WorkioCmd, Queued(c) PROVE CommandOK(c)'
    BY <1>6 DEF CommandsOK
  <2>1. CommandOK(c) /\ c.thr \in Miners /\ (c.thr = m => c.cmd = "get")
    BY <1>4 DEF RequestInv, CommandsOK, WorkioCmd
  <2>2. SubmitCmd(c.thr, unsent[c.thr]).thr = c.thr
    BY DEF SubmitCmd
  <2>3. c.thr # m /\ SolutionPending(c.thr) => SolutionPending(c.thr)'
    BY <1>1, <1>5, <1>6, <2>1, <2>2 DEF SolutionPending
  <2>4. ~WorkioEnding
    BY <1>1 DEF WorkioEnding
  <2>5. QED
    BY <1>1, <1>2, <1>5, <2>1, <2>3, <2>4 DEF CommandOK
<1>9. WorkioOK' /\ FrozenOK'
  BY <1>1, <1>2 DEF RequestInv, WorkioOK, FrozenOK
<1>10. AnswersOK' /\ SolvedBeforeNext' /\ FreshWork'
  BY <1>1, <1>2, <1>4, <1>5 DEF RequestInv, AnswersOK, SolvedBeforeNext, FreshWork
<1>11. NoOrphanWait'
  BY <1>1, <1>2, <1>6 DEF RequestInv, NoOrphanWait, GetCmd, WorkioEnding
<1>12. SolutionTracked'
  BY <1>1, <1>2, <1>5, <1>6 DEF RequestInv, SolutionTracked, SolutionPending, SubmitCmd, WorkioEnding, MinerEnding
<1>13. QED
  BY <1>7, <1>8, <1>9, <1>10, <1>11, <1>12 DEF RequestInv

LEMMA WorkioRequests == TypeInv /\ RequestInv /\ WorkioStep => RequestInv'
<1> SUFFICES ASSUME TypeInv, RequestInv, WorkioStep PROVE RequestInv'
  OBVIOUS
<1> DEFINE Idle == WorkioInit \/ WorkioSpurious \/ WorkioOut
<1> DEFINE Going == PauseEnd \/ GetReply \/ GetFailed \/ SubmitFailed
<1>1. CASE Idle \/ Going
  <2>1. UNCHANGED <<wq, mq, work, asked, unsent>>
    BY <1>1 DEF WorkioInit, WorkioSpurious, WorkioOut, PauseEnd, GetReply, GetFailed, SubmitFailed,
       WorkioRest, minerVars, queueVars
  <2>2. \E l : Goto(WorkThr, l)
    BY <1>1 DEF WorkioInit, WorkioSpurious, WorkioOut, PauseEnd, GetReply, GetFailed, SubmitFailed,
       CallFailed, CommandDone
  <2>3. \A m \in Miners : pc'[m] = pc[m] /\ frozen'[m] = frozen[m]
    <3>1. frozen' = frozen \/ frozen' = [frozen EXCEPT ![WorkThr] = TRUE]
      BY <1>1 DEF WorkioInit, WorkioSpurious, WorkioOut, PauseEnd, GetReply, GetFailed, SubmitFailed,
         queueVars
    <3>2. QED
      BY <2>2, <3>1, GotoMoves, ThreadIds DEF TypeInv, TypeOK, QueueTypes
  <2>4. frozen'[WorkThr] => pc'[WorkThr] = "dead"
    <3>1. CASE WorkioOut
      BY <3>1, GotoMoves, ThreadIds DEF WorkioOut, TypeInv, TypeOK
    <3>2. CASE ~WorkioOut
      BY <1>1, <3>2 DEF WorkioInit, WorkioSpurious, PauseEnd, GetReply, GetFailed, SubmitFailed,
         queueVars, At, RequestInv, FrozenOK
    <3>3. QED
      BY <3>1, <3>2
  <2>5. /\ Busy' => Busy /\ wc' = wc
        /\ (Busy <=> Busy') \/ WorkioEnding'
        /\ WorkioEnding => WorkioEnding'
        /\ WorkioOK'
    <3> USE GotoMoves, ThreadIds DEF TypeInv, TypeOK, Busy, WorkioEnding, At
    <3>1. CASE WorkioInit \/ WorkioSpurious \/ WorkioOut
      BY <3>1 DEF WorkioInit, WorkioSpurious, WorkioOut, WorkioOK
    <3>2. CASE PauseEnd
      <4>1. wc.cmd \in {"get", "submit"}
        BY DEF WorkioTypes, WorkioCmd
      <4>2. pc'[WorkThr] = wc.cmd /\ pc[WorkThr] = "pause" /\ wc' = wc
        BY <3>2 DEF PauseEnd, workioVars
      <4>3. QED
        BY <4>1, <4>2 DEF WorkioOK
    <3>3. CASE GetReply
      <4>1. /\ pc[WorkThr] = "get" /\ pc'[WorkThr] = "push"
            /\ wc' = wc /\ answer' = block /\ asked' = asked
        BY <3>3 DEF GetReply, WorkioRest
      <4>2. wc.thr \in Miners /\ wc.cmd = "get"
        BY <4>1 DEF RequestInv, WorkioOK, WorkioTypes, WorkioCmd
      <4>3. block >= asked[wc.thr]
        BY <4>2 DEF ServerTypes, Blocks
      <4>4. QED
        BY <4>1, <4>2, <4>3 DEF WorkioOK
    <3>4. CASE GetFailed \/ SubmitFailed
      <4>1. /\ pc[WorkThr] \in {"get", "submit"}
            /\ \/ pc'[WorkThr] = "out"
               \/ pc'[WorkThr] = "pause" /\ wc' = wc
        BY <3>4 DEF GetFailed, SubmitFailed, CallFailed, CommandDone
      <4>2. QED
        BY <4>1 DEF WorkioOK
    <3>5. QED
      BY <1>1, <3>1, <3>2, <3>3, <3>4
  <2>6. QED
    BY <2>1, <2>3, <2>4, <2>5, WorkioFrame
<1>2. QED
  BY <1>1, PopRequests, PushRequests, SubmitRequests DEF WorkioStep, WorkioRun

\* The invariant, miner by miner.
MinerOK(m) ==
    /\ Len(mq[m]) <= 1
    /\ mq[m] # <<>> =>
          pc[m] \in {"wait", "out", "dead"} /\ mq[m][1] >= asked[m] /\ unsent[m] = NoWork
    /\ frozen[m] => pc[m] = "dead"
    /\ pc[m] = "submit" => unsent[m] = work[m]
    /\ pc[m] = "wait" =>
          Queued(GetCmd(m)) \/ Executing(GetCmd(m)) \/ mq[m] # <<>> \/ WorkioEnding \/ "oom" \in Faults
    /\ unsent[m] # NoWork =>
          \/ pc[m] = "submit" /\ work[m] = unsent[m]
          \/ SolutionPending(m)
          \/ WorkioEnding
          \/ "oom" \in Faults /\ MinerEnding(m)
    /\ pc[m] \in {"scanhash", "scan"} => unsent[m] = NoWork
    /\ pc[m] \in {"scanhash", "scan", "submit"} => work[m] >= asked[m]

LEMMA RequestInvByMiner ==
    RequestInv <=> /\ SubmitBeforeGet /\ CommandsOK /\ WorkioOK
                   /\ frozen[WorkThr] => pc[WorkThr] = "dead"
                   /\ \A m \in Miners : MinerOK(m)
  BY DEF RequestInv, AnswersOK, FrozenOK, NoOrphanWait, SolutionTracked, SolvedBeforeNext,
     FreshWork, MinerOK

\* A step of miner m concerns m and its commands only.
LEMMA MinerFrame ==
    ASSUME NEW m \in Miners, TypeInv, RequestInv,
           UNCHANGED <<wc, answer>>,
           pc'[WorkThr] = pc[WorkThr],
           frozen'[WorkThr] = frozen[WorkThr],
           \A n \in Miners \ {m} :
              /\ pc'[n] = pc[n] /\ mq'[n] = mq[n] /\ frozen'[n] = frozen[n]
              /\ work'[n] = work[n] /\ asked'[n] = asked[n] /\ unsent'[n] = unsent[n],
           \A c : Queued(c) => Queued(c)',
           \A c : Queued(c)' => Queued(c) \/ c.thr = m,
           SubmitBeforeGet',
           \A c \in WorkioCmd : c.thr = m /\ (Queued(c)' \/ Executing(c)) => CommandOK(c)',
           pc[WorkThr] = "push" /\ wc.thr = m => asked'[m] = asked[m],
           MinerOK(m)'
    PROVE  RequestInv'
<1>1. /\ Busy' <=> Busy
      /\ WorkioEnding' <=> WorkioEnding
      /\ \A c : Executing(c)' <=> Executing(c)
  BY DEF Busy, WorkioEnding, Executing
<1>2. CommandsOK'
  <2> SUFFICES ASSUME NEW c \in WorkioCmd, Queued(c)' \/ Executing(c), c.thr # m
               PROVE  CommandOK(c)'
    BY <1>1 DEF CommandsOK
  <2>1. CommandOK(c) /\ c.thr \in Miners \ {m}
    BY DEF RequestInv, CommandsOK, WorkioCmd
  <2>2. SolutionPending(c.thr) => SolutionPending(c.thr)'
    BY <1>1, <2>1 DEF SolutionPending
  <2>3. QED
    BY <1>1, <2>1, <2>2 DEF CommandOK
<1>3. WorkioOK'
  BY DEF RequestInv, WorkioOK, TypeInv, TypeOK, WorkioTypes, WorkioCmd, Busy
<1>4. \A n \in Miners : MinerOK(n)'
  <2> SUFFICES ASSUME NEW n \in Miners \ {m} PROVE MinerOK(n)'
    OBVIOUS
  <2>1. MinerOK(n)
    BY RequestInvByMiner
  <2>2. SolutionPending(n) => SolutionPending(n)'
    BY <1>1 DEF SolutionPending
  <2>3. QED
    BY <1>1, <2>1, <2>2 DEF MinerOK, MinerEnding
<1>5. frozen'[WorkThr] => pc'[WorkThr] = "dead"
  BY RequestInvByMiner
<1>6. QED
  BY <1>2, <1>3, <1>4, <1>5 DEF RequestInv, AnswersOK, FrozenOK, NoOrphanWait, SolutionTracked,
     SolvedBeforeNext, FreshWork, MinerOK

\* While m scans or has something to submit, none of its commands is pending;
\* while it is about to ask, at most a solution is.
LEMMA MinerCommands ==
    ASSUME NEW m \in Miners, TypeInv, RequestInv, NEW c \in WorkioCmd, c.thr = m,
           Queued(c) \/ Executing(c)
    PROVE  /\ pc[m] \in {"get_work", "wait", "out", "dead"}
           /\ pc[m] = "get_work" => c.cmd = "submit"
           /\ CommandOK(c)
  BY DEF RequestInv, CommandsOK, CommandOK, WorkioCmd

LEMMA MinerRequests ==
    ASSUME NEW m \in Miners, TypeInv, RequestInv, MinerStep(m) PROVE RequestInv'
<1> USE ThreadIds DEF TypeInv, TypeOK
<1>1. MinerOK(m)
  BY RequestInvByMiner
<1>2. UNCHANGED <<wc, answer>>
  BY DEF MinerStep, MinerRun, GetWork, PopWork, PopSpurious, ScanStart, ScanFound, ScanEnd,
     ScanOn, SubmitWork, MinerOut, MinerRest, workioVars
<1>3. /\ pc[m] \in MinerPC
      /\ \/ UNCHANGED pc
         \/ \E l : Goto(m, l)
  BY DEF MinerStep, MinerRun, GetWork, PopWork, PopSpurious, ScanStart, ScanFound, ScanEnd,
     ScanOn, SubmitWork, MinerOut, PcTypes
<1>4. pc'[WorkThr] = pc[WorkThr] /\ \A n \in Miners \ {m} : pc'[n] = pc[n]
  BY <1>3, GotoMoves
<1>5. frozen' = frozen \/ frozen' = [frozen EXCEPT ![m] = TRUE]
  BY DEF MinerStep, MinerRun, GetWork, PopWork, PopSpurious, ScanStart, ScanFound, ScanEnd,
     ScanOn, SubmitWork, MinerOut
<1>6. frozen'[WorkThr] = frozen[WorkThr] /\ \A n \in Miners \ {m} : frozen'[n] = frozen[n]
  BY <1>5 DEF QueueTypes
<1>7. \A n \in Miners \ {m} :
         mq'[n] = mq[n] /\ work'[n] = work[n] /\ asked'[n] = asked[n] /\ unsent'[n] = unsent[n]
  BY DEF MinerStep, MinerRun, GetWork, PopWork, PopSpurious, ScanStart, ScanFound, ScanEnd,
     ScanOn, SubmitWork, MinerOut, WorkDropped, minerVars, QueueTypes, MinerTypes, ServerTypes
<1>8. wq \in Seq(WorkioCmd) /\ (wq' = wq => \A c : Queued(c)' <=> Queued(c))
  BY DEF Queued, QueueTypes
<1>9. \A c : Executing(c)' <=> Executing(c)
  BY <1>2, <1>4 DEF Executing, Busy
<1>10. WorkioEnding' <=> WorkioEnding
  BY <1>4 DEF WorkioEnding
<1>11. wq' = wq => SubmitBeforeGet'
  BY <1>2, <1>4 DEF RequestInv, SubmitBeforeGet, InOrder, Busy
<1>12. /\ wc \in WorkioCmd
       /\ Busy => Executing(wc)
       /\ pc[WorkThr] = "push" => Busy /\ wc.cmd = "get"
  BY DEF Executing, Busy, WorkioTypes, RequestInv, WorkioOK
<1>13. ASSUME wq' = wq, MinerOK(m)',
              \A c \in WorkioCmd : c.thr = m /\ (Queued(c) \/ Executing(c)) => CommandOK(c)',
              pc[WorkThr] = "push" /\ wc.thr = m => asked'[m] = asked[m]
       PROVE  RequestInv'
  BY <1>2, <1>4, <1>6, <1>7, <1>8, <1>11, <1>13, MinerFrame
<1>14. ASSUME UNCHANGED <<wq, mq, unsent, asked>>, MinerOK(m)',
              \E l \in {"out", "dead"} : Goto(m, l)
       PROVE  RequestInv'
  <2>1. pc'[m] \in {"out", "dead"}
    BY <1>14, GotoMoves
  <2>2. ASSUME NEW c \in WorkioCmd, c.thr = m, Queued(c) \/ Executing(c) PROVE CommandOK(c)'
    <3>1. CommandOK(c)
      BY <2>2, MinerCommands
    <3>2. SolutionPending(m) => SolutionPending(m)'
      BY <1>8, <1>9, <1>14 DEF SolutionPending
    <3>3. QED
      BY <1>10, <1>14, <2>1, <2>2, <3>1, <3>2 DEF CommandOK
  <2>3. QED
    BY <1>13, <1>14, <2>2
<1>15. ASSUME UNCHANGED wq, pc[m] \in {"scanhash", "scan", "submit"}, MinerOK(m)' PROVE RequestInv'
  <2>1. \A c \in WorkioCmd : c.thr = m => ~Queued(c) /\ ~Executing(c)
    BY <1>15, MinerCommands
  <2>2. QED
    BY <1>12, <1>13, <1>15, <2>1
<1>16. CASE PopSpurious(m) \/ MinerOut(m)
  <2>1. /\ UNCHANGED <<wq, mq, work, unsent, asked>>
        /\ \/ Goto(m, "out") /\ pc[m] = "wait" /\ frozen' = frozen
           \/ Goto(m, "dead") /\ pc[m] = "out"
    BY <1>16 DEF PopSpurious, MinerOut, At, minerVars
  <2>2. /\ pc'[m] \in {"out", "dead"}
        /\ frozen'[m] => pc'[m] = "dead"
    BY <1>1, <2>1, GotoMoves DEF MinerOK
  <2>3. SolutionPending(m) => SolutionPending(m)'
    BY <1>8, <1>9, <2>1 DEF SolutionPending
  <2>4. MinerOK(m)'
    BY <1>1, <1>10, <2>1, <2>2, <2>3 DEF MinerOK, MinerEnding
  <2>5. QED
    BY <1>14, <2>1, <2>4
<1>17. CASE PopWork(m)
  <2>1. /\ pc[m] = "wait" /\ pc'[m] = "scanhash"
        /\ mq[m] # <<>> /\ mq'[m] = Tail(mq[m])
        /\ work'[m] = Head(mq[m])
        /\ UNCHANGED <<wq, unsent, asked, frozen>>
    BY <1>17, GotoMoves DEF PopWork, At, QueueTypes, MinerTypes
  <2>2. mq'[m] = <<>> /\ Head(mq[m]) = mq[m][1]
    BY <1>1, <2>1, HeadTailProperties DEF MinerOK, QueueTypes
  <2>3. MinerOK(m)'
    BY <1>1, <2>1, <2>2 DEF MinerOK
  <2>4. \A c \in WorkioCmd : c.thr = m => ~Queued(c) /\ ~Executing(c)
    BY <2>1, MinerCommands DEF CommandOK
  <2>5. QED
    BY <1>13, <2>1, <2>3, <2>4
<1>18. CASE ScanStart(m) \/ ScanFound(m) \/ ScanOn(m)
  <2>1. /\ pc[m] \in {"scanhash", "scan"} /\ pc'[m] \in {"scan", "submit"}
        /\ UNCHANGED <<wq, mq, work, asked, frozen>>
        /\ IF pc'[m] = "submit" THEN unsent'[m] = work[m] ELSE unsent'[m] = unsent[m]
    BY <1>18, GotoMoves DEF ScanStart, ScanFound, ScanOn, At, minerVars, MinerTypes
  <2>2. MinerOK(m)'
    BY <1>1, <2>1 DEF MinerOK
  <2>3. QED
    BY <1>15, <2>1, <2>2
<1>19. CASE ScanEnd(m)
  <2>1. /\ pc[m] = "scan" /\ pc'[m] = "get_work"
        /\ UNCHANGED <<wq, mq, unsent, frozen>>
    BY <1>19, GotoMoves DEF ScanEnd, At
  <2>2. MinerOK(m)'
    BY <1>1, <2>1 DEF MinerOK
  <2>3. QED
    BY <1>15, <2>1, <2>2
<1>20. CASE GetWork(m)
  <2>1. /\ pc[m] = "get_work"
        /\ UNCHANGED <<mq, unsent, work, frozen>>
        /\ \/ /\ wq' = Append(wq, GetCmd(m)) /\ pc'[m] = "wait"
              /\ asked'[m] = block
           \/ /\ wq' = wq /\ Goto(m, "out") /\ asked' = asked
    BY <1>20, GotoMoves DEF GetWork, At, minerVars, ServerTypes
  <2>2. mq'[m] = <<>>
    BY <1>1, <2>1 DEF MinerOK
  <2>3. ASSUME wq' = wq, Goto(m, "out"), asked' = asked PROVE RequestInv'
    <3>1. SolutionPending(m) => SolutionPending(m)'
      BY <1>8, <1>9, <2>1, <2>3 DEF SolutionPending
    <3>2. pc'[m] = "out"
      BY <2>3, GotoMoves
    <3>3. MinerOK(m)'
      BY <1>1, <1>10, <2>1, <3>1, <3>2 DEF MinerOK, MinerEnding
    <3>4. QED
      BY <1>14, <2>1, <2>3, <3>3
  <2>4. ASSUME wq' = Append(wq, GetCmd(m)), pc'[m] = "wait", asked'[m] = block PROVE RequestInv'
    <3>1. GetCmd(m) \in WorkioCmd /\ GetCmd(m).thr = m /\ GetCmd(m).cmd = "get"
      BY DEF GetCmd, WorkioCmd, Work, NoWork
    <3>2. /\ \A d : Queued(d)' <=> Queued(d) \/ d = GetCmd(m)
          /\ DOMAIN wq' = 1 .. Len(wq) + 1 /\ DOMAIN wq = 1 .. Len(wq) /\ Len(wq) \in Nat
          /\ \A i \in DOMAIN wq : wq'[i] = wq[i] /\ Queued(wq[i]) /\ wq[i] \in WorkioCmd
          /\ wq'[Len(wq) + 1] = GetCmd(m)
      BY <1>8, <2>4, <3>1, QueuedAppend DEF Queued
    <3>3. \A c \in WorkioCmd : c.thr = m /\ (Queued(c) \/ Executing(c)) =>
             c.cmd = "submit" /\ CommandOK(c)
      BY <2>1, MinerCommands
    <3>4. SubmitBeforeGet'
      <4>1. ASSUME NEW i \in DOMAIN wq', NEW j \in DOMAIN wq', i < j
            PROVE  InOrder(wq'[i], wq'[j])
        <5>1. i \in DOMAIN wq
          BY <3>2, <4>1
        <5>2. CASE j \in DOMAIN wq
          BY <3>2, <4>1, <5>1, <5>2 DEF RequestInv, SubmitBeforeGet
        <5>3. CASE j = Len(wq) + 1
          BY <3>1, <3>2, <3>3, <5>1, <5>3 DEF InOrder
        <5>4. QED
          BY <3>2, <5>2, <5>3
      <4>2. ASSUME Busy, NEW i \in DOMAIN wq' PROVE InOrder(wc, wq'[i])
        <5>1. CASE i \in DOMAIN wq
          BY <3>2, <4>2, <5>1 DEF RequestInv, SubmitBeforeGet
        <5>2. CASE i = Len(wq) + 1
          BY <1>12, <3>1, <3>2, <3>3, <4>2, <5>2 DEF InOrder
        <5>3. QED
          BY <3>2, <5>1, <5>2
      <4>3. Busy' <=> Busy
        BY <1>4 DEF Busy
      <4>4. QED
        BY <1>2, <4>1, <4>2, <4>3 DEF SubmitBeforeGet, InOrder
    <3>5. SolutionPending(m) => SolutionPending(m)'
      BY <1>9, <2>1, <3>2 DEF SolutionPending
    <3>6. MinerOK(m)'
      <4>1. Queued(GetCmd(m))'
        BY <3>2
      <4>2. unsent'[m] # NoWork => SolutionPending(m)' \/ WorkioEnding'
        BY <1>1, <1>10, <2>1, <3>5 DEF MinerOK, MinerEnding
      <4>3. QED
        BY <1>1, <2>1, <2>2, <2>4, <4>1, <4>2 DEF MinerOK
    <3>7. ASSUME NEW c \in WorkioCmd, c.thr = m, Queued(c)' \/ Executing(c) PROVE CommandOK(c)'
      <4>1. CASE c = GetCmd(m)
        BY <1>1, <1>10, <2>1, <2>2, <2>4, <3>1, <3>5, <4>1 DEF CommandOK, MinerOK, MinerEnding
      <4>2. CASE c # GetCmd(m)
        <5>1. CommandOK(c) /\ c.cmd = "submit"
          BY <3>2, <3>3, <3>7, <4>2
        <5>2. QED
          BY <2>1, <2>4, <3>7, <5>1 DEF CommandOK
      <4>3. QED
        BY <4>1, <4>2
    <3>8. pc[WorkThr] = "push" => wc.thr # m
      BY <1>12, <3>3
    <3>9. QED
      BY <1>2, <1>4, <1>6, <1>7, <3>1, <3>2, <3>4, <3>6, <3>7, <3>8, MinerFrame
  <2>5. QED
    BY <2>1, <2>3, <2>4
<1>21. CASE SubmitWork(m)
  <2> DEFINE new == SubmitCmd(m, work[m])
  <2>1. /\ pc[m] = "submit"
        /\ UNCHANGED <<mq, unsent, frozen>>
        /\ \/ wq' = Append(wq, new) /\ pc'[m] = "get_work"
           \/ /\ wq' = wq /\ pc'[m] = "out"
              /\ WorkioEnding \/ "oom" \in Faults
    BY <1>21, GotoMoves DEF SubmitWork, At, MayNotPush, RequestInv, FrozenOK, WorkioEnding
  <2>2. mq'[m] = <<>> /\ Len(mq'[m]) = 0 /\ ~frozen'[m] /\ unsent'[m] = work[m]
    BY <1>1, <2>1 DEF MinerOK
  <2>3. \A c \in WorkioCmd : c.thr = m => ~Queued(c) /\ ~Executing(c)
    BY <2>1, MinerCommands
  <2>4. ASSUME wq' = wq, pc'[m] = "out", WorkioEnding \/ "oom" \in Faults PROVE RequestInv'
    <3>1. MinerOK(m)'
      BY <1>10, <2>2, <2>4 DEF MinerOK, MinerEnding
    <3>2. QED
      BY <1>12, <1>13, <2>3, <2>4, <3>1
  <2>5. ASSUME wq' = Append(wq, new), pc'[m] = "get_work" PROVE RequestInv'
    <3>1. new \in WorkioCmd /\ new.thr = m /\ new.cmd = "submit"
      BY DEF SubmitCmd, WorkioCmd, MinerTypes
    <3>2. /\ \A d : Queued(d)' <=> Queued(d) \/ d = new
          /\ DOMAIN wq' = 1 .. Len(wq) + 1 /\ DOMAIN wq = 1 .. Len(wq) /\ Len(wq) \in Nat
          /\ \A i \in DOMAIN wq : wq'[i] = wq[i] /\ Queued(wq[i]) /\ wq[i] \in WorkioCmd
          /\ wq'[Len(wq) + 1] = new
      BY <1>8, <2>5, <3>1, QueuedAppend DEF Queued
    <3>3. SubmitBeforeGet'
      <4>1. ASSUME NEW i \in DOMAIN wq', NEW j \in DOMAIN wq', i < j
            PROVE  InOrder(wq'[i], wq'[j])
        <5>1. i \in DOMAIN wq
          BY <3>2, <4>1
        <5>2. CASE j \in DOMAIN wq
          BY <3>2, <4>1, <5>1, <5>2 DEF RequestInv, SubmitBeforeGet
        <5>3. CASE j = Len(wq) + 1
          BY <2>3, <3>1, <3>2, <5>1, <5>3 DEF InOrder
        <5>4. QED
          BY <3>2, <5>2, <5>3
      <4>2. ASSUME Busy, NEW i \in DOMAIN wq' PROVE InOrder(wc, wq'[i])
        <5>1. CASE i \in DOMAIN wq
          BY <3>2, <4>2, <5>1 DEF RequestInv, SubmitBeforeGet
        <5>2. CASE i = Len(wq) + 1
          BY <1>12, <2>3, <3>1, <3>2, <4>2, <5>2 DEF InOrder
        <5>3. QED
          BY <3>2, <5>1, <5>2
      <4>3. Busy' <=> Busy
        BY <1>4 DEF Busy
      <4>4. QED
        BY <1>2, <4>1, <4>2, <4>3 DEF SubmitBeforeGet, InOrder
    <3>4. SolutionPending(m)'
      BY <2>2, <3>2 DEF SolutionPending
    <3>5. MinerOK(m)'
      BY <2>2, <2>5, <3>4 DEF MinerOK
    <3>6. \A c \in WorkioCmd : c.thr = m /\ (Queued(c)' \/ Executing(c)) => CommandOK(c)'
      <4>1. work[m] # NoWork
        BY <2>1 DEF MinerTypes
      <4>2. QED
        BY <2>2, <2>3, <2>5, <3>1, <3>2, <4>1 DEF CommandOK
    <3>7. pc[WorkThr] = "push" => wc.thr # m
      BY <1>12, <2>3
    <3>8. QED
      BY <1>2, <1>4, <1>6, <1>7, <3>1, <3>2, <3>3, <3>5, <3>6, <3>7, MinerFrame
  <2>6. QED
    BY <2>1, <2>4, <2>5
<1>22. QED
  BY <1>16, <1>17, <1>18, <1>19, <1>20, <1>21 DEF MinerStep, MinerRun

LEMMA NextRequests == TypeInv /\ RequestInv /\ [Next]_vars => RequestInv'
<1> SUFFICES ASSUME TypeInv, RequestInv, [Next]_vars PROVE RequestInv'
  OBVIOUS
<1>1. CASE NewBlock \/ UNCHANGED vars
  BY <1>1, RequestFrame DEF NewBlock, vars, queueVars, workioVars, minerVars, historyVars
<1>2. QED
  BY <1>1, MainRequests, WorkioRequests, MinerRequests, LongpollRequests DEF Next, Exited

\* The conversation of every miner with work I/O is in order.
THEOREM RequestsCorrect == Spec => []RequestInv
<1>1. Init => TypeInv /\ RequestInv
  BY InitTypes, InitRequests
<1>2. TypeInv /\ RequestInv /\ [Next]_vars => (TypeInv /\ RequestInv)'
  BY NextTypes, NextRequests
<1>3. QED
  BY <1>1, <1>2, PTL DEF Spec

\* Of a miner's commands a solution goes before the request for new work.
THEOREM SubmitsFirst == Spec => []SubmitBeforeGet
  BY RequestsCorrect, PTL DEF RequestInv

\* No miner waits for an answer nobody will give.
THEOREM NoWaitOrphaned == Spec => []NoOrphanWait
  BY RequestsCorrect, PTL DEF RequestInv

\* No solution is lost while work I/O lives and there is memory.
THEOREM NoSolutionLost == Spec => []SolutionTracked
  BY RequestsCorrect, PTL DEF RequestInv

\* A miner has new work only once its last solution has been answered.
THEOREM SolvedFirst == Spec => []SolvedBeforeNext
  BY RequestsCorrect, PTL DEF RequestInv

\* An answer is never older than its request.
THEOREM WorkIsFresh == Spec => []FreshWork
  BY RequestsCorrect, PTL DEF RequestInv

-----------------------------------------------------------------------------
(* Starting the long poll. *)

LongpollInv ==
    /\ LongpollOnce
    /\ Len(lpq) <= 1
    /\ haveLongpoll => WantLongpoll /\ pc[LongpollThr] # "none"
    /\ frozen[LongpollThr] => pc[LongpollThr] = "dead"

LEMMA InitLongpoll == Init => LongpollInv
  BY ThreadIds DEF Init, LongpollInv, LongpollOnce

\* Work I/O asks the server only after main() has created a miner, hence the
\* long-poll thread.
LEMMA AskerExists ==
    ASSUME TypeInv, RequestInv, pc[WorkThr] = "get", WantLongpoll
    PROVE  pc[LongpollThr] # "none"
<1>1. Executing(wc) /\ wc \in WorkioCmd /\ wc.thr \in Miners /\ wc.cmd = "get"
  BY DEF Executing, Busy, TypeInv, TypeOK, WorkioTypes, WorkioCmd, RequestInv, WorkioOK
<1>2. pc[wc.thr] # "none"
  BY <1>1 DEF RequestInv, CommandsOK, CommandOK
<1>3. started > 0
  BY <1>1, <1>2 DEF TypeInv, TypeOK, Startup, MainTypes, Miners
<1>4. QED
  BY <1>3 DEF TypeInv, Startup

\* A queue of one entry is empty once it is taken.
LEMMA ShortTail ==
    ASSUME NEW S, NEW s \in Seq(S), s # <<>>, Len(s) <= 1
    PROVE  Len(Tail(s)) = 0 /\ Tail(s) = <<>>
<1>1. Len(s) \in Nat
  BY LenProperties
<1>2. Tail(s) \in Seq(S) /\ Len(Tail(s)) = Len(s) - 1
  BY HeadTailProperties
<1>3. Len(Tail(s)) \in Nat
  BY <1>2, LenProperties
<1>4. Len(Tail(s)) = 0
  BY <1>1, <1>2, <1>3
<1>5. QED
  BY <1>2, <1>4, EmptySeq

LEMMA NextLongpoll ==
    TypeInv /\ RequestInv /\ LongpollInv /\ [Next]_vars => LongpollInv'
<1> SUFFICES ASSUME TypeInv, RequestInv, LongpollInv, [Next]_vars PROVE LongpollInv'
  OBVIOUS
<1> USE ThreadIds DEF TypeInv, TypeOK
<1>1. lpq \in Seq({"path"}) /\ frozen \in [Threads -> BOOLEAN]
  BY DEF QueueTypes
<1>2. ASSUME UNCHANGED <<lpq, haveLongpoll>>, frozen'[LongpollThr] = frozen[LongpollThr],
             \/ pc'[LongpollThr] = pc[LongpollThr]
             \/ pc[LongpollThr] = "none" /\ pc'[LongpollThr] = "pop"
      PROVE  LongpollInv'
  BY <1>2 DEF LongpollInv, LongpollOnce
<1>3. CASE LpActivation /\ pc[WorkThr] = "get" /\ UNCHANGED frozen
           /\ pc'[LongpollThr] = pc[LongpollThr]
  <2>1. CASE UNCHANGED <<haveLongpoll, lpq>>
    BY <1>2, <1>3, <2>1
  <2>2. CASE ~haveLongpoll /\ haveLongpoll' /\ WantLongpoll
    <3>1. lpq = <<>> /\ pc[LongpollThr] \in {"pop", "out", "dead"}
      BY <1>3, <2>2, AskerExists DEF LongpollInv, LongpollOnce, PcTypes, LongpollPC
    <3>2. \/ lpq' = <<"path">>
          \/ lpq' = <<>> /\ (pc[LongpollThr] = "dead" \/ "oom" \in Faults)
      <4>1. lpq' = Append(lpq, "path") \/ (MayNotPush(LongpollThr) /\ lpq' = lpq)
        BY <1>3, <2>2 DEF LpActivation
      <4>2. MayNotPush(LongpollThr) => pc[LongpollThr] = "dead" \/ "oom" \in Faults
        BY DEF MayNotPush, LongpollInv
      <4>3. Append(<<>>, "path") = <<"path">>
        OBVIOUS
      <4>4. QED
        BY <3>1, <4>1, <4>2, <4>3
    <3>3. CASE lpq' = <<"path">>
      <4>1. Len(lpq') = 1 /\ lpq' # <<>>
        BY <3>3
      <4>2. QED
        BY <1>3, <2>2, <3>1, <4>1 DEF LongpollInv, LongpollOnce
    <3>4. CASE lpq' = <<>> /\ (pc[LongpollThr] = "dead" \/ "oom" \in Faults)
      <4>1. Len(lpq') = 0
        BY <3>4
      <4>2. QED
        BY <1>3, <2>2, <3>1, <3>4, <4>1 DEF LongpollInv, LongpollOnce
    <3>5. QED
      BY <3>2, <3>3, <3>4
  <2>3. QED
    BY <1>3, <2>1, <2>2 DEF LpActivation
<1>4. CASE MainStep
  <2>1. MainRest
    BY <1>4 DEF MainStep, StartWorkio, StartLongpoll, StartMiner, JoinWorkio
  <2>2. \/ pc'[LongpollThr] = pc[LongpollThr]
        \/ pc[LongpollThr] = "none" /\ pc'[LongpollThr] = "pop"
    <3> USE DEF Startup, StartThread
    <3>1. CASE StartWorkio
      BY <3>1, GotoMoves DEF StartWorkio
    <3>2. CASE StartLongpoll
      BY <3>2, GotoMoves DEF StartLongpoll
    <3>3. CASE StartMiner
      <4>1. started \in Miners
        BY <3>3 DEF StartMiner, Miners, MainTypes
      <4>2. QED
        BY <3>3, <4>1, GotoMoves DEF StartMiner
    <3>4. CASE JoinWorkio
      BY <3>4 DEF JoinWorkio
    <3>5. QED
      BY <1>4, <3>1, <3>2, <3>3, <3>4 DEF MainStep
  <2>3. QED
    BY <1>2, <2>1, <2>2 DEF MainRest, queueVars, workioVars
<1>5. CASE WorkioStep
  <2>1. UNCHANGED pc \/ \E l : Goto(WorkThr, l)
    BY <1>5 DEF WorkioStep, WorkioRun, WorkioInit, WorkioPop, WorkioSpurious, GetReply, GetFailed,
       PauseEnd, PushAnswer, SubmitReply, SubmitFailed, WorkioOut, CallFailed, CommandDone
  <2>2. pc'[LongpollThr] = pc[LongpollThr]
    BY <2>1, GotoMoves
  <2>3. CASE GetReply \/ GetFailed
    BY <1>3, <2>2, <2>3 DEF GetReply, GetFailed, At
  <2>4. CASE WorkioOut
    BY <1>1, <1>2, <2>2, <2>4 DEF WorkioOut, workioVars
  <2>5. CASE WorkioInit \/ WorkioPop \/ PauseEnd \/ PushAnswer \/ SubmitReply \/ SubmitFailed
             \/ WorkioSpurious
    <3>1. UNCHANGED <<lpq, haveLongpoll, frozen>>
      BY <2>5 DEF WorkioInit, WorkioPop, PauseEnd, PushAnswer, SubmitReply, SubmitFailed,
         WorkioSpurious, queueVars, workioVars
    <3>2. QED
      BY <1>2, <2>2, <3>1
  <2>6. QED
    BY <1>5, <2>3, <2>4, <2>5 DEF WorkioStep, WorkioRun
<1>6. ASSUME NEW m \in Miners, MinerStep(m) PROVE LongpollInv'
  <2>1. UNCHANGED pc \/ \E l : Goto(m, l)
    BY <1>6 DEF MinerStep, MinerRun, GetWork, PopWork, PopSpurious, ScanStart, ScanFound, ScanEnd,
       ScanOn, SubmitWork, MinerOut
  <2>2. pc'[LongpollThr] = pc[LongpollThr]
    BY <2>1, GotoMoves
  <2>3. UNCHANGED <<lpq, haveLongpoll>>
    BY <1>6 DEF MinerStep, MinerRun, GetWork, PopWork, PopSpurious, ScanStart, ScanFound, ScanEnd,
       ScanOn, SubmitWork, MinerOut, MinerRest, workioVars
  <2>4. frozen' = frozen \/ frozen' = [frozen EXCEPT ![m] = TRUE]
    BY <1>6 DEF MinerStep, MinerRun, GetWork, PopWork, PopSpurious, ScanStart, ScanFound, ScanEnd,
       ScanOn, SubmitWork, MinerOut
  <2>5. QED
    BY <1>1, <1>2, <2>2, <2>3, <2>4
<1>7. CASE LongpollStep
  <2>1. haveLongpoll' = haveLongpoll
    BY <1>7 DEF LongpollStep, LongpollRun, LpPop, LpSpurious, LpConnect, LpReply, LpFailed,
       LpRestart, LpOut, LongpollRest, workioVars
  <2> USE DEF LongpollInv, LongpollOnce, At
  <2>2. CASE LpPop
    <3>1. Len(lpq') = 0 /\ lpq' = <<>>
      <4>1. lpq # <<>> /\ lpq' = Tail(lpq) /\ Len(lpq) <= 1
        BY <2>2 DEF LpPop
      <4>2. QED
        BY <1>1, <4>1, ShortTail
    <3>3. pc'[LongpollThr] = "connect" /\ haveLongpoll /\ pc[LongpollThr] = "pop"
      BY <2>2, GotoMoves DEF LpPop
    <3>4. QED
      BY <2>1, <2>2, <3>1, <3>3 DEF LpPop
  <2>3. CASE LpSpurious
    BY <2>1, <2>3, GotoMoves DEF LpSpurious
  <2>4. CASE LpConnect
    BY <2>1, <2>4, GotoMoves DEF LpConnect
  <2>5. CASE LpReply
    BY <2>1, <2>5, GotoMoves DEF LpReply
  <2>6. CASE LpFailed
    BY <2>1, <2>6, GotoMoves DEF LpFailed
  <2>7. CASE LpRestart
    BY <2>1, <2>7, GotoMoves DEF LpRestart
  <2>8. CASE LpOut
    BY <1>1, <2>1, <2>8, GotoMoves DEF LpOut
  <2>9. QED
    BY <1>7, <2>2, <2>3, <2>4, <2>5, <2>6, <2>7, <2>8 DEF LongpollStep, LongpollRun
<1>8. CASE NewBlock \/ UNCHANGED vars
  BY <1>2, <1>8 DEF NewBlock, vars, queueVars, workioVars
<1>9. QED
  BY <1>4, <1>5, <1>6, <1>7, <1>8 DEF Next, Exited

\* Who writes to a queue finds it there.
LEMMA CreatedInTime == TypeInv /\ RequestInv /\ LongpollInv => QueuesCreated
<1> SUFFICES ASSUME TypeInv, RequestInv, LongpollInv PROVE QueuesCreated
  OBVIOUS
<1>1. haveLongpoll => pc[LongpollThr] # "none"
  BY DEF LongpollInv
<1>2. ASSUME NEW i \in DOMAIN wq PROVE pc[wq[i].thr] # "none"
  <2>1. wq[i] \in WorkioCmd /\ Queued(wq[i])
    BY DEF TypeInv, TypeOK, QueueTypes, Queued
  <2>2. CommandOK(wq[i]) /\ wq[i].cmd \in {"get", "submit"}
    BY <2>1 DEF RequestInv, CommandsOK, WorkioCmd
  <2>3. QED
    BY <2>2 DEF CommandOK
<1>3. ASSUME NEW m \in Miners, pc[m] # "none" PROVE pc[WorkThr] # "none"
  BY <1>3 DEF TypeInv, TypeOK, Startup, MainTypes, Miners
<1>4. QED
  BY <1>1, <1>2, <1>3 DEF QueuesCreated

LEMMA LongpollInvariant == Spec => [](TypeInv /\ RequestInv /\ LongpollInv)
<1>1. Init => TypeInv /\ RequestInv /\ LongpollInv
  BY InitTypes, InitRequests, InitLongpoll
<1>2. TypeInv /\ RequestInv /\ LongpollInv /\ [Next]_vars
        => (TypeInv /\ RequestInv /\ LongpollInv)'
  BY NextTypes, NextRequests, NextLongpoll
<1>3. QED
  BY <1>1, <1>2, PTL DEF Spec

\* The path of the long poll is handed over once, to a thread that takes it.
THEOREM PathHandedOverOnce == Spec => []LongpollOnce
<1>1. LongpollInv => LongpollOnce
  BY DEF LongpollInv
<1>2. QED
  BY LongpollInvariant, <1>1, PTL

\* Nobody writes to a queue main() has not created.
THEOREM QueuesCreatedFirst == Spec => []QueuesCreated
  BY LongpollInvariant, CreatedInTime, PTL

-----------------------------------------------------------------------------
(* All threads together are one client. *)

\* Where a miner is, as the client sees it.
LEMMA PlaceIs ==
    ASSUME TypeInv, NEW m \in Miners
    PROVE  /\ pc[m] \in {"none", "get_work"} <=> place[m] = "idle"
           /\ pc[m] = "wait" <=> place[m] = "asking"
           /\ pc[m] \in {"scanhash", "scan"} <=> place[m] = "working"
           /\ pc[m] = "submit" <=> place[m] = "solved"
           /\ pc[m] \in {"out", "dead"} <=> place[m] = "gone"
           /\ place[m] \in {"working", "solved"} => holding[m] = work[m]
           /\ place[m] \notin {"working", "solved"} => holding[m] = NoWork
<1>1. pc[m] \in MinerPC
  BY DEF TypeInv, TypeOK, PcTypes
<1>2. QED
  BY <1>1 DEF place, PlaceOf, holding, MinerPC

\* What the client has on its way for a miner.
Requested(m) == m \in requests
Handed(m) == m \in handed

\* A step leaves what the client sees of miner u alone.
Unseen(u) ==
    /\ place'[u] = place[u]
    /\ Requested(u)' <=> Requested(u)
    /\ offer'[u] = offer[u]
    /\ holding'[u] = holding[u]
    /\ unsent'[u] = unsent[u]
    /\ Handed(u)' <=> Handed(u)

\* The client's variables are functions on the miners, or sets of them.
Mapped ==
    /\ place = [u \in Miners |-> place[u]]
    /\ offer = [u \in Miners |-> offer[u]]
    /\ holding = [u \in Miners |-> holding[u]]
    /\ unsent = [u \in Miners |-> unsent[u]]
    /\ requests = {u \in Miners : Requested(u)}
    /\ handed = {u \in Miners : Handed(u)}

LEMMA MappedIs == TypeInv => Mapped
<1> SUFFICES ASSUME TypeInv PROVE Mapped
  OBVIOUS
<1>1. \E F : place \in [Miners -> F]
  <2>1. \A m \in Miners : place[m] \in {"idle", "asking", "working", "solved", "gone"}
    <3> SUFFICES ASSUME NEW m \in Miners
                 PROVE  place[m] \in {"idle", "asking", "working", "solved", "gone"}
      OBVIOUS
    <3>1. pc[m] \in MinerPC
      BY DEF TypeInv, TypeOK, PcTypes
    <3>2. QED
      BY <3>1, PlaceIs DEF MinerPC
  <2>2. place \in [Miners -> {"idle", "asking", "working", "solved", "gone"}]
    BY <2>1 DEF place
  <2>3. QED
    BY <2>2
<1>2. offer \in [Miners -> Work]
  BY HeadTailProperties DEF offer, TypeInv, TypeOK, QueueTypes, WorkioTypes, Work
<1>3. holding \in [Miners -> Work]
  BY DEF holding, TypeInv, TypeOK, MinerTypes, Work
<1>4. unsent \in [Miners -> Work]
  BY DEF TypeInv, TypeOK, MinerTypes
<1>5. requests = {u \in Miners : Requested(u)} /\ handed = {u \in Miners : Handed(u)}
  BY DEF requests, handed, Requested, Handed
<1>6. QED
  BY <1>1, <1>2, <1>3, <1>4, <1>5 DEF Mapped

\* Nothing of what the client shows changes.
LEMMA ClientRests ==
    ASSUME Mapped, Mapped', UNCHANGED block, WorkioEnding' <=> WorkioEnding,
           \A u \in Miners : Unseen(u)
    PROVE  UNCHANGED Client!vars
<1>1. UNCHANGED <<place, offer, holding, unsent, requests, handed>>
  BY DEF Unseen, Mapped
<1>2. UNCHANGED (~WorkioEnding)
  BY DEF WorkioEnding
<1>3. QED
  BY <1>1, <1>2 DEF Client!vars

LEMMA MappedNext == TypeInv' => Mapped'
  BY MappedIs, PTL

\* Work I/O ends, and all that was on its way with it.
LEMMA ClientCloses ==
    ASSUME Mapped, Mapped', UNCHANGED block, ~WorkioEnding, WorkioEnding',
           \/ Faults \cap {"oom", "spurious", "curl"} # {}
           \/ "rpc" \in Faults /\ OptRetries >= 0,
           UNCHANGED <<place, offer, holding, unsent>>
    PROVE  Client!Next
<1>1. requests' = {} /\ handed' = {}
  BY DEF requests, handed
<1>2. Client!Close
  BY <1>1 DEF Client!Close
<1>3. QED
  BY <1>2 DEF Client!Next

\* What work I/O does, miners do not see at once.
LEMMA WorkioUnseen ==
    ASSUME TypeInv, Mapped, Mapped', WorkioStep
    PROVE  /\ UNCHANGED <<place, holding, block>>
           /\ \A u \in Miners : pc'[u] = pc[u]
           /\ \/ UNCHANGED wq
              \/ WorkioPop
           /\ \/ UNCHANGED <<mq, unsent>>
              \/ PushAnswer /\ UNCHANGED unsent
              \/ SubmitReply /\ UNCHANGED mq
<1>1. /\ UNCHANGED <<work, block>>
      /\ \E l : Goto(WorkThr, l)
      /\ \/ UNCHANGED wq
         \/ WorkioPop
      /\ \/ UNCHANGED <<mq, unsent>>
         \/ PushAnswer /\ UNCHANGED unsent
         \/ SubmitReply /\ UNCHANGED mq
  BY DEF WorkioStep, WorkioRun, WorkioInit, WorkioPop, WorkioSpurious, GetReply, GetFailed, PauseEnd,
     PushAnswer, SubmitReply, SubmitFailed, WorkioOut, WorkioRest, CommandDone, CallFailed,
     minerVars, serverVars, queueVars
<1>2. \A u \in Miners : pc'[u] = pc[u]
  BY <1>1, GotoMoves, ThreadIds DEF TypeInv, TypeOK
<1>3. \A u \in Miners : place'[u] = place[u] /\ holding'[u] = holding[u]
  <2> SUFFICES ASSUME NEW u \in Miners PROVE place'[u] = place[u] /\ holding'[u] = holding[u]
    OBVIOUS
  <2>1. place'[u] = place[u]
    BY <1>2 DEF place
  <2>2. QED
    BY <1>1, <2>1 DEF holding
<1>4. UNCHANGED <<place, holding>>
  BY <1>3 DEF Mapped
<1>5. QED
  BY <1>1, <1>2, <1>4

\* While work I/O executes a command, its miner has nothing of the kind queued.
LEMMA OnlyExecuted ==
    ASSUME TypeInv, RequestInv, Busy
    PROVE  /\ wc.thr \in Miners /\ wc.cmd \in {"get", "submit"} /\ CommandOK(wc)
           /\ ~Queued(GetCmd(wc.thr)) \/ wc.cmd = "submit"
           /\ \A w : ~Queued(SubmitCmd(wc.thr, w))
<1>1. wc \in WorkioCmd /\ Executing(wc)
  BY DEF TypeInv, TypeOK, WorkioTypes, Executing
<1>2. /\ wc.thr \in Miners /\ wc.cmd \in {"get", "submit"} /\ CommandOK(wc)
  BY <1>1 DEF RequestInv, CommandsOK, WorkioCmd
<1>3. \A i \in DOMAIN wq : wq[i].thr = wc.thr => wc.cmd = "submit" /\ wq[i].cmd = "get"
  BY DEF RequestInv, SubmitBeforeGet, InOrder
<1>4. QED
  BY <1>2, <1>3 DEF Queued, GetCmd, SubmitCmd

\* A command that ends with work I/O ends, or is waited out.
LEMMA CallClient ==
    ASSUME TypeInv, RequestInv, Mapped, Mapped', WorkioStep,
           GetFailed \/ SubmitFailed
    PROVE  Client!Next \/ UNCHANGED Client!vars
<1>1. /\ UNCHANGED <<place, holding, block, unsent, mq, wq>>
      /\ \A u \in Miners : pc'[u] = pc[u]
  BY WorkioUnseen DEF GetFailed, SubmitFailed, queueVars
<1>2. pc[WorkThr] \in {"get", "submit"} /\ CallMayFail /\ CallFailed
  BY DEF GetFailed, SubmitFailed, At
<1>3. \/ pc'[WorkThr] = "out" /\ OptRetries >= 0
      \/ pc'[WorkThr] = "pause" /\ UNCHANGED wc
  BY <1>2, GotoMoves, ThreadIds DEF CallFailed, CommandDone, TypeInv, TypeOK
<1>4. UNCHANGED offer
  <2>1. \A u \in Miners : offer'[u] = offer[u]
    BY <1>1, <1>2, <1>3 DEF offer
  <2>2. QED
    BY <2>1 DEF Mapped
<1>5. CASE pc'[WorkThr] = "out" /\ OptRetries >= 0
  <2>1. ~WorkioEnding /\ WorkioEnding'
    BY <1>2, <1>5 DEF WorkioEnding
  <2>2. Faults \cap {"oom", "spurious", "curl"} # {} \/ "rpc" \in Faults
    BY <1>2 DEF CallMayFail
  <2>3. QED
    BY <1>1, <1>4, <1>5, <2>1, <2>2, ClientCloses
<1>6. CASE pc'[WorkThr] = "pause" /\ UNCHANGED wc
  <2>1. /\ WorkioEnding' <=> WorkioEnding
        /\ \A c : Queued(c)' <=> Queued(c)
        /\ \A c : Executing(c)' <=> Executing(c)
    BY <1>1, <1>2, <1>6 DEF WorkioEnding, Queued, Executing, Busy
  <2>2. \A u \in Miners : Unseen(u)
    <3> SUFFICES ASSUME NEW u \in Miners PROVE Unseen(u)
      OBVIOUS
    <3>1. (Requested(u)' <=> Requested(u)) /\ (Handed(u)' <=> Handed(u))
      BY <1>1, <1>2, <1>6, <2>1 DEF Requested, Handed, requests, handed, SolutionPending
    <3>2. QED
      BY <1>1, <1>4, <3>1 DEF Unseen
  <2>3. QED
    BY <1>1, <2>1, <2>2, ClientRests
<1>7. QED
  BY <1>3, <1>5, <1>6

\* A request popped is executed: it stays on its way.
LEMMA PopClient ==
    ASSUME TypeInv, RequestInv, Mapped, Mapped', WorkioPop
    PROVE  Client!Next \/ UNCHANGED Client!vars
<1>1. /\ UNCHANGED <<place, holding, block, unsent, mq>>
      /\ \A u \in Miners : pc'[u] = pc[u]
  <2>1. WorkioStep /\ ~PushAnswer /\ ~SubmitReply
    BY DEF WorkioStep, WorkioRun, WorkioPop, PushAnswer, SubmitReply, At
  <2>2. QED
    BY <2>1, WorkioUnseen
<1>2. /\ pc[WorkThr] = "pop" /\ wq \in Seq(WorkioCmd) /\ wq # <<>> /\ wq' = Tail(wq)
      /\ Head(wq).cmd \in {"get", "submit"}
  BY CommandPopped DEF WorkioPop, At, TypeInv, TypeOK, QueueTypes
<1>3. \/ pc'[WorkThr] = Head(wq).cmd /\ wc' = Head(wq)
      \/ pc'[WorkThr] = "out" /\ "oom" \in Faults
  BY GotoMoves, ThreadIds DEF WorkioPop, CommandDone, TypeInv, TypeOK
<1>4. UNCHANGED offer
  <2>1. pc'[WorkThr] # "push"
    BY <1>2, <1>3
  <2>2. \A u \in Miners : offer'[u] = offer[u]
    BY <1>1, <1>2, <2>1 DEF offer
  <2>3. QED
    BY <2>2 DEF Mapped
<1>5. ~WorkioEnding /\ ~Busy
  BY <1>2 DEF WorkioEnding, Busy
<1>6. CASE pc'[WorkThr] = "out" /\ "oom" \in Faults
  <2>1. WorkioEnding'
    BY <1>6 DEF WorkioEnding
  <2>2. QED
    BY <1>1, <1>4, <1>5, <1>6, <2>1, ClientCloses
<1>7. CASE pc'[WorkThr] = Head(wq).cmd /\ wc' = Head(wq)
  <2>1. ~WorkioEnding' /\ Busy' /\ pc'[WorkThr] # "push"
    BY <1>2, <1>7 DEF WorkioEnding, Busy
  <2>2. \A c : Queued(c)' \/ Executing(c)' <=> Queued(c) \/ Executing(c)
    BY <1>2, <1>5, <1>7, <2>1, QueuedPop DEF Executing
  <2>3. \A u \in Miners : Unseen(u)
    <3> SUFFICES ASSUME NEW u \in Miners PROVE Unseen(u)
      OBVIOUS
    <3>1. Requested(u)' <=> Requested(u)
      BY <1>2, <1>5, <2>1, <2>2 DEF Requested, requests
    <3>2. Handed(u)' <=> Handed(u)
      BY <1>1, <1>5, <2>1, <2>2 DEF Handed, handed, SolutionPending
    <3>3. QED
      BY <1>1, <1>4, <3>1, <3>2 DEF Unseen
  <2>4. QED
    BY <1>1, <1>5, <2>1, <2>3, ClientRests
<1>8. QED
  BY <1>3, <1>6, <1>7

\* The reply is the answer to the one request of its miner.
LEMMA ReplyClient ==
    ASSUME TypeInv, RequestInv, Mapped, Mapped', GetReply, NEW m \in Miners, m = wc.thr
    PROVE  Client!Next
<1>1. /\ UNCHANGED <<place, holding, block, unsent, mq, wq, wc>>
      /\ \A u \in Miners : pc'[u] = pc[u]
      /\ answer' = block
  <2>1. WorkioStep /\ ~PushAnswer /\ ~SubmitReply /\ ~WorkioPop
    BY DEF WorkioStep, WorkioRun, WorkioPop, GetReply, PushAnswer, SubmitReply, At
  <2>2. QED
    BY <2>1, WorkioUnseen DEF GetReply
<1>2. pc[WorkThr] = "get" /\ pc'[WorkThr] = "push" /\ wc.cmd = "get"
  BY GotoMoves, ThreadIds DEF GetReply, At, TypeInv, TypeOK, RequestInv, WorkioOK
<1>3. Busy /\ Busy' /\ ~WorkioEnding /\ ~WorkioEnding'
  BY <1>2 DEF Busy, WorkioEnding
<1>4. /\ m \in Miners /\ CommandOK(wc) /\ ~Queued(GetCmd(m)) /\ wc = GetCmd(m)
      /\ \A w : ~Queued(SubmitCmd(m, w))
  BY <1>2, <1>3, OnlyExecuted DEF CommandOK
<1>5. mq[m] = <<>> /\ unsent[m] = NoWork
  <2>1. mq[m] = <<>> /\ (unsent[m] # NoWork => SolutionPending(m))
    BY <1>2, <1>3, <1>4 DEF CommandOK
  <2>2. ~SolutionPending(m)
    BY <1>4 DEF SolutionPending, Executing, GetCmd, SubmitCmd
  <2>3. QED
    BY <2>1, <2>2
<1>6. /\ \A c : Queued(c)' <=> Queued(c)
      /\ \A c : Executing(c)' <=> Executing(c)
      /\ \A c : Executing(c) <=> c = wc
  BY <1>1, <1>3 DEF Queued, Executing
<1>7. Requested(m) /\ ~Requested(m)'
  <2>1. Executing(GetCmd(m)) /\ ~Queued(GetCmd(m))'
    BY <1>4, <1>6
  <2>2. pc[WorkThr] # "push" /\ pc'[WorkThr] = "push"
    BY <1>2
  <2>3. QED
    BY <1>3, <1>4, <2>1, <2>2 DEF Requested, requests
<1>8. \A u \in Miners \ {m} : Requested(u)' <=> Requested(u)
  <2> SUFFICES ASSUME NEW u \in Miners \ {m} PROVE Requested(u)' <=> Requested(u)
    OBVIOUS
  <2>1. GetCmd(u) # wc
    BY DEF GetCmd
  <2>2. QED
    BY <1>3, <1>6, <2>1 DEF Requested, requests
<1>9. requests' = requests \ {m}
  <2>1. requests = {u \in Miners : Requested(u)} /\ requests' = {u \in Miners : Requested(u)'}
    BY DEF Mapped
  <2>2. QED
    BY <1>4, <1>7, <1>8, <2>1
<1>10. offer[m] = NoWork /\ offer' = [offer EXCEPT ![m] = block]
  <2>1. offer[m] = NoWork /\ offer'[m] = block
    BY <1>1, <1>2, <1>4, <1>5 DEF offer
  <2>2. \A u \in Miners \ {m} : offer'[u] = offer[u]
    BY <1>1, <1>2 DEF offer
  <2>3. QED
    BY <1>4, <2>1, <2>2 DEF Mapped
<1>11. handed' = handed
  <2>1. \A u \in Miners : Handed(u)' <=> Handed(u)
    BY <1>1, <1>3, <1>6 DEF Handed, handed, SolutionPending
  <2>2. QED
    BY <2>1 DEF Mapped
<1>12. Client!Answer(m)
  <2>1. m \in requests
    BY <1>7 DEF Requested
  <2>2. UNCHANGED (~WorkioEnding)
    BY <1>3
  <2>3. QED
    BY <1>1, <1>5, <1>9, <1>10, <1>11, <2>1, <2>2 DEF Client!Answer
<1>13. QED
  BY <1>4, <1>12 DEF Client!Next

\* The answer gets to its miner, or nobody will ever see it.
LEMMA AnswerClient ==
    ASSUME TypeInv, RequestInv, Mapped, Mapped', PushAnswer, NEW m \in Miners, m = wc.thr
    PROVE  Client!Next \/ UNCHANGED Client!vars
<1>1. /\ UNCHANGED <<place, holding, block, unsent, wq>>
      /\ \A u \in Miners : pc'[u] = pc[u]
  <2>1. WorkioStep
    BY DEF WorkioStep, WorkioRun
  <2>2. QED
    BY <2>1, WorkioUnseen DEF PushAnswer
<1>2. pc[WorkThr] = "push" /\ pc'[WorkThr] = "pop" /\ wc.cmd = "get" /\ answer # NoWork
  BY GotoMoves, ThreadIds DEF PushAnswer, CommandDone, At, TypeInv, TypeOK, RequestInv, WorkioOK, WorkioTypes
<1>3. Busy /\ ~Busy' /\ ~WorkioEnding /\ ~WorkioEnding'
  BY <1>2 DEF Busy, WorkioEnding
<1>4. /\ CommandOK(wc) /\ ~Queued(GetCmd(m)) /\ wc = GetCmd(m)
      /\ mq[m] = <<>>
  BY <1>2, <1>3, OnlyExecuted DEF CommandOK
<1>5. /\ \A c : Queued(c)' <=> Queued(c)
      /\ \A c : ~Executing(c)'
      /\ \A c : Executing(c) <=> c = wc
  BY <1>1, <1>3 DEF Queued, Executing
<1>6. \A u \in Miners : Requested(u)' <=> Requested(u)
  BY <1>2, <1>3, <1>5 DEF Requested, requests
<1>7. \A u \in Miners : Handed(u)' <=> Handed(u)
  <2> SUFFICES ASSUME NEW u \in Miners PROVE Handed(u)' <=> Handed(u)
    OBVIOUS
  <2>1. SubmitCmd(u, unsent[u]) # wc
    BY <1>2 DEF SubmitCmd
  <2>2. QED
    BY <1>1, <1>3, <1>5, <2>1 DEF Handed, handed, SolutionPending
<1>8. /\ offer[m] = answer
      /\ \A u \in Miners \ {m} : offer'[u] = offer[u]
  <2>1. mq \in [Miners -> Seq(Blocks)]
    BY DEF TypeInv, TypeOK, QueueTypes
  <2>2. \A u \in Miners \ {m} : mq'[u] = mq[u]
    BY <2>1 DEF PushAnswer
  <2>3. QED
    BY <1>2, <2>2 DEF offer
<1>9. CASE MayPush(wc.thr) /\ mq' = [mq EXCEPT ![wc.thr] = Append(@, answer)]
  <2>1. mq'[m] = <<answer>>
    <3>1. mq' = [mq EXCEPT ![m] = Append(mq[m], answer)] /\ mq \in [Miners -> Seq(Blocks)]
      BY <1>9 DEF TypeInv, TypeOK, QueueTypes
    <3>2. Append(<<>>, answer) = <<answer>>
      OBVIOUS
    <3>3. QED
      BY <1>4, <3>1, <3>2
  <2>2. <<answer>> # <<>> /\ Head(<<answer>>) = answer
    OBVIOUS
  <2>3. offer'[m] = answer
    BY <1>2, <2>1, <2>2 DEF offer
  <2>4. \A u \in Miners : Unseen(u)
    BY <1>1, <1>6, <1>7, <1>8, <2>3 DEF Unseen
  <2>5. QED
    BY <1>1, <1>3, <2>4, ClientRests
<1>10. CASE MayNotPush(wc.thr) /\ UNCHANGED mq
  <2>1. offer'[m] = NoWork
    BY <1>2, <1>4, <1>10 DEF offer
  <2>2. "oom" \in Faults \/ place[m] = "gone"
    BY <1>10, PlaceIs DEF MayNotPush, RequestInv, FrozenOK
  <2>3. offer' = [offer EXCEPT ![m] = NoWork]
    BY <1>8, <2>1 DEF Mapped
  <2>4. requests' = requests /\ handed' = handed
    BY <1>6, <1>7 DEF Mapped
  <2>5. UNCHANGED (~WorkioEnding)
    BY <1>3
  <2>6. Client!Lose(m)
    BY <1>1, <1>2, <1>8, <2>2, <2>3, <2>4, <2>5 DEF Client!Lose
  <2>7. QED
    BY <2>6 DEF Client!Next
<1>11. QED
  BY <1>9, <1>10 DEF PushAnswer

\* The server's answer settles the one solution of its miner.
LEMMA SettledClient ==
    ASSUME TypeInv, RequestInv, Mapped, Mapped', SubmitReply, NEW m \in Miners, m = wc.thr
    PROVE  Client!Next
<1>1. /\ UNCHANGED <<place, holding, block, wq, mq>>
      /\ \A u \in Miners : pc'[u] = pc[u]
  <2>1. WorkioStep
    BY DEF WorkioStep, WorkioRun
  <2>2. QED
    BY <2>1, WorkioUnseen DEF SubmitReply, queueVars
<1>2. pc[WorkThr] = "submit" /\ pc'[WorkThr] = "pop" /\ wc.cmd = "submit"
  BY GotoMoves, ThreadIds DEF SubmitReply, CommandDone, At, TypeInv, TypeOK, RequestInv, WorkioOK
<1>3. Busy /\ ~Busy' /\ ~WorkioEnding /\ ~WorkioEnding'
  BY <1>2 DEF Busy, WorkioEnding
<1>4. /\ CommandOK(wc) /\ wc = SubmitCmd(m, unsent[m])
      /\ \A w : ~Queued(SubmitCmd(m, w))
  BY <1>2, <1>3, OnlyExecuted DEF CommandOK
<1>5. /\ \A c : Queued(c)' <=> Queued(c)
      /\ \A c : ~Executing(c)'
      /\ \A c : Executing(c) <=> c = wc
  BY <1>1, <1>3 DEF Queued, Executing
<1>6. requests' = requests
  <2>1. \A u \in Miners : GetCmd(u) # wc
    BY <1>2 DEF GetCmd
  <2>2. \A u \in Miners : Requested(u)' <=> Requested(u)
    BY <1>3, <1>5, <2>1 DEF Requested, requests
  <2>3. QED
    BY <2>2 DEF Mapped
<1>7. unsent' = [unsent EXCEPT ![m] = NoWork] /\ \A u \in Miners \ {m} : unsent'[u] = unsent[u]
  BY DEF SubmitReply, TypeInv, TypeOK, MinerTypes
<1>8. handed' = handed \ {m} /\ m \in handed
  <2>1. Handed(m)
    BY <1>3, <1>4, <1>5 DEF Handed, handed, SolutionPending
  <2>2. ~Handed(m)'
    <3>1. ~Queued(SubmitCmd(m, NoWork))'
      BY <1>4, <1>5
    <3>2. \A i \in DOMAIN wq' : wq'[i] # SubmitCmd(m, unsent'[m])
      BY <1>7, <3>1 DEF Queued, TypeInv, TypeOK, MinerTypes
    <3>3. QED
      BY <1>3, <3>2 DEF Handed, handed, SolutionPending, Queued, Executing
  <2>3. ASSUME NEW u \in Miners \ {m} PROVE Handed(u)' <=> Handed(u)
    <3>1. SubmitCmd(u, unsent[u]) # wc
      BY DEF SubmitCmd
    <3>2. QED
      BY <1>3, <1>5, <1>7, <3>1 DEF Handed, handed, SolutionPending
  <2>4. handed = {u \in Miners : Handed(u)} /\ handed' = {u \in Miners : Handed(u)'}
    BY DEF Mapped
  <2>5. QED
    BY <2>1, <2>2, <2>3, <2>4
<1>9. UNCHANGED offer
  <2>1. \A u \in Miners : offer'[u] = offer[u]
    BY <1>1, <1>2 DEF offer
  <2>2. QED
    BY <2>1 DEF Mapped
<1>10. UNCHANGED (~WorkioEnding)
  BY <1>3
<1>11. Client!Settle(m)
  BY <1>1, <1>6, <1>7, <1>8, <1>9, <1>10 DEF Client!Settle
<1>12. QED
  BY <1>11 DEF Client!Next

\* The steps of work I/O that are no part of any conversation.
LEMMA WorkioClient ==
    ASSUME TypeInv, RequestInv, Mapped, Mapped', WorkioStep
    PROVE  Client!Next \/ UNCHANGED Client!vars
<1>1. CASE WorkioInit \/ WorkioSpurious \/ PauseEnd \/ WorkioOut
  <2>1. /\ UNCHANGED <<wq, mq, wc, answer, unsent>>
        /\ \/ pc[WorkThr] = "init" /\ pc'[WorkThr] = "pop"
           \/ pc[WorkThr] = "init" /\ pc'[WorkThr] = "dead" /\ "curl" \in Faults
           \/ pc[WorkThr] = "pop" /\ pc'[WorkThr] = "out" /\ "spurious" \in Faults
           \/ pc[WorkThr] = "pause" /\ pc'[WorkThr] \in {"get", "submit"}
           \/ pc[WorkThr] = "out" /\ pc'[WorkThr] = "dead"
    BY <1>1, GotoMoves, ThreadIds DEF WorkioInit, WorkioSpurious, PauseEnd, WorkioOut, At, queueVars, workioVars,
       TypeInv, TypeOK, WorkioTypes, WorkioCmd
  <2>2. UNCHANGED <<place, holding, block>>
    BY WorkioUnseen
  <2>3. UNCHANGED offer
    <3>1. \A u \in Miners : offer'[u] = offer[u]
      BY <2>1 DEF offer
    <3>2. QED
      BY <3>1 DEF Mapped
  <2>4. CASE WorkioEnding' /\ ~WorkioEnding
    <3>1. "curl" \in Faults \/ "spurious" \in Faults
      BY <2>1, <2>4 DEF WorkioEnding
    <3>2. QED
      BY <2>1, <2>2, <2>3, <2>4, <3>1, ClientCloses
  <2>5. CASE WorkioEnding' <=> WorkioEnding
    <3>1. /\ \A c : Queued(c)' <=> Queued(c)
          /\ \A c : Executing(c)' <=> Executing(c)
          /\ pc[WorkThr] # "push" /\ pc'[WorkThr] # "push"
      BY <2>1, <2>5 DEF WorkioEnding, Queued, Executing, Busy
    <3>2. \A u \in Miners : (Requested(u)' <=> Requested(u)) /\ (Handed(u)' <=> Handed(u))
      BY <2>1, <2>5, <3>1 DEF Requested, Handed, requests, handed, SolutionPending
    <3>3. \A u \in Miners : Unseen(u)
      BY <2>1, <2>2, <2>3, <3>2 DEF Unseen
    <3>4. QED
      BY <2>2, <2>5, <3>3, ClientRests
  <2>6. QED
    BY <2>1, <2>4, <2>5 DEF WorkioEnding
<1>2. wc.thr \in Miners
  BY DEF TypeInv, TypeOK, WorkioTypes, WorkioCmd
<1>3. CASE GetFailed \/ SubmitFailed
  BY <1>3, CallClient
<1>4. CASE WorkioPop
  BY <1>4, PopClient
<1>5. CASE GetReply
  BY <1>2, <1>5, ReplyClient
<1>6. CASE PushAnswer
  BY <1>2, <1>6, AnswerClient
<1>7. CASE SubmitReply
  BY <1>2, <1>7, SettledClient
<1>8. QED
  BY <1>1, <1>3, <1>4, <1>5, <1>6, <1>7 DEF WorkioStep, WorkioRun

\* What a step changes for one miner alone.
LEMMA OneMiner ==
    ASSUME Mapped, Mapped', NEW m \in Miners, \A u \in Miners \ {m} : Unseen(u)
    PROVE  /\ place' = [place EXCEPT ![m] = place'[m]]
           /\ offer' = [offer EXCEPT ![m] = offer'[m]]
           /\ holding' = [holding EXCEPT ![m] = holding'[m]]
           /\ unsent' = [unsent EXCEPT ![m] = unsent'[m]]
           /\ offer'[m] = offer[m] => offer' = offer
           /\ holding'[m] = holding[m] => holding' = holding
           /\ unsent'[m] = unsent[m] => unsent' = unsent
           /\ (Requested(m)' <=> Requested(m)) => requests' = requests
           /\ Requested(m)' => requests' = requests \cup {m}
           /\ (Handed(m)' <=> Handed(m)) => handed' = handed
           /\ Handed(m)' => handed' = handed \cup {m}
<1>1. /\ place' = [place EXCEPT ![m] = place'[m]]
      /\ offer' = [offer EXCEPT ![m] = offer'[m]]
      /\ holding' = [holding EXCEPT ![m] = holding'[m]]
      /\ unsent' = [unsent EXCEPT ![m] = unsent'[m]]
  BY DEF Mapped, Unseen
<1>2. /\ offer'[m] = offer[m] => offer' = offer
      /\ holding'[m] = holding[m] => holding' = holding
      /\ unsent'[m] = unsent[m] => unsent' = unsent
  BY DEF Mapped, Unseen
<1>3. /\ requests = {u \in Miners : Requested(u)} /\ requests' = {u \in Miners : Requested(u)'}
      /\ handed = {u \in Miners : Handed(u)} /\ handed' = {u \in Miners : Handed(u)'}
  BY DEF Mapped
<1>4. \A u \in Miners \ {m} : (Requested(u)' <=> Requested(u)) /\ (Handed(u)' <=> Handed(u))
  BY DEF Unseen
<1>5. QED
  BY <1>1, <1>2, <1>3, <1>4

\* A miner's step is nobody else's.
LEMMA MinerUnseen ==
    ASSUME NEW m \in Miners, TypeInv, TypeInv', MinerStep(m)
    PROVE  /\ UNCHANGED <<block, wc, answer>> /\ pc'[WorkThr] = pc[WorkThr]
           /\ WorkioEnding' <=> WorkioEnding
           /\ \A c : Executing(c)' <=> Executing(c)
           /\ \A u \in Miners \ {m} : Unseen(u)
<1>1. /\ UNCHANGED <<block, wc, answer>>
      /\ UNCHANGED pc \/ \E l : Goto(m, l)
      /\ \/ UNCHANGED wq
         \/ wq' = Append(wq, GetCmd(m))
         \/ wq' = Append(wq, SubmitCmd(m, work[m]))
  BY DEF MinerStep, MinerRun, GetWork, PopWork, PopSpurious, ScanStart, ScanFound, ScanEnd, ScanOn,
     SubmitWork, MinerOut, MinerRest, workioVars, serverVars
<1>2. pc'[WorkThr] = pc[WorkThr] /\ \A u \in Miners \ {m} : pc'[u] = pc[u]
  BY <1>1, GotoMoves, ThreadIds DEF TypeInv, TypeOK
<1>3. \A u \in Miners \ {m} : mq'[u] = mq[u] /\ work'[u] = work[u] /\ unsent'[u] = unsent[u]
  BY DEF MinerStep, MinerRun, GetWork, PopWork, PopSpurious, ScanStart, ScanFound, ScanEnd, ScanOn,
     SubmitWork, MinerOut, WorkDropped, minerVars, TypeInv, TypeOK, QueueTypes, MinerTypes
<1>4. /\ WorkioEnding' <=> WorkioEnding
      /\ \A c : Executing(c)' <=> Executing(c)
  BY <1>1, <1>2 DEF WorkioEnding, Executing, Busy
<1>5. ASSUME NEW c, c.thr # m PROVE Queued(c)' <=> Queued(c)
  <2>1. CASE UNCHANGED wq
    BY <2>1 DEF Queued
  <2>2. ASSUME NEW d \in WorkioCmd, d.thr = m, wq' = Append(wq, d) PROVE Queued(c)' <=> Queued(c)
    BY <1>5, <2>2, QueuedAppend DEF TypeInv, TypeOK, QueueTypes
  <2>3. GetCmd(m) \in WorkioCmd /\ GetCmd(m).thr = m
    BY DEF GetCmd, WorkioCmd, Work
  <2>4. SubmitCmd(m, work[m]) \in WorkioCmd /\ SubmitCmd(m, work[m]).thr = m
    BY DEF SubmitCmd, WorkioCmd, TypeInv, TypeOK, MinerTypes
  <2>5. QED
    BY <1>1, <2>1, <2>2, <2>3, <2>4
<1>6. ASSUME NEW u \in Miners \ {m} PROVE Unseen(u)
  <2>1. place'[u] = place[u]
    BY <1>2 DEF place
  <2>2. offer'[u] = offer[u] /\ holding'[u] = holding[u]
    BY <1>1, <1>2, <1>3, <2>1 DEF offer, holding
  <2>3. (Queued(GetCmd(u))' <=> Queued(GetCmd(u))) /\ (Queued(SubmitCmd(u, unsent[u]))' <=> Queued(SubmitCmd(u, unsent[u])))
    <3>1. GetCmd(u).thr # m /\ \A w : SubmitCmd(u, w).thr # m
      BY DEF GetCmd, SubmitCmd
    <3>2. \A w \in Work : Queued(SubmitCmd(u, w))' <=> Queued(SubmitCmd(u, w))
      BY <1>5, <3>1
    <3>3. unsent[u] \in Work
      BY DEF TypeInv, TypeOK, MinerTypes
    <3>4. QED
      BY <1>3, <1>5, <3>1, <3>2, <3>3 DEF Queued
  <2>4. (Requested(u)' <=> Requested(u)) /\ (Handed(u)' <=> Handed(u))
    BY <1>2, <1>3, <1>4, <2>3 DEF Requested, Handed, requests, handed, SolutionPending
  <2>5. QED
    BY <1>3, <2>1, <2>2, <2>4 DEF Unseen
<1>7. QED
  BY <1>1, <1>2, <1>4, <1>6

\* A miner asks, takes, leaves, solves, hands in or quits.
LEMMA MinerClient ==
    ASSUME NEW m \in Miners, TypeInv, TypeInv', RequestInv, RequestInv', Mapped, Mapped', MinerStep(m)
    PROVE  Client!Next \/ UNCHANGED Client!vars
<1>1. /\ UNCHANGED <<block, wc, answer>> /\ pc'[WorkThr] = pc[WorkThr]
      /\ WorkioEnding' <=> WorkioEnding
      /\ \A c : Executing(c)' <=> Executing(c)
      /\ \A u \in Miners \ {m} : Unseen(u)
  BY MinerUnseen
<1>2. UNCHANGED (~WorkioEnding)
  BY <1>1
<1>3. /\ wq \in Seq(WorkioCmd) /\ GetCmd(m) \in WorkioCmd /\ SubmitCmd(m, work[m]) \in WorkioCmd
      /\ pc[m] \in MinerPC /\ mq \in [Miners -> Seq(Blocks)] /\ work \in [Miners -> Work] /\ unsent \in [Miners -> Work]
  BY DEF GetCmd, SubmitCmd, WorkioCmd, Work, TypeInv, TypeOK, PcTypes, QueueTypes, MinerTypes
<1>4. \A l : Goto(m, l) => pc'[m] = l
  BY GotoMoves, ThreadIds DEF TypeInv, TypeOK
<1>5. UNCHANGED wq =>
        /\ Requested(m)' <=> Requested(m)
        /\ UNCHANGED unsent => (Handed(m)' <=> Handed(m))
  <2>1. UNCHANGED wq => \A c : Queued(c)' <=> Queued(c)
    BY DEF Queued
  <2>2. QED
    BY <1>1, <2>1 DEF Requested, Handed, requests, handed, SolutionPending
<1>6. UNCHANGED mq => offer'[m] = offer[m]
  BY <1>1 DEF offer
<1> DEFINE One == /\ place' = [place EXCEPT ![m] = place'[m]]
                  /\ offer' = [offer EXCEPT ![m] = offer'[m]]
                  /\ holding' = [holding EXCEPT ![m] = holding'[m]]
                  /\ unsent' = [unsent EXCEPT ![m] = unsent'[m]]
                  /\ offer'[m] = offer[m] => offer' = offer
                  /\ holding'[m] = holding[m] => holding' = holding
                  /\ unsent'[m] = unsent[m] => unsent' = unsent
                  /\ (Requested(m)' <=> Requested(m)) => requests' = requests
                  /\ Requested(m)' => requests' = requests \cup {m}
                  /\ (Handed(m)' <=> Handed(m)) => handed' = handed
                  /\ Handed(m)' => handed' = handed \cup {m}
<1>7. One
  BY <1>1, OneMiner
<1> HIDE DEF One
<1> USE PlaceIs
<1>8. CASE GetWork(m)
  <2>1. pc[m] = "get_work" /\ UNCHANGED <<mq, work, unsent>>
    BY <1>8 DEF GetWork, At, minerVars
  <2>2. offer' = offer /\ unsent' = unsent
    BY <1>6, <1>7, <2>1 DEF One
  <2>3. CASE ~frozen[WorkThr] /\ wq' = Append(wq, GetCmd(m)) /\ Goto(m, "wait")
    <3>1. pc'[m] = "wait"
      BY <1>4, <2>3
    <3>2. place[m] = "idle" /\ place'[m] = "asking" /\ holding' = holding
      <4>1. place[m] = "idle" /\ place'[m] = "asking" /\ holding[m] = NoWork
        BY <2>1, <3>1 DEF place, PlaceOf, holding
      <4>2. holding'[m] = NoWork
        BY <4>1 DEF holding
      <4>3. QED
        BY <1>7, <4>1, <4>2 DEF One
    <3>3. /\ Queued(GetCmd(m))'
          /\ \A c : c # GetCmd(m) => (Queued(c)' <=> Queued(c))
      BY <1>3, <2>3, QueuedAppend
    <3>4. requests' = IF ~WorkioEnding THEN requests \cup {m} ELSE requests
      <4>1. CASE WorkioEnding
        BY <1>1, <1>7, <4>1 DEF One, Requested, requests
      <4>2. CASE ~WorkioEnding
        <5>1. Requested(m)'
          BY <1>1, <3>3, <4>2 DEF Requested, requests
        <5>2. QED
          BY <1>7, <4>2, <5>1 DEF One
      <4>3. QED
        BY <4>1, <4>2
    <3>5. handed' = handed
      <4>1. SubmitCmd(m, unsent[m]) # GetCmd(m)
        BY DEF SubmitCmd, GetCmd
      <4>2. Queued(SubmitCmd(m, unsent[m]))' <=> Queued(SubmitCmd(m, unsent[m]))
        BY <2>1, <3>3, <4>1 DEF Queued
      <4>3. Handed(m)' <=> Handed(m)
        BY <1>1, <2>1, <4>2 DEF Handed, handed, SolutionPending
      <4>4. QED
        BY <1>7, <4>3 DEF One
    <3>6. Client!Ask(m)
      BY <1>1, <1>2, <1>7, <2>2, <3>2, <3>4, <3>5 DEF One, Client!Ask, Client!Moves, Client!Sent
    <3>7. QED
      BY <3>6 DEF Client!Next
  <2>4. CASE MayNotPush(WorkThr) /\ Goto(m, "out") /\ UNCHANGED wq
    <3>1. pc'[m] = "out"
      BY <1>4, <2>4
    <3>2. place[m] = "idle" /\ place'[m] = "gone" /\ holding'[m] = NoWork
      BY <2>1, <3>1 DEF place, PlaceOf, holding
    <3>3. "oom" \in Faults \/ WorkioEnding
      BY <2>4 DEF MayNotPush, RequestInv, FrozenOK, WorkioEnding
    <3>4. requests' = requests /\ handed' = handed
      BY <1>5, <1>7, <2>1, <2>4 DEF One
    <3>5. Client!Quit(m)
      BY <1>1, <1>2, <1>7, <2>2, <3>2, <3>3, <3>4 DEF One, Client!Quit, Client!Moves
    <3>6. QED
      BY <3>5 DEF Client!Next
  <2>5. QED
    BY <1>8, <2>3, <2>4 DEF GetWork, MayPush
<1>9. CASE PopWork(m)
  <2>1. /\ pc[m] = "wait" /\ UNCHANGED <<wq, unsent>> /\ mq[m] # <<>>
        /\ work'[m] = Head(mq[m]) /\ mq'[m] = Tail(mq[m]) /\ pc'[m] = "scanhash"
    BY <1>3, <1>4, <1>9 DEF PopWork, At
  <2>2. place[m] = "asking" /\ place'[m] = "working"
    BY <2>1 DEF place, PlaceOf
  <2>3. pc[WorkThr] = "push" => wc.thr # m
    <3>1. CASE pc[WorkThr] = "push"
      <4>1. Busy
        BY <3>1 DEF Busy
      <4>2. CommandOK(wc)
        BY <4>1, OnlyExecuted
      <4>3. QED
        BY <2>1, <4>2 DEF CommandOK
    <3>2. QED
      BY <3>1
  <2>4. offer[m] = Head(mq[m]) /\ offer[m] # NoWork
    <3>1. Head(mq[m]) \in Blocks
      BY <1>3, <2>1, HeadTailProperties
    <3>2. QED
      BY <2>1, <2>3, <3>1 DEF offer, Blocks, NoWork
  <2>5. offer'[m] = NoWork
    <3>1. mq'[m] = <<>>
      <4>1. Len(mq[m]) <= 1
        BY DEF RequestInv, AnswersOK
      <4>2. mq[m] \in Seq(Blocks)
        BY <1>3
      <4>3. QED
        BY <2>1, <4>1, <4>2, HeadTailProperties, EmptySeq
    <3>2. QED
      BY <1>1, <2>3, <3>1 DEF offer
  <2>6. holding'[m] = offer[m]
    BY <2>1, <2>2, <2>4 DEF holding
  <2>7. requests' = requests /\ handed' = handed
    BY <1>5, <1>7, <2>1 DEF One
  <2>8. Client!Take(m)
    BY <1>1, <1>2, <1>7, <2>1, <2>2, <2>4, <2>5, <2>6, <2>7 DEF One, Client!Take, Client!Moves
  <2>9. QED
    BY <2>8 DEF Client!Next
<1>10. CASE PopSpurious(m)
  <2>1. pc[m] = "wait" /\ UNCHANGED <<wq, mq, work, unsent>> /\ pc'[m] = "out" /\ "spurious" \in Faults
    BY <1>4, <1>10 DEF PopSpurious, At, minerVars
  <2>2. place[m] = "asking" /\ place'[m] = "gone" /\ holding'[m] = NoWork
    BY <2>1 DEF place, PlaceOf, holding
  <2>3. requests' = requests /\ handed' = handed /\ offer' = offer /\ unsent' = unsent
    BY <1>5, <1>6, <1>7, <2>1 DEF One
  <2>4. Client!Quit(m)
    BY <1>1, <1>2, <1>7, <2>1, <2>2, <2>3 DEF One, Client!Quit, Client!Moves
  <2>5. QED
    BY <2>4 DEF Client!Next
<1>11. CASE ScanFound(m)
  <2>1. /\ pc[m] = "scan" /\ UNCHANGED <<wq, mq, work>> /\ pc'[m] = "submit"
        /\ unsent'[m] = work[m] /\ unsent[m] = NoWork
    BY <1>3, <1>4, <1>11 DEF ScanFound, At, minerVars, RequestInv, SolvedBeforeNext
  <2>2. place[m] = "working" /\ place'[m] = "solved" /\ holding'[m] = holding[m] /\ holding[m] = work[m]
    BY <2>1 DEF place, PlaceOf, holding
  <2>3. Handed(m)' <=> Handed(m)
    <3>1. \A w : ~Queued(SubmitCmd(m, w))' /\ ~Executing(SubmitCmd(m, w))'
      <4> SUFFICES ASSUME NEW c \in WorkioCmd, c.thr = m, Queued(c) \/ Executing(c) PROVE FALSE
        <5>1. \A c : Queued(c)' => Queued(c) /\ c \in WorkioCmd
          BY <1>3, <2>1, ElementOfSeq DEF Queued
        <5>2. \A c : Executing(c)' => Executing(c) /\ c \in WorkioCmd
          BY <1>1 DEF Executing, TypeInv, TypeOK, WorkioTypes
        <5>3. \A w : SubmitCmd(m, w).thr = m
          BY DEF SubmitCmd
        <5>4. QED
          BY <5>1, <5>2, <5>3
      <4>1. QED
        BY <2>1, MinerCommands
    <3>2. \A w : ~Queued(SubmitCmd(m, w)) /\ ~Executing(SubmitCmd(m, w))
      BY <1>1, <2>1, <3>1 DEF Queued
    <3>3. ~SolutionPending(m) /\ ~SolutionPending(m)'
      BY <3>1, <3>2 DEF SolutionPending, Queued, Executing
    <3>4. QED
      BY <3>3 DEF Handed, handed
  <2>4. requests' = requests /\ handed' = handed /\ offer' = offer /\ holding' = holding
    BY <1>5, <1>6, <1>7, <2>1, <2>2, <2>3 DEF One
  <2>5. Client!Solve(m)
    BY <1>1, <1>2, <1>7, <2>1, <2>2, <2>4 DEF One, Client!Solve, Client!Moves
  <2>6. QED
    BY <2>5 DEF Client!Next
<1>12. CASE ScanEnd(m)
  <2>1. pc[m] = "scan" /\ UNCHANGED <<wq, mq, unsent>> /\ pc'[m] = "get_work"
    BY <1>4, <1>12 DEF ScanEnd, At
  <2>2. place[m] = "working" /\ place'[m] = "idle" /\ holding'[m] = NoWork
    BY <2>1 DEF place, PlaceOf, holding
  <2>3. requests' = requests /\ handed' = handed /\ offer' = offer /\ unsent' = unsent
    BY <1>5, <1>6, <1>7, <2>1 DEF One
  <2>4. Client!Leave(m)
    BY <1>1, <1>2, <1>7, <2>2, <2>3 DEF One, Client!Leave, Client!Moves
  <2>5. QED
    BY <2>4 DEF Client!Next
<1>13. CASE ScanStart(m) \/ ScanOn(m) \/ MinerOut(m)
  <2>1. /\ UNCHANGED <<wq, mq, work, unsent>>
        /\ \/ pc'[m] = pc[m]
           \/ pc[m] = "scanhash" /\ pc'[m] = "scan"
           \/ pc[m] = "out" /\ pc'[m] = "dead"
    BY <1>4, <1>13 DEF ScanStart, ScanOn, MinerOut, At, minerVars
  <2>2. place'[m] = place[m]
    <3>1. place[m] = PlaceOf(pc[m]) /\ place'[m] = PlaceOf(pc'[m])
      BY DEF place
    <3>2. CASE pc'[m] = pc[m]
      BY <3>1, <3>2
    <3>3. CASE pc[m] = "scanhash" /\ pc'[m] = "scan"
      BY <3>1, <3>3 DEF PlaceOf
    <3>4. CASE pc[m] = "out" /\ pc'[m] = "dead"
      BY <3>1, <3>4 DEF PlaceOf
    <3>5. QED
      BY <2>1, <3>2, <3>3, <3>4
  <2>3. holding'[m] = holding[m]
    BY <2>1, <2>2 DEF holding
  <2>4. (Requested(m)' <=> Requested(m)) /\ (Handed(m)' <=> Handed(m)) /\ offer'[m] = offer[m]
    BY <1>5, <1>6, <2>1
  <2>5. Unseen(m)
    BY <2>1, <2>2, <2>3, <2>4 DEF Unseen
  <2>6. \A u \in Miners : Unseen(u)
    BY <1>1, <2>5
  <2>7. QED
    BY <1>1, <2>6, ClientRests
<1>14. CASE SubmitWork(m)
  <2>1. /\ pc[m] = "submit" /\ UNCHANGED <<mq, unsent>>
        /\ unsent[m] = work[m]
    BY <1>14 DEF SubmitWork, At, RequestInv, AnswersOK
  <2>2. offer' = offer /\ unsent' = unsent
    BY <1>6, <1>7, <2>1 DEF One
  <2>3. CASE MayPush(WorkThr) /\ wq' = Append(wq, SubmitCmd(m, work[m])) /\ Goto(m, "get_work")
    <3>1. pc'[m] = "get_work"
      BY <1>4, <2>3
    <3>2. place[m] = "solved" /\ place'[m] = "idle" /\ holding'[m] = NoWork
      BY <2>1, <3>1 DEF place, PlaceOf, holding
    <3>3. /\ Queued(SubmitCmd(m, unsent[m]))'
          /\ Queued(GetCmd(m))' <=> Queued(GetCmd(m))
      <4>1. GetCmd(m) # SubmitCmd(m, work[m])
        BY DEF GetCmd, SubmitCmd
      <4>2. \A c : Queued(c)' <=> Queued(c) \/ c = SubmitCmd(m, work[m])
        BY <1>3, <2>3, QueuedAppend
      <4>3. \A c : c = SubmitCmd(m, unsent[m]) => Queued(c)'
        BY <2>1, <4>2
      <4>4. Queued(SubmitCmd(m, unsent[m]))'
        BY <2>1, <4>3 DEF Queued
      <4>5. Queued(GetCmd(m))' <=> Queued(GetCmd(m))
        BY <4>1, <4>2
      <4>6. QED
        BY <4>4, <4>5
    <3>4. requests' = requests
      <4>1. Requested(m)' <=> Requested(m)
        BY <1>1, <3>3 DEF Requested, requests
      <4>2. QED
        BY <1>7, <4>1 DEF One
    <3>5. handed' = IF ~WorkioEnding THEN handed \cup {m} ELSE handed
      <4>1. CASE WorkioEnding
        BY <1>1, <1>7, <4>1 DEF One, Handed, handed
      <4>2. CASE ~WorkioEnding
        <5>1. Handed(m)'
          BY <1>1, <3>3, <4>2 DEF Handed, handed, SolutionPending
        <5>2. QED
          BY <1>7, <4>2, <5>1 DEF One
      <4>3. QED
        BY <4>1, <4>2
    <3>6. Client!HandIn(m)
      BY <1>1, <1>2, <1>7, <2>2, <3>2, <3>4, <3>5 DEF One, Client!HandIn, Client!Moves, Client!Sent
    <3>7. QED
      BY <3>6 DEF Client!Next
  <2>4. CASE MayNotPush(WorkThr) /\ Goto(m, "out") /\ UNCHANGED wq
    <3>1. pc'[m] = "out"
      BY <1>4, <2>4
    <3>2. place[m] = "solved" /\ place'[m] = "gone" /\ holding'[m] = NoWork
      BY <2>1, <3>1 DEF place, PlaceOf, holding
    <3>3. "oom" \in Faults \/ WorkioEnding
      BY <2>4 DEF MayNotPush, RequestInv, FrozenOK, WorkioEnding
    <3>4. requests' = requests /\ handed' = handed
      BY <1>5, <1>7, <2>1, <2>4 DEF One
    <3>5. Client!Quit(m)
      BY <1>1, <1>2, <1>7, <2>2, <3>2, <3>3, <3>4 DEF One, Client!Quit, Client!Moves
    <3>6. QED
      BY <3>5 DEF Client!Next
  <2>5. QED
    BY <1>14, <2>3, <2>4 DEF SubmitWork
<1>15. QED
  BY <1>8, <1>9, <1>10, <1>11, <1>12, <1>13, <1>14 DEF MinerStep, MinerRun

\* Where main() and the long-poll thread leave the others.
LEMMA MainStarts ==
    ASSUME TypeInv, MainStep
    PROVE  /\ MainRest
           /\ \A t \in Threads \ {LongpollThr} :
                 pc'[t] = pc[t] \/ (pc[t] = "none" /\ pc'[t] \in {"init", "get_work"})
<1>1. MainRest
  BY DEF MainStep, StartWorkio, StartLongpoll, StartMiner, JoinWorkio
<1> USE ThreadIds DEF TypeInv, TypeOK, Startup, StartThread
<1>2. CASE StartWorkio
  BY <1>1, <1>2, GotoMoves DEF StartWorkio
<1>3. CASE StartLongpoll
  BY <1>1, <1>3, GotoMoves DEF StartLongpoll
<1>4. CASE StartMiner
  <2>1. started \in Miners
    BY <1>4 DEF StartMiner, Miners, MainTypes
  <2>2. pc[started] = "none"
    BY <2>1 DEF Miners
  <2>3. QED
    BY <1>1, <1>4, <2>1, <2>2, GotoMoves DEF StartMiner
<1>5. CASE JoinWorkio
  BY <1>1, <1>5 DEF JoinWorkio
<1>6. QED
  BY <1>2, <1>3, <1>4, <1>5 DEF MainStep

LEMMA LongpollMoves ==
    ASSUME TypeInv, LongpollStep
    PROVE  LongpollRest /\ \A t \in Threads \ {LongpollThr} : pc'[t] = pc[t]
<1>1. /\ LongpollRest
      /\ UNCHANGED pc \/ \E l : Goto(LongpollThr, l)
  BY DEF LongpollStep, LongpollRun, LpPop, LpSpurious, LpConnect, LpReply, LpFailed, LpRestart, LpOut
<1>2. QED
  BY <1>1, GotoMoves, ThreadIds DEF TypeInv, TypeOK

\* Starting threads, polling for blocks and the blocks themselves.
LEMMA OtherClient ==
    ASSUME TypeInv, TypeInv', Mapped, Mapped', MainStep \/ LongpollStep \/ NewBlock \/ UNCHANGED vars
    PROVE  Client!Next \/ UNCHANGED Client!vars
<1>1. /\ UNCHANGED <<wq, mq, wc, answer, work, unsent>>
      /\ \A t \in Threads \ {LongpollThr} :
            pc'[t] = pc[t] \/ (pc[t] = "none" /\ pc'[t] \in {"init", "get_work"})
  <2>1. CASE MainStep
    BY <2>1, MainStarts DEF MainRest, queueVars, workioVars, minerVars, historyVars
  <2>2. CASE LongpollStep
    BY <2>2, LongpollMoves DEF LongpollRest, workioVars, minerVars, historyVars
  <2>3. CASE NewBlock \/ UNCHANGED vars
    BY <2>3 DEF NewBlock, vars, queueVars, workioVars, minerVars, historyVars
  <2>4. QED
    BY <2>1, <2>2, <2>3
<1>2. /\ WorkioEnding' <=> WorkioEnding
      /\ \A c : Queued(c)' <=> Queued(c)
      /\ \A c : Executing(c)' <=> Executing(c)
      /\ pc'[WorkThr] = "push" <=> pc[WorkThr] = "push"
  BY <1>1, ThreadIds DEF WorkioEnding, Queued, Executing, Busy
<1>3. ASSUME NEW u \in Miners PROVE Unseen(u)
  <2>1. pc'[u] = pc[u] \/ (pc[u] = "none" /\ pc'[u] \in {"init", "get_work"})
    BY <1>1, ThreadIds
  <2>2. pc'[u] \in MinerPC
    BY DEF TypeInv, TypeOK, PcTypes
  <2>3. place'[u] = place[u]
    BY <2>1, <2>2 DEF place, PlaceOf, MinerPC
  <2>4. holding'[u] = holding[u] /\ offer'[u] = offer[u]
    BY <1>1, <1>2, <2>3 DEF holding, offer
  <2>5. (Requested(u)' <=> Requested(u)) /\ (Handed(u)' <=> Handed(u))
    BY <1>1, <1>2 DEF Requested, Handed, requests, handed, SolutionPending
  <2>6. QED
    BY <1>1, <2>3, <2>4, <2>5 DEF Unseen
<1>4. CASE UNCHANGED block
  BY <1>2, <1>3, <1>4, ClientRests
<1>5. CASE NewBlock
  <2>1. UNCHANGED <<place, requests, offer, holding, unsent, handed>> /\ UNCHANGED (~WorkioEnding)
    BY <1>2, <1>3 DEF Mapped, Unseen
  <2>2. Client!NewBlock
    BY <1>5, <2>1 DEF NewBlock, Client!NewBlock
  <2>3. QED
    BY <2>2 DEF Client!Next
<1>6. QED
  BY <1>4, <1>5 DEF MainStep, StartWorkio, StartLongpoll, StartMiner, JoinWorkio, MainRest, serverVars,
     LongpollStep, LongpollRun, LpPop, LpSpurious, LpConnect, LpReply, LpFailed, LpRestart, LpOut, LongpollRest,
     vars

\* All threads together are one client of the getwork server.
THEOREM ClientKept == Spec => Conversation
<1>1. Init => Client!Init
  <2> SUFFICES ASSUME Init PROVE Client!Init
    OBVIOUS
  <2>1. ~Busy /\ ~WorkioEnding /\ pc[WorkThr] = "none" /\ \A c : ~Queued(c)
    BY ThreadIds DEF Init, Busy, WorkioEnding, Queued
  <2>2. requests = {} /\ handed = {}
    BY <2>1 DEF requests, handed, Executing, SolutionPending
  <2>3. /\ \A u \in Miners : place[u] = "idle" /\ offer[u] = NoWork /\ holding[u] = NoWork
    BY <2>1, ThreadIds DEF Init, place, PlaceOf, offer, holding
  <2>4. Mapped
    BY InitTypes, MappedIs
  <2>5. /\ place = [u \in Miners |-> "idle"]
        /\ offer = [u \in Miners |-> NoWork] /\ holding = [u \in Miners |-> NoWork]
    BY <2>3, <2>4 DEF Mapped
  <2>6. QED
    BY <2>1, <2>2, <2>5 DEF Init, Client!Init, Client!None
<1>2. TypeInv /\ RequestInv /\ [Next]_vars => [Client!Next]_(Client!vars)
  <2> SUFFICES ASSUME TypeInv, RequestInv, [Next]_vars PROVE Client!Next \/ UNCHANGED Client!vars
    BY DEF Client!vars
  <2>1. TypeInv' /\ RequestInv' /\ Mapped /\ Mapped'
    BY NextTypes, NextRequests, MappedIs, MappedNext
  <2>2. QED
    BY <2>1, WorkioClient, MinerClient, OtherClient DEF Next, Exited
<1>3. Spec => [](TypeInv /\ RequestInv)
  <2>1. TypeInv /\ RequestInv /\ [Next]_vars => (TypeInv /\ RequestInv)'
    BY NextTypes, NextRequests
  <2>2. QED
    BY InitTypes, InitRequests, <2>1, PTL DEF Spec
<1>4. QED
  BY <1>1, <1>2, <1>3, PTL DEF Spec, Client!Spec, Conversation
=============================================================================
