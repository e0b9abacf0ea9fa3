-------------------------- MODULE ThreadQueueProofs --------------------------
(***************************************************************************)
(* A thread_q is the queue FrozenFifo promises, and loses no wakeup, for   *)
(* any number of threads and whatever they call.                           *)
(***************************************************************************)
EXTENDS ThreadQueue, FiniteSetTheorems, SequenceTheorems, TLAPS

USE ThreadsAssumption, DataAssumption, CallsAssumption, FaultsAssumption, MaxLenAssumption

\* Where a thread is in its call, the mutex it holds and the result it has.
Locked == {"body", "signal", "check", "giveup", "unlock"}
Before == {"lock", "body", "wait", "woken", "timedout", "check", "giveup"}
After == {"signal", "unlock", "return"}

CallOK(t) ==
    /\ pc[t] \in Locked <=> owner = t
    /\ pc[t] = "idle" => op[t] = "none" /\ res[t] = "none"
    /\ pc[t] \in Before => op[t] # "none" /\ res[t] = "pending"
    /\ pc[t] \in After => op[t] # "none" /\ res[t] # "pending"
    /\ pc[t] \in {"wait", "woken", "timedout", "check", "giveup"} => op[t] \in Fifo!Pops
    /\ pc[t] \in {"timedout", "giveup"} => op[t] = "timedpop"
    /\ op[t] = "push" => arg[t] \in Data

CallsOK == \A t \in Threads : CallOK(t)

TypeInv == TypeOK /\ CallsOK

LEMMA InitTypes == Init => TypeInv
<1> SUFFICES ASSUME Init PROVE TypeInv
  OBVIOUS
<1> USE DEF Init, Fifo!Init
<1>1. q \in Seq(Data)
  BY EmptySeq
<1>2. TypeOK
  BY <1>1 DEF TypeOK, PC
<1>3. CallsOK
  BY DEF CallsOK, CallOK, Locked, Before, After
<1>4. QED
  BY <1>2, <1>3 DEF TypeInv

LEMMA StepTypes ==
    ASSUME TypeInv, NEW t \in Threads,
           \/ \E d \in Data : CallPush(t, d)
           \/ \E o \in Fifo!Ops : CallOther(t, o)
           \/ Lock(t) \/ WakeSpuriously(t) \/ Progress(t)
    PROVE  TypeInv'
<1> USE DEF TypeInv, TypeOK, CallsOK, CallOK, PC, Locked, Before, After, Goto,
        Fifo!Result, Fifo!Ops, Fifo!Pops
<1>1. CASE \E d \in Data : CallPush(t, d)
  BY <1>1 DEF CallPush, Fifo!CallPush, Fifo!Call
<1>2. CASE \E o \in Fifo!Ops : CallOther(t, o)
  BY <1>2 DEF CallOther, Fifo!CallOther, Fifo!Call
<1>3. CASE Lock(t)
  BY <1>3 DEF Lock
<1>4. CASE WakeSpuriously(t)
  BY <1>4 DEF WakeSpuriously
<1>5. CASE NoEntry(t)
  BY <1>5 DEF NoEntry
<1>6. CASE PushBody(t)
  <2>1. q' \in Seq(Data)
    <3>1. arg[t] \in Data /\ q \in Seq(Data)
      BY <1>6 DEF PushBody
    <3>2. Append(q, arg[t]) \in Seq(Data)
      BY <3>1, AppendProperties, Zenon
    <3>3. QED
      BY <1>6, <3>1, <3>2, Zenon DEF PushBody
  <2>2. PICK r \in {"refused", "ok"} :
            /\ pc[t] = "body" /\ op[t] = "push" /\ res' = [res EXCEPT ![t] = r]
            /\ pc' = [pc EXCEPT ![t] = "signal"] /\ UNCHANGED <<owner, frozen, op, arg>>
    BY <1>6 DEF PushBody
  <2>3. TypeOK'
    BY <2>1, <2>2
  <2>4. CallsOK'
    BY <2>2
  <2>5. QED
    BY <2>3, <2>4
<1>7. CASE FreezeBody(t)
  BY <1>7 DEF FreezeBody
<1>8. CASE Signal(t)
  BY <1>8 DEF Signal, Sleeping
<1>9. ASSUME Take(t), q # <<>>, owner = t, op[t] \in Fifo!Pops PROVE TypeInv'
  <2>1. Head(q) \in Data /\ Tail(q) \in Seq(Data)
    BY <1>9, HeadTailProperties
  <2>2. QED
    BY <1>9, <2>1 DEF Take
<1>10. CASE TakeFirst(t) \/ TakeWoken(t)
  BY <1>9, <1>10 DEF TakeFirst, TakeWoken
<1>11. CASE Sleep(t)
  BY <1>11 DEF Sleep
<1>12. CASE TimeOut(t)
  BY <1>12 DEF TimeOut
<1>13. CASE PopNothing(t)
  BY <1>13 DEF PopNothing
<1>14. CASE Unlock(t)
  BY <1>14 DEF Unlock
<1>15. CASE Return(t)
  BY <1>15 DEF Return, Fifo!Return
<1>16. QED
  BY <1>1, <1>2, <1>3, <1>4, <1>5, <1>6, <1>7, <1>8, <1>10, <1>11, <1>12, <1>13, <1>14,
     <1>15 DEF Progress

LEMMA NextTypes == TypeInv /\ [Next]_vars => TypeInv'
<1>1. TypeInv /\ UNCHANGED vars => TypeInv'
  BY DEF TypeInv, TypeOK, CallsOK, CallOK, vars
<1>2. QED
  BY StepTypes, <1>1 DEF Next

LEMMA TypesInvariant == Spec => []TypeInv
  BY InitTypes, NextTypes, PTL DEF Spec

\* Every variable of the queue and of its callers keeps to its type.
THEOREM QueueTypesCorrect == Spec => []TypeOK
  BY TypesInvariant, PTL DEF TypeInv

-----------------------------------------------------------------------------
(* Refinement. *)

\* Each step of a thread is a step of FrozenFifo's or one it does not see.
LEMMA StepRefines ==
    ASSUME TypeInv, NEW t \in Threads,
           \/ \E d \in Data : CallPush(t, d)
           \/ \E o \in Fifo!Ops : CallOther(t, o)
           \/ Lock(t) \/ WakeSpuriously(t) \/ Progress(t)
    PROVE  Fifo!Next \/ UNCHANGED Fifo!vars
<1>1. CallOK(t)
  BY DEF TypeInv, CallsOK
<1> USE DEF CallOK, Before, After
<1>2. CASE \E d \in Data : CallPush(t, d)
  BY <1>2 DEF CallPush, Fifo!Next
<1>3. CASE \E o \in Fifo!Ops : CallOther(t, o)
  BY <1>3 DEF CallOther, Fifo!Next
<1>4. CASE Lock(t) \/ WakeSpuriously(t) \/ Signal(t) \/ Sleep(t) \/ TimeOut(t) \/ Unlock(t)
  BY <1>4 DEF Lock, WakeSpuriously, Signal, Sleep, TimeOut, Unlock, Fifo!vars
<1>5. CASE NoEntry(t)
  <2>1. Fifo!Refuse(t)
    BY <1>1, <1>5 DEF NoEntry, Fifo!Refuse, Fifo!Pending
  <2>2. QED
    BY <2>1 DEF Fifo!Next
<1>6. CASE PushBody(t)
  <2>1. Fifo!Push(t) \/ Fifo!Refuse(t)
    BY <1>1, <1>6 DEF PushBody, Fifo!Push, Fifo!Refuse, Fifo!Pending
  <2>2. QED
    BY <2>1 DEF Fifo!Next
<1>7. CASE FreezeBody(t)
  <2>1. Fifo!Freeze(t)
    BY <1>1, <1>7 DEF FreezeBody, Fifo!Freeze, Fifo!Pending
  <2>2. QED
    BY <2>1 DEF Fifo!Next
<1>8. CASE TakeFirst(t) \/ TakeWoken(t)
  <2>1. Fifo!Pop(t)
    BY <1>1, <1>8 DEF TakeFirst, TakeWoken, Take, Fifo!Pop
  <2>2. QED
    BY <2>1 DEF Fifo!Next, Fifo!Takes
<1>9. CASE PopNothing(t)
  <2>1. Fifo!PopNothing(t)
    BY <1>1, <1>9 DEF PopNothing, Fifo!PopNothing
  <2>2. QED
    BY <2>1 DEF Fifo!Next
<1>10. CASE Return(t)
  BY <1>10 DEF Return, Fifo!Next
<1>11. QED
  BY <1>2, <1>3, <1>4, <1>5, <1>6, <1>7, <1>8, <1>9, <1>10 DEF Progress

\* A thread_q behaves as FrozenFifo: each call takes effect at one instant.
THEOREM QueueIsFifo == Spec => Linearizable
<1>1. Init => Fifo!Init
  BY DEF Init
<1>2. TypeInv /\ [Next]_vars => [Fifo!Next]_(Fifo!vars)
  BY StepRefines DEF Next, vars, Fifo!vars
<1>3. QED
  BY <1>1, <1>2, TypesInvariant, PTL DEF Spec, Fifo!Spec, Linearizable
-----------------------------------------------------------------------------
(* Wakeups. *)

LEMMA FiniteCallers ==
    /\ IsFiniteSet(Woken) /\ IsFiniteSet(Signalling)
    /\ Cardinality(Woken) \in Nat /\ Cardinality(Signalling) \in Nat
<1>1. Woken \subseteq Threads /\ Signalling \subseteq Threads
  BY DEF Woken, Signalling
<1>2. QED
  BY <1>1, FS_Subset, FS_CardinalityType

\* The step that queues an entry is followed by its signal; the signal wakes a
\* sleeper; and a woken thread that takes nothing found nothing.
LEMMA StepWakes ==
    ASSUME TypeInv, NoLostWakeup, NEW t \in Threads,
           \/ \E d \in Data : CallPush(t, d)
           \/ \E o \in Fifo!Ops : CallOther(t, o)
           \/ Lock(t) \/ WakeSpuriously(t) \/ Progress(t)
    PROVE  NoLostWakeup'
<1> DEFINE W == Cardinality(Woken)
           S == Cardinality(Signalling)
<1> SUFFICES ASSUME Sleeping' # {} PROVE Len(q') <= W' + S'
  BY DEF NoLostWakeup
<1>1. /\ TypeInv' /\ pc \in [Threads -> PC] /\ q \in Seq(Data) /\ q' \in Seq(Data)
  BY StepTypes DEF TypeInv, TypeOK
<1>2. W \in Nat /\ S \in Nat /\ W' \in Nat /\ S' \in Nat /\ Len(q) \in Nat /\ Len(q') \in Nat
  <2>1. IsFiniteSet(Woken') /\ IsFiniteSet(Signalling')
    <3>1. Woken' \subseteq Threads /\ Signalling' \subseteq Threads
      BY DEF Woken, Signalling
    <3>2. QED
      BY <3>1, FS_Subset
  <2>2. QED
    BY <1>1, <2>1, FiniteCallers, FS_CardinalityType, LenProperties
<1>3. Sleeping # {} => Len(q) <= W + S
  BY DEF NoLostWakeup
<1> HIDE DEF W, S
<1>4. ASSUME UNCHANGED q, Sleeping # {}, W' = W, S' = S PROVE Len(q') <= W' + S'
  BY <1>2, <1>3, <1>4
<1> USE DEF Goto, PC
<1>5. CASE \/ \E d \in Data : CallPush(t, d)
           \/ \E o \in Fifo!Ops : CallOther(t, o)
           \/ Lock(t) \/ NoEntry(t) \/ TimeOut(t) \/ Unlock(t) \/ Return(t)
  <2>1. q' = q
    BY <1>5 DEF CallPush, CallOther, Fifo!CallPush, Fifo!CallOther, Fifo!Call, Lock, NoEntry,
       TimeOut, Unlock, Return, Fifo!Return
  <2>2. Woken' = Woken /\ Signalling' = Signalling /\ Sleeping' \subseteq Sleeping
    BY <1>1, <1>5 DEF CallPush, CallOther, Lock, NoEntry, TimeOut, Unlock, Return,
       Woken, Signalling, Sleeping
  <2>3. QED
    BY <1>4, <2>1, <2>2 DEF W, S
<1>6. CASE PushBody(t) \/ FreezeBody(t)
  <2>1. Len(q') <= Len(q) + 1
    BY <1>1, <1>2, <1>6 DEF PushBody, FreezeBody
  <2>2. /\ Woken' = Woken /\ Sleeping' = Sleeping
        /\ Signalling' = Signalling \cup {t} /\ t \notin Signalling
    BY <1>1, <1>6 DEF PushBody, FreezeBody, Woken, Signalling, Sleeping
  <2>3. W' = W /\ S' = S + 1
    BY <2>2, FiniteCallers, FS_AddElement DEF W, S
  <2>4. QED
    BY <1>2, <1>3, <2>1, <2>2, <2>3
<1>7. CASE Signal(t)
  <2>1. Sleeping # {}
    BY <1>1, <1>7 DEF Signal, Sleeping
  <2>2. PICK s \in Sleeping : pc' = [pc EXCEPT ![t] = "unlock", ![s] = "woken"]
    BY <1>7, <2>1 DEF Signal
  <2>3. /\ Woken' = Woken \cup {s} /\ s \notin Woken
        /\ Signalling' = Signalling \ {t} /\ t \in Signalling
    BY <1>1, <1>7, <2>2 DEF Signal, Woken, Signalling, Sleeping
  <2>4. W' = W + 1 /\ S' = S - 1
    BY <2>3, FiniteCallers, FS_AddElement, FS_RemoveElement DEF W, S
  <2>5. q' = q
    BY <1>7 DEF Signal
  <2>6. QED
    BY <1>2, <1>3, <2>1, <2>4, <2>5
<1>8. CASE TakeFirst(t)
  <2>1. Len(q') = Len(q) - 1
    BY <1>1, <1>8, HeadTailProperties DEF TakeFirst, Take
  <2>2. Woken' = Woken /\ Signalling' = Signalling /\ Sleeping' = Sleeping
    BY <1>1, <1>8 DEF TakeFirst, Take, Woken, Signalling, Sleeping
  <2>3. W' = W /\ S' = S
    BY <2>2 DEF W, S
  <2>4. QED
    BY <1>2, <1>3, <2>1, <2>2, <2>3
<1>9. CASE TakeWoken(t)
  <2>1. Len(q') = Len(q) - 1
    BY <1>1, <1>9, HeadTailProperties DEF TakeWoken, Take
  <2>2. /\ Woken' = Woken \ {t} /\ t \in Woken
        /\ Signalling' = Signalling /\ Sleeping' = Sleeping
    BY <1>1, <1>9 DEF TakeWoken, Take, Woken, Signalling, Sleeping
  <2>3. W' = W - 1 /\ S' = S
    BY <2>2, FiniteCallers, FS_RemoveElement DEF W, S
  <2>4. QED
    BY <1>2, <1>3, <2>1, <2>2, <2>3
<1>10. CASE Sleep(t) \/ (PopNothing(t) /\ q = <<>>)
  <2>1. q' = <<>>
    BY <1>10 DEF Sleep, PopNothing
  <2>2. Len(q') = 0
    BY <2>1
  <2>3. W' \in Nat /\ S' \in Nat
    BY <1>2 DEF W, S
  <2>4. ASSUME NEW a \in Nat, NEW b \in Nat PROVE 0 <= a + b
    OBVIOUS
  <2>5. 0 <= W' + S'
    BY <2>3, <2>4
  <2>6. QED
    BY <2>2, <2>5
<1>11. CASE PopNothing(t) /\ q # <<>>
  <2>1. q' = q
    BY <1>11 DEF PopNothing
  <2>2. Woken' = Woken /\ Signalling' = Signalling /\ Sleeping' = Sleeping
    BY <1>1, <1>11 DEF PopNothing, Woken, Signalling, Sleeping
  <2>3. QED
    BY <1>4, <2>1, <2>2 DEF W, S
<1>12. CASE WakeSpuriously(t)
  <2>1. q' = q /\ Sleeping # {}
    BY <1>12 DEF WakeSpuriously, Sleeping
  <2>2. /\ Woken' = Woken \cup {t} /\ t \notin Woken
        /\ Signalling' = Signalling
    BY <1>1, <1>12 DEF WakeSpuriously, Woken, Signalling
  <2>3. W' = W + 1 /\ S' = S
    BY <2>2, FiniteCallers, FS_AddElement DEF W, S
  <2>4. QED
    BY <1>2, <1>3, <2>1, <2>3
<1>13. QED
  BY <1>5, <1>6, <1>7, <1>8, <1>9, <1>10, <1>11, <1>12 DEF Progress

\* No wakeup is lost, however many threads push and pop.
THEOREM WakeupsKept == Spec => []NoLostWakeup
<1>1. Init => NoLostWakeup
  BY DEF Init, Fifo!Init, NoLostWakeup, Sleeping
<1>2. TypeInv /\ NoLostWakeup /\ [Next]_vars => NoLostWakeup'
  <2>1. UNCHANGED vars /\ NoLostWakeup => NoLostWakeup'
    BY DEF vars, NoLostWakeup, Sleeping, Woken, Signalling
  <2>2. QED
    BY <2>1, StepWakes DEF Next
<1>3. QED
  BY <1>1, <1>2, TypesInvariant, PTL DEF Spec
-----------------------------------------------------------------------------
(* Ends. *)

\* A queue as minerd uses one: one thread at most pops, nobody thaws, and a wait
\* ends by a signal or because its time is up.
OneConsumer ==
    /\ \A s, t \in Threads :
        MayCall[s] \cap Fifo!Pops # {} /\ MayCall[t] \cap Fifo!Pops # {} => s = t
    /\ \A t \in Threads : "thaw" \notin MayCall[t]
    /\ ~Spurious

\* A signal to come, or under way, finds an entry or tells of a freeze.
Told == q # <<>> \/ frozen

EndOK(t) ==
    /\ op[t] # "none" => op[t] \in MayCall[t]
    /\ pc[t] \in {"signal", "woken", "check"} => Told
    /\ op[t] = "pop" /\ res[t] = NULL => frozen

EndsOK == \A t \in Threads : EndOK(t)

LEMMA StepEnds ==
    ASSUME OneConsumer, TypeInv, EndsOK, NEW t \in Threads,
           \/ \E d \in Data : CallPush(t, d)
           \/ \E o \in Fifo!Ops : CallOther(t, o)
           \/ Lock(t) \/ WakeSpuriously(t) \/ Progress(t)
    PROVE  EndsOK'
<1> USE DEF TypeInv, TypeOK, CallsOK, CallOK, PC, Locked, Goto, Fifo!Result, EndsOK, EndOK, Told
<1>1. CASE \E d \in Data : CallPush(t, d)
  BY <1>1 DEF CallPush, Fifo!CallPush, Fifo!Call
<1>2. CASE \E o \in Fifo!Ops : CallOther(t, o)
  BY <1>2 DEF CallOther, Fifo!CallOther, Fifo!Call
<1>3. CASE Lock(t)
  BY <1>3 DEF Lock
<1>4. CASE WakeSpuriously(t)
  BY <1>4 DEF WakeSpuriously, OneConsumer
<1>5. CASE NoEntry(t)
  BY <1>5 DEF NoEntry
<1>6. CASE PushBody(t)
  <2>1. frozen \/ q' # <<>>
    BY <1>6 DEF PushBody
  <2>2. QED
    BY <1>6, <2>1 DEF PushBody
<1>7. CASE FreezeBody(t)
  <2>1. frozen'
    <3>1. op[t] # "thaw"
      BY <1>7 DEF FreezeBody, OneConsumer
    <3>2. QED
      BY <1>7, <3>1 DEF FreezeBody
  <2>2. QED
    BY <1>7, <2>1 DEF FreezeBody
<1>8. CASE Signal(t)
  BY <1>8 DEF Signal, Sleeping
<1>9. ASSUME Take(t), q # <<>>, owner = t, op[t] \in Fifo!Pops, pc[t] # "signal" PROVE EndsOK'
  <2>1. Head(q) \in Data
    BY <1>9, HeadTailProperties
  <2>2. ASSUME NEW s \in Threads, s # t PROVE pc[s] \notin {"signal", "woken", "check"}
    <3>1. op[s] \in Fifo!Pops => op[s] \in MayCall[s] \cap Fifo!Pops
      BY DEF Fifo!Pops
    <3>2. op[t] \in MayCall[t] \cap Fifo!Pops
      BY <1>9 DEF Fifo!Pops
    <3>3. op[s] \notin Fifo!Pops
      BY <2>2, <3>1, <3>2 DEF OneConsumer
    <3>4. QED
      BY <1>9, <2>2, <3>3
  <2>3. QED
    BY <1>9, <2>1, <2>2 DEF Take
<1>10. CASE TakeFirst(t) \/ TakeWoken(t)
  BY <1>9, <1>10 DEF TakeFirst, TakeWoken
<1>11. CASE Sleep(t)
  BY <1>11 DEF Sleep
<1>12. CASE TimeOut(t)
  BY <1>12 DEF TimeOut
<1>13. CASE PopNothing(t)
  BY <1>13 DEF PopNothing
<1>14. CASE Unlock(t)
  BY <1>14 DEF Unlock
<1>15. CASE Return(t)
  BY <1>15 DEF Return, Fifo!Return
<1>16. QED
  BY <1>1, <1>2, <1>3, <1>4, <1>5, <1>6, <1>7, <1>8, <1>10, <1>11, <1>12, <1>13, <1>14,
     <1>15 DEF Progress

\* With one consumer, whoever and however many the others, a tq_pop without a
\* deadline returns NULL (util.c:566-569) only once the queue is frozen.
THEOREM NullMeansFrozen == ASSUME OneConsumer PROVE Spec => []NothingMeansFrozen
<1>1. Init => EndsOK
  BY DEF Init, Fifo!Init, EndsOK, EndOK
<1>2. TypeInv /\ EndsOK /\ [Next]_vars => EndsOK'
  <2>1. UNCHANGED vars /\ EndsOK => EndsOK'
    BY DEF vars, EndsOK, EndOK, Told
  <2>2. QED
    BY <2>1, StepEnds DEF Next
<1>3. EndsOK => NothingMeansFrozen
  BY DEF EndsOK, EndOK, NothingMeansFrozen
<1>4. QED
  BY <1>1, <1>2, <1>3, TypesInvariant, PTL DEF Spec
=============================================================================
