----------------------------- MODULE ThreadQueue -----------------------------
(***************************************************************************)
(* thread_q as util.c implements it: a list, a flag, a mutex and a         *)
(* condition variable.  A step of a thread is what it does between two     *)
(* points where another thread can be seen or can see it.  The list is     *)
(* the sequence of its entries' data: what list_add_tail and list_del      *)
(* (elist.h) make of it when one thread at a time calls them.              *)
(***************************************************************************)
EXTENDS Naturals, Sequences, FiniteSets

CONSTANTS
    Threads, Data, NULL, MayCall, OutOfMemory, MaxLen,  \* see FrozenFifo
    Spurious,       \* whether a wait may end without a signal
    Nobody          \* the owner of a free mutex

ASSUME ThreadsAssumption == Threads # {} /\ IsFiniteSet(Threads) /\ Nobody \notin Threads
ASSUME DataAssumption ==
    /\ NULL \notin Data
    /\ \A r \in {"none", "pending", "ok", "refused", "done"} : r \notin Data \cup {NULL}
ASSUME CallsAssumption ==
    MayCall \in [Threads -> SUBSET {"push", "pop", "timedpop", "freeze", "thaw"}]
ASSUME FaultsAssumption == OutOfMemory \in BOOLEAN /\ Spurious \in BOOLEAN
ASSUME MaxLenAssumption == MaxLen \in Nat

VARIABLES
    owner,          \* the thread that holds tq->mutex
    pc,             \* pc[t]: where t is in its call
    q,              \* tq->q
    frozen,         \* tq->frozen
    op, arg, res    \* the calls, as in FrozenFifo

vars == <<owner, pc, q, frozen, op, arg, res>>

Fifo == INSTANCE FrozenFifo

\* "wait": in pthread_cond_wait; "woken", "timedout": out of it, without the mutex.
PC == {"idle", "lock", "body", "signal", "wait", "woken", "timedout",
       "check", "giveup", "unlock", "return"}

Sleeping == {t \in Threads : pc[t] = "wait"}
Woken == {t \in Threads : pc[t] \in {"woken", "check"}}
Signalling == {t \in Threads : pc[t] = "signal"}

TypeOK ==
    /\ owner \in Threads \cup {Nobody}
    /\ pc \in [Threads -> PC]
    /\ q \in Seq(Data)
    /\ frozen \in BOOLEAN
    /\ op \in [Threads -> Fifo!Ops \cup {"none"}]
    /\ arg \in [Threads -> Data \cup {NULL}]
    /\ res \in [Threads -> Data \cup {NULL, "none", "pending", "ok", "refused", "done"}]

Init == owner = Nobody /\ pc = [t \in Threads |-> "idle"] /\ Fifo!Init

Goto(t, label) == pc' = [pc EXCEPT ![t] = label]

\* tq_push allocates its entry before it takes the mutex.
CallPush(t, d) ==
    /\ pc[t] = "idle"
    /\ Len(q) + Cardinality(Fifo!Pushing) < MaxLen
    /\ Fifo!CallPush(t, d)
    /\ Goto(t, "lock")
    /\ UNCHANGED owner

NoEntry(t) ==
    /\ pc[t] = "lock" /\ op[t] = "push"
    /\ OutOfMemory
    /\ Fifo!Result(t, "refused")
    /\ Goto(t, "return")
    /\ UNCHANGED <<owner, q, frozen, op, arg>>

CallOther(t, o) ==
    /\ pc[t] = "idle"
    /\ Fifo!CallOther(t, o)
    /\ Goto(t, "lock")
    /\ UNCHANGED owner

\* pthread_mutex_lock, or the end of pthread_cond_(timed)wait.
Lock(t) ==
    /\ owner = Nobody
    /\ owner' = t
    /\ \/ pc[t] = "lock" /\ Goto(t, "body")
       \/ pc[t] = "woken" /\ Goto(t, "check")
       \/ pc[t] = "timedout" /\ Goto(t, "giveup")
    /\ UNCHANGED <<q, frozen, op, arg, res>>

\* Mutant: the entry goes to the head of the list (list_add).
PushBody_Head(t) ==
    /\ pc[t] = "body" /\ op[t] = "push"
    /\ IF frozen
       THEN Fifo!Result(t, "refused") /\ UNCHANGED q
       ELSE Fifo!Result(t, "ok") /\ q' = <<arg[t]>> \o q
    /\ Goto(t, "signal")
    /\ UNCHANGED <<owner, frozen, op, arg>>

\* Mutant: the condition is signalled only when the list was empty.
PushBody_SignalsFirst(t) ==
    /\ pc[t] = "body" /\ op[t] = "push"
    /\ IF frozen
       THEN Fifo!Result(t, "refused") /\ UNCHANGED q
       ELSE Fifo!Result(t, "ok") /\ q' = Append(q, arg[t])
    /\ Goto(t, IF q = <<>> THEN "signal" ELSE "unlock")
    /\ UNCHANGED <<owner, frozen, op, arg>>

\* Mutant: that test is made once the entry is in the list.
PushBody_TestsAfter(t) ==
    /\ pc[t] = "body" /\ op[t] = "push"
    /\ IF frozen
       THEN Fifo!Result(t, "refused") /\ UNCHANGED q
       ELSE Fifo!Result(t, "ok") /\ q' = Append(q, arg[t])
    /\ Goto(t, IF q' = <<>> THEN "signal" ELSE "unlock")
    /\ UNCHANGED <<owner, frozen, op, arg>>

PushBody(t) ==
    /\ pc[t] = "body" /\ op[t] = "push"
    /\ IF frozen
       THEN Fifo!Result(t, "refused") /\ UNCHANGED q
       ELSE Fifo!Result(t, "ok") /\ q' = Append(q, arg[t])
    /\ Goto(t, "signal")
    /\ UNCHANGED <<owner, frozen, op, arg>>

\* Mutant: the flag is set the wrong way round.
FreezeBody_Swapped(t) ==
    /\ pc[t] = "body" /\ op[t] \in {"freeze", "thaw"}
    /\ frozen' = (op[t] = "thaw")
    /\ Fifo!Result(t, "done")
    /\ Goto(t, "signal")
    /\ UNCHANGED <<owner, q, op, arg>>

\* tq_freezethaw.
FreezeBody(t) ==
    /\ pc[t] = "body" /\ op[t] \in {"freeze", "thaw"}
    /\ frozen' = (op[t] = "freeze")
    /\ Fifo!Result(t, "done")
    /\ Goto(t, "signal")
    /\ UNCHANGED <<owner, q, op, arg>>

\* pthread_cond_signal wakes one sleeper, if there is one.
Signal(t) ==
    /\ pc[t] = "signal"
    /\ IF Sleeping = {}
       THEN Goto(t, "unlock")
       ELSE \E s \in Sleeping : pc' = [pc EXCEPT ![t] = "unlock", ![s] = "woken"]
    /\ UNCHANGED <<owner, q, frozen, op, arg, res>>

\* The label `pop`.
Take(t) ==
    /\ Fifo!Result(t, Head(q))
    /\ q' = Tail(q)
    /\ Goto(t, "unlock")
    /\ UNCHANGED <<owner, frozen, op, arg>>

TakeFirst(t) ==
    /\ pc[t] = "body" /\ op[t] \in Fifo!Pops
    /\ q # <<>>
    /\ Take(t)

\* With the list empty the thread gives up the mutex and sleeps.
Sleep(t) ==
    /\ pc[t] = "body" /\ op[t] \in Fifo!Pops
    /\ q = <<>>
    /\ owner' = Nobody
    /\ Goto(t, "wait")
    /\ UNCHANGED <<q, frozen, op, arg, res>>

WakeSpuriously(t) ==
    /\ Spurious
    /\ pc[t] = "wait"
    /\ Goto(t, "woken")
    /\ UNCHANGED <<owner, q, frozen, op, arg, res>>

TimeOut(t) ==
    /\ pc[t] = "wait" /\ op[t] = "timedpop"
    /\ Goto(t, "timedout")
    /\ UNCHANGED <<owner, q, frozen, op, arg, res>>

TakeWoken(t) ==
    /\ pc[t] = "check"
    /\ q # <<>>
    /\ Take(t)

\* The wait failed, or the list is still empty: tq_pop does not wait again.
PopNothing(t) ==
    /\ pc[t] = "giveup" \/ (pc[t] = "check" /\ q = <<>>)
    /\ Fifo!Result(t, NULL)
    /\ Goto(t, "unlock")
    /\ UNCHANGED <<owner, q, frozen, op, arg>>

Unlock(t) ==
    /\ pc[t] = "unlock"
    /\ owner' = Nobody
    /\ Goto(t, "return")
    /\ UNCHANGED <<q, frozen, op, arg, res>>

Return(t) ==
    /\ pc[t] = "return"
    /\ Fifo!Return(t)
    /\ Goto(t, "idle")
    /\ UNCHANGED owner

\* What a thread inside a call does of itself.
Progress(t) ==
    \/ NoEntry(t) \/ PushBody(t) \/ FreezeBody(t) \/ Signal(t) \/ TakeFirst(t)
    \/ Sleep(t) \/ TimeOut(t) \/ TakeWoken(t) \/ PopNothing(t) \/ Unlock(t) \/ Return(t)

Next ==
    \E t \in Threads :
        \/ \E d \in Data : CallPush(t, d)
        \/ \E o \in Fifo!Ops : CallOther(t, o)
        \/ Lock(t) \/ WakeSpuriously(t) \/ Progress(t)

Spec == Init /\ [][Next]_vars

\* A thread in a call goes on, and the mutex is not always taken by others.
FairSpec == Spec /\ \A t \in Threads : WF_vars(Progress(t)) /\ SF_vars(Lock(t))
-----------------------------------------------------------------------------
\* No wakeup is lost: while a thread sleeps, every entry in the list is on its
\* way to a thread that was woken for it, or whose signal is still to come.
NoLostWakeup ==
    Sleeping # {} => Len(q) <= Cardinality(Woken) + Cardinality(Signalling)

\* A tq_pop that returns NULL though its wait did not fail was woken by a
\* freeze: where there is one consumer and no spurious wakeup, that is how it
\* learns of the end.
NothingMeansFrozen ==
    \A t \in Threads : op[t] = "pop" /\ res[t] = NULL => frozen

\* Every call takes effect at one instant, as FrozenFifo says.
Linearizable == Fifo!Spec

\* Data that somebody waits for is taken, and other calls return.
NobodyForgotten == Fifo!Fairness
=============================================================================
