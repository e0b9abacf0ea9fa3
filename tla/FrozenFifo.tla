----------------------------- MODULE FrozenFifo -----------------------------
(***************************************************************************)
(* What a thread_q (util.c) promises its callers: a first-in, first-out    *)
(* queue that can be frozen.  Each call takes effect at one instant between *)
(* its start and its return.                                               *)
(***************************************************************************)
EXTENDS Naturals, Sequences

CONSTANTS
    Threads,        \* the threads that use the queue
    Data,           \* the pointers they pass
    NULL,           \* no data
    MayCall,        \* MayCall[t]: the operations thread t calls
    OutOfMemory,    \* whether calloc may fail
    MaxLen          \* bound: entries queued or being pushed

VARIABLES
    q,              \* the entries, oldest first
    frozen,
    op,             \* op[t]: the operation t has called, "none" if it is not in one
    arg,            \* arg[t]: the data t pushes
    res             \* res[t]: its result, "pending" until the call took effect

vars == <<q, frozen, op, arg, res>>

Ops == {"push", "pop", "timedpop", "freeze", "thaw"}
Pops == {"pop", "timedpop"}

Pending(t, o) == op[t] = o /\ res[t] = "pending"
Pushing == {t \in DOMAIN op : Pending(t, "push")}

Init ==
    /\ q = <<>>
    /\ frozen = FALSE
    /\ op = [t \in Threads |-> "none"]
    /\ arg = [t \in Threads |-> NULL]
    /\ res = [t \in Threads |-> "none"]

Result(t, r) == res' = [res EXCEPT ![t] = r]

Call(t, o) ==
    /\ op[t] = "none"
    /\ o \in MayCall[t]
    /\ op' = [op EXCEPT ![t] = o]
    /\ Result(t, "pending")
    /\ UNCHANGED <<q, frozen>>

CallPush(t, d) == Call(t, "push") /\ arg' = [arg EXCEPT ![t] = d]
CallOther(t, o) == o # "push" /\ Call(t, o) /\ UNCHANGED arg

\* tq_push returns true: the data is queued.
Push(t) ==
    /\ Pending(t, "push")
    /\ ~frozen
    /\ q' = Append(q, arg[t])
    /\ Result(t, "ok")
    /\ UNCHANGED <<frozen, op, arg>>

\* tq_push returns false: the queue is as it was.
Refuse(t) ==
    /\ Pending(t, "push")
    /\ frozen \/ OutOfMemory
    /\ Result(t, "refused")
    /\ UNCHANGED <<q, frozen, op, arg>>

\* tq_pop returns the oldest data.
Pop(t) ==
    /\ op[t] \in Pops /\ res[t] = "pending"
    /\ q # <<>>
    /\ Result(t, Head(q))
    /\ q' = Tail(q)
    /\ UNCHANGED <<frozen, op, arg>>

\* tq_pop returns NULL, with data in the queue only when its time was up.
PopNothing(t) ==
    /\ op[t] \in Pops /\ res[t] = "pending"
    /\ q = <<>> \/ op[t] = "timedpop"
    /\ Result(t, NULL)
    /\ UNCHANGED <<q, frozen, op, arg>>

Freeze(t) ==
    /\ Pending(t, "freeze") \/ Pending(t, "thaw")
    /\ frozen' = (op[t] = "freeze")
    /\ Result(t, "done")
    /\ UNCHANGED <<q, op, arg>>

Return(t) ==
    /\ op[t] # "none" /\ res[t] # "pending"
    /\ op' = [op EXCEPT ![t] = "none"]
    /\ arg' = [arg EXCEPT ![t] = NULL]
    /\ Result(t, "none")
    /\ UNCHANGED <<q, frozen>>

Takes == \E t \in Threads : Pop(t)

Next ==
    \/ \E t \in Threads :
        \/ \E d \in Data : CallPush(t, d)
        \/ \E o \in Ops : CallOther(t, o)
        \/ Push(t) \/ Refuse(t) \/ PopNothing(t) \/ Freeze(t) \/ Return(t)
    \/ Takes

Spec == Init /\ [][Next]_vars

\* A call that need not wait for data, or not for long, returns, and data that
\* somebody waits for is taken.
Fairness ==
    /\ \A t \in Threads :
        /\ WF_vars(Push(t) \/ Refuse(t) \/ Freeze(t))
        /\ WF_vars(op[t] = "timedpop" /\ (Pop(t) \/ PopNothing(t)))
        /\ WF_vars(Return(t))
    /\ WF_vars(Takes)
=============================================================================
