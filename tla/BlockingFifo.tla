---------------------------- MODULE BlockingFifo ----------------------------
(***************************************************************************)
(* What ConcurrentQueue<T> promises its callers, with no mutex and no      *)
(* condition variable: a first-in first-out queue whose waiting operations *)
(* return the head as soon as there is one, or nothing once the queue has  *)
(* been stopped (pop) or the time is up (pop_for), and never return        *)
(* nothing while an item is there.  ConcurrentQueue.tla implements it;     *)
(* EventPipeline.tla is built on it.                                       *)
(***************************************************************************)
EXTENDS Naturals, Sequences

CONSTANTS
    Threads,   \* threads that share the queue
    Items,     \* what the template parameter T ranges over
    Nothing,   \* std::nullopt
    MaxLen     \* bound on the queue's length; std::queue has none

(* The modules that instantiate this one assume Nothing \notin Items and   *)
(* MaxLen \in Nat of what they put in.                                     *)

VARIABLES
    queue,     \* queue_
    stopped,   \* stopped_
    call,      \* the waiting operation each thread is inside of, if any
    result     \* what each thread's last operation returned

vars == <<queue, stopped, call, result>>

TypeOK ==
    /\ queue \in Seq(Items)
    /\ stopped \in BOOLEAN
    /\ call \in [Threads -> {"none", "pop", "pop_for"}]
    /\ result \in [Threads -> Items \cup {Nothing}]

Init ==
    /\ queue = <<>>
    /\ stopped = FALSE
    /\ call = [t \in Threads |-> "none"]
    /\ result = [t \in Threads |-> Nothing]

-----------------------------------------------------------------------------

(* Thread t returns the head of the queue; or nothing, the queue being empty. *)
TakeHead(t) ==
    /\ queue # <<>>
    /\ queue' = Tail(queue)
    /\ result' = [result EXCEPT ![t] = Head(queue)]

TakeNothing(t) ==
    /\ queue = <<>>
    /\ result' = [result EXCEPT ![t] = Nothing]
    /\ UNCHANGED queue

Push(x) ==
    /\ Len(queue) < MaxLen
    /\ queue' = Append(queue, x)
    /\ UNCHANGED <<stopped, call, result>>

Stop ==
    /\ stopped' = TRUE
    /\ UNCHANGED <<queue, call, result>>

TryPop(t) ==
    /\ call[t] = "none"
    /\ TakeHead(t) \/ TakeNothing(t)
    /\ UNCHANGED <<stopped, call>>

Call(t, op) ==
    /\ call[t] = "none"
    /\ call' = [call EXCEPT ![t] = op]
    /\ UNCHANGED <<queue, stopped, result>>

(* A waiting operation returns an item, or nothing because of stop(). *)
Return(t) ==
    /\ call[t] # "none"
    /\ TakeHead(t) \/ (stopped /\ TakeNothing(t))
    /\ call' = [call EXCEPT ![t] = "none"]
    /\ UNCHANGED stopped

(* pop_for returns nothing because its time is up and there is no item. *)
TimeOut(t) ==
    /\ call[t] = "pop_for"
    /\ TakeNothing(t)
    /\ call' = [call EXCEPT ![t] = "none"]
    /\ UNCHANGED stopped

Next ==
    \/ \E x \in Items : Push(x)
    \/ Stop
    \/ \E t \in Threads :
        \/ TryPop(t)
        \/ \E op \in {"pop", "pop_for"} : Call(t, op)
        \/ Return(t)
        \/ TimeOut(t)

Spec == Init /\ [][Next]_vars

(* A waiting operation that can return does, and pop_for does anyway. *)
Liveness ==
    \A t \in Threads :
        /\ WF_vars(Return(t))
        /\ WF_vars(call[t] = "pop_for" /\ (Return(t) \/ TimeOut(t)))

FairSpec == Spec /\ Liveness

=============================================================================
