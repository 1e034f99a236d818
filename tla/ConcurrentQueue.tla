-------------------------- MODULE ConcurrentQueue --------------------------
(***************************************************************************)
(* ConcurrentQueue<T>: one mutex, one condition variable, and callers that *)
(* notify after they have released the mutex.                              *)
(*                                                                         *)
(* A critical section is one step.  What happens outside of it is not part *)
(* of that step: a notification, which another thread may run ahead of,    *)
(* and the sleep of a waiter, which ends by a notification, by the         *)
(* deadline or for no reason at all, and after which the waiter must take  *)
(* the mutex again before it looks at the queue.                           *)
(***************************************************************************)
EXTENDS Naturals, Sequences, FiniteSets

CONSTANTS Threads, Items, Nothing, MaxLen

ASSUME NothingAssumption == Nothing \notin Items
ASSUME MaxLenAssumption  == MaxLen \in Nat
ASSUME ThreadsAssumption == IsFiniteSet(Threads)

VARIABLES
    queue,     \* queue_
    stopped,   \* stopped_
    pc,        \* where each thread is, see PC
    result     \* what each thread's last operation returned

vars == <<queue, stopped, pc, result>>

(* A thread inside pop or pop_for is asleep ("..._wait"), or awake and     *)
(* about to take the mutex and evaluate the predicate; "timed_out" is      *)
(* awake for the last time.  A thread in "notify_one" or "notify_all" has  *)
(* released the mutex of push or stop and not yet notified.                *)
PC == {"idle", "notify_one", "notify_all",
       "pop", "pop_wait", "pop_for", "pop_for_wait", "timed_out"}

TypeOK ==
    /\ queue \in Seq(Items)
    /\ stopped \in BOOLEAN
    /\ pc \in [Threads -> PC]
    /\ result \in [Threads -> Items \cup {Nothing}]

At(places) == {t \in Threads : pc[t] \in places}

Asleep    == At({"pop_wait", "pop_for_wait"})
Awake     == At({"pop", "pop_for", "timed_out"})
Notifying == At({"notify_one"})

Init ==
    /\ queue = <<>>
    /\ stopped = FALSE
    /\ pc = [t \in Threads |-> "idle"]
    /\ result = [t \in Threads |-> Nothing]

-----------------------------------------------------------------------------

Goto(t, place) == pc' = [pc EXCEPT ![t] = place]

(* Where a sleeper goes on when it wakes: back to evaluate the predicate. *)
Woken(place) == IF place = "pop_wait" THEN "pop" ELSE "pop_for"

(* The predicate of both waits. *)
Ready == queue # <<>> \/ stopped

(* Mutant of PopHead: queue_.pop() is forgotten, the moved-from item stays. *)
PopHeadMutant(t) ==
    /\ queue # <<>>
    /\ result' = [result EXCEPT ![t] = Head(queue)]
    /\ queue' = [queue EXCEPT ![1] = Nothing]

(* The tail of try_pop, pop and pop_for, from "if (queue_.empty())" on. *)
PopHead(t) ==
    IF queue = <<>>
    THEN /\ result' = [result EXCEPT ![t] = Nothing]
         /\ UNCHANGED queue
    ELSE /\ result' = [result EXCEPT ![t] = Head(queue)]
         /\ queue' = Tail(queue)

(* Mutant of Push: "only the first item needs a notification". *)
PushMutant(t, x) ==
    /\ pc[t] = "idle"
    /\ Len(queue) < MaxLen
    /\ queue' = Append(queue, x)
    /\ Goto(t, IF queue = <<>> THEN "notify_one" ELSE "idle")
    /\ UNCHANGED <<stopped, result>>

Push(t, x) ==
    /\ pc[t] = "idle"
    /\ Len(queue) < MaxLen
    /\ queue' = Append(queue, x)
    /\ Goto(t, "notify_one")
    /\ UNCHANGED <<stopped, result>>

(* notify_one wakes some sleeper; with nobody asleep it is lost. *)
NotifyOne(t) ==
    /\ pc[t] = "notify_one"
    /\ \/ \E s \in Asleep :
            pc' = [pc EXCEPT ![t] = "idle", ![s] = Woken(@)]
       \/ Asleep = {} /\ Goto(t, "idle")
    /\ UNCHANGED <<queue, stopped, result>>

TryPop(t) ==
    /\ pc[t] = "idle"
    /\ PopHead(t)
    /\ UNCHANGED <<stopped, pc>>

Enter(t, op) ==
    /\ pc[t] = "idle"
    /\ Goto(t, op)
    /\ UNCHANGED <<queue, stopped, result>>

(* The predicate holds: the wait is over. *)
PopReady(t) ==
    /\ t \in Awake
    /\ Ready
    /\ PopHead(t)
    /\ Goto(t, "idle")
    /\ UNCHANGED stopped

(* It does not: sleep, releasing the mutex in the same step ... *)
PopSleep(t) ==
    /\ pc[t] \in {"pop", "pop_for"}
    /\ ~Ready
    /\ Goto(t, IF pc[t] = "pop" THEN "pop_wait" ELSE "pop_for_wait")
    /\ UNCHANGED <<queue, stopped, result>>

(* Mutant of PopGiveUp: the predicate is not evaluated after the deadline. *)
PopGiveUpMutant(t) ==
    /\ pc[t] = "timed_out"
    /\ result' = [result EXCEPT ![t] = Nothing]
    /\ Goto(t, "idle")
    /\ UNCHANGED <<queue, stopped>>

(* ... or, after the deadline, give up. *)
PopGiveUp(t) ==
    /\ pc[t] = "timed_out"
    /\ ~Ready
    /\ result' = [result EXCEPT ![t] = Nothing]
    /\ Goto(t, "idle")
    /\ UNCHANGED <<queue, stopped>>

(* The deadline of pop_for passes, asleep or between two evaluations. *)
TimeOut(t) ==
    /\ pc[t] \in {"pop_for", "pop_for_wait"}
    /\ Goto(t, "timed_out")
    /\ UNCHANGED <<queue, stopped, result>>

(* A sleeper wakes up with no notification. *)
SpuriousWake(t) ==
    /\ t \in Asleep
    /\ Goto(t, Woken(pc[t]))
    /\ UNCHANGED <<queue, stopped, result>>

(* Mutant of Stop: it notifies one waiter only. *)
StopMutant(t) ==
    /\ pc[t] = "idle"
    /\ stopped' = TRUE
    /\ Goto(t, "notify_one")
    /\ UNCHANGED <<queue, result>>

Stop(t) ==
    /\ pc[t] = "idle"
    /\ stopped' = TRUE
    /\ Goto(t, "notify_all")
    /\ UNCHANGED <<queue, result>>

NotifyAll(t) ==
    /\ pc[t] = "notify_all"
    /\ pc' = [s \in Threads |->
                IF s = t THEN "idle"
                ELSE IF s \in Asleep THEN Woken(pc[s]) ELSE pc[s]]
    /\ UNCHANGED <<queue, stopped, result>>

Notify(t)  == NotifyOne(t) \/ NotifyAll(t)
Advance(t) == PopReady(t) \/ PopSleep(t) \/ PopGiveUp(t)

Next ==
    \E t \in Threads :
        \/ \E x \in Items : Push(t, x)
        \/ TryPop(t)
        \/ \E op \in {"pop", "pop_for"} : Enter(t, op)
        \/ Stop(t)
        \/ Notify(t)
        \/ Advance(t)
        \/ TimeOut(t)
        \/ SpuriousWake(t)

Spec == Init /\ [][Next]_vars

(* No thread is forgotten between two of its own steps, a mutex that is    *)
(* free goes in the end to each thread that wants it, and time passes.     *)
(* Nothing makes a caller start an operation or a sleeper wake.            *)
Fairness ==
    \A t \in Threads :
        /\ WF_vars(Notify(t))
        /\ WF_vars(Advance(t))
        /\ WF_vars(TimeOut(t))

FairSpec == Spec /\ Fairness

-----------------------------------------------------------------------------

(* No lost wake-up, although notify_one is called with the mutex released: *)
(* as long as somebody sleeps, every item in the queue has a wake-up of    *)
(* its own under way - a push that has not notified yet, or a thread that  *)
(* is awake and has not looked at the queue yet.                           *)
WakeupsCoverItems ==
    Asleep # {} => Len(queue) <= Cardinality(Notifying) + Cardinality(Awake)

(* stop() misses no sleeper, whenever it fell asleep: after stopped_ is    *)
(* set, somebody can be asleep only while a notify_all is still to come.   *)
StopReachesSleepers ==
    stopped /\ Asleep # {} => At({"notify_all"}) # {}

(* The queue keeps the promise of BlockingFifo, its liveness included: the *)
(* operations take effect at one instant each, and a waiter that could     *)
(* return is not left asleep.                                              *)
CallOf(t) ==
    IF pc[t] \in {"pop", "pop_wait"} THEN "pop"
    ELSE IF pc[t] \in {"pop_for", "pop_for_wait", "timed_out"} THEN "pop_for"
    ELSE "none"

Fifo == INSTANCE BlockingFifo WITH call <- [t \in Threads |-> CallOf(t)]

KeepsThePromise == Fifo!FairSpec

=============================================================================
