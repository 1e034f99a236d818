----------------------- MODULE ConcurrentQueueProofs -----------------------
(***************************************************************************)
(* Theorems about ConcurrentQueue, for any finite set of threads, any set  *)
(* of items and any bound on the length.                                   *)
(***************************************************************************)
EXTENDS ConcurrentQueue, FiniteSetTheorems, TLAPS

(* Every state the queue reaches is well typed; in particular a queue      *)
(* never holds nullopt, so that nullopt always means "no item".            *)
THEOREM TypeCorrect == Spec => []TypeOK
<1>1. Init => TypeOK
  <2>1. <<>> \in Seq(Items)
    OBVIOUS
  <2>2. QED
    BY <2>1 DEF Init, TypeOK, PC
<1>2. TypeOK /\ [Next]_vars => TypeOK'
  <2> SUFFICES ASSUME TypeOK, [Next]_vars PROVE TypeOK'
    OBVIOUS
  <2>1. CASE UNCHANGED vars
    BY <2>1 DEF vars, TypeOK
  <2>2. ASSUME NEW t \in Threads, NEW x \in Items, Push(t, x) PROVE TypeOK'
    BY <2>2 DEF Push, Goto, TypeOK, PC
  <2>3. ASSUME NEW t \in Threads, TryPop(t) PROVE TypeOK'
    BY <2>3 DEF TryPop, PopHead, TypeOK
  <2>4. ASSUME NEW t \in Threads, NEW op \in {"pop", "pop_for"}, Enter(t, op)
        PROVE TypeOK'
    BY <2>4 DEF Enter, Goto, TypeOK, PC
  <2>5. ASSUME NEW t \in Threads, Stop(t) PROVE TypeOK'
    BY <2>5 DEF Stop, Goto, TypeOK, PC
  <2>6. ASSUME NEW t \in Threads, Notify(t) PROVE TypeOK'
    BY <2>6 DEF Woken, Notify, NotifyOne, NotifyAll, Goto, Asleep, At, TypeOK, PC
  <2>7. ASSUME NEW t \in Threads, Advance(t) PROVE TypeOK'
    BY <2>7 DEF Advance, PopReady, PopSleep, PopGiveUp, PopHead, Goto, TypeOK, PC
  <2>8. ASSUME NEW t \in Threads, TimeOut(t) \/ SpuriousWake(t) PROVE TypeOK'
    BY <2>8 DEF Woken, TimeOut, SpuriousWake, Goto, TypeOK, PC
  <2>9. QED
    BY <2>1, <2>2, <2>3, <2>4, <2>5, <2>6, <2>7, <2>8 DEF Next
<1>3. QED
  BY <1>1, <1>2, PTL DEF Spec

-----------------------------------------------------------------------------

(* stop() reaches every sleeper: proved of StopReachesSleepers, which is   *)
(* inductive next to the types, because nobody falls asleep once stopped_  *)
(* is set and the notify_all that removes the last witness wakes everyone. *)
THEOREM StopReachesEverySleeper == Spec => []StopReachesSleepers
<1>1. Init => StopReachesSleepers
  BY DEF Init, StopReachesSleepers
<1>2. TypeOK /\ StopReachesSleepers /\ [Next]_vars => StopReachesSleepers'
  <2> SUFFICES ASSUME TypeOK, StopReachesSleepers, [Next]_vars,
                      stopped', Asleep' # {}
               PROVE  \E u \in Threads : pc'[u] = "notify_all"
    BY DEF StopReachesSleepers, At
  <2> USE DEF Asleep, At, TypeOK
  <2>0. \/ ~stopped
        \/ \A u \in Threads : pc[u] \notin {"pop_wait", "pop_for_wait"}
        \/ \E u \in Threads : pc[u] = "notify_all"
    BY DEF StopReachesSleepers
  <2>1. CASE UNCHANGED vars
    BY <2>0, <2>1 DEF vars
  <2>2. ASSUME NEW t \in Threads, NEW x \in Items, Push(t, x)
        PROVE  \E u \in Threads : pc'[u] = "notify_all"
    BY <2>0, <2>2 DEF Push, Goto
  <2>3. ASSUME NEW t \in Threads, TryPop(t)
        PROVE  \E u \in Threads : pc'[u] = "notify_all"
    BY <2>0, <2>3 DEF TryPop
  <2>4. ASSUME NEW t \in Threads, NEW op \in {"pop", "pop_for"}, Enter(t, op)
        PROVE  \E u \in Threads : pc'[u] = "notify_all"
    BY <2>0, <2>4 DEF Enter, Goto
  <2>5. ASSUME NEW t \in Threads, Stop(t)
        PROVE  \E u \in Threads : pc'[u] = "notify_all"
    BY <2>5 DEF Stop, Goto
  <2>6. ASSUME NEW t \in Threads, NotifyOne(t)
        PROVE  \E u \in Threads : pc'[u] = "notify_all"
    BY <2>0, <2>6 DEF Woken, NotifyOne, Goto
  <2>7. ASSUME NEW t \in Threads, NotifyAll(t)
        PROVE  \E u \in Threads : pc'[u] = "notify_all"
    BY <2>7 DEF Woken, NotifyAll
  <2>8. ASSUME NEW t \in Threads, Advance(t)
        PROVE  \E u \in Threads : pc'[u] = "notify_all"
    BY <2>0, <2>8 DEF Advance, PopReady, PopSleep, PopGiveUp, Ready, Awake, Goto
  <2>9. ASSUME NEW t \in Threads, TimeOut(t) \/ SpuriousWake(t)
        PROVE  \E u \in Threads : pc'[u] = "notify_all"
    BY <2>0, <2>9 DEF Woken, TimeOut, SpuriousWake, Goto
  <2>10. QED
    BY <2>1, <2>2, <2>3, <2>4, <2>5, <2>6, <2>7, <2>8, <2>9 DEF Next, Notify
<1>3. QED
  BY <1>1, <1>2, TypeCorrect, PTL DEF Spec

-----------------------------------------------------------------------------

(* The wake-ups under way can be counted, in any state and in the next.    *)
LEMMA WakeupsFinite ==
  /\ IsFiniteSet(Notifying) /\ Cardinality(Notifying) \in Nat
  /\ IsFiniteSet(Awake) /\ Cardinality(Awake) \in Nat
  /\ IsFiniteSet(Notifying') /\ Cardinality(Notifying') \in Nat
  /\ IsFiniteSet(Awake') /\ Cardinality(Awake') \in Nat
<1>1. /\ Notifying \subseteq Threads /\ Awake \subseteq Threads
      /\ Notifying' \subseteq Threads /\ Awake' \subseteq Threads
  BY DEF Notifying, Awake, At
<1>2. QED
  BY <1>1, ThreadsAssumption, FS_Subset, FS_CardinalityType

(* No lost wake-up: WakeupsCoverItems is inductive next to the types.      *)
THEOREM NoLostWakeup == Spec => []WakeupsCoverItems
<1>1. Init => WakeupsCoverItems
  BY DEF Init, WakeupsCoverItems, Asleep, At
<1>2. TypeOK /\ WakeupsCoverItems /\ [Next]_vars => WakeupsCoverItems'
  <2> SUFFICES ASSUME TypeOK, WakeupsCoverItems, [Next]_vars, Asleep' # {}
               PROVE  Len(queue') <= Cardinality(Notifying') + Cardinality(Awake')
    BY DEF WakeupsCoverItems
  <2> DEFINE Goal == Len(queue') <= Cardinality(Notifying') + Cardinality(Awake')
  <2>0. /\ Asleep # {} => Len(queue) <= Cardinality(Notifying) + Cardinality(Awake)
        /\ Len(queue) \in Nat
    BY DEF WakeupsCoverItems, TypeOK
  <2>e. Len(queue') = 0 => Goal
    BY WakeupsFinite
  <2>1. CASE UNCHANGED vars
    BY <2>0, <2>1 DEF vars, Asleep, Notifying, Awake, At
  <2>2. ASSUME NEW t \in Threads, NEW x \in Items, Push(t, x) PROVE Goal
    <3>1. /\ Asleep' = Asleep /\ Awake' = Awake
          /\ Notifying' = Notifying \cup {t} /\ t \notin Notifying
      BY <2>2 DEF Push, Goto, Asleep, Awake, Notifying, At, TypeOK
    <3>2. Len(queue') = Len(queue) + 1
      BY <2>2 DEF Push, TypeOK
    <3>3. Cardinality(Notifying') = Cardinality(Notifying) + 1
      BY <3>1, WakeupsFinite, FS_AddElement
    <3>4. QED
      BY <2>0, <3>1, <3>2, <3>3, WakeupsFinite
  <2>3. ASSUME NEW t \in Threads, TryPop(t) PROVE Goal
    <3>1. /\ Asleep' = Asleep /\ Awake' = Awake /\ Notifying' = Notifying
          /\ Len(queue') \in Nat /\ Len(queue') <= Len(queue)
      BY <2>3 DEF TryPop, PopHead, Asleep, Awake, Notifying, At, TypeOK
    <3>2. QED
      BY <2>0, <3>1, WakeupsFinite
  <2>4. ASSUME NEW t \in Threads, NEW op \in {"pop", "pop_for"}, Enter(t, op)
        PROVE Goal
    <3>1. /\ Asleep' = Asleep /\ Notifying' = Notifying
          /\ Awake' = Awake \cup {t} /\ t \notin Awake /\ queue' = queue
      BY <2>4 DEF Enter, Goto, Asleep, Awake, Notifying, At, TypeOK
    <3>2. Cardinality(Awake') = Cardinality(Awake) + 1
      BY <3>1, WakeupsFinite, FS_AddElement
    <3>3. QED
      BY <2>0, <3>1, <3>2, WakeupsFinite
  <2>5. ASSUME NEW t \in Threads, Stop(t) PROVE Goal
    <3>1. /\ Asleep' = Asleep /\ Awake' = Awake /\ Notifying' = Notifying
          /\ queue' = queue
      BY <2>5 DEF Stop, Goto, Asleep, Awake, Notifying, At, TypeOK
    <3>2. QED
      BY <2>0, <3>1
  <2>6. ASSUME NEW t \in Threads, NotifyOne(t) PROVE Goal
    <3>1. CASE Asleep = {} /\ Goto(t, "idle")
      BY <2>6, <3>1 DEF Woken, Goto, NotifyOne, Asleep, At, TypeOK
    <3>2. ASSUME NEW s \in Asleep,
                 pc' = [pc EXCEPT ![t] = "idle", ![s] = Woken(@)]
          PROVE  Goal
      <4>1. /\ Notifying' = Notifying \ {t} /\ t \in Notifying
            /\ Awake' = Awake \cup {s} /\ s \notin Awake
            /\ Asleep # {} /\ queue' = queue
        BY <2>6, <3>2 DEF Woken, NotifyOne, Asleep, Awake, Notifying, At, TypeOK
      <4>2. Cardinality(Notifying') = Cardinality(Notifying) - 1
        BY <4>1, WakeupsFinite, FS_RemoveElement
      <4>3. Cardinality(Awake') = Cardinality(Awake) + 1
        BY <4>1, WakeupsFinite, FS_AddElement
      <4>4. QED
        BY <2>0, <4>1, <4>2, <4>3, WakeupsFinite
    <3>3. QED
      BY <2>6, <3>1, <3>2 DEF Woken, NotifyOne
  <2>7. ASSUME NEW t \in Threads, NotifyAll(t) PROVE Goal
    <3>1. Asleep' = {}
      BY <2>7 DEF Woken, NotifyAll, Asleep, At, TypeOK
    <3>2. QED
      BY <3>1
  <2>8. ASSUME NEW t \in Threads, PopReady(t) PROVE Goal
    <3>1. CASE queue = <<>>
      BY <2>8, <2>e, <3>1 DEF PopReady, PopHead
    <3>2. CASE queue # <<>>
      <4>1. Asleep' = Asleep /\ Notifying' = Notifying
        BY <2>8 DEF PopReady, Goto, Asleep, Awake, Notifying, At, TypeOK
      <4>2. Awake' = Awake \ {t} /\ t \in Awake
        BY <2>8 DEF PopReady, Goto, Awake, At, TypeOK
      <4>3. Len(queue') = Len(queue) - 1
        BY <2>8, <3>2 DEF PopReady, PopHead, TypeOK
      <4>4. Cardinality(Awake') = Cardinality(Awake) - 1
        BY <4>2, WakeupsFinite, FS_RemoveElement
      <4>5. QED
        BY <2>0, <4>1, <4>3, <4>4, WakeupsFinite
    <3>3. QED
      BY <3>1, <3>2
  <2>9. ASSUME NEW t \in Threads, PopSleep(t) \/ PopGiveUp(t) PROVE Goal
    <3>1. Len(queue') = 0
      BY <2>9 DEF PopSleep, PopGiveUp, Ready
    <3>2. QED
      BY <2>e, <3>1
  <2>10. ASSUME NEW t \in Threads, TimeOut(t) \/ SpuriousWake(t) PROVE Goal
    <3>1. /\ Asleep' \subseteq Asleep /\ Notifying' = Notifying
          /\ Awake' = Awake \cup {t} /\ queue' = queue
      BY <2>10 DEF Woken, TimeOut, SpuriousWake, Goto, Asleep, Awake, Notifying, At, TypeOK
    <3>2. Cardinality(Awake') >= Cardinality(Awake)
      BY <3>1, WakeupsFinite, FS_AddElement
    <3>3. QED
      BY <2>0, <3>1, <3>2, WakeupsFinite
  <2>11. QED
    BY <2>1, <2>2, <2>3, <2>4, <2>5, <2>6, <2>7, <2>8, <2>9, <2>10
       DEF Next, Notify, Advance
<1>3. QED
  BY <1>1, <1>2, TypeCorrect, PTL DEF Spec

-----------------------------------------------------------------------------

(* ConcurrentQueue implements BlockingFifo, fairness aside: each critical  *)
(* section is the whole of one abstract operation or nothing at all.       *)
THEOREM ImplementsBlockingFifo == Spec => Fifo!Spec
<1> DEFINE calls == [t \in Threads |-> CallOf(t)]
<1>1. Init => Fifo!Init
  BY DEF Init, Fifo!Init, CallOf
<1>2. TypeOK /\ [Next]_vars => [Fifo!Next]_(Fifo!vars)
  <2> SUFFICES ASSUME TypeOK, [Next]_vars PROVE [Fifo!Next]_(Fifo!vars)
    OBVIOUS
  <2>1. CASE UNCHANGED vars
    BY <2>1 DEF vars, Fifo!vars, CallOf
  <2>2. ASSUME NEW t \in Threads, NEW x \in Items, Push(t, x)
        PROVE  [Fifo!Next]_(Fifo!vars)
    <3>1. calls' = calls
      BY <2>2 DEF Push, Goto, CallOf, TypeOK
    <3>2. Fifo!Push(x)
      BY <2>2, <3>1 DEF Push, Fifo!Push
    <3>3. QED
      BY <3>2 DEF Fifo!Next
  <2>3. ASSUME NEW t \in Threads, TryPop(t) PROVE [Fifo!Next]_(Fifo!vars)
    <3>1. calls' = calls /\ calls[t] = "none"
      BY <2>3 DEF TryPop, CallOf
    <3>2. Fifo!TakeHead(t) \/ Fifo!TakeNothing(t)
      BY <2>3 DEF TryPop, PopHead, Fifo!TakeHead, Fifo!TakeNothing
    <3>3. Fifo!TryPop(t)
      BY <2>3, <3>1, <3>2 DEF TryPop, Fifo!TryPop
    <3>4. QED
      BY <3>3 DEF Fifo!Next
  <2>4. ASSUME NEW t \in Threads, NEW op \in {"pop", "pop_for"}, Enter(t, op)
        PROVE  [Fifo!Next]_(Fifo!vars)
    <3>1. calls' = [calls EXCEPT ![t] = op] /\ calls[t] = "none"
      BY <2>4 DEF Enter, Goto, CallOf, TypeOK
    <3>2. Fifo!Call(t, op)
      BY <2>4, <3>1 DEF Enter, Fifo!Call
    <3>3. QED
      BY <3>2 DEF Fifo!Next
  <2>5. ASSUME NEW t \in Threads, Stop(t) PROVE [Fifo!Next]_(Fifo!vars)
    <3>1. calls' = calls
      BY <2>5 DEF Stop, Goto, CallOf, TypeOK
    <3>2. Fifo!Stop
      BY <2>5, <3>1 DEF Stop, Fifo!Stop
    <3>3. QED
      BY <3>2 DEF Fifo!Next
  <2>6. ASSUME NEW t \in Threads,
               Notify(t) \/ PopSleep(t) \/ TimeOut(t) \/ SpuriousWake(t)
        PROVE  [Fifo!Next]_(Fifo!vars)
    <3>1. calls' = calls
      <4>1. CASE NotifyOne(t)
        BY <4>1 DEF Woken, NotifyOne, Goto, Asleep, At, CallOf, TypeOK
      <4>2. CASE NotifyAll(t)
        BY <4>2 DEF Woken, NotifyAll, Asleep, At, CallOf, TypeOK
      <4>3. CASE PopSleep(t) \/ TimeOut(t) \/ SpuriousWake(t)
        BY <4>3 DEF Woken, PopSleep, TimeOut, SpuriousWake, Goto, Asleep, At, CallOf, TypeOK
      <4>4. QED
        BY <2>6, <4>1, <4>2, <4>3 DEF Notify
    <3>2. UNCHANGED <<queue, stopped, result>>
      BY <2>6 DEF Woken, Notify, NotifyOne, NotifyAll, PopSleep, TimeOut, SpuriousWake
    <3>3. QED
      BY <3>1, <3>2 DEF Fifo!vars
  <2>7. ASSUME NEW t \in Threads, PopReady(t) PROVE [Fifo!Next]_(Fifo!vars)
    <3>1. calls' = [calls EXCEPT ![t] = "none"] /\ calls[t] # "none"
      BY <2>7 DEF PopReady, Goto, Awake, At, CallOf, TypeOK
    <3>2. Fifo!TakeHead(t) \/ (stopped /\ Fifo!TakeNothing(t))
      BY <2>7 DEF PopReady, Ready, PopHead, Fifo!TakeHead, Fifo!TakeNothing
    <3>3. Fifo!Return(t)
      BY <2>7, <3>1, <3>2 DEF PopReady, Fifo!Return
    <3>4. QED
      BY <3>3 DEF Fifo!Next
  <2>8. ASSUME NEW t \in Threads, PopGiveUp(t) PROVE [Fifo!Next]_(Fifo!vars)
    <3>1. calls' = [calls EXCEPT ![t] = "none"] /\ calls[t] = "pop_for"
      BY <2>8 DEF PopGiveUp, Goto, CallOf, TypeOK
    <3>2. Fifo!TimeOut(t)
      BY <2>8, <3>1 DEF PopGiveUp, Ready, Fifo!TimeOut, Fifo!TakeNothing
    <3>3. QED
      BY <3>2 DEF Fifo!Next
  <2>9. QED
    BY <2>1, <2>2, <2>3, <2>4, <2>5, <2>6, <2>7, <2>8 DEF Next, Advance
<1>3. QED
  BY <1>1, <1>2, TypeCorrect, PTL DEF Spec, Fifo!Spec

=============================================================================
