------------------------ MODULE EventPipelineProofs ------------------------
(***************************************************************************)
(* Theorems about EventPipeline, for any finite pool of workers and any    *)
(* finite set of events.                                                   *)
(***************************************************************************)
EXTENDS EventPipeline, FiniteSetTheorems, TLAPS

-----------------------------------------------------------------------------
(* What the steps do to sequences, said of the sets of their elements.     *)

Distinct(seq) == \A i, j \in DOMAIN seq : seq[i] = seq[j] => i = j

LEMMA AppendElements ==
  ASSUME NEW S, NEW seq \in Seq(S), NEW x \in S
  PROVE  /\ Append(seq, x) \in Seq(S)
         /\ Len(Append(seq, x)) = Len(seq) + 1
         /\ SetOf(Append(seq, x)) = SetOf(seq) \cup {x}
         /\ Distinct(seq) /\ x \notin SetOf(seq) => Distinct(Append(seq, x))
<1> DEFINE longer == Append(seq, x)
<1>1. /\ longer \in Seq(S) /\ Len(longer) = Len(seq) + 1 /\ Len(seq) \in Nat
      /\ DOMAIN seq = 1..Len(seq) /\ DOMAIN longer = 1..(Len(seq) + 1)
      /\ \A i \in 1..Len(seq) : longer[i] = seq[i]
      /\ longer[Len(seq) + 1] = x
  OBVIOUS
<1>2. SetOf(longer) = SetOf(seq) \cup {x}
  <2>1. \A i \in DOMAIN longer : longer[i] \in SetOf(seq) \cup {x}
    BY <1>1 DEF SetOf
  <2>2. SetOf(seq) \subseteq SetOf(longer) /\ x \in SetOf(longer)
    <3>1. \A i \in DOMAIN seq : i \in DOMAIN longer /\ longer[i] = seq[i]
      BY <1>1
    <3>2. Len(seq) + 1 \in DOMAIN longer
      BY <1>1
    <3> HIDE DEF longer
    <3>3. QED
      BY <1>1, <3>1, <3>2 DEF SetOf
  <2> HIDE DEF longer
  <2>3. QED
    BY <2>1, <2>2 DEF SetOf
<1>3. Distinct(seq) /\ x \notin SetOf(seq) => Distinct(longer)
  <2> SUFFICES ASSUME Distinct(seq), x \notin SetOf(seq),
                      NEW i \in DOMAIN longer, NEW j \in DOMAIN longer,
                      longer[i] = longer[j]
               PROVE  i = j
    BY DEF Distinct
  <2>1. \A k \in 1..Len(seq) : seq[k] # x
    BY <1>1 DEF SetOf
  <2> HIDE DEF longer
  <2>2. QED
    BY <1>1, <2>1 DEF Distinct
<1>4. QED
  BY <1>1, <1>2, <1>3

LEMMA TailElements ==
  ASSUME NEW S, NEW seq \in Seq(S), seq # <<>>
  PROVE  /\ Tail(seq) \in Seq(S) /\ Head(seq) \in S
         /\ SetOf(seq) = SetOf(Tail(seq)) \cup {Head(seq)}
         /\ Distinct(seq) => Distinct(Tail(seq)) /\ Head(seq) \notin SetOf(Tail(seq))
<1> DEFINE rest == Tail(seq)
<1>1. /\ Len(seq) \in Nat \ {0} /\ Head(seq) = seq[1] /\ Head(seq) \in S
      /\ rest \in Seq(S)
      /\ DOMAIN seq = 1..Len(seq) /\ DOMAIN rest = 1..(Len(seq) - 1)
      /\ \A i \in 1..(Len(seq) - 1) : rest[i] = seq[i + 1]
  OBVIOUS
<1> HIDE DEF rest
<1>2. SetOf(seq) = SetOf(rest) \cup {Head(seq)}
  <2>1. \A i \in DOMAIN rest : rest[i] \in SetOf(seq)
    BY <1>1 DEF SetOf
  <2>2. Head(seq) \in SetOf(seq)
    BY <1>1 DEF SetOf
  <2>3. \A i \in DOMAIN seq : seq[i] \in SetOf(rest) \cup {Head(seq)}
    <3> SUFFICES ASSUME NEW i \in DOMAIN seq, i # 1 PROVE seq[i] \in SetOf(rest)
      BY <1>1
    <3>1. i - 1 \in DOMAIN rest /\ rest[i - 1] = seq[i]
      BY <1>1
    <3>2. QED
      BY <3>1 DEF SetOf
  <2>4. QED
    BY <2>1, <2>2, <2>3 DEF SetOf
<1>3. Distinct(seq) => Distinct(rest) /\ Head(seq) \notin SetOf(rest)
  <2> SUFFICES ASSUME Distinct(seq)
               PROVE  Distinct(rest) /\ Head(seq) \notin SetOf(rest)
    OBVIOUS
  <2>1. \A i \in DOMAIN rest :
          i + 1 \in DOMAIN seq /\ i + 1 # 1 /\ rest[i] = seq[i + 1] /\ i \in Int
    BY <1>1
  <2>2. 1 \in DOMAIN seq
    BY <1>1
  <2>3. \A i \in DOMAIN rest : rest[i] # Head(seq)
    BY <1>1, <2>1, <2>2 DEF Distinct
  <2>4. ASSUME NEW i \in DOMAIN rest, NEW j \in DOMAIN rest, rest[i] = rest[j]
        PROVE  i = j
    <3>1. i + 1 = j + 1
      BY <2>1, <2>4 DEF Distinct
    <3>2. QED
      BY <2>1, <3>1
  <2>5. QED
    BY <2>3, <2>4 DEF Distinct, SetOf
<1>4. QED
  BY <1>1, <1>2, <1>3 DEF rest

-----------------------------------------------------------------------------

(* Every state of the pipeline is well typed: in particular only events,   *)
(* never the nullopt of an empty queue, get a row in the storage.          *)
ResultsAreEvents ==
    \A w \in Workers : InHand(w) => result[w] \in Events

TypeInv == TypeOK /\ ResultsAreEvents

LEMMA TypeInvariant == Spec => []TypeInv
<1>1. Init => TypeInv
  <2>1. <<>> \in Seq(Events)
    OBVIOUS
  <2>2. ASSUME Init PROVE TypeOK
    BY <2>1, <2>2 DEF Init, Queue!Init, TypeOK, Queue!TypeOK, WorkerPC, OwnerPC
  <2>3. ASSUME Init PROVE ResultsAreEvents
    BY <2>3 DEF Init, ResultsAreEvents, InHand
  <2>4. QED
    BY <2>2, <2>3 DEF TypeInv
<1>2. TypeInv /\ [Next]_vars => TypeInv'
  <2> SUFFICES ASSUME TypeInv, [Next]_vars PROVE TypeInv'
    OBVIOUS
  <2> USE DEF TypeInv, TypeOK, Queue!TypeOK, ResultsAreEvents, InHand, queue_vars,
              config, history
  <2>1. CASE UNCHANGED vars
    BY <2>1 DEF vars
  <2>2. ASSUME NEW e \in Events, Submit(e) PROVE TypeInv'
    <3>1. /\ queue' = Append(queue, e) /\ UNCHANGED <<stopped, call, result>>
          /\ submitted' = Append(submitted, e)
          /\ UNCHANGED <<config, rows, unsaved, processed, running, owner, wpc>>
      BY <2>2 DEF Submit, Queue!Push
    <3>2. queue' \in Seq(Events) /\ submitted' \in Seq(Events)
      BY <3>1, AppendElements
    <3>3. QED
      BY <3>1, <3>2
  <2>3. CASE SetStorage \/ SetIndex
    BY <2>3 DEF SetStorage, SetIndex
  <2>4. CASE Start \/ Started \/ Stop \/ Destroy
    BY <2>4 DEF Start, Started, Stop, Destroy, OwnerPC
  <2>5. CASE Stopping
    BY <2>5 DEF Stopping, StopQueue, Queue!Stop, Join, OwnerPC, WorkerPC
  <2>6. ASSUME NEW w \in Workers, Spawn(w) PROVE TypeInv'
    BY <2>6 DEF Spawn, WorkerPC
  <2>7. ASSUME NEW w \in Workers, LoopCheck(w) PROVE TypeInv'
    BY <2>7 DEF LoopCheck, Goto, Queue!Call, WorkerPC
  <2>8. ASSUME NEW w \in Workers, Pop(w) PROVE TypeInv'
    <3>1. /\ call' = [call EXCEPT ![w] = "none"]
          /\ UNCHANGED <<stopped, config, history, running, owner>>
          /\ wpc' = [wpc EXCEPT ![w] = IF result'[w] = Nothing THEN "check"
                                       ELSE "stages"]
          /\ \/ /\ queue # <<>> /\ queue' = Tail(queue)
                /\ result' = [result EXCEPT ![w] = Head(queue)]
             \/ /\ queue' = queue /\ result' = [result EXCEPT ![w] = Nothing]
      BY <2>8 DEF Pop, Popped, Goto, Queue!Return, Queue!TimeOut, Queue!TakeHead,
                  Queue!TakeNothing
    <3>2. queue' \in Seq(Events) /\ result' \in [Workers -> Events \cup {Nothing}]
      <4>1. CASE queue # <<>> /\ queue' = Tail(queue)
                 /\ result' = [result EXCEPT ![w] = Head(queue)]
        <5>1. Tail(queue) \in Seq(Events) /\ Head(queue) \in Events
          BY <4>1, TailElements
        <5>2. QED
          BY <4>1, <5>1
      <4>2. CASE queue' = queue /\ result' = [result EXCEPT ![w] = Nothing]
        BY <4>2
      <4>3. QED
        BY <3>1, <4>1, <4>2
    <3>3. wpc' \in [Workers -> WorkerPC]
      BY <3>1 DEF WorkerPC
    <3>4. ResultsAreEvents'
      BY <3>1, <3>2
    <3>5. QED
      BY <3>1, <3>2, <3>3, <3>4
  <2>9. ASSUME NEW w \in Workers, RunStages(w) \/ UpdateIndex(w) \/ Count(w)
        PROVE  TypeInv'
    <3>1. CASE RunStages(w)
      BY <3>1 DEF RunStages, Goto, WorkerPC
    <3>2. CASE UpdateIndex(w)
      BY <3>2 DEF UpdateIndex, Goto, WorkerPC
    <3>3. CASE Count(w)
      BY <3>3 DEF Count, Goto, WorkerPC
    <3>4. QED
      BY <2>9, <3>1, <3>2, <3>3
  <2>10. ASSUME NEW w \in Workers, SaveRow(w) \/ SaveNothing(w) PROVE TypeInv'
    <3>1. result[w] \in Events
      BY <2>10 DEF SaveRow, SaveNothing
    <3>2. rows' \in Seq(Events)
      <4>1. Append(rows, result[w]) \in Seq(Events)
        BY <3>1, AppendElements
      <4>2. QED
        BY <2>10, <4>1 DEF SaveRow, SaveNothing
    <3>3. CASE SaveRow(w)
      BY <3>2, <3>3 DEF SaveRow, Goto, WorkerPC
    <3>4. CASE SaveNothing(w)
      BY <3>1, <3>2, <3>4 DEF SaveNothing, Goto, WorkerPC
    <3>5. QED
      BY <2>10, <3>3, <3>4
  <2>11. QED
    BY <2>1, <2>2, <2>3, <2>4, <2>5, <2>6, <2>7, <2>8, <2>9, <2>10
       DEF Next, Step
<1>3. QED
  BY <1>1, <1>2, PTL DEF Spec

(* The type invariant of the runs.                                         *)
THEOREM TypeCorrect == Spec => []TypeOK
<1>1. TypeInv => TypeOK
  BY DEF TypeInv
<1>2. QED
  BY <1>1, TypeInvariant, PTL

-----------------------------------------------------------------------------
(* The owner and the workers: nothing moves outside start() ... stop().    *)

OwnerInv ==
    /\ owner = "starting" => running
    /\ owner \in {"stopping", "joining", "destroyed"} => ~running
    /\ owner \in {"idle", "destroyed"} /\ ~running =>
           \A w \in Workers : wpc[w] = "none"
    /\ \A w \in Workers : call[w] # "none" => wpc[w] = "pop"

LEMMA OwnerInvariant == Spec => []OwnerInv
<1>1. Init => OwnerInv
  BY DEF Init, Queue!Init, OwnerInv
<1>2. TypeInv /\ OwnerInv /\ [Next]_vars => OwnerInv'
  <2> SUFFICES ASSUME TypeInv, OwnerInv, [Next]_vars PROVE OwnerInv'
    OBVIOUS
  <2> USE DEF OwnerInv, queue_vars
  <2>0. /\ wpc \in [Workers -> WorkerPC] /\ owner \in OwnerPC /\ running \in BOOLEAN
        /\ call \in [Workers -> {"none", "pop", "pop_for"}]
    BY DEF TypeInv, TypeOK, Queue!TypeOK
  <2>1. CASE UNCHANGED vars
    BY <2>1 DEF vars
  <2>2. ASSUME NEW e \in Events, Submit(e) PROVE OwnerInv'
    BY <2>2 DEF Submit, Queue!Push
  <2>3. CASE SetStorage \/ SetIndex
    BY <2>3 DEF SetStorage, SetIndex
  <2>4. CASE Start \/ Started \/ Stop \/ Destroy
    BY <2>0, <2>4 DEF Start, Started, Stop, Destroy
  <2>5. CASE StopQueue
    BY <2>0, <2>5 DEF StopQueue, Queue!Stop
  <2>6. CASE Join
    BY <2>0, <2>6 DEF Join
  <2>7. ASSUME NEW w \in Workers, Spawn(w) PROVE OwnerInv'
    BY <2>0, <2>7 DEF Spawn
  <2>8. ASSUME NEW w \in Workers, LoopCheck(w) PROVE OwnerInv'
    BY <2>0, <2>8 DEF LoopCheck, Goto, Queue!Call
  <2>9. ASSUME NEW w \in Workers, Pop(w) PROVE OwnerInv'
    BY <2>0, <2>9 DEF Pop, Popped, Goto, Queue!Return, Queue!TimeOut
  <2>10. ASSUME NEW w \in Workers, RunStages(w) \/ UpdateIndex(w) \/ Count(w)
         PROVE  OwnerInv'
    BY <2>0, <2>10 DEF RunStages, UpdateIndex, Count, Goto
  <2>11. ASSUME NEW w \in Workers, SaveRow(w) \/ SaveNothing(w) PROVE OwnerInv'
    BY <2>0, <2>11 DEF SaveRow, SaveNothing, Goto
  <2>12. QED
    BY <2>1, <2>2, <2>3, <2>4, <2>5, <2>6, <2>7, <2>8, <2>9, <2>10, <2>11
       DEF Next, Step, Stopping
<1>3. QED
  BY <1>1, <1>2, TypeInvariant, PTL DEF Spec

-----------------------------------------------------------------------------
(* Where the events are.  Conserved is EveryEventInOnePlace, taken apart   *)
(* into what each step keeps.                                              *)

HeldBy(v, e) == InHand(v) /\ result[v] = e

Conserved ==
    /\ \A e \in Events :
         e \in SetOf(submitted) <=>
            \/ e \in SetOf(queue) \/ e \in SetOf(rows) \/ e \in unsaved
            \/ \E v \in Workers : HeldBy(v, e)
    /\ Distinct(queue) /\ Distinct(rows)
    /\ SetOf(queue) \cap SetOf(rows) = {}
    /\ SetOf(queue) \cap unsaved = {}
    /\ SetOf(rows) \cap unsaved = {}
    /\ \A v \in Workers : InHand(v) =>
         /\ result[v] \notin SetOf(queue)
         /\ result[v] \notin SetOf(rows)
         /\ result[v] \notin unsaved
         /\ \A u \in Workers : HeldBy(u, result[v]) => u = v

(* A step that moves no event.                                             *)
LEMMA NothingMoves ==
  ASSUME Conserved, UNCHANGED <<queue, rows, unsaved, submitted, result>>,
         \A v \in Workers : InHand(v)' <=> InHand(v)
  PROVE  Conserved'
BY DEF Conserved, HeldBy, Distinct, SetOf

LEMMA ConservedInvariant == Spec => []Conserved
<1>1. Init => Conserved
  BY DEF Init, Queue!Init, Conserved, Distinct, SetOf, HeldBy, InHand
<1>2. TypeInv /\ Conserved /\ [Next]_vars => Conserved'
  <2> SUFFICES ASSUME TypeInv, Conserved, [Next]_vars PROVE Conserved'
    OBVIOUS
  <2> USE DEF queue_vars, config, history
  <2>0. /\ wpc \in [Workers -> WorkerPC]
        /\ queue \in Seq(Events) /\ rows \in Seq(Events) /\ submitted \in Seq(Events)
        /\ unsaved \subseteq Events
        /\ result \in [Workers -> Events \cup {Nothing}]
        /\ \A v \in Workers : InHand(v) => result[v] \in Events
    BY DEF TypeInv, TypeOK, Queue!TypeOK, ResultsAreEvents
  <2>1. CASE UNCHANGED vars
    BY <2>1, NothingMoves DEF vars, InHand
  <2>2. ASSUME NEW e \in Events, Submit(e) PROVE Conserved'
    <3>1. /\ queue' = Append(queue, e) /\ submitted' = Append(submitted, e)
          /\ e \notin SetOf(submitted)
          /\ UNCHANGED <<rows, unsaved, result, wpc>>
      BY <2>2 DEF Submit, Queue!Push
    <3>2. /\ e \notin SetOf(queue) /\ e \notin SetOf(rows) /\ e \notin unsaved
          /\ \A v \in Workers : ~HeldBy(v, e)
      BY <3>1 DEF Conserved
    <3>3. /\ SetOf(queue') = SetOf(queue) \cup {e} /\ Distinct(queue')
          /\ SetOf(submitted') = SetOf(submitted) \cup {e}
      BY <2>0, <3>1, <3>2, AppendElements DEF Conserved
    <3>4. /\ SetOf(rows)' = SetOf(rows) /\ Distinct(rows)' = Distinct(rows)
          /\ \A v \in Workers : InHand(v)' <=> InHand(v)
          /\ \A v \in Workers : result'[v] = result[v]
      BY <3>1 DEF SetOf, Distinct, InHand
    <3>5. SetOf(queue)' = SetOf(queue') /\ Distinct(queue)' = Distinct(queue')
          /\ SetOf(submitted)' = SetOf(submitted')
      BY DEF SetOf, Distinct
    <3>6. QED
      BY <3>1, <3>2, <3>3, <3>4, <3>5 DEF Conserved, HeldBy
  <2>3. ASSUME NEW w \in Workers, Pop(w) PROVE Conserved'
    <3>1. /\ wpc' = [wpc EXCEPT ![w] = IF result'[w] = Nothing THEN "check"
                                       ELSE "stages"]
          /\ wpc[w] = "pop"
          /\ UNCHANGED <<rows, unsaved, submitted>>
          /\ \/ /\ queue # <<>> /\ queue' = Tail(queue)
                /\ result' = [result EXCEPT ![w] = Head(queue)]
             \/ /\ queue' = queue /\ result' = [result EXCEPT ![w] = Nothing]
      BY <2>3 DEF Pop, Popped, Goto, Queue!Return, Queue!TimeOut, Queue!TakeHead,
                  Queue!TakeNothing
    <3>2. CASE queue' = queue /\ result' = [result EXCEPT ![w] = Nothing]
      <4>1. /\ \A v \in Workers : InHand(v)' <=> InHand(v)
            /\ \A v \in Workers : InHand(v) => result'[v] = result[v]
        BY <2>0, <3>1, <3>2 DEF InHand
      <4>2. SetOf(queue)' = SetOf(queue) /\ Distinct(queue)' = Distinct(queue)
            /\ SetOf(rows)' = SetOf(rows) /\ Distinct(rows)' = Distinct(rows)
            /\ SetOf(submitted)' = SetOf(submitted)
        BY <3>1, <3>2 DEF SetOf, Distinct
      <4>3. \A v \in Workers, e \in Events : HeldBy(v, e)' <=> HeldBy(v, e)
        BY <4>1 DEF HeldBy
      <4>4. QED
        BY <2>0, <3>1, <4>1, <4>2, <4>3 DEF Conserved
    <3>3. CASE queue # <<>> /\ queue' = Tail(queue)
               /\ result' = [result EXCEPT ![w] = Head(queue)]
      <4> DEFINE x == Head(queue)
      <4>1. /\ x \in Events /\ SetOf(queue) = SetOf(queue') \cup {x}
            /\ Distinct(queue') /\ x \notin SetOf(queue')
        BY <2>0, <3>3, TailElements DEF Conserved
      <4>2. /\ \A v \in Workers : InHand(v)' <=> InHand(v) \/ v = w
            /\ \A v \in Workers : v # w => result'[v] = result[v]
            /\ result'[w] = x /\ ~InHand(w)
        BY <2>0, <3>1, <3>3, <4>1, NothingAssumption DEF InHand
      <4>3. /\ SetOf(queue)' = SetOf(queue') /\ Distinct(queue)' = Distinct(queue')
            /\ SetOf(rows)' = SetOf(rows) /\ Distinct(rows)' = Distinct(rows)
            /\ SetOf(submitted)' = SetOf(submitted)
        BY <3>1 DEF SetOf, Distinct
      <4>4. x \notin SetOf(rows) /\ x \notin unsaved
            /\ \A v \in Workers : ~HeldBy(v, x)
        BY <4>1 DEF Conserved, HeldBy
      <4> HIDE DEF x
      <4>5. \A v \in Workers, e \in Events :
               HeldBy(v, e)' <=> HeldBy(v, e) \/ (v = w /\ e = x)
        BY <4>2 DEF HeldBy
      <4>6. ASSUME NEW e \in Events
            PROVE  e \in SetOf(submitted) <=>
                     \/ e \in SetOf(queue') \/ e \in SetOf(rows) \/ e \in unsaved
                     \/ \E v \in Workers : HeldBy(v, e)'
        BY <4>1, <4>5 DEF Conserved
      <4>7. ASSUME NEW v \in Workers, InHand(v)'
            PROVE  /\ result'[v] \in Events
                   /\ result'[v] \notin SetOf(queue')
                   /\ result'[v] \notin SetOf(rows)
                   /\ result'[v] \notin unsaved
                   /\ \A u \in Workers :
                         InHand(u)' /\ result'[u] = result'[v] => u = v
        <5>1. CASE v = w
          <6>1. \A u \in Workers : InHand(u)' /\ result'[u] = x => u = w
            BY <4>2, <4>4 DEF HeldBy
          <6>2. QED
            BY <4>1, <4>2, <4>4, <5>1, <6>1
        <5>2. CASE v # w
          <6>1. InHand(v) /\ result'[v] = result[v] /\ result[v] \in Events
                /\ result[v] # x
            BY <2>0, <4>2, <4>4, <4>7, <5>2 DEF HeldBy
          <6>2. /\ result[v] \notin SetOf(queue) /\ result[v] \notin SetOf(rows)
                /\ result[v] \notin unsaved
                /\ \A u \in Workers : HeldBy(u, result[v]) => u = v
            BY <6>1 DEF Conserved
          <6>3. \A u \in Workers : InHand(u)' /\ result'[u] = result[v] => u = v
            BY <4>2, <6>1, <6>2 DEF HeldBy
          <6>4. QED
            BY <4>1, <6>1, <6>2, <6>3
        <5>3. QED
          BY <5>1, <5>2
      <4>8. /\ SetOf(queue') \cap SetOf(rows) = {}
            /\ SetOf(queue') \cap unsaved = {}
            /\ SetOf(rows) \cap unsaved = {}
            /\ Distinct(rows)
        BY <4>1 DEF Conserved
      <4>9. QED
        BY <3>1, <4>1, <4>3, <4>6, <4>7, <4>8 DEF Conserved, HeldBy
    <3>4. QED
      BY <3>1, <3>2, <3>3
  <2>4. ASSUME NEW w \in Workers, SaveRow(w) \/ SaveNothing(w) PROVE Conserved'
    <3> DEFINE x == result[w]
    <3>1. /\ wpc[w] = "save" /\ wpc' = [wpc EXCEPT ![w] = "index"]
          /\ UNCHANGED <<queue, submitted, result>>
          /\ \/ rows' = Append(rows, x) /\ unsaved' = unsaved
             \/ rows' = rows /\ unsaved' = unsaved \cup {x}
      BY <2>4 DEF SaveRow, SaveNothing, Goto
    <3>2. /\ InHand(w) /\ x \in Events
          /\ \A v \in Workers : InHand(v)' <=> InHand(v) /\ v # w
      BY <2>0, <3>1 DEF InHand
    <3>3. /\ x \notin SetOf(queue) /\ x \notin SetOf(rows) /\ x \notin unsaved
          /\ \A v \in Workers : HeldBy(v, x) => v = w
      BY <3>2 DEF Conserved
    <3>4. /\ Distinct(rows')
          /\ \/ SetOf(rows') = SetOf(rows) \cup {x} /\ unsaved' = unsaved
             \/ SetOf(rows') = SetOf(rows) /\ unsaved' = unsaved \cup {x}
      <4>1. Distinct(Append(rows, x)) /\ SetOf(Append(rows, x)) = SetOf(rows) \cup {x}
        BY <2>0, <3>2, <3>3, AppendElements DEF Conserved
      <4>2. QED
        BY <3>1, <4>1 DEF Conserved
    <3>5. /\ SetOf(queue)' = SetOf(queue) /\ Distinct(queue)' = Distinct(queue)
          /\ SetOf(rows)' = SetOf(rows') /\ Distinct(rows)' = Distinct(rows')
          /\ SetOf(submitted)' = SetOf(submitted)
      BY <3>1 DEF SetOf, Distinct
    <3>6. \A v \in Workers, e \in Events : HeldBy(v, e)' <=> HeldBy(v, e) /\ v # w
      BY <3>1, <3>2 DEF HeldBy
    <3>7. HeldBy(w, x) /\ \A e \in Events : HeldBy(w, e) => e = x
      BY <3>2 DEF HeldBy
    <3> HIDE DEF x
    <3>8. ASSUME NEW e \in Events
          PROVE  e \in SetOf(submitted) <=>
                   \/ e \in SetOf(queue) \/ e \in SetOf(rows') \/ e \in unsaved'
                   \/ \E v \in Workers : HeldBy(v, e)'
      BY <3>3, <3>4, <3>6, <3>7 DEF Conserved
    <3>9. ASSUME NEW v \in Workers, InHand(v)'
          PROVE  /\ result[v] \notin SetOf(queue)
                 /\ result[v] \notin SetOf(rows')
                 /\ result[v] \notin unsaved'
                 /\ \A u \in Workers :
                       InHand(u)' /\ result[u] = result[v] => u = v
      <4>1. InHand(v) /\ v # w /\ result[v] \in Events /\ result[v] # x
        BY <2>0, <3>2, <3>3, <3>9 DEF HeldBy
      <4>2. /\ result[v] \notin SetOf(queue) /\ result[v] \notin SetOf(rows)
            /\ result[v] \notin unsaved
            /\ \A u \in Workers : HeldBy(u, result[v]) => u = v
        BY <4>1 DEF Conserved
      <4>3. \A u \in Workers : InHand(u)' /\ result[u] = result[v] => u = v
        BY <3>2, <4>1, <4>2 DEF HeldBy
      <4>4. QED
        BY <3>4, <4>1, <4>2, <4>3
    <3>10. /\ SetOf(queue) \cap SetOf(rows') = {}
           /\ SetOf(queue) \cap unsaved' = {}
           /\ SetOf(rows') \cap unsaved' = {}
      BY <3>3, <3>4 DEF Conserved
    <3>11. Distinct(queue)
      BY DEF Conserved
    <3>12. QED
      BY <3>1, <3>4, <3>5, <3>8, <3>9, <3>10, <3>11 DEF Conserved, HeldBy
  <2>5. ASSUME NEW w \in Workers,
               RunStages(w) \/ UpdateIndex(w) \/ Count(w) \/ LoopCheck(w) \/ Spawn(w)
        PROVE  Conserved'
    <3>1. UNCHANGED <<queue, rows, unsaved, submitted, result>>
      BY <2>5 DEF RunStages, UpdateIndex, Count, LoopCheck, Spawn, Queue!Call
    <3>2. \A v \in Workers : InHand(v)' <=> InHand(v)
      BY <2>0, <2>5
         DEF RunStages, UpdateIndex, Count, LoopCheck, Spawn, Goto, InHand
    <3>3. QED
      BY <3>1, <3>2, NothingMoves
  <2>6. CASE SetStorage \/ SetIndex \/ Start \/ Started \/ Stop \/ Destroy \/ StopQueue
    BY <2>6, NothingMoves
       DEF SetStorage, SetIndex, Start, Started, Stop, Destroy, StopQueue, Queue!Stop,
           InHand
  <2>7. CASE Join
    <3>1. \A v \in Workers : InHand(v)' <=> InHand(v)
      BY <2>0, <2>7 DEF Join, InHand
    <3>2. QED
      BY <2>7, <3>1, NothingMoves DEF Join
  <2>8. QED
    BY <2>1, <2>2, <2>3, <2>4, <2>5, <2>6, <2>7 DEF Next, Step, Stopping
<1>3. QED
  BY <1>1, <1>2, TypeInvariant, PTL DEF Spec

(* No event is lost, and none is handled twice, whatever the interleaving  *)
(* of producers, workers and owner and whichever saves fail.               *)
THEOREM NoEventLostOrDoubled == Spec => []EveryEventInOnePlace
<1>1. TypeInv /\ Conserved => EveryEventInOnePlace
  <2> SUFFICES ASSUME TypeInv, Conserved, NEW e \in Events
               PROVE  /\ Places(e) # {} <=> e \in SetOf(submitted)
                      /\ \A p, q \in Places(e) : p = q
    BY DEF EveryEventInOnePlace
  <2>1. /\ e \in SetOf(submitted) <=>
             \/ e \in SetOf(queue) \/ e \in SetOf(rows) \/ e \in unsaved
             \/ \E v \in Workers : HeldBy(v, e)
        /\ \A i, j \in DOMAIN queue : queue[i] = e /\ queue[j] = e => i = j
        /\ \A i, j \in DOMAIN rows : rows[i] = e /\ rows[j] = e => i = j
        /\ \A v, u \in Workers : HeldBy(v, e) /\ HeldBy(u, e) => u = v
        /\ e \in SetOf(queue) => /\ e \notin SetOf(rows) /\ e \notin unsaved
                                 /\ \A v \in Workers : ~HeldBy(v, e)
        /\ e \in SetOf(rows) => /\ e \notin unsaved
                                /\ \A v \in Workers : ~HeldBy(v, e)
        /\ e \in unsaved => \A v \in Workers : ~HeldBy(v, e)
    BY DEF Conserved, Distinct, HeldBy
  <2>2. /\ e \in SetOf(queue) <=> \E i \in DOMAIN queue : queue[i] = e
        /\ e \in SetOf(rows) <=> \E i \in DOMAIN rows : rows[i] = e
    BY DEF SetOf
  <2>3. \A p : p \in Places(e) <=>
          \/ \E i \in DOMAIN queue : queue[i] = e /\ p = <<"queue", i>>
          \/ \E v \in Workers : HeldBy(v, e) /\ p = <<"hand", v>>
          \/ \E i \in DOMAIN rows : rows[i] = e /\ p = <<"row", i>>
          \/ e \in unsaved /\ p = <<"unsaved", e>>
    BY DEF Places, HeldBy
  <2>4. Places(e) # {} <=> e \in SetOf(submitted)
    <3>1. ASSUME NEW p \in Places(e) PROVE e \in SetOf(submitted)
      BY <2>1, <2>2, <2>3
    <3>2. ASSUME e \in SetOf(submitted) PROVE \E p : p \in Places(e)
      BY <2>1, <2>2, <2>3, <3>2
    <3>3. QED
      BY <3>1, <3>2
  <2>5. ASSUME NEW p \in Places(e), NEW q \in Places(e) PROVE p = q
    BY <2>1, <2>2, <2>3
  <2>6. QED
    BY <2>4, <2>5
<1>2. QED
  BY <1>1, TypeInvariant, ConservedInvariant, PTL

(* stop() leaves a pipeline in which nothing moves.                        *)
THEOREM StopLeavesQuiet == Spec => []QuietAfterStop
<1>1. TypeInv /\ OwnerInv /\ Conserved => QuietAfterStop
  <2> SUFFICES ASSUME TypeInv, OwnerInv, Conserved,
                      owner \in {"idle", "destroyed"}, ~running
               PROVE  /\ \A w \in Workers : wpc[w] = "none" /\ call[w] = "none"
                      /\ SetOf(submitted) = SetOf(queue) \cup Handled
    BY DEF QuietAfterStop
  <2>1. \A w \in Workers : wpc[w] = "none" /\ call[w] = "none"
    BY DEF OwnerInv
  <2>2. \A w \in Workers : ~InHand(w)
    BY <2>1 DEF InHand
  <2>3. \A e \in Events : e \in SetOf(submitted) <=> e \in SetOf(queue) \cup Handled
    BY <2>2 DEF Conserved, HeldBy, Handled
  <2>4. /\ SetOf(submitted) \subseteq Events /\ SetOf(queue) \subseteq Events
        /\ SetOf(rows) \subseteq Events /\ unsaved \subseteq Events
    BY DEF TypeInv, TypeOK, Queue!TypeOK, SetOf
  <2>5. QED
    BY <2>1, <2>3, <2>4 DEF Handled
<1>2. QED
  BY <1>1, TypeInvariant, OwnerInvariant, ConservedInvariant, PTL

-----------------------------------------------------------------------------

(* Workers that have handled their event and not yet counted it.           *)
Uncounted == {w \in Workers : wpc[w] \in {"index", "count"}}

(* The counter is exact, for a failed save as for a good one.              *)
THEOREM CounterExact == Spec => []CountIsExact
<1> DEFINE Balance == processed + Cardinality(Uncounted)
                        = Len(rows) + Cardinality(unsaved)
<1>0. CountIsExact <=> Balance
  BY DEF CountIsExact, Uncounted
<1>1. Init => Balance
  <2> SUFFICES ASSUME Init PROVE Balance
    OBVIOUS
  <2>1. Uncounted = {} /\ unsaved = {} /\ rows = <<>> /\ processed = 0
    BY DEF Init, Uncounted
  <2>2. QED
    BY <2>1, FS_EmptySet
<1>2. TypeInv /\ Conserved /\ Balance /\ [Next]_vars => Balance'
  <2> SUFFICES ASSUME TypeInv, Conserved, Balance, [Next]_vars PROVE Balance'
    OBVIOUS
  <2> USE DEF queue_vars, config, history
  <2>0. /\ wpc \in [Workers -> WorkerPC] /\ processed \in Nat
        /\ rows \in Seq(Events) /\ Len(rows) \in Nat /\ unsaved \subseteq Events
    BY DEF TypeInv, TypeOK
  <2>f. /\ IsFiniteSet(Uncounted) /\ Cardinality(Uncounted) \in Nat
        /\ IsFiniteSet(unsaved) /\ Cardinality(unsaved) \in Nat
    <3>1. Uncounted \subseteq Workers
      BY DEF Uncounted
    <3>2. QED
      BY <2>0, <3>1, WorkersAssumption, EventsAssumption, FS_Subset,
         FS_CardinalityType
  <2>1. ASSUME UNCHANGED <<processed, rows, unsaved>>, Uncounted' = Uncounted
        PROVE  Balance'
    BY <2>1
  <2>2. CASE UNCHANGED vars
    BY <2>1, <2>2 DEF vars, Uncounted
  <2>3. ASSUME NEW e \in Events, Submit(e) PROVE Balance'
    BY <2>1, <2>3 DEF Submit, Uncounted
  <2>4. CASE SetStorage \/ SetIndex \/ Start \/ Started \/ Stop \/ Destroy \/ StopQueue
    BY <2>1, <2>4
       DEF SetStorage, SetIndex, Start, Started, Stop, Destroy, StopQueue, Uncounted
  <2>5. CASE Join
    BY <2>0, <2>1, <2>5 DEF Join, Uncounted
  <2>6. ASSUME NEW w \in Workers,
               Spawn(w) \/ LoopCheck(w) \/ Pop(w) \/ RunStages(w) \/ UpdateIndex(w)
        PROVE  Balance'
    <3>1. UNCHANGED <<processed, rows, unsaved>>
      BY <2>6 DEF Spawn, LoopCheck, Pop, RunStages, UpdateIndex
    <3>2. Uncounted' = Uncounted
      <4>1. CASE Pop(w)
        BY <2>0, <4>1 DEF Pop, Popped, Goto, Uncounted
      <4>2. CASE Spawn(w) \/ LoopCheck(w) \/ RunStages(w) \/ UpdateIndex(w)
        BY <2>0, <4>2 DEF Spawn, LoopCheck, RunStages, UpdateIndex, Goto, Uncounted
      <4>3. QED
        BY <2>6, <4>1, <4>2
    <3>3. QED
      BY <2>1, <3>1, <3>2
  <2>7. ASSUME NEW w \in Workers, SaveRow(w) \/ SaveNothing(w) PROVE Balance'
    <3>1. Uncounted' = Uncounted \cup {w} /\ w \notin Uncounted
      BY <2>0, <2>7 DEF SaveRow, SaveNothing, Goto, Uncounted
    <3>2. Cardinality(Uncounted') = Cardinality(Uncounted) + 1
      BY <2>f, <3>1, FS_AddElement
    <3>3. result[w] \in Events /\ result[w] \notin unsaved
      BY <2>7 DEF SaveRow, SaveNothing, InHand, Conserved, TypeInv, ResultsAreEvents
    <3>4. CASE SaveRow(w)
      <4>1. Len(rows') = Len(rows) + 1 /\ processed' = processed
            /\ unsaved' = unsaved
        BY <2>0, <3>3, <3>4, AppendElements DEF SaveRow
      <4>2. QED
        BY <2>0, <2>f, <3>2, <4>1
    <3>5. CASE SaveNothing(w)
      <4>1. Cardinality(unsaved') = Cardinality(unsaved) + 1
        BY <2>f, <3>3, <3>5, FS_AddElement DEF SaveNothing
      <4>2. processed' = processed /\ rows' = rows
        BY <3>5 DEF SaveNothing
      <4>3. QED
        BY <2>0, <2>f, <3>2, <4>1, <4>2
    <3>6. QED
      BY <2>7, <3>4, <3>5
  <2>8. ASSUME NEW w \in Workers, Count(w) PROVE Balance'
    <3>1. Uncounted' = Uncounted \ {w} /\ w \in Uncounted
      BY <2>0, <2>8 DEF Count, Goto, Uncounted
    <3>2. Cardinality(Uncounted') = Cardinality(Uncounted) - 1
      BY <2>f, <3>1, FS_RemoveElement
    <3>3. processed' = processed + 1 /\ rows' = rows /\ unsaved' = unsaved
      BY <2>8 DEF Count
    <3>4. QED
      BY <2>0, <2>f, <3>2, <3>3
  <2>9. QED
    BY <2>2, <2>3, <2>4, <2>5, <2>6, <2>7, <2>8 DEF Next, Step, Stopping
<1> HIDE DEF Balance
<1>3. Spec => []Balance
  BY <1>1, <1>2, TypeInvariant, ConservedInvariant, PTL DEF Spec
<1>4. QED
  BY <1>0, <1>3, PTL

-----------------------------------------------------------------------------
(* The order in which the workers take events.  What is queued is the end  *)
(* of what was submitted; and behind an event that has been handled there  *)
(* is always a worker that holds none of the earlier ones: the one that    *)
(* handled it, or what it has taken since.                                 *)

Taken == Len(submitted) - Len(queue)

QueueIsTheRest ==
    /\ Len(queue) <= Len(submitted) /\ Distinct(submitted)
    /\ \A k \in 1..Len(queue) : queue[k] = submitted[Taken + k]

HoldsUpTo(w, i) == \E j \in 1..i : HeldBy(w, submitted[j])

OrderInv ==
    /\ QueueIsTheRest
    /\ \A i \in DOMAIN submitted :
         submitted[i] \in Handled => \E w \in Workers : ~HoldsUpTo(w, i)

(* Up to an event that was handled nothing is queued.                      *)
LEMMA HandledWasTaken ==
  ASSUME TypeInv, Conserved, QueueIsTheRest,
         NEW i \in DOMAIN submitted, submitted[i] \in Handled
  PROVE  i <= Taken /\ \A j \in 1..i : submitted[j] \notin SetOf(queue)
<1>1. /\ queue \in Seq(Events) /\ submitted \in Seq(Events)
      /\ Len(queue) \in Nat /\ Len(submitted) \in Nat
      /\ DOMAIN queue = 1..Len(queue) /\ DOMAIN submitted = 1..Len(submitted)
  BY DEF TypeInv, TypeOK, Queue!TypeOK
<1>2. submitted[i] \notin SetOf(queue)
  BY DEF Conserved, Handled
<1>3. i <= Taken
  <2> SUFFICES ASSUME i > Taken PROVE FALSE
    BY <1>1 DEF Taken
  <2>1. i - Taken \in 1..Len(queue) /\ Taken + (i - Taken) = i
    BY <1>1 DEF Taken, QueueIsTheRest
  <2>2. queue[i - Taken] = submitted[i]
    BY <2>1 DEF QueueIsTheRest
  <2>3. QED
    BY <1>1, <1>2, <2>1, <2>2 DEF SetOf
<1>4. ASSUME NEW j \in 1..i, NEW k \in 1..Len(queue), queue[k] = submitted[j]
      PROVE  FALSE
  <2>1. Taken + k \in DOMAIN submitted /\ j \in DOMAIN submitted /\ j < Taken + k
    BY <1>1, <1>3 DEF Taken, QueueIsTheRest
  <2>2. submitted[Taken + k] = submitted[j]
    BY <1>4 DEF QueueIsTheRest
  <2>3. Taken + k = j
    BY <2>1, <2>2 DEF QueueIsTheRest, Distinct
  <2>4. QED
    BY <1>1, <2>1, <2>3 DEF Taken
<1>5. QED
  BY <1>1, <1>3, <1>4 DEF SetOf

(* A step that moves no event.                                             *)
LEMMA OrderStays ==
  ASSUME OrderInv, UNCHANGED <<queue, submitted, rows, unsaved>>,
         TypeInv, \A v \in Workers, e \in Events : HeldBy(v, e)' <=> HeldBy(v, e)
  PROVE  OrderInv'
<1>1. /\ queue' = queue /\ submitted' = submitted /\ Handled' = Handled
      /\ Taken' = Taken
  BY DEF Handled, SetOf, Taken
<1>2. \A i \in DOMAIN submitted : \A j \in 1..i : submitted[j] \in Events
  <2>1. submitted \in Seq(Events)
    BY DEF TypeInv, TypeOK
  <2>2. QED
    BY <2>1
<1>3. \A v \in Workers, i \in DOMAIN submitted : HoldsUpTo(v, i)' <=> HoldsUpTo(v, i)
  BY <1>1, <1>2 DEF HoldsUpTo, HeldBy
<1>4. QueueIsTheRest'
  BY <1>1 DEF OrderInv, QueueIsTheRest, Distinct
<1>5. QED
  BY <1>1, <1>3, <1>4 DEF OrderInv

LEMMA OrderSubmit ==
  ASSUME TypeInv, Conserved, OrderInv, NEW e \in Events, Submit(e)
  PROVE  OrderInv'
<1>1. /\ queue' = Append(queue, e) /\ submitted' = Append(submitted, e)
      /\ e \notin SetOf(submitted)
      /\ UNCHANGED <<rows, unsaved, result, wpc>>
  BY DEF Submit, Queue!Push, history
<1>2. /\ queue \in Seq(Events) /\ submitted \in Seq(Events)
  BY DEF TypeInv, TypeOK, Queue!TypeOK
<1>3. /\ Len(queue) \in Nat /\ Len(queue') = Len(queue) + 1
      /\ Len(submitted) \in Nat /\ Len(submitted') = Len(submitted) + 1
      /\ DOMAIN submitted = 1..Len(submitted)
      /\ DOMAIN submitted' = 1..(Len(submitted) + 1)
      /\ \A k \in 1..Len(queue) : queue'[k] = queue[k]
      /\ queue'[Len(queue) + 1] = e
      /\ \A j \in 1..Len(submitted) : submitted'[j] = submitted[j]
      /\ submitted'[Len(submitted) + 1] = e
  BY <1>1, <1>2
<1>4. QueueIsTheRest'
  <2>1. Taken' = Taken /\ Len(queue') <= Len(submitted')
    BY <1>3 DEF Taken, OrderInv, QueueIsTheRest
  <2>2. Distinct(submitted')
    BY <1>1, <1>2, AppendElements DEF OrderInv, QueueIsTheRest
  <2>3. ASSUME NEW k \in 1..Len(queue') PROVE queue'[k] = submitted'[Taken + k]
    <3>1. CASE k = Len(queue) + 1
      <4>1. Taken + k = Len(submitted) + 1
        BY <1>3, <3>1 DEF Taken
      <4>2. QED
        BY <1>3, <3>1, <4>1
    <3>2. CASE k # Len(queue) + 1
      <4>1. k \in 1..Len(queue) /\ Taken + k \in 1..Len(submitted)
        BY <1>3, <3>2 DEF Taken, OrderInv, QueueIsTheRest
      <4>2. queue[k] = submitted[Taken + k]
        BY <4>1 DEF OrderInv, QueueIsTheRest
      <4>3. QED
        BY <1>3, <4>1, <4>2
    <3>3. QED
      BY <3>1, <3>2
  <2>4. QED
    BY <2>1, <2>2, <2>3 DEF QueueIsTheRest, Distinct
<1>5. ASSUME NEW i \in DOMAIN submitted', submitted'[i] \in Handled'
      PROVE  \E w \in Workers : ~HoldsUpTo(w, i)'
  <2>1. Handled' = Handled /\ e \notin Handled
    BY <1>1 DEF Handled, SetOf, Conserved
  <2>2. i \in DOMAIN submitted /\ submitted[i] \in Handled
    BY <1>3, <1>5, <2>1
  <2>3. PICK w \in Workers : ~HoldsUpTo(w, i)
    BY <2>2 DEF OrderInv
  <2>4. \A j \in 1..i : submitted'[j] = submitted[j]
    BY <1>3, <2>2
  <2>5. ~HoldsUpTo(w, i)'
    BY <1>1, <2>3, <2>4 DEF HoldsUpTo, HeldBy, InHand
  <2>6. QED
    BY <2>5
<1>6. QED
  BY <1>4, <1>5 DEF OrderInv

LEMMA OrderTake ==
  ASSUME TypeInv, Conserved, OrderInv, NEW v \in Workers,
         queue # <<>>, queue' = Tail(queue), UNCHANGED <<submitted, rows, unsaved>>,
         \A w \in Workers \ {v}, e \in Events : HeldBy(w, e)' <=> HeldBy(w, e),
         \A e \in Events : HeldBy(v, e)' <=> e = Head(queue)
  PROVE  OrderInv'
<1>1. /\ queue \in Seq(Events) /\ submitted \in Seq(Events)
      /\ DOMAIN submitted = 1..Len(submitted) /\ Len(submitted) \in Nat
  BY DEF TypeInv, TypeOK, Queue!TypeOK
<1>2. /\ Len(queue) \in Nat \ {0} /\ Len(queue') = Len(queue) - 1
      /\ Head(queue) = queue[1]
      /\ \A k \in 1..(Len(queue) - 1) : queue'[k] = queue[k + 1]
  BY <1>1
<1>3. /\ Len(queue) <= Len(submitted) /\ Distinct(submitted)
      /\ \A k \in 1..Len(queue) : queue[k] = submitted[Taken + k]
  BY DEF OrderInv, QueueIsTheRest
<1>4. Taken \in Nat /\ Taken' = Taken + 1
  BY <1>1, <1>2, <1>3 DEF Taken
<1>5. QueueIsTheRest'
  <2>1. ASSUME NEW k \in 1..Len(queue') PROVE queue'[k] = submitted[Taken' + k]
    <3>1. k + 1 \in 1..Len(queue) /\ k \in 1..(Len(queue) - 1) /\ Taken' + k = Taken + (k + 1)
      BY <1>2, <1>4
    <3>2. queue[k + 1] = submitted[Taken + (k + 1)]
      BY <1>3, <3>1
    <3>3. QED
      BY <1>2, <3>1, <3>2
  <2>2. QED
    BY <1>1, <1>2, <1>3, <2>1 DEF QueueIsTheRest, Distinct
<1>6. ASSUME NEW i \in DOMAIN submitted, submitted[i] \in Handled
      PROVE  \E w \in Workers : ~HoldsUpTo(w, i)'
  <2>1. PICK w \in Workers : ~HoldsUpTo(w, i)
    BY <1>6 DEF OrderInv
  <2>2. \A j \in 1..i : submitted[j] \in Events
    BY <1>1
  <2>3. CASE w # v
    <3>1. \A j \in 1..i : HeldBy(w, submitted[j])' <=> HeldBy(w, submitted[j])
      BY <2>2, <2>3 DEF HeldBy
    <3>2. QED
      BY <2>1, <3>1 DEF HoldsUpTo, HeldBy
  <2>4. CASE w = v
    <3>1. \A j \in 1..i : submitted[j] # Head(queue)
      <4>1. Head(queue) \in SetOf(queue)
        BY <1>1, <1>2 DEF SetOf
      <4>2. QED
        BY <1>6, <4>1, HandledWasTaken DEF OrderInv
    <3>2. \A j \in 1..i : ~HeldBy(v, submitted[j])'
      BY <2>2, <3>1 DEF HeldBy
    <3>3. QED
      BY <3>2 DEF HoldsUpTo, HeldBy
  <2>5. QED
    BY <2>3, <2>4
<1>7. Handled' = Handled
  BY DEF Handled, SetOf
<1>8. QED
  BY <1>5, <1>6, <1>7 DEF OrderInv

LEMMA OrderSave ==
  ASSUME TypeInv, Conserved, OrderInv, NEW v \in Workers, SaveRow(v) \/ SaveNothing(v)
  PROVE  OrderInv'
<1>1. /\ wpc[v] = "save" /\ wpc' = [wpc EXCEPT ![v] = "index"]
      /\ UNCHANGED <<queue, submitted, result>>
      /\ \/ rows' = Append(rows, result[v]) /\ unsaved' = unsaved
         \/ rows' = rows /\ unsaved' = unsaved \cup {result[v]}
  BY DEF SaveRow, SaveNothing, Goto, queue_vars
<1>2. /\ wpc \in [Workers -> WorkerPC] /\ rows \in Seq(Events)
      /\ result[v] \in Events
  BY <1>1 DEF TypeInv, TypeOK, ResultsAreEvents, InHand
<1>3. Handled' = Handled \cup {result[v]}
  <2>1. SetOf(Append(rows, result[v])) = SetOf(rows) \cup {result[v]}
    BY <1>2, AppendElements
  <2>2. SetOf(rows)' = SetOf(rows')
    BY DEF SetOf
  <2>3. QED
    BY <1>1, <2>1, <2>2 DEF Handled
<1>4. /\ \A w \in Workers : InHand(w)' => InHand(w)
      /\ ~InHand(v)'
  BY <1>1, <1>2 DEF InHand
<1>5. QueueIsTheRest'
  BY <1>1 DEF OrderInv, QueueIsTheRest, Distinct, Taken
<1>6. ASSUME NEW i \in DOMAIN submitted, submitted[i] \in Handled'
      PROVE  \E w \in Workers : ~HoldsUpTo(w, i)'
  <2>1. CASE submitted[i] \in Handled
    <3>1. PICK w \in Workers : ~HoldsUpTo(w, i)
      BY <2>1 DEF OrderInv
    <3>2. ~HoldsUpTo(w, i)'
      BY <1>1, <1>4, <3>1 DEF HoldsUpTo, HeldBy
    <3>3. QED
      BY <3>2
  <2>2. CASE submitted[i] = result[v]
    <3>1. ~HoldsUpTo(v, i)'
      BY <1>4 DEF HoldsUpTo, HeldBy
    <3>2. QED
      BY <3>1
  <2>3. QED
    BY <1>3, <1>6, <2>1, <2>2
<1>7. QED
  BY <1>1, <1>5, <1>6 DEF OrderInv

LEMMA OrderInvariant == Spec => []OrderInv
<1>1. Init => OrderInv
  <2> SUFFICES ASSUME Init PROVE OrderInv
    OBVIOUS
  <2>1. queue = <<>> /\ submitted = <<>>
    BY DEF Init, Queue!Init
  <2>2. QED
    BY <2>1 DEF OrderInv, QueueIsTheRest, Distinct
<1>2. TypeInv /\ Conserved /\ OrderInv /\ [Next]_vars => OrderInv'
  <2> SUFFICES ASSUME TypeInv, Conserved, OrderInv, [Next]_vars PROVE OrderInv'
    OBVIOUS
  <2>0. /\ wpc \in [Workers -> WorkerPC]
        /\ result \in [Workers -> Events \cup {Nothing}]
        /\ queue \in Seq(Events)
    BY DEF TypeInv, TypeOK, Queue!TypeOK
  <2>1. ASSUME UNCHANGED <<queue, submitted, rows, unsaved, result>>,
               \A v \in Workers : InHand(v)' <=> InHand(v)
        PROVE  OrderInv'
    BY <2>1, OrderStays DEF HeldBy
  <2>2. CASE UNCHANGED vars
    BY <2>1, <2>2 DEF vars, queue_vars, history, InHand
  <2>3. CASE \E e \in Events : Submit(e)
    BY <2>3, OrderSubmit
  <2>4. CASE SetStorage \/ SetIndex \/ Start \/ Started \/ Stop \/ Destroy \/ StopQueue
    BY <2>1, <2>4
       DEF SetStorage, SetIndex, Start, Started, Stop, Destroy, StopQueue, Queue!Stop,
           InHand, queue_vars, history
  <2>5. CASE Join
    <3>1. \A v \in Workers : InHand(v)' <=> InHand(v)
      BY <2>0, <2>5 DEF Join, InHand
    <3>2. QED
      BY <2>1, <2>5, <3>1 DEF Join, queue_vars, history
  <2>6. ASSUME NEW w \in Workers,
               RunStages(w) \/ UpdateIndex(w) \/ Count(w) \/ LoopCheck(w) \/ Spawn(w)
        PROVE  OrderInv'
    <3>1. UNCHANGED <<queue, rows, unsaved, submitted, result>>
      BY <2>6 DEF RunStages, UpdateIndex, Count, LoopCheck, Spawn, Queue!Call,
                  queue_vars, history
    <3>2. \A v \in Workers : InHand(v)' <=> InHand(v)
      BY <2>0, <2>6
         DEF RunStages, UpdateIndex, Count, LoopCheck, Spawn, Goto, InHand
    <3>3. QED
      BY <2>1, <3>1, <3>2
  <2>7. ASSUME NEW w \in Workers, SaveRow(w) \/ SaveNothing(w) PROVE OrderInv'
    BY <2>7, OrderSave
  <2>8. ASSUME NEW w \in Workers, Pop(w) PROVE OrderInv'
    <3>1. /\ wpc' = [wpc EXCEPT ![w] = IF result'[w] = Nothing THEN "check"
                                       ELSE "stages"]
          /\ wpc[w] = "pop"
          /\ UNCHANGED <<rows, unsaved, submitted>>
          /\ \/ /\ queue # <<>> /\ queue' = Tail(queue)
                /\ result' = [result EXCEPT ![w] = Head(queue)]
             \/ /\ queue' = queue /\ result' = [result EXCEPT ![w] = Nothing]
      BY <2>8 DEF Pop, Popped, Goto, Queue!Return, Queue!TimeOut, Queue!TakeHead,
                  Queue!TakeNothing, history
    <3>2. CASE queue' = queue /\ result' = [result EXCEPT ![w] = Nothing]
      <4>1. \A v \in Workers, e \in Events : HeldBy(v, e)' <=> HeldBy(v, e)
        BY <2>0, <3>1, <3>2, NothingAssumption DEF InHand, HeldBy
      <4>2. QED
        BY <3>1, <3>2, <4>1, OrderStays
    <3>3. CASE queue # <<>> /\ queue' = Tail(queue)
               /\ result' = [result EXCEPT ![w] = Head(queue)]
      <4>1. Head(queue) \in Events
        BY <2>0, <3>3, TailElements
      <4>2. /\ \A v \in Workers \ {w}, e \in Events : HeldBy(v, e)' <=> HeldBy(v, e)
            /\ \A e \in Events : HeldBy(w, e)' <=> e = Head(queue)
        BY <2>0, <3>1, <3>3, <4>1, NothingAssumption DEF InHand, HeldBy
      <4>3. QED
        BY <3>1, <3>3, <4>2, OrderTake
    <3>4. QED
      BY <3>1, <3>2, <3>3
  <2>9. QED
    BY <2>2, <2>3, <2>4, <2>5, <2>6, <2>7, <2>8 DEF Next, Step, Stopping
<1>3. QED
  BY <1>1, <1>2, TypeInvariant, ConservedInvariant, PTL DEF Spec

(* Events are handled out of order by at most one place for each other     *)
(* worker, whichever workers are slow, and across stops and restarts.      *)
THEOREM OvertakingIsBounded == Spec => []BoundedOvertaking
<1>1. TypeInv /\ Conserved /\ OrderInv => BoundedOvertaking
  <2> SUFFICES ASSUME TypeInv, Conserved, OrderInv,
                      NEW i \in DOMAIN submitted, submitted[i] \in Handled
               PROVE  Cardinality({j \in 1..i : submitted[j] \notin Handled})
                        <= Cardinality(Workers) - 1
    BY DEF BoundedOvertaking
  <2> DEFINE late == {j \in 1..i : submitted[j] \notin Handled}
             holder == [j \in late |-> CHOOSE w \in Workers : HeldBy(w, submitted[j])]
  <2>1. submitted \in Seq(Events) /\ i \in 1..Len(submitted) /\ Len(submitted) \in Nat
    BY DEF TypeInv, TypeOK
  <2>2. PICK free \in Workers : ~HoldsUpTo(free, i)
    BY DEF OrderInv
  <2>3. ASSUME NEW j \in late
        PROVE  holder[j] \in Workers \ {free} /\ HeldBy(holder[j], submitted[j])
    <3>1. j \in 1..i /\ j \in DOMAIN submitted /\ submitted[j] \in Events
          /\ submitted[j] \in SetOf(submitted)
      BY <2>1 DEF SetOf
    <3>2. submitted[j] \notin SetOf(queue)
      BY <3>1, HandledWasTaken DEF OrderInv
    <3>3. \E w \in Workers : HeldBy(w, submitted[j])
      BY <3>1, <3>2 DEF Conserved, Handled
    <3>4. holder[j] \in Workers /\ HeldBy(holder[j], submitted[j])
      BY <3>3
    <3>5. QED
      BY <2>2, <3>1, <3>4 DEF HoldsUpTo
  <2>4. ASSUME NEW j \in late, NEW k \in late, holder[j] = holder[k]
        PROVE  j = k
    <3>1. submitted[j] = submitted[k]
      BY <2>3, <2>4 DEF HeldBy
    <3>2. j \in DOMAIN submitted /\ k \in DOMAIN submitted
      BY <2>1
    <3>3. QED
      BY <3>1, <3>2 DEF OrderInv, QueueIsTheRest, Distinct
  <2>5. holder \in Injection(late, Workers \ {free})
    <3>1. holder \in [late -> Workers \ {free}]
      BY <2>3
    <3> HIDE DEF holder
    <3>2. QED
      BY <2>4, <3>1 DEF Injection, IsInjective
  <2>6. /\ IsFiniteSet(Workers \ {free})
        /\ Cardinality(Workers \ {free}) = Cardinality(Workers) - 1
    BY WorkersAssumption, FS_RemoveElement
  <2> HIDE DEF late, holder
  <2>7. Cardinality(late) <= Cardinality(Workers \ {free})
    BY <2>5, <2>6, FS_Injection
  <2>8. QED
    BY <2>6, <2>7 DEF late
<1>2. QED
  BY <1>1, TypeInvariant, ConservedInvariant, OrderInvariant, PTL

=============================================================================
