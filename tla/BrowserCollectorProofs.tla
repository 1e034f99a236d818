------------------------ MODULE BrowserCollectorProofs ------------------------
(***************************************************************************)
(* Theorems about BrowserCollector, for any finite set of visits, any      *)
(* clock, any length of a second and any number of starts.                 *)
(***************************************************************************)
EXTENDS BrowserCollector, WellFoundedInduction, TLAPS

USE DEF base_vars, NotStarted, MakeThread, CallStop, JoinThread

-----------------------------------------------------------------------------
(* Facts about numbers.                                                    *)

(* A bounded set of numbers has a maximum: the least distance to the bound *)
(* belongs to it.                                                          *)
LEMMA MaxOfBounded ==
  ASSUME NEW bound \in Nat, NEW S \in SUBSET (0..bound), S # {}
  PROVE  Max(S) \in S /\ \A x \in S : x <= Max(S)
<1> DEFINE Less == OpToRel(<, Nat)
           gaps == {bound - x : x \in S}
<1>1. \A x, y \in Nat : <<x, y>> \in Less <=> x < y
  BY DEF OpToRel
<1>2. IsWellFoundedOn(Less, Nat)
  BY NatLessThanWellFounded
<1>3. gaps \subseteq Nat /\ gaps # {}
  <2>1. \A x \in S : bound - x \in Nat
    OBVIOUS
  <2>2. PICK x \in S : TRUE
    OBVIOUS
  <2>3. bound - x \in gaps
    OBVIOUS
  <2>4. QED
    BY <2>1, <2>3
<1> HIDE DEF Less
<1>4. PICK g \in gaps : \A h \in gaps : <<h, g>> \notin Less
  BY <1>2, <1>3, WFMin
<1>5. PICK m \in S : g = bound - m
  BY <1>4
<1>6. \A x \in S : m >= x
  <2> SUFFICES ASSUME NEW x \in S PROVE m >= x
    OBVIOUS
  <2>1. bound - x \in gaps
    OBVIOUS
  <2>2. ~(bound - x < g)
    BY <1>1, <1>3, <1>4, <2>1
  <2>3. QED
    BY <1>5, <2>2
<1>7. QED
  BY <1>6 DEF Max

LEMMA CutIsEarlier ==
  ASSUME NEW t \in Nat
  PROVE  CutToSecond(t) \in 0..t
<1> DEFINE q == t \div Second
<1>1. Second \in Nat \ {0}
  BY SecondAssumption
<1>2. q \in Nat /\ Second * q <= t
  BY <1>1
<1> HIDE DEF q
<1>3. q * Second = Second * q /\ Second * q \in Nat
  BY <1>1, <1>2
<1>4. QED
  BY <1>2, <1>3 DEF CutToSecond, q

(* What the clock of a copy is: no visit in the file is later.             *)
LEMMA LatestCopied ==
  ASSUME NEW bound \in Nat, NEW c \in 0..bound, NEW f \in [Visits -> 0..bound],
         NEW S \in SUBSET Visits
  PROVE  LET m == Max({c} \cup {f[v] : v \in S})
         IN  m \in 0..bound /\ c <= m /\ \A v \in S : f[v] <= m
<1> DEFINE times == {c} \cup {f[v] : v \in S}
<1>1. times \in SUBSET (0..bound) /\ c \in times /\ \A v \in S : f[v] \in times
  OBVIOUS
<1> HIDE DEF times
<1>2. Max(times) \in times /\ \A x \in times : x <= Max(times)
  BY <1>1, MaxOfBounded
<1>3. QED
  BY <1>1, <1>2 DEF times

LEMMA MaxOfTwo ==
  ASSUME NEW a \in Nat, NEW b \in Nat, a <= b
  PROVE  Max({a, b}) = b
<1>1. Max({a, b}) \in {a, b} /\ \A x \in {a, b} : Max({a, b}) >= x
  BY DEF Max
<1>2. QED
  BY <1>1

-----------------------------------------------------------------------------
(* The invariant.                                                          *)

Typed ==
    /\ now \in Nat
    /\ when \in [Visits -> 0..now]
    /\ watermark \in 0..now /\ max_seen \in 0..now /\ copied \in 0..now
    /\ began \in 0..now
    /\ copy \subseteq Visits
    /\ thread \in {"none", "poll", "read", "sleep", "ended"}

(* A collector that runs has its thread, and start() finds none.           *)
PlaceInv ==
    /\ running => owner = "idle" /\ thread \notin {"none", "ended"}
    /\ owner = "idle" /\ ~running => thread = "none"

(* What the thread has behind it, between two batches as within one.       *)
VisitInv ==
    /\ emitted \cup late \cup torn \subseteq InFile
    /\ thread # "none" =>
         /\ SecondOfStart <= watermark
         /\ watermark > SecondOfStart => watermark <= copied
         /\ \A v \in emitted : when[v] <= IF thread = "read" THEN max_seen ELSE watermark
         /\ \A v \in InFile : SecondOfStart < when[v] /\ when[v] <= watermark
                                => v \in emitted \cup late \cup torn

(* Within a batch: all that was copied is still to come, or was emitted;   *)
(* and what is still to come is no earlier than max_seen, and later than   *)
(* the watermark.                                                          *)
BatchInv ==
    thread = "read" =>
        /\ watermark <= max_seen
        /\ max_seen > SecondOfStart => max_seen <= copied
        /\ copy \subseteq InFile \ emitted
        /\ \A v \in copy : max_seen <= when[v] /\ watermark < when[v] /\ when[v] <= copied
        /\ \A v \in InFile : SecondOfStart < when[v] /\ when[v] <= copied
                               => v \in copy \cup emitted \cup late \cup torn

BrowserInv == Typed /\ PlaceInv /\ VisitInv /\ BatchInv

LEMMA StartIsPast ==
  ASSUME Typed
  PROVE  SecondOfStart \in 0..now
<1>1. began \in Nat /\ began <= now /\ now \in Nat
  BY DEF Typed
<1>2. SecondOfStart = CutToSecond(began)
  BY DEF SecondOfStart, CutToSecond
<1>3. QED
  BY <1>1, <1>2, CutIsEarlier

-----------------------------------------------------------------------------
(* The steps.                                                              *)

LEMMA TickStep ==
  ASSUME BrowserInv, Tick
  PROVE  BrowserInv'
<1>1. /\ now' = now + 1
      /\ UNCHANGED <<when, late, began, emitted, copied, torn, running, owner, thread,
                     watermark, max_seen, copy>>
  BY DEF Tick, history
<1>2. Typed'
  BY <1>1 DEF BrowserInv, Typed
<1>3. QED
  BY <1>1, <1>2 DEF BrowserInv, PlaceInv, VisitInv, BatchInv, InFile, SecondOfStart

LEMMA VisitStep ==
  ASSUME BrowserInv, NEW v \in Visits, NEW t \in 1..MaxNow, Visit(v, t)
  PROVE  BrowserInv'
<1>1. /\ v \notin InFile /\ t <= now
      /\ when' = [when EXCEPT ![v] = t]
      /\ late' = IF t <= copied THEN late \cup {v} ELSE late
      /\ UNCHANGED <<now, began, emitted, copied, torn, running, owner, thread, watermark,
                     max_seen, copy>>
  BY DEF Visit, history
<1>2. t \in 1..now /\ now \in Nat
  BY <1>1, ClockAssumption DEF BrowserInv, Typed
<1>3. /\ when \in [Visits -> 0..now]
      /\ watermark \in Nat /\ max_seen \in Nat /\ copied \in Nat
      /\ SecondOfStart \in Nat /\ SecondOfStart' = SecondOfStart
  BY <1>1, StartIsPast DEF BrowserInv, Typed, SecondOfStart
<1>4. /\ when'[v] = t
      /\ \A u \in Visits \ {v} : when'[u] = when[u]
      /\ InFile' = InFile \cup {v}
      /\ InFile \subseteq Visits \ {v}
  BY <1>1, <1>2, <1>3 DEF InFile
<1>5. Typed'
  BY <1>1, <1>2, <1>3 DEF BrowserInv, Typed
<1>6. VisitInv'
  <2>1. emitted' \cup late' \cup torn' \subseteq InFile'
    BY <1>1, <1>4 DEF BrowserInv, VisitInv
  <2>2. CASE thread = "none"
    BY <1>1, <2>1, <2>2 DEF VisitInv
  <2>3. CASE thread # "none"
    <3>1. /\ SecondOfStart <= watermark
          /\ watermark > SecondOfStart => watermark <= copied
          /\ \A u \in emitted : when[u] <= IF thread = "read" THEN max_seen ELSE watermark
          /\ \A u \in InFile : SecondOfStart < when[u] /\ when[u] <= watermark
                                 => u \in emitted \cup late \cup torn
          /\ emitted \subseteq InFile
      BY <2>3 DEF BrowserInv, VisitInv
    <3>2. \A u \in emitted : when'[u] <= IF thread = "read" THEN max_seen ELSE watermark
      BY <1>4, <3>1
    <3>3. ASSUME NEW u \in InFile', SecondOfStart < when'[u], when'[u] <= watermark
          PROVE  u \in emitted \cup late' \cup torn
      <4>1. CASE u = v
        BY <1>1, <1>2, <1>3, <1>4, <3>1, <3>3, <4>1
      <4>2. CASE u # v
        BY <1>1, <1>4, <3>1, <3>3, <4>2
      <4>3. QED
        BY <4>1, <4>2
    <3>4. QED
      BY <1>1, <1>3, <2>1, <3>1, <3>2, <3>3 DEF VisitInv
  <2>4. QED
    BY <2>2, <2>3
<1>7. BatchInv'
  <2> SUFFICES ASSUME thread = "read" PROVE BatchInv'
    BY <1>1 DEF BatchInv
  <2>1. /\ watermark <= max_seen
        /\ max_seen > SecondOfStart => max_seen <= copied
        /\ copy \subseteq InFile \ emitted
        /\ \A u \in copy : max_seen <= when[u] /\ watermark < when[u] /\ when[u] <= copied
        /\ \A u \in InFile : SecondOfStart < when[u] /\ when[u] <= copied
                               => u \in copy \cup emitted \cup late \cup torn
    BY DEF BrowserInv, BatchInv
  <2>2. copy \subseteq InFile' \ emitted
    BY <1>4, <2>1
  <2>3. \A u \in copy : max_seen <= when'[u] /\ watermark < when'[u] /\ when'[u] <= copied
    BY <1>4, <2>1
  <2>4. ASSUME NEW u \in InFile', SecondOfStart < when'[u], when'[u] <= copied
        PROVE  u \in copy \cup emitted \cup late' \cup torn
    <3>1. CASE u = v
      BY <1>1, <1>4, <2>4, <3>1
    <3>2. CASE u # v
      BY <1>1, <1>4, <2>1, <2>4, <3>2
    <3>3. QED
      BY <3>1, <3>2
  <2>5. QED
    BY <1>1, <1>3, <2>1, <2>2, <2>3, <2>4 DEF BatchInv
<1>8. PlaceInv'
  BY <1>1 DEF BrowserInv, PlaceInv
<1>9. QED
  BY <1>5, <1>6, <1>7, <1>8 DEF BrowserInv

LEMMA StartStep ==
  ASSUME BrowserInv, Start
  PROVE  BrowserInv'
<1>1. /\ owner = "idle" /\ running' = TRUE /\ watermark' = CutToSecond(now)
      /\ thread' = "poll" /\ began' = now /\ emitted' = {} /\ copied' = 0 /\ late' = {}
      /\ torn' = {}
      /\ UNCHANGED <<now, when, owner, max_seen, copy>>
  BY DEF Start
<1>2. now \in Nat /\ CutToSecond(now) \in 0..now
  BY CutIsEarlier DEF BrowserInv, Typed
<1>3. Typed'
  BY <1>1, <1>2 DEF BrowserInv, Typed
<1>4. SecondOfStart' = watermark' /\ InFile' = InFile
  BY <1>1 DEF SecondOfStart, CutToSecond, InFile
<1>5. /\ \A v \in InFile' : when'[v] \in Nat
      /\ watermark' \in Nat
  BY <1>1, <1>2, <1>4 DEF BrowserInv, Typed, InFile
<1>6. VisitInv'
  BY <1>1, <1>4, <1>5 DEF VisitInv
<1>7. BatchInv' /\ PlaceInv'
  BY <1>1 DEF BatchInv, PlaceInv
<1>8. QED
  BY <1>3, <1>6, <1>7 DEF BrowserInv

(* The steps of the thread and of its owner that leave what is emitted,    *)
(* the watermark and the file alone.                                       *)
LEMMA QuietSteps ==
  ASSUME BrowserInv,
         Stop \/ Join \/ CopyFails \/ Wake \/ EndThread \/ UNCHANGED vars
  PROVE  BrowserInv'
<1>1. /\ UNCHANGED <<now, when, late, began, emitted, copied, torn, watermark, max_seen,
                     copy>>
      /\ thread' \in {"none", "poll", "read", "sleep", "ended"}
      /\ thread' = "read" <=> thread = "read"
      /\ thread' # "none" => thread # "none"
  BY DEF Stop, Join, CopyFails, Wake, EndThread, vars, env_vars, history, BrowserInv,
         Typed
<1>2. InFile' = InFile /\ SecondOfStart' = SecondOfStart
  BY <1>1 DEF InFile, SecondOfStart
<1>3. Typed'
  BY <1>1 DEF BrowserInv, Typed
<1>4. PlaceInv'
  BY DEF BrowserInv, PlaceInv, Typed, Stop, Join, CopyFails, Wake, EndThread, vars
<1>5. VisitInv' /\ BatchInv'
  BY <1>1, <1>2 DEF BrowserInv, VisitInv, BatchInv
<1>6. QED
  BY <1>3, <1>4, <1>5 DEF BrowserInv

LEMMA CopyStep ==
  ASSUME BrowserInv, Copy
  PROVE  BrowserInv'
<1>1. /\ thread = "poll" /\ running /\ thread' = "read"
      /\ copy' = {v \in InFile : when[v] > watermark}
      /\ copied' = Max({copied} \cup {when[v] : v \in InFile})
      /\ max_seen' = watermark
      /\ UNCHANGED <<now, when, late, began, emitted, torn, running, owner, watermark>>
  BY DEF Copy, Later, env_vars
<1>2. /\ when \in [Visits -> 0..now] /\ now \in Nat /\ copied \in 0..now
      /\ InFile \in SUBSET Visits /\ watermark \in 0..now
      /\ SecondOfStart \in 0..now
  BY StartIsPast DEF BrowserInv, Typed, InFile
<1>3. copied' \in 0..now /\ copied <= copied' /\ \A v \in InFile : when[v] <= copied'
  BY <1>1, <1>2, LatestCopied
<1>4. InFile' = InFile /\ SecondOfStart' = SecondOfStart
  BY <1>1 DEF InFile, SecondOfStart
<1>5. Typed' /\ PlaceInv'
  BY <1>1, <1>2, <1>3 DEF BrowserInv, Typed, PlaceInv
<1>6. /\ emitted \subseteq InFile
      /\ watermark > SecondOfStart => watermark <= copied
      /\ \A v \in emitted : when[v] <= watermark
      /\ \A v \in InFile : SecondOfStart < when[v] /\ when[v] <= watermark
                             => v \in emitted \cup late \cup torn
  BY <1>1 DEF BrowserInv, VisitInv
<1>7. VisitInv'
  <2>1. watermark > SecondOfStart => watermark <= copied'
    BY <1>2, <1>3, <1>6
  <2>2. QED
    BY <1>1, <1>4, <1>6, <2>1 DEF BrowserInv, VisitInv
<1>8. BatchInv'
  <2>1. copy' \subseteq InFile \ emitted
    BY <1>1, <1>2, <1>6
  <2>2. \A v \in copy' : watermark < when[v] /\ when[v] <= copied'
    BY <1>1, <1>2, <1>3
  <2>3. \A v \in InFile : SecondOfStart < when[v]
                            => v \in copy' \cup emitted \cup late \cup torn
    BY <1>1, <1>2, <1>6
  <2>4. watermark > SecondOfStart => watermark <= copied'
    BY <1>2, <1>3, <1>6
  <2>5. QED
    BY <1>1, <1>2, <1>4, <2>1, <2>2, <2>3, <2>4 DEF BatchInv
<1>9. QED
  BY <1>5, <1>7, <1>8 DEF BrowserInv

LEMMA EmitStep ==
  ASSUME BrowserInv, Emit
  PROVE  BrowserInv'
<1>1. /\ thread = "read"
      /\ UNCHANGED <<now, when, late, began, copied, torn, running, owner, thread, watermark>>
  BY DEF Emit, env_vars
<1>2. PICK v \in copy : /\ Earliest(v) /\ copy' = copy \ {v}
                        /\ max_seen' = Max({max_seen, when[v]})
                        /\ emitted' = emitted \cup {v}
  BY DEF Emit
<1>3. /\ when \in [Visits -> 0..now] /\ now \in Nat /\ copied \in 0..now
      /\ watermark \in 0..now /\ max_seen \in 0..now
      /\ SecondOfStart \in 0..now
      /\ copy \subseteq Visits /\ InFile \subseteq Visits
  BY StartIsPast DEF BrowserInv, Typed, InFile
<1>4. /\ watermark <= max_seen
      /\ copy \subseteq InFile \ emitted
      /\ \A u \in copy : max_seen <= when[u] /\ watermark < when[u] /\ when[u] <= copied
      /\ \A u \in InFile : SecondOfStart < when[u] /\ when[u] <= copied
                             => u \in copy \cup emitted \cup late \cup torn
  BY <1>1 DEF BrowserInv, BatchInv
<1>5. /\ emitted \cup late \cup torn \subseteq InFile
      /\ SecondOfStart <= watermark
      /\ watermark > SecondOfStart => watermark <= copied
      /\ \A u \in emitted : when[u] <= max_seen
      /\ \A u \in InFile : SecondOfStart < when[u] /\ when[u] <= watermark
                             => u \in emitted \cup late \cup torn
  BY <1>1 DEF BrowserInv, VisitInv
<1>6. max_seen' = when[v] /\ max_seen <= when[v] /\ when[v] \in 0..now
  BY <1>2, <1>3, <1>4, MaxOfTwo
<1>7. InFile' = InFile /\ SecondOfStart' = SecondOfStart
  BY <1>1 DEF InFile, SecondOfStart
<1>8. Typed' /\ PlaceInv'
  BY <1>1, <1>2, <1>3, <1>6 DEF BrowserInv, Typed, PlaceInv
<1>9. VisitInv'
  <2>1. emitted' \cup late \cup torn \subseteq InFile
    BY <1>2, <1>4, <1>5
  <2>2. \A u \in emitted' : when[u] <= max_seen'
    <3>1. \A u \in emitted : when[u] \in 0..now
      BY <1>3, <1>5
    <3>2. \A u \in emitted : when[u] <= when[v]
      BY <1>3, <1>5, <1>6, <3>1
    <3>3. QED
      BY <1>2, <1>6, <3>2
  <2>3. QED
    BY <1>1, <1>2, <1>5, <1>7, <2>1, <2>2 DEF VisitInv
<1>10. BatchInv'
  <2>1. watermark <= max_seen' /\ max_seen' <= copied
    BY <1>2, <1>3, <1>4, <1>6
  <2>2. copy' \subseteq InFile \ emitted'
    BY <1>2, <1>4
  <2>3. ASSUME NEW u \in copy'
        PROVE  max_seen' <= when[u] /\ watermark < when[u] /\ when[u] <= copied
    <3>1. u \in copy /\ when[v] <= when[u]
      BY <1>2, <2>3 DEF Earliest
    <3>2. QED
      BY <1>4, <1>6, <3>1
  <2>4. \A u \in InFile : SecondOfStart < when[u] /\ when[u] <= copied
                            => u \in copy' \cup emitted' \cup late \cup torn
    BY <1>2, <1>4
  <2>5. QED
    BY <1>1, <1>7, <2>1, <2>2, <2>3, <2>4 DEF BatchInv
<1>11. QED
  BY <1>8, <1>9, <1>10 DEF BrowserInv

(* At the end of a batch the watermark moves to the last visit emitted,    *)
(* also when the batch was cut short: of what is left then, only a visit   *)
(* of the very time of the last one is passed.                             *)
LEMMA EndOfBatchStep ==
  ASSUME BrowserInv, EndOfRows \/ CutShort
  PROVE  BrowserInv'
<1>1. /\ thread = "read" /\ thread' = "sleep" /\ watermark' = max_seen /\ copy' \subseteq copy
      /\ \A v \in copy : when[v] = max_seen => v \in torn'
      /\ torn \subseteq torn' /\ torn' \subseteq torn \cup copy
      /\ UNCHANGED <<now, when, late, began, emitted, copied, running, owner, max_seen>>
  BY DEF EndOfRows, CutShort, Advance, env_vars, history
<1>2. /\ when \in [Visits -> 0..now] /\ now \in Nat /\ copied \in 0..now
      /\ watermark \in 0..now /\ max_seen \in 0..now
      /\ SecondOfStart \in 0..now /\ InFile \subseteq Visits
  BY StartIsPast DEF BrowserInv, Typed, InFile
<1>3. InFile' = InFile /\ SecondOfStart' = SecondOfStart
  BY <1>1 DEF InFile, SecondOfStart
<1>4. /\ watermark <= max_seen
      /\ max_seen > SecondOfStart => max_seen <= copied
      /\ copy \subseteq InFile
      /\ \A v \in copy : max_seen <= when[v]
      /\ \A v \in InFile : SecondOfStart < when[v] /\ when[v] <= copied
                             => v \in copy \cup emitted \cup late \cup torn
  BY <1>1 DEF BrowserInv, BatchInv
<1>5. /\ SecondOfStart <= watermark
      /\ \A v \in emitted : when[v] <= max_seen
      /\ emitted \cup late \cup torn \subseteq InFile
  BY <1>1 DEF BrowserInv, VisitInv
<1>6. Typed' /\ PlaceInv' /\ BatchInv'
  BY <1>1 DEF BrowserInv, Typed, PlaceInv, BatchInv
<1>7. ASSUME NEW v \in InFile, SecondOfStart < when[v], when[v] <= max_seen
      PROVE  v \in emitted \cup late \cup torn'
  <2>1. when[v] \in 0..now
    BY <1>2
  <2>2. max_seen <= copied /\ when[v] <= copied
    BY <1>2, <1>4, <1>7, <2>1
  <2>3. v \in copy => v \in torn'
    BY <1>1, <1>2, <1>4, <1>7, <2>1
  <2>4. QED
    BY <1>1, <1>4, <1>7, <2>2, <2>3
<1>8. SecondOfStart <= max_seen
  BY <1>2, <1>4, <1>5
<1>9. VisitInv'
  BY <1>1, <1>3, <1>4, <1>5, <1>7, <1>8 DEF VisitInv
<1>10. QED
  BY <1>6, <1>9 DEF BrowserInv

LEMMA InvInit == Init => BrowserInv
<1> SUFFICES ASSUME Init PROVE BrowserInv
  OBVIOUS
<1>1. InFile = {}
  BY DEF Init, InFile
<1>2. QED
  BY <1>1 DEF Init, BrowserInv, Typed, PlaceInv, VisitInv, BatchInv

LEMMA InvNext == BrowserInv /\ [Next]_vars => BrowserInv'
BY TickStep, VisitStep, StartStep, QuietSteps, CopyStep, EmitStep, EndOfBatchStep
   DEF Next, ThreadStep

-----------------------------------------------------------------------------
(* The theorems.                                                           *)

(* Every reachable state is well typed: neither the watermark nor the clock *)
(* of a copy is ever ahead of the clock, which visits come from.           *)
THEOREM TypeCorrect == Spec => []TypeOK
<1> DEFINE Rest == /\ now \in 1..MaxNow /\ running \in BOOLEAN
                   /\ owner \in {"idle", "joining"} /\ starts \in 0..MaxStarts
<1>1. Init => Rest
  <2>1. 1 \in 1..MaxNow /\ 0 \in 0..MaxStarts
    BY ClockAssumption, StartsAssumption
  <2>2. QED
    BY <2>1 DEF Init
<1>2. Rest /\ [Next]_vars => Rest'
  <2> SUFFICES ASSUME Rest, [Next]_vars PROVE Rest'
    OBVIOUS
  <2>1. CASE Tick
    <3>1. now + 1 \in 1..MaxNow
      BY <2>1, ClockAssumption DEF Tick
    <3>2. QED
      BY <2>1, <3>1 DEF Tick
  <2>2. CASE Start
    <3>1. starts + 1 \in 0..MaxStarts
      BY <2>2, StartsAssumption DEF Start
    <3>2. QED
      BY <2>2, <3>1 DEF Start
  <2>3. CASE Stop \/ Join \/ \E v \in Visits, t \in 1..MaxNow : Visit(v, t)
    BY <2>3 DEF Stop, Join, Visit, env_vars
  <2>4. CASE ThreadStep
    BY <2>4 DEF ThreadStep, Copy, CopyFails, Emit, EndOfRows, CutShort, Wake, EndThread, env_vars
  <2>5. CASE UNCHANGED vars
    BY <2>5 DEF vars, env_vars
  <2>6. QED
    BY <2>1, <2>2, <2>3, <2>4, <2>5 DEF Next
<1>3. BrowserInv /\ Rest => TypeOK
  BY DEF BrowserInv, Typed, VisitInv, InFile, TypeOK
<1>4. QED
  BY <1>1, <1>2, <1>3, InvInit, InvNext, PTL DEF Spec

(* Wherever a copy or a query fails, however late visits come and however   *)
(* many share a microsecond, the watermark passes no visit that was not    *)
(* emitted, but for one that came when a copy already had one as late, and *)
(* one that a copy was cut off between and one of its own microsecond.     *)
THEOREM NothingBelowWatermark == Spec => []WatermarkCoversEmitted
<1>1. BrowserInv => WatermarkCoversEmitted
  BY DEF BrowserInv, PlaceInv, VisitInv, WatermarkCoversEmitted
<1>2. QED
  BY InvInit, InvNext, <1>1, PTL DEF Spec

(* Between a start() and its stop() no visit is emitted twice, and none of *)
(* before the second of the start.                                         *)
THEOREM BatchesAreNew == Spec => []EmitsOnlyNew
<1>1. BrowserInv => EmitsOnlyNew
  <2> SUFFICES ASSUME BrowserInv, thread = "read", NEW v \in copy
               PROVE  v \notin emitted /\ when[v] > SecondOfStart
    BY DEF EmitsOnlyNew
  <2>1. when[v] \in Nat /\ watermark \in Nat /\ SecondOfStart \in Nat
    BY StartIsPast DEF BrowserInv, Typed
  <2>2. SecondOfStart <= watermark /\ watermark < when[v] /\ v \notin emitted
    BY DEF BrowserInv, VisitInv, BatchInv
  <2>3. QED
    BY <2>1, <2>2
<1>2. QED
  BY InvInit, InvNext, <1>1, PTL DEF Spec

=============================================================================
