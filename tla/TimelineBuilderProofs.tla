----------------------- MODULE TimelineBuilderProofs -----------------------
(***************************************************************************)
(* Theorems about TimelineBuilder, for any store, any threshold and any    *)
(* length of the day.                                                      *)
(***************************************************************************)
EXTENDS TimelineBuilder, FiniteSetTheorems, FunctionTheorems, SequenceTheorems,
        WellFoundedInduction, TLAPS

(* Session k is the stretch of sorted from b to e, without a gap in it.    *)
IsSession(s, b, e) ==
    /\ b \in 1..Len(sorted) /\ e \in b..Len(sorted)
    /\ s.events = SubSeq(sorted, b, e)
    /\ s.start_time = sorted[b].timestamp /\ s.end_time = sorted[e].timestamp
    /\ \A m \in (b + 1)..e : ~GapBefore(m)

(* What is given to the loop.                                              *)
InputInv ==
    /\ pc = "sort" => \A k \in DOMAIN filtered : InPeriod(filtered[k])
    /\ pc \in {"first", "loop", "done"} =>
         InTimeOrder(sorted) /\ \A k \in DOMAIN sorted : InPeriod(sorted[k])
    /\ pc \in {"first", "loop"} => sorted # <<>>
    /\ pc \notin {"loop", "done"} => sessions = <<>>
    /\ pc = "done" /\ sorted = <<>> => sessions = <<>>

(* The sessions closed so far.                                             *)
ClosedInv ==
    /\ pc = "loop" \/ (pc = "done" /\ sorted # <<>>) =>
         Len(begins) = Len(sessions) + 1 /\ begins[1] = 1
    /\ \A k \in 1..Len(sessions) :
         /\ IsSession(sessions[k], begins[k], begins[k + 1] - 1)
         /\ k > 1 => GapBefore(begins[k])

(* The session under way begins at b.                                      *)
CurrentIs(b) ==
    /\ b \in 1..(i - 1)
    /\ current \in [start_time : Times, events : Seq(Event)]
    /\ current.start_time = sorted[b].timestamp
    /\ current.events = SubSeq(sorted, b, i - 1)
    /\ \A m \in (b + 1)..(i - 1) : ~GapBefore(m)
    /\ Len(begins) > 1 => GapBefore(b)

CurrentInv ==
    /\ pc = "loop" => i \in 2..(Len(sorted) + 1) /\ CurrentIs(begins[Len(begins)])
    /\ pc = "done" /\ sorted # <<>> => begins[Len(begins)] = Len(sorted) + 1

TimelineInv == TypeOK /\ InputInv /\ ClosedInv /\ CurrentInv

PlacesOf(es, e) == {k \in DOMAIN es : es[k] = e}
Count(es, e)    == Cardinality(PlacesOf(es, e))

(* How often each event is in what one stage hands to the next.            *)
CountInv ==
    /\ pc = "start" => asked = <<>>
    /\ pc = "query" => asked # <<>>
    /\ asked # <<>> => period = PeriodOf(asked[1], asked[2])
    /\ pc \notin {"start", "query"} =>
         /\ Len(events) <= MaxEvents
         /\ asked # <<>> =>
              \A e \in Event : Count(events, e) = IF InPeriod(e) THEN Count(stored, e) ELSE 0
    /\ pc \notin {"start", "query", "filter"} =>
         /\ Len(filtered) <= MaxEvents
         /\ \A e \in Event : Count(filtered, e) = IF InPeriod(e) THEN Count(events, e) ELSE 0
    /\ pc \in {"first", "loop", "done"} =>
         /\ Len(sorted) <= MaxEvents
         /\ \A e \in Event : Count(sorted, e) = Count(filtered, e)

(* The places where sessions begin go up, and between the first of them    *)
(* and the last every place lies in a session.                             *)
CutsInv ==
    /\ \A k, l \in DOMAIN begins : k < l => begins[k] < begins[l]
    /\ begins # <<>> =>
         \A n \in 1..(begins[Len(begins)] - 1) :
             \E k \in 1..(Len(begins) - 1) : begins[k] <= n /\ n < begins[k + 1]

-----------------------------------------------------------------------------

LEMMA StoredIsASequence == EventList \subseteq Seq(Event)
<1> SUFFICES ASSUME NEW n \in Nat, NEW es \in [1..n -> Event] PROVE es \in Seq(Event)
  BY MaxEventsAssumption DEF EventList
<1> QED
  OBVIOUS

LEMMA PlacesAreFinite ==
  ASSUME NEW n \in Nat
  PROVE  IsFiniteSet(1..n) /\ Cardinality(1..n) = n
<1>1. IsFiniteSet(1..n) /\ Cardinality(1..n) = IF 1 > n THEN 0 ELSE n - 1 + 1
  BY FS_Interval
<1>2. QED
  BY <1>1

(* Elements picked out of a sequence are a sequence of such elements.      *)
LEMMA PickedProperties ==
  ASSUME NEW es \in Seq(Event), NEW places \in SUBSET DOMAIN es, NEW p \in Orders(places)
  PROVE  /\ Picked(es, p) \in Seq(Event)
         /\ \A k \in DOMAIN Picked(es, p) : p[k] \in places /\ Picked(es, p)[k] = es[p[k]]
<1>1. Len(es) \in Nat /\ DOMAIN es = 1..Len(es) /\ \A k \in 1..Len(es) : es[k] \in Event
  OBVIOUS
<1>2. Cardinality(places) \in Nat
  <2>1. IsFiniteSet(places)
    BY <1>1, PlacesAreFinite, FS_Subset
  <2>2. QED
    BY <2>1, FS_CardinalityType
<1>3. p \in [1..Cardinality(places) -> places]
  BY DEF Orders
<1>4. Picked(es, p) \in [1..Cardinality(places) -> Event]
  BY <1>1, <1>3 DEF Picked
<1>5. Picked(es, p) \in Seq(Event)
  BY <1>2, <1>4
<1>6. QED
  BY <1>3, <1>5 DEF Picked

LEMMA DayStarts ==
  ASSUME NEW now \in Nat, now >= Day
  PROVE  (now \div Day) * Day \in Nat /\ (now \div Day) * Day >= Day
<1> DEFINE q == now \div Day
<1>1. Day \in Nat \ {0}
  BY DayAssumption
<1>2. q \in Nat \ {0}
  BY <1>1
<1> HIDE DEF q
<1>3. q * Day \in Nat /\ q * Day >= Day
  BY <1>1, <1>2
<1>4. QED
  BY <1>3 DEF q

LEMMA AppendToSubSeq ==
  ASSUME NEW es \in Seq(Event), NEW b \in 1..Len(es), NEW n \in (b + 1)..Len(es)
  PROVE  Append(SubSeq(es, b, n - 1), es[n]) = SubSeq(es, b, n)
<1>1. SubSeq(es, b, n) = SubSeq(es, b, n - 1) \o <<es[n]>>
  BY SubSeqRecursiveSecond
<1>2. SubSeq(es, b, n - 1) \in Seq(Event) /\ es[n] \in Event
  <2>1. \A k \in b..(n - 1) : es[k] \in Event
    OBVIOUS
  <2>2. SubSeq(es, b, n - 1) \in Seq(Event)
    BY <2>1, SubSeqProperties
  <2>3. QED
    BY <2>2
<1>3. QED
  BY <1>1, <1>2, AppendIsConcat

LEMMA SubSeqOfOne ==
  ASSUME NEW es \in Seq(Event), NEW n \in 1..Len(es)
  PROVE  SubSeq(es, n, n) = <<es[n]>>
<1>1. SubSeq(es, n, n) = SubSeq(es, n, n - 1) \o <<es[n]>>
  BY SubSeqRecursiveSecond
<1>2. SubSeq(es, n, n - 1) = <<>>
  BY SubSeqEmpty
<1>3. <<es[n]>> \in Seq(Event)
  OBVIOUS
<1>4. QED
  BY <1>1, <1>2, <1>3, ConcatEmptySeq

-----------------------------------------------------------------------------

LEMMA InvInit == Init => TimelineInv
<1> SUFFICES ASSUME Init PROVE TimelineInv
  OBVIOUS
<1>1. /\ <<>> \in Seq(Event) /\ <<>> \in Seq(Session) /\ <<>> \in Seq(Nat)
      /\ Len(<<>>) = 0
  OBVIOUS
<1>2. QED
  BY <1>1 DEF Init, TimelineInv, TypeOK, InputInv, ClosedInv, CurrentInv

(* The steps before the loop.                                              *)
LEMMA InputSteps ==
  ASSUME TimelineInv, Call \/ CmdTimeline \/ FindByTimeRange \/ Filter \/ Sort
  PROVE  TimelineInv'
<1> USE DEF TimelineInv
<1>1. /\ pc \in {"start", "query", "filter", "sort"} /\ sessions = <<>>
      /\ sessions' = sessions /\ begins' = begins /\ i' = i /\ current' = current
  BY DEF Call, CmdTimeline, FindByTimeRange, Filter, Sort, InputInv
<1>2. CASE Call
  <2>1. period' \in {<<>>} \cup (Nat \X Nat)
    BY <1>2, TimesAssumption DEF Call, Period
  <2>2. events' \in Seq(Event)
    BY <1>2, StoredIsASequence DEF Call, TypeOK
  <2>3. QED
    BY <1>1, <1>2, <2>1, <2>2 DEF Call, TypeOK, InputInv, ClosedInv, CurrentInv
<1>3. CASE CmdTimeline
  <2>1. PICK day \in {"today", "yesterday"}, now \in {n \in Times : n >= Day} :
          asked' = <<day, now>>
    BY <1>3 DEF CmdTimeline, Command
  <2>2. /\ (now \div Day) * Day \in Nat /\ (now \div Day) * Day >= Day
        /\ now \in Nat /\ Day \in Nat \ {0}
    BY DayStarts, TimesAssumption, DayAssumption
  <2>3. period' = PeriodOf(day, now)
    BY <1>3, <2>1 DEF CmdTimeline
  <2>4. period' \in Nat \X Nat
    BY <2>2, <2>3 DEF PeriodOf
  <2>5. QED
    BY <1>1, <1>3, <2>4 DEF CmdTimeline, TypeOK, InputInv, ClosedInv, CurrentInv
<1>4. CASE FindByTimeRange
  <2>1. PICK p \in Orders(Kept(stored)) : events' = Picked(stored, p)
    BY <1>4 DEF FindByTimeRange
  <2>2. events' \in Seq(Event)
    BY <2>1, StoredIsASequence, PickedProperties DEF Kept, TypeOK
  <2>3. QED
    BY <1>1, <1>4, <2>2 DEF FindByTimeRange, TypeOK, InputInv, ClosedInv, CurrentInv
<1>5. CASE Filter
  <2>1. PICK p \in Orders(Kept(events)) : filtered' = Picked(events, p)
    BY <1>5 DEF Filter
  <2>2. /\ filtered' \in Seq(Event)
        /\ \A k \in DOMAIN filtered' : InPeriod(filtered'[k])
    <3>1. Kept(events) \in SUBSET DOMAIN events /\ events \in Seq(Event)
      BY DEF Kept, TypeOK
    <3>2. /\ filtered' \in Seq(Event)
          /\ \A k \in DOMAIN filtered' : p[k] \in Kept(events) /\ filtered'[k] = events[p[k]]
      BY <2>1, <3>1, PickedProperties
    <3>3. QED
      BY <3>2 DEF Kept
  <2>3. \A k \in DOMAIN filtered' : InPeriod(filtered[k])'
    BY <1>5, <2>2 DEF Filter, InPeriod
  <2>4. QED
    BY <1>1, <1>5, <2>2, <2>3 DEF Filter, TypeOK, InputInv, ClosedInv, CurrentInv
<1>6. CASE Sort
  <2>1. PICK p \in Orders(DOMAIN filtered) : sorted' = Picked(filtered, p)
    BY <1>6 DEF Sort
  <2>2. /\ sorted' \in Seq(Event)
        /\ \A k \in DOMAIN sorted' : p[k] \in DOMAIN filtered /\ sorted'[k] = filtered[p[k]]
    <3>1. filtered \in Seq(Event)
      BY DEF TypeOK
    <3>2. DOMAIN filtered \in SUBSET DOMAIN filtered
      OBVIOUS
    <3>3. QED
      BY <2>1, <3>1, <3>2, PickedProperties
  <2>3. \A k \in DOMAIN sorted' : InPeriod(sorted[k])'
    BY <1>6, <2>2 DEF Sort, InPeriod, InputInv
  <2>4. InTimeOrder(sorted)'
    BY <1>6 DEF Sort, InTimeOrder
  <2>5. pc' = IF filtered = <<>> THEN "done" ELSE "first"
    BY <1>6 DEF Sort
  <2>6. filtered = <<>> <=> sorted' = <<>>
    <3>1. DOMAIN sorted' = 1..Cardinality(DOMAIN filtered)
      BY <2>1 DEF Picked, Orders
    <3>2. DOMAIN filtered = 1..Len(filtered) /\ Len(filtered) \in Nat
      BY DEF TypeOK
    <3>3. Cardinality(DOMAIN filtered) = Len(filtered)
      BY <3>2, PlacesAreFinite
    <3>4. QED
      BY <2>2, <3>1, <3>2, <3>3 DEF TypeOK
  <2>7. QED
    BY <1>1, <1>6, <2>2, <2>3, <2>4, <2>5, <2>6
       DEF Sort, TypeOK, InputInv, ClosedInv, CurrentInv
<1>7. QED
  BY <1>2, <1>3, <1>4, <1>5, <1>6

LEMMA FirstStep ==
  ASSUME TimelineInv, First
  PROVE  TimelineInv'
<1> USE DEF TimelineInv
<1>1. /\ sorted \in Seq(Event) /\ sorted # <<>> /\ Len(sorted) \in Nat
      /\ 1 \in DOMAIN sorted /\ 1 \in 1..Len(sorted) /\ sorted[1] \in Event
      /\ sessions = <<>> /\ Len(sessions) = 0
  BY DEF First, TypeOK, InputInv
<1>2. /\ pc' = "loop" /\ i' = 2 /\ begins' = <<1>> /\ current' = Opening(sorted[1])
      /\ UNCHANGED <<stored, asked, period, events, filtered, sorted, sessions>>
  BY DEF First
<1>3. current' \in [start_time : Times, events : Seq(Event)]
  BY <1>1, <1>2 DEF Opening, Event
<1>4. begins' \in Seq(Nat) /\ Len(begins') = 1 /\ begins'[1] = 1
  BY <1>2
<1>5. TypeOK'
  BY <1>2, <1>3, <1>4 DEF TypeOK
<1>6. InputInv'
  BY <1>1, <1>2 DEF First, InputInv, InTimeOrder, InPeriod
<1>7. ClosedInv'
  BY <1>1, <1>2, <1>4 DEF ClosedInv
<1>8. CurrentIs(1)'
  BY <1>1, <1>2, <1>3, <1>4, SubSeqOfOne DEF CurrentIs, Opening
<1>9. QED
  BY <1>1, <1>2, <1>4, <1>5, <1>6, <1>7, <1>8 DEF CurrentInv

LEMMA SortedEvents ==
  ASSUME sorted \in Seq(Event)
  PROVE  \A k \in 1..Len(sorted) :
           sorted[k] \in Event /\ sorted[k].timestamp \in Times /\ sorted[k].timestamp \in Nat
<1>1. \A k \in 1..Len(sorted) : sorted[k] \in Event
  OBVIOUS
<1>2. \A e \in Event : e.timestamp \in Times
  BY DEF Event
<1>3. QED
  BY <1>1, <1>2, TimesAssumption

(* A step of the loop may rely on this.                                    *)
LEMMA InTheLoop ==
  ASSUME TimelineInv, pc = "loop"
  PROVE  /\ sorted \in Seq(Event) /\ Len(sorted) \in Nat
         /\ \A k \in 1..Len(sorted) : sorted[k] \in Event /\ sorted[k].timestamp \in Times
         /\ i \in 2..(Len(sorted) + 1)
         /\ sessions \in Seq(Session) /\ begins \in Seq(Nat)
         /\ Len(sessions) \in Nat /\ Len(begins) = Len(sessions) + 1 /\ begins[1] = 1
         /\ CurrentIs(begins[Len(begins)])
<1>1. /\ sorted \in Seq(Event) /\ sessions \in Seq(Session) /\ begins \in Seq(Nat)
      /\ i \in 2..(Len(sorted) + 1) /\ CurrentIs(begins[Len(begins)])
      /\ Len(begins) = Len(sessions) + 1 /\ begins[1] = 1
  BY DEF TimelineInv, TypeOK, ClosedInv, CurrentInv
<1>2. QED
  BY <1>1, SortedEvents

LEMMA ContinueStep ==
  ASSUME TimelineInv, Continue
  PROVE  TimelineInv'
<1> DEFINE b == begins[Len(begins)]
<1>1. /\ pc = "loop" /\ pc' = pc /\ i <= Len(sorted) /\ ~GapBefore(i) /\ i' = i + 1
      /\ current' = [current EXCEPT !.events = Append(@, sorted[i])]
      /\ UNCHANGED <<stored, asked, period, events, filtered, sorted, sessions, begins>>
  BY DEF Continue
<1>2. /\ sorted \in Seq(Event) /\ Len(sorted) \in Nat /\ i \in 2..Len(sorted)
      /\ sorted[i] \in Event /\ CurrentIs(b)
  BY <1>1, InTheLoop
<1>3. /\ b \in 1..(i - 1) /\ current \in [start_time : Times, events : Seq(Event)]
      /\ current.start_time = sorted[b].timestamp
      /\ current.events = SubSeq(sorted, b, i - 1)
      /\ \A m \in (b + 1)..(i - 1) : ~GapBefore(m)
      /\ Len(begins) > 1 => GapBefore(b)
  BY <1>2 DEF CurrentIs
<1> HIDE DEF b
<1>4. Append(current.events, sorted[i]) = SubSeq(sorted, b, i)
  BY <1>2, <1>3, AppendToSubSeq
<1>5. Append(current.events, sorted[i]) \in Seq(Event)
  BY <1>2, <1>3, AppendProperties
<1>6. /\ current' \in [start_time : Times, events : Seq(Event)]
      /\ current'.start_time = sorted[b].timestamp
      /\ current'.events = SubSeq(sorted, b, i)
  BY <1>1, <1>3, <1>4, <1>5
<1>7. CurrentIs(b)'
  <2>1. b' = b /\ \A m : GapBefore(m)' <=> GapBefore(m)
    BY <1>1 DEF b, GapBefore
  <2>2. \A m \in (b + 1)..i : ~GapBefore(m)
    BY <1>1, <1>2, <1>3
  <2>3. i' - 1 = i /\ b \in 1..i
    <3>1. i \in Nat /\ i' = i + 1
      BY <1>1, <1>2
    <3>2. b \in 1..(i - 1)
      BY <1>3
    <3>3. QED
      BY <3>1, <3>2
  <2>4. PICK n : n = i' - 1
    OBVIOUS
  <2>5. /\ b' \in 1..n /\ current' \in [start_time : Times, events : Seq(Event)]
        /\ current'.start_time = sorted'[b'].timestamp
        /\ current'.events = SubSeq(sorted', b', n)
        /\ Len(begins') > 1 => GapBefore(b)'
    BY <1>1, <1>3, <1>6, <2>1, <2>3, <2>4
  <2>6. \A m \in (b' + 1)..n : ~GapBefore(m)'
    BY <2>1, <2>2, <2>3, <2>4
  <2>7. QED
    BY <2>4, <2>5, <2>6 DEF CurrentIs
<1>8. TypeOK'
  <2>1. i' \in Nat /\ current' \in [start_time : Times, events : Seq(Event)] \cup {<<>>}
    BY <1>1, <1>2, <1>6
  <2>2. QED
    BY <1>1, <2>1 DEF TimelineInv, TypeOK
<1>9. InputInv' /\ ClosedInv'
  BY <1>1 DEF TimelineInv, InputInv, ClosedInv, InTimeOrder, InPeriod, IsSession, GapBefore
<1>10. CurrentInv'
  BY <1>1, <1>2, <1>7 DEF CurrentInv, b
<1>11. QED
  BY <1>8, <1>9, <1>10 DEF TimelineInv

(* A session that is closed is what a session should be.                   *)
LEMMA CloseAdds ==
  ASSUME TimelineInv, pc = "loop", NEW a \in Apps, Close(a),
         begins' = Append(begins, i), sorted' = sorted
  PROVE  /\ sessions' \in Seq(Session) /\ begins' \in Seq(Nat)
         /\ Len(sessions') = Len(sessions) + 1 /\ Len(begins') = Len(sessions') + 1
         /\ begins'[1] = 1 /\ begins'[Len(begins')] = i
         /\ \A k \in 1..Len(sessions') :
              /\ IsSession(sessions[k], begins[k], begins[k + 1] - 1)'
              /\ k > 1 => GapBefore(begins[k])'
<1> DEFINE b    == begins[Len(begins)]
           last == Len(sessions) + 1
           s    == [start_time |-> current.start_time, end_time |-> sorted[i - 1].timestamp,
                    primary_app |-> a, events |-> current.events]
<1>1. /\ sorted \in Seq(Event) /\ Len(sorted) \in Nat /\ i \in 2..(Len(sorted) + 1)
      /\ \A k \in 1..Len(sorted) : sorted[k].timestamp \in Times
      /\ sessions \in Seq(Session) /\ begins \in Seq(Nat)
      /\ Len(sessions) \in Nat /\ Len(begins) = last /\ begins[1] = 1
      /\ CurrentIs(b)
  BY InTheLoop
<1>2. /\ b \in 1..(i - 1) /\ current \in [start_time : Times, events : Seq(Event)]
      /\ current.start_time = sorted[b].timestamp
      /\ current.events = SubSeq(sorted, b, i - 1)
      /\ \A m \in (b + 1)..(i - 1) : ~GapBefore(m)
      /\ last > 1 => GapBefore(b)
  BY <1>1 DEF CurrentIs
<1>3. sessions' = Append(sessions, s)
  BY DEF Close
<1>4. s \in Session /\ IsSession(s, b, i - 1)
  <2>1. i - 1 \in 1..Len(sorted) /\ b \in 1..Len(sorted) /\ i - 1 \in b..Len(sorted)
    BY <1>1, <1>2
  <2>2. QED
    BY <1>1, <1>2, <2>1 DEF IsSession, Session
<1> HIDE DEF s
<1>5. /\ sessions' \in Seq(Session) /\ Len(sessions') = last /\ sessions'[last] = s
      /\ \A k \in 1..Len(sessions) : sessions'[k] = sessions[k]
  BY <1>1, <1>3, <1>4, AppendProperties
<1>6. /\ begins' \in Seq(Nat) /\ Len(begins') = last + 1 /\ begins'[last + 1] = i
      /\ \A k \in 1..last : begins'[k] = begins[k]
  <2>1. i \in Nat
    BY <1>1
  <2>2. QED
    BY <1>1, <2>1, AppendProperties
<1>7. \A k \in 1..Len(sessions) :
        /\ IsSession(sessions[k], begins[k], begins[k + 1] - 1)
        /\ k > 1 => GapBefore(begins[k])
  BY DEF TimelineInv, ClosedInv
<1>8. \A t, m, n : /\ IsSession(t, m, n)' <=> IsSession(t, m, n)
                   /\ GapBefore(m)' <=> GapBefore(m)
  BY DEF IsSession, GapBefore
<1>9. ASSUME NEW k \in 1..last
      PROVE  /\ IsSession(sessions'[k], begins'[k], begins'[k + 1] - 1)
             /\ k > 1 => GapBefore(begins'[k])
  <2>1. CASE k = last
    BY <1>1, <1>2, <1>4, <1>5, <1>6, <2>1
  <2>2. CASE k \in 1..Len(sessions)
    BY <1>1, <1>5, <1>6, <1>7, <2>2
  <2>3. QED
    BY <1>1, <2>1, <2>2
<1>10. \A k \in 1..last :
         /\ IsSession(sessions[k], begins[k], begins[k + 1] - 1)'
         /\ k > 1 => GapBefore(begins[k])'
  BY <1>8, <1>9 DEF IsSession, GapBefore
<1>11. QED
  BY <1>1, <1>5, <1>6, <1>10

LEMMA SplitStep ==
  ASSUME TimelineInv, Split
  PROVE  TimelineInv'
<1>1. /\ pc = "loop" /\ pc' = pc /\ i <= Len(sorted) /\ GapBefore(i) /\ i' = i + 1
      /\ current' = Opening(sorted[i]) /\ begins' = Append(begins, i)
      /\ UNCHANGED <<stored, asked, period, events, filtered, sorted>>
  BY DEF Split
<1>2. PICK a \in Apps : Close(a)
  BY DEF Split
<1>3. /\ sessions' \in Seq(Session) /\ begins' \in Seq(Nat) /\ Len(sessions) \in Nat
      /\ Len(sessions') = Len(sessions) + 1 /\ Len(begins') = Len(sessions') + 1
      /\ begins'[1] = 1 /\ begins'[Len(begins')] = i
      /\ \A k \in 1..Len(sessions') :
           /\ IsSession(sessions[k], begins[k], begins[k + 1] - 1)'
           /\ k > 1 => GapBefore(begins[k])'
  BY <1>1, <1>2, CloseAdds, InTheLoop
<1>4. /\ sorted \in Seq(Event) /\ Len(sorted) \in Nat /\ i \in 2..Len(sorted)
      /\ sorted[i] \in Event
  BY <1>1, InTheLoop
<1>5. current' \in [start_time : Times, events : Seq(Event)]
  BY <1>1, <1>4 DEF Opening, Event
<1>6. CurrentIs(begins[Len(begins)])'
  <2>1. PICK n : n = i
    OBVIOUS
  <2>2. /\ n \in 1..(i' - 1) /\ i' - 1 = n /\ (n + 1)..(i' - 1) = {}
        /\ n = begins'[Len(begins')]
    BY <1>1, <1>3, <1>4, <2>1
  <2>3. /\ current'.start_time = sorted'[n].timestamp
        /\ current'.events = SubSeq(sorted', n, i' - 1)
    BY <1>1, <1>4, <2>1, <2>2, SubSeqOfOne DEF Opening
  <2>4. GapBefore(n)'
    BY <1>1, <2>1 DEF GapBefore
  <2>5. CurrentIs(n)'
    BY <1>5, <2>2, <2>3, <2>4 DEF CurrentIs
  <2>6. QED
    BY <2>2, <2>5 DEF CurrentIs
<1>7. TypeOK'
  BY <1>1, <1>3, <1>4, <1>5 DEF TimelineInv, TypeOK
<1>8. InputInv'
  BY <1>1 DEF TimelineInv, InputInv, InTimeOrder, InPeriod
<1>9. ClosedInv'
  BY <1>1, <1>3 DEF ClosedInv
<1>10. CurrentInv'
  BY <1>1, <1>4, <1>6 DEF CurrentInv
<1>11. QED
  BY <1>7, <1>8, <1>9, <1>10 DEF TimelineInv

LEMMA LastStep ==
  ASSUME TimelineInv, Last
  PROVE  TimelineInv'
<1>1. /\ pc = "loop" /\ pc' = "done" /\ i > Len(sorted) /\ begins' = Append(begins, i)
      /\ UNCHANGED <<stored, asked, period, events, filtered, sorted, i, current>>
  BY DEF Last
<1>2. PICK a \in Apps : Close(a)
  BY DEF Last
<1>3. /\ sessions' \in Seq(Session) /\ begins' \in Seq(Nat)
      /\ Len(begins') = Len(sessions') + 1
      /\ begins'[1] = 1 /\ begins'[Len(begins')] = i
      /\ \A k \in 1..Len(sessions') :
           /\ IsSession(sessions[k], begins[k], begins[k + 1] - 1)'
           /\ k > 1 => GapBefore(begins[k])'
  BY <1>1, <1>2, CloseAdds
<1>4. i = Len(sorted) + 1
  BY <1>1, InTheLoop
<1>5. TypeOK'
  BY <1>1, <1>3 DEF TimelineInv, TypeOK
<1>6. InputInv'
  BY <1>1 DEF TimelineInv, InputInv, InTimeOrder, InPeriod
<1>7. ClosedInv'
  BY <1>1, <1>3 DEF ClosedInv
<1>8. CurrentInv'
  BY <1>1, <1>3, <1>4 DEF CurrentInv
<1>9. QED
  BY <1>5, <1>6, <1>7, <1>8 DEF TimelineInv

LEMMA InvNext == TimelineInv /\ [Next]_vars => TimelineInv'
<1> SUFFICES ASSUME TimelineInv, [Next]_vars PROVE TimelineInv'
  OBVIOUS
<1>1. CASE UNCHANGED vars
  <2>1. TypeOK'
    BY <1>1 DEF vars, TimelineInv, TypeOK
  <2>2. InputInv'
    BY <1>1 DEF vars, TimelineInv, InputInv, InTimeOrder, InPeriod
  <2>3. ClosedInv'
    BY <1>1 DEF vars, TimelineInv, ClosedInv, IsSession, GapBefore
  <2>4. CurrentInv'
    BY <1>1 DEF vars, TimelineInv, CurrentInv, CurrentIs, GapBefore
  <2>5. QED
    BY <2>1, <2>2, <2>3, <2>4 DEF TimelineInv
<1>2. QED
  BY <1>1, InputSteps, FirstStep, ContinueStep, SplitStep, LastStep DEF Next

LEMMA Invariant == Spec => []TimelineInv
BY InvInit, InvNext, PTL DEF Spec

-----------------------------------------------------------------------------

(* Every state of a run of build() is well typed: the loop reads no event  *)
(* outside its vector, and period_start does not wrap round below zero.    *)
THEOREM TypeCorrect == Spec => []TypeOK
<1>1. TimelineInv => TypeOK
  BY DEF TimelineInv
<1>2. QED
  BY <1>1, Invariant, PTL

(* The sessions one after the other are the sorted events.                 *)
THEOREM SessionsAreAllEvents == Spec => []SessionsCover
<1>1. TimelineInv => SessionsCover
  <2> SUFFICES ASSUME TimelineInv, pc = "done", sorted # <<>>
               PROVE  /\ Len(begins) = Len(sessions) + 1
                      /\ begins[1] = 1 /\ begins[Len(begins)] = Len(sorted) + 1
                      /\ \A k \in DOMAIN sessions :
                          /\ begins[k] < begins[k + 1]
                          /\ sessions[k].events = SubSeq(sorted, begins[k], begins[k + 1] - 1)
    BY DEF SessionsCover
  <2>1. /\ Len(begins) = Len(sessions) + 1 /\ begins[1] = 1
        /\ begins[Len(begins)] = Len(sorted) + 1
        /\ sorted \in Seq(Event) /\ begins \in Seq(Nat) /\ Len(sessions) \in Nat
        /\ DOMAIN sessions = 1..Len(sessions)
    BY DEF TimelineInv, TypeOK, ClosedInv, CurrentInv
  <2>2. ASSUME NEW k \in 1..Len(sessions)
        PROVE  /\ begins[k] < begins[k + 1]
               /\ sessions[k].events = SubSeq(sorted, begins[k], begins[k + 1] - 1)
    <3>1. IsSession(sessions[k], begins[k], begins[k + 1] - 1)
      BY DEF TimelineInv, ClosedInv
    <3>2. begins[k + 1] \in Nat /\ begins[k] \in Nat
      BY <2>1
    <3>3. QED
      BY <2>1, <3>1, <3>2 DEF IsSession
  <2>3. QED
    BY <2>1, <2>2
<1>2. QED
  BY <1>1, Invariant, PTL

(* What a session has to do with the part of sorted it is.                 *)
LEMMA SessionEvents ==
  ASSUME TimelineInv, NEW k \in DOMAIN sessions
  PROVE  LET b == begins[k]
             e == begins[k + 1] - 1
         IN  /\ b \in 1..Len(sorted) /\ e \in b..Len(sorted)
             /\ Len(sessions[k].events) = e - b + 1
             /\ \A n \in 1..(e - b + 1) : sessions[k].events[n] = sorted[b + n - 1]
             /\ sessions[k].start_time = sorted[b].timestamp
             /\ sessions[k].end_time = sorted[e].timestamp
             /\ \A m \in (b + 1)..e : ~GapBefore(m)
             /\ k > 1 => GapBefore(b)
<1> DEFINE b == begins[k]
           e == begins[k + 1] - 1
<1>1. sorted \in Seq(Event) /\ k \in 1..Len(sessions)
  BY DEF TimelineInv, TypeOK
<1>2. IsSession(sessions[k], b, e) /\ (k > 1 => GapBefore(b))
  BY <1>1 DEF TimelineInv, ClosedInv
<1> HIDE DEF b, e
<1>3. /\ b \in 1..Len(sorted) /\ e \in b..Len(sorted)
      /\ sessions[k].events = SubSeq(sorted, b, e)
      /\ sessions[k].start_time = sorted[b].timestamp /\ sessions[k].end_time = sorted[e].timestamp
      /\ \A m \in (b + 1)..e : ~GapBefore(m)
  BY <1>2 DEF IsSession
<1>4. \A m \in b..e : sorted[m] \in Event
  BY <1>1, <1>3
<1>5. /\ Len(SubSeq(sorted, b, e)) = e - b + 1
      /\ \A n \in 1..(e - b + 1) : SubSeq(sorted, b, e)[n] = sorted[b + n - 1]
  BY <1>3, <1>4, SubSeqProperties
<1>6. QED
  BY <1>2, <1>3, <1>5 DEF b, e

(* A session has no gap above the threshold in it, and one before it.      *)
THEOREM SessionsAreStretches == Spec => []SessionsAreMaximal
<1>1. TimelineInv => SessionsAreMaximal
  <2> SUFFICES ASSUME TimelineInv PROVE SessionsAreMaximal
    OBVIOUS
  <2>1. /\ sorted \in Seq(Event) /\ sessions \in Seq(Session) /\ begins \in Seq(Nat)
        /\ \A m \in 1..Len(sorted) : sorted[m].timestamp \in Nat
        /\ gap_threshold \in Nat
        /\ DOMAIN sessions = 1..Len(sessions) /\ Len(sessions) \in Nat
    BY SortedEvents, GapAssumption DEF TimelineInv, TypeOK
  <2>2. ASSUME NEW k \in DOMAIN sessions, NEW n \in 2..Len(sessions[k].events)
        PROVE  sessions[k].events[n].timestamp
                   <= sessions[k].events[n - 1].timestamp + gap_threshold
    <3> DEFINE b == begins[k]
               e == begins[k + 1] - 1
               m == b + n - 1
    <3>1. /\ b \in 1..Len(sorted) /\ e \in b..Len(sorted)
          /\ Len(sessions[k].events) = e - b + 1
          /\ \A l \in 1..(e - b + 1) : sessions[k].events[l] = sorted[b + l - 1]
          /\ \A l \in (b + 1)..e : ~GapBefore(l)
      BY SessionEvents
    <3> HIDE DEF b, e
    <3>2. /\ m \in (b + 1)..e /\ m \in 1..Len(sorted) /\ m - 1 \in 1..Len(sorted)
          /\ sessions[k].events[n] = sorted[m] /\ sessions[k].events[n - 1] = sorted[m - 1]
      <4>1. n \in 2..(e - b + 1) /\ b \in Nat /\ e \in Nat /\ Len(sorted) \in Nat
        BY <2>1, <3>1
      <4>2. /\ m \in (b + 1)..e /\ m \in 1..Len(sorted) /\ m - 1 \in 1..Len(sorted)
            /\ n \in 1..(e - b + 1) /\ n - 1 \in 1..(e - b + 1)
            /\ b + (n - 1) - 1 = m - 1
        BY <3>1, <4>1
      <4>3. QED
        BY <3>1, <4>2
    <3> HIDE DEF m
    <3>3. ~(sorted[m].timestamp - sorted[m - 1].timestamp > gap_threshold)
      BY <3>1, <3>2 DEF GapBefore
    <3>4. sorted[m].timestamp \in Nat /\ sorted[m - 1].timestamp \in Nat
      BY <2>1, <3>2
    <3>5. sorted[m].timestamp <= sorted[m - 1].timestamp + gap_threshold
      BY <2>1, <3>3, <3>4
    <3>6. QED
      BY <3>2, <3>5
  <2>3. ASSUME NEW k \in 2..Len(sessions)
        PROVE  sessions[k].start_time > sessions[k - 1].end_time + gap_threshold
    <3> DEFINE b == begins[k]
    <3>1. k \in DOMAIN sessions /\ k - 1 \in DOMAIN sessions /\ k > 1 /\ (k - 1) + 1 = k
      BY <2>1
    <3>2. b \in 1..Len(sorted) /\ sessions[k].start_time = sorted[b].timestamp /\ GapBefore(b)
      BY <3>1, SessionEvents
    <3>3. b - 1 \in 1..Len(sorted) /\ sessions[k - 1].end_time = sorted[b - 1].timestamp
      BY <3>1, SessionEvents
    <3>4. sorted[b].timestamp \in Nat /\ sorted[b - 1].timestamp \in Nat
      BY <2>1, <3>2, <3>3
    <3>5. sorted[b].timestamp - sorted[b - 1].timestamp > gap_threshold
      BY <3>2 DEF GapBefore
    <3> HIDE DEF b
    <3>6. sorted[b].timestamp > sorted[b - 1].timestamp + gap_threshold
      BY <2>1, <3>4, <3>5
    <3>7. QED
      BY <3>2, <3>3, <3>6
  <2>4. QED
    BY <2>1, <2>2, <2>3 DEF SessionsAreMaximal
<1>2. QED
  BY <1>1, Invariant, PTL

(* A session's times are those of its events, in their order, and in the   *)
(* period asked for.                                                       *)
THEOREM SessionTimes == Spec => []TimesAreThoseOfEvents
<1>1. TimelineInv => TimesAreThoseOfEvents
  <2> SUFFICES ASSUME TimelineInv, NEW k \in DOMAIN sessions
               PROVE  LET s == sessions[k] IN
                      /\ s.events # <<>>
                      /\ s.start_time = s.events[1].timestamp
                      /\ s.end_time = s.events[Len(s.events)].timestamp
                      /\ s.start_time <= s.end_time
                      /\ period # <<>> => period[1] <= s.start_time /\ s.end_time <= period[2]
    BY DEF TimesAreThoseOfEvents
  <2> DEFINE b == begins[k]
             e == begins[k + 1] - 1
             s == sessions[k]
  <2>1. /\ sorted \in Seq(Event) /\ DOMAIN sorted = 1..Len(sorted) /\ Len(sorted) \in Nat
        /\ \A m \in 1..Len(sorted) : sorted[m].timestamp \in Nat
        /\ period \in {<<>>} \cup (Nat \X Nat)
    BY SortedEvents DEF TimelineInv, TypeOK
  <2>2. sessions # <<>>
    OBVIOUS
  <2>3. InTimeOrder(sorted) /\ \A m \in DOMAIN sorted : InPeriod(sorted[m])
    BY <2>2 DEF TimelineInv, InputInv, TypeOK
  <2>4. /\ b \in 1..Len(sorted) /\ e \in b..Len(sorted)
        /\ Len(s.events) = e - b + 1
        /\ \A n \in 1..(e - b + 1) : s.events[n] = sorted[b + n - 1]
        /\ s.start_time = sorted[b].timestamp /\ s.end_time = sorted[e].timestamp
    BY SessionEvents
  <2> HIDE DEF b, e, s
  <2>5. s.events # <<>> /\ s.events[1] = sorted[b] /\ s.events[Len(s.events)] = sorted[e]
    <3>1. /\ e - b + 1 \in Nat /\ 1 \in 1..(e - b + 1) /\ e - b + 1 \in 1..(e - b + 1)
          /\ b + 1 - 1 = b /\ b + (e - b + 1) - 1 = e
      BY <2>1, <2>4
    <3>2. Len(s.events) # 0
      BY <2>4, <3>1
    <3>3. QED
      BY <2>4, <3>1, <3>2
  <2>6. sorted[b].timestamp <= sorted[e].timestamp
    <3>1. CASE b = e
      BY <2>1, <2>4, <3>1
    <3>2. CASE b < e
      BY <2>1, <2>3, <2>4, <3>2 DEF InTimeOrder
    <3>3. QED
      BY <2>1, <2>4, <3>1, <3>2
  <2>7. period # <<>> => period[1] <= sorted[b].timestamp /\ sorted[e].timestamp <= period[2]
    <3>1. InPeriod(sorted[b]) /\ InPeriod(sorted[e])
      BY <2>1, <2>3, <2>4
    <3>2. QED
      BY <3>1 DEF InPeriod
  <2>8. QED
    BY <2>4, <2>5, <2>6, <2>7 DEF s
<1>2. QED
  BY <1>1, Invariant, PTL

-----------------------------------------------------------------------------
(* How often an event is where.                                            *)

LEMMA PlacesAreCounted ==
  ASSUME NEW es \in Seq(Event), NEW e
  PROVE  /\ IsFiniteSet(PlacesOf(es, e)) /\ Count(es, e) \in Nat
         /\ IsFiniteSet(DOMAIN es) /\ Cardinality(DOMAIN es) = Len(es)
<1>1. DOMAIN es = 1..Len(es) /\ Len(es) \in Nat
  OBVIOUS
<1>2. IsFiniteSet(DOMAIN es) /\ Cardinality(DOMAIN es) = Len(es)
  BY <1>1, PlacesAreFinite
<1>3. PlacesOf(es, e) \in SUBSET DOMAIN es
  BY DEF PlacesOf
<1>4. IsFiniteSet(PlacesOf(es, e))
  BY <1>2, <1>3, FS_Subset
<1>5. QED
  BY <1>2, <1>4, FS_CardinalityType DEF Count

(* What is picked out at some places, in any order, is what stands there.  *)
LEMMA PickedCounts ==
  ASSUME NEW es \in Seq(Event), NEW places \in SUBSET DOMAIN es, NEW p \in Orders(places)
  PROVE  /\ Len(Picked(es, p)) <= Len(es)
         /\ \A e : Count(Picked(es, p), e) = Cardinality({k \in places : es[k] = e})
<1> DEFINE n  == Cardinality(places)
           ps == Picked(es, p)
<1>1. IsFiniteSet(places) /\ n \in Nat /\ n <= Len(es)
  <2>1. IsFiniteSet(DOMAIN es) /\ Cardinality(DOMAIN es) = Len(es)
    BY PlacesAreCounted
  <2>2. IsFiniteSet(places) /\ n <= Len(es)
    BY <2>1, FS_Subset
  <2>3. QED
    BY <2>2, FS_CardinalityType
<1>2. /\ p \in [1..n -> places]
      /\ \A k, l \in 1..n : p[k] = p[l] => k = l
  BY DEF Orders
<1>3. ps = [k \in 1..n |-> es[p[k]]] /\ ps \in Seq(Event) /\ DOMAIN ps = 1..n
  <2>1. DOMAIN p = 1..n
    BY <1>2
  <2>2. ps = [k \in 1..n |-> es[p[k]]]
    BY <2>1 DEF Picked
  <2>3. ps \in Seq(Event)
    BY PickedProperties
  <2>4. QED
    BY <2>2, <2>3
<1>4. Len(ps) = n
  BY <1>1, <1>3
<1>5. \A j \in places : \E k \in 1..n : p[k] = j
  <2>1. p \in Injection(1..n, places)
    BY <1>2, Fun_IsInj
  <2>2. Cardinality(1..n) = n
    BY <1>1, PlacesAreFinite
  <2>3. p \in Surjection(1..n, places)
    BY <1>1, <2>1, <2>2, FS_Injection
  <2>4. QED
    BY <2>3 DEF Surjection
<1>6. ASSUME NEW e
      PROVE  Count(ps, e) = Cardinality({k \in places : es[k] = e})
  <2> DEFINE S == PlacesOf(ps, e)
             T == {k \in places : es[k] = e}
             f == [k \in S |-> p[k]]
  <2>1. \A k : k \in S <=> k \in 1..n /\ es[p[k]] = e
    BY <1>3 DEF PlacesOf
  <2>2. IsFiniteSet(S)
    BY <1>3, PlacesAreCounted
  <2> HIDE DEF S
  <2>3. f \in [S -> T] /\ \A a, b \in S : f[a] = f[b] => a = b
    BY <1>2, <2>1
  <2>4. \A t \in T : \E s \in S : f[s] = t
    BY <1>5, <2>1
  <2> HIDE DEF f, T
  <2>5. f \in Bijection(S, T)
    BY <2>3, <2>4, Fun_IsBij
  <2>6. ExistsBijection(S, T)
    BY <2>5 DEF ExistsBijection
  <2>7. Cardinality(T) = Cardinality(S)
    BY <2>2, <2>6, FS_Bijection
  <2>8. QED
    BY <2>7 DEF Count, S, T
<1>7. QED
  BY <1>1, <1>4, <1>6

(* Of what is in the period all is kept, and of the rest nothing.          *)
LEMMA KeptCounts ==
  ASSUME NEW es \in Seq(Event), NEW e
  PROVE  /\ Kept(es) \in SUBSET DOMAIN es
         /\ Cardinality({k \in Kept(es) : es[k] = e}) = IF InPeriod(e) THEN Count(es, e) ELSE 0
<1>1. {k \in Kept(es) : es[k] = e} = IF InPeriod(e) THEN PlacesOf(es, e) ELSE {}
  BY DEF Kept, PlacesOf
<1>2. QED
  BY <1>1, FS_EmptySet DEF Kept, Count

LEMMA StoredAreFew ==
  ASSUME stored \in EventList
  PROVE  stored \in Seq(Event) /\ Len(stored) <= MaxEvents
<1>1. PICK n \in 0..MaxEvents : stored \in [1..n -> Event]
  BY DEF EventList
<1>2. n \in Nat /\ n <= MaxEvents
  BY <1>1, MaxEventsAssumption
<1>3. QED
  BY <1>1, <1>2

LEMMA CountInit == Init => CountInv
BY DEF Init, CountInv

LEMMA CountNext == TimelineInv /\ CountInv /\ [Next]_vars => CountInv'
<1> SUFFICES ASSUME TimelineInv, CountInv, [Next]_vars PROVE CountInv'
  OBVIOUS
<1>1. /\ stored \in Seq(Event) /\ Len(stored) <= MaxEvents
      /\ events \in Seq(Event) /\ filtered \in Seq(Event)
      /\ Len(events) \in Nat /\ Len(filtered) \in Nat /\ Len(stored) \in Nat /\ MaxEvents \in Nat
  BY StoredAreFew, MaxEventsAssumption DEF TimelineInv, TypeOK
<1>2. CASE Call
  BY <1>1, <1>2 DEF Call, CountInv
<1>3. CASE CmdTimeline
  <2>1. asked' # <<>>
    <3>1. PICK day \in {"today", "yesterday"}, now \in {n \in Times : n >= Day} :
            asked' = <<day, now>>
      BY <1>3 DEF CmdTimeline, Command
    <3>2. QED
      BY <3>1
  <2>2. QED
    BY <1>3, <2>1 DEF CmdTimeline, CountInv, PeriodOf
<1>4. CASE FindByTimeRange
  <2>1. PICK p \in Orders(Kept(stored)) : events' = Picked(stored, p)
    BY <1>4 DEF FindByTimeRange
  <2>2. Kept(stored) \in SUBSET DOMAIN stored
    BY DEF Kept
  <2>3. /\ Len(events') <= Len(stored)
        /\ \A e : Count(events', e) = IF InPeriod(e) THEN Count(stored, e) ELSE 0
    <3>1. /\ Len(events') <= Len(stored)
          /\ \A e : Count(events', e) = Cardinality({k \in Kept(stored) : stored[k] = e})
      BY <1>1, <2>1, <2>2, PickedCounts
    <3>2. \A e : Cardinality({k \in Kept(stored) : stored[k] = e})
                  = IF InPeriod(e) THEN Count(stored, e) ELSE 0
      BY <1>1, KeptCounts
    <3>3. QED
      BY <3>1, <3>2
  <2>4. Len(events') \in Nat
    BY <1>1, <2>1, <2>2, PickedProperties
  <2>5. Len(events') <= MaxEvents
    BY <1>1, <2>3, <2>4
  <2>6. \A e \in Event : Count(events, e)' = IF InPeriod(e)' THEN Count(stored, e)' ELSE 0
    BY <1>4, <2>3 DEF FindByTimeRange, InPeriod, Count, PlacesOf
  <2>7. /\ pc = "query" /\ pc' = "filter" /\ asked' = asked /\ period' = period
    BY <1>4 DEF FindByTimeRange
  <2>8. period' = PeriodOf(asked[1], asked[2])' /\ asked' # <<>>
    BY <2>7 DEF CountInv, PeriodOf
  <2>9. QED
    BY <2>5, <2>6, <2>7, <2>8 DEF CountInv
<1>5. CASE Filter
  <2>1. PICK p \in Orders(Kept(events)) : filtered' = Picked(events, p)
    BY <1>5 DEF Filter
  <2>2. Kept(events) \in SUBSET DOMAIN events
    BY DEF Kept
  <2>3. /\ Len(filtered') <= Len(events) /\ Len(filtered') \in Nat
        /\ \A e : Count(filtered', e) = IF InPeriod(e) THEN Count(events, e) ELSE 0
    <3>1. /\ Len(filtered') <= Len(events)
          /\ \A e : Count(filtered', e) = Cardinality({k \in Kept(events) : events[k] = e})
      BY <1>1, <2>1, <2>2, PickedCounts
    <3>2. \A e : Cardinality({k \in Kept(events) : events[k] = e})
                  = IF InPeriod(e) THEN Count(events, e) ELSE 0
      BY <1>1, KeptCounts
    <3>3. Len(filtered') \in Nat
      BY <1>1, <2>1, <2>2, PickedProperties
    <3>4. QED
      BY <3>1, <3>2, <3>3
  <2>4. /\ pc = "filter" /\ pc' = "sort"
        /\ UNCHANGED <<stored, asked, period, events>>
    BY <1>5 DEF Filter
  <2>5. Len(filtered') <= MaxEvents
    BY <1>1, <2>3, <2>4 DEF CountInv
  <2>6. \A e \in Event : Count(filtered, e)' = IF InPeriod(e)' THEN Count(events, e)' ELSE 0
    BY <2>3, <2>4 DEF InPeriod, Count, PlacesOf
  <2>7. \A e : /\ InPeriod(e)' <=> InPeriod(e)
               /\ Count(events, e)' = Count(events, e) /\ Count(stored, e)' = Count(stored, e)
    BY <2>4 DEF InPeriod, Count, PlacesOf
  <2>8. QED
    BY <2>4, <2>5, <2>6, <2>7 DEF CountInv, PeriodOf
<1>6. CASE Sort
  <2>1. PICK p \in Orders(DOMAIN filtered) : sorted' = Picked(filtered, p)
    BY <1>6 DEF Sort
  <2>2. /\ Len(sorted') <= Len(filtered) /\ Len(sorted') \in Nat
        /\ \A e : Count(sorted', e) = Count(filtered, e)
    <3>1. DOMAIN filtered \in SUBSET DOMAIN filtered
      OBVIOUS
    <3>2. /\ Len(sorted') <= Len(filtered)
          /\ \A e : Count(sorted', e) = Cardinality({k \in DOMAIN filtered : filtered[k] = e})
      BY <1>1, <2>1, <3>1, PickedCounts
    <3>3. Len(sorted') \in Nat
      BY <1>1, <2>1, <3>1, PickedProperties
    <3>4. QED
      BY <3>2, <3>3 DEF Count, PlacesOf
  <2>3. /\ pc = "sort" /\ pc' \in {"first", "done"}
        /\ UNCHANGED <<stored, asked, period, events, filtered>>
    BY <1>6 DEF Sort
  <2>4. Len(sorted') <= MaxEvents
    BY <1>1, <2>2, <2>3 DEF CountInv
  <2>5. \A e : /\ InPeriod(e)' <=> InPeriod(e)
               /\ Count(events, e)' = Count(events, e) /\ Count(stored, e)' = Count(stored, e)
               /\ Count(filtered, e)' = Count(filtered, e)
    BY <2>3 DEF InPeriod, Count, PlacesOf
  <2>6. \A e \in Event : Count(sorted, e)' = Count(filtered, e)'
    BY <2>2, <2>5 DEF Count, PlacesOf
  <2>7. QED
    BY <2>3, <2>4, <2>5, <2>6 DEF CountInv, PeriodOf
<1>7. CASE First \/ Continue \/ Split \/ Last \/ UNCHANGED vars
  <2>1. /\ UNCHANGED <<stored, asked, period, events, filtered, sorted>>
        /\ pc' = pc \/ (pc \in {"first", "loop"} /\ pc' \in {"loop", "done"})
    BY <1>7 DEF First, Continue, Split, Last, vars
  <2>2. \A e : /\ InPeriod(e)' <=> InPeriod(e)
               /\ Count(events, e)' = Count(events, e) /\ Count(stored, e)' = Count(stored, e)
               /\ Count(filtered, e)' = Count(filtered, e)
               /\ Count(sorted, e)' = Count(sorted, e)
    BY <2>1 DEF InPeriod, Count, PlacesOf
  <2>3. QED
    BY <2>1, <2>2 DEF CountInv, PeriodOf
<1>8. QED
  BY <1>2, <1>3, <1>4, <1>5, <1>6, <1>7 DEF Next

LEMMA CountInvariant == Spec => []CountInv
BY CountInit, CountNext, Invariant, PTL DEF Spec

LEMMA CutsInit == Init => CutsInv
<1>1. DOMAIN <<>> = {}
  OBVIOUS
<1>2. QED
  BY <1>1 DEF Init, CutsInv

(* Another place is put after the ones there are. *)
LEMMA CutAdded ==
  ASSUME TimelineInv, CutsInv, pc = "loop", begins' = Append(begins, i)
  PROVE  CutsInv'
<1> DEFINE last == Len(begins)
<1>1. /\ begins \in Seq(Nat) /\ last \in Nat \ {0} /\ i \in Nat /\ begins[last] < i
      /\ \A k \in 1..last : begins[k] \in Nat
  <2>1. /\ begins \in Seq(Nat) /\ Len(begins) = Len(sessions) + 1 /\ Len(sessions) \in Nat
        /\ i \in Nat /\ Len(sorted) \in Nat /\ CurrentIs(begins[last])
    BY InTheLoop
  <2>2. begins[last] \in 1..(i - 1)
    BY <2>1 DEF CurrentIs
  <2>3. QED
    BY <2>1, <2>2
<1>2. /\ begins' \in Seq(Nat) /\ Len(begins') = last + 1 /\ begins'[last + 1] = i
      /\ \A k \in 1..last : begins'[k] = begins[k]
      /\ DOMAIN begins = 1..last /\ DOMAIN begins' = 1..(last + 1)
  BY <1>1, AppendProperties
<1> HIDE DEF last
<1>3. \A k \in 1..last : k < last => begins[k] < begins[last]
  <2>1. last \in DOMAIN begins
    BY <1>1, <1>2
  <2>2. QED
    BY <1>2, <2>1 DEF CutsInv
<1>4. ASSUME NEW k \in DOMAIN begins', NEW l \in DOMAIN begins', k < l
      PROVE  begins'[k] < begins'[l]
  <2>1. CASE l = last + 1
    BY <1>1, <1>2, <1>3, <1>4, <2>1
  <2>2. CASE l # last + 1
    <3>1. k \in 1..last /\ l \in 1..last
      BY <1>1, <1>2, <1>4, <2>2
    <3>2. QED
      BY <1>2, <1>4, <3>1 DEF CutsInv
  <2>3. QED
    BY <2>1, <2>2
<1>5. ASSUME NEW n \in 1..(i - 1)
      PROVE  \E k \in 1..last : begins'[k] <= n /\ n < begins'[k + 1]
  <2>1. CASE n < begins[last]
    <3>1. begins # <<>> /\ n \in 1..(begins[last] - 1)
      BY <1>1, <2>1 DEF last
    <3>2. PICK k \in 1..(last - 1) : begins[k] <= n /\ n < begins[k + 1]
      BY <3>1 DEF CutsInv, last
    <3>3. k \in 1..last /\ k + 1 \in 1..last
      BY <1>1
    <3>4. QED
      BY <1>2, <3>2, <3>3
  <2>2. CASE n >= begins[last]
    <3>1. last \in 1..last
      BY <1>1
    <3>2. n < i
      BY <1>1
    <3>3. QED
      BY <1>2, <2>2, <3>1, <3>2
  <2>3. n \in Nat /\ begins[last] \in Nat
    <3>1. last \in 1..last
      BY <1>1
    <3>2. QED
      BY <1>1, <3>1
  <2>4. n < begins[last] \/ n >= begins[last]
    BY <2>3
  <2>5. QED
    BY <2>1, <2>2, <2>4
<1>6. QED
  <2>1. begins'[Len(begins')] - 1 = i - 1 /\ Len(begins') - 1 = last
    BY <1>1, <1>2
  <2>2. QED
    BY <1>4, <1>5, <2>1 DEF CutsInv

LEMMA CutsNext == TimelineInv /\ CutsInv /\ [Next]_vars => CutsInv'
<1> SUFFICES ASSUME TimelineInv, CutsInv, [Next]_vars PROVE CutsInv'
  OBVIOUS
<1>1. CASE begins' = begins
  BY <1>1 DEF CutsInv
<1>2. CASE First
  <2>1. begins' = <<1>>
    BY <1>2 DEF First
  <2>2. DOMAIN begins' = {1} /\ Len(begins') = 1 /\ begins'[1] = 1
    BY <2>1
  <2>3. 1..(begins'[Len(begins')] - 1) = {}
    BY <2>2
  <2>4. QED
    BY <2>2, <2>3 DEF CutsInv
<1>3. CASE Split \/ Last
  BY <1>3, CutAdded DEF Split, Last
<1>4. QED
  BY <1>1, <1>2, <1>3
     DEF Next, Call, CmdTimeline, FindByTimeRange, Filter, Sort, Continue, vars

LEMMA CutsInvariant == Spec => []CutsInv
BY CutsInit, CutsNext, Invariant, PTL DEF Spec

(* The sessions show each event as often as it is among those sorted: what *)
(* leads from the one to the other is one to one.                          *)
LEMMA ShownAreSorted ==
  ASSUME TimelineInv, CountInv, CutsInv, pc = "done", NEW e \in Event
  PROVE  Shown(e) = Count(sorted, e)
<1> DEFINE S == {at \in (DOMAIN sessions) \X (1..MaxEvents) :
                   LET es == sessions[at[1]].events IN
                   at[2] \in DOMAIN es /\ es[at[2]] = e}
           T == PlacesOf(sorted, e)
           f == [at \in S |-> begins[at[1]] + at[2] - 1]
<1>1. /\ sorted \in Seq(Event) /\ DOMAIN sorted = 1..Len(sorted) /\ Len(sorted) \in Nat
      /\ sessions \in Seq(Session) /\ DOMAIN sessions = 1..Len(sessions)
      /\ Len(sessions) \in Nat /\ begins \in Seq(Nat) /\ DOMAIN begins = 1..Len(begins)
      /\ Len(sorted) <= MaxEvents /\ MaxEvents \in Nat
      /\ \A n : n \in T <=> n \in 1..Len(sorted) /\ sorted[n] = e
  BY MaxEventsAssumption DEF TimelineInv, TypeOK, CountInv, PlacesOf
<1>2. IsFiniteSet(T)
  BY <1>1, PlacesAreCounted
<1>3. CASE sorted = <<>>
  <2>1. sessions = <<>>
    BY <1>3 DEF TimelineInv, InputInv
  <2>2. S = {} /\ T = {}
    <3>1. DOMAIN sessions = {} /\ DOMAIN sorted = {}
      BY <1>3, <2>1
    <3>2. QED
      BY <3>1 DEF PlacesOf
  <2>3. Shown(e) = Cardinality(S) /\ Count(sorted, e) = Cardinality(T)
    BY DEF Shown, Count
  <2>4. QED
    BY <2>2, <2>3
<1>4. CASE sorted # <<>>
  <2>1. /\ Len(begins) = Len(sessions) + 1
        /\ begins[Len(begins)] = Len(sorted) + 1
        /\ \A k \in 1..Len(begins) : begins[k] \in Nat
    BY <1>1, <1>4 DEF TimelineInv, ClosedInv, CurrentInv
  <2>2. ASSUME NEW k \in 1..Len(sessions)
        PROVE  /\ begins[k] \in 1..Len(sorted) /\ begins[k + 1] \in Nat
               /\ begins[k + 1] - 1 \in begins[k]..Len(sorted)
               /\ DOMAIN sessions[k].events = 1..(begins[k + 1] - begins[k])
               /\ \A m \in 1..(begins[k + 1] - begins[k]) :
                    sessions[k].events[m] = sorted[begins[k] + m - 1]
    <3> DEFINE b == begins[k]
               d == begins[k + 1] - 1
    <3>1. /\ b \in 1..Len(sorted) /\ d \in b..Len(sorted)
          /\ Len(sessions[k].events) = d - b + 1
          /\ \A m \in 1..(d - b + 1) : sessions[k].events[m] = sorted[b + m - 1]
      BY <1>1, SessionEvents
    <3>2. begins[k + 1] \in Nat /\ d - b + 1 = begins[k + 1] - begins[k]
      <4>1. k + 1 \in 1..Len(begins)
        BY <1>1, <2>1
      <4>2. begins[k + 1] \in Nat /\ b \in Nat
        BY <2>1, <3>1, <4>1
      <4>3. QED
        BY <4>2
    <3>3. sessions[k].events \in Seq(Event)
      <4>1. sessions[k] \in Session
        BY <1>1
      <4>2. QED
        BY <4>1 DEF Session
    <3>4. DOMAIN sessions[k].events = 1..Len(sessions[k].events)
      BY <3>3
    <3>5. QED
      BY <3>1, <3>2, <3>4
  <2>3. \A at : at \in S <=>
          /\ at \in (1..Len(sessions)) \X (1..MaxEvents)
          /\ at[2] \in 1..(begins[at[1] + 1] - begins[at[1]])
          /\ sorted[begins[at[1]] + at[2] - 1] = e
    <3>1. \A at \in (1..Len(sessions)) \X (1..MaxEvents) : at[1] \in 1..Len(sessions)
      OBVIOUS
    <3>2. QED
      BY <1>1, <2>2, <3>1
  <2>4. ASSUME NEW at \in S
        PROVE  /\ at[1] \in 1..Len(sessions) /\ at[2] \in Nat
               /\ f[at] \in T
               /\ begins[at[1]] <= f[at] /\ f[at] < begins[at[1] + 1]
    <3> DEFINE k == at[1]
               m == at[2]
    <3>1. k \in 1..Len(sessions) /\ m \in 1..(begins[k + 1] - begins[k])
          /\ sorted[begins[k] + m - 1] = e
      BY <2>3
    <3>2. f[at] = begins[k] + m - 1
      OBVIOUS
    <3> HIDE DEF k, m, f, S
    <3>3. /\ begins[k] \in 1..Len(sorted) /\ begins[k + 1] \in Nat
          /\ begins[k + 1] - 1 \in begins[k]..Len(sorted)
      BY <2>2, <3>1
    <3>4. begins[k] + m - 1 \in 1..Len(sorted) /\ m \in Nat
          /\ begins[k] <= begins[k] + m - 1 /\ begins[k] + m - 1 < begins[k + 1]
      <4> DEFINE b == begins[k]
                 d == begins[k + 1]
      <4>1. m \in 1..(d - b)
        BY <3>1
      <4>2. b \in 1..Len(sorted) /\ d \in Nat /\ d - 1 \in b..Len(sorted) /\ Len(sorted) \in Nat
        BY <1>1, <3>3
      <4> HIDE DEF b, d
      <4>3. b + m - 1 \in 1..Len(sorted) /\ m \in Nat /\ b <= b + m - 1 /\ b + m - 1 < d
        BY <4>1, <4>2
      <4>4. QED
        BY <4>3 DEF b, d
    <3> HIDE DEF T
    <3>5. QED
      BY <1>1, <3>1, <3>2, <3>4 DEF k, m
  <2>5. \A at \in S : at = <<at[1], at[2]>>
    OBVIOUS
  <2>6. \A k, l \in 1..Len(sessions) : k < l => begins[k + 1] <= begins[l]
    <3>1. SUFFICES ASSUME NEW k \in 1..Len(sessions), NEW l \in 1..Len(sessions), k < l
                   PROVE  begins[k + 1] <= begins[l]
      OBVIOUS
    <3>2. CASE k + 1 = l
      BY <1>1, <2>1, <3>2
    <3>3. CASE k + 1 < l
      <4>1. k + 1 \in DOMAIN begins /\ l \in DOMAIN begins
        BY <1>1, <2>1
      <4>2. begins[k + 1] < begins[l]
        BY <3>3, <4>1 DEF CutsInv
      <4>3. begins[k + 1] \in Nat /\ begins[l] \in Nat
        BY <1>1, <2>1, <4>1
      <4>4. QED
        BY <4>2, <4>3
    <3>4. QED
      BY <1>1, <3>1, <3>2, <3>3
  <2> HIDE DEF S, T
  <2>7. f \in [S -> T]
    BY <2>4
  <2>8. ASSUME NEW at \in S, NEW bt \in S, f[at] = f[bt] PROVE at = bt
    <3>1. /\ at[1] \in 1..Len(sessions) /\ at[2] \in Nat
          /\ bt[1] \in 1..Len(sessions) /\ bt[2] \in Nat
          /\ f[at] \in 1..Len(sorted) /\ f[bt] \in 1..Len(sorted)
          /\ begins[at[1]] <= f[at] /\ f[at] < begins[at[1] + 1]
          /\ begins[bt[1]] <= f[bt] /\ f[bt] < begins[bt[1] + 1]
      BY <1>1, <2>4
    <3>2. begins[at[1]] + at[2] - 1 = begins[bt[1]] + bt[2] - 1
      BY <2>8
    <3> HIDE DEF f
    <3>3. /\ begins[at[1]] \in Nat /\ begins[at[1] + 1] \in Nat
          /\ begins[bt[1]] \in Nat /\ begins[bt[1] + 1] \in Nat
      <4>1. \A k \in 1..Len(sessions) : begins[k] \in 1..Len(sorted) /\ begins[k + 1] \in Nat
        BY <2>2
      <4>2. \A k \in 1..Len(sessions) : begins[k] \in Nat /\ begins[k + 1] \in Nat
        BY <4>1
      <4>3. QED
        BY <3>1, <4>2
    <3>4. at[1] = bt[1]
      <4>1. ~(at[1] < bt[1])
        <5> SUFFICES ASSUME at[1] < bt[1] PROVE FALSE
          OBVIOUS
        <5>1. begins[at[1] + 1] <= begins[bt[1]]
          BY <2>6, <3>1
        <5>2. f[at] \in Nat /\ f[bt] \in Nat /\ f[at] = f[bt]
          BY <2>8, <3>1
        <5>3. f[at] < begins[at[1] + 1] /\ begins[bt[1]] <= f[bt]
          BY <3>1
        <5>4. QED
          BY <3>3, <5>1, <5>2, <5>3
      <4>2. ~(bt[1] < at[1])
        <5> SUFFICES ASSUME bt[1] < at[1] PROVE FALSE
          OBVIOUS
        <5>1. begins[bt[1] + 1] <= begins[at[1]]
          BY <2>6, <3>1
        <5>2. f[bt] \in Nat /\ f[at] \in Nat /\ f[bt] = f[at]
          BY <2>8, <3>1
        <5>3. f[bt] < begins[bt[1] + 1] /\ begins[at[1]] <= f[at]
          BY <3>1
        <5>4. QED
          BY <3>3, <5>1, <5>2, <5>3
      <4>3. QED
        BY <1>1, <3>1, <4>1, <4>2
    <3>5. at[2] = bt[2]
      BY <3>1, <3>2, <3>3, <3>4
    <3>6. QED
      BY <2>5, <3>4, <3>5
  <2>9. ASSUME NEW n \in T PROVE \E at \in S : f[at] = n
    <3>1. n \in 1..Len(sorted) /\ sorted[n] = e
      BY <1>1
    <3>2. PICK k \in 1..Len(sessions) : begins[k] <= n /\ n < begins[k + 1]
      <4>1. begins # <<>>
        BY <1>1, <2>1
      <4>2. n \in 1..(begins[Len(begins)] - 1) /\ Len(begins) - 1 = Len(sessions)
        BY <1>1, <2>1, <3>1
      <4>3. QED
        BY <4>1, <4>2 DEF CutsInv
    <3>3. begins[k] \in 1..Len(sorted) /\ begins[k + 1] \in Nat
      BY <2>2
    <3> DEFINE m  == n - begins[k] + 1
               at == <<k, m>>
    <3>4. /\ m \in 1..MaxEvents /\ m \in 1..(begins[k + 1] - begins[k])
          /\ begins[k] + m - 1 = n
      <4> DEFINE b == begins[k]
                 d == begins[k + 1]
      <4>1. /\ n \in 1..Len(sorted) /\ Len(sorted) \in Nat /\ Len(sorted) <= MaxEvents
            /\ MaxEvents \in Nat /\ b \in 1..Len(sorted) /\ d \in Nat /\ b <= n /\ n < d
        BY <1>1, <3>1, <3>2, <3>3
      <4> HIDE DEF b, d
      <4>2. /\ n - b + 1 \in 1..MaxEvents /\ n - b + 1 \in 1..(d - b)
            /\ b + (n - b + 1) - 1 = n
        BY <4>1
      <4>3. QED
        BY <4>2 DEF b, d
    <3> HIDE DEF m
    <3>5. at \in S
      BY <2>3, <3>1, <3>4
    <3>6. f[at] = n
      BY <3>4, <3>5
    <3>7. QED
      BY <3>5, <3>6
  <2> HIDE DEF f
  <2>10. f \in Bijection(S, T)
    BY <2>7, <2>8, <2>9, Fun_IsBij
  <2>11. ExistsBijection(S, T)
    BY <2>10 DEF ExistsBijection
  <2>12. ExistsBijection(T, S)
    BY <2>11, Fun_ExistsBijSymmetric
  <2>13. Cardinality(S) = Cardinality(T)
    BY <1>2, <2>12, FS_Bijection
  <2>14. QED
    BY <2>13 DEF Shown, Count, S, T
<1>5. QED
  BY <1>3, <1>4

(* Each event of the argument that lies in the period is in the timeline   *)
(* as often as it was given, and nothing else is in it: filter, sort and   *)
(* the cutting into sessions neither lose nor repeat an event.             *)
THEOREM EventsAreShownOnce == Spec => []EachEventOnce
<1>1. TimelineInv /\ CountInv /\ CutsInv => EachEventOnce
  <2> SUFFICES ASSUME TimelineInv, CountInv, CutsInv, pc = "done", NEW e \in Event
               PROVE  Shown(e) = Cardinality({k \in DOMAIN events :
                            /\ events[k] = e
                            /\ period # <<>> => e.timestamp \in period[1]..period[2]})
    BY DEF EachEventOnce
  <2>1. period \in {<<>>} \cup (Nat \X Nat) /\ e.timestamp \in Nat
    BY TimesAssumption DEF TimelineInv, TypeOK, Event
  <2>2. InPeriod(e) <=> (period # <<>> => e.timestamp \in period[1]..period[2])
    BY <2>1 DEF InPeriod
  <2>3. {k \in DOMAIN events : /\ events[k] = e
                               /\ period # <<>> => e.timestamp \in period[1]..period[2]}
          = IF InPeriod(e) THEN PlacesOf(events, e) ELSE {}
    BY <2>2 DEF PlacesOf
  <2>4. Shown(e) = IF InPeriod(e) THEN Count(events, e) ELSE 0
    BY ShownAreSorted DEF CountInv
  <2>5. QED
    BY <2>3, <2>4, FS_EmptySet DEF Count
<1>2. QED
  BY <1>1, Invariant, CountInvariant, CutsInvariant, PTL

(* Multiples of the length of a day are in the order of the days.          *)
LEMMA DaysInOrder ==
  ASSUME NEW m \in Nat, NEW n \in Nat
  PROVE  /\ m * Day \in Nat /\ n * Day \in Nat /\ (m + 1) * Day = m * Day + Day
         /\ m < n => m * Day + Day <= n * Day
<1>1. Day \in Nat \ {0}
  BY DayAssumption
<1>2. m * Day \in Nat /\ n * Day \in Nat /\ (m + 1) * Day = m * Day + Day
  BY <1>1
<1>3. ASSUME m < n PROVE m * Day + Day <= n * Day
  <2> DEFINE d == n - (m + 1)
  <2>1. d \in Nat /\ n = (m + 1) + d
    BY <1>3
  <2> HIDE DEF d
  <2>2. n * Day = (m + 1) * Day + d * Day /\ d * Day \in Nat
    BY <1>1, <2>1
  <2>3. QED
    BY <1>1, <1>2, <2>2
<1>4. QED
  BY <1>2, <1>3

LEMMA DayOf ==
  ASSUME NEW t \in Nat
  PROVE  /\ t \div Day \in Nat
         /\ (t \div Day) * Day <= t /\ t < (t \div Day) * Day + Day
<1>1. Day \in Nat \ {0}
  BY DayAssumption
<1>2. QED
  BY <1>1

(* The period of a command is the calendar day it names, up to the second  *)
(* of the command.                                                         *)
LEMMA PeriodIsTheDay ==
  ASSUME NEW day \in {"today", "yesterday"}, NEW now \in Nat, now >= Day, NEW t \in Nat
  PROVE  LET p == PeriodOf(day, now) IN
         p[1] <= t /\ t <= p[2] <=>
           /\ now \div Day - t \div Day = (IF day = "yesterday" THEN 1 ELSE 0)
           /\ t <= now
<1> DEFINE q == now \div Day
           r == t \div Day
<1>1. /\ Day \in Nat \ {0} /\ q \in Nat /\ r \in Nat
      /\ q * Day <= now /\ now < q * Day + Day
      /\ r * Day <= t /\ t < r * Day + Day
  BY DayOf, DayAssumption
<1>2. PeriodOf(day, now) = IF day = "yesterday" THEN <<q * Day - Day, q * Day - 1>>
                           ELSE <<q * Day, now>>
  BY DEF PeriodOf
<1> HIDE DEF q, r
<1>3. /\ q * Day \in Nat /\ r * Day \in Nat /\ (r + 1) * Day = r * Day + Day
      /\ r < q => r * Day + Day <= q * Day
      /\ q < r => q * Day + Day <= r * Day
      /\ r + 1 < q => (r + 1) * Day + Day <= q * Day
  BY <1>1, DaysInOrder
<1>4. CASE day = "today"
  <2>1. q * Day <= t /\ t <= now <=> q - r = 0 /\ t <= now
    <3>1. CASE q = r
      BY <1>1, <3>1
    <3>2. CASE q < r
      BY <1>1, <1>3, <3>2
    <3>3. CASE r < q
      BY <1>1, <1>3, <3>3
    <3>4. QED
      BY <1>1, <3>1, <3>2, <3>3
  <2>2. QED
    BY <1>2, <1>4, <2>1 DEF q, r
<1>5. CASE day = "yesterday"
  <2>1. q * Day - Day <= t /\ t <= q * Day - 1 <=> q - r = 1 /\ t <= now
    <3>1. CASE q = r + 1
      BY <1>1, <1>3, <3>1
    <3>2. CASE q < r + 1
      <4>1. q * Day <= r * Day
        BY <1>1, <1>3, <3>2
      <4>2. QED
        BY <1>1, <1>3, <3>2, <4>1
    <3>3. CASE r + 1 < q
      BY <1>1, <1>3, <3>3
    <3>4. QED
      BY <1>1, <3>1, <3>2, <3>3
  <2>2. QED
    BY <1>2, <1>5, <2>1 DEF q, r
<1>6. QED
  BY <1>4, <1>5

(* The command shows every event of the calendar day it names that is not  *)
(* dated after the command, each as often as the store has it, and none of *)
(* any other day.                                                          *)
THEOREM CommandShowsItsDay == Spec => []TimelineOfTheDay
<1>1. TimelineInv /\ CountInv /\ CutsInv => TimelineOfTheDay
  <2> SUFFICES ASSUME TimelineInv, CountInv, CutsInv, pc = "done", asked # <<>>,
                      NEW e \in Event
               PROVE  LET days_ago == asked[2] \div Day - e.timestamp \div Day
                          meant    == /\ days_ago = (IF asked[1] = "yesterday" THEN 1 ELSE 0)
                                      /\ e.timestamp <= asked[2]
                      IN  Shown(e) = IF meant
                                     THEN Cardinality({k \in DOMAIN stored : stored[k] = e})
                                     ELSE 0
    BY DEF TimelineOfTheDay
  <2> DEFINE day == asked[1]
             now == asked[2]
             t   == e.timestamp
  <2>1. /\ day \in {"today", "yesterday"} /\ now \in Nat /\ now >= Day /\ t \in Nat
    BY TimesAssumption DEF TimelineInv, TypeOK, Command, Event
  <2>2. period = PeriodOf(day, now) /\ period # <<>>
    <3>1. period = PeriodOf(day, now)
      BY DEF CountInv
    <3>2. \A m, n : <<m, n>> # <<>>
      OBVIOUS
    <3>3. QED
      BY <3>1, <3>2 DEF PeriodOf
  <2> HIDE DEF day, now, t
  <2>3. InPeriod(e) <=>
          /\ now \div Day - t \div Day = (IF day = "yesterday" THEN 1 ELSE 0)
          /\ t <= now
    BY <2>1, <2>2, PeriodIsTheDay DEF InPeriod, t
  <2>4. Shown(e) = IF InPeriod(e) THEN Count(stored, e) ELSE 0
    <3>1. /\ Count(sorted, e) = Count(filtered, e)
          /\ Count(filtered, e) = IF InPeriod(e) THEN Count(events, e) ELSE 0
          /\ Count(events, e) = IF InPeriod(e) THEN Count(stored, e) ELSE 0
      BY DEF CountInv
    <3>2. QED
      BY <3>1, ShownAreSorted
  <2>5. QED
    BY <2>3, <2>4 DEF Count, PlacesOf, day, now, t
<1>2. QED
  BY <1>1, Invariant, CountInvariant, CutsInvariant, PTL

-----------------------------------------------------------------------------
(* Which application a session is called after.                            *)

LEMMA BoundedHasLargest ==
  ASSUME NEW bound \in Nat, NEW S \in SUBSET (0..bound), S # {}
  PROVE  \E m \in S : \A x \in S : x <= m
<1> DEFINE Less == OpToRel(<, Nat)
           gaps == {bound - x : x \in S}
<1>1. gaps \subseteq Nat /\ gaps # {}
  <2>1. \A x \in S : bound - x \in Nat /\ bound - x \in gaps
    OBVIOUS
  <2>2. QED
    BY <2>1
<1>2. \A x, y \in Nat : <<x, y>> \in Less <=> x < y
  BY DEF OpToRel
<1>3. IsWellFoundedOn(Less, Nat)
  BY NatLessThanWellFounded
<1> HIDE DEF Less
<1>4. PICK g \in gaps : \A h \in gaps : <<h, g>> \notin Less
  BY <1>1, <1>3, WFMin
<1>5. PICK m \in S : g = bound - m
  BY <1>4
<1>6. ASSUME NEW x \in S PROVE x <= m
  <2>1. bound - x \in gaps /\ ~(bound - x < g)
    BY <1>1, <1>2, <1>4
  <2>2. QED
    BY <1>5, <2>1
<1>7. QED
  BY <1>6

LEMMA SomeAppIsPrimary ==
  ASSUME NEW es \in Seq(Event), es # <<>>
  PROVE  \E a \in Apps : IsPrimary(es, a)
<1> DEFINE of(a) == {k \in DOMAIN es : es[k].source = a}
           S     == {Frequency(es, a) : a \in Apps}
<1>1. /\ Len(es) \in Nat /\ DOMAIN es = 1..Len(es) /\ 1 \in DOMAIN es
      /\ es[1] \in Event
  OBVIOUS
<1>2. IsFiniteSet(DOMAIN es) /\ Cardinality(DOMAIN es) = Len(es)
  BY <1>1, PlacesAreFinite
<1>3. ASSUME NEW a \in Apps
      PROVE  IsFiniteSet(of(a)) /\ Frequency(es, a) \in 0..Len(es)
  <2>1. of(a) \in SUBSET DOMAIN es
    OBVIOUS
  <2>2. IsFiniteSet(of(a)) /\ Cardinality(of(a)) <= Len(es)
    BY <1>2, <2>1, FS_Subset
  <2>3. Cardinality(of(a)) \in Nat
    BY <2>2, FS_CardinalityType
  <2>4. QED
    BY <1>1, <2>2, <2>3 DEF Frequency
<1>4. es[1].source \in Apps /\ Frequency(es, es[1].source) > 0
  <2>1. es[1].source \in Apps
    BY <1>1 DEF Event
  <2>2. IsFiniteSet(of(es[1].source)) /\ of(es[1].source) # {}
    BY <1>1, <1>3, <2>1
  <2>3. Cardinality(of(es[1].source)) \in Nat /\ Cardinality(of(es[1].source)) # 0
    BY <2>2, FS_EmptySet, FS_CardinalityType
  <2>4. QED
    BY <2>1, <2>3 DEF Frequency
<1>5. S \in SUBSET (0..Len(es)) /\ S # {}
  BY <1>3, <1>4
<1>6. PICK m \in S : \A x \in S : x <= m
  BY <1>1, <1>5, BoundedHasLargest
<1>7. PICK a \in Apps : m = Frequency(es, a)
  BY <1>6
<1>8. \A b \in Apps : Frequency(es, b) \in 0..Len(es) /\ Frequency(es, b) <= m
  BY <1>3, <1>6
<1>9. Frequency(es, a) > 0
  BY <1>1, <1>4, <1>7, <1>8
<1>10. QED
  BY <1>7, <1>8, <1>9 DEF IsPrimary

(* determine_primary_app is never asked about a session without events,    *)
(* for which it would say the empty string: one application at least is    *)
(* there to be found whenever a session is to be closed, and a session     *)
(* keeps the name of one that is as frequent as any in it.                 *)
SessionsHaveTheirApp ==
    /\ pc = "loop" => \E a \in Apps : IsPrimary(current.events, a)
    /\ \A k \in DOMAIN sessions : IsPrimary(sessions[k].events, sessions[k].primary_app)

ClosedHaveTheirApp ==
    \A k \in 1..Len(sessions) : IsPrimary(sessions[k].events, sessions[k].primary_app)

LEMMA ClosedApps == Spec => []ClosedHaveTheirApp
<1>1. Init => ClosedHaveTheirApp
  BY DEF Init, ClosedHaveTheirApp
<1>2. TimelineInv /\ ClosedHaveTheirApp /\ [Next]_vars => ClosedHaveTheirApp'
  <2> SUFFICES ASSUME TimelineInv, ClosedHaveTheirApp, [Next]_vars
               PROVE  ClosedHaveTheirApp'
    OBVIOUS
  <2>1. CASE Split \/ Last
    <3>1. PICK a \in Apps : IsPrimary(current.events, a) /\ Close(a)
      BY <2>1 DEF Split, Last
    <3>2. PICK s : /\ sessions' = Append(sessions, s)
                   /\ s.events = current.events /\ s.primary_app = a
      BY <3>1 DEF Close
    <3>3. sessions \in Seq(Session)
      BY DEF TimelineInv, TypeOK
    <3>4. \A k \in 1..Len(sessions') :
             sessions'[k] = IF k = Len(sessions) + 1 THEN s ELSE sessions[k]
      BY <3>2, <3>3
    <3>5. \A es, b : IsPrimary(es, b)' <=> IsPrimary(es, b)
      BY DEF IsPrimary, Frequency
    <3>6. ASSUME NEW k \in 1..Len(sessions')
          PROVE  IsPrimary(sessions'[k].events, sessions'[k].primary_app)
      <4>1. k = Len(sessions) + 1 \/ k \in 1..Len(sessions)
        BY <3>2, <3>3
      <4>2. QED
        BY <3>1, <3>2, <3>3, <3>4, <4>1 DEF ClosedHaveTheirApp
    <3>7. QED
      BY <3>6 DEF ClosedHaveTheirApp, IsPrimary, Frequency
  <2>2. CASE Call \/ CmdTimeline \/ FindByTimeRange \/ Filter \/ Sort \/ First \/ Continue
             \/ UNCHANGED vars
    <3>1. sessions' = sessions
      BY <2>2 DEF Call, CmdTimeline, FindByTimeRange, Filter, Sort, First, Continue, vars
    <3>2. QED
      BY <3>1 DEF ClosedHaveTheirApp, IsPrimary, Frequency
  <2>3. QED
    BY <2>1, <2>2 DEF Next
<1>3. QED
  BY <1>1, <1>2, Invariant, PTL DEF Spec

THEOREM SessionsAreNamed == Spec => []SessionsHaveTheirApp
<1>1. TimelineInv /\ ClosedHaveTheirApp => SessionsHaveTheirApp
  <2> SUFFICES ASSUME TimelineInv, ClosedHaveTheirApp PROVE SessionsHaveTheirApp
    OBVIOUS
  <2>1. sessions \in Seq(Session)
    BY DEF TimelineInv, TypeOK
  <2>2. \A k \in DOMAIN sessions : IsPrimary(sessions[k].events, sessions[k].primary_app)
    BY <2>1 DEF ClosedHaveTheirApp
  <2>3. ASSUME pc = "loop" PROVE \E a \in Apps : IsPrimary(current.events, a)
    <3>1. /\ sorted \in Seq(Event) /\ Len(sorted) \in Nat
          /\ i \in 2..(Len(sorted) + 1) /\ CurrentIs(begins[Len(begins)])
      BY <2>3, InTheLoop
    <3>2. PICK b \in 1..(i - 1) : current.events = SubSeq(sorted, b, i - 1)
      BY <3>1 DEF CurrentIs
    <3>3. current.events \in Seq(Event) /\ Len(current.events) = i - b
      BY <3>1, <3>2
    <3>4. current.events # <<>>
      BY <3>1, <3>2, <3>3
    <3>5. QED
      BY <3>3, <3>4, SomeAppIsPrimary
  <2>4. QED
    BY <2>2, <2>3 DEF SessionsHaveTheirApp
<1>2. QED
  BY <1>1, Invariant, ClosedApps, PTL

=============================================================================
