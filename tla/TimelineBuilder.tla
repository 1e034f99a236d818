--------------------------- MODULE TimelineBuilder ---------------------------
(***************************************************************************)
(* TimelineBuilder: the events of a period, sorted by time, are cut into   *)
(* sessions wherever the gap to the next event is above a threshold.  One  *)
(* step per iteration of the loop, so that the result can be related to    *)
(* what a session is, for every input.  The command "timeline" asks for    *)
(* one of two periods, and gives build() what the store has of it.         *)
(***************************************************************************)
EXTENDS Integers, Sequences, FiniteSets

CONSTANTS
    Times,           \* timestamps that occur
    Apps,            \* applications: what sources name, without their paths
    MaxEvents,       \* bound on the number of events
    gap_threshold,   \* gap_threshold_, in seconds
    Day              \* the length of a day: 86400 in the code

ASSUME TimesAssumption     == Times \subseteq Nat
ASSUME MaxEventsAssumption == MaxEvents \in Nat
ASSUME GapAssumption       == gap_threshold \in Nat
ASSUME DayAssumption       == Day \in Nat \ {0}

VARIABLES
    pc,          \* "start", "query", "filter", "sort", "first", "loop", "done"
    stored,      \* the events in the store, in the order of their ids
    asked,       \* the command, as the day it names and the clock it read,
                 \* or <<>> if build() was called by something else
    period,      \* the period asked for, as <<start, end>>, or <<>>
    events,      \* the argument
    filtered,    \* filtered
    sorted,      \* sorted
    i,           \* the event the loop has come to
    current,     \* current_session
    sessions,    \* timeline.sessions
    begins       \* history: where in sorted each closed session begins, and
                 \* then the current one

vars == <<pc, stored, asked, period, events, filtered, sorted, i, current, sessions, begins>>

Event     == [timestamp : Times, source : Apps]
EventList == UNION {[1..n -> Event] : n \in 0..MaxEvents}
Session   == [start_time : Times, end_time : Times, primary_app : Apps,
              events : Seq(Event)]
Period    == {<<>>} \cup (Times \X Times)
Command   == {"today", "yesterday"} \X {now \in Times : now >= Day}

Opening(e) == [start_time |-> e.timestamp, events |-> <<e>>]

TypeOK ==
    /\ pc \in {"start", "query", "filter", "sort", "first", "loop", "done"}
    /\ stored \in EventList
    /\ asked \in {<<>>} \cup Command
    /\ period \in {<<>>} \cup (Nat \X Nat)
    /\ events \in Seq(Event) /\ filtered \in Seq(Event) /\ sorted \in Seq(Event)
    /\ i \in Nat
    /\ current \in [start_time : Times, events : Seq(Event)] \cup {<<>>}
    /\ sessions \in Seq(Session)
    /\ begins \in Seq(Nat)

Init ==
    /\ pc = "start"
    /\ stored \in EventList
    /\ asked = <<>> /\ period = <<>> /\ events = <<>>
    /\ filtered = <<>> /\ sorted = <<>> /\ i = 1 /\ current = <<>> /\ sessions = <<>> /\ begins = <<>>

-----------------------------------------------------------------------------

(* The elements of a sequence at some of its places, in some order.  Which *)
(* of two events of the same second std::sort and ORDER BY put first, they  *)
(* do not say.                                                              *)
Orders(places) ==
    {p \in [1..Cardinality(places) -> places] :
        \A k, l \in DOMAIN p : k # l => p[k] # p[l]}

Picked(es, p) == [k \in DOMAIN p |-> es[p[k]]]

InTimeOrder(es) ==
    \A k, l \in DOMAIN es : k < l => es[k].timestamp <= es[l].timestamp

(* A caller of build() other than the command. *)
Call ==
    /\ pc = "start"
    /\ period' \in Period
    /\ events' = stored
    /\ pc' = "filter"
    /\ UNCHANGED <<stored, asked, filtered, sorted, i, current, sessions, begins>>

(* Mutant of PeriodOf: yesterday ends with the first second of today. *)
PeriodOfMutant(day, now) ==
    LET today_start == (now \div Day) * Day IN
    IF day = "yesterday" THEN <<today_start - Day, today_start>>
    ELSE <<today_start, now>>

PeriodOf(day, now) ==
    LET today_start == (now \div Day) * Day IN
    IF day = "yesterday" THEN <<today_start - Day, today_start - 1>>
    ELSE <<today_start, now>>

(* The command reads the clock, once.  Until the store is queried a daemon *)
(* may go on saving: the store may hold events dated later than that.      *)
CmdTimeline ==
    /\ pc = "start"
    /\ asked' \in Command
    /\ period' = PeriodOf(asked'[1], asked'[2])
    /\ pc' = "query"
    /\ UNCHANGED <<stored, events, filtered, sorted, i, current, sessions, begins>>

(* Mutant of InPeriod: the end of the period is excluded. *)
InPeriodMutant(e) ==
    period = <<>> \/ (period[1] <= e.timestamp /\ e.timestamp < period[2])

InPeriod(e) ==
    period = <<>> \/ (period[1] <= e.timestamp /\ e.timestamp <= period[2])

Kept(es) == {k \in DOMAIN es : InPeriod(es[k])}

(* EventStore::find_by_time_range. *)
FindByTimeRange ==
    /\ pc = "query"
    /\ \E p \in Orders(Kept(stored)) : events' = Picked(stored, p)
    /\ InTimeOrder(events')
    /\ pc' = "filter"
    /\ UNCHANGED <<stored, asked, period, filtered, sorted, i, current, sessions, begins>>

(* The overload with a period keeps the events in it, in their order. *)
Filter ==
    /\ pc = "filter"
    /\ \E p \in Orders(Kept(events)) :
        /\ \A k, l \in DOMAIN p : k < l => p[k] < p[l]
        /\ filtered' = Picked(events, p)
    /\ pc' = "sort"
    /\ UNCHANGED <<stored, asked, period, events, sorted, i, current, sessions, begins>>

(* With no events the timeline is empty. *)
Sort ==
    /\ pc = "sort"
    /\ \E p \in Orders(DOMAIN filtered) : sorted' = Picked(filtered, p)
    /\ InTimeOrder(sorted')
    /\ pc' = IF filtered = <<>> THEN "done" ELSE "first"
    /\ UNCHANGED <<stored, asked, period, events, filtered, i, current, sessions, begins>>

First ==
    /\ pc = "first"
    /\ current' = Opening(sorted[1])
    /\ begins' = <<1>>
    /\ i' = 2
    /\ pc' = "loop"
    /\ UNCHANGED <<stored, asked, period, events, filtered, sorted, sessions>>

(* An application none is more frequent than; which of them, is up to the  *)
(* order of an unordered_map. *)
Frequency(es, a) == Cardinality({k \in DOMAIN es : es[k].source = a})

IsPrimary(es, a) ==
    /\ Frequency(es, a) > 0
    /\ \A b \in Apps : Frequency(es, b) <= Frequency(es, a)

(* Mutant of Close: it ends with the event that begins the next session. *)
CloseMutant(a) ==
    sessions' = Append(sessions,
        [start_time |-> current.start_time,
         end_time |-> sorted[IF i <= Len(sorted) THEN i ELSE i - 1].timestamp,
         primary_app |-> a, events |-> current.events])

(* The current session ends with the event before i. *)
Close(a) ==
    sessions' = Append(sessions,
        [start_time |-> current.start_time, end_time |-> sorted[i - 1].timestamp,
         primary_app |-> a, events |-> current.events])

(* Mutant of GapBefore: a gap equal to the threshold splits as well. *)
GapBeforeMutant(k) == sorted[k].timestamp - sorted[k - 1].timestamp >= gap_threshold

GapBefore(k) == sorted[k].timestamp - sorted[k - 1].timestamp > gap_threshold

(* The loop's body, without a gap ... *)
Continue ==
    /\ pc = "loop" /\ i <= Len(sorted)
    /\ ~GapBefore(i)
    /\ current' = [current EXCEPT !.events = Append(@, sorted[i])]
    /\ i' = i + 1
    /\ UNCHANGED <<pc, stored, asked, period, events, filtered, sorted, sessions, begins>>

(* Mutant of Split: the event that opens the session is not put into it. *)
SplitMutant ==
    /\ pc = "loop" /\ i <= Len(sorted)
    /\ GapBefore(i)
    /\ \E a \in Apps : IsPrimary(current.events, a) /\ Close(a)
    /\ current' = [start_time |-> sorted[i].timestamp, events |-> <<>>]
    /\ begins' = Append(begins, i)
    /\ i' = i + 1
    /\ UNCHANGED <<pc, stored, asked, period, events, filtered, sorted>>

(* ... and with one. *)
Split ==
    /\ pc = "loop" /\ i <= Len(sorted)
    /\ GapBefore(i)
    /\ \E a \in Apps : IsPrimary(current.events, a) /\ Close(a)
    /\ current' = Opening(sorted[i])
    /\ begins' = Append(begins, i)
    /\ i' = i + 1
    /\ UNCHANGED <<pc, stored, asked, period, events, filtered, sorted>>

Last ==
    /\ pc = "loop" /\ i > Len(sorted)
    /\ \E a \in Apps : IsPrimary(current.events, a) /\ Close(a)
    /\ begins' = Append(begins, i)
    /\ pc' = "done"
    /\ UNCHANGED <<stored, asked, period, events, filtered, sorted, i, current>>

Next ==
    \/ Call \/ CmdTimeline \/ FindByTimeRange
    \/ Filter \/ Sort \/ First \/ Continue \/ Split \/ Last

Spec == Init /\ [][Next]_vars

-----------------------------------------------------------------------------

(* The sessions, one after the other, are the sorted events: each event of *)
(* the period is in one session, once.  Session k runs from begins[k] to   *)
(* just before begins[k + 1].                                              *)
SessionsCover ==
    pc = "done" /\ sorted # <<>> =>
        /\ Len(begins) = Len(sessions) + 1
        /\ begins[1] = 1 /\ begins[Len(begins)] = Len(sorted) + 1
        /\ \A k \in DOMAIN sessions :
            /\ begins[k] < begins[k + 1]
            /\ sessions[k].events = SubSeq(sorted, begins[k], begins[k + 1] - 1)

(* A session is an uninterrupted stretch of activity, and as long a one as *)
(* there is: no gap in it is above the threshold, and the ones before and  *)
(* after it are.                                                           *)
SessionsAreMaximal ==
    pc = "done" =>
        /\ \A k \in DOMAIN sessions : \A n \in 2..Len(sessions[k].events) :
               sessions[k].events[n].timestamp
                   <= sessions[k].events[n - 1].timestamp + gap_threshold
        /\ \A k \in 2..Len(sessions) :
               sessions[k].start_time > sessions[k - 1].end_time + gap_threshold

(* start_time and end_time are those of a session's first and last event,  *)
(* so that duration() cannot wrap round; and they lie in the period.       *)
TimesAreThoseOfEvents ==
    \A k \in DOMAIN sessions :
        LET s == sessions[k] IN
        /\ s.events # <<>>
        /\ s.start_time = s.events[1].timestamp
        /\ s.end_time = s.events[Len(s.events)].timestamp
        /\ s.start_time <= s.end_time
        /\ period # <<>> => period[1] <= s.start_time /\ s.end_time <= period[2]

(* How often an event is in the timeline. *)
Shown(e) ==
    Cardinality({at \in (DOMAIN sessions) \X (1..MaxEvents) :
                    LET es == sessions[at[1]].events IN
                    at[2] \in DOMAIN es /\ es[at[2]] = e})

(* Each event is in the timeline as often as it was in the argument, if it *)
(* lies in the period or none was asked for, and else not at all.          *)
EachEventOnce ==
    pc = "done" =>
        \A e \in Event :
            Shown(e) = Cardinality({k \in DOMAIN events :
                            /\ events[k] = e
                            /\ period # <<>> => e.timestamp \in period[1]..period[2]})

(* The command shows all the events there are of the calendar day it was   *)
(* asked for, up to the moment it was asked, and those of no other day.    *)
TimelineOfTheDay ==
    pc = "done" /\ asked # <<>> =>
        \A e \in Event :
            LET days_ago == asked[2] \div Day - e.timestamp \div Day
                meant    == /\ days_ago = (IF asked[1] = "yesterday" THEN 1 ELSE 0)
                            /\ e.timestamp <= asked[2]
            IN  Shown(e) = IF meant THEN Cardinality({k \in DOMAIN stored : stored[k] = e})
                                    ELSE 0

=============================================================================
