-------------------------- MODULE BrowserCollector --------------------------
(***************************************************************************)
(* BrowserCollector: Chrome writes visits into its History file; a thread  *)
(* of the collector copies the file every few seconds and emits the visits *)
(* later than a watermark, which then moves on to the latest one emitted.  *)
(* Chrome commits a visit some time after it was made, and a visit that is *)
(* synchronized from another device may be older than ones already there;  *)
(* and nothing keeps two visits from having the same time.                 *)
(*                                                                         *)
(* Times are microseconds, in one epoch: the two conversions between       *)
(* Chrome's and Unix's differ by a constant; what they do to a time is to  *)
(* cut it to the second.                                                   *)
(***************************************************************************)
EXTENDS CollectorBase, FiniteSets, FiniteSetsExt

CONSTANTS
    Visits,      \* the rows of the visits table, in the end
    Second,      \* microseconds in a second
    MaxNow       \* bound on the clock

ASSUME VisitsAssumption == IsFiniteSet(Visits)
ASSUME SecondAssumption == Second \in Nat \ {0}
ASSUME ClockAssumption  == MaxNow \in Nat \ {0}

VARIABLES
    now,         \* the clock
    when,        \* visit_time of each visit in Chrome's file, or 0
    watermark,   \* last_visit_time_
    max_seen,    \* max_time_seen
    copy,        \* the visits in the copy that the query has still to return
    began,       \* history: the clock at the last start()
    emitted,     \* history: visits emitted since then
    copied,      \* history: the time of the latest visit in a copy since then
    late,        \* history: visits that came when a copy had one as late or later
    torn         \* history: visits cut off from one of the same microsecond

env_vars == <<now, when, late>>
history  == <<began, emitted, copied, torn>>
vars == <<base_vars, env_vars, history, watermark, max_seen, copy>>

TypeOK ==
    /\ now \in 1..MaxNow
    /\ when \in [Visits -> 0..now]
    /\ running \in BOOLEAN /\ owner \in {"idle", "joining"}
    /\ thread \in {"none", "poll", "read", "sleep", "ended"}
    /\ watermark \in 0..now /\ max_seen \in 0..now
    /\ copy \subseteq Visits
    /\ starts \in 0..MaxStarts /\ began \in 0..now
    /\ emitted \subseteq Visits
    /\ copied \in 0..now /\ late \subseteq Visits /\ torn \subseteq Visits

Init ==
    /\ now = 1
    /\ when = [v \in Visits |-> 0]
    /\ NotStarted
    /\ watermark = 0 /\ max_seen = 0 /\ copy = {}
    /\ began = 0 /\ emitted = {} /\ copied = 0 /\ late = {} /\ torn = {}

-----------------------------------------------------------------------------
(* The clock, and Chrome.                                                  *)

Tick ==
    /\ now < MaxNow
    /\ now' = now + 1
    /\ UNCHANGED <<base_vars, when, late, history, watermark, max_seen, copy>>

InFile == {v \in Visits : when[v] # 0}

(* A visit becomes visible.  Others may be of the same microsecond. *)
Visit(v, t) ==
    /\ v \notin InFile
    /\ t <= now
    /\ when' = [when EXCEPT ![v] = t]
    /\ late' = IF t <= copied THEN late \cup {v} ELSE late
    /\ UNCHANGED <<base_vars, now, history, watermark, max_seen, copy>>

-----------------------------------------------------------------------------
(* start() and stop().                                                     *)

(* get_chrome_timestamp() of the clock's seconds. *)
CutToSecond(t) == (t \div Second) * Second

Start ==
    /\ MakeThread("poll")
    /\ watermark' = CutToSecond(now)
    /\ began' = now
    /\ emitted' = {}
    /\ copied' = 0 /\ late' = {} /\ torn' = {}
    /\ UNCHANGED <<now, when, max_seen, copy>>

(* Mutant of Stop: running_ is read, not exchanged. *)
StopMutant ==
    /\ owner = "idle" /\ running
    /\ owner' = "joining"
    /\ UNCHANGED <<env_vars, history, running, thread, watermark, max_seen, copy, starts>>

Stop ==
    /\ CallStop("joining")
    /\ UNCHANGED <<env_vars, history, watermark, max_seen, copy>>

Join ==
    /\ JoinThread({"ended"})
    /\ UNCHANGED <<env_vars, history, watermark, max_seen, copy>>

-----------------------------------------------------------------------------
(* poll_loop() and process_history().                                      *)

(* Mutant of Later: the watermark itself is included. *)
LaterMutant(v) == when[v] >= watermark

Later(v) == when[v] > watermark

(* The file is copied, and the query prepared on the copy. *)
Copy ==
    /\ thread = "poll" /\ running
    /\ copy' = {v \in InFile : Later(v)}
    /\ copied' = Max({copied} \cup {when[v] : v \in InFile})
    /\ max_seen' = watermark
    /\ thread' = "read"
    /\ UNCHANGED <<env_vars, began, emitted, torn, running, owner, watermark,
                   starts>>

(* There is no file, or it cannot be copied, opened or queried. *)
CopyFails ==
    /\ thread = "poll" /\ running
    /\ thread' = "sleep"
    /\ UNCHANGED <<env_vars, history, running, owner, watermark, max_seen, copy, starts>>

(* Mutant of Earliest: no ORDER BY. *)
EarliestMutant(v) == TRUE

(* ORDER BY visit_time ASC *)
Earliest(v) == \A u \in copy : when[v] <= when[u]

(* The next row; its event is emitted whether or not running_ is still set. *)
Emit ==
    /\ thread = "read"
    /\ \E v \in copy :
        /\ Earliest(v)
        /\ copy' = copy \ {v}
        /\ max_seen' = Max({max_seen, when[v]})
        /\ emitted' = emitted \cup {v}
    /\ UNCHANGED <<env_vars, began, copied, torn, running, owner, thread,
                   watermark, starts>>

(* Mutant of Advance: the watermark is what the clock says. *)
AdvanceMutant == watermark' = now

Advance == watermark' = max_seen

(* No more rows. *)
EndOfRows ==
    /\ thread = "read" /\ copy = {}
    /\ Advance
    /\ thread' = "sleep"
    /\ UNCHANGED <<env_vars, history, running, owner, max_seen, copy, starts>>

(* sqlite3_step fails, say on a copy made in the middle of a write: that   *)
(* looks like the end.  The rows cut off are asked for again, except those *)
(* of the very time of the last row emitted, which is not below the new    *)
(* watermark.                                                              *)
CutShort ==
    /\ thread = "read" /\ copy # {}
    /\ Advance
    /\ copy' = {}
    /\ torn' = torn \cup {v \in copy : when[v] = max_seen}
    /\ thread' = "sleep"
    /\ UNCHANGED <<env_vars, began, emitted, copied, running, owner, max_seen, starts>>

Wake ==
    /\ thread = "sleep" /\ running
    /\ thread' = "poll"
    /\ UNCHANGED <<env_vars, history, running, owner, watermark, max_seen, copy, starts>>

EndThread ==
    /\ thread \in {"poll", "sleep"} /\ ~running
    /\ thread' = "ended"
    /\ UNCHANGED <<env_vars, history, running, owner, watermark, max_seen, copy, starts>>

-----------------------------------------------------------------------------

ThreadStep == Copy \/ CopyFails \/ Emit \/ EndOfRows \/ CutShort \/ Wake \/ EndThread

Next ==
    \/ Tick
    \/ \E v \in Visits, t \in 1..MaxNow : Visit(v, t)
    \/ Start \/ Stop \/ Join
    \/ ThreadStep

Spec == Init /\ [][Next]_vars

(* The thread goes on, and a copy, or a row, that can be read time and     *)
(* again is read in the end.                                               *)
Fairness ==
    WF_vars(ThreadStep) /\ SF_vars(Copy) /\ SF_vars(Emit) /\ WF_vars(Join)

FairSpec == Spec /\ Fairness

-----------------------------------------------------------------------------

SecondOfStart == (began \div Second) * Second

(* The watermark passes no visit that has not been emitted but those two   *)
(* ways of losing one that the code has: the visit came late, when a copy  *)
(* had one as late or later, or a copy was cut off between it and one of   *)
(* its own microsecond.  Both are lost, as the query asks for what is      *)
(* later than the watermark; no other failure makes one be missed, wherever *)
(* it comes.                                                               *)
WatermarkCoversEmitted ==
    running =>
        \A v \in InFile :
            SecondOfStart < when[v] /\ when[v] <= watermark
                => v \in emitted \cup late \cup torn

(* No visit is emitted twice between a start() and its stop(), whatever    *)
(* part of a batch was cut off, and none that was made before the second   *)
(* of the start.  (One of that very second may be: a collector restarted   *)
(* within a second of a visit emits it again.)                             *)
EmitsOnlyNew ==
    thread = "read" =>
        /\ copy \cap emitted = {}
        /\ \A v \in copy : when[v] > SecondOfStart

(* A visit is emitted in the end, unless it is lost in one of those two    *)
(* ways or the collector is stopped first.                                 *)
EventuallyEmitted ==
    \A v \in Visits :
        running /\ v \in InFile /\ when[v] > SecondOfStart
            ~> v \in emitted \cup late \cup torn \/ ~running

(* stop() returns, when the batch the thread is in has been emitted. *)
StopReturns == owner = "joining" ~> owner = "idle"

=============================================================================
