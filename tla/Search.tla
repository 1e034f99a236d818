-------------------------------- MODULE Search --------------------------------
(***************************************************************************)
(* The search: InvertedIndex, QueryPlanner and QueryExecutor over a store. *)
(* Threads save events and add them to the index; the store and the index  *)
(* can be cleared, each by itself; an executor runs a query beside them.   *)
(* Each call on the index or on the store is atomic (it holds their        *)
(* mutex); the executor makes several, and the others go on between them.  *)
(***************************************************************************)
EXTENDS Naturals, FiniteSets

CONSTANTS
    Writers,        \* threads that save and index
    Events,         \* contents that events may have
    MaxId,          \* bound on the ids the store gives
    MaxTime,        \* bound on the timestamps
    Hour,           \* length of a bucket: 3600
    Words,          \* keywords
    Apps,           \* names of applications: the last part of a source
    Within,         \* <<v, w>> \in Within: v is a substring of w
    Types,
    Stamp, Keywords, App, Type,  \* what each event has; no App if it has no source
    Limit           \* how many recent events an empty query returns: 100

Times == 0..MaxTime

ASSUME EventAssumption ==
    /\ Stamp \in [Events -> Times] /\ Keywords \in [Events -> SUBSET Words]
    /\ App \in [Events -> SUBSET Apps] /\ Type \in [Events -> Types]
ASSUME WithinAssumption ==
    Within \subseteq (Words \X Words) \cup (Apps \X Apps)
ASSUME ReflexiveAssumption ==
    \A w \in Words \cup Apps : <<w, w>> \in Within
ASSUME NumbersAssumption ==
    MaxId \in Nat /\ MaxTime \in Nat /\ Hour \in Nat \ {0} /\ Limit \in Nat

VARIABLES
    rows,           \* the store: ids to events
    last_id,
    keyword_index, time_index, app_index, all_events,  \* InvertedIndex
    pending,        \* the id each writer has saved and not yet added, or 0
    pc,             \* where the executor is
    spec,           \* QuerySpec: the query, parsed
    todo_words,     \* keywords still to look up
    kw_ids,         \* what they have given so far
    candidates,     \* candidate_sets
    clock,          \* the time n the query has read from the clock, if it has
    todo_ids,       \* final_ids still to fetch
    results,        \* ids of the results
    stored_as,      \* history: the event each id was given for
    settled         \* history: ids stored and indexed since the query began

store_vars == <<rows, last_id, stored_as>>
index_vars == <<keyword_index, time_index, app_index, all_events>>
query_vars == <<pc, spec, todo_words, kw_ids, candidates, clock, todo_ids, results>>
vars == <<store_vars, index_vars, query_vars, pending, settled>>

Ids == 1..MaxId

(* Absent parts of a query are the empty set; a time range is one pair.    *)
(* The parser has no way to ask for an application; a caller of execute()  *)
(* has.                                                                    *)
Specs ==
    [keywords : SUBSET Words,
     time     : {{}} \cup {{t} : t \in {r \in Times \X Times : r[1] <= r[2]}},
     type     : {{}} \cup {{t} : t \in Types},
     app      : {{}} \cup {{a} : a \in Apps}]
NoSpec == [keywords |-> {}, time |-> {}, type |-> {}, app |-> {}]

Places == {"idle", "words", "time", "app", "intersect", "recent", "fetch", "done"}

Indexes(domain) == [domain -> SUBSET Ids]

TypeOK ==
    /\ \E ids \in SUBSET (1..last_id) : rows \in [ids -> Events]
    /\ last_id \in 0..MaxId
    /\ stored_as \in [1..last_id -> Events]
    /\ keyword_index \in Indexes(Words)
    /\ time_index \in Indexes(0..(MaxTime \div Hour))
    /\ app_index \in Indexes(Apps)
    /\ all_events \subseteq 1..last_id
    /\ pending \in [Writers -> 0..last_id]
    /\ pc \in Places /\ spec \in Specs
    /\ todo_words \subseteq Words
    /\ candidates \subseteq SUBSET Ids
    /\ clock \in {{}} \cup {{n} : n \in Times}
    /\ kw_ids \subseteq Ids /\ todo_ids \subseteq Ids /\ results \subseteq Ids
    /\ settled \subseteq Ids

Init ==
    /\ rows = <<>> /\ last_id = 0 /\ stored_as = <<>>
    /\ keyword_index = [w \in Words |-> {}]
    /\ time_index = [b \in 0..(MaxTime \div Hour) |-> {}]
    /\ app_index = [a \in Apps |-> {}]
    /\ all_events = {}
    /\ pending = [t \in Writers |-> 0]
    /\ pc = "idle" /\ spec = NoSpec
    /\ todo_words = {} /\ kw_ids = {} /\ candidates = {} /\ clock = {}
    /\ todo_ids = {} /\ results = {}
    /\ settled = {}

-----------------------------------------------------------------------------
(* The writers.                                                            *)

Stored == DOMAIN rows

(* save(), with AUTOINCREMENT ids. *)
Save(t, e) ==
    /\ pending[t] = 0
    /\ last_id < MaxId
    /\ last_id' = last_id + 1
    /\ rows' = [id \in Stored \cup {last_id'} |->
                  IF id = last_id' THEN e ELSE rows[id]]
    /\ stored_as' = [id \in 1..last_id' |->
                       IF id = last_id' THEN e ELSE stored_as[id]]
    /\ pending' = [pending EXCEPT ![t] = last_id']
    /\ UNCHANGED <<index_vars, query_vars, settled>>

Bucket(time) == time \div Hour

(* add() *)
Add(t) ==
    LET id == pending[t]   e == stored_as[id] IN
    /\ id # 0
    /\ all_events' = all_events \cup {id}
    /\ keyword_index' = [w \in Words |->
         IF w \in Keywords[e] THEN keyword_index[w] \cup {id} ELSE keyword_index[w]]
    /\ time_index' = [time_index EXCEPT ![Bucket(Stamp[e])] = @ \cup {id}]
    /\ app_index' = [a \in Apps |->
         IF a \in App[e] THEN app_index[a] \cup {id} ELSE app_index[a]]
    /\ pending' = [pending EXCEPT ![t] = 0]
    /\ UNCHANGED <<store_vars, query_vars, settled>>

(* EventStore::clear(); it leaves the index as it is. *)
ClearStore ==
    /\ Stored # {}
    /\ rows' = <<>>
    /\ settled' = {}
    /\ UNCHANGED <<last_id, stored_as, index_vars, query_vars, pending>>

(* InvertedIndex::clear() *)
ClearIndex ==
    /\ all_events # {}
    /\ keyword_index' = [w \in Words |-> {}]
    /\ time_index' = [b \in DOMAIN time_index |-> {}]
    /\ app_index' = [a \in Apps |-> {}]
    /\ all_events' = {}
    /\ settled' = {}
    /\ UNCHANGED <<store_vars, query_vars, pending>>

-----------------------------------------------------------------------------
(* The executor: QueryPlanner::plan, then execute().  The sets are looked  *)
(* up in this order, those of the parts the query has.                     *)

Start(s) ==
    /\ pc = "idle"
    /\ spec' = s
    /\ todo_words' = s.keywords
    /\ pc' = "words"
    /\ settled' = all_events \cap Stored
    /\ UNCHANGED <<store_vars, index_vars, pending, kw_ids, candidates, clock,
                   todo_ids, results>>

(* search_keyword(): the words that contain the keyword. *)
SearchKeyword(word) ==
    UNION {keyword_index[w] : w \in {v \in Words : <<word, v>> \in Within}}

LookUpWord(word) ==
    /\ pc = "words" /\ word \in todo_words
    /\ todo_words' = todo_words \ {word}
    /\ kw_ids' = kw_ids \cup SearchKeyword(word)
    /\ UNCHANGED <<store_vars, index_vars, pending, settled, pc, spec, candidates,
                   clock, todo_ids, results>>

WordsDone ==
    /\ pc = "words" /\ todo_words = {}
    /\ candidates' = IF spec.keywords = {} THEN {} ELSE {kw_ids}
    /\ pc' = "time"
    /\ UNCHANGED <<store_vars, index_vars, pending, settled, spec, todo_words, kw_ids,
                   clock, todo_ids, results>>

(* Mutant of SearchTimeRange: the last bucket is left out. *)
SearchTimeRangeMutant(start, end) ==
    UNION {time_index[b] : b \in {a \in DOMAIN time_index :
                                    Bucket(start) <= a /\ a < Bucket(end)}}

(* search_time_range() *)
SearchTimeRange(start, end) ==
    UNION {time_index[b] : b \in {a \in DOMAIN time_index :
                                    Bucket(start) <= a /\ a <= Bucket(end)}}

LookUpTime ==
    /\ pc = "time"
    /\ candidates' = candidates \cup {SearchTimeRange(t[1], t[2]) : t \in spec.time}
    /\ pc' = "app"
    /\ UNCHANGED <<store_vars, index_vars, pending, settled, spec, todo_words, kw_ids,
                   clock, todo_ids, results>>

(* search_application(): the applications whose names contain the one asked *)
(* for ("chrome" is in "chrome.exe").                                      *)
SearchApplication(name) ==
    UNION {app_index[a] : a \in {b \in Apps : <<name, b>> \in Within}}

LookUpApp ==
    /\ pc = "app"
    /\ candidates' = candidates \cup {SearchApplication(name) : name \in spec.app}
    /\ pc' = "intersect"
    /\ UNCHANGED <<store_vars, index_vars, pending, settled, spec, todo_words, kw_ids,
                   clock, todo_ids, results>>

Common(sets) == {id \in UNION sets : \A s \in sets : id \in s}

NoPlan == spec.keywords = {} /\ spec.time = {} /\ spec.app = {}

Intersect ==
    /\ pc = "intersect"
    /\ ~NoPlan
    /\ todo_ids' = Common(candidates)
    /\ pc' = "fetch"
    /\ UNCHANGED <<store_vars, index_vars, pending, settled, spec, todo_words, kw_ids,
                   candidates, clock, results>>

OfType(e) == \A t \in spec.type : Type[e] = t

(* No index is asked: the events of the type. *)
FindByType ==
    /\ pc = "intersect"
    /\ NoPlan /\ spec.type # {}
    /\ results' = {id \in Stored : OfType(rows[id])}
    /\ pc' = "done"
    /\ UNCHANGED <<store_vars, index_vars, pending, settled, spec, todo_words, kw_ids,
                   candidates, clock, todo_ids>>

(* There is no filter at all; now_epoch() is called. *)
ReadClock ==
    /\ pc = "intersect"
    /\ NoPlan /\ spec.type = {}
    /\ \E n \in Times : clock' = {n}
    /\ pc' = "recent"
    /\ UNCHANGED <<store_vars, index_vars, pending, settled, spec, todo_words, kw_ids,
                   candidates, todo_ids, results>>

NotLater(e) == \A n \in clock : Stamp[e] <= n

(* find_by_time_range(0, n), and the Limit most recent of what it gives.   *)
(* The clock was read before: what is dated later is left out.             *)
FindRecent ==
    /\ pc = "recent"
    /\ LET found == {id \in Stored : NotLater(rows[id])} IN
       \E recent \in SUBSET found :
           /\ Cardinality(recent) = Limit \/ (recent = found /\ Cardinality(found) <= Limit)
           /\ \A id \in recent, out \in found \ recent :
                  Stamp[rows[id]] >= Stamp[rows[out]]
           /\ results' = recent
    /\ pc' = "done"
    /\ UNCHANGED <<store_vars, index_vars, pending, settled, spec, todo_words, kw_ids,
                   candidates, clock, todo_ids>>

(* Mutant of Keep: the type is left to the indexes. *)
KeepMutant(id) == id \in Stored

(* find_by_id() finds the row, and it is of the type asked for. *)
Keep(id) == id \in Stored /\ OfType(rows[id])

Fetch(id) ==
    /\ pc = "fetch" /\ id \in todo_ids
    /\ todo_ids' = todo_ids \ {id}
    /\ results' = IF Keep(id) THEN results \cup {id} ELSE results
    /\ UNCHANGED <<store_vars, index_vars, pending, settled, pc, spec, todo_words,
                   kw_ids, candidates, clock>>

Finish ==
    /\ pc = "fetch" /\ todo_ids = {}
    /\ pc' = "done"
    /\ UNCHANGED <<store_vars, index_vars, pending, settled, spec, todo_words, kw_ids,
                   candidates, clock, todo_ids, results>>

(* The caller takes the results. *)
Return ==
    /\ pc = "done"
    /\ pc' = "idle" /\ spec' = NoSpec
    /\ kw_ids' = {} /\ candidates' = {} /\ clock' = {} /\ results' = {} /\ settled' = {}
    /\ UNCHANGED <<store_vars, index_vars, pending, todo_words, todo_ids>>

-----------------------------------------------------------------------------

Execute ==
    \/ \E word \in Words : LookUpWord(word)
    \/ WordsDone \/ LookUpTime \/ LookUpApp \/ Intersect
    \/ FindByType \/ ReadClock \/ FindRecent
    \/ \E id \in Ids : Fetch(id)
    \/ Finish

Next ==
    \/ \E t \in Writers : (\E e \in Events : Save(t, e)) \/ Add(t)
    \/ ClearStore \/ ClearIndex
    \/ \E s \in Specs : Start(s)
    \/ Execute \/ Return

Spec == Init /\ [][Next]_vars

-----------------------------------------------------------------------------
(* What a query asks for, from the events alone.                           *)

HasKeyword(e) ==
    spec.keywords = {} \/ \E v \in spec.keywords, w \in Keywords[e] : <<v, w>> \in Within
InHours(e) ==
    \A t \in spec.time : Bucket(t[1]) <= Bucket(Stamp[e]) /\ Bucket(Stamp[e]) <= Bucket(t[2])
OfApp(e) == \A name \in spec.app : \E a \in App[e] : <<name, a>> \in Within

Matches(e) == HasKeyword(e) /\ InHours(e) /\ OfApp(e) /\ OfType(e) /\ NotLater(e)

(* Whatever is saved, indexed or cleared while a query runs, each result   *)
(* is an event that was stored under its id and meets every part of the    *)
(* query, words and applications by a part of them and the time to the     *)
(* hour; a query without any part gives nothing later than the clock.      *)
ResultsMatch == \A id \in results : Matches(stored_as[id])

(* No event is missed that meets the query and was stored and indexed when *)
(* it began, unless it has been cleared since - although the indexes are   *)
(* read one by one - but for the older ones that the limit cuts off.  (An  *)
(* event dated later than the clock, as the demo makes some, meets every   *)
(* query but the one without any part.)                                    *)
ResultsComplete ==
    pc = "done" =>
        \A id \in settled : Matches(stored_as[id]) =>
            \/ id \in results
            \/ /\ NoPlan /\ spec.type = {}
               /\ Cardinality(results) = Limit
               /\ \A r \in results : Stamp[stored_as[r]] >= Stamp[stored_as[id]]

=============================================================================
