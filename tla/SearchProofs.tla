---------------------------- MODULE SearchProofs ----------------------------
(***************************************************************************)
(* Theorems about Search, for any writers, events and queries, any number  *)
(* of ids, any length of a bucket and any limit; and about QueryParser,    *)
(* which makes the query the executor runs out of a text.                  *)
(***************************************************************************)
EXTENDS Search, QueryParser, FiniteSetTheorems, TLAPS

Given == 1..last_id

(* The maps of the index agree on what is in it, and say of each event     *)
(* what it was saved as; so does the store.                                *)
IndexInv ==
    /\ all_events \subseteq Given
    /\ \A id \in Stored : id \in Given /\ rows[id] = stored_as[id]
    /\ keyword_index =
         [w \in Words |-> {id \in all_events : w \in Keywords[stored_as[id]]}]
    /\ time_index =
         [b \in 0..(MaxTime \div Hour) |->
            {id \in all_events : Bucket(Stamp[stored_as[id]]) = b}]
    /\ app_index = [a \in Apps |-> {id \in all_events : a \in App[stored_as[id]]}]

SaidOf(e, v) == \E w \in Keywords[e] : <<v, w>> \in Within

(* The words looked up so far.                                             *)
WordsInv ==
    pc = "words" =>
        /\ todo_words \subseteq spec.keywords /\ candidates = {}
        /\ kw_ids \subseteq Given
        /\ \A id \in kw_ids :
             \E v \in spec.keywords \ todo_words : SaidOf(stored_as[id], v)
        /\ \A id \in settled : \A v \in spec.keywords \ todo_words :
             SaidOf(stored_as[id], v) => id \in kw_ids

(* What has been asked the indexes so far, and what they have given.       *)
Asked ==
    \/ spec.keywords # {}
    \/ pc # "time" /\ spec.time # {}
    \/ pc = "intersect" /\ spec.app # {}

MatchesSoFar(e) ==
    HasKeyword(e) /\ (pc # "time" => InHours(e)) /\ (pc = "intersect" => OfApp(e))

CandidatesInv ==
    pc \in {"time", "app", "intersect"} =>
        /\ UNION candidates \subseteq Given
        /\ Asked <=> candidates # {}
        /\ \A id \in Common(candidates) : MatchesSoFar(stored_as[id])
        /\ \A id \in settled : Matches(stored_as[id]) => \A s \in candidates : id \in s

FetchInv ==
    pc = "fetch" =>
        /\ todo_ids \subseteq Given
        /\ \A id \in todo_ids :
             LET e == stored_as[id] IN HasKeyword(e) /\ InHours(e) /\ OfApp(e)
        /\ \A id \in settled : Matches(stored_as[id]) => id \in todo_ids \cup results

(* Of what is settled the store and the index know; nothing is a result    *)
(* that does not match; a query begins with nothing left of the last one,  *)
(* and only one without any part reads the clock.                          *)
RestInv ==
    /\ settled \subseteq Stored \cap all_events
    /\ results \subseteq Given /\ \A id \in results : Matches(stored_as[id])
    /\ pc \notin {"fetch", "done"} => results = {}
    /\ pc \notin {"recent", "done"} => clock = {}
    /\ pc = "recent" => NoPlan /\ spec.type = {}
    /\ pc = "idle" => kw_ids = {} /\ candidates = {}

QueryInv == WordsInv /\ CandidatesInv /\ FetchInv /\ RestInv /\ ResultsComplete

(* The types the proof needs.                                              *)
Typed ==
    /\ last_id \in Nat
    /\ stored_as \in [1..last_id -> Events]
    /\ pending \in [Writers -> 0..last_id]
    /\ pc \in Places /\ spec \in Specs

SearchInv == Typed /\ IndexInv /\ QueryInv

-----------------------------------------------------------------------------
(* What the calls on the index find.                                       *)

LEMMA GivenEvents ==
  ASSUME Typed, NEW id \in Given
  PROVE  /\ stored_as[id] \in Events
         /\ Stamp[stored_as[id]] \in Times /\ Keywords[stored_as[id]] \subseteq Words
         /\ App[stored_as[id]] \subseteq Apps
<1>1. stored_as[id] \in Events
  BY DEF Typed, Given
<1>2. QED
  BY <1>1, EventAssumption

LEMMA BucketsInRange ==
  ASSUME NEW time \in Times
  PROVE  Bucket(time) \in 0..(MaxTime \div Hour)
<1>1. time \in Nat /\ time <= MaxTime /\ MaxTime \in Nat /\ Hour \in Nat \ {0}
  BY NumbersAssumption DEF Times
<1> DEFINE q == time \div Hour
           m == MaxTime \div Hour
<1>2. /\ q \in Nat /\ Hour * q <= time /\ time < Hour * q + Hour
      /\ m \in Nat /\ Hour * m <= MaxTime /\ MaxTime < Hour * m + Hour
  BY <1>1
<1> HIDE DEF q, m
<1>3. ASSUME q > m PROVE FALSE
  <2>1. q >= m + 1
    BY <1>2, <1>3
  <2>2. Hour * q >= Hour * (m + 1)
    BY <1>1, <1>2, <2>1
  <2>3. Hour * (m + 1) = Hour * m + Hour
    BY <1>1, <1>2
  <2>4. Hour * q \in Nat /\ Hour * m \in Nat
    BY <1>1, <1>2
  <2>5. QED
    BY <1>1, <1>2, <2>2, <2>3, <2>4
<1>4. QED
  BY <1>2, <1>3 DEF Bucket, q, m

LEMMA KeywordFinds ==
  ASSUME Typed, IndexInv, NEW word, NEW id
  PROVE  id \in SearchKeyword(word) <=> id \in all_events /\ SaidOf(stored_as[id], word)
<1>1. \A w \in Words : keyword_index[w] = {i \in all_events : w \in Keywords[stored_as[i]]}
  BY DEF IndexInv
<1>2. id \in all_events => Keywords[stored_as[id]] \subseteq Words
  BY GivenEvents DEF IndexInv
<1>3. id \in SearchKeyword(word)
        <=> \E w \in Words : <<word, w>> \in Within /\ id \in keyword_index[w]
  BY DEF SearchKeyword
<1>4. QED
  BY <1>1, <1>2, <1>3 DEF SaidOf

LEMMA TimeFinds ==
  ASSUME Typed, IndexInv, NEW start, NEW end, NEW id
  PROVE  id \in SearchTimeRange(start, end) <=>
           /\ id \in all_events
           /\ Bucket(start) <= Bucket(Stamp[stored_as[id]])
           /\ Bucket(Stamp[stored_as[id]]) <= Bucket(end)
<1> DEFINE Buckets == 0..(MaxTime \div Hour)
<1>1. /\ DOMAIN time_index = Buckets
      /\ \A b \in Buckets :
           time_index[b] = {i \in all_events : Bucket(Stamp[stored_as[i]]) = b}
  BY DEF IndexInv
<1>2. id \in all_events => Bucket(Stamp[stored_as[id]]) \in Buckets
  BY GivenEvents, BucketsInRange DEF IndexInv
<1> HIDE DEF Buckets
<1>3. id \in SearchTimeRange(start, end)
        <=> \E b \in Buckets :
              Bucket(start) <= b /\ b <= Bucket(end) /\ id \in time_index[b]
  BY <1>1 DEF SearchTimeRange
<1>4. QED
  BY <1>1, <1>2, <1>3

LEMMA AppFinds ==
  ASSUME Typed, IndexInv, NEW name, NEW id
  PROVE  id \in SearchApplication(name) <=>
           /\ id \in all_events
           /\ \E a \in App[stored_as[id]] : <<name, a>> \in Within
<1>1. \A a \in Apps : app_index[a] = {i \in all_events : a \in App[stored_as[i]]}
  BY DEF IndexInv
<1>2. id \in all_events => App[stored_as[id]] \subseteq Apps
  BY GivenEvents DEF IndexInv
<1>3. id \in SearchApplication(name)
        <=> \E a \in Apps : <<name, a>> \in Within /\ id \in app_index[a]
  BY DEF SearchApplication
<1>4. QED
  BY <1>1, <1>2, <1>3

-----------------------------------------------------------------------------
(* Steps of the writers, and clears.                                       *)

LEMMA QueryGoesOn ==
  ASSUME SearchInv, UNCHANGED query_vars,
         last_id' \in Nat, last_id <= last_id',
         \A id \in Given : stored_as'[id] = stored_as[id],
         settled' \subseteq settled, settled' \subseteq Stored' \cap all_events'
  PROVE  QueryInv'
<1>1. /\ pc' = pc /\ spec' = spec /\ todo_words' = todo_words /\ kw_ids' = kw_ids
      /\ candidates' = candidates /\ todo_ids' = todo_ids /\ results' = results
      /\ clock' = clock
  BY DEF query_vars
<1>2. Given \subseteq Given' /\ settled \subseteq Given
  BY DEF Given, SearchInv, Typed, QueryInv, RestInv, IndexInv
<1>3. \A id \in Given : stored_as[id]' = stored_as[id]
  OBVIOUS
<1>4. WordsInv'
  BY <1>1, <1>2, <1>3 DEF SearchInv, QueryInv, WordsInv, SaidOf
<1>5. \A id \in Given :
        /\ Matches(stored_as[id])' <=> Matches(stored_as[id])
        /\ MatchesSoFar(stored_as[id])' <=> MatchesSoFar(stored_as[id])
        /\ HasKeyword(stored_as[id])' <=> HasKeyword(stored_as[id])
        /\ InHours(stored_as[id])' <=> InHours(stored_as[id])
        /\ OfApp(stored_as[id])' <=> OfApp(stored_as[id])
  BY <1>1, <1>3 DEF Matches, MatchesSoFar, HasKeyword, InHours, OfApp, OfType,
                     NotLater
<1>6. CandidatesInv'
  <2>1. Common(candidates)' = Common(candidates) /\ (Asked' <=> Asked)
    BY <1>1 DEF Common, Asked
  <2>2. Common(candidates) \subseteq UNION candidates
    BY DEF Common
  <2>3. QED
    BY <1>1, <1>2, <1>5, <2>1, <2>2 DEF SearchInv, QueryInv, CandidatesInv
<1>7. FetchInv'
  BY <1>1, <1>2, <1>5 DEF SearchInv, QueryInv, FetchInv
<1>8. RestInv'
  BY <1>1, <1>2, <1>5 DEF SearchInv, QueryInv, RestInv, NoPlan
<1>9. ResultsComplete'
  <2>1. results \subseteq Given
    BY DEF SearchInv, QueryInv, RestInv
  <2>2. NoPlan' <=> NoPlan
    BY <1>1 DEF NoPlan
  <2>3. QED
    BY <1>1, <1>2, <1>3, <1>5, <2>1, <2>2 DEF SearchInv, QueryInv, ResultsComplete
<1>10. QED
  BY <1>4, <1>6, <1>7, <1>8, <1>9 DEF QueryInv

LEMMA SaveStep ==
  ASSUME SearchInv, NEW t \in Writers, NEW e \in Events, Save(t, e)
  PROVE  SearchInv'
<1>1. /\ last_id \in Nat /\ last_id' = last_id + 1
      /\ DOMAIN rows' = Stored \cup {last_id'}
      /\ rows'[last_id'] = e /\ \A id \in Stored \ {last_id'} : rows'[id] = rows[id]
      /\ stored_as' = [id \in 1..last_id' |-> IF id = last_id' THEN e ELSE stored_as[id]]
      /\ pending' = [pending EXCEPT ![t] = last_id']
      /\ UNCHANGED <<index_vars, query_vars, settled>>
  BY DEF Save, SearchInv, Typed, Stored
<1>2. /\ last_id' \in Nat /\ last_id <= last_id' /\ last_id' \notin Given
      /\ last_id' \in Given' /\ Given \subseteq Given'
  BY <1>1 DEF Given
<1>3. /\ stored_as' \in [1..last_id' -> Events]
      /\ \A id \in Given : stored_as'[id] = stored_as[id]
      /\ stored_as'[last_id'] = e
  BY <1>1, <1>2 DEF SearchInv, Typed, Given
<1>4. pending' \in [Writers -> 0..last_id']
  BY <1>1, <1>2 DEF SearchInv, Typed
<1>5. Typed'
  BY <1>1, <1>2, <1>3, <1>4 DEF SearchInv, Typed, query_vars
<1>6. /\ all_events' = all_events /\ keyword_index' = keyword_index
      /\ time_index' = time_index /\ app_index' = app_index
      /\ all_events \subseteq Given
  BY <1>1 DEF index_vars, SearchInv, IndexInv
<1>7. IndexInv'
  <2>1. \A id \in Stored' : id \in Given' /\ rows'[id] = stored_as'[id]
    BY <1>1, <1>2, <1>3 DEF Stored, SearchInv, IndexInv
  <2>2. \A id \in all_events : stored_as'[id] = stored_as[id]
    BY <1>3, <1>6
  <2>3. keyword_index' =
          [w \in Words |-> {id \in all_events' : w \in Keywords[stored_as'[id]]}]
    BY <1>6, <2>2 DEF SearchInv, IndexInv
  <2>4. time_index' =
          [b \in 0..(MaxTime \div Hour) |->
             {id \in all_events' : Bucket(Stamp[stored_as'[id]]) = b}]
    BY <1>6, <2>2 DEF SearchInv, IndexInv
  <2>5. app_index' = [a \in Apps |-> {id \in all_events' : a \in App[stored_as'[id]]}]
    BY <1>6, <2>2 DEF SearchInv, IndexInv
  <2>6. QED
    BY <1>2, <1>6, <2>1, <2>3, <2>4, <2>5 DEF IndexInv
<1>8. settled' = settled /\ settled \subseteq Stored' \cap all_events'
  BY <1>1, <1>6 DEF SearchInv, QueryInv, RestInv, Stored
<1>9. QueryInv'
  BY <1>1, <1>2, <1>3, <1>8, QueryGoesOn
<1>10. QED
  BY <1>5, <1>7, <1>9 DEF SearchInv

LEMMA AddStep ==
  ASSUME SearchInv, NEW t \in Writers, Add(t)
  PROVE  SearchInv'
<1> DEFINE id == pending[t]
           e == stored_as[id]
<1>1. /\ id # 0 /\ all_events' = all_events \cup {id}
      /\ keyword_index' = [w \in Words |->
           IF w \in Keywords[e] THEN keyword_index[w] \cup {id} ELSE keyword_index[w]]
      /\ time_index' = [time_index EXCEPT ![Bucket(Stamp[e])] = @ \cup {id}]
      /\ app_index' = [a \in Apps |->
           IF a \in App[e] THEN app_index[a] \cup {id} ELSE app_index[a]]
      /\ pending' = [pending EXCEPT ![t] = 0]
      /\ UNCHANGED <<store_vars, query_vars, settled>>
  BY DEF Add
<1>2. id \in Given
  BY <1>1 DEF SearchInv, Typed, Given
<1> HIDE DEF id
<1>3. /\ rows' = rows /\ last_id' = last_id /\ stored_as' = stored_as /\ settled' = settled
  BY <1>1 DEF store_vars
<1>4. Typed'
  BY <1>1, <1>3 DEF SearchInv, Typed, query_vars
<1>5. IndexInv'
  <2>1. keyword_index' =
          [w \in Words |-> {i \in all_events' : w \in Keywords[stored_as[i]]}]
    BY <1>1 DEF SearchInv, IndexInv
  <2>2. time_index' =
          [b \in 0..(MaxTime \div Hour) |->
             {i \in all_events' : Bucket(Stamp[stored_as[i]]) = b}]
    BY <1>1 DEF SearchInv, IndexInv
  <2>3. app_index' = [a \in Apps |-> {i \in all_events' : a \in App[stored_as[i]]}]
    BY <1>1 DEF SearchInv, IndexInv
  <2>4. all_events' \subseteq Given
    BY <1>1, <1>2 DEF SearchInv, IndexInv
  <2>5. QED
    BY <1>3, <2>1, <2>2, <2>3, <2>4 DEF SearchInv, IndexInv, Given, Stored
<1>6. QueryInv'
  <2>1. settled \subseteq Stored' \cap all_events'
    BY <1>1, <1>3 DEF SearchInv, QueryInv, RestInv, Stored
  <2>2. last_id' \in Nat /\ last_id <= last_id'
    BY <1>3 DEF SearchInv, Typed
  <2>3. QED
    BY <1>1, <1>3, <2>1, <2>2, QueryGoesOn
<1>7. QED
  BY <1>4, <1>5, <1>6 DEF SearchInv

LEMMA ClearSteps ==
  ASSUME SearchInv, ClearStore \/ ClearIndex
  PROVE  SearchInv'
<1>1. /\ last_id' = last_id /\ stored_as' = stored_as /\ pending' = pending
      /\ UNCHANGED query_vars /\ settled' = {}
  BY DEF ClearStore, ClearIndex, store_vars
<1>2. Typed'
  BY <1>1 DEF SearchInv, Typed, query_vars
<1>3. QueryInv'
  <2>1. last_id' \in Nat /\ last_id <= last_id'
    BY <1>1 DEF SearchInv, Typed
  <2>2. QED
    BY <1>1, <2>1, QueryGoesOn
<1>4. CASE ClearStore
  <2>1. rows' = <<>> /\ UNCHANGED index_vars
    BY <1>4 DEF ClearStore
  <2>2. Stored' = {}
    BY <2>1 DEF Stored
  <2>3. IndexInv'
    BY <1>1, <2>1, <2>2 DEF SearchInv, IndexInv, index_vars, Given
  <2>4. QED
    BY <1>2, <1>3, <2>3 DEF SearchInv
<1>5. CASE ClearIndex
  <2>1. /\ keyword_index' = [w \in Words |-> {}] /\ app_index' = [a \in Apps |-> {}]
        /\ time_index' = [b \in DOMAIN time_index |-> {}]
        /\ all_events' = {} /\ rows' = rows
    BY <1>5 DEF ClearIndex, store_vars
  <2>2. DOMAIN time_index = 0..(MaxTime \div Hour)
    BY DEF SearchInv, IndexInv
  <2>3. IndexInv'
    BY <1>1, <2>1, <2>2 DEF SearchInv, IndexInv, Given, Stored
  <2>4. QED
    BY <1>2, <1>3, <2>3 DEF SearchInv
<1>6. QED
  BY <1>4, <1>5

-----------------------------------------------------------------------------
(* Steps of the executor.                                                  *)

LEMMA StoreAndIndexStay ==
  ASSUME SearchInv, UNCHANGED <<store_vars, index_vars, pending>>,
         pc' \in Places, spec' \in Specs, QueryInv'
  PROVE  SearchInv'
<1>1. /\ rows' = rows /\ last_id' = last_id /\ stored_as' = stored_as
      /\ keyword_index' = keyword_index /\ time_index' = time_index
      /\ app_index' = app_index /\ all_events' = all_events /\ pending' = pending
  BY DEF store_vars, index_vars
<1>2. Typed' /\ IndexInv'
  BY <1>1 DEF SearchInv, Typed, IndexInv, Given, Stored
<1>3. QED
  BY <1>2 DEF SearchInv

LEMMA StartStep ==
  ASSUME SearchInv, NEW s \in Specs, Start(s)
  PROVE  SearchInv'
<1>1. /\ pc = "idle" /\ spec' = s /\ todo_words' = s.keywords /\ pc' = "words"
      /\ settled' = all_events \cap Stored
      /\ UNCHANGED <<store_vars, index_vars, pending, kw_ids, candidates, clock,
                     todo_ids, results>>
  BY DEF Start
<1>2. kw_ids = {} /\ candidates = {} /\ results = {} /\ clock = {}
  BY <1>1 DEF SearchInv, QueryInv, RestInv
<1>3. WordsInv'
  BY <1>1, <1>2 DEF WordsInv
<1>4. CandidatesInv' /\ FetchInv' /\ ResultsComplete'
  BY <1>1 DEF CandidatesInv, FetchInv, ResultsComplete
<1>5. RestInv'
  BY <1>1, <1>2 DEF RestInv, store_vars, index_vars, Stored
<1>6. QED
  BY <1>1, <1>3, <1>4, <1>5, StoreAndIndexStay DEF QueryInv, Places

LEMMA WordSteps ==
  ASSUME SearchInv, (\E word \in Words : LookUpWord(word)) \/ WordsDone
  PROVE  SearchInv'
<1>1. /\ pc = "words" /\ UNCHANGED <<store_vars, index_vars, pending, settled, spec>>
      /\ todo_ids' = todo_ids /\ results' = results /\ clock' = clock
      /\ rows' = rows /\ last_id' = last_id /\ stored_as' = stored_as
      /\ all_events' = all_events
  BY DEF LookUpWord, WordsDone, store_vars, index_vars
<1>2. /\ todo_words \subseteq spec.keywords /\ candidates = {} /\ kw_ids \subseteq Given
      /\ \A id \in kw_ids : \E v \in spec.keywords \ todo_words : SaidOf(stored_as[id], v)
      /\ \A id \in settled : \A v \in spec.keywords \ todo_words :
           SaidOf(stored_as[id], v) => id \in kw_ids
  BY <1>1 DEF SearchInv, QueryInv, WordsInv
<1>3. /\ Typed /\ IndexInv /\ settled \subseteq Stored \cap all_events
      /\ results = {} /\ clock = {}
      /\ all_events \subseteq Given /\ spec \in Specs
  BY <1>1 DEF SearchInv, QueryInv, RestInv, IndexInv, Typed
<1>4. ASSUME pc' \in {"words", "time"} PROVE FetchInv' /\ RestInv' /\ ResultsComplete'
  BY <1>1, <1>3, <1>4 DEF FetchInv, RestInv, ResultsComplete, Stored
<1>5. ASSUME NEW word \in Words, LookUpWord(word) PROVE SearchInv'
  <2>1. /\ word \in todo_words /\ todo_words' = todo_words \ {word} /\ pc' = "words"
        /\ kw_ids' = kw_ids \cup SearchKeyword(word) /\ candidates' = candidates
    BY <1>1, <1>5 DEF LookUpWord
  <2>2. \A id \in SearchKeyword(word) : id \in all_events /\ SaidOf(stored_as[id], word)
    BY <1>3, KeywordFinds
  <2>3. kw_ids' \subseteq Given
    BY <1>2, <1>3, <2>1, <2>2
  <2>4. ASSUME NEW id \in kw_ids'
        PROVE  \E v \in spec.keywords \ todo_words' : SaidOf(stored_as[id], v)
    <3>1. CASE id \in kw_ids
      BY <1>2, <2>1, <3>1
    <3>2. CASE id \in SearchKeyword(word)
      BY <1>2, <2>1, <2>2, <3>2
    <3>3. QED
      BY <2>1, <3>1, <3>2
  <2>5. ASSUME NEW id \in settled, NEW v \in spec.keywords \ todo_words',
               SaidOf(stored_as[id], v)
        PROVE  id \in kw_ids'
    <3>1. CASE v = word
      BY <1>3, <2>1, <2>5, <3>1, KeywordFinds
    <3>2. CASE v # word
      BY <1>2, <2>1, <2>5, <3>2
    <3>3. QED
      BY <3>1, <3>2
  <2>6. WordsInv'
    BY <1>1, <1>2, <2>1, <2>3, <2>4, <2>5 DEF WordsInv, SaidOf, Given
  <2>7. CandidatesInv'
    BY <2>1 DEF CandidatesInv
  <2>8. QED
    BY <1>1, <1>3, <1>4, <2>1, <2>6, <2>7, StoreAndIndexStay DEF QueryInv, Places
<1>6. CASE WordsDone
  <2>1. /\ todo_words = {} /\ pc' = "time"
        /\ candidates' = IF spec.keywords = {} THEN {} ELSE {kw_ids}
    BY <1>6 DEF WordsDone
  <2>2. WordsInv'
    BY <2>1 DEF WordsInv
  <2>3. /\ UNION candidates' \subseteq Given
        /\ Asked' <=> candidates' # {}
    BY <1>1, <1>2, <2>1 DEF Asked
  <2>4. \A id \in Common(candidates)' : MatchesSoFar(stored_as[id])'
    <3> SUFFICES ASSUME NEW id \in Common(candidates)' PROVE HasKeyword(stored_as[id])
      BY <1>1, <2>1 DEF MatchesSoFar, HasKeyword
    <3>1. id \in kw_ids
      BY <2>1 DEF Common
    <3>2. QED
      BY <1>2, <2>1, <3>1 DEF HasKeyword, SaidOf
  <2>5. ASSUME NEW id \in settled, HasKeyword(stored_as[id]), NEW c \in candidates'
        PROVE  id \in c
    <3>1. spec.keywords # {} /\ c = kw_ids
      BY <2>1
    <3>2. \E v \in spec.keywords : SaidOf(stored_as[id], v)
      BY <2>5, <3>1 DEF HasKeyword, SaidOf
    <3>3. QED
      BY <1>2, <2>1, <3>1, <3>2
  <2>6. CandidatesInv'
    BY <1>1, <2>1, <2>3, <2>4, <2>5 DEF CandidatesInv, Matches, HasKeyword, Given
  <2>7. QED
    BY <1>1, <1>3, <1>4, <2>1, <2>2, <2>6, StoreAndIndexStay DEF QueryInv, Places
<1>7. QED
  BY <1>5, <1>6

(* One more index is asked: what it gives is narrower, and not too narrow. *)
LEMMA Narrows ==
  ASSUME SearchInv, UNCHANGED <<store_vars, index_vars, pending, settled, spec, clock, results>>,
         pc \in {"time", "app"}, pc' = IF pc = "time" THEN "app" ELSE "intersect",
         NEW more, candidates' = candidates \cup more,
         more # {} <=> (pc = "time" /\ spec.time # {}) \/ (pc = "app" /\ spec.app # {}),
         \A c \in more : c \subseteq Given,
         \A id \in Given : (\A c \in more : id \in c) =>
           IF pc = "time" THEN InHours(stored_as[id]) ELSE OfApp(stored_as[id]),
         \A id \in settled : Matches(stored_as[id]) => \A c \in more : id \in c
  PROVE  SearchInv'
<1>1. /\ rows' = rows /\ last_id' = last_id /\ stored_as' = stored_as
      /\ all_events' = all_events /\ spec' = spec /\ settled' = settled
      /\ results' = results /\ clock' = clock
  BY DEF store_vars, index_vars
<1>2. /\ UNION candidates \subseteq Given
      /\ Asked <=> candidates # {}
      /\ \A id \in Common(candidates) : MatchesSoFar(stored_as[id])
      /\ \A id \in settled : Matches(stored_as[id]) => \A c \in candidates : id \in c
  BY DEF SearchInv, QueryInv, CandidatesInv
<1>3. /\ settled \subseteq Stored \cap all_events /\ results = {} /\ clock = {}
      /\ spec \in Specs
  BY DEF SearchInv, QueryInv, RestInv, Typed
<1>4. Asked' <=> candidates' # {}
  BY <1>1, <1>2 DEF Asked
<1>5. UNION candidates' \subseteq Given
  BY <1>2
<1>6. ASSUME NEW id \in Common(candidates)' PROVE MatchesSoFar(stored_as[id])'
  <2>1. /\ \A c \in candidates : id \in c
        /\ \A c \in more : id \in c
        /\ id \in Given
    BY <1>5 DEF Common
  <2>2. HasKeyword(stored_as[id]) /\ (pc = "app" => InHours(stored_as[id]))
    <3>1. CASE candidates # {}
      <4>1. id \in Common(candidates)
        BY <2>1, <3>1 DEF Common
      <4>2. QED
        BY <1>2, <4>1 DEF MatchesSoFar
    <3>2. CASE candidates = {}
      BY <1>2, <3>2 DEF Asked, HasKeyword, InHours
    <3>3. QED
      BY <3>1, <3>2
  <2>3. IF pc = "time" THEN InHours(stored_as[id]) ELSE OfApp(stored_as[id])
    BY <2>1
  <2>4. QED
    BY <1>1, <2>2, <2>3 DEF MatchesSoFar, HasKeyword, InHours, OfApp
<1>7. ASSUME NEW id \in settled', Matches(stored_as[id])', NEW c \in candidates'
      PROVE  id \in c
  <2>1. Matches(stored_as[id])
    BY <1>1, <1>7 DEF Matches, HasKeyword, InHours, OfApp, OfType, NotLater
  <2>2. QED
    BY <1>1, <1>2, <1>7, <2>1
<1>8. CandidatesInv'
  BY <1>1, <1>4, <1>5, <1>6, <1>7 DEF CandidatesInv, Given
<1>9. RestInv' /\ WordsInv' /\ FetchInv' /\ ResultsComplete'
  BY <1>1, <1>3 DEF RestInv, WordsInv, FetchInv, ResultsComplete, Stored
<1>10. QED
  BY <1>1, <1>3, <1>8, <1>9, StoreAndIndexStay DEF QueryInv, Places

LEMMA LookUpTimeStep ==
  ASSUME SearchInv, LookUpTime
  PROVE  SearchInv'
<1> DEFINE more == {SearchTimeRange(t[1], t[2]) : t \in spec.time}
<1>1. /\ pc = "time" /\ pc' = "app" /\ candidates' = candidates \cup more
      /\ UNCHANGED <<store_vars, index_vars, pending, settled, spec, clock, results>>
  BY DEF LookUpTime
<1>2. Typed /\ IndexInv /\ settled \subseteq all_events /\ all_events \subseteq Given
  BY DEF SearchInv, QueryInv, RestInv, IndexInv
<1>3. \A c \in more : c \subseteq Given
  BY <1>2, TimeFinds
<1>4. \A id \in Given : (\A c \in more : id \in c) => InHours(stored_as[id])
  BY <1>2, TimeFinds DEF InHours
<1>5. \A id \in settled : Matches(stored_as[id]) => \A c \in more : id \in c
  BY <1>2, TimeFinds DEF Matches, InHours
<1>6. more # {} <=> spec.time # {}
  OBVIOUS
<1> HIDE DEF more
<1>7. QED
  BY <1>1, <1>3, <1>4, <1>5, <1>6, Narrows

LEMMA LookUpAppStep ==
  ASSUME SearchInv, LookUpApp
  PROVE  SearchInv'
<1> DEFINE more == {SearchApplication(name) : name \in spec.app}
<1>1. /\ pc = "app" /\ pc' = "intersect" /\ candidates' = candidates \cup more
      /\ UNCHANGED <<store_vars, index_vars, pending, settled, spec, clock, results>>
  BY DEF LookUpApp
<1>2. Typed /\ IndexInv /\ settled \subseteq all_events /\ all_events \subseteq Given
  BY DEF SearchInv, QueryInv, RestInv, IndexInv
<1>3. \A c \in more : c \subseteq Given
  BY <1>2, AppFinds
<1>4. \A id \in Given : (\A c \in more : id \in c) => OfApp(stored_as[id])
  BY <1>2, AppFinds DEF OfApp
<1>5. \A id \in settled : Matches(stored_as[id]) => \A c \in more : id \in c
  BY <1>2, AppFinds DEF Matches, OfApp
<1>6. more # {} <=> spec.app # {}
  OBVIOUS
<1> HIDE DEF more
<1>7. QED
  BY <1>1, <1>3, <1>4, <1>5, <1>6, Narrows

LEMMA IntersectStep ==
  ASSUME SearchInv, Intersect
  PROVE  SearchInv'
<1>1. /\ pc = "intersect" /\ ~NoPlan /\ todo_ids' = Common(candidates) /\ pc' = "fetch"
      /\ UNCHANGED <<store_vars, index_vars, pending, settled, spec, clock, results>>
  BY DEF Intersect
<1>2. /\ rows' = rows /\ last_id' = last_id /\ stored_as' = stored_as
      /\ all_events' = all_events /\ spec' = spec /\ settled' = settled
      /\ results' = results /\ clock' = clock
  BY <1>1 DEF store_vars, index_vars
<1>3. /\ UNION candidates \subseteq Given /\ candidates # {}
      /\ \A id \in Common(candidates) : MatchesSoFar(stored_as[id])
      /\ \A id \in settled : Matches(stored_as[id]) => \A c \in candidates : id \in c
  BY <1>1 DEF SearchInv, QueryInv, CandidatesInv, Asked, NoPlan
<1>4. Common(candidates) \subseteq Given
  BY <1>3 DEF Common
<1>5. \A id \in settled : Matches(stored_as[id]) => id \in Common(candidates)
  BY <1>3 DEF Common
<1>6. FetchInv'
  <2>1. \A id \in todo_ids' : HasKeyword(stored_as[id]) /\ InHours(stored_as[id])
                              /\ OfApp(stored_as[id])
    BY <1>1, <1>3 DEF MatchesSoFar
  <2>2. QED
    BY <1>1, <1>2, <1>4, <1>5, <2>1
       DEF FetchInv, Given, Matches, HasKeyword, InHours, OfApp, OfType, NotLater
<1>7. /\ settled \subseteq Stored \cap all_events /\ results = {} /\ clock = {}
      /\ spec \in Specs
  BY <1>1 DEF SearchInv, QueryInv, RestInv, Typed
<1>8. RestInv' /\ WordsInv' /\ CandidatesInv' /\ ResultsComplete'
  BY <1>1, <1>2, <1>7 DEF RestInv, WordsInv, CandidatesInv, ResultsComplete, Stored
<1>9. QED
  BY <1>1, <1>2, <1>6, <1>7, <1>8, StoreAndIndexStay DEF QueryInv, Places

(* Without a plan every event meets what would be asked the indexes.       *)
LEMMA NoPlanMatches ==
  ASSUME NoPlan, NEW e
  PROVE  Matches(e) <=> OfType(e) /\ NotLater(e)
BY DEF NoPlan, Matches, HasKeyword, InHours, OfApp

LEMMA FindByTypeStep ==
  ASSUME SearchInv, FindByType
  PROVE  SearchInv'
<1>1. /\ pc = "intersect" /\ NoPlan /\ pc' = "done"
      /\ results' = {id \in Stored : OfType(rows[id])}
      /\ UNCHANGED <<store_vars, index_vars, pending, settled, spec>>
      /\ rows' = rows /\ last_id' = last_id /\ stored_as' = stored_as
      /\ all_events' = all_events /\ spec' = spec /\ settled' = settled /\ clock' = clock
  BY DEF FindByType, store_vars, index_vars
<1>2. /\ \A id \in Stored : id \in Given /\ rows[id] = stored_as[id]
      /\ settled \subseteq Stored \cap all_events /\ spec \in Specs /\ clock = {}
  BY <1>1 DEF SearchInv, IndexInv, QueryInv, RestInv, Typed
<1>3. \A id \in Stored : Matches(stored_as[id])' <=> OfType(rows[id])
  <2>1. \A e : Matches(e) <=> OfType(e)
    BY <1>1, <1>2, NoPlanMatches DEF NotLater
  <2>2. \A id \in Stored : Matches(stored_as[id])' <=> Matches(stored_as[id])
    BY <1>1 DEF Matches, HasKeyword, InHours, OfApp, OfType, NotLater
  <2>3. QED
    BY <1>2, <2>1, <2>2
<1>4. RestInv' /\ ResultsComplete'
  BY <1>1, <1>2, <1>3 DEF RestInv, ResultsComplete, Given, Stored
<1>5. WordsInv' /\ CandidatesInv' /\ FetchInv'
  BY <1>1 DEF WordsInv, CandidatesInv, FetchInv
<1>6. QED
  BY <1>1, <1>2, <1>4, <1>5, StoreAndIndexStay DEF QueryInv, Places

LEMMA ReadClockStep ==
  ASSUME SearchInv, ReadClock
  PROVE  SearchInv'
<1>1. /\ pc = "intersect" /\ NoPlan /\ spec.type = {} /\ pc' = "recent"
      /\ UNCHANGED <<store_vars, index_vars, pending, settled, spec, results>>
      /\ rows' = rows /\ last_id' = last_id /\ all_events' = all_events
  BY DEF ReadClock, store_vars, index_vars
<1>2. settled \subseteq Stored \cap all_events /\ spec \in Specs /\ results = {}
  BY <1>1 DEF SearchInv, QueryInv, RestInv, Typed
<1>3. WordsInv' /\ CandidatesInv' /\ FetchInv' /\ ResultsComplete'
  BY <1>1 DEF WordsInv, CandidatesInv, FetchInv, ResultsComplete
<1>4. results' = {} /\ settled' = settled /\ (NoPlan /\ spec.type = {})'
  BY <1>1, <1>2 DEF NoPlan
<1>5. RestInv'
  BY <1>1, <1>2, <1>4 DEF RestInv, Stored
<1>6. QED
  BY <1>1, <1>2, <1>3, <1>5, StoreAndIndexStay DEF QueryInv, Places

LEMMA FindRecentStep ==
  ASSUME SearchInv, FindRecent
  PROVE  SearchInv'
<1> DEFINE found == {id \in Stored : NotLater(rows[id])}
           older(recent) == \A id \in recent, out \in found \ recent :
                              Stamp[rows[id]] >= Stamp[rows[out]]
<1>1. /\ pc = "recent" /\ NoPlan /\ spec.type = {} /\ pc' = "done"
      /\ UNCHANGED <<store_vars, index_vars, pending, settled, spec>>
      /\ rows' = rows /\ last_id' = last_id /\ stored_as' = stored_as
      /\ all_events' = all_events /\ spec' = spec /\ settled' = settled /\ clock' = clock
  BY DEF FindRecent, store_vars, index_vars, SearchInv, QueryInv, RestInv
<1>2. /\ results' \subseteq found
      /\ \/ results' = found
         \/ Cardinality(results') = Limit /\ older(results')
  BY DEF FindRecent
<1>3. /\ \A id \in Stored : id \in Given /\ rows[id] = stored_as[id]
      /\ settled \subseteq Stored \cap all_events /\ spec \in Specs
  BY DEF SearchInv, IndexInv, QueryInv, RestInv, Typed
<1>4. \A id \in Stored : Matches(stored_as[id]) <=> id \in found
  BY <1>1, <1>3, NoPlanMatches DEF OfType
<1>5. \A id \in Stored : Matches(stored_as[id])' <=> Matches(stored_as[id])
  BY <1>1 DEF Matches, HasKeyword, InHours, OfApp, OfType, NotLater
<1>6. \A id \in Stored : rows[id] = stored_as[id] /\ id \in Given
  BY <1>3
<1> HIDE DEF found
<1>7. found \subseteq Stored
  BY DEF found
<1>8. RestInv'
  BY <1>1, <1>2, <1>3, <1>4, <1>5, <1>7 DEF RestInv, Given, Stored
<1>9. ResultsComplete'
  <2>1. ASSUME NEW id \in settled, Matches(stored_as[id]), id \notin results'
        PROVE  /\ Cardinality(results') = Limit
               /\ \A r \in results' : Stamp[stored_as[r]] >= Stamp[stored_as[id]]
    <3>1. id \in found /\ results' # found
      BY <1>3, <1>4, <2>1
    <3>2. \A r \in results' : Stamp[rows[r]] >= Stamp[rows[id]]
      BY <1>2, <2>1, <3>1
    <3>3. QED
      BY <1>2, <1>6, <1>7, <3>1, <3>2
  <2>2. QED
    BY <1>1, <1>3, <1>5, <2>1 DEF ResultsComplete, NoPlan
<1>10. WordsInv' /\ CandidatesInv' /\ FetchInv'
  BY <1>1 DEF WordsInv, CandidatesInv, FetchInv
<1>11. QED
  BY <1>1, <1>3, <1>8, <1>9, <1>10, StoreAndIndexStay DEF QueryInv, Places

LEMMA FetchStep ==
  ASSUME SearchInv, NEW id, Fetch(id)
  PROVE  SearchInv'
<1>1. /\ pc = "fetch" /\ pc' = pc /\ id \in todo_ids /\ todo_ids' = todo_ids \ {id}
      /\ results' = IF Keep(id) THEN results \cup {id} ELSE results
      /\ UNCHANGED <<store_vars, index_vars, pending, settled, spec>>
      /\ rows' = rows /\ last_id' = last_id /\ stored_as' = stored_as
      /\ all_events' = all_events /\ spec' = spec /\ settled' = settled
      /\ clock' = clock
  BY DEF Fetch, store_vars, index_vars
<1>2. /\ todo_ids \subseteq Given
      /\ \A i \in todo_ids :
           HasKeyword(stored_as[i]) /\ InHours(stored_as[i]) /\ OfApp(stored_as[i])
      /\ \A i \in settled : Matches(stored_as[i]) => i \in todo_ids \cup results
  BY <1>1 DEF SearchInv, QueryInv, FetchInv
<1>3. /\ settled \subseteq Stored \cap all_events
      /\ results \subseteq Given /\ \A i \in results : Matches(stored_as[i])
      /\ \A i \in Stored : rows[i] = stored_as[i]
      /\ spec \in Specs /\ clock = {}
  BY <1>1 DEF SearchInv, QueryInv, RestInv, IndexInv, Typed
<1>4. Keep(id) => Matches(stored_as[id])
  BY <1>1, <1>2, <1>3 DEF Keep, Matches, NotLater
<1>5. id \in settled /\ Matches(stored_as[id]) => Keep(id)
  BY <1>3 DEF Keep, Matches
<1>6. \A i : /\ Matches(stored_as[i])' <=> Matches(stored_as[i])
             /\ HasKeyword(stored_as[i])' <=> HasKeyword(stored_as[i])
             /\ InHours(stored_as[i])' <=> InHours(stored_as[i])
             /\ OfApp(stored_as[i])' <=> OfApp(stored_as[i])
  BY <1>1 DEF Matches, HasKeyword, InHours, OfApp, OfType, NotLater
<1>7. RestInv'
  BY <1>1, <1>2, <1>3, <1>4, <1>6 DEF RestInv, Given, Stored
<1>8. FetchInv'
  BY <1>1, <1>2, <1>5, <1>6 DEF FetchInv, Given
<1>9. WordsInv' /\ CandidatesInv' /\ ResultsComplete'
  BY <1>1 DEF WordsInv, CandidatesInv, ResultsComplete
<1>10. QED
  BY <1>1, <1>3, <1>7, <1>8, <1>9, StoreAndIndexStay DEF QueryInv, Places

LEMMA FinishStep ==
  ASSUME SearchInv, Finish
  PROVE  SearchInv'
<1>1. /\ pc = "fetch" /\ todo_ids = {} /\ pc' = "done"
      /\ UNCHANGED <<store_vars, index_vars, pending, settled, spec, clock, results>>
      /\ rows' = rows /\ last_id' = last_id /\ stored_as' = stored_as
      /\ all_events' = all_events /\ spec' = spec /\ settled' = settled
      /\ results' = results /\ clock' = clock
  BY DEF Finish, store_vars, index_vars
<1>2. /\ \A i \in settled : Matches(stored_as[i]) => i \in results
      /\ settled \subseteq Stored \cap all_events
      /\ results \subseteq Given /\ \A i \in results : Matches(stored_as[i])
      /\ spec \in Specs
  BY <1>1 DEF SearchInv, QueryInv, FetchInv, RestInv, Typed
<1>3. \A i : Matches(stored_as[i])' <=> Matches(stored_as[i])
  BY <1>1 DEF Matches, HasKeyword, InHours, OfApp, OfType, NotLater
<1>4. RestInv' /\ ResultsComplete'
  BY <1>1, <1>2, <1>3 DEF RestInv, ResultsComplete, Given, Stored
<1>5. WordsInv' /\ CandidatesInv' /\ FetchInv'
  BY <1>1 DEF WordsInv, CandidatesInv, FetchInv
<1>6. QED
  BY <1>1, <1>2, <1>4, <1>5, StoreAndIndexStay DEF QueryInv, Places

LEMMA ReturnStep ==
  ASSUME SearchInv, Return
  PROVE  SearchInv'
<1>1. /\ pc' = "idle" /\ spec' = NoSpec
      /\ kw_ids' = {} /\ candidates' = {} /\ clock' = {} /\ results' = {} /\ settled' = {}
      /\ UNCHANGED <<store_vars, index_vars, pending>>
  BY DEF Return
<1>2. NoSpec \in Specs
  BY DEF NoSpec, Specs
<1>3. QueryInv'
  BY <1>1 DEF QueryInv, WordsInv, CandidatesInv, FetchInv, RestInv, ResultsComplete
<1>4. QED
  BY <1>1, <1>2, <1>3, StoreAndIndexStay DEF Places

-----------------------------------------------------------------------------
(* The theorems.                                                           *)

LEMMA InvInit == Init => SearchInv
<1> SUFFICES ASSUME Init PROVE SearchInv
  OBVIOUS
<1>1. NoSpec \in Specs
  BY DEF NoSpec, Specs
<1>2. Given = {} /\ Stored = {}
  BY DEF Init, Given, Stored
<1>3. stored_as \in [1..last_id -> Events]
  <2>1. 1..last_id = {}
    BY <1>2 DEF Given
  <2>2. DOMAIN stored_as = {} /\ stored_as = [x \in {} |-> x]
    BY DEF Init
  <2>3. QED
    BY <2>1, <2>2
<1>4. Typed
  BY <1>1, <1>3 DEF Init, Typed, Places
<1>5. IndexInv
  BY <1>2 DEF Init, IndexInv
<1>6. QueryInv
  BY DEF Init, QueryInv, WordsInv, CandidatesInv, FetchInv, RestInv, ResultsComplete
<1>7. QED
  BY <1>4, <1>5, <1>6 DEF SearchInv

LEMMA InvNext == SearchInv /\ [Next]_vars => SearchInv'
<1> SUFFICES ASSUME SearchInv, [Next]_vars PROVE SearchInv'
  OBVIOUS
<1>1. CASE \E t \in Writers : (\E e \in Events : Save(t, e)) \/ Add(t)
  BY <1>1, SaveStep, AddStep
<1>2. CASE ClearStore \/ ClearIndex
  BY <1>2, ClearSteps
<1>3. CASE \E s \in Specs : Start(s)
  BY <1>3, StartStep
<1>4. CASE Execute
  BY <1>4, WordSteps, LookUpTimeStep, LookUpAppStep, IntersectStep, FindByTypeStep,
     ReadClockStep, FindRecentStep, FetchStep, FinishStep DEF Execute
<1>5. CASE Return
  BY <1>5, ReturnStep
<1>6. CASE UNCHANGED vars
  <2>1. /\ UNCHANGED <<store_vars, index_vars, pending>>
        /\ UNCHANGED query_vars /\ settled' = settled
        /\ last_id' = last_id /\ stored_as' = stored_as
        /\ rows' = rows /\ all_events' = all_events
        /\ pc' = pc /\ spec' = spec
    BY <1>6 DEF vars, store_vars, index_vars, query_vars
  <2>2. /\ last_id' \in Nat /\ last_id <= last_id'
        /\ settled' \subseteq Stored' \cap all_events'
        /\ pc' \in Places /\ spec' \in Specs
    BY <2>1 DEF SearchInv, Typed, QueryInv, RestInv, Stored
  <2>3. QueryInv'
    BY <2>1, <2>2, QueryGoesOn
  <2>4. QED
    BY <2>1, <2>2, <2>3, StoreAndIndexStay
<1>7. QED
  BY <1>1, <1>2, <1>3, <1>4, <1>5, <1>6 DEF Next

(* What the index finds are ids that were given.                           *)
LEMMA FoundAreGiven ==
  ASSUME SearchInv
  PROVE  /\ \A w \in Words : SearchKeyword(w) \subseteq Given
         /\ \A from, to \in Times : SearchTimeRange(from, to) \subseteq Given
         /\ \A name \in Apps : SearchApplication(name) \subseteq Given
BY DEF SearchInv, IndexInv, SearchKeyword, SearchTimeRange, SearchApplication

(* The types of what no query depends on, and of what it has collected.    *)
Collected ==
    /\ \E ids \in SUBSET Given : rows \in [ids -> Events]
    /\ last_id \in 0..MaxId
    /\ todo_words \subseteq Words /\ candidates \subseteq SUBSET Given
    /\ kw_ids \subseteq Given /\ todo_ids \subseteq Given
    /\ clock \in {{}} \cup {{n} : n \in Times}

LEMMA CollectedNext == SearchInv /\ Collected /\ [Next]_vars => Collected'
<1> SUFFICES ASSUME SearchInv, Collected, [Next]_vars PROVE Collected'
  OBVIOUS
<1> USE DEF Collected
<1>1. ASSUME NEW t \in Writers, NEW e \in Events, Save(t, e) PROVE Collected'
  <2>1. last_id' \in 0..MaxId /\ Given \subseteq Given' /\ last_id' \in Given'
    BY <1>1, NumbersAssumption DEF Save, Given
  <2>2. PICK ids \in SUBSET Given : rows \in [ids -> Events]
    OBVIOUS
  <2>3. rows' \in [ids \cup {last_id'} -> Events] /\ ids \cup {last_id'} \subseteq Given'
    BY <1>1, <2>1, <2>2 DEF Save, Stored
  <2>4. UNCHANGED query_vars
    BY <1>1 DEF Save
  <2>5. QED
    BY <2>1, <2>3, <2>4 DEF query_vars
<1>2. ASSUME NEW t \in Writers, Add(t) PROVE Collected'
  BY <1>2 DEF Add, store_vars, query_vars, Given
<1>3. CASE ClearStore
  <2>1. rows' \in [{} -> Events]
    BY <1>3 DEF ClearStore
  <2>2. last_id' = last_id /\ UNCHANGED query_vars
    BY <1>3 DEF ClearStore
  <2>3. QED
    BY <2>1, <2>2 DEF query_vars, Given
<1>4. CASE ClearIndex
  BY <1>4 DEF ClearIndex, store_vars, query_vars, Given
<1>5. ASSUME NEW s \in Specs, Start(s) PROVE Collected'
  <2>1. s.keywords \subseteq Words
    BY DEF Specs
  <2>2. QED
    BY <1>5, <2>1 DEF Start, store_vars, Given
<1>6. ASSUME NEW word \in Words, LookUpWord(word) PROVE Collected'
  BY <1>6, FoundAreGiven DEF LookUpWord, store_vars, Given
<1>7. CASE WordsDone
  <2>1. candidates' \subseteq {kw_ids} /\ todo_words' = todo_words
    BY <1>7 DEF WordsDone
  <2>2. UNCHANGED <<rows, last_id, kw_ids, clock, todo_ids>>
    BY <1>7 DEF WordsDone, store_vars
  <2>3. QED
    BY <2>1, <2>2 DEF Given
<1>8. CASE LookUpTime
  <2>1. \A t \in spec.time : t[1] \in Times /\ t[2] \in Times
    BY DEF SearchInv, Typed, Specs
  <2>2. candidates' \subseteq SUBSET Given
    BY <1>8, <2>1, FoundAreGiven DEF LookUpTime
  <2>3. QED
    BY <1>8, <2>2 DEF LookUpTime, store_vars, Given
<1>9. CASE LookUpApp
  <2>1. spec.app \subseteq Apps
    BY DEF SearchInv, Typed, Specs
  <2>2. candidates' \subseteq SUBSET Given
    BY <1>9, <2>1, FoundAreGiven DEF LookUpApp
  <2>3. QED
    BY <1>9, <2>2 DEF LookUpApp, store_vars, Given
<1>10. CASE Intersect
  BY <1>10 DEF Intersect, Common, store_vars, Given
<1>11. CASE FindByType \/ ReadClock \/ FindRecent \/ Finish \/ \E id \in Ids : Fetch(id)
  BY <1>11 DEF FindByType, ReadClock, FindRecent, Finish, Fetch, store_vars, Given
<1>12. CASE Return
  BY <1>12 DEF Return, store_vars, Given
<1>13. CASE UNCHANGED vars
  BY <1>13 DEF vars, store_vars, query_vars, Given
<1>14. QED
  BY <1>1, <1>2, <1>3, <1>4, <1>5, <1>6, <1>7, <1>8, <1>9, <1>10, <1>11, <1>12, <1>13
     DEF Next, Execute

(* Every reachable state is well typed: whatever the index and a query     *)
(* have of ids was given by the store.                                     *)
THEOREM TypeCorrect == Spec => []TypeOK
<1>1. Init => Collected
  <2> SUFFICES ASSUME Init PROVE Collected
    OBVIOUS
  <2>1. {} \in SUBSET Given /\ rows \in [{} -> Events]
    BY DEF Init
  <2>2. last_id \in 0..MaxId
    BY NumbersAssumption DEF Init
  <2>3. QED
    BY <2>1, <2>2 DEF Init, Collected
<1>2. SearchInv /\ Collected => TypeOK
  <2> SUFFICES ASSUME SearchInv, Collected PROVE TypeOK
    OBVIOUS
  <2>1. Given \subseteq Ids
    BY NumbersAssumption DEF Collected, Given, Ids
  <2>2. all_events \subseteq Given /\ settled \subseteq Given /\ results \subseteq Given
    BY DEF SearchInv, IndexInv, QueryInv, RestInv
  <2>3. /\ keyword_index \in Indexes(Words) /\ app_index \in Indexes(Apps)
        /\ time_index \in Indexes(0..(MaxTime \div Hour))
    BY <2>1, <2>2 DEF SearchInv, IndexInv, Indexes
  <2>4. QED
    BY <2>1, <2>2, <2>3 DEF SearchInv, Typed, Collected, TypeOK, Given
<1>3. QED
  BY <1>1, <1>2, CollectedNext, InvInit, InvNext, PTL DEF Spec

(* Whatever other threads save, index and clear while execute() goes       *)
(* through the indexes one by one, every result was stored under its id as *)
(* an event that meets each part of the query: a keyword or the application *)
(* by a part of it, the time to the hour; and without any part, an event   *)
(* that is not dated later than the clock.                                 *)
THEOREM ResultsAreMatches == Spec => []ResultsMatch
<1>1. SearchInv => ResultsMatch
  BY DEF SearchInv, QueryInv, RestInv, ResultsMatch
<1>2. QED
  BY InvInit, InvNext, <1>1, PTL DEF Spec

(* execute() misses no event that was stored and indexed when it began,    *)
(* has not been cleared since and meets the query in that sense, but for   *)
(* older ones than the Limit that a query without any filter returns.      *)
THEOREM NothingIsMissed == Spec => []ResultsComplete
<1>1. SearchInv => ResultsComplete
  BY DEF SearchInv, QueryInv
<1>2. QED
  BY InvInit, InvNext, <1>1, PTL DEF Spec

-----------------------------------------------------------------------------
(* The parser of queries, for any clocks from the third week of 1970 on,   *)
(* and any of the expressions and words in a query.                        *)

InWorkHours ==
    IF "work_hours" \in query THEN {HoursOf(r) : r \in Resolved} ELSE Resolved

WordsLeft ==
    ((query \cap OtherWords) \cup UNION {Spelt(e) : e \in query \cap Phrases}) \ StopWords

(* today is the midnight of a day, and not of one of the first two weeks.  *)
DaysKnown ==
    /\ query \subseteq Phrases \cup OtherWords
    /\ now \in Nat /\ now >= 14 * Day
    /\ today \in Nat
    /\ step # "start" => DayNumber \in Nat /\ DayNumber >= 14 /\ today = DayNumber * Day

(* What has been resolved is what the query, the midnight read first and   *)
(* the clock read last make of it.                                         *)
ParserInv ==
    /\ step \in {"start", "range", "hours", "type", "keywords", "done"}
    /\ DaysKnown
    /\ range = IF step \in {"start", "range"} THEN {}
               ELSE IF step = "hours" THEN Resolved ELSE InWorkHours
    /\ event_type = IF step \in {"keywords", "done"} THEN TypeSaid ELSE {}
    /\ keywords = IF step = "done" THEN WordsLeft ELSE {}

LEMMA MidnightOf ==
  ASSUME NEW t \in Nat, t >= 14 * Day
  PROVE  LET q == StartOfDay(t) \div Day IN
         q \in Nat /\ q >= 14 /\ StartOfDay(t) = q * Day /\ StartOfDay(t) \in Nat
BY DEF StartOfDay, Day

LEMMA ParserInvariant == ParserSpec => []ParserInv
<1>1. ParserInit => ParserInv
  <2> SUFFICES ASSUME ParserInit PROVE ParserInv
    OBVIOUS
  <2>1. query \subseteq Phrases \cup OtherWords
    <3>1. ASSUME NEW f \in [1..MaxPhrases -> Phrases \cup OtherWords]
          PROVE  {f[i] : i \in DOMAIN f} \subseteq Phrases \cup OtherWords
      OBVIOUS
    <3>2. query \in Queries
      BY DEF ParserInit
    <3>3. QED
      BY <3>1, <3>2 DEF Queries
  <2>2. now \in Nat /\ now >= 14 * Day
    BY ClocksAssumption DEF ParserInit, Day
  <2>3. QED
    BY <2>1, <2>2 DEF ParserInit, ParserInv, DaysKnown
<1>2. ParserInv /\ [ParserNext]_parser_vars => ParserInv'
  <2> SUFFICES ASSUME ParserInv, [ParserNext]_parser_vars PROVE ParserInv'
    OBVIOUS
  <2>1. CASE TodayStart
    <3>1. DaysKnown'
      BY <2>1, MidnightOf DEF TodayStart, ParserInv, DaysKnown, DayNumber
    <3>2. QED
      BY <2>1, <3>1 DEF TodayStart, ParserInv
  <2>2. CASE Tick
    <3>1. now + 1 \in Nat /\ now + 1 >= 14 * Day
      BY <2>2, ClocksAssumption DEF Tick, Day
    <3>2. DaysKnown'
      BY <2>2, <3>1 DEF Tick, ParserInv, DaysKnown, DayNumber
    <3>3. QED
      BY <2>2, <3>2 DEF Tick, ParserInv
  <2>3. CASE ResolveRange
    <3>1. DaysKnown'
      BY <2>3 DEF ResolveRange, ParserInv, DaysKnown, DayNumber
    <3>2. Resolved' = Resolved
      BY <2>3 DEF ResolveRange, Resolved, WeekStart, DayOfWeek, DaysBack, tm_wday
    <3>3. QED
      BY <2>3, <3>1, <3>2 DEF ResolveRange, ParserInv
  <2>4. CASE WorkHours
    <3>1. DaysKnown'
      BY <2>4 DEF WorkHours, ParserInv, DaysKnown, DayNumber
    <3>2. Resolved' = Resolved
      BY <2>4 DEF WorkHours, Resolved, WeekStart, DayOfWeek, DaysBack, tm_wday
    <3>3. QED
      BY <2>4, <3>1, <3>2 DEF WorkHours, ParserInv, InWorkHours
  <2>5. CASE ResolveType
    <3>1. DaysKnown'
      BY <2>5 DEF ResolveType, ParserInv, DaysKnown, DayNumber
    <3>2. Resolved' = Resolved /\ TypeSaid' = TypeSaid
      BY <2>5 DEF ResolveType, Resolved, WeekStart, DayOfWeek, DaysBack, tm_wday, TypeSaid, Says
    <3>3. QED
      BY <2>5, <3>1, <3>2 DEF ResolveType, ParserInv, InWorkHours
  <2>6. CASE ExtractKeywords \/ UNCHANGED parser_vars
    <3>1. DaysKnown'
      BY <2>6 DEF ExtractKeywords, parser_vars, ParserInv, DaysKnown, DayNumber
    <3>2. Resolved' = Resolved /\ TypeSaid' = TypeSaid /\ WordsLeft' = WordsLeft
      BY <2>6 DEF ExtractKeywords, parser_vars, Resolved, WeekStart, DayOfWeek, DaysBack,
                  tm_wday, TypeSaid, Says, WordsLeft
    <3>3. CASE ExtractKeywords
      BY <3>1, <3>2, <3>3 DEF ExtractKeywords, ParserInv, InWorkHours, WordsLeft
    <3>4. CASE UNCHANGED parser_vars
      BY <3>1, <3>2, <3>4 DEF parser_vars, ParserInv, InWorkHours
    <3>5. QED
      BY <2>6, <3>3, <3>4
  <2>7. QED
    BY <2>1, <2>2, <2>3, <2>4, <2>5, <2>6 DEF ParserNext
<1>3. QED
  BY <1>1, <1>2, PTL DEF ParserSpec

-----------------------------------------------------------------------------
(* Facts about the days of the week.                                       *)

LEMMA DayNamesAre ==
  /\ DayNames = {"sunday", "monday", "tuesday", "wednesday", "thursday", "friday", "saturday"}
  /\ \A d \in DayNames : Weekday[d] \in 0..6 /\ Order(d) \in 1..7
BY DEF DayNames, Weekday, Order

(* No expression of time is among the other words. *)
LEMMA PhrasesAreApart == AllPhrases \cap OtherWords = {}
BY WordsAssumption, DayNamesAre DEF AllPhrases, Marks

(* The first of some names is one of them. *)
LEMMA FirstNameIsOne ==
  ASSUME NEW names \in SUBSET DayNames, names # {}
  PROVE  FirstName(names) \in names
<1>1. \E d \in names : \A e \in names : Order(d) <= Order(e)
  <2>1. \A d \in names : d \in {"sunday", "monday", "tuesday", "wednesday", "thursday",
                                "friday", "saturday"}
    BY DayNamesAre
  <2>2. /\ Order("monday") = 1 /\ Order("tuesday") = 2 /\ Order("wednesday") = 3
        /\ Order("thursday") = 4 /\ Order("friday") = 5 /\ Order("saturday") = 6
        /\ Order("sunday") = 7
    BY DEF Order, Weekday
  <2>3. CASE "monday" \in names
    BY <2>1, <2>2, <2>3
  <2>4. CASE "monday" \notin names /\ "tuesday" \in names
    BY <2>1, <2>2, <2>4
  <2>5. CASE {"monday", "tuesday"} \cap names = {} /\ "wednesday" \in names
    BY <2>1, <2>2, <2>5
  <2>6. CASE {"monday", "tuesday", "wednesday"} \cap names = {} /\ "thursday" \in names
    BY <2>1, <2>2, <2>6
  <2>7. CASE {"monday", "tuesday", "wednesday", "thursday"} \cap names = {}
    BY <2>1, <2>2, <2>7
  <2>8. QED
    BY <2>3, <2>4, <2>5, <2>6, <2>7
<1>2. QED
  BY <1>1 DEF FirstName

(* Going back from day q, by the days of the week, to the last day of that *)
(* number before it.                                                       *)
LEMMA LastSuchDay ==
  ASSUME NEW q \in Int, NEW w \in 0..6
  PROVE  LET diff == ((q + 4) % 7) - w
             back == IF diff <= 0 THEN diff + 7 ELSE diff
         IN  /\ back \in 1..7
             /\ q - back \in (q - 7)..(q - 1) /\ (q - back + 4) % 7 = w
             /\ \A d \in (q - 7)..(q - 1) : (d + 4) % 7 = w => d = q - back
OBVIOUS

LEMMA LastMonday ==
  ASSUME NEW q \in Int
  PROVE  LET since == IF (q + 4) % 7 = 0 THEN 6 ELSE ((q + 4) % 7) - 1
         IN  /\ since \in 0..6
             /\ q - since \in (q - 6)..q /\ (q - since + 4) % 7 = 1
             /\ \A d \in (q - 6)..q : (d + 4) % 7 = 1 => d = q - since
OBVIOUS

LEMMA MondayIsThis ==
  ASSUME DayNumber \in Nat, today = DayNumber * Day
  PROVE  /\ ThisMonday \in (DayNumber - 6)..DayNumber
         /\ WeekStart = ThisMonday * Day
<1> DEFINE q     == DayNumber
           since == IF (q + 4) % 7 = 0 THEN 6 ELSE ((q + 4) % 7) - 1
<1>1. /\ since \in 0..6
      /\ q - since \in (q - 6)..q /\ (q - since + 4) % 7 = 1
      /\ \A d \in (q - 6)..q : (d + 4) % 7 = 1 => d = q - since
  BY LastMonday
<1>2. ThisMonday = q - since
  BY <1>1 DEF ThisMonday, IsMonday
<1>3. DayOfWeek - 1 = since
  BY DEF DayOfWeek, tm_wday, DayNumber
<1> HIDE DEF q, since
<1>4. WeekStart = (q - since) * Day
  BY <1>1, <1>3 DEF WeekStart, q, Day
<1>5. QED
  BY <1>1, <1>2, <1>4 DEF q

LEMMA NamedDay ==
  ASSUME DayNumber \in Nat, NEW name \in DayNames
  PROVE  LET d == DayNumber - DaysBack(name) IN
         /\ d \in (DayNumber - 7)..(DayNumber - 1)
         /\ d = CHOOSE e \in (DayNumber - 7)..(DayNumber - 1) : (e + 4) % 7 = Weekday[name]
<1> DEFINE q    == DayNumber
           w    == Weekday[name]
           diff == ((q + 4) % 7) - w
           back == IF diff <= 0 THEN diff + 7 ELSE diff
<1>1. w \in 0..6 /\ q \in Int
  BY DayNamesAre
<1> HIDE DEF w, q
<1>2. /\ q - back \in (q - 7)..(q - 1) /\ (q - back + 4) % 7 = w
      /\ \A d \in (q - 7)..(q - 1) : (d + 4) % 7 = w => d = q - back
  BY <1>1, LastSuchDay
<1>3. DaysBack(name) = back
  BY DEF DaysBack, tm_wday, DayNumber, w, q
<1> HIDE DEF back
<1>4. q - back = CHOOSE e \in (q - 7)..(q - 1) : (e + 4) % 7 = w
  BY <1>2
<1>5. QED
  BY <1>2, <1>3, <1>4 DEF q, w

(* What is resolved is one range or none, of two times; it begins at a     *)
(* midnight.                                                               *)
LEMMA ResolvedRange ==
  ASSUME DaysKnown, step # "start"
  PROVE  /\ \A r \in Resolved : r \in Nat \X Nat /\ \E k \in Nat : r[1] = k * Day
         /\ Resolved = {} \/ \E r : Resolved = {r}
<1> DEFINE q     == DayNumber
           named == query \cap DayNames
<1>1. q \in Nat /\ q >= 14 /\ today = q * Day /\ now \in Nat
  BY DEF DaysKnown
<1>2. \A d \in Nat : /\ d * Day \in Nat
                     /\ d * Day + Day - 1 \in Nat
                     /\ WholeDay(d * Day) = {<<d * Day, d * Day + Day - 1>>}
  BY DEF WholeDay, Day
<1>3. ThisMonday \in (q - 6)..q /\ WeekStart = ThisMonday * Day
  BY <1>1, MondayIsThis
<1>4. ASSUME named # {}
      PROVE  LET d == q - DaysBack(FirstName(named)) IN
             d \in Nat /\ today - DaysBack(FirstName(named)) * Day = d * Day
  <2>1. FirstName(named) \in DayNames
    BY <1>4, FirstNameIsOne
  <2> DEFINE back == DaysBack(FirstName(named))
  <2>2. back \in Int
    BY <1>1, <2>1, DayNamesAre DEF DaysBack, tm_wday, Day
  <2>3. q - back \in (q - 7)..(q - 1)
    BY <1>1, <2>1, NamedDay
  <2> HIDE DEF back, q
  <2>4. q - back \in Nat /\ q * Day - back * Day = (q - back) * Day
    BY <1>1, <2>2, <2>3 DEF Day
  <2>5. QED
    BY <1>1, <2>4 DEF back
<1> HIDE DEF q
<1>5. /\ q - 1 \in Nat /\ today - Day = (q - 1) * Day
      /\ ThisMonday \in Nat /\ ThisMonday - 7 \in Nat
      /\ WeekStart \in Nat /\ WeekStart - 1 \in Nat
      /\ WeekStart - 7 * Day = (ThisMonday - 7) * Day /\ WeekStart - 7 * Day \in Nat
  BY <1>1, <1>3 DEF Day
<1>6. \/ Resolved = {}
      \/ \E d \in Nat : Resolved = WholeDay(d * Day)
      \/ Resolved = {<<WeekStart, now>>}
      \/ Resolved = {<<WeekStart - 7 * Day, WeekStart - 1>>}
  <2>1. \/ Resolved = WholeDay(today)
        \/ Resolved = WholeDay(today - Day)
        \/ Resolved = {<<WeekStart, now>>}
        \/ Resolved = {<<WeekStart - 7 * Day, WeekStart - 1>>}
        \/ named # {} /\ Resolved = WholeDay(today - DaysBack(FirstName(named)) * Day)
        \/ Resolved = {}
    BY DEF Resolved
  <2> HIDE DEF named
  <2>2. QED
    BY <1>1, <1>4, <1>5, <2>1
<1>7. CASE Resolved = {}
  BY <1>7
<1>8. CASE \E d \in Nat : Resolved = WholeDay(d * Day)
  <2>1. PICK d \in Nat : Resolved = WholeDay(d * Day)
    BY <1>8
  <2>2. Resolved = {<<d * Day, d * Day + Day - 1>>}
    BY <1>2, <2>1
  <2>3. <<d * Day, d * Day + Day - 1>> \in Nat \X Nat
    BY <1>2
  <2>4. ASSUME NEW r \in Resolved
        PROVE  r \in Nat \X Nat /\ \E k \in Nat : r[1] = k * Day
    <3>1. r = <<d * Day, d * Day + Day - 1>>
      BY <2>2
    <3>2. r[1] = d * Day
      BY <3>1
    <3>3. QED
      BY <2>3, <3>1, <3>2
  <2>5. QED
    BY <2>2, <2>4
<1>9. CASE Resolved = {<<WeekStart, now>>}
  BY <1>1, <1>3, <1>5, <1>9
<1>10. CASE Resolved = {<<WeekStart - 7 * Day, WeekStart - 1>>}
  BY <1>5, <1>10
<1>11. QED
  BY <1>6, <1>7, <1>8, <1>9, <1>10

(* The parser's state is well typed: a query is given one range at most,   *)
(* and no time before the epoch, and one type at most.                     *)
THEOREM ParserTypeCorrect == ParserSpec => []ParserTypeOK
<1>1. ParserInv => ParserTypeOK
  <2> SUFFICES ASSUME ParserInv PROVE ParserTypeOK
    OBVIOUS
  <2>1. Cardinality({}) = 0 /\ \A x : Cardinality({x}) = 1
    BY FS_EmptySet, FS_Singleton
  <2>2. Cardinality(range) <= 1 /\ \A r \in range : r \in Nat \X Nat
    <3>1. CASE step \in {"start", "range"}
      BY <2>1, <3>1 DEF ParserInv
    <3>2. CASE step \notin {"start", "range"}
      <4>1. /\ \A r \in Resolved : r \in Nat \X Nat
            /\ Resolved = {} \/ \E r : Resolved = {r}
        BY <3>2, ResolvedRange DEF ParserInv
      <4>2. /\ \A r \in InWorkHours : r \in Nat \X Nat
            /\ InWorkHours = {} \/ \E r : InWorkHours = {r}
        <5>1. \A r \in Nat \X Nat : HoursOf(r) \in Nat \X Nat
          BY DEF HoursOf
        <5>2. QED
          BY <4>1, <5>1 DEF InWorkHours
      <4>3. range = Resolved \/ range = InWorkHours
        BY <3>2 DEF ParserInv
      <4>4. range = {} \/ \E r : range = {r}
        BY <4>1, <4>2, <4>3
      <4>5. Cardinality(range) = 0 \/ Cardinality(range) = 1
        BY <2>1, <4>4
      <4>6. QED
        BY <4>1, <4>2, <4>3, <4>5
    <3>3. QED
      BY <3>1, <3>2
  <2>3. Cardinality(event_type) <= 1 /\ event_type \subseteq DOMAIN NameParts
    <3>1. event_type = {} \/ \E type \in DOMAIN NameParts : event_type = {type}
      BY DEF ParserInv, TypeSaid, NameParts
    <3>2. Cardinality(event_type) = 0 \/ Cardinality(event_type) = 1
      BY <2>1, <3>1
    <3>3. QED
      BY <3>1, <3>2
  <2>4. QED
    BY <2>2, <2>3 DEF ParserTypeOK, ParserInv, DaysKnown
<1>2. QED
  BY <1>1, ParserInvariant, PTL

LEMMA EndsOfDays ==
  ASSUME NEW a \in Int, NEW b \in Int, a <= b
  PROVE  Min(a..b) = a /\ Max(a..b) = b
<1>1. a \in a..b /\ b \in a..b /\ \A x \in a..b : x \in Int /\ a <= x /\ x <= b
  OBVIOUS
<1>2. Min(a..b) = a
  <2>1. \A x \in a..b : (\A y \in a..b : x <= y) <=> x = a
    BY <1>1
  <2>2. QED
    BY <1>1, <2>1 DEF Min
<1>3. Max(a..b) = b
  <2>1. \A x \in a..b : (\A y \in a..b : x >= y) <=> x = b
    BY <1>1
  <2>2. QED
    BY <1>1, <2>1 DEF Max
<1>4. QED
  BY <1>2, <1>3

(* One expression of time gives the days it means, from midnight to the    *)
(* last second, whatever the clock does while the query is parsed; "this   *)
(* week" ends with the second at which the clock is read for it.           *)
THEOREM RangeIsMeant == ParserSpec => []RangeIsDaysMeant
<1>1. ParserInv => RangeIsDaysMeant
  <2> SUFFICES ASSUME ParserInv, step = "hours",
                      NEW phrase \in Phrases \ {"work_hours"},
                      (query \cap Phrases) \ {"work_hours"} = {phrase}
               PROVE  \E r \in range :
                        /\ r[1] = Min(Meant(phrase)) * Day
                        /\ r[2] = IF phrase = "this_week" THEN now
                                  ELSE (Max(Meant(phrase)) + 1) * Day - 1
    BY DEF RangeIsDaysMeant
  <2> DEFINE q == DayNumber
  <2>1. /\ DaysKnown /\ range = Resolved
        /\ q \in Nat /\ q >= 14 /\ today = q * Day /\ now \in Nat
    BY DEF ParserInv, DaysKnown
  <2>2. /\ phrase \in AllPhrases /\ phrase # "work_hours"
        /\ \A x \in AllPhrases \ {"work_hours"} : x \in query <=> x = phrase
    BY <2>1, PhrasesAssumption, PhrasesAreApart DEF DaysKnown
  <2>3. DayNames = {"sunday", "monday", "tuesday", "wednesday", "thursday", "friday", "saturday"}
    BY DayNamesAre
  <2>4. \A d \in Nat : WholeDay(d * Day) = {<<d * Day, (d + 1) * Day - 1>>}
    BY DEF WholeDay, Day
  <2>5. \A d \in Nat : Min({d}) = d /\ Max({d}) = d
    <3> SUFFICES ASSUME NEW d \in Nat PROVE Min({d}) = d /\ Max({d}) = d
      OBVIOUS
    <3>1. d..d = {d} /\ d \in Int /\ d <= d
      OBVIOUS
    <3>2. Min(d..d) = d /\ Max(d..d) = d
      BY <3>1, EndsOfDays
    <3>3. QED
      BY <3>1, <3>2
  <2>6. /\ ThisMonday \in (q - 6)..q /\ WeekStart = ThisMonday * Day
    BY <2>1, MondayIsThis
  <2>7. ASSUME NEW d \in Nat, range = WholeDay(d * Day), Meant(phrase) = {d},
               phrase # "this_week"
        PROVE  \E r \in range :
                 /\ r[1] = Min(Meant(phrase)) * Day
                 /\ r[2] = IF phrase = "this_week" THEN now
                           ELSE (Max(Meant(phrase)) + 1) * Day - 1
    <3>1. range = {<<d * Day, (d + 1) * Day - 1>>}
      BY <2>4, <2>7
    <3>2. Min(Meant(phrase)) = d /\ Max(Meant(phrase)) = d
      BY <2>5, <2>7
    <3>3. LET r == <<d * Day, (d + 1) * Day - 1>> IN
          /\ r \in range
          /\ r[1] = Min(Meant(phrase)) * Day
          /\ r[2] = (Max(Meant(phrase)) + 1) * Day - 1
      BY <3>1, <3>2
    <3>4. QED
      BY <2>7, <3>3
  <2>8. CASE phrase = "today"
    <3>1. range = WholeDay(q * Day)
      BY <2>1, <2>2, <2>8 DEF Resolved, AllPhrases
    <3>2. Meant(phrase) = {q}
      BY <2>8 DEF Meant
    <3>3. QED
      BY <2>1, <2>7, <2>8, <3>1, <3>2
  <2>9. CASE phrase = "yesterday"
    <3>1. "today" \notin query /\ "yesterday" \in query
      BY <2>2, <2>9 DEF AllPhrases
    <3>2. q - 1 \in Nat /\ today - Day = (q - 1) * Day
      <4> HIDE DEF q
      <4>1. QED
        BY <2>1 DEF Day
    <3>3. range = WholeDay((q - 1) * Day)
      BY <2>1, <3>1, <3>2 DEF Resolved
    <3>4. Meant(phrase) = {q - 1}
      BY <2>9 DEF Meant
    <3>5. QED
      BY <2>7, <2>9, <3>2, <3>3, <3>4
  <2>10. CASE phrase = "this_week"
    <3>1. "today" \notin query /\ "yesterday" \notin query /\ "this_week" \in query
      BY <2>2, <2>10 DEF AllPhrases
    <3>2. range = {<<WeekStart, now>>}
      BY <2>1, <3>1 DEF Resolved
    <3>3. Meant(phrase) = ThisMonday..(ThisMonday + 6)
      BY <2>10 DEF Meant
    <3>4. ThisMonday \in Int /\ Min(Meant(phrase)) = ThisMonday
      BY <2>1, <2>6, <3>3, EndsOfDays
    <3>5. QED
      BY <2>6, <2>10, <3>2, <3>4
  <2>11. CASE phrase = "last_week"
    <3>1. /\ "today" \notin query /\ "yesterday" \notin query /\ "this_week" \notin query
          /\ "last_week" \in query
      BY <2>2, <2>11 DEF AllPhrases
    <3>2. range = {<<WeekStart - 7 * Day, WeekStart - 1>>}
      BY <2>1, <3>1 DEF Resolved
    <3>3. Meant(phrase) = (ThisMonday - 7)..(ThisMonday - 1)
      BY <2>11 DEF Meant
    <3>4. ThisMonday \in Int
      BY <2>1, <2>6
    <3>5. Min(Meant(phrase)) = ThisMonday - 7 /\ Max(Meant(phrase)) = ThisMonday - 1
      BY <3>3, <3>4, EndsOfDays
    <3>6. /\ WeekStart - 7 * Day = (ThisMonday - 7) * Day
          /\ WeekStart - 1 = (ThisMonday - 1 + 1) * Day - 1
      BY <2>6, <3>4 DEF Day
    <3>7. QED
      BY <2>11, <3>2, <3>5, <3>6
  <2>12. CASE phrase \in DayNames
    <3> DEFINE d == q - DaysBack(phrase)
    <3>1. /\ "today" \notin query /\ "yesterday" \notin query /\ "this_week" \notin query
          /\ "last_week" \notin query /\ query \cap DayNames = {phrase}
      BY <2>2, <2>3, <2>12 DEF AllPhrases
    <3>2. FirstName({phrase}) = phrase
      BY <2>3, <2>12, FirstNameIsOne
    <3>3. d \in (q - 7)..(q - 1) /\ Meant(phrase) = {d}
      BY <2>1, <2>3, <2>12, NamedDay DEF Meant
    <3>4. DaysBack(phrase) \in Int
      BY <2>1, <2>12, DayNamesAre DEF DaysBack, tm_wday, Day
    <3>5. d \in Nat /\ today - DaysBack(phrase) * Day = d * Day
      <4>1. q \in Nat /\ q >= 14 /\ today = q * Day
        BY <2>1
      <4> HIDE DEF q
      <4>2. QED
        BY <3>3, <3>4, <4>1 DEF Day
    <3>6. range = WholeDay(d * Day)
      BY <2>1, <3>1, <3>2, <3>5 DEF Resolved
    <3>7. phrase # "this_week"
      BY <2>3, <2>12
    <3> HIDE DEF d
    <3>8. QED
      BY <2>7, <3>3, <3>5, <3>6, <3>7
  <2>13. QED
    BY <2>2, <2>8, <2>9, <2>10, <2>11, <2>12 DEF AllPhrases
<1>2. QED
  BY <1>1, ParserInvariant, PTL

(* Work hours are eight hours of the range, from nine o'clock on its first *)
(* day.                                                                    *)
THEOREM WorkHoursAreNineToFive == ParserSpec => []WorkHoursOfDay
<1>1. ParserInv => WorkHoursOfDay
  <2> SUFFICES ASSUME ParserInv, step = "done", "work_hours" \in query, NEW r \in range
               PROVE  /\ r[2] - r[1] = 8 * 3600 - 1
                      /\ (r[1] % Day) \div 3600 = 9
    BY DEF WorkHoursOfDay
  <2>1. PICK s \in Resolved : r = HoursOf(s)
    BY DEF ParserInv, InWorkHours
  <2>2. PICK k \in Nat : s[1] = k * Day
    BY ResolvedRange DEF ParserInv
  <2>3. r = <<k * Day + 9 * 3600, k * Day + 9 * 3600 + 8 * 3600 - 1>>
    BY <2>1, <2>2 DEF HoursOf
  <2>4. r[1] = k * Day + 9 * 3600 /\ r[2] = k * Day + 9 * 3600 + 8 * 3600 - 1
    BY <2>3
  <2>5. ((k * Day + 9 * 3600) % Day) \div 3600 = 9
    BY DEF Day
  <2>6. k * Day \in Nat
    BY DEF Day
  <2>7. QED
    BY <2>4, <2>5, <2>6
<1>2. QED
  BY <1>1, ParserInvariant, PTL

(* What a query says is said by its words other than "did".                *)
LEMMA SaidByWords ==
  ASSUME NEW marks
  PROVE  Says(marks) <=> \E w \in (query \cap OtherWords) \ {"did"} : Marks[w] \cap marks # {}
<1>1. Marks["did"] = {}
  BY DEF Marks
<1>2. QED
  BY <1>1 DEF Says

(* All words of time expressions, and "did", are left out of the keywords. *)
LEMMA KeywordsAreWords ==
  WordsLeft = ((query \cap OtherWords) \ {"did"}) \ StopWords
<1>1. \A e \in query \cap Phrases : Spelt(e) \subseteq StopWords
  <2>1. \A e \in AllPhrases : Spelt(e) \subseteq StopWords
    BY DayNamesAre DEF AllPhrases, Spelt, StopWords
  <2>2. QED
    BY <2>1, PhrasesAssumption
<1>2. "did" \in StopWords
  BY DEF StopWords
<1>3. QED
  BY <1>1, <1>2 DEF WordsLeft

(* A question that names a type of events by any of its words, beside any  *)
(* expressions of time, is given that type, and no keyword that could keep *)
(* an event of it from being found.                                        *)
THEOREM QuestionsAreUnderstood == ParserSpec => []QuestionGetsItsEvents
<1>1. ParserInv => QuestionGetsItsEvents
  <2> DEFINE words == (query \cap OtherWords) \ {"did"}
  <2> SUFFICES ASSUME ParserInv, step = "done", NEW type \in DOMAIN Question, Asks(type)
               PROVE  /\ event_type = {type}
                      /\ keywords = {} \/ keywords \cap NameParts[type] # {}
    BY DEF QuestionGetsItsEvents
  <2>1. event_type = TypeSaid /\ keywords = words \ StopWords
    BY KeywordsAreWords DEF ParserInv
  <2>2. /\ words # {} /\ words \subseteq Question[type]
        /\ "files" \in Question[type] => words = Question[type]
    BY DEF Asks
  <2>3. \A marks : Says(marks) <=> \E w \in words : Marks[w] \cap marks # {}
    BY SaidByWords
  <2> HIDE DEF words
  <2>4. /\ Marks["files"] = {"file"} /\ Marks["edited"] = {"edit"} /\ Marks["opened"] = {"open"}
        /\ Marks["websites"] = {"website"} /\ Marks["visited"] = {"visit"}
        /\ Marks["browser"] = {"browser"} /\ Marks["clipboard"] = {"clipboard"}
        /\ Marks["copy"] = {"copy"} /\ Marks["window"] = {"window"}
        /\ Marks["focus"] = {"focus"} /\ Marks["screenshot"] = {"screenshot"}
    BY DEF Marks
  <2>5. CASE type = "FileModified"
    <3>1. words = {"files", "edited"}
      BY <2>2, <2>5 DEF Question
    <3>2. Says({"file"}) /\ Says({"edit", "modif"})
      BY <2>3, <2>4, <3>1
    <3>3. QED
      BY <2>1, <2>5, <3>1, <3>2 DEF TypeSaid, StopWords
  <2>6. CASE type = "FileOpened"
    <3>1. words = {"files", "opened"}
      BY <2>2, <2>6 DEF Question
    <3>2. Says({"file"}) /\ ~Says({"edit", "modif"}) /\ Says({"open"})
      BY <2>3, <2>4, <3>1
    <3>3. QED
      BY <2>1, <2>6, <3>1, <3>2 DEF TypeSaid, StopWords
  <2>7. CASE type = "BrowserVisit"
    <3>1. words # {} /\ words \subseteq {"websites", "visited", "browser"}
      BY <2>2, <2>7 DEF Question
    <3>2. ~Says({"file"}) /\ Says({"website", "browser", "visit"})
      <4>1. \A w \in words : /\ Marks[w] \cap {"file"} = {}
                             /\ Marks[w] \cap {"website", "browser", "visit"} # {}
        BY <2>4, <3>1
      <4>2. QED
        BY <2>3, <3>1, <4>1
    <3>3. QED
      BY <2>1, <2>7, <3>1, <3>2 DEF TypeSaid, StopWords
  <2>8. CASE type = "ClipboardCopy"
    <3>1. words # {} /\ words \subseteq {"clipboard", "copy"}
      BY <2>2, <2>8 DEF Question
    <3>2. /\ ~Says({"file"}) /\ ~Says({"website", "browser", "visit"})
          /\ Says({"clipboard", "copied", "copy"})
      <4>1. \A w \in words : /\ Marks[w] \cap {"file"} = {}
                             /\ Marks[w] \cap {"website", "browser", "visit"} = {}
                             /\ Marks[w] \cap {"clipboard", "copied", "copy"} # {}
        BY <2>4, <3>1
      <4>2. QED
        BY <2>3, <3>1, <4>1
    <3>3. event_type = {type}
      BY <2>1, <2>8, <3>2 DEF TypeSaid
    <3>4. keywords \subseteq {"copy"}
      BY <2>1, <3>1 DEF StopWords
    <3>5. "copy" \in NameParts[type]
      BY <2>8 DEF NameParts
    <3>6. QED
      BY <3>3, <3>4, <3>5
  <2>9. CASE type = "WindowFocus"
    <3>1. words # {} /\ words \subseteq {"window", "focus"}
      BY <2>2, <2>9 DEF Question
    <3>2. /\ ~Says({"file"}) /\ ~Says({"website", "browser", "visit"})
          /\ ~Says({"clipboard", "copied", "copy"}) /\ Says({"window", "focus"})
      <4>1. \A w \in words : /\ Marks[w] \cap {"file"} = {}
                             /\ Marks[w] \cap {"website", "browser", "visit"} = {}
                             /\ Marks[w] \cap {"clipboard", "copied", "copy"} = {}
                             /\ Marks[w] \cap {"window", "focus"} # {}
        BY <2>4, <3>1
      <4>2. QED
        BY <2>3, <3>1, <4>1
    <3>3. event_type = {type}
      BY <2>1, <2>9, <3>2 DEF TypeSaid
    <3>4. keywords \subseteq {"focus"}
      BY <2>1, <3>1 DEF StopWords
    <3>5. "focus" \in NameParts[type]
      BY <2>9 DEF NameParts
    <3>6. QED
      BY <3>3, <3>4, <3>5
  <2>10. CASE type = "ScreenshotCaptured"
    <3>1. words = {"screenshot"}
      BY <2>2, <2>10 DEF Question
    <3>2. /\ ~Says({"file"}) /\ ~Says({"website", "browser", "visit"})
          /\ ~Says({"clipboard", "copied", "copy"}) /\ ~Says({"window", "focus"})
          /\ Says({"screenshot"})
      BY <2>3, <2>4, <3>1
    <3>3. QED
      BY <2>1, <2>10, <3>1, <3>2 DEF TypeSaid, StopWords
  <2>11. QED
    BY <2>5, <2>6, <2>7, <2>8, <2>9, <2>10 DEF Question
<1>2. QED
  BY <1>1, ParserInvariant, PTL

=============================================================================
