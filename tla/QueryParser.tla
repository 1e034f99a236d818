----------------------------- MODULE QueryParser -----------------------------
(***************************************************************************)
(* QueryParser::parse: the time range, the type of events and the keywords *)
(* that a query asks for, as against the days and the events its words     *)
(* mean.  Times are in seconds since the epoch, days are those of UTC.  A  *)
(* query is a set of time expressions and of other words, in lower case;   *)
(* neither their order nor their number matters to the parser.  The parser *)
(* and the executor serve the same command: no name here is one of Search. *)
(***************************************************************************)
EXTENDS Integers, FiniteSets, FiniteSetsExt

CONSTANTS
    Clocks,      \* the seconds at which the clock may be read
    Phrases,     \* the time expressions that may occur in a query; a blank in
                 \* one is written as an underscore
    OtherWords,  \* the other words that may
    MaxPhrases   \* bound on how many of both do

Weekday == [sunday |-> 0, monday |-> 1, tuesday |-> 2, wednesday |-> 3,
            thursday |-> 4, friday |-> 5, saturday |-> 6]
DayNames == DOMAIN Weekday
AllPhrases == DayNames \cup {"today", "yesterday", "this_week", "last_week", "work_hours"}

(* An event is indexed under the name of its type as well; which of the    *)
(* words below are in which name, once in lower case.                      *)
NameParts ==
    [FileModified |-> {"modified"}, FileOpened |-> {"opened"}, BrowserVisit |-> {"browser"},
     ClipboardCopy |-> {"clipboard", "copy"}, WindowFocus |-> {"window", "focus"},
     ScreenshotCaptured |-> {"screenshot"}]

(* What a word of the query makes find() find. *)
Marks ==
    [files |-> {"file"}, profile |-> {"file"}, edited |-> {"edit"}, opened |-> {"open"},
     modified |-> {"modif"}, websites |-> {"website"}, browser |-> {"browser"},
     visited |-> {"visit"}, clipboard |-> {"clipboard"}, copied |-> {"copied"},
     copy |-> {"copy"}, window |-> {"window"}, focus |-> {"focus"},
     screenshot |-> {"screenshot"}, report |-> {}, did |-> {}]

ASSUME ClocksAssumption  == \A n \in Clocks : n \in Nat /\ n >= 14 * 86400
ASSUME PhrasesAssumption == Phrases \subseteq AllPhrases
ASSUME WordsAssumption   == OtherWords \subseteq DOMAIN Marks
ASSUME BoundAssumption   == MaxPhrases \in Nat

VARIABLES
    step,        \* "start", "range", "hours", "type", "keywords", "done"
    query,       \* the expressions that occur in it; a day name stands for
                 \* "last " with that name
    now,         \* the clock
    today,       \* ts: the start of the day, as read at the start
    range,       \* time_start and time_end: none, or one pair
    event_type,  \* none, or one
    keywords

parser_vars == <<step, query, now, today, range, event_type, keywords>>

Day == 86400

StartOfDay(time) == (time \div Day) * Day

ParserTypeOK ==
    /\ step \in {"start", "range", "hours", "type", "keywords", "done"}
    /\ query \subseteq Phrases \cup OtherWords
    /\ now \in Nat /\ today \in Nat
    /\ Cardinality(range) <= 1 /\ \A r \in range : r \in Nat \X Nat
    /\ Cardinality(event_type) <= 1 /\ event_type \subseteq DOMAIN NameParts

(* What at most so many expressions and words can be. *)
Queries ==
    {{}} \cup {{f[i] : i \in DOMAIN f} : f \in [1..MaxPhrases -> Phrases \cup OtherWords]}

ParserInit ==
    /\ step = "start"
    /\ query \in Queries
    /\ now \in Clocks
    /\ today = 0 /\ range = {} /\ event_type = {} /\ keywords = {}

-----------------------------------------------------------------------------

(* gmtime_r(): the first of January 1970 was a Thursday. *)
tm_wday(time) == (time \div Day + 4) % 7

TodayStart ==
    /\ step = "start"
    /\ today' = StartOfDay(now)
    /\ step' = "range"
    /\ UNCHANGED <<query, now, range, event_type, keywords>>

(* The clock goes on between its two readings. *)
Tick ==
    /\ step = "range"
    /\ now + 1 \in Clocks
    /\ now' = now + 1
    /\ UNCHANGED <<step, query, today, range, event_type, keywords>>

DayOfWeek == IF tm_wday(today) = 0 THEN 7 ELSE tm_wday(today)

WeekStart == today - (DayOfWeek - 1) * Day

(* Mutant of DaysBack: on the day itself, "last" means today. *)
DaysBackMutant(name) ==
    LET diff == tm_wday(today) - Weekday[name] IN
    IF diff < 0 THEN diff + 7 ELSE diff

DaysBack(name) ==
    LET diff == tm_wday(today) - Weekday[name] IN
    IF diff <= 0 THEN diff + 7 ELSE diff

(* The order in which the day names are tried. *)
Order(name) == IF name = "sunday" THEN 7 ELSE Weekday[name]
FirstName(names) == CHOOSE d \in names : \A e \in names : Order(d) <= Order(e)

WholeDay(start) == {<<start, start + Day - 1>>}

(* The first of these that occurs decides. *)
Resolved ==
    LET named == query \cap DayNames IN
    IF "today" \in query THEN WholeDay(today)
    ELSE IF "yesterday" \in query THEN WholeDay(today - Day)
    ELSE IF "this_week" \in query THEN {<<WeekStart, now>>}
    ELSE IF "last_week" \in query THEN {<<WeekStart - 7 * Day, WeekStart - 1>>}
    ELSE IF named # {} THEN WholeDay(today - DaysBack(FirstName(named)) * Day)
    ELSE {}

ResolveRange ==
    /\ step = "range"
    /\ range' = Resolved
    /\ step' = "hours"
    /\ UNCHANGED <<query, now, today, event_type, keywords>>

(* Mutant of HoursOf: the end counts from the old start of the range. *)
HoursOfMutant(r) == <<r[1] + 9 * 3600, r[1] + 8 * 3600 - 1>>

(* 9:00 to 17:00: time_start has moved on when time_end is computed. *)
HoursOf(r) ==
    LET start == r[1] + 9 * 3600 IN <<start, start + 8 * 3600 - 1>>

WorkHours ==
    /\ step = "hours"
    /\ range' = IF "work_hours" \in query THEN {HoursOf(r) : r \in range} ELSE range
    /\ step' = "type"
    /\ UNCHANGED <<query, now, today, event_type, keywords>>

-----------------------------------------------------------------------------
(* The type of events, and the keywords.                                   *)

Says(marks) == \E w \in query \cap OtherWords : Marks[w] \cap marks # {}

(* The first noun decides; of files, which verb. *)
TypeSaid ==
    IF Says({"file"}) THEN
        IF Says({"edit", "modif"}) THEN {"FileModified"}
        ELSE IF Says({"open"}) THEN {"FileOpened"} ELSE {}
    ELSE IF Says({"website", "browser", "visit"}) THEN {"BrowserVisit"}
    ELSE IF Says({"clipboard", "copied", "copy"}) THEN {"ClipboardCopy"}
    ELSE IF Says({"window", "focus"}) THEN {"WindowFocus"}
    ELSE IF Says({"screenshot"}) THEN {"ScreenshotCaptured"}
    ELSE {}

ResolveType ==
    /\ step = "type"
    /\ event_type' = TypeSaid
    /\ step' = "keywords"
    /\ UNCHANGED <<query, now, today, range, keywords>>

(* The words of a time expression. *)
Spelt(phrase) ==
    IF phrase \in DayNames THEN {"last", phrase}
    ELSE IF phrase = "this_week" THEN {"this", "week"}
    ELSE IF phrase = "last_week" THEN {"last", "week"}
    ELSE IF phrase = "work_hours" THEN {"work", "hours"}
    ELSE {phrase}

(* Mutant of StopWords: the words of one expression are not all there. *)
StopWordsMutant ==
    DayNames \cup {"today", "yesterday", "last", "week", "work", "did", "files",
                   "edited", "opened", "websites", "visited", "browser", "window",
                   "clipboard", "screenshot"}

(* Those that occur here. *)
StopWords ==
    DayNames \cup {"today", "yesterday", "last", "this", "week", "work", "hours", "did",
                   "files", "edited", "opened", "websites", "visited", "browser",
                   "window", "clipboard", "screenshot"}

ExtractKeywords ==
    /\ step = "keywords"
    /\ keywords' = ((query \cap OtherWords) \cup UNION {Spelt(e) : e \in query \cap Phrases})
                     \ StopWords
    /\ step' = "done"
    /\ UNCHANGED <<query, now, today, range, event_type>>

ParserNext ==
    TodayStart \/ Tick \/ ResolveRange \/ WorkHours \/ ResolveType \/ ExtractKeywords

ParserSpec == ParserInit /\ [][ParserNext]_parser_vars

-----------------------------------------------------------------------------
(* What the expressions mean, in days.                                     *)

DayNumber == today \div Day
IsMonday(d) == (d + 4) % 7 = 1
ThisMonday == CHOOSE d \in (DayNumber - 6)..DayNumber : IsMonday(d)

Meant(phrase) ==
    IF phrase = "today" THEN {DayNumber}
    ELSE IF phrase = "yesterday" THEN {DayNumber - 1}
    ELSE IF phrase = "this_week" THEN ThisMonday..(ThisMonday + 6)
    ELSE IF phrase = "last_week" THEN (ThisMonday - 7)..(ThisMonday - 1)
    ELSE {CHOOSE d \in (DayNumber - 7)..(DayNumber - 1) :
              (d + 4) % 7 = Weekday[phrase]}

Span(days) == Min(days) * Day .. (Max(days) + 1) * Day - 1

(* When one expression says which days are meant, the range is those days, *)
(* from midnight to the last second - but for "this week", which ends now, *)
(* even if midnight has passed since the first look at the clock.          *)
RangeIsDaysMeant ==
    step = "hours" =>
        \A phrase \in Phrases \ {"work_hours"} :
            (query \cap Phrases) \ {"work_hours"} = {phrase} =>
                \E r \in range :
                    /\ r[1] = Min(Meant(phrase)) * Day
                    /\ r[2] = IF phrase = "this_week" THEN now
                              ELSE (Max(Meant(phrase)) + 1) * Day - 1

(* With a day, work hours are eight hours of that day, from nine o'clock.  *)
WorkHoursOfDay ==
    step = "done" /\ "work_hours" \in query =>
        \A r \in range :
            /\ r[2] - r[1] = 8 * 3600 - 1
            /\ (r[1] % Day) \div 3600 = 9

(* The words README.md and the tests use to ask for events of each type.   *)
Question ==
    [FileModified |-> {"files", "edited"}, FileOpened |-> {"files", "opened"},
     BrowserVisit |-> {"websites", "visited", "browser"},
     ClipboardCopy |-> {"clipboard", "copy"}, WindowFocus |-> {"window", "focus"},
     ScreenshotCaptured |-> {"screenshot"}]

Asks(type) ==
    LET words == (query \cap OtherWords) \ {"did"} IN
    /\ words # {} /\ words \subseteq Question[type]
    /\ "files" \in Question[type] => words = Question[type]

(* A question made of such words and of any expressions of time gets all   *)
(* the events it asks for: it is given their type, and it keeps no keyword *)
(* - then none is looked up - or one that every event of that type has.    *)
QuestionGetsItsEvents ==
    step = "done" =>
        \A type \in DOMAIN Question : Asks(type) =>
            /\ event_type = {type}
            /\ keywords = {} \/ keywords \cap NameParts[type] # {}

=============================================================================
