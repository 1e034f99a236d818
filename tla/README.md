# MindTrace in TLA+

MindTrace records what its user does (windows, web pages, files) as events in a
SQLite file and answers searches and timelines from it.  This directory models
the program in TLA+: its queue, its worker pool, its store, its collectors and
the threads they run on, its search and its timeline.  TLC checks each model on
small instances, and TLAPS proves the most important theorems for instances of
every size.

Paths in this text are relative to the root of the repository; `src/` is its
source, `include/` its headers.

## 1. The system

| Component | State | Operations | Interacts with |
|---|---|---|---|
| `ConcurrentQueue<T>` (`include/core/pipeline/concurrent_queue.hpp`) | a `std::queue`, a mutex, a condition variable, `stopped_` | `push`, `try_pop`, `pop`, `pop_for`, `stop` | used by `EventPipeline` |
| `EventPipeline` | the queue, stages, worker threads, `running_`, `processed_`, pointers to a store and an index | `submit`, `add_stage`, `set_storage`, `set_index`, `start`, `stop`, `worker_loop` | queue, store |
| `EventStore` | a SQLite connection under a mutex; the table is in a file that other processes have open too | `save`, `save_batch`, the `find_by_...` calls, `count`, `clear` | everything |
| `InvertedIndex` | in memory: ids by keyword, by hour, by application, and all ids; one mutex | `add`, three searches, `clear` | filled by the daemon's callback and at the start of every process |
| `QueryParser`, `QueryPlanner`, `QueryExecutor` | none between calls | text to a query, a query to a plan, a plan to results | index and store, call by call |
| `TimelineBuilder` | a gap threshold | `build`, with or without a period | pure; `cmd_timeline` finds the period and gives it the events |
| `BrowserCollector` | a watermark, a polling thread, `running_` | `start`, `stop`, copy Chrome's History and emit new visits | emits to the callback of the daemon |
| `FileSystemCollector` | the modification time remembered for each path, a scanning thread, `running_` | `start`, `stop`, scan | same |
| `WindowFocusCollector` (Windows) | a static `instance_`, a thread with a message loop and a hook, `thread_id_`, the last title and a throttle | `start`, `stop`, `WinEventProc` | same |
| Command line (`apps/cli/main.cpp`) | per process: a store, an index rebuilt at the start; the daemon: three collectors and a flag set by SIGINT | `search`, `timeline`, `stats`, `demo`, `daemon` | processes share the database file and nothing else |
| `ActivityEvent`, tokenizer, configuration, logging, clipboard stub | none that is shared | conversions | - |

What is hard about it, and what it means for each component to be correct:

- **Queue.** `push` and `stop` notify after they have released the mutex;
  `pop_for` may time out with a notification on its way to it.  No wake-up may
  be lost, and `stop` must reach everybody.
- **Pipeline.** Workers race for events, save them in an order of their own,
  and are stopped and started again on a queue that stays stopped for good.
  No event may be lost or handled twice; `stop` must return and leave nothing
  running; the counter must be right also when saves fail.
- **Store.** Several processes, and `save_batch` is a sequence of statements
  whose results nobody looks at and which an exception may leave in the middle.
  Ids must not change their meaning; what was acknowledged must be there.
- **Index and search.** The executor makes several calls, each atomic, while
  events are added or cleared between them.  Results must match the query and
  be complete.
- **Collectors.** Each is a thread that `stop` has to end at whatever point it
  is, over a source (Chrome's file, a directory, the window system) that
  changes under it.  Nothing may be missed or reported twice, whatever fails.
- **Processes.** A kill between saving an event and indexing it, a rebuild while
  another process stores events, Ctrl+C while three threads emit.
- **Parser and timeline.** Arithmetic on days and weeks; boundaries of gaps and
  periods.  The words that choose the type of events are also looked up as keywords
  unless a list says otherwise: a question must not filter away its own answer.

The list of hazards in `PROJECT.json` says where in the code each of these bites.

## 2. Modules

Each component is one module.  A module ending in `Proofs` holds theorems about
the one it is named after; `SearchProofs` does so for `QueryParser` as well, and
`CollectorProofs` for `WindowFocusCollector` and `FileSystemCollector`.  `MC...`
modules and their `.cfg` files are for TLC.

| Module | Models | State and actions in terms of the code |
|---|---|---|
| `BlockingFifo` | what `ConcurrentQueue` promises | the queue, `stopped_`, the operation each thread is inside of; one atomic step for each call that takes effect |
| `ConcurrentQueue` | the implementation | `pc` says where in an operation a thread is: before the mutex, asleep on the condition variable, before the notification.  The code between two such points holds the mutex, and is one action |
| `EventPipeline` | `EventPipeline` over `BlockingFifo` (by `INSTANCE`) | one program counter per worker through `worker_loop`, one for the owner through `start` and `stop` |
| `EventStore` | `EventStore` on SQLite | the committed table, each process's transaction and what it sees; one action for each call of a process, one for each statement of `save_batch` |
| `Search` | `InvertedIndex`, `QueryPlanner`, `QueryExecutor` | the three maps of the index; the executor goes through its plan one look-up at a time |
| `QueryParser` | `parse`: time range, type of events, keywords | one action per reading of the clock, one for the work hours, one each for the type and the keywords |
| `TimelineBuilder` | `build` and `cmd_timeline` | the command reads the clock, then the store; one action per iteration of the loop |
| `CollectorBase` | what the collectors have in common | `running_`, the thread that `start` makes and `stop` joins; the three below extend it |
| `BrowserCollector`, `FileSystemCollector`, `WindowFocusCollector` | the collectors | the thread, its owner in `start` and `stop`, and the outside world as it changes |
| `SearchableLog` | what `MindTrace` promises | one log on the disk that only grows, and what each process finds of it: at the least what had been captured before it began to open the log, never less as long as it stays |
| `MindTrace` | `main.cpp`: processes, commands, the daemon with its collectors' threads, its callback | composes the store (rows are committed as they are saved), the index (a set of ids) and the collectors (each abstracted to where its thread is) |

How they fit together: `ConcurrentQueue` is shown to implement `BlockingFifo`,
and `EventPipeline` is built on `BlockingFifo`, so what is checked of the
pipeline holds with the queue there is.  In `MindTrace` a collector is reduced
to a thread that captures, saves and indexes; the three collector modules say
what they capture.  The index of `MindTrace` is the `all_events_` of `Search`.
`MindTrace` is shown to implement `SearchableLog` (`KeepsTheLog`, and
`MindTraceProofs` for the proof): the log is the table, what a process finds is
its index, an entry is what `save` stores.  `TimelineBuilder` asks a store as
`EventStore` has it.

External behaviour is modelled from how the code uses it and marked so in the
map: `std::condition_variable` (spurious wake-ups included), SQLite in WAL mode
without a busy timeout, the clock, the file system, Chrome, the operating
system's kills.

### Abstractions

- An event's content is a value.  JSON, tokenizing, logging, printing and paths
  are left out.  A keyword is a value, and so is the name of an application, with a
  relation "is a substring of" on each: both are looked up by a part of them.
- A call under a mutex is one action, wherever the code holds the mutex from
  its first access to the state to its last.
- In `EventStore` a failed statement that changes nothing and is reported to
  the caller is no step.  A failed insert in a batch is one (`BatchSkip`):
  nobody looks at it.  The automatic rollback that SQLite does on some errors
  (a full disk) inside a transaction that a batch has left open is not modelled.
- Microseconds and seconds of the browser collector keep their relation with
  `Second`; the constant between the two epochs is left out.  Several visits may
  have the same microsecond.
- Of the walk through the watched directory, `FileSystemCollector` keeps that an
  error ends it: an obstacle appears and goes as it likes, and hides any set of files
  from each scan under which it is there.
- Each thread of the window collector has an id of its own.  Windows may give the id
  of a thread that is gone to another one, also of another program; that is not
  modelled.
- A query is a set of time expressions and of words from a vocabulary; splitting a
  text into words is left out.  What `find()` of a marker finds in each word, and
  which words are part of the name of a type, are tables (`Marks`, `NameParts`).
- The length of a day is a constant of `TimelineBuilder`, so that a small instance
  has midnights in it.
- `FileSystemCollector` has only tracked paths; the filters are constant.
- `MindTrace` has the window collector with a thread (Windows) or without (the
  stub of other systems), by the constant `Threaded`.

## 3. What TLC checks

All runs are exhaustive for their bounds.

| Run | Instance | States | What it shows |
|---|---|---|---|
| `queue` | 3 threads, 2 items, length 2 | 88 thousand | no lost wake-up (`WakeupsCoverItems`), `stop` leaves no sleeper (`StopReachesSleepers`), and the queue implements `BlockingFifo` with its liveness (`KeepsThePromise`) |
| `pipeline` | 2 workers, 3 events | 481 thousand | each event in one place (`EveryEventInOnePlace`), the counter, how far workers may overtake one another (`BoundedOvertaking`), quiet after `stop`, `stop` returns, submitted events are handled |
| `store` | 2 processes, 2 contents, 2 ids, batches of up to 2 | 772 thousand | ids never change their meaning (`IdMeansOneEvent`), acknowledged saves are committed (`AckedIsCommitted`) and seen (`ReadYourWrites`), and a commit keeps all rows or none and adds only ids that were never there (`TableOnlyAppends`) |
| `search` | 2 writers, 2 events, 4 instants in 2 hours, every query, any clock | 1.7 million | results match (`ResultsMatch`), none is missed (`ResultsComplete`) but what an empty query leaves out for its limit and its clock |
| `mindtrace` | a daemon with 2 collector threads and a second process, 2 rows, 2 instants, batches of up to 2 visits | 821 thousand | the index is what it should be (`IndexMatchesDisk`), captured events are found later (`CapturedIsSearchable`), the daemon ends with nothing half done (`GracefulExit`) and does end (`InterruptEndsDaemon`), and all of it implements `SearchableLog` (`KeepsTheLog`) |
| `mindtrace_rebuild` | the same with 3 collector threads | violated | `RebuildIsComplete`, see section 5 |
| `browser` | 3 visits, seconds of 2 microseconds, 4 instants, 2 starts | 244 thousand | late visits, and those that a copy cut off from one of their own microsecond, are all that the watermark passes unemitted (`WatermarkCoversEmitted`) and all that is not emitted in the end (`EventuallyEmitted`); nothing is emitted twice (`EmitsOnlyNew`), `stop` returns |
| `filesystem` | 2 files, 2 modification times, 2 starts, obstacles that come and go | 198 thousand | no time of a file is remembered without an event of its own unless the callback throws (`NoChangeForgotten`), a path is discovered once, a file left alone and in reach comes to be remembered |
| `window` | 3 titles, 3 starts | 551 | `instance_` outlives every callback, `stop` leaves nothing and returns if the hook was installed |
| `window_hook` | 1 title, 2 starts | violated | `StopReturns`, see section 5 |
| `timeline` | stores of up to 4 events, 4 instants, 2 applications, every period, the command at every moment | 396 thousand | sessions cover the events (`SessionsCover`), are maximal (`SessionsAreMaximal`), have the times of their events and every event once (`EachEventOnce`); the command shows the events of the day it was asked for and no others (`TimelineOfTheDay`) |
| `parser` | up to 4 of all 12 expressions and 16 words, 24 instants of 8 days | 4.3 million | the range is that of the days meant (`RangeIsDaysMeant`), work hours are those of a day, and a question in the words of the repository's README and tests gets all the events of its type (`QuestionGetsItsEvents`) |

The type invariant is checked in `queue` alone; that of every other component is
proved.

### Bounds

Every bound is a constant with `Max` in its name or the size of a set.  Why they
are enough:

- *Queue.* A lost wake-up takes a sleeper, a producer, and a third thread that
  takes the item or the notification away; a second item makes an order.
- *Pipeline.* Two workers race; three events let one overtake another while a
  third waits.  Starts and stops are not bounded.
- *Store.* Two connections make a writer and somebody in its way.  Two ids are
  enough for one to be taken again after a `clear`.
- *Search.* Two events in two different buckets, with one keyword that is a
  substring of the other, and likewise the names of two applications; ranges that
  begin or end inside a bucket; a limit of one for a query without restrictions, which
  reads a clock before, between or after the two events.
- *MindTrace.* Two rows make two threads cross, two instants separate the
  clock read by the rebuild from the row that comes after.  Two collectors' threads
  stand for three, which touch nothing of each other; the window collector's
  stub is the third, as on every system but Windows.  With batches of two visits the
  browser's thread has one left when it is stopped within a batch.
- *Collectors.* Two files, one of which may be behind an obstacle that the other is
  not.  Three visits: one being emitted, one that the batch still holds, be it of the
  same microsecond or later, one that arrives meanwhile.  A second `start` finds what the
  first has left.  Times that come back are covered by two modification times.
- *Timeline.* The instants 1, 2, 4, 5 with a threshold of 1 have gaps of 0, 1 (equal
  to the threshold), 2 and more; four events make three sessions or more.  A day of
  4 puts a midnight between 2 and 4, and the clock into the second day: today and
  yesterday have two instants each.
- *Parser.* The first second and the last two of each of eight days: every day of
  the week, and a clock that passes midnight between its two readings.  Each marker
  of a type occurs in a word, as itself and, where it can, as a part of another.

### Fairness

A run with liveness uses `FairSpec`, or `FairScanSpec` for the file system:

- *Queue.* Weak fairness of each thread inside an operation, of its notification
  and of the time-out of `pop_for`.  A free mutex goes in the end to each thread
  that wants it, and `wait_for` has a deadline.  Nothing is assumed of callers
  or of spurious wake-ups.
- *Pipeline.* Weak fairness of each worker and of `stop` once it is under way:
  the workers are threads of their own, `pop_for` is called with a deadline of
  100 ms, and stages and `save` return.
- *MindTrace.* Weak fairness of the daemon's main thread and of each collector
  thread with an event in hand or told to stop.  Nothing must happen that would
  be captured.
- *Browser.* Weak fairness of the thread and of the join, and strong fairness of
  copying the file and of reading a row: a copy may fail, but not always.
- *File system.* Weak fairness of the thread and of the join, and nothing of
  obstacles: one may stay for ever or come back in every scan, so that
  `EventuallySeen` promises nothing of a file that gets behind one.
- *Window.* Weak fairness of the two threads, strong fairness of taking WM_QUIT
  from the message queue: other messages may come first, but not for ever.

Deadlock is checked in `queue`, `mindtrace`, `store` and `search`.  Elsewhere the
system may really stop: all events submitted and the pipeline destroyed, the
last `stop` within the bound on starts, a finished pass over an input.

## 4. What is proved

| Theorem | In | Says |
|---|---|---|
| `TypeCorrect` | `ConcurrentQueueProofs` | types; `nullopt` is never an item |
| `StopReachesEverySleeper` | same | `StopReachesSleepers` |
| `NoLostWakeup` | same | `WakeupsCoverItems` |
| `ImplementsBlockingFifo` | same | the safety part of the refinement |
| `TypeCorrect` | `EventPipelineProofs` | types; a row is of an event |
| `NoEventLostOrDoubled` | same | `EveryEventInOnePlace` |
| `StopLeavesQuiet` | same | `QuietAfterStop` |
| `CounterExact` | same | `CountIsExact` |
| `OvertakingIsBounded` | same | `BoundedOvertaking` |
| `TypeCorrect` | `MindTraceProofs` | types |
| `IndexFollowsDisk` | same | `IndexMatchesDisk` |
| `CapturedIsFound` | same | `CapturedIsSearchable` |
| `DaemonStopsCleanly` | same | `GracefulExit` |
| `ImplementsSearchableLog` | same | `KeepsTheLog`: the refinement, which has no fairness |
| `TypeCorrect` | `EventStoreProofs` | types |
| `IdsKeepTheirMeaning` | same | `IdMeansOneEvent` |
| `AckedStays` | same | `AckedIsCommitted` |
| `OwnWritesAreRead` | same | `ReadYourWrites` |
| `TableIsALog` | same | `TableOnlyAppends`, an action property |
| `TypeCorrect` | `TimelineBuilderProofs` | types |
| `SessionsAreAllEvents` | same | `SessionsCover` |
| `SessionsAreStretches` | same | `SessionsAreMaximal` |
| `SessionTimes` | same | `TimesAreThoseOfEvents` |
| `EventsAreShownOnce` | same | `EachEventOnce` |
| `CommandShowsItsDay` | same | `TimelineOfTheDay` |
| `SessionsAreNamed` | same | `determine_primary_app` always finds an application, and each session has one that none is more frequent than |
| `TypeCorrect` | `SearchProofs` | types of `Search` |
| `ResultsAreMatches` | same | `ResultsMatch` |
| `NothingIsMissed` | same | `ResultsComplete` |
| `ParserTypeCorrect` | same | types of `QueryParser`; no time wraps round below zero |
| `RangeIsMeant` | same | `RangeIsDaysMeant` |
| `WorkHoursAreNineToFive` | same | `WorkHoursOfDay` |
| `QuestionsAreUnderstood` | same | `QuestionGetsItsEvents` |
| `TypeCorrect` | `BrowserCollectorProofs` | types; the watermark is never ahead of the clock |
| `NothingBelowWatermark` | same | `WatermarkCoversEmitted` |
| `BatchesAreNew` | same | `EmitsOnlyNew` |
| `TypeCorrect` | `CollectorProofs` | types of `WindowFocusCollector`; `thread_id_` is 0 or of a thread that was started |
| `InstanceStays` | same | `InstanceOutlivesCallback` |
| `NothingLeft` | same | `StopLeavesNothing` |
| `QuitIsNeverLost` | same | whatever `stop` of the window collector waits for can still come, unless the hook could not be installed |
| `ScansAreTyped` | same | types of `FileSystemCollector`; one event at most on its way out |
| `ChangesAreReported` | same | `NoChangeForgotten` |
| `FilesAreDiscoveredOnce` | same | `DiscoveredOnce`, an action property |

They hold for any finite set of threads or workers, any set of items, any finite
set of events, any set of connections, processes and titles, with or without a
window collector's thread, any words, applications and queries,
any finite set of visits, any files and modification times, for any threshold and
limit, any length of a second, a day or a bucket, and for any bound on lengths, ids,
rows, batches, the clock and starts.  The assumptions are those the modules name: `nullopt` is
no item, a file that is gone has no modification time, sets that are counted are
finite, bounds and times are natural numbers, a second, a day and a bucket are not
empty, daemons are processes, events have words, an application or none and a time, and each
name is a part of itself.  Those
of the parser hold for any set of the expressions and words it has tables for, and for
clocks from the third week of 1970 on: before that a week could begin below zero.

*Queue.* `StopReachesSleepers` is inductive next to the types: nobody falls
asleep once `stopped_` is set, and the `notify_all` that removes the last
witness wakes all.  `WakeupsCoverItems` is inductive as well, because both its
sides are counted: a push adds an item and a notification; a notification that
finds a sleeper turns into an awake thread; an awake thread that takes an item
takes one from both sides; a thread that goes to sleep has found the queue
empty.  The refinement maps program counters to calls; a step on the mutex or
the condition variable alone is a stutter.

*Pipeline.* `EveryEventInOnePlace` counts places and is not inductive by itself.
`Conserved` says instead that the queue and the rows have no duplicates, that
two workers do not hold the same event, that queue, hands, rows and `unsaved`
are disjoint, and that together they are what was submitted; each step moves
one event from one to the next.  `OwnerInv` says where workers can be in each
stage of `start` and `stop`; with both, `QuietAfterStop` follows.  `CounterExact`
goes along the workers between the save and the counter.  `BoundedOvertaking` counts
events, which no step keeps; `OrderInv` says instead that the queue is the end of what
was submitted and that for every handled event there is a worker with none of the
earlier ones in hand.  It is the one that handled the event, and what it takes later
comes from further back.  The earlier events not handled yet are then in the hands of
the others, one each.

*Processes.* `IndexMatchesDisk` is not inductive: it says nothing of what makes
the subtraction of the rows in hand right.  `IndexInv` adds that a row in hand is
the process's own and newer than what the rebuild read, that no two threads of a
process have the same row in hand (`HandsOwn`), and that what a process has read
is still there (`RowsCounted`).  Six kinds of steps touch the table, an index or a
saved row in hand, and each has a lemma; all others are `Calm`, and one lemma does
for them.  `CapturedIsSearchable` adds that captured rows are dated in the past
(`PastOnly`), so that those a process could have seen when it read the clock are
dated no later than that (`SeenAtLaunch`).  `GracefulExit` needs `ThreadsInv`:
collectors are started one after the other, no thread disappears while the daemon
runs, and those that were joined have ended.

*Log.* Five kinds of steps of `MindTrace` are steps of the log: a launch, the end of
a rebuild, a save, an addition to an index, and the end of a process, killed or not;
all others leave the mapped variables alone.  That a rebuild finds what had been
captured when it began is `PastOnly` again, and that an addition is of an entry of
the process's own is `HandsOwn`.

*Store.* `IdInv` says that there is one writer at a time (`OneWriter`), that `last` as
the writer sees it bounds every id in sight of the writer, and the committed `last`
those in sight of everyone else, and that all rows in sight anywhere have one
meaning.  A statement writes over what is committed or what its own transaction has
made of it, so that the id it gives is above all of them.  `SafeInv`, for
`AckedIsCommitted`: what is safe is in the writer's view as well, and only a
connection inside a batch, or on which one has thrown, has a transaction at all.
`AckedInv`, for `ReadYourWrites`: of what was acknowledged and not cleared, only the
writer knows a row that is not committed, and it is in its view; and what is
committed is in the writer's view, so that no commit takes it from a reader, however
old the table that one looks at.  For `TableOnlyAppends`, `PendingInv`: what a
transaction has made of the table so far, with any mixture of saves and clears, is
already what a commit of it may be, and nobody else commits before it.

*Search.* `ResultsComplete` speaks of the end of a query and is far from inductive:
the store and the index change between any two look-ups.  `IndexInv` of
`SearchProofs` says that the three maps agree on what is indexed and that they and
the store know each id as what it was saved as, which is never given again.  For the
query, `CandidatesInv`: what all sets fetched so far have in common meets the parts
asked so far, and each settled event that matches is in every one of them; `settled`
only loses what is cleared, so that a set fetched early is still right later.  Keywords
and applications are matched by substring, and the inclusion of every name in itself is
the only property of that relation that is assumed.  `RestInv`: only a query without any
part has read the clock, so that the others leave out nothing for being dated later.
`Narrows` is the step from one look-up to the next, for any index; `FetchInv` says
the same of the ids not fetched yet and the results together.

*Timeline.* `TimelineInv`: the sessions closed so far are the stretches of `sorted`
between one place in `begins` and the next, the current session is the stretch from
the last of them to the event before `i`, and no stretch has a gap in it.
`SessionsCover`, `SessionsAreMaximal` and `TimesAreThoseOfEvents` are read off it at
the end.  `EachEventOnce` counts, and an event may be given more than once.  `CountInv`
follows the number of places at which an event is, from the store to `events`,
`filtered` and `sorted`: a filter keeps those of an event or none, and a sort moves
them, one to one.  From `sorted` to the sessions the places are the same again
(`ShownAreSorted`), for `CutsInv` says that the places in `begins` go up, so that each
place of `sorted` lies in one session.  `TimelineOfTheDay` adds where the day that the
command names begins and ends.  That `determine_primary_app` finds an application
(`SessionsAreNamed`) is that a session has an event, and that among the numbers its
applications have in it there is a largest.

*Parser.*  `ParserInv` says what each step leaves in terms of the query, the midnight
read first and the clock read last, so that a step of the clock between the two is one
of its cases.  The rest is arithmetic: days are whole numbers of seconds, the day of the
week goes through seven of them, and the range is the one day of the seven that has the name
(`RangeIsMeant`).  `QuestionsAreUnderstood` goes through the tables.

*Window.* `ThreadInv`: `instance_` is set exactly while there is a thread that is not
joined, that is while `running_` is set or somebody is inside `stop()`, and hook and
callback exist only in the middle part of the thread.  `InstanceStays` and
`NothingLeft` follow from it.  `QuitInv` adds that a thread that has published an id
has published its own, also if an earlier one has left another, and that WM_QUIT is in the
queue, or was taken, exactly once `stop()` has gone on to the join.

*Files.*  `NoChangeForgotten` says nothing of where the thread is.  `ScanInv` adds that
there is an event in hand only where one is emitted, and no thread when `start()` makes
one (`OneScanner`); that the event in hand is what is remembered of its file; and that a file is
remembered exactly if it has been discovered (`Remembered`), from which
`FilesAreDiscoveredOnce` follows.

*Browser.* `WatermarkCoversEmitted` says nothing of the batch that the thread is in,
after which the watermark moves on, nor of a visit that will come.  `BatchInv`: what
was in the file when it was copied is still to come, was emitted, or is one of those
lost (`late`, `torn`), and what is still to come is not before `max_seen`, so that the
watermark can stop there wherever the batch is cut short: what is cut off is ahead of it
or has its very time, and is then `torn`.  `VisitInv` keeps the watermark within what was
copied: a visit that comes below it comes late.  The order of the rows is what makes
a step of the batch right.

*Only model-checked.*  Every invariant and every action property of a run that passes
is proved.  Liveness is not, for the provers handle neither fairness nor `ENABLED`:
`StopReturns`, `EventuallyHandled`, `InterruptEndsDaemon`, `StopReturnsIfHooked`,
`EventuallyEmitted`, `EventuallySeen`, and the liveness part of `KeepsThePromise`.  Of
some of them the half that is about states is proved: nobody sleeps on a stopped queue
(`StopReachesEverySleeper`), and what the window collector's `stop` waits for can come
(`QuitIsNeverLost`).

## 5. Where the code and its documentation disagree

Two of these are runs that end in a counterexample:

- `window_hook`: when `SetWinEventHook` fails, the thread ends with `thread_id_`
  set, and `stop()` repeats `PostThreadMessageW` to a thread that is gone
  (`src/collectors/window_focus_collector.cpp:46`).  `Ctrl+C` no longer ends the
  daemon.  With the hook in place, `stop` always returns (`StopReturnsIfHooked`).
- `mindtrace_rebuild`: "Rebuild index from stored events" (`apps/cli/main.cpp:267`)
  leaves out rows dated later than the start of the process, which `mindtrace
  demo` makes when run before 15:00 UTC.

Nine others were met while modelling and are not runs; the models do what the
code does, and where a property leaves such a case out it says so:

- `EventPipeline::worker_loop` computes an event's keywords and discards them;
  `event_pipeline.hpp:38` says "Set the index to update on each processed
  event".  (`UpdateIndex` changes nothing.)
- "Query new visits" (`src/collectors/browser_collector.cpp:101`) asks for those later
  than the last one emitted.  A visit that comes into the history late, when one as late
  or later has been read, is never emitted (`late`); nor is one of the very microsecond of the last
  visit emitted before the reading of a copy failed (`torn`).
- "Skip problematic directories (e.g., junctions, locked folders)"
  (`src/collectors/filesystem_collector.cpp:65`): when `increment(ec)` fails it puts the
  iterator at its end, so that this branch is never reached and the scan is over.  As long as
  the obstacle stays, the files behind it are seen in no scan.  (`EndScan`, `hidden`.)
- A callback that throws (`src/collectors/filesystem_collector.cpp:149`, "Ignore any
  individual file read exceptions") makes the collector forget a change, for it is
  remembered before it is emitted.  (`EmitThrows`.)
- "return recent events" (`src/search/query_executor.cpp:56`) leaves out events dated later
  than now, which `mindtrace demo` makes; a search with a keyword or a type finds them.
  (`FindRecent`; it is the bound of the rebuild in another place.)
- A search by time returns events up to an hour outside the range, whereas
  `inverted_index.hpp:24` says "[start, end] (unix epoch seconds)".  (`Matches`
  in `Search` is to the hour.)
- "websites visited during work hours" (`README.md:15`) restricts nothing, for
  work hours apply only to a range that a day in the query has set.  (`WorkHours`
  in `QueryParser`.)
- "Add URL as metadata so it's searchable!" (`src/collectors/browser_collector.cpp:148`):
  the index takes keywords from an event's type, source and content only.
- Of the words that choose a type of events, the list of words that are not looked
  up (`src/search/query_parser.cpp:143`) has some and not others: "edited" and not
  "edit", and neither "copied" nor "screenshots".  A question in the words the list has gets its
  events; one that says "copied" finds only the clipboard events that contain it.
  (`StopWords` in `QueryParser`; `QuestionGetsItsEvents` says which words are meant.)

## 6. Plan

Done, in the order of their weight: queue and pipeline with proofs; processes
and daemon with proofs, and the log they implement; store with proofs; search
with proofs; collectors with proofs; timeline and parser with proofs.

Left:

1. The pipeline's stages as state (`add_stage`), if anything comes to use them.
2. `BrowserCollector` and `FileSystemCollector` as the sources of the `Capture` of
   `MindTrace`, by a refinement mapping of their threads.

## 7. What is not modelled

- `ClipboardCollector`: a stub without a thread or events.
- `ActivityEvent`'s JSON form and tokenizer, `utils.hpp`, configuration, logging:
  conversions without state.  Of `ActivityEvent` the names of the types are in
  `QueryParser`.
- `EventPipeline::add_stage`: what a stage does to an event is up to the caller, and
  nothing in the program has one.  `RunStages` stands for all of them: one that
  throws keeps neither the next nor the event from going on.
- Printing in `cmd_timeline` and `cmd_stats`; what `cmd_timeline` prints is the
  timeline it built.
- Two daemons at a time sharing the one file name of the browser's temporary copy:
  to each it looks like a copy that failed or was cut short, which
  `BrowserCollector` has.
- Move operations of `EventStore`: nothing calls them.
- SQLite itself, beyond what `EventStore` says of it.
