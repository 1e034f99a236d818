---------------------------- MODULE EventPipeline ----------------------------
(***************************************************************************)
(* EventPipeline: producers submit events, a pool of worker threads takes  *)
(* them from the queue, runs the stages, saves, "updates" the index and    *)
(* counts; one owner thread configures, starts, stops, restarts and in the *)
(* end destroys the pipeline.  The queue is BlockingFifo, the promise that *)
(* ConcurrentQueue is shown to keep.                                       *)
(***************************************************************************)
EXTENDS Naturals, Sequences, FiniteSets

CONSTANTS
    Workers,   \* the threads in workers_; num_workers_ is their number
    Events,    \* the events producers may submit, each once
    Nothing    \* std::nullopt

ASSUME NothingAssumption == Nothing \notin Events
ASSUME WorkersAssumption == IsFiniteSet(Workers)
ASSUME EventsAssumption  == IsFiniteSet(Events)

VARIABLES
    queue, stopped, call, result,   \* queue_, see BlockingFifo
    running,       \* running_
    has_storage,   \* storage_ is set
    has_index,     \* index_ is set
    owner,         \* where the owner thread is in start() and stop()
    wpc,           \* where each worker is in worker_loop()
    rows,          \* what storage_ holds, in the order of the ids
    processed,     \* processed_count_
    submitted,     \* history: the events submitted, in that order
    unsaved        \* history: events handled without a row

queue_vars == <<queue, stopped, call, result>>
config     == <<has_storage, has_index>>
history    == <<rows, unsaved, processed, submitted>>
vars == <<queue_vars, config, history, running, owner, wpc>>

Queue == INSTANCE BlockingFifo
         WITH Threads <- Workers, Items <- Events, MaxLen <- Cardinality(Events)

WorkerPC == {"none", "check", "pop", "stages", "save", "index", "count", "exited"}
OwnerPC  == {"idle", "starting", "stopping", "joining", "destroyed"}

SetOf(seq) == {seq[i] : i \in DOMAIN seq}

TypeOK ==
    /\ Queue!TypeOK
    /\ running \in BOOLEAN /\ has_storage \in BOOLEAN /\ has_index \in BOOLEAN
    /\ owner \in OwnerPC
    /\ wpc \in [Workers -> WorkerPC]
    /\ rows \in Seq(Events)
    /\ unsaved \subseteq Events
    /\ processed \in Nat
    /\ submitted \in Seq(Events)

Init ==
    /\ Queue!Init
    /\ running = FALSE
    /\ has_storage = FALSE /\ has_index = FALSE
    /\ owner = "idle"
    /\ wpc = [w \in Workers |-> "none"]
    /\ rows = <<>> /\ processed = 0
    /\ submitted = <<>> /\ unsaved = {}

-----------------------------------------------------------------------------
(* Producers, and the owner.                                               *)

(* submit() pushes, whether or not the pipeline runs. *)
Submit(e) ==
    /\ owner # "destroyed"
    /\ e \notin SetOf(submitted)
    /\ submitted' = Append(submitted, e)
    /\ Queue!Push(e)
    /\ UNCHANGED <<config, rows, unsaved, processed, running, owner, wpc>>

(* The setters take no lock: they are for a pipeline that does not run. *)
SetStorage ==
    /\ owner = "idle" /\ ~running
    /\ has_storage' = TRUE
    /\ UNCHANGED <<queue_vars, has_index, history, running, owner, wpc>>

SetIndex ==
    /\ owner = "idle" /\ ~running
    /\ has_index' = TRUE
    /\ UNCHANGED <<queue_vars, has_storage, history, running, owner, wpc>>

(* start(); it returns early, changing nothing, when running_ is set. *)
Start ==
    /\ owner = "idle" /\ ~running
    /\ running' = TRUE
    /\ owner' = "starting"
    /\ UNCHANGED <<queue_vars, config, history, wpc>>

Spawn(w) ==
    /\ owner = "starting"
    /\ wpc[w] = "none"
    /\ wpc' = [wpc EXCEPT ![w] = "check"]
    /\ UNCHANGED <<queue_vars, config, history, running, owner>>

(* start() returns, or a std::thread cannot be created and the exception   *)
(* leaves a pipeline that is running with the workers it has so far.       *)
Started ==
    /\ owner = "starting"
    /\ owner' = "idle"
    /\ UNCHANGED <<queue_vars, config, history, running, wpc>>

(* Mutant of Stop: running_ is read, not exchanged. *)
StopMutant ==
    /\ owner = "idle" /\ running
    /\ owner' = "stopping"
    /\ UNCHANGED <<queue_vars, config, history, running, wpc>>

(* stop(), also from the destructor; early return unless running_ is set. *)
Stop ==
    /\ owner = "idle" /\ running
    /\ running' = FALSE
    /\ owner' = "stopping"
    /\ UNCHANGED <<queue_vars, config, history, wpc>>

StopQueue ==
    /\ owner = "stopping"
    /\ Queue!Stop
    /\ owner' = "joining"
    /\ UNCHANGED <<config, history, running, wpc>>

(* Mutant of Join: workers_ is cleared without the joins. *)
JoinMutant ==
    /\ owner = "joining"
    /\ owner' = "idle"
    /\ UNCHANGED <<queue_vars, config, history, running, wpc>>

(* The joins, of every worker there is, and workers_.clear(). *)
Join ==
    /\ owner = "joining"
    /\ \A w \in Workers : wpc[w] \in {"none", "exited"}
    /\ wpc' = [w \in Workers |-> "none"]
    /\ owner' = "idle"
    /\ UNCHANGED <<queue_vars, config, history, running>>

Destroy ==
    /\ owner = "idle" /\ ~running
    /\ owner' = "destroyed"
    /\ UNCHANGED <<queue_vars, config, history, running, wpc>>

-----------------------------------------------------------------------------
(* worker_loop().                                                          *)

Goto(w, place) == wpc' = [wpc EXCEPT ![w] = place]

LoopCheck(w) ==
    /\ wpc[w] = "check"
    /\ \/ /\ running
          /\ Queue!Call(w, "pop_for")
          /\ Goto(w, "pop")
       \/ /\ ~running
          /\ Goto(w, "exited")
          /\ UNCHANGED queue_vars
    /\ UNCHANGED <<config, history, running, owner>>

(* Mutant of Popped: nullopt is not tested. *)
PoppedMutant(w) == Goto(w, "stages")

(* Mutant of Popped: nullopt is taken to mean that the queue was stopped. *)
PoppedExitsMutant(w) ==
    Goto(w, IF result'[w] = Nothing THEN "exited" ELSE "stages")

(* With no event, the loop goes on to test running_ again. *)
Popped(w) ==
    Goto(w, IF result'[w] = Nothing THEN "check" ELSE "stages")

Pop(w) ==
    /\ wpc[w] = "pop"
    /\ Queue!Return(w) \/ Queue!TimeOut(w)
    /\ Popped(w)
    /\ UNCHANGED <<config, history, running, owner>>

(* Mutant of RunStages: a pipeline that stops lets go of the event. *)
RunStagesMutant(w) ==
    /\ wpc[w] = "stages"
    /\ Goto(w, IF running THEN "save" ELSE "exited")
    /\ UNCHANGED <<queue_vars, config, history, running, owner>>

(* Each stage runs; one that throws is logged and the next one runs. *)
RunStages(w) ==
    /\ wpc[w] = "stages"
    /\ Goto(w, "save")
    /\ UNCHANGED <<queue_vars, config, history, running, owner>>

(* save() gives the event a row and an id. *)
SaveRow(w) ==
    /\ wpc[w] = "save" /\ has_storage
    /\ rows' = Append(rows, result[w])
    /\ Goto(w, "index")
    /\ UNCHANGED <<queue_vars, config, unsaved, processed, submitted,
                   running, owner>>

(* Mutant of SaveNothing: the event is queued again. *)
SaveNothingMutant(w) ==
    /\ wpc[w] = "save"
    /\ Queue!Push(result[w])
    /\ Goto(w, "count")
    /\ UNCHANGED <<config, history, running, owner>>

(* Mutant of SaveNothing: the loop goes on with the next event. *)
SaveNothingSkipsMutant(w) ==
    /\ wpc[w] = "save"
    /\ unsaved' = unsaved \cup {result[w]}
    /\ Goto(w, "check")
    /\ UNCHANGED <<queue_vars, config, rows, processed, submitted,
                   running, owner>>

(* No storage, or save() throws: the event goes on without a row. *)
SaveNothing(w) ==
    /\ wpc[w] = "save"
    /\ unsaved' = unsaved \cup {result[w]}
    /\ Goto(w, "index")
    /\ UNCHANGED <<queue_vars, config, rows, processed, submitted,
                   running, owner>>

(* With or without an index: the keywords are computed and discarded, and  *)
(* nothing is added to it, although set_index() is declared to give the    *)
(* "index to update on each processed event".                              *)
UpdateIndex(w) ==
    /\ wpc[w] = "index"
    /\ Goto(w, "count")
    /\ UNCHANGED <<queue_vars, config, history, running, owner>>

Count(w) ==
    /\ wpc[w] = "count"
    /\ processed' = processed + 1
    /\ Goto(w, "check")
    /\ UNCHANGED <<queue_vars, config, rows, unsaved, submitted, running,
                   owner>>

-----------------------------------------------------------------------------

Step(w) ==
    \/ LoopCheck(w) \/ Pop(w) \/ RunStages(w) \/ SaveRow(w) \/ SaveNothing(w)
    \/ UpdateIndex(w) \/ Count(w)

Stopping == StopQueue \/ Join

Next ==
    \/ \E e \in Events : Submit(e)
    \/ SetStorage \/ SetIndex
    \/ Start \/ Started \/ Stop \/ Stopping \/ Destroy
    \/ \E w \in Workers : Spawn(w) \/ Step(w)

Spec == Init /\ [][Next]_vars

(* Every thread that can take a step of its own takes one in the end: the  *)
(* stages and save() return, pop_for keeps its deadline, stop() goes on to *)
(* its joins.  Nobody has to submit, start or stop.                        *)
Fairness == (\A w \in Workers : WF_vars(Step(w))) /\ WF_vars(Stopping)

FairSpec == Spec /\ Fairness

-----------------------------------------------------------------------------

Handled == SetOf(rows) \cup unsaved

InHand(w) == wpc[w] \in {"stages", "save"}

(* No event is lost or handled twice, across stops and restarts: each one  *)
(* submitted is in the queue, with a worker, in a row or handled without   *)
(* one, and in exactly one of these places, once.                          *)
Places(e) ==
    {<<"queue", i>>  : i \in {j \in DOMAIN queue : queue[j] = e}}
    \cup {<<"hand", w>> : w \in {v \in Workers : InHand(v) /\ result[v] = e}}
    \cup {<<"row", i>>  : i \in {j \in DOMAIN rows : rows[j] = e}}
    \cup {<<"unsaved", u>> : u \in unsaved \cap {e}}

EveryEventInOnePlace ==
    \A e \in Events :
        /\ Places(e) # {} <=> e \in SetOf(submitted)
        /\ \A p, q \in Places(e) : p = q

(* processed_count() counts every event handled, saved or not, up to those *)
(* whose worker is still on its way to the counter.                        *)
CountIsExact ==
    processed + Cardinality({w \in Workers : wpc[w] \in {"index", "count"}})
        = Len(rows) + Cardinality(unsaved)

(* The pool may save events out of order, but only by as much as it has    *)
(* other workers: when an event has been handled, at most that many of the *)
(* events submitted before it have not.                                    *)
BoundedOvertaking ==
    \A i \in DOMAIN submitted :
        submitted[i] \in Handled =>
            Cardinality({j \in 1..i : submitted[j] \notin Handled})
                <= Cardinality(Workers) - 1

(* When stop() has returned nothing of the pipeline moves any more: no     *)
(* worker is left that could touch the storage, and an event that had left *)
(* the queue has been handled; those still queued stay there for a restart *)
(* (and are lost if the pipeline is destroyed instead).                    *)
QuietAfterStop ==
    owner \in {"idle", "destroyed"} /\ ~running =>
        /\ \A w \in Workers : wpc[w] = "none" /\ call[w] = "none"
        /\ SetOf(submitted) = SetOf(queue) \cup Handled

(* stop() returns, whatever the workers were doing when it was called. *)
StopReturns == owner = "stopping" ~> owner = "idle"

(* A pipeline that has a worker and is not stopped handles what is         *)
(* submitted, also after a restart, when stopped_ is still set and pop_for *)
(* no longer waits.                                                        *)
EventuallyHandled ==
    \A e \in Events :
        e \in SetOf(submitted) ~>
            \/ e \in Handled
            \/ ~running
            \/ \A w \in Workers : wpc[w] = "none"

=============================================================================
