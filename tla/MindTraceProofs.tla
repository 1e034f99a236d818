--------------------------- MODULE MindTraceProofs ---------------------------
(***************************************************************************)
(* Theorems about MindTrace, for any number of processes and daemons, any  *)
(* room on the disk and any clock.                                         *)
(***************************************************************************)
EXTENDS MindTrace, TLAPS

-----------------------------------------------------------------------------
(* Facts about the data.                                                   *)

LEMMA CollectorsAre ==
  /\ Collectors = {"window", "browser", "fs"}
  /\ \A i \in 1..3 : Order[i] \in Collectors
  /\ \A c \in Collectors : \E i \in 1..3 : c = Order[i]
  /\ \A i, j \in 1..3 : Order[i] = Order[j] => i = j
<1>1. 1..3 = {1, 2, 3}
  OBVIOUS
<1>2. Order[1] = "window" /\ Order[2] = "browser" /\ Order[3] = "fs"
  BY DEF Order
<1>3. QED
  BY <1>1, <1>2 DEF Collectors

(* What a saved row does to the table. *)
LEMMA RowAppended ==
  ASSUME disk \in Seq(Rows), NEW row \in Rows, disk' = Append(disk, row)
  PROVE  /\ disk' \in Seq(Rows)
         /\ Len(disk) \in Nat /\ Len(disk') = Len(disk) + 1
         /\ \A id \in Ids : disk'[id] = disk[id]
         /\ disk'[Len(disk')] = row
         /\ \A id : id \in Ids' <=> id \in Ids \/ id = Len(disk')
<1>1. /\ disk' \in Seq(Rows) /\ Len(disk) \in Nat /\ Len(disk') = Len(disk) + 1
      /\ \A id \in 1..Len(disk) : disk'[id] = disk[id]
      /\ disk'[Len(disk) + 1] = row
  OBVIOUS
<1>2. QED
  BY <1>1 DEF Ids

-----------------------------------------------------------------------------
(* Types.  What a thread has in hand is a time before it saves and the id  *)
(* of a row after; a join is that of one of the three collectors.          *)

HandsTyped ==
    \A p \in Procs, c \in Collectors :
        /\ At(p, c, "captured") => hand[<<p, c>>] \in Stamps
        /\ At(p, c, "saved") => hand[<<p, c>>] \in 1..Len(disk)

JoinsOne == \A p \in Procs : main[p] = "joining" => turn[p] <= 3

TypeInv == TypeOK /\ HandsTyped /\ JoinsOne

LEMMA InsertTyped ==
  ASSUME TypeOK, NEW p \in Procs, NEW stamp \in Stamps, NEW captured \in BOOLEAN,
         Insert(p, stamp, captured)
  PROVE  /\ disk' \in Seq(Rows) /\ Len(disk') <= MaxRows
         /\ Len(disk) \in Nat /\ Len(disk') = Len(disk) + 1
         /\ Len(disk') \in 1..MaxRows /\ Len(disk) \in 0..MaxRows
         /\ \A id \in Ids : disk'[id] = disk[id]
         /\ disk'[Len(disk')] = [stamp |-> stamp, by |-> p, captured |-> captured]
         /\ \A id : id \in Ids' <=> id \in Ids \/ id = Len(disk')
<1> DEFINE row == [stamp |-> stamp, by |-> p, captured |-> captured]
<1>1. row \in Rows
  BY DEF Rows
<1>2. disk' = Append(disk, row) /\ Len(disk) < MaxRows /\ disk \in Seq(Rows)
  BY DEF Insert, TypeOK
<1> HIDE DEF row
<1>3. /\ disk' \in Seq(Rows)
      /\ Len(disk) \in Nat /\ Len(disk') = Len(disk) + 1
      /\ \A id \in Ids : disk'[id] = disk[id]
      /\ disk'[Len(disk')] = row
      /\ \A id : id \in Ids' <=> id \in Ids \/ id = Len(disk')
  BY <1>1, <1>2, RowAppended
<1>4. /\ Len(disk') <= MaxRows /\ Len(disk') \in 1..MaxRows
      /\ Len(disk) \in 0..MaxRows
  <2> DEFINE n == Len(disk)  m == Len(disk')
  <2>1. n \in Nat /\ m = n + 1 /\ n < MaxRows
    BY <1>2, <1>3
  <2> HIDE DEF n, m
  <2>2. m <= MaxRows /\ m \in 1..MaxRows /\ n \in 0..MaxRows
    BY <2>1, BoundsAssumption
  <2>3. QED
    BY <2>2 DEF n, m
<1>5. QED
  BY <1>3, <1>4 DEF row

LEMMA VanishTyped ==
  ASSUME TypeInv, NEW p \in Procs, Vanish(p)
  PROVE  TypeInv'
<1> USE DEF TypeInv, TypeOK, Vanish
<1>1. TypeOK'
  <2>1. /\ 0 \in Stamps /\ 0 \in 0..MaxRows /\ 1 \in 1..4 /\ 0 \in 0..MaxBatch
        /\ {} \in SUBSET (1..MaxRows) /\ "off" \in MainPC /\ "none" \in ThreadPC
    BY BoundsAssumption DEF Stamps, MainPC, ThreadPC
  <2>2. /\ running' \in [Threads -> BOOLEAN] /\ thread' \in [Threads -> ThreadPC]
        /\ left' \in [Threads -> 0..MaxBatch] /\ hand' \in [Threads -> Nat]
    BY <2>1
  <2>3. /\ main' \in [Procs -> MainPC] /\ booted' \in [Procs -> Stamps]
        /\ command' \in [Procs -> {"search", "demo", "daemon"}]
        /\ index' \in [Procs -> SUBSET (1..MaxRows)]
        /\ turn' \in [Procs -> 1..4] /\ interrupted' \in [Procs -> BOOLEAN]
        /\ rows_then' \in [Procs -> 0..MaxRows] /\ rows_read' \in [Procs -> 0..MaxRows]
    BY <2>1
  <2>4. Stamps' = Stamps
    BY DEF Stamps
  <2>5. QED
    BY <2>2, <2>3, <2>4
<1>2. HandsTyped'
  BY DEF HandsTyped, At, Threads, Stamps
<1>3. JoinsOne'
  BY DEF JoinsOne, MainPC
<1>4. QED
  BY <1>1, <1>2, <1>3

LEMMA TypeStep == TypeInv /\ [Next]_vars => TypeInv'
<1> SUFFICES ASSUME TypeInv, [Next]_vars PROVE TypeInv'
  OBVIOUS
<1> USE DEF TypeInv, HandsTyped, JoinsOne, At
<1>0. /\ TypeOK /\ Len(disk) \in 0..MaxRows /\ Len(disk) \in Nat
      /\ Stamps' = Stamps /\ 0 \in Nat
  BY BoundsAssumption DEF TypeOK, Stamps
<1>1. CASE Tick
  <2>1. clock' \in Stamps
    BY <1>1, BoundsAssumption DEF Tick, TypeOK, Stamps
  <2>2. QED
    BY <1>1, <2>1 DEF Tick, TypeOK, process_vars, daemon_vars, thread_vars
<1>2. ASSUME NEW p \in Procs, Vanish(p) PROVE TypeInv'
  BY <1>2, VanishTyped
<1>3. ASSUME NEW p \in Procs, NEW cmd \in {"search", "demo", "daemon"}, Launch(p, cmd)
      PROVE  TypeInv'
  BY <1>0, <1>3 DEF Launch, TypeOK, MainPC, daemon_vars, thread_vars
<1>4. ASSUME NEW p \in Procs, Rebuild(p) PROVE TypeInv'
  <2>1. Stored(booted[p]) \in SUBSET (1..MaxRows)
    BY <1>0, BoundsAssumption DEF Stored, Ids
  <2>2. QED
    BY <1>0, <1>4, <2>1 DEF Rebuild, TypeOK, MainPC, daemon_vars, thread_vars
<1>5. ASSUME NEW p \in Procs, NEW stamp \in Stamps, DemoEvent(p, stamp) PROVE TypeInv'
  <2>1. /\ disk' \in Seq(Rows) /\ Len(disk') <= MaxRows /\ Len(disk') = Len(disk) + 1
        /\ Len(disk') \in 1..MaxRows
    BY <1>0, <1>5, InsertTyped DEF DemoEvent
  <2>2. index[p] \cup {Len(disk')} \in SUBSET (1..MaxRows)
    BY <1>0, <2>1 DEF TypeOK
  <2>3. 1..Len(disk) \subseteq 1..Len(disk')
    BY <1>0, <2>1
  <2>4. QED
    BY <1>0, <1>5, <2>1, <2>2, <2>3 DEF DemoEvent, TypeOK, daemon_vars, thread_vars
<1>6. ASSUME NEW p \in Procs, StartDaemon(p) \/ EnterLoop(p) \/ LeaveLoop(p) PROVE TypeInv'
  <2>1. PICK place \in MainPC : GoOn(p, place, 1) /\ place # "joining"
    BY <1>6 DEF StartDaemon, EnterLoop, LeaveLoop, MainPC
  <2>2. UNCHANGED <<interrupted, running, thread_vars>>
    BY <1>6 DEF StartDaemon, EnterLoop, LeaveLoop
  <2>3. QED
    BY <1>0, <2>1, <2>2 DEF GoOn, TypeOK, thread_vars
<1>7. ASSUME NEW p \in Procs, StopCollector(p) \/ JoinCollector(p) PROVE TypeInv'
  <2>0. turn[p] \in 1..4 /\ turn[p] <= 3
    BY <1>0, <1>7 DEF StopCollector, JoinCollector, TypeOK
  <2>1. PICK place \in MainPC, i \in 1..4 :
          GoOn(p, place, i) /\ (place = "joining" => i <= 3)
    <3>1. turn[p] + 1 \in 1..4
      BY <2>0
    <3>2. StopCollector(p) => GoOn(p, "joining", turn[p])
      BY DEF StopCollector
    <3>3. JoinCollector(p) => GoOn(p, "stopping", turn[p] + 1)
      BY DEF JoinCollector
    <3>4. QED
      BY <1>7, <2>0, <3>1, <3>2, <3>3 DEF MainPC
  <2>2. /\ running' \in [Threads -> BOOLEAN]
        /\ UNCHANGED <<interrupted, thread_vars>>
    BY <1>0, <1>7 DEF StopCollector, JoinCollector, TypeOK
  <2>3. QED
    BY <1>0, <2>1, <2>2 DEF GoOn, TypeOK, thread_vars
<1>8. ASSUME NEW p \in Procs, StartCollector(p) PROVE TypeInv'
  <2>0. turn[p] \in 1..4 /\ turn[p] <= 3 /\ GoOn(p, "starting", turn[p] + 1)
    BY <1>0, <1>8 DEF StartCollector, TypeOK
  <2>1. turn[p] + 1 \in 1..4
    BY <2>0
  <2>2. /\ running' \in [Threads -> BOOLEAN] /\ thread' \in [Threads -> ThreadPC]
        /\ UNCHANGED <<interrupted, left, hand>>
    BY <1>0, <1>8 DEF StartCollector, TypeOK, ThreadPC
  <2>3. \A k \in Threads : thread'[k] = thread[k] \/ thread'[k] \in {"idle", "none"}
    BY <1>0, <1>8 DEF StartCollector, TypeOK
  <2>4. QED
    BY <1>0, <2>0, <2>1, <2>2, <2>3 DEF GoOn, TypeOK, MainPC, Threads
<1>9. ASSUME NEW p \in Procs, NEW c \in Collectors, NEW stamp \in Stamps,
             Capture(p, c, stamp)
      PROVE  TypeInv'
  <2>1. stamp \in Nat
    BY DEF Stamps
  <2>2. left' \in [Threads -> 0..MaxBatch]
    <3>1. left \in [Threads -> 0..MaxBatch] /\ MaxBatch \in Nat
      BY <1>0, BoundsAssumption DEF TypeOK
    <3>2. CASE c = "browser"
      <4>1. <<p, c>> \in Threads
        BY DEF Threads
      <4>2. left[<<p, c>>] - 1 \in 0..MaxBatch
        BY <1>9, <3>1, <3>2, <4>1 DEF Capture
      <4>3. left' = [left EXCEPT ![<<p, c>>] = @ - 1]
        BY <1>9, <3>2 DEF Capture
      <4>4. QED
        BY <3>1, <4>2, <4>3
    <3>3. CASE c # "browser"
      BY <1>9, <3>1, <3>3 DEF Capture
    <3>4. QED
      BY <3>2, <3>3
  <2>3. QED
    BY <1>0, <1>9, <2>1, <2>2 DEF Capture, GoTo, TypeOK, ThreadPC, Threads,
       process_vars, daemon_vars
<1>10. ASSUME NEW p \in Procs, NEW c \in Collectors, Save(p, c) PROVE TypeInv'
  <2>1. hand[<<p, c>>] \in Stamps
    BY <1>10 DEF Save
  <2>2. /\ disk' \in Seq(Rows) /\ Len(disk') <= MaxRows /\ Len(disk') = Len(disk) + 1
        /\ Len(disk') \in 1..MaxRows
    BY <1>0, <1>10, <2>1, InsertTyped DEF Save
  <2>3. /\ 1..Len(disk) \subseteq 1..Len(disk')
        /\ Len(disk') \in 1..Len(disk') /\ Len(disk') \in Nat
    BY <1>0, <2>2
  <2>4. QED
    BY <1>0, <1>10, <2>2, <2>3 DEF Save, GoTo, TypeOK, ThreadPC, Threads,
       process_vars, daemon_vars
<1>11. ASSUME NEW p \in Procs, NEW c \in Collectors,
              SaveFails(p, c) \/ AddToIndex(p, c) \/ EndThread(p, c)
       PROVE  TypeInv'
  <2>1. PICK place \in {"idle", "ended"} : GoTo(p, c, place, 0)
    BY <1>11 DEF SaveFails, AddToIndex, EndThread
  <2>2. /\ thread' \in [Threads -> ThreadPC] /\ hand' \in [Threads -> Nat]
        /\ \A k \in Threads : \/ thread'[k] = thread[k] /\ hand'[k] = hand[k]
                              \/ thread'[k] \in {"idle", "ended"}
    BY <1>0, <2>1 DEF GoTo, TypeOK, ThreadPC
  <2>3. At(p, c, "saved") => hand[<<p, c>>] \in 1..MaxRows
    BY <1>0, BoundsAssumption
  <2>4. index' \in [Procs -> SUBSET (1..MaxRows)]
    <3>1. index \in [Procs -> SUBSET (1..MaxRows)]
      BY <1>0 DEF TypeOK
    <3>2. CASE AddToIndex(p, c)
      <4>1. hand[<<p, c>>] \in 1..MaxRows
        BY <2>3, <3>2 DEF AddToIndex
      <4>2. index' = [index EXCEPT ![p] = @ \cup {hand[<<p, c>>]}]
        BY <3>2 DEF AddToIndex
      <4>3. QED
        BY <3>1, <4>1, <4>2
    <3>3. CASE index' = index
      BY <3>1, <3>3
    <3>4. QED
      BY <1>11, <3>2, <3>3 DEF SaveFails, EndThread, process_vars
  <2>5. UNCHANGED <<disk, clock, main, command, booted, rows_then, rows_read,
                    daemon_vars, left>>
    BY <1>11 DEF SaveFails, AddToIndex, EndThread, process_vars
  <2>6. QED
    BY <1>0, <2>2, <2>4, <2>5 DEF TypeOK, Threads, daemon_vars
<1>12. CASE UNCHANGED vars
  BY <1>12 DEF vars, TypeOK, process_vars, daemon_vars, thread_vars
<1>13. ASSUME NEW p \in Procs, Poll(p) PROVE TypeInv'
  <2>1. left' \in [Threads -> 0..MaxBatch]
    <3> DEFINE k == <<p, "browser">>
    <3>1. PICK n \in 1..MaxBatch : left' = [left EXCEPT ![k] = n]
      BY <1>13 DEF Poll
    <3>2. left \in [Threads -> 0..MaxBatch] /\ n \in 0..MaxBatch
      BY <1>0, <3>1, BoundsAssumption DEF TypeOK
    <3> HIDE DEF k
    <3>3. QED
      BY <3>1, <3>2
  <2>2. UNCHANGED <<disk, clock, process_vars, daemon_vars, thread, hand>>
    BY <1>13 DEF Poll
  <2>3. QED
    BY <1>0, <2>1, <2>2 DEF TypeOK, process_vars, daemon_vars
<1>14. ASSUME NEW p \in Procs, Interrupt(p) PROVE TypeInv'
  BY <1>0, <1>14 DEF Interrupt, TypeOK, process_vars, thread_vars
<1>15. QED
  BY <1>1, <1>2, <1>3, <1>4, <1>5, <1>6, <1>7, <1>8, <1>9, <1>10, <1>11, <1>12, <1>13, <1>14
     DEF Next, MainStep, ThreadStep, Crash, Finish, Exit, SaveKills, Collectors

LEMMA TypeInvariant == Spec => []TypeInv
<1>1. Init => TypeInv
  <2>1. 0 \in 0..MaxRows /\ 0 \in Stamps
    BY BoundsAssumption DEF Stamps
  <2>2. <<>> \in Seq(Rows) /\ Len(<<>>) = 0
    OBVIOUS
  <2>3. Init => TypeOK
    BY <2>1, <2>2, BoundsAssumption DEF Init, TypeOK, MainPC, ThreadPC
  <2>4. Init => HandsTyped /\ JoinsOne
    BY DEF Init, HandsTyped, JoinsOne, At, Threads
  <2>5. QED
    BY <2>3, <2>4 DEF TypeInv
<1>2. QED
  BY <1>1, TypeStep, PTL DEF Spec

(* Every reachable state is well typed.                                    *)
THEOREM TypeCorrect == Spec => []TypeOK
<1>1. TypeInv => TypeOK
  BY DEF TypeInv
<1>2. QED
  BY <1>1, TypeInvariant, PTL

-----------------------------------------------------------------------------
(* Where a daemon's threads can be, by where its main thread is.  They are *)
(* started one after the other, none is there before and none is taken     *)
(* away until the process ends; and those that were joined have ended.     *)

Of(p, i) == thread[<<p, Order[i]>>]

Serving == {"starting", "loop", "stopping", "joining"}

NoneBefore ==
    \A p \in Procs, i \in 1..3 : Of(p, i) # "none" => main[p] \in Serving

StartedInTurn ==
    \A p \in Procs, i \in 1..3 : main[p] = "starting" =>
        IF i < turn[p] THEN Order[i] \in Threaded => Of(p, i) # "none"
                       ELSE Of(p, i) = "none"

AllStarted ==
    \A p \in Procs, i \in 1..3 : main[p] \in Serving \ {"starting"} =>
        (Order[i] \in Threaded => Of(p, i) # "none")

JoinedInTurn ==
    \A p \in Procs, i \in 1..3 : main[p] \in {"stopping", "joining"} =>
        (i < turn[p] => Of(p, i) \in {"none", "ended"})

ThreadsInv == NoneBefore /\ StartedInTurn /\ AllStarted /\ JoinedInTurn

(* What a step of a collector's thread looks like to the main thread.      *)
ThreadMoves(p, i) ==
    /\ Of(p, i) \notin {"none", "ended"}
    /\ Of(p, i)' # "none"
    /\ \A q \in Procs, j \in 1..3 : <<q, j>> # <<p, i>> => Of(q, j)' = Of(q, j)
    /\ UNCHANGED <<main, turn>>

LEMMA ThreadActionsMove ==
  ASSUME TypeInv, NEW p \in Procs, NEW c \in Collectors, NEW stamp \in Stamps,
         \/ Capture(p, c, stamp) \/ Save(p, c) \/ SaveFails(p, c) \/ AddToIndex(p, c)
         \/ EndThread(p, c)
  PROVE  \E i \in 1..3 : ThreadMoves(p, i)
<1>1. PICK i \in 1..3 : c = Order[i]
  BY CollectorsAre
<1>2. \A j \in 1..3 : Order[j] \in Collectors /\ (Order[j] = c => j = i)
  BY <1>1, CollectorsAre
<1>3. thread \in [Threads -> ThreadPC] /\ UNCHANGED <<main, turn>>
  BY DEF TypeInv, TypeOK, Capture, Save, SaveFails, AddToIndex, EndThread,
     process_vars, daemon_vars
<1>4. PICK place \in {"captured", "saved", "idle", "ended"} :
        thread' = [thread EXCEPT ![<<p, c>>] = place]
  BY DEF Capture, Save, SaveFails, AddToIndex, EndThread, GoTo
<1>5. thread[<<p, c>>] \in {"captured", "saved", "idle"}
  BY DEF Capture, Save, SaveFails, AddToIndex, EndThread, At
<1>6. \A q \in Procs, j \in 1..3 : <<q, Order[j]>> \in Threads
  BY <1>2 DEF Threads
<1>7. QED
  BY <1>1, <1>2, <1>3, <1>4, <1>5, <1>6 DEF ThreadMoves, Of

LEMMA ThreadsStep == TypeInv /\ ThreadsInv /\ [Next]_vars => ThreadsInv'
<1> SUFFICES ASSUME TypeInv, ThreadsInv, [Next]_vars PROVE ThreadsInv'
  OBVIOUS
<1> USE DEF ThreadsInv, NoneBefore, StartedInTurn, AllStarted, JoinedInTurn, Serving
<1>0. /\ main \in [Procs -> MainPC] /\ turn \in [Procs -> 1..4]
      /\ thread \in [Threads -> ThreadPC]
      /\ \A p \in Procs, i \in 1..3 : <<p, Order[i]>> \in Threads
      /\ \A i, j \in 1..3 : Order[i] = Order[j] => i = j
  BY CollectorsAre DEF TypeInv, TypeOK, Threads
<1>1. ASSUME NEW p \in Procs, Vanish(p) PROVE ThreadsInv'
  BY <1>0, <1>1 DEF Vanish, Of
<1>2. ASSUME NEW p \in Procs, NEW i \in 1..3, ThreadMoves(p, i) PROVE ThreadsInv'
  BY <1>0, <1>2 DEF ThreadMoves
<1>3. ASSUME NEW p \in Procs, NEW cmd \in {"search", "demo", "daemon"},
             Launch(p, cmd) \/ Rebuild(p)
      PROVE  ThreadsInv'
  BY <1>0, <1>3 DEF Launch, Rebuild, Of, daemon_vars, thread_vars
<1>4. ASSUME NEW p \in Procs, StartDaemon(p) PROVE ThreadsInv'
  BY <1>0, <1>4 DEF StartDaemon, GoOn, Of, thread_vars
<1>5. ASSUME NEW p \in Procs, StartCollector(p) PROVE ThreadsInv'
  <2>0. turn[p] \in 1..3 /\ main[p] = "starting"
    BY <1>0, <1>5 DEF StartCollector
  <2>1. PICK n \in 1..3 : n = turn[p] /\ n + 1 \in 2..4
    BY <2>0
  <2>2. /\ main' = [main EXCEPT ![p] = "starting"] /\ turn' = [turn EXCEPT ![p] = n + 1]
        /\ thread' = [thread EXCEPT ![<<p, Order[n]>>] =
                        IF Order[n] \in Threaded THEN "idle" ELSE "none"]
    BY <1>5, <2>1 DEF StartCollector, GoOn
  <2>3. \A q \in Procs, j \in 1..3 : <<q, j>> # <<p, n>> => Of(q, j)' = Of(q, j)
    BY <1>0, <2>1, <2>2 DEF Of
  <2>4. Of(p, n)' = IF Order[n] \in Threaded THEN "idle" ELSE "none"
    BY <1>0, <2>1, <2>2 DEF Of
  <2>5. \A i \in 1..3 : i < n + 1 <=> i < n \/ i = n
    BY <2>1
  <2>6. QED
    BY <1>0, <2>0, <2>1, <2>2, <2>3, <2>4, <2>5
<1>6. ASSUME NEW p \in Procs, EnterLoop(p) PROVE ThreadsInv'
  BY <1>0, <1>6 DEF EnterLoop, GoOn, Of, thread_vars
<1>7. ASSUME NEW p \in Procs, LeaveLoop(p) \/ StopCollector(p) PROVE ThreadsInv'
  BY <1>0, <1>7 DEF LeaveLoop, StopCollector, GoOn, Of, thread_vars
<1>8. ASSUME NEW p \in Procs, JoinCollector(p) PROVE ThreadsInv'
  <2>1. turn[p] \in 1..3 /\ main[p] = "joining"
    BY <1>0, <1>8 DEF JoinCollector, TypeInv, JoinsOne
  <2>2. \A i \in 1..3 : i < turn[p] + 1 <=> i < turn[p] \/ i = turn[p]
    BY <2>1
  <2>3. /\ Of(p, turn[p]) \in {"none", "ended"}
        /\ main' = [main EXCEPT ![p] = "stopping"]
        /\ turn' = [turn EXCEPT ![p] = turn[p] + 1] /\ thread' = thread
    BY <1>8 DEF JoinCollector, GoOn, Of, thread_vars
  <2>4. QED
    BY <1>0, <2>1, <2>2, <2>3 DEF Of
<1>9. CASE UNCHANGED <<main, turn, thread>>
  BY <1>9 DEF Of
<1>10. Tick \/ UNCHANGED vars => UNCHANGED <<main, turn, thread>>
  BY DEF Tick, vars, process_vars, daemon_vars, thread_vars
<1>11. \A p \in Procs :
         (\E stamp \in Stamps : DemoEvent(p, stamp)) \/ Interrupt(p) \/ Poll(p)
         => UNCHANGED <<main, turn, thread>>
  BY DEF DemoEvent, Interrupt, Poll, process_vars, daemon_vars, thread_vars
<1>12. \A p \in Procs, c \in Collectors, stamp \in Stamps :
         Capture(p, c, stamp) => \E i \in 1..3 : ThreadMoves(p, i)
  BY ThreadActionsMove
<1>13. \A p \in Procs, c \in Collectors :
         Save(p, c) \/ SaveFails(p, c) \/ AddToIndex(p, c) \/ EndThread(p, c)
         => \E i \in 1..3 : ThreadMoves(p, i)
  <2>1. 0 \in Stamps
    BY BoundsAssumption DEF Stamps
  <2>2. QED
    BY <2>1, ThreadActionsMove
<1>14. \A p \in Procs : MainStep(p) => ThreadsInv'
  BY <1>1, <1>3, <1>4, <1>5, <1>6, <1>7, <1>8 DEF MainStep, Finish, Exit
<1>15. \A p \in Procs, c \in Collectors : ThreadStep(p, c) => ThreadsInv'
  BY <1>1, <1>2, <1>12, <1>13 DEF ThreadStep, SaveKills
<1>16. QED
  BY <1>1, <1>2, <1>3, <1>9, <1>10, <1>11, <1>12, <1>14, <1>15 DEF Next, Crash

LEMMA ThreadsInvariant == Spec => []ThreadsInv
<1>1. Init => ThreadsInv
  <2>1. \A p \in Procs, i \in 1..3 : <<p, Order[i]>> \in Threads
    BY CollectorsAre DEF Threads
  <2>2. QED
    BY <2>1 DEF Init, ThreadsInv, NoneBefore, StartedInTurn, AllStarted, JoinedInTurn,
       Serving, Of
<1>2. QED
  BY <1>1, ThreadsStep, TypeInvariant, PTL DEF Spec

-----------------------------------------------------------------------------
(* The index.  What makes IndexMatchesDisk inductive is that the row a     *)
(* thread has in hand is its process's own and newer than what the rebuild *)
(* has read, and that no two threads have the same row in hand; and for    *)
(* CapturedIsSearchable, that captured rows are dated in the past.         *)

Saved(p, c)   == At(p, c, "saved")
Pending(p, id) == \E c \in Collectors : Saved(p, c) /\ hand[<<p, c>>] = id

Known(p, id) ==
    /\ id \in Ids
    /\ \/ id <= rows_read[p] /\ disk[id].stamp <= booted[p]
       \/ id > rows_read[p] /\ disk[id].by = p

RowsCounted ==
    \A p \in Procs :
        /\ rows_read[p] <= Len(disk) /\ rows_then[p] <= Len(disk)
        /\ Rebuilt(p) => rows_then[p] <= rows_read[p]

PastOnly ==
    /\ \A id \in Ids : disk[id].captured => disk[id].stamp <= clock
    /\ \A p \in Procs, c \in Collectors : At(p, c, "captured") => hand[<<p, c>>] <= clock

SeenAtLaunch ==
    \A p \in Procs : main[p] # "off" =>
        \A id \in Ids :
            id <= rows_then[p] /\ disk[id].captured => disk[id].stamp <= booted[p]

HandsOwn ==
    \A p \in Procs, c \in Collectors : Saved(p, c) =>
        /\ hand[<<p, c>>] > rows_read[p] /\ disk[hand[<<p, c>>]].by = p
        /\ \A d \in Collectors : Saved(p, d) /\ hand[<<p, d>>] = hand[<<p, c>>] => d = c

Exact(p) ==
    Rebuilt(p) => \A id : id \in index[p] <=> Known(p, id) /\ ~Pending(p, id)

IndexExact == \A p \in Procs : Exact(p)

IndexInv == RowsCounted /\ PastOnly /\ SeenAtLaunch /\ HandsOwn /\ IndexExact

(* Most steps leave the table, the index and the saved rows in hand alone. *)
Calm ==
    /\ UNCHANGED <<disk, index, booted, rows_then, rows_read>>
    /\ clock \in Nat /\ clock' \in Nat /\ clock <= clock'
    /\ \A p \in Procs :
        (Rebuilt(p)' <=> Rebuilt(p)) /\ (main'[p] = "off" <=> main[p] = "off")
    /\ \A p \in Procs, c \in Collectors :
        /\ Saved(p, c)' <=> Saved(p, c)
        /\ Saved(p, c) => hand'[<<p, c>>] = hand[<<p, c>>]
        /\ At(p, c, "captured")' =>
               \/ At(p, c, "captured") /\ hand'[<<p, c>>] = hand[<<p, c>>]
               \/ hand'[<<p, c>>] <= clock'

LEMMA RowsTyped ==
  ASSUME TypeOK
  PROVE  /\ Len(disk) \in Nat /\ \A id \in Ids : id \in Nat /\ id <= Len(disk) /\ id >= 1
         /\ \A id \in Ids : disk[id].stamp \in Nat
<1>1. disk \in Seq(Rows)
  BY DEF TypeOK
<1>2. Len(disk) \in Nat /\ \A id \in 1..Len(disk) : disk[id] \in Rows
  BY <1>1
<1>3. \A row \in Rows : row.stamp \in Nat
  BY DEF Rows, Stamps
<1>4. QED
  BY <1>2, <1>3 DEF Ids

LEMMA CalmKeeps == TypeInv /\ IndexInv /\ Calm => IndexInv'
<1> SUFFICES ASSUME TypeInv, IndexInv, Calm PROVE IndexInv'
  OBVIOUS
<1>0. Ids' = Ids /\ \A id \in Ids : disk[id].stamp \in Nat
  BY RowsTyped DEF Calm, Ids, TypeInv
<1>1. RowsCounted' /\ SeenAtLaunch'
  BY <1>0 DEF Calm, IndexInv, RowsCounted, SeenAtLaunch
<1>2. PastOnly'
  <2>1. \A id \in Ids : disk[id].captured => disk[id].stamp <= clock'
    BY <1>0 DEF Calm, IndexInv, PastOnly
  <2>2. \A p \in Procs, c \in Collectors :
          At(p, c, "captured")' => hand'[<<p, c>>] <= clock'
    BY DEF Calm, IndexInv, PastOnly, TypeInv, HandsTyped, Stamps
  <2>3. QED
    BY <1>0, <2>1, <2>2 DEF PastOnly, Calm
<1>3. HandsOwn'
  <2>1. \A p \in Procs, c \in Collectors :
          Saved(p, c)' => Saved(p, c) /\ hand'[<<p, c>>] = hand[<<p, c>>]
    BY DEF Calm
  <2>2. disk' = disk /\ rows_read' = rows_read
    BY DEF Calm
  <2>3. ASSUME NEW p \in Procs, NEW c \in Collectors, Saved(p, c)'
        PROVE  /\ hand'[<<p, c>>] > rows_read'[p] /\ disk'[hand'[<<p, c>>]].by = p
               /\ \A d \in Collectors :
                     Saved(p, d)' /\ hand'[<<p, d>>] = hand'[<<p, c>>] => d = c
    <3>1. Saved(p, c) /\ hand'[<<p, c>>] = hand[<<p, c>>]
      BY <2>1, <2>3
    <3>2. hand[<<p, c>>] > rows_read[p] /\ disk[hand[<<p, c>>]].by = p
      BY <3>1 DEF IndexInv, HandsOwn
    <3>3. \A d \in Collectors : Saved(p, d) /\ hand[<<p, d>>] = hand[<<p, c>>] => d = c
      BY <3>1 DEF IndexInv, HandsOwn
    <3>4. QED
      BY <2>1, <2>2, <3>1, <3>2, <3>3
  <2>4. QED
    BY <2>3 DEF HandsOwn
<1>4. IndexExact'
  <2>1. \A p \in Procs : \A id : Pending(p, id)' <=> Pending(p, id)
    BY DEF Calm, Pending
  <2>2. \A p \in Procs : \A id : Known(p, id)' <=> Known(p, id)
    BY <1>0 DEF Calm, Known
  <2>3. QED
    BY <2>1, <2>2 DEF Calm, IndexInv, IndexExact, Exact
<1>5. QED
  BY <1>1, <1>2, <1>3, <1>4 DEF IndexInv

(* A process of which nothing changes. *)
Same(q) ==
    /\ Rebuilt(q)' <=> Rebuilt(q)
    /\ index'[q] = index[q] /\ booted'[q] = booted[q] /\ rows_read'[q] = rows_read[q]
    /\ \A c \in Collectors : UNCHANGED <<thread[<<q, c>>], hand[<<q, c>>]>>

LEMMA SameStaysExact ==
  ASSUME NEW q, Same(q), disk' = disk, Exact(q)
  PROVE  Exact(q)'
<1>1. \A id : Pending(q, id)' <=> Pending(q, id)
  BY DEF Same, Pending, Saved, At
<1>2. \A id : Known(q, id)' <=> Known(q, id)
  BY DEF Same, Known, Ids
<1>3. QED
  BY <1>1, <1>2 DEF Same, Exact

LEMMA VanishKeeps ==
  ASSUME TypeInv, IndexInv, NEW p \in Procs, Vanish(p)
  PROVE  IndexInv'
<1> USE DEF IndexInv
<1>0. /\ Ids' = Ids /\ Len(disk)' = Len(disk) /\ Len(disk) \in Nat
      /\ UNCHANGED <<disk, clock>>
  BY RowsTyped DEF TypeInv, Vanish, Ids
<1>1. \A q \in Procs \ {p} :
        Same(q) /\ main'[q] = main[q] /\ rows_then'[q] = rows_then[q]
  BY DEF Same, Vanish, TypeInv, TypeOK, Threads, Rebuilt
<1>2. /\ main'[p] = "off" /\ ~Rebuilt(p)' /\ rows_then'[p] = 0 /\ rows_read'[p] = 0
      /\ \A c \in Collectors : thread'[<<p, c>>] = "none"
  BY DEF Vanish, TypeInv, TypeOK, Threads, Rebuilt
<1>3. RowsCounted' /\ SeenAtLaunch'
  <2>1. RowsCounted'
    BY <1>0, <1>1, <1>2 DEF RowsCounted, Same
  <2>2. SeenAtLaunch'
    BY <1>0, <1>1, <1>2 DEF SeenAtLaunch, Same
  <2>3. QED
    BY <2>1, <2>2
<1>4. PastOnly' /\ HandsOwn'
  BY <1>0, <1>1, <1>2 DEF PastOnly, HandsOwn, Saved, At, Same
<1>5. IndexExact'
  <2>1. Exact(p)'
    BY <1>2 DEF Exact
  <2>2. QED
    BY <1>0, <1>1, <2>1, SameStaysExact DEF IndexExact
<1>6. QED
  BY <1>3, <1>4, <1>5

LEMMA LaunchKeeps ==
  ASSUME TypeInv, ThreadsInv, IndexInv, NEW p \in Procs,
         NEW cmd \in {"search", "demo", "daemon"}, Launch(p, cmd)
  PROVE  IndexInv'
<1> USE DEF IndexInv
<1>0. /\ Ids' = Ids /\ Len(disk) \in Nat
      /\ \A id \in Ids : id \in Nat /\ id <= Len(disk)
      /\ UNCHANGED <<disk, clock, index, rows_read, thread, hand>>
  BY RowsTyped DEF TypeInv, Launch, Ids, thread_vars
<1>1. /\ main[p] = "off" /\ main' = [main EXCEPT ![p] = "boot"] /\ ~Rebuilt(p)'
      /\ booted' = [booted EXCEPT ![p] = clock]
      /\ rows_then' = [rows_then EXCEPT ![p] = Len(disk)]
      /\ main \in [Procs -> MainPC] /\ booted \in [Procs -> Stamps]
      /\ rows_then \in [Procs -> 0..MaxRows]
  BY DEF Launch, TypeInv, TypeOK, Rebuilt
<1>2. \A q \in Procs \ {p} :
        Same(q) /\ main'[q] = main[q] /\ rows_then'[q] = rows_then[q]
  BY <1>0, <1>1 DEF Rebuilt, Same
<1>3. RowsCounted' /\ SeenAtLaunch'
  BY <1>0, <1>1, <1>2 DEF RowsCounted, SeenAtLaunch, PastOnly, Same
<1>4. PastOnly' /\ HandsOwn'
  BY <1>0 DEF PastOnly, HandsOwn, Saved, At
<1>5. IndexExact'
  <2>1. Exact(p)'
    BY <1>1 DEF Exact
  <2>2. QED
    BY <1>0, <1>2, <2>1, SameStaysExact DEF IndexExact
<1>6. QED
  BY <1>3, <1>4, <1>5

LEMMA RebuildKeeps ==
  ASSUME TypeInv, ThreadsInv, IndexInv, NEW p \in Procs, Rebuild(p)
  PROVE  IndexInv'
<1> USE DEF IndexInv
<1>0. /\ Ids' = Ids /\ Len(disk) \in Nat
      /\ \A id \in Ids : id \in Nat /\ id <= Len(disk)
      /\ UNCHANGED <<disk, clock, booted, rows_then, thread, hand>>
  BY RowsTyped DEF TypeInv, Rebuild, Ids, thread_vars
<1>1. /\ main[p] = "boot" /\ main' = [main EXCEPT ![p] = "ready"]
      /\ index'[p] = {id \in Ids : disk[id].stamp <= booted[p]}
      /\ rows_read'[p] = Len(disk)
      /\ main \in [Procs -> MainPC]
  BY DEF Rebuild, Stored, TypeInv, TypeOK
<1>2. \A q \in Procs \ {p} :
        Same(q) /\ main'[q] = main[q] /\ rows_read'[q] = rows_read[q]
  BY <1>0 DEF Rebuild, Rebuilt, Same, TypeInv, TypeOK
<1>3. \A c \in Collectors : thread'[<<p, c>>] = "none"
  <2>1. \A i \in 1..3 : Of(p, i) = "none"
    BY <1>1 DEF ThreadsInv, NoneBefore, Serving
  <2>2. QED
    BY <1>0, <2>1, CollectorsAre DEF Of
<1>4. RowsCounted' /\ SeenAtLaunch'
  BY <1>0, <1>1, <1>2 DEF RowsCounted, SeenAtLaunch, Same
<1>5. PastOnly' /\ HandsOwn'
  BY <1>0, <1>2, <1>3 DEF PastOnly, HandsOwn, Saved, At
<1>6. IndexExact'
  <2>1. \A id : ~Pending(p, id)'
    BY <1>3 DEF Pending, Saved, At
  <2>2. \A id : Known(p, id)' <=> id \in Ids /\ disk[id].stamp <= booted[p]
    BY <1>0, <1>1 DEF Known
  <2>3. Exact(p)'
    BY <1>1, <2>1, <2>2 DEF Exact
  <2>4. QED
    BY <1>0, <1>2, <2>3, SameStaysExact DEF IndexExact
<1>7. QED
  BY <1>4, <1>5, <1>6

(* What a new row means to the processes: only its own knows it. *)
LEMMA NewRow ==
  ASSUME TypeInv, IndexInv, NEW p \in Procs, NEW stamp \in Stamps, NEW captured \in BOOLEAN,
         Insert(p, stamp, captured), UNCHANGED <<booted, rows_then, rows_read, main, clock>>,
         captured => stamp <= clock
  PROVE  /\ Len(disk) \in Nat /\ Len(disk') = Len(disk) + 1
         /\ \A id \in Ids : disk'[id] = disk[id] /\ id \in Nat /\ id <= Len(disk)
         /\ disk'[Len(disk')].by = p /\ \A q \in Procs : rows_read[q] < Len(disk')
         /\ \A q \in Procs : \A id : Known(q, id)' <=> Known(q, id) \/ (q = p /\ id = Len(disk'))
         /\ RowsCounted' /\ SeenAtLaunch'
         /\ \A id \in Ids' : disk'[id].captured => disk'[id].stamp <= clock'
<1> DEFINE n == Len(disk)  new == Len(disk')
<1>1. /\ n \in Nat /\ new = n + 1
      /\ \A id \in Ids : disk'[id] = disk[id] /\ id \in Nat /\ id <= n
      /\ \A id : id \in Ids' <=> id \in Ids \/ id = new
      /\ disk'[new] = [stamp |-> stamp, by |-> p, captured |-> captured]
  BY RowsTyped, InsertTyped DEF TypeInv
<1>2. \A q \in Procs :
        /\ rows_read[q] \in Nat /\ rows_then[q] \in Nat
        /\ rows_read[q] <= n /\ rows_then[q] <= n
        /\ rows_read'[q] = rows_read[q] /\ rows_then'[q] = rows_then[q]
        /\ booted'[q] = booted[q] /\ main'[q] = main[q]
  BY BoundsAssumption DEF IndexInv, RowsCounted, TypeInv, TypeOK
<1> HIDE DEF n, new
<1>3. new \in Nat /\ new > n /\ new \notin Ids
  BY <1>1
<1>4. \A q \in Procs : rows_read[q] < new /\ rows_then[q] < new
  BY <1>2, <1>3, <1>1
<1>5. ASSUME NEW q \in Procs, NEW id
      PROVE  Known(q, id)' <=> Known(q, id) \/ (q = p /\ id = new)
  <2>1. CASE id \in Ids
    BY <1>1, <1>2, <1>3, <2>1 DEF Known
  <2>2. CASE id = new
    BY <1>1, <1>2, <1>3, <1>4, <2>2 DEF Known
  <2>3. CASE id \notin Ids /\ id # new
    BY <1>1, <2>3 DEF Known
  <2>4. QED
    BY <2>1, <2>2, <2>3
<1>6. RowsCounted'
  BY <1>1, <1>2, <1>3 DEF IndexInv, RowsCounted, Rebuilt, new
<1>7. SeenAtLaunch'
  <2> SUFFICES ASSUME NEW q \in Procs, main[q] # "off", NEW id \in Ids',
                      id <= rows_then[q], disk'[id].captured
               PROVE  disk'[id].stamp <= booted[q]
    BY <1>2 DEF SeenAtLaunch
  <2>1. id # new
    BY <1>2, <1>3, <1>4
  <2>2. QED
    BY <1>1, <2>1 DEF IndexInv, SeenAtLaunch
<1>8. \A id \in Ids' : disk'[id].captured => disk'[id].stamp <= clock'
  BY <1>1 DEF IndexInv, PastOnly
<1>9. QED
  BY <1>1, <1>4, <1>5, <1>6, <1>7, <1>8 DEF n, new

LEMMA DemoEventKeeps ==
  ASSUME TypeInv, IndexInv, NEW p \in Procs, NEW stamp \in Stamps, DemoEvent(p, stamp)
  PROVE  IndexInv'
<1> USE DEF IndexInv
<1>0. /\ Insert(p, stamp, FALSE)
      /\ UNCHANGED <<booted, rows_then, rows_read, main, clock, thread, hand>>
      /\ index'[p] = index[p] \cup {Len(disk')}
      /\ \A q \in Procs \ {p} : index'[q] = index[q]
  BY DEF DemoEvent, thread_vars, TypeInv, TypeOK
<1>1. /\ Len(disk) \in Nat /\ Len(disk') = Len(disk) + 1
      /\ \A id \in Ids : disk'[id] = disk[id] /\ id \in Nat /\ id <= Len(disk)
      /\ \A q \in Procs : \A id : Known(q, id)' <=> Known(q, id) \/ (q = p /\ id = Len(disk'))
      /\ RowsCounted' /\ SeenAtLaunch'
      /\ \A id \in Ids' : disk'[id].captured => disk'[id].stamp <= clock'
  BY <1>0, NewRow
<1>2. \A q \in Procs, c \in Collectors : Saved(q, c) => hand[<<q, c>>] \in Ids
  BY DEF TypeInv, HandsTyped, Saved, Ids
<1>3. \A q \in Procs : \A id : Pending(q, id)' <=> Pending(q, id)
  BY <1>0 DEF Pending, Saved, At
<1>4. PastOnly' /\ HandsOwn'
  BY <1>0, <1>1, <1>2 DEF PastOnly, HandsOwn, Saved, At
<1>5. ~Pending(p, Len(disk'))
  <2>1. Len(disk') \notin Ids
    BY <1>1
  <2>2. QED
    BY <1>2, <2>1 DEF Pending
<1>6. IndexExact'
  <2>1. \A q \in Procs : Rebuilt(q)' <=> Rebuilt(q)
    BY <1>0 DEF Rebuilt
  <2>2. Exact(p)'
    BY <1>0, <1>1, <1>3, <1>5, <2>1 DEF IndexExact, Exact
  <2>3. \A q \in Procs \ {p} : Exact(q)'
    BY <1>0, <1>1, <1>3, <2>1 DEF IndexExact, Exact
  <2>4. QED
    BY <2>2, <2>3 DEF IndexExact
<1>7. QED
  BY <1>1, <1>4, <1>6

LEMMA SaveKeeps ==
  ASSUME TypeInv, IndexInv, NEW p \in Procs, NEW c \in Collectors, Save(p, c)
  PROVE  IndexInv'
<1> USE DEF IndexInv
<1> DEFINE new == Len(disk')
<1>0. /\ Insert(p, hand[<<p, c>>], TRUE)
      /\ UNCHANGED <<booted, rows_then, rows_read, main, clock, index>>
      /\ thread' = [thread EXCEPT ![<<p, c>>] = "saved"]
      /\ hand' = [hand EXCEPT ![<<p, c>>] = new]
      /\ thread \in [Threads -> ThreadPC] /\ hand \in [Threads -> Nat]
      /\ At(p, c, "captured") /\ hand[<<p, c>>] \in Stamps /\ hand[<<p, c>>] <= clock
  BY DEF Save, GoTo, process_vars, TypeInv, TypeOK, HandsTyped, PastOnly
<1>1. /\ Len(disk) \in Nat /\ new = Len(disk) + 1
      /\ \A id \in Ids : disk'[id] = disk[id] /\ id \in Nat /\ id <= Len(disk)
      /\ disk'[new].by = p /\ \A q \in Procs : rows_read[q] < new
      /\ \A q \in Procs : \A id : Known(q, id)' <=> Known(q, id) \/ (q = p /\ id = new)
      /\ RowsCounted' /\ SeenAtLaunch'
      /\ \A id \in Ids' : disk'[id].captured => disk'[id].stamp <= clock'
  BY <1>0, NewRow
<1> HIDE DEF new
<1>2. \A q \in Procs, d \in Collectors : <<q, d>> \in Threads
  BY DEF Threads
<1>3. /\ thread'[<<p, c>>] = "saved" /\ hand'[<<p, c>>] = new
      /\ \A q \in Procs, d \in Collectors : <<q, d>> # <<p, c>> =>
           thread'[<<q, d>>] = thread[<<q, d>>] /\ hand'[<<q, d>>] = hand[<<q, d>>]
  BY <1>0, <1>2
<1>4. new \notin Ids
  BY <1>1
<1>5. \A q \in Procs, d \in Collectors :
        Saved(q, d) => hand[<<q, d>>] \in Ids /\ hand[<<q, d>>] # new
  BY <1>4 DEF TypeInv, HandsTyped, Saved, Ids
<1>6. PastOnly'
  <2>1. clock' = clock
    BY <1>0
  <2>2. \A q \in Procs, d \in Collectors : At(q, d, "captured")' => hand'[<<q, d>>] <= clock
    BY <1>3 DEF PastOnly, At
  <2>3. QED
    BY <1>1, <2>1, <2>2 DEF PastOnly
<1>7. HandsOwn'
  <2>1. \A q \in Procs, d \in Collectors : <<q, d>> # <<p, c>> =>
          (Saved(q, d)' <=> Saved(q, d))
    BY <1>3 DEF Saved, At
  <2> SUFFICES ASSUME NEW q \in Procs, NEW d \in Collectors, Saved(q, d)'
               PROVE  /\ hand'[<<q, d>>] > rows_read'[q] /\ disk'[hand'[<<q, d>>]].by = q
                      /\ \A e \in Collectors :
                            Saved(q, e)' /\ hand'[<<q, e>>] = hand'[<<q, d>>] => e = d
    BY DEF HandsOwn
  <2>2. CASE <<q, d>> = <<p, c>>
    <3>1. q = p /\ d = c
      BY <2>2
    <3>2. hand'[<<q, d>>] = new /\ new > rows_read'[q] /\ disk'[new].by = q
      BY <1>0, <1>1, <1>3, <3>1
    <3>3. \A e \in Collectors : e # c => (Saved(p, e)' => hand'[<<p, e>>] # new)
      BY <1>3, <1>5, <2>1
    <3>4. QED
      BY <3>1, <3>2, <3>3
  <2>3. CASE <<q, d>> # <<p, c>>
    <3>1. /\ Saved(q, d) /\ hand'[<<q, d>>] = hand[<<q, d>>]
          /\ hand[<<q, d>>] \in Ids /\ hand[<<q, d>>] # new
      BY <1>3, <1>5, <2>1, <2>3
    <3>2. hand'[<<q, d>>] > rows_read'[q] /\ disk'[hand'[<<q, d>>]].by = q
      BY <1>0, <1>1, <3>1 DEF HandsOwn
    <3>3. ASSUME NEW e \in Collectors, Saved(q, e)', hand'[<<q, e>>] = hand'[<<q, d>>]
          PROVE  e = d
      <4>1. <<q, e>> # <<p, c>>
        BY <1>3, <3>1, <3>3
      <4>2. Saved(q, e) /\ hand'[<<q, e>>] = hand[<<q, e>>]
        BY <1>3, <2>1, <3>3, <4>1
      <4>3. QED
        BY <3>1, <3>3, <4>2 DEF HandsOwn
    <3>4. QED
      BY <3>2, <3>3
  <2>4. QED
    BY <2>2, <2>3
<1>8. \A q \in Procs : \A id : Pending(q, id)' <=> Pending(q, id) \/ (q = p /\ id = new)
  BY <1>0, <1>3 DEF Pending, Saved, At
<1>9. IndexExact'
  <2>1. \A q \in Procs : Rebuilt(q)' <=> Rebuilt(q)
    BY <1>0 DEF Rebuilt
  <2>2. ~Known(p, new) /\ index' = index
    BY <1>0, <1>4 DEF Known
  <2>3. QED
    BY <1>1, <1>8, <2>1, <2>2 DEF IndexExact, Exact
<1>10. QED
  BY <1>1, <1>6, <1>7, <1>9

LEMMA AddToIndexKeeps ==
  ASSUME TypeInv, IndexInv, NEW p \in Procs, NEW c \in Collectors, AddToIndex(p, c)
  PROVE  IndexInv'
<1> USE DEF IndexInv
<1> DEFINE id0 == hand[<<p, c>>]
<1>0. /\ UNCHANGED <<disk, clock, booted, rows_then, rows_read, main>>
      /\ index'[p] = index[p] \cup {id0} /\ \A q \in Procs \ {p} : index'[q] = index[q]
      /\ thread' = [thread EXCEPT ![<<p, c>>] = "idle"]
      /\ hand' = [hand EXCEPT ![<<p, c>>] = 0]
      /\ thread \in [Threads -> ThreadPC] /\ hand \in [Threads -> Nat] /\ Saved(p, c)
      /\ Ids' = Ids
  BY DEF AddToIndex, GoTo, TypeInv, TypeOK, Saved, Ids
<1>1. /\ thread'[<<p, c>>] = "idle"
      /\ \A q \in Procs, d \in Collectors : <<q, d>> # <<p, c>> =>
           thread'[<<q, d>>] = thread[<<q, d>>] /\ hand'[<<q, d>>] = hand[<<q, d>>]
  BY <1>0 DEF Threads
<1>2. RowsCounted' /\ SeenAtLaunch'
  BY <1>0 DEF RowsCounted, SeenAtLaunch, Rebuilt
<1>3. PastOnly' /\ HandsOwn'
  BY <1>0, <1>1 DEF PastOnly, HandsOwn, Saved, At
<1>4. \A q \in Procs : \A id : Known(q, id)' <=> Known(q, id)
  BY <1>0 DEF Known
<1>5. Known(p, id0) /\ Pending(p, id0)
  <2>1. id0 \in Ids /\ id0 > rows_read[p] /\ disk[id0].by = p
    BY <1>0 DEF TypeInv, HandsTyped, HandsOwn, Saved, Ids
  <2>2. QED
    BY <1>0, <2>1 DEF Known, Pending
<1>6. \A id : Pending(p, id)' <=> Pending(p, id) /\ id # id0
  <2>1. ~Saved(p, c)'
    BY <1>1 DEF Saved, At
  <2>2. \A d \in Collectors : d # c =>
          (Saved(p, d)' <=> Saved(p, d)) /\ hand'[<<p, d>>] = hand[<<p, d>>]
    BY <1>1 DEF Saved, At
  <2>3. \A d \in Collectors : Saved(p, d) /\ hand[<<p, d>>] = id0 => d = c
    BY <1>0 DEF HandsOwn
  <2> HIDE DEF id0
  <2>4. ASSUME NEW id PROVE Pending(p, id)' <=> Pending(p, id) /\ id # id0
    <3>1. Pending(p, id)' => Pending(p, id) /\ id # id0
      BY <2>1, <2>2, <2>3 DEF Pending
    <3>2. Pending(p, id) /\ id # id0 => Pending(p, id)'
      BY <2>2 DEF Pending, id0
    <3>3. QED
      BY <3>1, <3>2
  <2>5. QED
    BY <2>4
<1>7. \A q \in Procs \ {p} : \A id : Pending(q, id)' <=> Pending(q, id)
  BY <1>1 DEF Pending, Saved, At
<1>8. IndexExact'
  <2>1. \A q \in Procs : Rebuilt(q)' <=> Rebuilt(q)
    BY <1>0 DEF Rebuilt
  <2> HIDE DEF id0
  <2>2. Exact(p)'
    BY <1>0, <1>4, <1>5, <1>6, <2>1 DEF IndexExact, Exact
  <2>3. \A q \in Procs \ {p} : Exact(q)'
    BY <1>0, <1>4, <1>7, <2>1 DEF IndexExact, Exact
  <2>4. QED
    BY <2>2, <2>3 DEF IndexExact
<1>9. QED
  BY <1>2, <1>3, <1>8

LEMMA MainStepsAreCalm ==
  ASSUME TypeInv, ThreadsInv, NEW p \in Procs,
         \/ StartDaemon(p) \/ EnterLoop(p) \/ LeaveLoop(p) \/ StopCollector(p)
         \/ JoinCollector(p) \/ StartCollector(p)
  PROVE  Calm
<1>1. clock \in Nat /\ main \in [Procs -> MainPC]
  BY DEF TypeInv, TypeOK, Stamps
<1>2. PICK place, i :
        place \in {"starting", "loop", "stopping", "joining"} /\ GoOn(p, place, i)
  BY DEF StartDaemon, EnterLoop, LeaveLoop, StopCollector, JoinCollector, StartCollector
<1>3. main[p] \in {"ready", "starting", "loop", "stopping", "joining"} /\ hand' = hand
  BY DEF StartDaemon, EnterLoop, LeaveLoop, StopCollector, JoinCollector, StartCollector,
     thread_vars
<1>4. \A q \in Procs : (Rebuilt(q)' <=> Rebuilt(q)) /\ (main'[q] = "off" <=> main[q] = "off")
  BY <1>1, <1>2, <1>3 DEF GoOn, Rebuilt
<1>5. \A q \in Procs, c \in Collectors :
        /\ Saved(q, c)' <=> Saved(q, c)
        /\ At(q, c, "captured")' => At(q, c, "captured")
  <2>1. CASE StartCollector(p)
    <3>1. /\ turn[p] \in 1..3 /\ main[p] = "starting"
          /\ thread \in [Threads -> ThreadPC]
      BY <2>1 DEF StartCollector, TypeInv, TypeOK
    <3>2. PICK c \in Collectors : c = Order[turn[p]] /\ thread[<<p, c>>] = "none"
      BY <3>1, CollectorsAre DEF ThreadsInv, StartedInTurn, Of
    <3>3. thread' = [thread EXCEPT ![<<p, c>>] = IF c \in Threaded THEN "idle" ELSE "none"]
      BY <2>1, <3>2 DEF StartCollector
    <3>4. QED
      BY <3>1, <3>2, <3>3 DEF Saved, At, Threads
  <2>2. CASE thread' = thread
    BY <2>2 DEF Saved, At
  <2>3. QED
    BY <2>1, <2>2 DEF StartDaemon, EnterLoop, LeaveLoop, StopCollector, JoinCollector,
       thread_vars
<1>6. QED
  BY <1>1, <1>2, <1>3, <1>4, <1>5 DEF GoOn, Calm

LEMMA ThreadStepsAreCalm ==
  ASSUME TypeInv, NEW p \in Procs, NEW c \in Collectors, NEW stamp \in Stamps,
         Capture(p, c, stamp) \/ SaveFails(p, c) \/ EndThread(p, c)
  PROVE  Calm
<1>1. /\ clock \in Nat /\ stamp \in Nat
      /\ thread \in [Threads -> ThreadPC] /\ hand \in [Threads -> Nat]
  BY DEF TypeInv, TypeOK, Stamps
<1>2. UNCHANGED <<disk, clock, main, index, booted, rows_then, rows_read>>
  BY DEF Capture, SaveFails, EndThread, process_vars
<1>3. PICK place, h :
        /\ place \in {"captured", "idle", "ended"} /\ GoTo(p, c, place, h)
        /\ (place = "captured" => h <= clock)
  BY <1>1 DEF Capture, SaveFails, EndThread
<1>4. thread[<<p, c>>] \in {"idle", "captured"}
  BY DEF Capture, SaveFails, EndThread, At
<1>5. /\ thread'[<<p, c>>] = place /\ hand'[<<p, c>>] = h
      /\ \A q \in Procs, d \in Collectors : <<q, d>> # <<p, c>> =>
           thread'[<<q, d>>] = thread[<<q, d>>] /\ hand'[<<q, d>>] = hand[<<q, d>>]
  BY <1>1, <1>3 DEF GoTo, Threads
<1>6. ASSUME NEW q \in Procs, NEW d \in Collectors
      PROVE  /\ Saved(q, d)' <=> Saved(q, d)
             /\ Saved(q, d) => hand'[<<q, d>>] = hand[<<q, d>>]
             /\ At(q, d, "captured")' =>
                  \/ At(q, d, "captured") /\ hand'[<<q, d>>] = hand[<<q, d>>]
                  \/ hand'[<<q, d>>] <= clock'
  <2>1. CASE <<q, d>> = <<p, c>>
    BY <1>2, <1>3, <1>4, <1>5, <2>1 DEF Saved, At
  <2>2. CASE <<q, d>> # <<p, c>>
    BY <1>5, <2>2 DEF Saved, At
  <2>3. QED
    BY <2>1, <2>2
<1>7. QED
  BY <1>1, <1>2, <1>6 DEF Calm, Rebuilt

LEMMA IndexStep == TypeInv /\ ThreadsInv /\ IndexInv /\ [Next]_vars => IndexInv'
<1> SUFFICES ASSUME TypeInv, ThreadsInv, IndexInv, [Next]_vars PROVE IndexInv'
  OBVIOUS
<1>0. 0 \in Stamps /\ clock \in Nat
  BY BoundsAssumption DEF Stamps, TypeInv, TypeOK
<1>1. Calm => IndexInv'
  BY CalmKeeps
<1>2. \A p \in Procs :
        /\ Vanish(p) \/ Rebuild(p) => IndexInv'
        /\ \A cmd \in {"search", "demo", "daemon"} : Launch(p, cmd) => IndexInv'
        /\ \A stamp \in Stamps : DemoEvent(p, stamp) => IndexInv'
        /\ \A c \in Collectors : Save(p, c) \/ AddToIndex(p, c) => IndexInv'
  BY VanishKeeps, RebuildKeeps, LaunchKeeps, DemoEventKeeps, SaveKeeps, AddToIndexKeeps
<1>3. \A p \in Procs :
        StartDaemon(p) \/ EnterLoop(p) \/ LeaveLoop(p) \/ StopCollector(p)
        \/ JoinCollector(p) \/ StartCollector(p) => Calm
  BY MainStepsAreCalm
<1>4. \A p \in Procs, c \in Collectors :
        /\ \A stamp \in Stamps : Capture(p, c, stamp) => Calm
        /\ SaveFails(p, c) \/ EndThread(p, c) => Calm
  BY <1>0, ThreadStepsAreCalm
<1>5. Tick \/ UNCHANGED vars => Calm
  BY <1>0 DEF Tick, Calm, vars, process_vars, daemon_vars, thread_vars, Rebuilt, Saved, At
<1>6. \A p \in Procs : Interrupt(p) \/ Poll(p) => Calm
  BY <1>0 DEF Interrupt, Poll, Calm, process_vars, daemon_vars, thread_vars, Rebuilt,
     Saved, At
<1>7. QED
  BY <1>1, <1>2, <1>3, <1>4, <1>5, <1>6
     DEF Next, MainStep, ThreadStep, Crash, Finish, Exit, SaveKills

LEMMA IndexInvariant == Spec => []IndexInv
<1>1. Init => IndexInv
  <2>1. \A p \in Procs, c \in Collectors : <<p, c>> \in Threads
    BY DEF Threads
  <2>2. Len(<<>>) = 0 /\ 1..0 = {}
    OBVIOUS
  <2>3. QED
    BY <2>1, <2>2 DEF Init, IndexInv, RowsCounted, PastOnly, SeenAtLaunch, HandsOwn,
       IndexExact, Exact, Rebuilt, Saved, At, Ids
<1>2. QED
  BY <1>1, IndexStep, TypeInvariant, ThreadsInvariant, PTL DEF Spec

(* The index of every process is at every moment what the rebuild read and *)
(* what the process has stored since, less what a collector is about to    *)
(* add - whoever else stores rows, is killed, or fails to save.            *)
THEOREM IndexFollowsDisk == Spec => []IndexMatchesDisk
<1>1. TypeInv /\ IndexInv => IndexMatchesDisk
  <2> SUFFICES ASSUME IndexInv, NEW p \in Procs, Rebuilt(p) PROVE
        LET before  == {id \in Ids : id <= rows_read[p] /\ disk[id].stamp <= booted[p]}
            own     == {id \in Ids : id > rows_read[p] /\ disk[id].by = p}
            pending == {hand[<<p, c>>] : c \in {d \in Collectors : At(p, d, "saved")}}
        IN  index[p] = (before \cup own) \ pending
    BY DEF IndexMatchesDisk
  <2> DEFINE before  == {id \in Ids : id <= rows_read[p] /\ disk[id].stamp <= booted[p]}
             own     == {id \in Ids : id > rows_read[p] /\ disk[id].by = p}
             pending == {hand[<<p, c>>] : c \in {d \in Collectors : At(p, d, "saved")}}
  <2>1. \A id : id \in before \cup own <=> Known(p, id)
    BY DEF Known
  <2>2. \A id : id \in pending <=> Pending(p, id)
    BY DEF Pending, Saved
  <2>3. \A id : id \in index[p] <=> Known(p, id) /\ ~Pending(p, id)
    BY DEF IndexInv, IndexExact, Exact
  <2> HIDE DEF before, own, pending
  <2>4. index[p] = (before \cup own) \ pending
    BY <2>1, <2>2, <2>3
  <2>5. QED
    BY <2>4 DEF before, own, pending
<1>2. QED
  BY <1>1, TypeInvariant, IndexInvariant, PTL

(* An event that a daemon captured and stored before a search started is   *)
(* in the index of the search.                                             *)
THEOREM CapturedIsFound == Spec => []CapturedIsSearchable
<1>1. TypeInv /\ IndexInv => CapturedIsSearchable
  <2> SUFFICES ASSUME TypeInv, IndexInv, NEW p \in Procs, Rebuilt(p),
                      NEW id \in 1..rows_then[p], disk[id].captured
               PROVE  id \in index[p]
    BY DEF CapturedIsSearchable
  <2>1. /\ rows_then[p] <= Len(disk) /\ rows_then[p] <= rows_read[p]
        /\ rows_then[p] \in Nat /\ rows_read[p] \in Nat
    BY BoundsAssumption DEF IndexInv, RowsCounted, TypeInv, TypeOK
  <2>2. Len(disk) \in Nat
    BY RowsTyped DEF TypeInv
  <2>3. id \in Ids /\ id <= rows_then[p] /\ id <= rows_read[p]
    BY <2>1, <2>2 DEF Ids
  <2>4. disk[id].stamp <= booted[p]
    BY <2>3 DEF IndexInv, SeenAtLaunch, Rebuilt
  <2>5. ~Pending(p, id)
    <3>1. \A c \in Collectors : Saved(p, c) =>
            hand[<<p, c>>] \in Nat /\ hand[<<p, c>>] > rows_read[p]
      BY DEF IndexInv, HandsOwn, TypeInv, HandsTyped, Saved
    <3>2. ~(id > rows_read[p])
      BY <2>1, <2>3
    <3>3. QED
      BY <3>1, <3>2 DEF Pending
  <2>6. QED
    BY <2>3, <2>4, <2>5 DEF IndexInv, IndexExact, Exact, Known
<1>2. QED
  BY <1>1, TypeInvariant, IndexInvariant, PTL

(* A daemon that was stopped has no collector thread left and nothing      *)
(* stored that is not indexed.                                             *)
THEOREM DaemonStopsCleanly == Spec => []GracefulExit
<1>1. TypeInv /\ ThreadsInv /\ IndexInv => GracefulExit
  <2> SUFFICES ASSUME TypeInv, ThreadsInv, IndexInv, NEW p \in Procs,
                      main[p] = "stopping", turn[p] = 4
               PROVE  /\ \A c \in Threaded : thread[<<p, c>>] = "ended"
                      /\ \A id \in Ids : id > rows_read[p] /\ disk[id].by = p
                                         => id \in index[p]
    BY DEF GracefulExit
  <2>1. \A i \in 1..3 : /\ Of(p, i) \in {"none", "ended"}
                        /\ Order[i] \in Threaded => Of(p, i) # "none"
    BY DEF ThreadsInv, JoinedInTurn, AllStarted, Serving
  <2>2. \A c \in Collectors : /\ thread[<<p, c>>] \in {"none", "ended"}
                              /\ c \in Threaded => thread[<<p, c>>] # "none"
    BY <2>1, CollectorsAre DEF Of
  <2>3. \A id : ~Pending(p, id)
    BY <2>2 DEF Pending, Saved, At
  <2>4. \A id \in Ids : id > rows_read[p] /\ disk[id].by = p => id \in index[p]
    BY <2>3 DEF IndexInv, IndexExact, Exact, Known, Rebuilt
  <2>5. QED
    BY <2>2, <2>4, CollectorsAre, ThreadedAssumption
<1>2. QED
  BY <1>1, TypeInvariant, ThreadsInvariant, IndexInvariant, PTL

-----------------------------------------------------------------------------
(* MindTrace implements SearchableLog: five kinds of steps are steps of    *)
(* the log, and all others change nothing that it speaks of.               *)


Phases == [p \in Procs |-> Phase(p)]

(* Of the main thread the log sees a little. *)
LEMMA PhaseMoves ==
  ASSUME TypeInv, NEW p \in Procs, NEW place \in MainPC,
         main' = [main EXCEPT ![p] = place]
  PROVE  Phases' = [Phases EXCEPT ![p] = IF place = "off" THEN "closed"
                                         ELSE IF place = "boot" THEN "opening" ELSE "open"]
<1>1. main \in [Procs -> MainPC]
  BY DEF TypeInv, TypeOK
<1>2. \A q \in Procs : main'[q] = IF q = p THEN place ELSE main[q]
  BY <1>1
<1>3. QED
  BY <1>2 DEF Phases, Phase

LEMMA CalmIsStutter ==
  ASSUME Calm
  PROVE  UNCHANGED Log!vars
<1>1. \A p \in Procs : Phase(p)' = Phase(p)
  BY DEF Calm, Phase, Rebuilt
<1>2. UNCHANGED Phases
  BY <1>1 DEF Phases
<1>3. QED
  BY <1>2 DEF Calm, Log!vars, Phases

LEMMA VanishCloses ==
  ASSUME TypeInv, NEW p \in Procs, Vanish(p), main[p] # "off"
  PROVE  Log!Close(p)
<1>1. Phases' = [Phases EXCEPT ![p] = "closed"]
  BY PhaseMoves DEF Vanish, MainPC
<1>2. Phase(p) # "closed"
  BY DEF Phase
<1>3. /\ disk' = disk /\ rows_then' = [rows_then EXCEPT ![p] = 0]
      /\ index' = [index EXCEPT ![p] = {}]
  BY DEF Vanish
<1>4. QED
  BY <1>1, <1>2, <1>3 DEF Log!Close, Phases

LEMMA LaunchOpens ==
  ASSUME TypeInv, NEW p \in Procs, NEW cmd \in {"search", "demo", "daemon"}, Launch(p, cmd)
  PROVE  Log!Open(p)
<1>1. Phases' = [Phases EXCEPT ![p] = "opening"]
  BY PhaseMoves DEF Launch, MainPC
<1>2. Phase(p) = "closed"
  BY DEF Phase, Launch
<1>3. /\ disk' = disk /\ index' = index
      /\ rows_then' = [rows_then EXCEPT ![p] = Len(disk)]
  BY DEF Launch
<1>4. QED
  BY <1>1, <1>2, <1>3 DEF Log!Open, Phases

(* The rebuild finds what was captured before: that was dated in the past. *)
LEMMA RebuildOpens ==
  ASSUME TypeInv, IndexInv, NEW p \in Procs, Rebuild(p)
  PROVE  Log!Opened(p)
<1> DEFINE places == Stored(booted[p])
<1>1. Phases' = [Phases EXCEPT ![p] = "open"]
  BY PhaseMoves DEF Rebuild, MainPC
<1>2. Phase(p) = "opening"
  BY DEF Phase, Rebuild
<1>3. /\ disk' = disk /\ rows_then' = rows_then
      /\ index' = [index EXCEPT ![p] = places]
  BY DEF Rebuild
<1>4. DOMAIN disk = Ids
  BY DEF TypeInv, TypeOK, Ids
<1>5. Log!Captured(1..rows_then[p]) \subseteq places
  <2> SUFFICES ASSUME NEW id \in 1..rows_then[p], disk[id].captured
               PROVE  id \in places
    BY DEF Log!Captured
  <2>1. rows_then[p] <= Len(disk) /\ rows_then[p] \in Nat /\ Len(disk) \in Nat
    BY RowsTyped, BoundsAssumption DEF IndexInv, RowsCounted, TypeInv, TypeOK
  <2>2. id \in Ids /\ id <= rows_then[p]
    BY <2>1 DEF Ids
  <2>3. disk[id].stamp <= booted[p]
    BY <2>2 DEF IndexInv, SeenAtLaunch, Rebuild
  <2>4. QED
    BY <2>2, <2>3 DEF Stored
<1>6. places \in SUBSET DOMAIN disk
  BY <1>4 DEF Stored
<1> HIDE DEF places
<1>7. QED
  BY <1>1, <1>2, <1>3, <1>5, <1>6 DEF Log!Opened, Phases

LEMMA InsertStores ==
  ASSUME TypeInv, NEW p \in Procs, NEW stamp \in Stamps, NEW captured \in BOOLEAN,
         Insert(p, stamp, captured), Rebuilt(p), UNCHANGED <<main, rows_then>>,
         index' = index \/ index' = [index EXCEPT ![p] = @ \cup {Len(disk')}]
  PROVE  \E e \in Rows : Log!Store(p, e)
<1> DEFINE e == [stamp |-> stamp, by |-> p, captured |-> captured]
<1>1. e \in Rows /\ e.by = p /\ disk' = Append(disk, e)
  BY DEF Rows, Insert
<1>2. Phase(p) = "open" /\ Phases' = Phases
  BY DEF Phase, Phases, Rebuilt
<1> HIDE DEF e
<1>3. Log!Store(p, e)
  BY <1>1, <1>2 DEF Log!Store, Log!Finds, Phases
<1>4. QED
  BY <1>1, <1>3

(* A thread with an event in hand belongs to a daemon that has started. *)
LEMMA ThreadsServe ==
  ASSUME ThreadsInv, NEW p \in Procs, NEW c \in Collectors, thread[<<p, c>>] # "none"
  PROVE  Rebuilt(p) /\ main[p] # "off"
<1>1. PICK i \in 1..3 : c = Order[i]
  BY CollectorsAre
<1>2. QED
  BY <1>1 DEF ThreadsInv, NoneBefore, Serving, Of, Rebuilt

LEMMA AddToIndexLearns ==
  ASSUME TypeInv, ThreadsInv, IndexInv, NEW p \in Procs, NEW c \in Collectors,
         AddToIndex(p, c)
  PROVE  Log!Learn(p)
<1> DEFINE id == hand[<<p, c>>]
<1>1. At(p, c, "saved") /\ Rebuilt(p)
  BY ThreadsServe DEF AddToIndex, At
<1>2. id \in DOMAIN disk /\ disk[id].by = p
  BY <1>1 DEF TypeInv, TypeOK, HandsTyped, IndexInv, HandsOwn, Saved
<1>3. /\ index' = [index EXCEPT ![p] = @ \cup {id}]
      /\ UNCHANGED <<disk, main, rows_then>>
  BY DEF AddToIndex
<1>4. Phase(p) = "open" /\ Phases' = Phases
  BY <1>1, <1>3 DEF Phase, Phases, Rebuilt
<1> HIDE DEF id
<1>5. QED
  BY <1>2, <1>3, <1>4 DEF Log!Learn, Log!Finds, Phases

(* The program keeps the log it promises: whichever processes start, store *)
(* events, fail or are killed, nobody loses what he finds, and whoever     *)
(* starts finds what was captured before.                                  *)
THEOREM ImplementsSearchableLog == Spec => KeepsTheLog
<1>1. Init => Log!Init
  BY DEF Init, Log!Init, Phase
<1>2. TypeInv /\ ThreadsInv /\ IndexInv /\ [Next]_vars => [Log!Next]_(Log!vars)
  <2> SUFFICES ASSUME TypeInv, ThreadsInv, IndexInv, [Next]_vars
               PROVE  Log!Next \/ UNCHANGED Log!vars
    OBVIOUS
  <2>0. 0 \in Stamps /\ clock \in Nat
    BY BoundsAssumption DEF Stamps, TypeInv, TypeOK
  <2>1. Calm => UNCHANGED Log!vars
    BY CalmIsStutter
  <2>2. ASSUME NEW p \in Procs, Vanish(p), main[p] # "off" PROVE Log!Next
    BY <2>2, VanishCloses DEF Log!Next
  <2>3. ASSUME NEW p \in Procs, NEW cmd \in {"search", "demo", "daemon"}, Launch(p, cmd)
        PROVE  Log!Next
    BY <2>3, LaunchOpens DEF Log!Next
  <2>4. ASSUME NEW p \in Procs, Rebuild(p) PROVE Log!Next
    BY <2>4, RebuildOpens DEF Log!Next
  <2>5. ASSUME NEW p \in Procs, NEW stamp \in Stamps, DemoEvent(p, stamp) PROVE Log!Next
    <3>1. \E e \in Rows : Log!Store(p, e)
      BY <2>5, InsertStores DEF DemoEvent, Rebuilt
    <3>2. QED
      BY <3>1 DEF Log!Next
  <2>6. ASSUME NEW p \in Procs, NEW c \in Collectors, Save(p, c) PROVE Log!Next
    <3>1. Rebuilt(p) /\ hand[<<p, c>>] \in Stamps
      BY <2>6, ThreadsServe DEF Save, At, TypeInv, HandsTyped
    <3>2. /\ Insert(p, hand[<<p, c>>], TRUE)
          /\ UNCHANGED <<main, rows_then, index>>
      BY <2>6 DEF Save, process_vars
    <3>3. \E e \in Rows : Log!Store(p, e)
      BY <3>1, <3>2, InsertStores
    <3>4. QED
      BY <3>3 DEF Log!Next
  <2>7. ASSUME NEW p \in Procs, NEW c \in Collectors, AddToIndex(p, c) PROVE Log!Next
    BY <2>7, AddToIndexLearns DEF Log!Next
  <2>8. \A p \in Procs : Crash(p) \/ Finish(p) \/ Exit(p) => Log!Next
    BY <2>2 DEF Crash, Finish, Exit
  <2>9. \A p \in Procs, c \in Collectors : SaveKills(p, c) => Log!Next
    BY <2>2, ThreadsServe DEF SaveKills, At
  <2>10. \A p \in Procs :
           StartDaemon(p) \/ EnterLoop(p) \/ LeaveLoop(p) \/ StopCollector(p)
           \/ JoinCollector(p) \/ StartCollector(p) => Calm
    BY MainStepsAreCalm
  <2>11. \A p \in Procs, c \in Collectors :
           /\ \A stamp \in Stamps : Capture(p, c, stamp) => Calm
           /\ SaveFails(p, c) \/ EndThread(p, c) => Calm
    BY <2>0, ThreadStepsAreCalm
  <2>12. Tick \/ UNCHANGED vars => UNCHANGED Log!vars
    BY DEF Tick, vars, process_vars, Log!vars, Phase
  <2>13. \A p \in Procs : Interrupt(p) \/ Poll(p) => UNCHANGED Log!vars
    BY DEF Interrupt, Poll, process_vars, Log!vars, Phase
  <2>14. \A p \in Procs : MainStep(p) => Log!Next \/ UNCHANGED Log!vars
    BY <2>1, <2>4, <2>8, <2>10 DEF MainStep
  <2>15. \A p \in Procs, c \in Collectors :
           ThreadStep(p, c) => Log!Next \/ UNCHANGED Log!vars
    BY <2>1, <2>6, <2>7, <2>9, <2>11 DEF ThreadStep
  <2>16. QED
    BY <2>1, <2>3, <2>5, <2>8, <2>11, <2>12, <2>13, <2>14, <2>15 DEF Next
<1>3. QED
  BY <1>1, <1>2, TypeInvariant, ThreadsInvariant, IndexInvariant, PTL
     DEF Spec, KeepsTheLog, Log!Spec

=============================================================================
