----------------------------- MODULE EventStore -----------------------------
(***************************************************************************)
(* EventStore: the events table in a SQLite file, as seen through the      *)
(* connection each process has to it.  mutex_ makes the calls on one       *)
(* connection atomic among themselves; a save_batch is still a sequence of *)
(* SQL statements between which the other connections go on.  SQLite (in   *)
(* WAL mode, with no busy timeout) is modelled from how the code uses it:  *)
(* one writer at a time, a reader sees the last commit, a transaction that *)
(* has read may write only while nobody else has committed since.          *)
(***************************************************************************)
EXTENDS Naturals, Sequences, FiniteSets, FiniteSetsExt

CONSTANTS
    Conns,          \* connections: processes with an EventStore on the file
    Events,         \* contents that events may have
    MaxId,          \* bound on the ids given
    MaxBatch        \* bound on the length of a batch

ASSUME MaxIdAssumption    == MaxId \in Nat
ASSUME MaxBatchAssumption == MaxBatch \in Nat

VARIABLES
    db,        \* what is committed: the rows and AUTOINCREMENT's last id
    tx,        \* each connection's transaction: how far it has got
    view,      \* what a transaction that has read or written sees
    todo,      \* the events a save_batch has still to insert
    in_batch,  \* whether the connection is inside save_batch()
    known,     \* rows the process has been told of, by save() or a find
    acked,     \* history: rows save() returned an id for, and not cleared
    threw,     \* history: connections a batch has thrown on
    safe       \* history: the rows of acked saved on other connections

vars == <<db, tx, view, todo, in_batch, known, acked, threw, safe>>
history == <<acked, threw, safe>>

Row      == [id : 1..MaxId, event : Events]
Database == [rows : SUBSET Row, last : 0..MaxId]
Empty    == [rows |-> {}, last |-> 0]
NoView   == Empty

(* "open" has neither read nor written: its snapshot is still to be taken. *)
TxState == {"none", "open", "read", "write"}

TypeOK ==
    /\ db \in Database
    /\ tx \in [Conns -> TxState]
    /\ view \in [Conns -> Database]
    /\ todo \in [Conns -> Seq(Events)]
    /\ in_batch \in [Conns -> BOOLEAN]
    /\ known \in [Conns -> SUBSET Row]
    /\ acked \in SUBSET Row /\ safe \in SUBSET acked
    /\ threw \in SUBSET Conns

Init ==
    /\ db = Empty
    /\ tx = [c \in Conns |-> "none"]
    /\ view = [c \in Conns |-> NoView]
    /\ todo = [c \in Conns |-> <<>>]
    /\ in_batch = [c \in Conns |-> FALSE]
    /\ known = [c \in Conns |-> {}]
    /\ acked = {} /\ threw = {} /\ safe = {}

-----------------------------------------------------------------------------
(* SQLite.                                                                 *)

Sees(c) == IF tx[c] \in {"read", "write"} THEN view[c] ELSE db

(* Otherwise the statement fails with SQLITE_BUSY. *)
MayWrite(c) ==
    /\ \A d \in Conns \ {c} : tx[d] # "write"
    /\ tx[c] = "read" => view[c] = db

(* Outside a transaction a statement commits by itself. *)
Write(c, new) ==
    /\ MayWrite(c)
    /\ IF tx[c] = "none"
       THEN db' = new /\ UNCHANGED <<tx, view>>
       ELSE /\ tx' = [tx EXCEPT ![c] = "write"]
            /\ view' = [view EXCEPT ![c] = new]
            /\ UNCHANGED db

(* Mutant of NextId: INTEGER PRIMARY KEY without AUTOINCREMENT. *)
NextIdMutant(d) == 1 + Max({0} \cup {r.id : r \in d.rows})

NextId(d) == d.last + 1

Inserted(d, e) == [id |-> NextId(d), event |-> e]

Insert(c, e) ==
    LET row == Inserted(Sees(c), e) IN
    /\ row.id <= MaxId
    /\ Write(c, [rows |-> Sees(c).rows \cup {row}, last |-> row.id])

-----------------------------------------------------------------------------
(* The calls of a process that is not inside save_batch().                 *)

(* Mutant of Save: the result of the statement is not looked at. *)
SaveMutant(c, e) ==
    LET row == Inserted(Sees(c), e) IN
    /\ ~in_batch[c]
    /\ IF MayWrite(c) THEN Insert(c, e) ELSE UNCHANGED <<db, tx, view>>
    /\ known' = [known EXCEPT ![c] = @ \cup {row}]
    /\ acked' = acked \cup {row}
    /\ safe' = IF c \in threw THEN safe ELSE safe \cup {row}
    /\ UNCHANGED <<todo, in_batch, threw>>

(* save(); it throws, changing nothing, when the statement fails or dump() *)
(* does: that is no step here. *)
Save(c, e) ==
    LET row == Inserted(Sees(c), e) IN
    /\ ~in_batch[c]
    /\ Insert(c, e)
    /\ known' = [known EXCEPT ![c] = @ \cup {row}]
    /\ acked' = acked \cup {row}
    /\ safe' = IF c \in threw THEN safe ELSE safe \cup {row}
    /\ UNCHANGED <<todo, in_batch, threw>>

(* The find_by functions and count(): the process learns of the rows it    *)
(* sees.  In a transaction left open this takes the snapshot. *)
Find(c) ==
    /\ ~in_batch[c]
    /\ known' = [known EXCEPT ![c] = @ \cup Sees(c).rows]
    /\ IF tx[c] = "open"
       THEN tx' = [tx EXCEPT ![c] = "read"] /\ view' = [view EXCEPT ![c] = db]
       ELSE UNCHANGED <<tx, view>>
    /\ UNCHANGED <<db, todo, in_batch, history>>

(* clear(); the ids go on from where they were.  A failure is ignored. *)
Clear(c) ==
    /\ ~in_batch[c]
    /\ Sees(c).rows # {}
    /\ Write(c, [rows |-> {}, last |-> Sees(c).last])
    /\ acked' = acked \ Sees(c).rows
    /\ safe' = safe \ Sees(c).rows
    /\ UNCHANGED <<todo, in_batch, known, threw>>

-----------------------------------------------------------------------------
(* save_batch().                                                           *)

(* BEGIN; in a transaction that is still open it fails, unnoticed. *)
BeginBatch(c, events) ==
    /\ ~in_batch[c]
    /\ in_batch' = [in_batch EXCEPT ![c] = TRUE]
    /\ todo' = [todo EXCEPT ![c] = events]
    /\ tx' = [tx EXCEPT ![c] = IF @ = "none" THEN "open" ELSE @]
    /\ UNCHANGED <<db, view, known, history>>

NextEvent(c) ==
    /\ todo[c] # <<>>
    /\ todo' = [todo EXCEPT ![c] = Tail(@)]

BatchInsert(c) ==
    /\ NextEvent(c)
    /\ Insert(c, Head(todo[c]))
    /\ UNCHANGED <<in_batch, known, history>>

(* The INSERT fails, because another connection writes or for lack of      *)
(* space; nobody looks at its result, and the loop goes on.                *)
BatchSkip(c) ==
    /\ NextEvent(c)
    /\ UNCHANGED <<db, tx, view, in_batch, known, history>>

(* dump() throws: out of save_batch(), past its COMMIT. *)
BatchThrows(c) ==
    /\ in_batch[c] /\ todo[c] # <<>>
    /\ in_batch' = [in_batch EXCEPT ![c] = FALSE]
    /\ todo' = [todo EXCEPT ![c] = <<>>]
    /\ threw' = threw \cup {c}
    /\ UNCHANGED <<db, tx, view, known, acked, safe>>

(* Mutant of Commit: COMMIT is left out. *)
CommitMutant(c) == UNCHANGED <<db, tx, view>>

Commit(c) ==
    /\ db' = IF tx[c] = "write" THEN view[c] ELSE db
    /\ tx' = [tx EXCEPT ![c] = "none"]
    /\ view' = [view EXCEPT ![c] = NoView]

EndBatch(c) ==
    /\ in_batch[c] /\ todo[c] = <<>>
    /\ Commit(c)
    /\ in_batch' = [in_batch EXCEPT ![c] = FALSE]
    /\ UNCHANGED <<todo, known, history>>

(* The process ends, in order or not; what was not committed is rolled     *)
(* back.  Another may open the file in its place.                          *)
Exit(c) ==
    /\ tx' = [tx EXCEPT ![c] = "none"]
    /\ view' = [view EXCEPT ![c] = NoView]
    /\ todo' = [todo EXCEPT ![c] = <<>>]
    /\ in_batch' = [in_batch EXCEPT ![c] = FALSE]
    /\ known' = [known EXCEPT ![c] = {}]
    /\ threw' = threw \ {c}
    /\ UNCHANGED <<db, acked, safe>>

-----------------------------------------------------------------------------

Batches == UNION {[1..n -> Events] : n \in 0..MaxBatch}

Next ==
    \E c \in Conns :
        \/ \E e \in Events : Save(c, e)
        \/ Find(c) \/ Clear(c)
        \/ \E events \in Batches : BeginBatch(c, events)
        \/ BatchInsert(c) \/ BatchSkip(c) \/ BatchThrows(c) \/ EndBatch(c)
        \/ Exit(c)

Spec == Init /\ [][Next]_vars

-----------------------------------------------------------------------------

(* An id means one event for as long as anybody can use it: an id that a   *)
(* process has learnt, and has perhaps in its index, finds that event or   *)
(* nothing, also after a clear(), and also when a batch that threw has     *)
(* left a transaction open; and no other process that is there knows the   *)
(* id as that of another event.                                            *)
IdMeansOneEvent ==
    \A c, d \in Conns :
        \A k \in known[c] : \A r \in Sees(c).rows \cup known[d] :
            k.id = r.id => k = r

(* What save() has returned an id for is committed: it survives whatever   *)
(* happens to its process, or to another one in the middle of a batch,     *)
(* until someone clears the table.  Excepted are the saves of a process    *)
(* that has had a batch throw: they are in a transaction left open.        *)
AckedIsCommitted == safe \subseteq db.rows

(* A process finds what it has saved, at once: even in a transaction left  *)
(* open by a batch that threw, until clear() or the end of the process.    *)
ReadYourWrites ==
    \A c \in Conns : ~in_batch[c] => acked \cap known[c] \subseteq Sees(c).rows

(* A commit keeps the rows there were, all or (after a clear()) none, and  *)
(* what it adds has ids above every id committed before - also when a      *)
(* batch has thrown and its transaction, saves, a clear() and the next     *)
(* batch in it, is committed long after.  So the table can be taken for a  *)
(* log where nobody clears it, and an id for a place in the log.           *)
Appended(old, new) ==
    /\ old.last <= new.last
    /\ \A r \in new.rows \ old.rows : old.last < r.id /\ r.id <= new.last
    /\ old.rows \subseteq new.rows \/ old.rows \cap new.rows = {}

TableOnlyAppends == [][Appended(db, db')]_vars

=============================================================================
