-------------------------- MODULE EventStoreProofs --------------------------
(***************************************************************************)
(* Theorems about EventStore, for any set of connections and of contents,  *)
(* any number of ids and batches of any length.                            *)
(***************************************************************************)
EXTENDS EventStore, TLAPS

(* SQLite lets one connection write at a time, and so only the one that    *)
(* does can know of ids above those given so far: up to last as it sees it.*)
OneWriter ==
    \A c, d \in Conns : tx[c] = "write" /\ tx[d] = "write" => c = d

LastFor(c) == IF tx[c] = "write" THEN view[c].last ELSE db.last

InSight(c) == Sees(c).rows \cup known[c]

Rows == db.rows \cup UNION {InSight(c) : c \in Conns}

(* All that is in sight anywhere has one meaning, and an id of the past.   *)
IdInv ==
    /\ OneWriter
    /\ \A c \in Conns : tx[c] = "write" => db.last <= view[c].last
    /\ \A r \in db.rows : r.id <= db.last
    /\ \A c \in Conns : \A r \in InSight(c) : r.id <= LastFor(c)
    /\ \A r, s \in Rows : r.id = s.id => r = s

(* Only a batch leaves a transaction open, and a writer has the table as   *)
(* it is committed in view when it begins.                                 *)
SafeInv ==
    /\ safe \subseteq db.rows
    /\ \A c \in Conns : tx[c] = "write" => safe \subseteq view[c].rows
    /\ \A c \in Conns : tx[c] # "none" => in_batch[c] \/ c \in threw

(* Of the rows that save() has returned and nobody cleared, no connection  *)
(* but the writer knows one that is not committed, however old the table   *)
(* it looks at; and no commit will take one away from it.                  *)
AckedInv ==
    \A c \in Conns :
        /\ acked \cap known[c] \subseteq Sees(c).rows
        /\ tx[c] = "write" => acked \cap db.rows \subseteq view[c].rows
        /\ tx[c] # "write" => acked \cap InSight(c) \subseteq db.rows

-----------------------------------------------------------------------------
(* What a statement does.                                                  *)

LEMMA SeesADatabase ==
  ASSUME TypeOK, NEW c \in Conns
  PROVE  /\ Sees(c) \in Database
         /\ Sees(c).last \in Nat /\ db.last \in Nat /\ view[c].last \in Nat
         /\ Sees(c).rows \subseteq Row /\ db.rows \subseteq Row /\ view[c].rows \subseteq Row
<1>1. db \in Database /\ view[c] \in Database
  BY DEF TypeOK
<1>2. Sees(c) \in Database
  BY <1>1 DEF Sees
<1>3. \A d \in Database : d.last \in Nat /\ d.rows \subseteq Row
  BY MaxIdAssumption DEF Database
<1>4. QED
  BY <1>1, <1>2, <1>3

LEMMA RowIds == \A r \in Row : r.id \in Nat
  BY MaxIdAssumption DEF Row

(* A statement that writes has the last committed table in view, or what   *)
(* its own transaction has made of it, and nobody else is writing.         *)
LEMMA AfterWrite ==
  ASSUME TypeOK, NEW c \in Conns, NEW new \in Database, Write(c, new)
  PROVE  /\ db' \in Database /\ tx' \in [Conns -> TxState] /\ view' \in [Conns -> Database]
         /\ \/ tx[c] = "none" /\ db' = new /\ tx' = tx /\ view' = view
            \/ tx[c] # "none" /\ db' = db /\ tx'[c] = "write" /\ view'[c] = new
         /\ Sees(c)' = new
         /\ tx[c] # "write" => Sees(c) = db
         /\ \A d \in Conns \ {c} :
              tx[d] # "write" /\ tx'[d] = tx[d] /\ view'[d] = view[d]
<1>1. /\ \A d \in Conns \ {c} : tx[d] # "write"
      /\ tx[c] = "read" => view[c] = db
  BY DEF Write, MayWrite
<1>2. /\ tx \in [Conns -> TxState] /\ view \in [Conns -> Database] /\ db \in Database
      /\ "write" \in TxState
  BY DEF TypeOK, TxState
<1>3. tx[c] # "write" => Sees(c) = db
  BY <1>1, <1>2 DEF Sees, TxState
<1>4. CASE tx[c] = "none"
  <2>1. db' = new /\ tx' = tx /\ view' = view
    BY <1>4 DEF Write
  <2>2. Sees(c)' = new
    BY <1>4, <2>1 DEF Sees
  <2>3. QED
    BY <1>1, <1>2, <1>3, <1>4, <2>1, <2>2
<1>5. CASE tx[c] # "none"
  <2>1. /\ db' = db /\ tx' = [tx EXCEPT ![c] = "write"]
        /\ view' = [view EXCEPT ![c] = new]
    BY <1>5 DEF Write
  <2>2. /\ tx' \in [Conns -> TxState] /\ view' \in [Conns -> Database]
        /\ tx'[c] = "write" /\ view'[c] = new
        /\ \A d \in Conns \ {c} : tx'[d] = tx[d] /\ view'[d] = view[d]
    BY <1>2, <2>1
  <2>3. Sees(c)' = new
    BY <2>2 DEF Sees
  <2>4. QED
    BY <1>1, <1>2, <1>3, <1>5, <2>1, <2>2, <2>3
<1>6. QED
  BY <1>4, <1>5

LEMMA InsertIsAWrite ==
  ASSUME TypeOK, NEW c \in Conns, NEW e \in Events, Insert(c, e)
  PROVE  LET row == Inserted(Sees(c), e)
             new == [rows |-> Sees(c).rows \cup {row}, last |-> row.id]
         IN  /\ row \in Row /\ row.id = Sees(c).last + 1
             /\ new \in Database /\ Write(c, new)
<1> DEFINE row == Inserted(Sees(c), e)
           new == [rows |-> Sees(c).rows \cup {row}, last |-> row.id]
<1>1. /\ row.id <= MaxId /\ Write(c, new)
      /\ row = [id |-> Sees(c).last + 1, event |-> e]
  BY DEF Insert, Inserted, NextId
<1>2. row.id = Sees(c).last + 1 /\ row.id \in 1..MaxId
  BY <1>1, SeesADatabase, MaxIdAssumption
<1>3. row \in Row
  BY <1>1, <1>2 DEF Row
<1> HIDE DEF row
<1>4. new \in Database
  BY <1>2, <1>3, SeesADatabase DEF Database
<1>5. QED
  BY <1>1, <1>2, <1>3, <1>4 DEF row

-----------------------------------------------------------------------------

LEMMA TypeStep == TypeOK /\ [Next]_vars => TypeOK'
<1> SUFFICES ASSUME TypeOK, [Next]_vars PROVE TypeOK'
  OBVIOUS
<1> DEFINE HistoryTyped ==
      /\ known \in [Conns -> SUBSET Row]
      /\ acked \in SUBSET Row /\ safe \in SUBSET acked /\ threw \in SUBSET Conns
<1>1. /\ db \in Database /\ tx \in [Conns -> TxState] /\ view \in [Conns -> Database]
      /\ todo \in [Conns -> Seq(Events)] /\ in_batch \in [Conns -> BOOLEAN]
      /\ HistoryTyped
  BY DEF TypeOK
<1>2. /\ Empty \in Database /\ "none" \in TxState /\ "open" \in TxState
      /\ "read" \in TxState /\ <<>> \in Seq(Events)
  BY MaxIdAssumption DEF Empty, Database, TxState
<1>3. ASSUME NEW c \in Conns, NEW e \in Events, Save(c, e) PROVE TypeOK'
  <2> DEFINE row == Inserted(Sees(c), e)
  <2>1. row \in Row /\ db' \in Database /\ tx' \in [Conns -> TxState]
        /\ view' \in [Conns -> Database]
    BY <1>3, InsertIsAWrite, AfterWrite DEF Save
  <2>2. /\ known' = [known EXCEPT ![c] = @ \cup {row}]
        /\ acked' = acked \cup {row}
        /\ safe' = safe \/ safe' = safe \cup {row}
        /\ UNCHANGED <<todo, in_batch, threw>>
    BY <1>3 DEF Save
  <2> HIDE DEF row
  <2>3. HistoryTyped'
    BY <1>1, <2>1, <2>2
  <2>4. QED
    BY <1>1, <2>1, <2>2, <2>3 DEF TypeOK
<1>4. ASSUME NEW c \in Conns, Find(c) PROVE TypeOK'
  <2>1. /\ known' = [known EXCEPT ![c] = @ \cup Sees(c).rows]
        /\ UNCHANGED <<db, todo, in_batch, history>>
        /\ \/ UNCHANGED <<tx, view>>
           \/ tx' = [tx EXCEPT ![c] = "read"] /\ view' = [view EXCEPT ![c] = db]
    BY <1>4 DEF Find
  <2>2. HistoryTyped'
    BY <1>1, <2>1, SeesADatabase DEF history
  <2>3. tx' \in [Conns -> TxState] /\ view' \in [Conns -> Database]
    BY <1>1, <1>2, <2>1
  <2>4. QED
    BY <1>1, <2>1, <2>2, <2>3 DEF TypeOK
<1>5. ASSUME NEW c \in Conns, Clear(c) PROVE TypeOK'
  <2>1. [rows |-> {}, last |-> Sees(c).last] \in Database
    BY SeesADatabase DEF Database
  <2>2. db' \in Database /\ tx' \in [Conns -> TxState] /\ view' \in [Conns -> Database]
    BY <1>5, <2>1, AfterWrite DEF Clear
  <2>3. QED
    BY <1>1, <1>5, <2>2 DEF Clear, TypeOK
<1>6. ASSUME NEW c \in Conns, NEW events \in Batches, BeginBatch(c, events)
      PROVE  TypeOK'
  <2>1. events \in Seq(Events)
    BY MaxBatchAssumption DEF Batches
  <2>2. QED
    BY <1>1, <1>2, <1>6, <2>1 DEF BeginBatch, history, TypeOK
<1>7. ASSUME NEW c \in Conns, NextEvent(c)
      PROVE  Head(todo[c]) \in Events /\ todo' \in [Conns -> Seq(Events)]
  BY <1>1, <1>7 DEF NextEvent
<1>8. ASSUME NEW c \in Conns, BatchInsert(c) PROVE TypeOK'
  <2>1. db' \in Database /\ tx' \in [Conns -> TxState] /\ view' \in [Conns -> Database]
    BY <1>7, <1>8, InsertIsAWrite, AfterWrite DEF BatchInsert
  <2>2. QED
    BY <1>1, <1>7, <1>8, <2>1 DEF BatchInsert, history, TypeOK
<1>9. ASSUME NEW c \in Conns, BatchSkip(c) \/ BatchThrows(c) PROVE TypeOK'
  BY <1>1, <1>2, <1>7, <1>9 DEF BatchSkip, BatchThrows, history, TypeOK
<1>10. ASSUME NEW c \in Conns, EndBatch(c) PROVE TypeOK'
  BY <1>1, <1>2, <1>10 DEF EndBatch, Commit, NoView, history, TypeOK
<1>11. ASSUME NEW c \in Conns, Exit(c) PROVE TypeOK'
  BY <1>1, <1>2, <1>11 DEF Exit, NoView, TypeOK
<1>12. CASE UNCHANGED vars
  BY <1>12 DEF vars, history, TypeOK
<1>13. QED
  BY <1>3, <1>4, <1>5, <1>6, <1>8, <1>9, <1>10, <1>11, <1>12 DEF Next

(* Every reachable state of the table, the transactions and what the       *)
(* processes know is well typed.                                           *)
THEOREM TypeCorrect == Spec => []TypeOK
<1>1. Init => TypeOK
  BY MaxIdAssumption DEF Init, TypeOK, Empty, NoView, Database, TxState
<1>2. QED
  BY <1>1, TypeStep, PTL DEF Spec

-----------------------------------------------------------------------------
(* Ids.                                                                    *)

LEMMA RowsInSight ==
  /\ \A c \in Conns : InSight(c) \subseteq Rows /\ Sees(c).rows \subseteq InSight(c)
  /\ db.rows \subseteq Rows
  /\ \A r \in Rows : r \in db.rows \/ \E c \in Conns : r \in InSight(c)
BY DEF Rows, InSight

LEMMA RowsTyped ==
  ASSUME TypeOK
  PROVE  \A r \in Rows : r.id \in Nat
<1>1. db.rows \subseteq Row
  BY DEF TypeOK, Database
<1>2. \A c \in Conns : InSight(c) \subseteq Row
  BY SeesADatabase DEF InSight, TypeOK
<1>3. QED
  BY <1>1, <1>2, RowIds, RowsInSight

(* A statement that writes makes ids above all there are, or no rows; the  *)
(* process may be told of them.                                            *)
LEMMA WriteKeepsIds ==
  ASSUME TypeOK, IdInv, NEW c \in Conns, NEW new \in Database, Write(c, new),
         Sees(c).last <= new.last,
         \A r \in new.rows : /\ r.id <= new.last
                             /\ r \in Sees(c).rows \/ r.id > Sees(c).last,
         \A r, s \in new.rows : r.id > Sees(c).last /\ r.id = s.id => r = s,
         known'[c] \subseteq known[c] \cup new.rows,
         \A d \in Conns \ {c} : known'[d] = known[d]
  PROVE  IdInv'
<1>1. /\ \/ tx[c] = "none" /\ db' = new /\ tx' = tx /\ view' = view
         \/ tx[c] # "none" /\ db' = db /\ tx'[c] = "write" /\ view'[c] = new
      /\ Sees(c)' = new
      /\ tx[c] # "write" => Sees(c) = db
      /\ \A d \in Conns \ {c} :
           tx[d] # "write" /\ tx'[d] = tx[d] /\ view'[d] = view[d]
  BY AfterWrite
<1>2. /\ db.last \in Nat /\ Sees(c).last \in Nat /\ view[c].last \in Nat /\ new.last \in Nat
      /\ \A r \in new.rows : r.id \in Nat
  BY SeesADatabase, RowIds, MaxIdAssumption DEF Database
<1>3. db.last <= Sees(c).last /\ LastFor(c) = Sees(c).last
  BY <1>1, <1>2 DEF IdInv, LastFor, Sees
<1>4. \A d \in Conns \ {c} : LastFor(d) = db.last /\ LastFor(d)' = db'.last
  BY <1>1 DEF LastFor
<1>5. \A r \in Rows : r.id \in Nat /\ r.id <= Sees(c).last
  <2> SUFFICES ASSUME NEW r \in Rows PROVE r.id <= Sees(c).last
    BY RowsTyped
  <2>1. r.id \in Nat
    BY RowsTyped
  <2>2. r.id <= db.last \/ r.id <= Sees(c).last
    BY <1>3, <1>4, RowsInSight DEF IdInv
  <2>3. QED
    BY <1>2, <1>3, <2>1, <2>2
<1>6. db.last <= db'.last /\ db'.last <= new.last
  BY <1>1, <1>2, <1>3
<1>7. /\ db' = db \/ db' = new
      /\ LastFor(c)' = new.last
  BY <1>1 DEF LastFor
<1>8. InSight(c)' \subseteq InSight(c) \cup new.rows
  BY <1>1 DEF InSight
<1>9. \A d \in Conns \ {c} : InSight(d)' \subseteq InSight(d) \cup db'.rows
  <2> SUFFICES ASSUME NEW d \in Conns \ {c} PROVE InSight(d)' \subseteq InSight(d) \cup db'.rows
    OBVIOUS
  <2>1. Sees(d)' = Sees(d) \/ Sees(d)' = db'
    BY <1>1 DEF Sees
  <2>2. QED
    BY <2>1 DEF InSight
<1>10. \A r \in Rows' : r \in Rows \/ r \in new.rows
  <2>1. \A r \in Rows' : r \in db'.rows \/ \E d \in Conns : r \in InSight(d)'
    BY DEF Rows
  <2>2. QED
    BY <1>7, <1>8, <1>9, <2>1, RowsInSight
<1>11. \A r, s \in Rows' : r.id = s.id => r = s
  <2> SUFFICES ASSUME NEW r \in Rows', NEW s \in Rows', r.id = s.id PROVE r = s
    OBVIOUS
  <2>1. /\ r \in Rows \/ (r \in new.rows /\ r.id > Sees(c).last)
        /\ s \in Rows \/ (s \in new.rows /\ s.id > Sees(c).last)
    BY <1>10, RowsInSight
  <2>2. CASE r \in Rows /\ s \in Rows
    BY <2>2 DEF IdInv
  <2>3. CASE r \in new.rows /\ s \in new.rows /\ r.id > Sees(c).last
    BY <2>3
  <2>4. CASE (r \in Rows /\ r.id > Sees(c).last) \/ (s \in Rows /\ s.id > Sees(c).last)
    BY <1>2, <1>5, <2>4
  <2>5. QED
    BY <2>1, <2>2, <2>3, <2>4
<1>12. OneWriter'
  BY <1>1 DEF OneWriter
<1>13. \A d \in Conns : tx'[d] = "write" => db'.last <= view'[d].last
  BY <1>1, <1>2, <1>3
<1>14. \A r \in db'.rows : r.id <= db'.last
  BY <1>7 DEF IdInv
<1>15. \A d \in Conns : \A r \in InSight(d)' : r.id <= LastFor(d)'
  <2>1. \A r \in InSight(c)' : r.id <= LastFor(c)'
    <3>1. \A r \in InSight(c) : r.id <= Sees(c).last /\ r.id \in Nat
      BY <1>5, RowsInSight
    <3>2. QED
      BY <1>2, <1>7, <1>8, <3>1
  <2>2. ASSUME NEW d \in Conns \ {c}, NEW r \in InSight(d)' PROVE r.id <= LastFor(d)'
    <3>1. r \in InSight(d) \/ r \in db'.rows
      BY <1>9
    <3>2. r \in InSight(d) => r.id <= db.last /\ r.id \in Nat
      BY <1>4, <1>5, RowsInSight DEF IdInv
    <3>3. QED
      BY <1>2, <1>4, <1>6, <1>7, <1>14, <3>1, <3>2
  <2>3. QED
    BY <2>1, <2>2
<1>16. QED
  BY <1>11, <1>12, <1>13, <1>14, <1>15 DEF IdInv

LEMMA InsertKeepsIds ==
  ASSUME TypeOK, IdInv, NEW c \in Conns, NEW e \in Events, Insert(c, e),
         \/ known' = known
         \/ known' = [known EXCEPT ![c] = @ \cup {Inserted(Sees(c), e)}]
  PROVE  IdInv'
<1> DEFINE row == Inserted(Sees(c), e)
           new == [rows |-> Sees(c).rows \cup {row}, last |-> row.id]
<1>1. /\ row \in Row /\ row.id = Sees(c).last + 1
      /\ new \in Database /\ Write(c, new)
  BY InsertIsAWrite
<1>2. known \in [Conns -> SUBSET Row] /\ known' \in {known, [known EXCEPT ![c] = @ \cup {row}]}
  BY DEF TypeOK
<1> HIDE DEF row
<1>3. Sees(c).last \in Nat /\ \A r \in Sees(c).rows : r.id \in Nat /\ r.id <= Sees(c).last
  <2>1. \A r \in Sees(c).rows : r \in InSight(c) /\ r.id \in Nat
    BY RowsInSight, RowsTyped
  <2>2. LastFor(c) = Sees(c).last
    <3>1. tx[c] # "write" => Sees(c) = db
      BY <1>1, AfterWrite
    <3>2. QED
      BY <3>1 DEF LastFor, Sees
  <2>3. QED
    BY <2>1, <2>2, SeesADatabase DEF IdInv
<1>4. /\ Sees(c).last <= new.last
      /\ \A r \in new.rows : /\ r.id <= new.last
                             /\ r \in Sees(c).rows \/ r.id > Sees(c).last
  BY <1>1, <1>3
<1>5. \A r, s \in new.rows : r.id > Sees(c).last /\ r.id = s.id => r = s
  BY <1>1, <1>3
<1>6. /\ known'[c] \subseteq known[c] \cup new.rows
      /\ \A d \in Conns \ {c} : known'[d] = known[d]
  BY <1>2
<1> HIDE DEF new
<1>7. QED
  BY <1>1, <1>4, <1>5, <1>6, WriteKeepsIds

LEMMA IdStep == TypeOK /\ IdInv /\ [Next]_vars => IdInv'
<1> SUFFICES ASSUME TypeOK, IdInv, [Next]_vars PROVE IdInv'
  OBVIOUS
<1>1. /\ tx \in [Conns -> TxState] /\ view \in [Conns -> Database]
      /\ known \in [Conns -> SUBSET Row] /\ TypeOK'
  BY TypeStep DEF TypeOK
<1>2. ASSUME NEW c \in Conns, NEW e \in Events, Save(c, e) PROVE IdInv'
  BY <1>2, InsertKeepsIds DEF Save
<1>3. ASSUME NEW c \in Conns, BatchInsert(c) PROVE IdInv'
  <2>1. Head(todo[c]) \in Events
    BY <1>3 DEF BatchInsert, NextEvent, TypeOK
  <2>2. QED
    BY <1>3, <2>1, InsertKeepsIds DEF BatchInsert
<1>4. ASSUME NEW c \in Conns, Clear(c) PROVE IdInv'
  <2> DEFINE new == [rows |-> {}, last |-> Sees(c).last]
  <2>1. new \in Database /\ Sees(c).last <= new.last
    BY SeesADatabase DEF Database
  <2>2. Write(c, new) /\ known' = known
    BY <1>4 DEF Clear
  <2>3. QED
    BY <2>1, <2>2, WriteKeepsIds
<1>5. ASSUME UNCHANGED db,
             \A c \in Conns : tx'[c] = "write" => tx[c] = "write" /\ view'[c] = view[c],
             \A c \in Conns :
               \/ LastFor(c)' = LastFor(c) /\ InSight(c)' \subseteq InSight(c) \cup db.rows
               \/ tx'[c] # "write" /\ InSight(c)' \subseteq db.rows
      PROVE  IdInv'
  <2>1. \A r \in Rows' : r \in Rows
    BY <1>5 DEF Rows
  <2>2. ASSUME NEW c \in Conns, NEW r \in InSight(c)' PROVE r.id <= LastFor(c)'
    <3>1. /\ db.last \in Nat /\ view[c].last \in Nat /\ r.id \in Nat
          /\ r \in db.rows => r.id <= db.last
          /\ r \in InSight(c) => r.id <= LastFor(c)
          /\ tx[c] = "write" => db.last <= view[c].last
      BY <2>1, SeesADatabase, RowsTyped DEF IdInv, Rows
    <3>2. CASE LastFor(c)' = LastFor(c) /\ InSight(c)' \subseteq InSight(c) \cup db.rows
      <4>1. db.last <= LastFor(c) /\ LastFor(c) \in Nat
        BY <3>1 DEF LastFor
      <4>2. QED
        BY <2>2, <3>1, <3>2, <4>1
    <3>3. CASE tx'[c] # "write" /\ InSight(c)' \subseteq db.rows
      <4>1. LastFor(c)' = db.last
        BY <1>5, <3>3 DEF LastFor
      <4>2. QED
        BY <2>2, <3>1, <3>3, <4>1
    <3>4. QED
      BY <1>5, <3>2, <3>3
  <2>3. QED
    BY <1>5, <2>1, <2>2 DEF IdInv, OneWriter
<1>6. ASSUME NEW c \in Conns, Find(c) PROVE IdInv'
  <2>1. /\ known' = [known EXCEPT ![c] = @ \cup Sees(c).rows] /\ UNCHANGED db
        /\ \/ UNCHANGED <<tx, view>>
           \/ /\ tx[c] = "open" /\ tx' = [tx EXCEPT ![c] = "read"]
              /\ view' = [view EXCEPT ![c] = db]
    BY <1>6 DEF Find
  <2>2. \A d \in Conns : Sees(d)' = Sees(d) /\ LastFor(d)' = LastFor(d)
    BY <1>1, <2>1 DEF Sees, LastFor
  <2>3. \A d \in Conns : InSight(d)' \subseteq InSight(d)
    BY <1>1, <2>1, <2>2 DEF InSight
  <2>4. \A d \in Conns : tx'[d] = "write" => tx[d] = "write" /\ view'[d] = view[d]
    BY <1>1, <2>1
  <2>5. QED
    BY <1>5, <2>1, <2>2, <2>3, <2>4
<1>7. ASSUME NEW c \in Conns, \E events \in Batches : BeginBatch(c, events)
      PROVE  IdInv'
  <2>1. /\ tx' = [tx EXCEPT ![c] = IF @ = "none" THEN "open" ELSE @]
        /\ UNCHANGED <<db, view, known>>
    BY <1>7 DEF BeginBatch
  <2>2. \A d \in Conns : tx'[d] = "write" => tx[d] = "write" /\ view'[d] = view[d]
    BY <1>1, <2>1
  <2>3. \A d \in Conns : Sees(d)' = Sees(d) /\ LastFor(d)' = LastFor(d)
    BY <1>1, <2>1 DEF Sees, LastFor
  <2>4. \A d \in Conns : InSight(d)' = InSight(d)
    BY <2>1, <2>3 DEF InSight
  <2>5. QED
    BY <1>5, <2>1, <2>2, <2>3, <2>4
<1>8. ASSUME NEW c \in Conns, EndBatch(c) PROVE IdInv'
  <2>1. /\ tx' = [tx EXCEPT ![c] = "none"] /\ view' = [view EXCEPT ![c] = NoView]
        /\ known' = known
        /\ tx[c] = "write" => db' = view[c]
        /\ tx[c] # "write" => db' = db
    BY <1>8 DEF EndBatch, Commit
  <2>2. CASE tx[c] # "write"
    <3>1. \A d \in Conns \ {c} : Sees(d)' = Sees(d) /\ LastFor(d)' = LastFor(d)
      BY <1>1, <2>1, <2>2 DEF Sees, LastFor
    <3>2. Sees(c)' = db /\ LastFor(c)' = LastFor(c)
      BY <1>1, <2>1, <2>2 DEF Sees, LastFor
    <3>3. \A d \in Conns : InSight(d)' \subseteq InSight(d) \cup db.rows
      BY <2>1, <3>1, <3>2 DEF InSight
    <3>4. \A d \in Conns : tx'[d] = "write" => tx[d] = "write" /\ view'[d] = view[d]
      BY <1>1, <2>1
    <3>5. QED
      BY <1>5, <2>1, <2>2, <3>1, <3>2, <3>3, <3>4
  <2>3. CASE tx[c] = "write"
    <3>1. \A d \in Conns : tx'[d] # "write" /\ LastFor(d)' = db'.last
      BY <1>1, <2>1, <2>3 DEF LastFor, IdInv, OneWriter
    <3>2. /\ db.last \in Nat /\ db'.last \in Nat /\ db.last <= db'.last
          /\ \A d \in Conns : LastFor(d) <= db'.last /\ LastFor(d) \in Nat
      <4>1. db'.last = view[c].last /\ LastFor(c) = view[c].last
        BY <2>1, <2>3 DEF LastFor
      <4>2. \A d \in Conns \ {c} : LastFor(d) = db.last
        BY <2>3 DEF LastFor, IdInv, OneWriter
      <4>3. db.last \in Nat /\ view[c].last \in Nat /\ db.last <= view[c].last
        BY <2>3, SeesADatabase DEF IdInv
      <4>4. QED
        BY <4>1, <4>2, <4>3
    <3>3. /\ \A d \in Conns : Sees(d)' = Sees(d) \/ Sees(d)' = db'
          /\ db'.rows \subseteq InSight(c)
      BY <1>1, <2>1, <2>3 DEF Sees, InSight
    <3>4. \A d \in Conns : InSight(d)' \subseteq InSight(d) \cup db'.rows
      BY <2>1, <3>3 DEF InSight
    <3>5. \A r \in Rows' : r \in Rows
      BY <3>3, <3>4 DEF Rows
    <3>6. \A r \in db'.rows : r.id <= db'.last
      BY <2>1, <2>3, <3>3 DEF IdInv, LastFor
    <3>7. \A d \in Conns : \A r \in InSight(d)' : r.id <= LastFor(d)'
      <4> SUFFICES ASSUME NEW d \in Conns, NEW r \in InSight(d)' PROVE r.id <= db'.last
        BY <3>1
      <4>1. r \in InSight(d) => r.id \in Nat /\ r.id <= LastFor(d)
        BY RowsTyped, RowsInSight DEF IdInv
      <4>2. QED
        BY <3>2, <3>4, <3>6, <4>1
    <3>8. QED
      BY <3>1, <3>5, <3>6, <3>7 DEF IdInv, OneWriter
  <2>4. QED
    BY <2>2, <2>3
<1>9. ASSUME NEW c \in Conns, Exit(c) PROVE IdInv'
  <2>1. /\ tx' = [tx EXCEPT ![c] = "none"] /\ view' = [view EXCEPT ![c] = NoView]
        /\ known' = [known EXCEPT ![c] = {}] /\ UNCHANGED db
    BY <1>9 DEF Exit
  <2>2. \A d \in Conns \ {c} : LastFor(d)' = LastFor(d) /\ InSight(d)' = InSight(d)
    BY <1>1, <2>1 DEF Sees, LastFor, InSight
  <2>3. tx'[c] # "write" /\ InSight(c)' \subseteq db.rows
    BY <1>1, <2>1 DEF Sees, InSight
  <2>4. \A d \in Conns : tx'[d] = "write" => tx[d] = "write" /\ view'[d] = view[d]
    BY <1>1, <2>1
  <2>5. QED
    BY <1>5, <2>1, <2>2, <2>3, <2>4
<1>10. ASSUME UNCHANGED <<db, tx, view, known>> PROVE IdInv'
  <2>1. \A d \in Conns : Sees(d)' = Sees(d) /\ LastFor(d)' = LastFor(d)
    BY <1>10 DEF Sees, LastFor
  <2>2. \A d \in Conns : InSight(d)' = InSight(d)
    BY <1>10, <2>1 DEF InSight
  <2>3. QED
    BY <1>5, <1>10, <2>1, <2>2
<1>11. ASSUME NEW c \in Conns, BatchSkip(c) \/ BatchThrows(c) PROVE IdInv'
  BY <1>10, <1>11 DEF BatchSkip, BatchThrows
<1>12. CASE UNCHANGED vars
  BY <1>10, <1>12 DEF vars
<1>13. QED
  BY <1>2, <1>3, <1>4, <1>6, <1>7, <1>8, <1>9, <1>11, <1>12 DEF Next

LEMMA IdInit == Init => TypeOK /\ IdInv
<1> SUFFICES ASSUME Init PROVE TypeOK /\ IdInv
  OBVIOUS
<1>1. TypeOK
  BY MaxIdAssumption DEF Init, TypeOK, Empty, NoView, Database, TxState
<1>2. \A c \in Conns : tx[c] = "none" /\ known[c] = {} /\ Sees(c) = Empty /\ db = Empty
  BY DEF Init, Sees
<1>3. \A c \in Conns : InSight(c) = {}
  BY <1>2 DEF InSight, Empty
<1>4. db.rows = {} /\ Rows = {}
  BY <1>3 DEF Rows, Init, Empty
<1>5. QED
  BY <1>1, <1>2, <1>3, <1>4 DEF IdInv, OneWriter

LEMMA IdInvariant == Spec => [](TypeOK /\ IdInv)
<1>1. TypeOK /\ IdInv /\ [Next]_vars => (TypeOK /\ IdInv)'
  BY TypeStep, IdStep
<1>2. QED
  BY <1>1, IdInit, PTL DEF Spec

(* An id that somebody knows finds the event it meant, or nothing.         *)
THEOREM IdsKeepTheirMeaning == Spec => []IdMeansOneEvent
<1>1. IdInv => IdMeansOneEvent
  BY RowsInSight DEF IdInv, IdMeansOneEvent, InSight
<1>2. QED
  BY <1>1, IdInvariant, PTL

-----------------------------------------------------------------------------
(* Saves that were acknowledged.                                           *)

(* A statement that writes, in a transaction or not, loses nothing safe    *)
(* but by clear(), which takes all of it.                                  *)
LEMMA WriteKeepsSafe ==
  ASSUME TypeOK, SafeInv, NEW c \in Conns, NEW new \in Database, Write(c, new),
         safe' \subseteq new.rows,
         tx[c] # "none" => safe' \subseteq safe,
         UNCHANGED <<in_batch, threw>>
  PROVE  SafeInv'
<1>1. /\ \/ tx[c] = "none" /\ db' = new /\ tx' = tx /\ view' = view
         \/ tx[c] # "none" /\ db' = db /\ tx'[c] = "write" /\ view'[c] = new
      /\ \A d \in Conns \ {c} :
           tx[d] # "write" /\ tx'[d] = tx[d] /\ view'[d] = view[d]
  BY AfterWrite
<1>2. safe' \subseteq db'.rows
  BY <1>1 DEF SafeInv
<1>3. \A d \in Conns : tx'[d] = "write" => safe' \subseteq view'[d].rows
  BY <1>1
<1>4. \A d \in Conns : tx'[d] # "none" => in_batch'[d] \/ d \in threw'
  BY <1>1 DEF SafeInv
<1>5. QED
  BY <1>2, <1>3, <1>4 DEF SafeInv

(* What is safe is in view where a statement can write.                    *)
LEMMA SafeSeen ==
  ASSUME TypeOK, SafeInv, NEW c \in Conns, NEW new \in Database, Write(c, new)
  PROVE  safe \subseteq Sees(c).rows
BY AfterWrite DEF SafeInv, Sees

LEMMA SafeStep == TypeOK /\ SafeInv /\ [Next]_vars => SafeInv'
<1> SUFFICES ASSUME TypeOK, SafeInv, [Next]_vars PROVE SafeInv'
  OBVIOUS
<1>1. /\ tx \in [Conns -> TxState] /\ view \in [Conns -> Database]
      /\ in_batch \in [Conns -> BOOLEAN]
  BY DEF TypeOK
<1>2. ASSUME NEW c \in Conns, NEW e \in Events, Save(c, e) PROVE SafeInv'
  <2> DEFINE row == Inserted(Sees(c), e)
             new == [rows |-> Sees(c).rows \cup {row}, last |-> row.id]
  <2>1. new \in Database /\ Write(c, new)
    BY <1>2, InsertIsAWrite DEF Save
  <2>2. /\ ~in_batch[c] /\ UNCHANGED <<in_batch, threw>>
        /\ safe' = IF c \in threw THEN safe ELSE safe \cup {row}
    BY <1>2 DEF Save
  <2>3. tx[c] # "none" => safe' \subseteq safe
    BY <2>2 DEF SafeInv
  <2>4. safe' \subseteq new.rows
    BY <2>1, <2>2, SafeSeen
  <2>5. QED
    BY <2>1, <2>2, <2>3, <2>4, WriteKeepsSafe
<1>3. ASSUME NEW c \in Conns, BatchInsert(c) PROVE SafeInv'
  <2> DEFINE row == Inserted(Sees(c), Head(todo[c]))
             new == [rows |-> Sees(c).rows \cup {row}, last |-> row.id]
  <2>1. new \in Database /\ Write(c, new)
    BY <1>3, InsertIsAWrite DEF BatchInsert, NextEvent, TypeOK
  <2>2. safe' = safe /\ UNCHANGED <<in_batch, threw>>
    BY <1>3 DEF BatchInsert, history
  <2>3. safe \subseteq new.rows
    BY <2>1, SafeSeen
  <2>4. QED
    BY <2>1, <2>2, <2>3, WriteKeepsSafe
<1>4. ASSUME NEW c \in Conns, Clear(c) PROVE SafeInv'
  <2> DEFINE new == [rows |-> {}, last |-> Sees(c).last]
  <2>1. new \in Database /\ Write(c, new)
    BY <1>4, SeesADatabase DEF Clear, Database
  <2>2. safe' = safe \ Sees(c).rows /\ UNCHANGED <<in_batch, threw>>
    BY <1>4 DEF Clear
  <2>3. safe' = {}
    BY <2>1, <2>2, SafeSeen
  <2>4. QED
    BY <2>1, <2>2, <2>3, WriteKeepsSafe
<1>5. ASSUME NEW c \in Conns, Find(c) PROVE SafeInv'
  <2>1. /\ UNCHANGED <<db, in_batch, history>>
        /\ \/ UNCHANGED <<tx, view>>
           \/ /\ tx[c] = "open" /\ tx' = [tx EXCEPT ![c] = "read"]
              /\ view' = [view EXCEPT ![c] = db]
    BY <1>5 DEF Find
  <2>2. QED
    BY <1>1, <2>1 DEF SafeInv, history
<1>6. ASSUME NEW c \in Conns, \E events \in Batches : BeginBatch(c, events)
      PROVE  SafeInv'
  <2>1. /\ tx' = [tx EXCEPT ![c] = IF @ = "none" THEN "open" ELSE @]
        /\ in_batch' = [in_batch EXCEPT ![c] = TRUE]
        /\ UNCHANGED <<db, view, history>>
    BY <1>6 DEF BeginBatch
  <2>2. QED
    BY <1>1, <2>1 DEF SafeInv, history
<1>7. ASSUME NEW c \in Conns, BatchThrows(c) PROVE SafeInv'
  BY <1>1, <1>7 DEF BatchThrows, SafeInv
<1>8. ASSUME NEW c \in Conns, EndBatch(c) PROVE SafeInv'
  <2>1. /\ tx' = [tx EXCEPT ![c] = "none"] /\ view' = [view EXCEPT ![c] = NoView]
        /\ db' = IF tx[c] = "write" THEN view[c] ELSE db
        /\ in_batch' = [in_batch EXCEPT ![c] = FALSE]
        /\ UNCHANGED history
    BY <1>8 DEF EndBatch, Commit
  <2>2. QED
    BY <1>1, <2>1 DEF SafeInv, history
<1>9. ASSUME NEW c \in Conns, Exit(c) PROVE SafeInv'
  BY <1>1, <1>9 DEF Exit, SafeInv
<1>10. ASSUME NEW c \in Conns, BatchSkip(c) PROVE SafeInv'
  BY <1>10 DEF BatchSkip, SafeInv, history
<1>11. CASE UNCHANGED vars
  BY <1>11 DEF vars, SafeInv, history
<1>12. QED
  BY <1>2, <1>3, <1>4, <1>5, <1>6, <1>7, <1>8, <1>9, <1>10, <1>11 DEF Next

(* A save that was acknowledged is committed until someone clears.         *)
THEOREM AckedStays == Spec => []AckedIsCommitted
<1>1. Init => SafeInv
  BY DEF Init, SafeInv
<1>2. SafeInv => AckedIsCommitted
  BY DEF SafeInv, AckedIsCommitted
<1>3. TypeOK /\ SafeInv /\ [Next]_vars => (TypeOK /\ SafeInv)'
  BY TypeStep, SafeStep
<1>4. QED
  BY <1>1, <1>2, <1>3, IdInit, PTL DEF Spec

-----------------------------------------------------------------------------
(* Reading what was written.                                               *)

(* Where a statement can write, all is in view that was acknowledged and   *)
(* that a process other than its own has in sight, or that is committed.   *)
LEMMA AckedSeen ==
  ASSUME TypeOK, IdInv, AckedInv, NEW c \in Conns, NEW new \in Database, Write(c, new)
  PROVE  /\ acked \cap db.rows \subseteq Sees(c).rows
         /\ acked \cap known[c] \subseteq Sees(c).rows
         /\ \A d \in Conns \ {c} : acked \cap InSight(d) \subseteq db.rows
<1>1. /\ tx[c] # "write" => Sees(c) = db
      /\ \A d \in Conns \ {c} : tx[d] # "write"
  BY AfterWrite
<1>2. tx[c] = "write" => Sees(c) = view[c]
  BY DEF Sees
<1>3. QED
  BY <1>1, <1>2 DEF AckedInv

LEMMA InsertKeepsAcked ==
  ASSUME TypeOK, IdInv, AckedInv, NEW c \in Conns, NEW e \in Events, Insert(c, e),
         \/ known' = known /\ acked' = acked
         \/ /\ known' = [known EXCEPT ![c] = @ \cup {Inserted(Sees(c), e)}]
            /\ acked' = acked \cup {Inserted(Sees(c), e)}
  PROVE  AckedInv'
<1> DEFINE row == Inserted(Sees(c), e)
           new == [rows |-> Sees(c).rows \cup {row}, last |-> row.id]
<1>1. row \in Row /\ row.id = Sees(c).last + 1 /\ new \in Database /\ Write(c, new)
  BY InsertIsAWrite
<1>2. /\ acked \cap db.rows \subseteq Sees(c).rows
      /\ acked \cap known[c] \subseteq Sees(c).rows
      /\ \A d \in Conns \ {c} : acked \cap InSight(d) \subseteq db.rows
  BY <1>1, AckedSeen
<1>3. /\ \/ tx[c] = "none" /\ db' = new /\ tx' = tx /\ view' = view
         \/ tx[c] # "none" /\ db' = db /\ tx'[c] = "write" /\ view'[c] = new
      /\ Sees(c)' = new
      /\ tx[c] # "write" => Sees(c) = db
      /\ \A d \in Conns \ {c} :
           tx[d] # "write" /\ tx'[d] = tx[d] /\ view'[d] = view[d]
  BY <1>1, AfterWrite
<1>4. \A d \in Conns \ {c} : row \notin InSight(d) /\ row \notin db.rows
  <2> SUFFICES ASSUME NEW d \in Conns \ {c}
               PROVE  \A r \in InSight(d) \cup db.rows : r.id \in Nat /\ r.id <= db.last
    <3>1. db.last <= Sees(c).last
      <4>1. tx[c] = "write" => Sees(c) = view[c]
        BY DEF Sees
      <4>2. QED
        BY <1>3, <4>1, SeesADatabase DEF IdInv
    <3>2. db.last \in Nat /\ Sees(c).last \in Nat
      BY SeesADatabase
    <3>3. QED
      BY <1>1, <3>1, <3>2
  <2>1. LastFor(d) = db.last
    BY <1>3 DEF LastFor
  <2>2. QED
    BY <2>1, RowsTyped, RowsInSight DEF IdInv
<1>5. known \in [Conns -> SUBSET Row]
  BY DEF TypeOK
<1>6. /\ acked \subseteq acked' /\ acked' \subseteq acked \cup {row}
      /\ known'[c] \subseteq known[c] \cup {row}
      /\ \A d \in Conns \ {c} : known'[d] = known[d]
  BY <1>5
<1>7. new.rows = Sees(c).rows \cup {row}
  OBVIOUS
<1> HIDE DEF new, row
<1>8. /\ acked' \cap known'[c] \subseteq Sees(c).rows'
      /\ acked' \cap db.rows \subseteq new.rows
      /\ db' = new => acked' \cap InSight(c)' \subseteq db'.rows
  BY <1>2, <1>3, <1>6, <1>7 DEF InSight
<1>9. tx'[c] = "write" => db' = db /\ view'[c] = new
  <2>1. tx[c] = "none" => tx'[c] # "write"
    BY <1>3
  <2>2. QED
    BY <1>3, <2>1
<1>10. ASSUME NEW d \in Conns \ {c}
       PROVE  /\ acked' \cap known'[d] \subseteq Sees(d).rows'
              /\ acked' \cap InSight(d)' \subseteq db'.rows
  <2>1. db.rows \cap acked \subseteq db'.rows
    BY <1>2, <1>3, <1>7
  <2>2. acked' \cap InSight(d) \subseteq db'.rows
    BY <1>2, <1>4, <1>6, <2>1
  <2>3. \/ Sees(d)' = Sees(d)
        \/ Sees(d)' = db'
    BY <1>3 DEF Sees
  <2>4. acked' \cap known'[d] \subseteq acked \cap known[d]
    BY <1>4, <1>6 DEF InSight
  <2>5. acked \cap known[d] \subseteq Sees(d).rows
    BY DEF AckedInv
  <2>6. acked' \cap known'[d] \subseteq db'.rows
    BY <1>6, <2>2 DEF InSight
  <2>7. QED
    BY <1>6, <2>2, <2>3, <2>4, <2>5, <2>6 DEF InSight
<1>11. QED
  BY <1>3, <1>8, <1>9, <1>10 DEF AckedInv

LEMMA ClearKeepsAcked ==
  ASSUME TypeOK, IdInv, AckedInv, NEW c \in Conns, Clear(c)
  PROVE  AckedInv'
<1> DEFINE new == [rows |-> {}, last |-> Sees(c).last]
<1>1. /\ new \in Database /\ Write(c, new)
      /\ known' = known /\ acked' = acked \ Sees(c).rows
  BY SeesADatabase DEF Clear, Database
<1>2. /\ acked \cap db.rows \subseteq Sees(c).rows
      /\ acked \cap known[c] \subseteq Sees(c).rows
      /\ \A d \in Conns \ {c} : acked \cap InSight(d) \subseteq db.rows
  BY <1>1, AckedSeen
<1>3. /\ db' = db \/ db' = new
      /\ Sees(c)' = new
      /\ \A d \in Conns \ {c} :
           tx[d] # "write" /\ tx'[d] = tx[d] /\ view'[d] = view[d]
  BY <1>1, AfterWrite
<1>4. acked' \cap db'.rows = {} /\ acked' \cap db.rows = {}
  BY <1>1, <1>2, <1>3
<1>5. \A d \in Conns : acked' \cap known'[d] = {}
  BY <1>1, <1>2 DEF InSight
<1>6. acked' \cap InSight(c)' = {}
  BY <1>3, <1>5 DEF InSight
<1>7. ASSUME NEW d \in Conns \ {c} PROVE acked' \cap InSight(d)' = {}
  <2>1. Sees(d)' = Sees(d) \/ Sees(d)' = db'
    BY <1>3 DEF Sees
  <2>2. acked' \cap Sees(d).rows = {}
    BY <1>1, <1>2 DEF InSight
  <2>3. QED
    BY <1>4, <1>5, <2>1, <2>2 DEF InSight
<1>8. QED
  BY <1>4, <1>5, <1>6, <1>7 DEF AckedInv

LEMMA AckedStep == TypeOK /\ IdInv /\ AckedInv /\ [Next]_vars => AckedInv'
<1> SUFFICES ASSUME TypeOK, IdInv, AckedInv, [Next]_vars PROVE AckedInv'
  OBVIOUS
<1>1. /\ tx \in [Conns -> TxState] /\ view \in [Conns -> Database]
      /\ known \in [Conns -> SUBSET Row]
  BY DEF TypeOK
<1>2. ASSUME NEW c \in Conns, NEW e \in Events, Save(c, e) PROVE AckedInv'
  BY <1>2, InsertKeepsAcked DEF Save
<1>3. ASSUME NEW c \in Conns, BatchInsert(c) PROVE AckedInv'
  <2>1. Head(todo[c]) \in Events
    BY <1>3 DEF BatchInsert, NextEvent, TypeOK
  <2>2. QED
    BY <1>3, <2>1, InsertKeepsAcked DEF BatchInsert, history
<1>4. ASSUME NEW c \in Conns, Find(c) PROVE AckedInv'
  <2>1. /\ known' = [known EXCEPT ![c] = @ \cup Sees(c).rows]
        /\ UNCHANGED <<db, acked>>
        /\ \/ UNCHANGED <<tx, view>>
           \/ /\ tx[c] = "open" /\ tx' = [tx EXCEPT ![c] = "read"]
              /\ view' = [view EXCEPT ![c] = db]
    BY <1>4 DEF Find, history
  <2>2. \A d \in Conns : Sees(d)' = Sees(d)
    BY <1>1, <2>1 DEF Sees
  <2>3. \A d \in Conns : InSight(d)' = InSight(d) /\ known'[d] \subseteq known[d] \cup Sees(d).rows
    BY <1>1, <2>1, <2>2 DEF InSight
  <2>4. \A d \in Conns : (tx'[d] = "write" <=> tx[d] = "write")
                         /\ (tx[d] = "write" => view'[d] = view[d])
    BY <1>1, <2>1
  <2>5. QED
    BY <2>1, <2>2, <2>3, <2>4 DEF AckedInv
<1>5. ASSUME NEW c \in Conns, \E events \in Batches : BeginBatch(c, events)
      PROVE  AckedInv'
  <2>1. /\ tx' = [tx EXCEPT ![c] = IF @ = "none" THEN "open" ELSE @]
        /\ UNCHANGED <<db, view, known, acked>>
    BY <1>5 DEF BeginBatch, history
  <2>2. \A d \in Conns : Sees(d)' = Sees(d) /\ (tx'[d] = "write" <=> tx[d] = "write")
    BY <1>1, <2>1 DEF Sees
  <2>3. QED
    BY <2>1, <2>2 DEF AckedInv, InSight
<1>6. ASSUME NEW c \in Conns, EndBatch(c) PROVE AckedInv'
  <2>1. /\ tx' = [tx EXCEPT ![c] = "none"] /\ view' = [view EXCEPT ![c] = NoView]
        /\ tx[c] = "write" => db' = view[c]
        /\ tx[c] # "write" => db' = db
        /\ UNCHANGED <<known, acked>>
    BY <1>6 DEF EndBatch, Commit, history
  <2>2. Sees(c)' = db' /\ tx'[c] # "write"
    BY <1>1, <2>1 DEF Sees
  <2>3. acked \cap known[c] \subseteq db'.rows
    BY <2>1 DEF AckedInv, InSight, Sees
  <2>4. acked \cap db.rows \subseteq db'.rows
    BY <2>1 DEF AckedInv
  <2>5. ASSUME NEW d \in Conns \ {c}
        PROVE  /\ acked \cap known[d] \subseteq Sees(d)'.rows
               /\ tx'[d] = "write" => acked \cap db'.rows \subseteq view'[d].rows
               /\ tx'[d] # "write" => acked \cap InSight(d)' \subseteq db'.rows
    <3>1. tx'[d] = tx[d] /\ view'[d] = view[d]
      BY <1>1, <2>1
    <3>2. CASE tx[d] = "write"
      BY <2>1, <3>1, <3>2 DEF AckedInv, IdInv, OneWriter, Sees
    <3>3. CASE tx[d] # "write"
      <4>1. Sees(d)' = Sees(d) \/ Sees(d)' = db'
        BY <3>1 DEF Sees
      <4>2. acked \cap known[d] \subseteq db'.rows /\ acked \cap Sees(d).rows \subseteq db'.rows
        BY <2>4, <3>3 DEF AckedInv, InSight
      <4>3. QED
        BY <2>1, <3>1, <3>3, <4>1, <4>2 DEF AckedInv, InSight
    <3>4. QED
      BY <3>2, <3>3
  <2>6. QED
    BY <2>1, <2>2, <2>3, <2>5 DEF AckedInv, InSight
<1>7. ASSUME NEW c \in Conns, Exit(c) PROVE AckedInv'
  <2>1. /\ tx' = [tx EXCEPT ![c] = "none"] /\ view' = [view EXCEPT ![c] = NoView]
        /\ known' = [known EXCEPT ![c] = {}] /\ UNCHANGED <<db, acked>>
    BY <1>7 DEF Exit
  <2>2. tx'[c] # "write" /\ known'[c] = {} /\ Sees(c)' = db
    BY <1>1, <2>1 DEF Sees
  <2>3. \A d \in Conns \ {c} : /\ tx'[d] = tx[d] /\ view'[d] = view[d]
                               /\ known'[d] = known[d] /\ Sees(d)' = Sees(d)
    BY <1>1, <2>1 DEF Sees
  <2>4. QED
    BY <2>1, <2>2, <2>3 DEF AckedInv, InSight
<1>8. ASSUME UNCHANGED <<db, tx, view, known, acked>> PROVE AckedInv'
  <2>1. \A d \in Conns : Sees(d)' = Sees(d)
    BY <1>8 DEF Sees
  <2>2. QED
    BY <1>8, <2>1 DEF AckedInv, InSight
<1>9. ASSUME NEW c \in Conns, BatchSkip(c) \/ BatchThrows(c) PROVE AckedInv'
  BY <1>8, <1>9 DEF BatchSkip, BatchThrows, history
<1>10. CASE UNCHANGED vars
  BY <1>8, <1>10 DEF vars, history
<1>11. ASSUME NEW c \in Conns, Clear(c) PROVE AckedInv'
  BY <1>11, ClearKeepsAcked
<1>12. QED
  BY <1>2, <1>3, <1>4, <1>5, <1>6, <1>7, <1>9, <1>10, <1>11 DEF Next

(* What a process has saved, or found, it goes on finding until someone    *)
(* clears, in whatever transaction a batch has left it.                    *)
THEOREM OwnWritesAreRead == Spec => []ReadYourWrites
<1>1. Init => AckedInv
  BY DEF Init, AckedInv, Empty
<1>2. AckedInv => ReadYourWrites
  BY DEF AckedInv, ReadYourWrites
<1>3. TypeOK /\ IdInv /\ AckedInv /\ [Next]_vars => (TypeOK /\ IdInv /\ AckedInv)'
  BY TypeStep, IdStep, AckedStep
<1>4. QED
  BY <1>1, <1>2, <1>3, IdInit, PTL DEF Spec

-----------------------------------------------------------------------------
(* The table as a log.                                                     *)

(* What a transaction has made of the table is what it will be when it is  *)
(* committed: nobody else writes before that.                              *)
PendingInv == \A c \in Conns : tx[c] = "write" => Appended(db, view[c])

(* A statement works on the committed table or on what its transaction has *)
(* made of it, and adds a row above all others or takes all away.          *)
LEMMA StatementAppends ==
  ASSUME TypeOK, IdInv, PendingInv, NEW c \in Conns, NEW new \in Database, Write(c, new),
         \/ new.rows = {} /\ new.last = Sees(c).last
         \/ \E r \in Row : /\ new.rows = Sees(c).rows \cup {r} /\ new.last = r.id
                          /\ r.id = Sees(c).last + 1
  PROVE  Appended(db, new)
<1> DEFINE seen == Sees(c)
<1>1. /\ db.last \in Nat /\ seen.last \in Nat /\ new.last \in Nat
      /\ db.rows \subseteq Row /\ seen.rows \subseteq Row
      /\ \A r \in db.rows : r.id <= db.last
  BY SeesADatabase, MaxIdAssumption DEF Database, IdInv
<1>2. Appended(db, seen)
  <2>1. CASE tx[c] = "write"
    BY <2>1 DEF PendingInv, Sees
  <2>2. CASE tx[c] # "write"
    <3>1. seen = db
      BY <2>2, AfterWrite
    <3>2. QED
      BY <1>1, <3>1 DEF Appended
  <2>3. QED
    BY <2>1, <2>2
<1> HIDE DEF seen
<1>3. CASE new.rows = {} /\ new.last = seen.last
  BY <1>1, <1>2, <1>3 DEF Appended
<1>4. ASSUME NEW r \in Row, new.rows = seen.rows \cup {r}, new.last = r.id,
             r.id = seen.last + 1
      PROVE  Appended(db, new)
  <2>1. db.last <= seen.last /\ db.last < r.id /\ db.last <= new.last
    BY <1>1, <1>2, <1>4 DEF Appended
  <2>2. r \notin db.rows
    BY <1>1, <1>4, <2>1
  <2>3. ASSUME NEW s \in new.rows \ db.rows PROVE db.last < s.id /\ s.id <= new.last
    <3>1. CASE s = r
      BY <1>1, <1>4, <2>1, <3>1
    <3>2. CASE s # r
      <4>1. db.last < s.id /\ s.id <= seen.last /\ s.id \in Nat
        BY <1>1, <1>2, <1>4, <2>3, <3>2, RowIds DEF Appended
      <4>2. QED
        BY <1>1, <1>4, <4>1
    <3>3. QED
      BY <3>1, <3>2
  <2>4. db.rows \subseteq new.rows \/ db.rows \cap new.rows = {}
    BY <1>2, <1>4, <2>2 DEF Appended
  <2>5. QED
    BY <2>1, <2>3, <2>4 DEF Appended
<1>5. QED
  BY <1>3, <1>4 DEF seen

LEMMA WriteKeepsPending ==
  ASSUME TypeOK, PendingInv, NEW c \in Conns, NEW new \in Database, Write(c, new),
         Appended(db, new)
  PROVE  PendingInv' /\ Appended(db, db')
<1>1. /\ \/ tx[c] = "none" /\ db' = new /\ tx' = tx /\ view' = view
         \/ tx[c] # "none" /\ db' = db /\ tx'[c] = "write" /\ view'[c] = new
      /\ \A d \in Conns \ {c} :
           tx[d] # "write" /\ tx'[d] = tx[d] /\ view'[d] = view[d]
  BY AfterWrite
<1>2. Appended(db, db)
  BY SeesADatabase DEF Appended
<1>3. CASE tx[c] = "none"
  BY <1>1, <1>3 DEF PendingInv
<1>4. CASE tx[c] # "none"
  BY <1>1, <1>2, <1>4 DEF PendingInv
<1>5. QED
  BY <1>3, <1>4

LEMMA PendingStep ==
  TypeOK /\ IdInv /\ PendingInv /\ [Next]_vars => PendingInv' /\ Appended(db, db')
<1> SUFFICES ASSUME TypeOK, IdInv, PendingInv, [Next]_vars
             PROVE  PendingInv' /\ Appended(db, db')
  OBVIOUS
<1>0. Conns # {} => Appended(db, db)
  BY SeesADatabase DEF Appended
<1>1. /\ tx \in [Conns -> TxState] /\ view \in [Conns -> Database]
  BY DEF TypeOK
<1>2. ASSUME NEW c \in Conns, NEW e \in Events, Insert(c, e)
      PROVE  PendingInv' /\ Appended(db, db')
  <2> DEFINE row == Inserted(Sees(c), e)
             new == [rows |-> Sees(c).rows \cup {row}, last |-> row.id]
  <2>1. /\ row \in Row /\ row.id = Sees(c).last + 1
        /\ new \in Database /\ Write(c, new)
    BY <1>2, InsertIsAWrite
  <2>2. new.rows = Sees(c).rows \cup {row} /\ new.last = row.id
    OBVIOUS
  <2> HIDE DEF row, new
  <2>3. Appended(db, new)
    BY <2>1, <2>2, StatementAppends
  <2>4. QED
    BY <2>1, <2>3, WriteKeepsPending
<1>3. ASSUME NEW c \in Conns, Clear(c) PROVE PendingInv' /\ Appended(db, db')
  <2> DEFINE new == [rows |-> {}, last |-> Sees(c).last]
  <2>1. new \in Database /\ Write(c, new) /\ new.rows = {} /\ new.last = Sees(c).last
    BY <1>3, SeesADatabase DEF Clear, Database
  <2> HIDE DEF new
  <2>2. Appended(db, new)
    BY <2>1, StatementAppends
  <2>3. QED
    BY <2>1, <2>2, WriteKeepsPending
<1>4. ASSUME NEW c \in Conns, NEW e \in Events, Save(c, e)
      PROVE  PendingInv' /\ Appended(db, db')
  BY <1>2, <1>4 DEF Save
<1>5. ASSUME NEW c \in Conns, BatchInsert(c) PROVE PendingInv' /\ Appended(db, db')
  <2>1. Head(todo[c]) \in Events
    BY <1>5 DEF BatchInsert, NextEvent, TypeOK
  <2>2. QED
    BY <1>2, <1>5, <2>1 DEF BatchInsert
<1>6. ASSUME NEW c \in Conns, EndBatch(c) PROVE PendingInv' /\ Appended(db, db')
  <2>1. /\ tx' = [tx EXCEPT ![c] = "none"] /\ view' = [view EXCEPT ![c] = NoView]
        /\ db' = IF tx[c] = "write" THEN view[c] ELSE db
    BY <1>6 DEF EndBatch, Commit
  <2>2. CASE tx[c] = "write"
    <3>1. \A d \in Conns : tx'[d] # "write"
      BY <1>1, <2>1, <2>2 DEF IdInv, OneWriter
    <3>2. QED
      BY <2>1, <2>2, <3>1 DEF PendingInv
  <2>3. CASE tx[c] # "write"
    <3>1. /\ db' = db
          /\ \A d \in Conns : tx'[d] = "write" => tx[d] = "write" /\ view'[d] = view[d]
      BY <1>1, <2>1, <2>3
    <3>2. QED
      BY <1>0, <3>1 DEF PendingInv
  <2>4. QED
    BY <2>2, <2>3
<1>7. ASSUME NEW c \in Conns, UNCHANGED db,
             \A d \in Conns : tx'[d] = "write" => tx[d] = "write" /\ view'[d] = view[d]
      PROVE  PendingInv' /\ Appended(db, db')
  BY <1>0, <1>7 DEF PendingInv
<1>8. ASSUME NEW c \in Conns,
             \/ Find(c) \/ BatchSkip(c) \/ BatchThrows(c) \/ Exit(c)
             \/ \E events \in Batches : BeginBatch(c, events)
      PROVE  PendingInv' /\ Appended(db, db')
  <2>1. /\ UNCHANGED db
        /\ \A d \in Conns : tx'[d] = "write" => tx[d] = "write" /\ view'[d] = view[d]
    <3>1. CASE Find(c)
      BY <1>1, <3>1 DEF Find
    <3>2. CASE BatchSkip(c) \/ BatchThrows(c)
      BY <1>1, <3>2 DEF BatchSkip, BatchThrows
    <3>3. CASE Exit(c)
      BY <1>1, <3>3 DEF Exit
    <3>4. CASE \E events \in Batches : BeginBatch(c, events)
      BY <1>1, <3>4 DEF BeginBatch
    <3>5. QED
      BY <1>8, <3>1, <3>2, <3>3, <3>4
  <2>2. QED
    BY <1>7, <2>1
<1>9. CASE UNCHANGED vars
  <2>1. db' = db /\ tx' = tx /\ view' = view
    BY <1>9 DEF vars
  <2>2. db.last <= db.last
    BY MaxIdAssumption DEF TypeOK, Database
  <2>3. QED
    BY <2>1, <2>2 DEF PendingInv, Appended
<1>10. QED
  BY <1>3, <1>4, <1>5, <1>6, <1>8, <1>9 DEF Next

(* Every commit appends to the table or replaces it by newer rows: ids are *)
(* in the order of commits, whatever is left open and cleared in between.  *)
THEOREM TableIsALog == Spec => TableOnlyAppends
<1>1. Init => PendingInv
  BY DEF Init, PendingInv
<1>2. TypeOK /\ IdInv /\ PendingInv /\ [Next]_vars => PendingInv'
  BY PendingStep
<1>3. TypeOK /\ IdInv /\ PendingInv /\ [Next]_vars => [Appended(db, db')]_vars
  BY PendingStep
<1>4. QED
  BY <1>1, <1>2, <1>3, IdInvariant, PTL DEF Spec, TableOnlyAppends

=============================================================================
