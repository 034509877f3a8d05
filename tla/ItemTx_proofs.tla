--------------------------- MODULE ItemTx_proofs ---------------------------
(* Proofs about ItemTx, for any calls, operations, tables and pool sizes.    *)
(* ItemTxInv!IInv is inductive: the type invariant, the path of every        *)
(* goroutine through WithTransaction with its connection and its session,    *)
(* the row locks, and the rows creates made.                                 *)
EXTENDS ItemTxInv, TLAPS

USE DEF Final, Writes, Values

\* One step of the system, by the call that takes it.
Step(r) == \/ Call(r) \/ Serve(r) \/ Reap(r) \/ ReapEnd(r)
           \/ ServerCommit(r) \/ ServerAbort(r) \/ Cancel(r)

-----------------------------------------------------------------------------
(* Types *)

\* The initial state is well typed.
LEMMA TypeInit == Init => TypeOK
BY TableAssumption, BoundAssumption DEF Init, TypeOK

\* The row a statement locks has an id, and the id counter keeps its bound.
LEMMA StatementType ==
  ASSUME TypeOK, NEW r \in Reqs, Statement(r)
  PROVE  /\ nextId' \in 1..(MaxId + 1)
         /\ stmt' \in [Reqs -> {"none", "hit", "miss"}]
         /\ row' \in [Reqs -> 0..MaxId]
<1> DEFINE i == IF op[r].kind = "create" THEN nextId ELSE op[r].id
<1>1. i \in 1..MaxId  BY DEF Statement, Ids
<1>2. nextId' = nextId \/ (nextId' = nextId + 1 /\ nextId \in 1..MaxId)
  BY <1>1 DEF Statement
<1>3. nextId' \in 1..(MaxId + 1)  BY <1>2, BoundAssumption DEF TypeOK
<1>4. row' = row \/ row' = [row EXCEPT ![r] = i]  BY DEF Statement
<1>5. row' \in [Reqs -> 0..MaxId]
  BY <1>1, <1>4, BoundAssumption DEF TypeOK
<1>6. stmt' \in [Reqs -> {"none", "hit", "miss"}]  BY DEF Statement, TypeOK
<1> QED  BY <1>3, <1>5, <1>6

\* Only a write is ever committed, and it writes a name or removes the row.
LEMMA CommittedType ==
  ASSUME TypeOK, Flow, NEW r \in Reqs, ServerCommit(r)
  PROVE  items' \in [Ids -> Values]
<1>1. op[r] \in Ops /\ op[r].kind \in Writes
  BY DEF ServerCommit, Flow, FlowOf, IsWrite, TypeOK
<1>2. op[r].kind # "delete" => op[r].name \in Names
  BY <1>1, OpsAssumption
<1> QED  BY <1>2 DEF ServerCommit, Committed, TypeOK

\* Every step keeps every variable's type.
LEMMA TypeNext ==
  ASSUME TypeOK, Flow, [Next]_vars
  PROVE  TypeOK'
<1>1. CASE UNCHANGED vars  BY <1>1 DEF vars, TypeOK
<1>2. ASSUME NEW r \in Reqs, Step(r)  PROVE TypeOK'
  <2>0. USE DEF Goto, store, tx
  <2>1. CASE Call(r)  BY <2>1 DEF Call, TypeOK
  <2>2. CASE Fetched(r)  BY <2>2 DEF Fetched, TypeOK
  <2>3. CASE Query(r)  BY <2>3 DEF Query, TypeOK
  <2>4. CASE QueryFail(r)  BY <2>4 DEF QueryFail, TypeOK
  <2>5. CASE Scan(r)  BY <2>5 DEF Scan, TypeOK
  <2>6. CASE Begin(r)  BY <2>6 DEF Begin, TypeOK
  <2>7. CASE BeginFail(r)  BY <2>7 DEF BeginFail, TypeOK
  <2>8. CASE Exec(r)
    <3>1. Statement(r)  BY <2>8 DEF Exec
    <3> QED  BY <2>8, <3>1, StatementType DEF Exec, TypeOK
  <2>9. CASE ExecFail(r)
    <3>1. CASE Statement(r)
      BY <2>9, <3>1, StatementType DEF ExecFail, TypeOK
    <3>2. CASE UNCHANGED <<nextId, stmt, row>>
      BY <2>9, <3>2 DEF ExecFail, TypeOK
    <3> QED  BY <2>9, <3>1, <3>2 DEF ExecFail
  <2>10. CASE Rollback(r)  BY <2>10 DEF Rollback, TypeOK
  <2>11. CASE RollbackEnd(r)  BY <2>11 DEF RollbackEnd, RolledBack, TypeOK
  <2>12. CASE Commit(r)  BY <2>12 DEF Commit, TypeOK
  <2>13. CASE CommitOk(r)  BY <2>13 DEF CommitOk, TypeOK
  <2>14. CASE CommitLost(r)  BY <2>14 DEF CommitLost, TypeOK
  <2>15. CASE Reap(r)  BY <2>15 DEF Reap, TypeOK
  <2>16. CASE ReapEnd(r)  BY <2>16 DEF ReapEnd, RolledBack, TypeOK
  <2>17. CASE ServerCommit(r)
    BY <2>17, CommittedType DEF ServerCommit, TypeOK
  <2>18. CASE ServerAbort(r)  BY <2>18 DEF ServerAbort, TypeOK
  <2>19. CASE Cancel(r)  BY <2>19 DEF Cancel, TypeOK
  <2> QED
    BY <1>2, <2>1, <2>2, <2>3, <2>4, <2>5, <2>6, <2>7, <2>8, <2>9, <2>10,
       <2>11, <2>12, <2>13, <2>14, <2>15, <2>16, <2>17, <2>18, <2>19
    DEF Step, Serve
<1> QED  BY <1>1, <1>2 DEF Next, Step

-----------------------------------------------------------------------------
(* The path of a call *)

\* No call has touched the database at the start.
LEMMA FlowInit == Init => Flow
BY DEF Init, Flow, FlowOf, IsWrite

\* Every step keeps a goroutine, its sql.Tx, its connection and its session in
\* step with one another.
LEMMA FlowNext ==
  ASSUME TypeOK, Flow, [Next]_vars
  PROVE  Flow'
<1>1. CASE UNCHANGED vars  BY <1>1 DEF vars, Flow, FlowOf, IsWrite
<1>2. ASSUME NEW r \in Reqs, Step(r), NEW q \in Reqs  PROVE FlowOf(q)'
  <2>0. USE DEF Goto, store, tx, TypeOK, FlowOf, IsWrite
  <2>a. FlowOf(q) /\ FlowOf(r)  BY DEF Flow
  <2>1. CASE Call(r)  BY <2>1, <2>a DEF Call
  <2>2. CASE Fetched(r)  BY <2>2, <2>a DEF Fetched
  <2>3. CASE Query(r)  BY <2>3, <2>a DEF Query
  <2>4. CASE QueryFail(r)  BY <2>4, <2>a DEF QueryFail
  <2>5. CASE Scan(r)  BY <2>5, <2>a DEF Scan
  <2>6. CASE Begin(r)  BY <2>6, <2>a DEF Begin
  <2>7. CASE BeginFail(r)  BY <2>7, <2>a DEF BeginFail
  <2>8. CASE Exec(r)  BY <2>8, <2>a DEF Exec, Statement
  <2>9. CASE ExecFail(r)  BY <2>9, <2>a DEF ExecFail, Statement
  <2>10. CASE Rollback(r)  BY <2>10, <2>a DEF Rollback
  <2>11. CASE RollbackEnd(r)  BY <2>11, <2>a DEF RollbackEnd, RolledBack
  <2>12. CASE Commit(r)  BY <2>12, <2>a DEF Commit
  <2>13. CASE CommitOk(r)  BY <2>13, <2>a DEF CommitOk
  <2>14. CASE CommitLost(r)  BY <2>14, <2>a DEF CommitLost
  <2>15. CASE Reap(r)  BY <2>15, <2>a DEF Reap, TxCtxDone, Returned
  <2>16. CASE ReapEnd(r)  BY <2>16, <2>a DEF ReapEnd, RolledBack
  <2>17. CASE ServerCommit(r)  BY <2>17, <2>a DEF ServerCommit
  <2>18. CASE ServerAbort(r)  BY <2>18, <2>a DEF ServerAbort
  <2>19. CASE Cancel(r)  BY <2>19, <2>a DEF Cancel
  <2> QED
    BY <1>2, <2>1, <2>2, <2>3, <2>4, <2>5, <2>6, <2>7, <2>8, <2>9, <2>10,
       <2>11, <2>12, <2>13, <2>14, <2>15, <2>16, <2>17, <2>18, <2>19
    DEF Step, Serve
<1> QED  BY <1>1, <1>2 DEF Next, Step, Flow

-----------------------------------------------------------------------------
(* Row locks and created rows *)

\* At the start nothing is locked and nothing created.
LEMMA LocksInit == Init => Locks /\ Creates
BY TableAssumption DEF Init, Locks, Creates, Holds, IsWrite

\* A step that runs no write's statement and commits nothing.
Quiet == /\ UNCHANGED <<items, nextId, op, row>>
         /\ \A q \in Reqs : IsWrite(q) => stmt'[q] = stmt[q]
         /\ \A q \in Reqs : srvTx'[q] = "committed" <=> srvTx[q] = "committed"
         /\ \A q \in Reqs : Holds(q)' => Holds(q)

\* A step that changes no row, no id counter, no statement and opens no session
\* keeps what the locks and the creates say.
LEMMA QuietKeeps ==
  ASSUME Locks, Creates, Quiet
  PROVE  Locks' /\ Creates'
<1>1. Locks'  BY DEF Quiet, Locks, Holds, IsWrite
<1>2. Creates'
  <2>1. \A q \in Reqs : op[q].kind \in Writes => stmt'[q] = stmt[q]
    BY DEF Quiet, IsWrite
  <2> QED  BY <2>1 DEF Quiet, Creates
<1> QED  BY <1>1, <1>2

\* A statement locks a row no open statement holds; a create's row is new.
LEMMA StatementKeeps ==
  ASSUME TypeOK, Flow, Locks, Creates, NEW r \in Reqs,
         pc[r] = "exec", Statement(r), UNCHANGED <<items, op, srvTx>>
  PROVE  Locks' /\ Creates'
<1> DEFINE i == IF op[r].kind = "create" THEN nextId ELSE op[r].id
           hit == op[r].kind = "create" \/ items[i] # Absent
<1>1. /\ IsWrite(r) /\ stmt[r] = "none" /\ srvTx[r] = "open" /\ goTx[r] = "open"
  BY DEF Statement, Flow, FlowOf, TypeOK
<1>2. /\ i \in Ids /\ i \in Nat /\ nextId \in Nat
      /\ ~RowLocked(r, i)
      /\ nextId' = IF op[r].kind = "create" THEN nextId + 1 ELSE nextId
      /\ \A q \in Reqs \ {r} : stmt'[q] = stmt[q] /\ row'[q] = row[q]
      /\ hit => stmt'[r] = "hit" /\ row'[r] = i
      /\ ~hit => stmt'[r] = "miss"
  BY DEF Statement, TypeOK, Ids
<1>3. \A j \in Ids : j \in Nat  BY DEF Ids
<1>4. hit => i < nextId'
  BY <1>2 DEF Locks
<1>5. Locks'
  <2>1. \A j \in Ids : j >= nextId' => items'[j] = Absent
    BY <1>2, <1>3 DEF Locks
  <2>2. ASSUME NEW q \in Reqs, IsWrite(q)', stmt'[q] = "hit"
        PROVE  /\ row'[q] \in Ids
               /\ row'[q] < nextId'
               /\ op'[q].kind # "create" => row'[q] = op'[q].id
    <3>1. CASE q = r  BY <1>2, <1>4, <2>2, <3>1
    <3>2. CASE q # r  BY <1>2, <1>3, <2>2, <3>2 DEF Locks, IsWrite
    <3> QED  BY <3>1, <3>2
  <2>3. ASSUME NEW q \in Reqs, Holds(q)'
        PROVE  items'[row'[q]] = Absent <=> op'[q].kind = "create"
    <3>1. CASE q = r
      <4>1. hit /\ row'[r] = i  BY <1>2, <2>3, <3>1 DEF Holds
      <4> QED  BY <1>2, <3>1, <4>1 DEF Locks
    <3>2. CASE q # r  BY <1>2, <2>3, <3>2 DEF Locks, Holds, IsWrite
    <3> QED  BY <3>1, <3>2
  <2>4. ASSUME NEW p \in Reqs, NEW q \in Reqs, p # q, Holds(p)', Holds(q)'
        PROVE  row'[p] # row'[q]
    <3>1. CASE p = r
      BY <1>2, <2>4, <3>1 DEF RowLocked, Holds, IsWrite
    <3>2. CASE q = r
      BY <1>2, <2>4, <3>2 DEF RowLocked, Holds, IsWrite
    <3>3. CASE p # r /\ q # r
      BY <1>2, <2>4, <3>3 DEF Locks, Holds, IsWrite
    <3> QED  BY <3>1, <3>2, <3>3
  <2> QED  BY <2>1, <2>2, <2>3, <2>4 DEF Locks
<1>6. Creates'
  <2>1. ASSUME NEW p \in Reqs, NEW q \in Reqs, p # q,
               op[p].kind = "create", stmt'[p] = "hit",
               op[q].kind = "create", stmt'[q] = "hit"
        PROVE  row'[p] # row'[q]
    <3>1. \A x \in Reqs \ {r} : op[x].kind = "create" /\ stmt[x] = "hit" =>
                                 row[x] < nextId /\ row[x] \in Nat
      BY <1>3 DEF Locks, IsWrite
    <3>2. CASE p = r  BY <1>2, <2>1, <3>1, <3>2
    <3>3. CASE q = r  BY <1>2, <2>1, <3>1, <3>3
    <3>4. CASE p # r /\ q # r  BY <1>2, <2>1, <3>4 DEF Creates
    <3> QED  BY <3>2, <3>3, <3>4
  <2>2. \A p \in Reqs : op[p].kind = "create" => stmt'[p] # "miss"
    BY <1>2 DEF Creates
  <2>3. ASSUME NEW p \in Reqs, op[p].kind = "create", stmt'[p] = "hit",
               srvTx[p] = "committed"
        PROVE  \/ items[row'[p]] = op[p].name
               \/ \E q \in Reqs \ {p} : /\ op[q].kind \in {"update", "delete"}
                                        /\ op[q].id = row'[p]
                                        /\ srvTx[q] = "committed" /\ stmt'[q] = "hit"
    <3>1. p # r  BY <1>1, <2>3
    <3>2. stmt[p] = "hit" /\ row'[p] = row[p]  BY <1>2, <2>3, <3>1
    <3>3. \A q \in Reqs : srvTx[q] = "committed" => q # r  BY <1>1
    <3> QED  BY <1>2, <2>3, <3>2, <3>3 DEF Creates
  <2> QED  BY <2>1, <2>2, <2>3 DEF Creates
<1> QED  BY <1>5, <1>6

\* A commit changes the one row its statement locked.
LEMMA CommitKeeps ==
  ASSUME TypeOK, Flow, Locks, Creates, NEW r \in Reqs, ServerCommit(r)
  PROVE  Locks' /\ Creates'
<1>1. /\ IsWrite(r) /\ srvTx[r] = "open" /\ srvTx'[r] = "committed"
      /\ \A q \in Reqs \ {r} : srvTx'[q] = srvTx[q]
      /\ UNCHANGED <<nextId, op, stmt, row>>
  BY DEF ServerCommit, Flow, FlowOf, TypeOK
<1>2. stmt[r] = "hit" => /\ Holds(r) /\ row[r] \in Ids /\ row[r] < nextId
  BY <1>1 DEF Holds, Locks
<1>3. \A i \in Ids : i \in Nat  BY DEF Ids
<1>4. \A i \in Ids : stmt[r] # "hit" \/ i # row[r] => items'[i] = items[i]
  BY DEF ServerCommit, Committed, TypeOK
<1>5. nextId \in Nat  BY DEF TypeOK
<1>6. Locks'
  <2>1. \A i \in Ids : i >= nextId' => items'[i] = Absent
    BY <1>1, <1>2, <1>3, <1>4, <1>5 DEF Locks
  <2>2. ASSUME NEW q \in Reqs, Holds(q)'
        PROVE  items'[row'[q]] = Absent <=> op'[q].kind = "create"
    <3>1. q # r /\ Holds(q) /\ row[q] \in Ids
      BY <1>1, <2>2 DEF Holds, IsWrite, Locks
    <3>2. items'[row[q]] = items[row[q]]  BY <1>2, <1>4, <3>1 DEF Locks
    <3> QED  BY <1>1, <3>1, <3>2 DEF Locks
  <2>3. ASSUME NEW p \in Reqs, NEW q \in Reqs, p # q, Holds(p)', Holds(q)'
        PROVE  row'[p] # row'[q]
    BY <1>1, <2>3 DEF Locks, Holds, IsWrite
  <2> QED  BY <1>1, <2>1, <2>2, <2>3 DEF Locks, IsWrite
<1>7. Creates'
  <2>1. ASSUME NEW p \in Reqs, op[p].kind = "create", stmt[p] = "hit",
               srvTx'[p] = "committed"
        PROVE  \/ items'[row[p]] = op[p].name
               \/ \E q \in Reqs \ {p} : /\ op[q].kind \in {"update", "delete"}
                                        /\ op[q].id = row[p]
                                        /\ srvTx'[q] = "committed" /\ stmt[q] = "hit"
    <3>0. row[p] \in Ids  BY <2>1 DEF Locks, IsWrite
    <3>1. CASE p = r
      BY <1>2, <2>1, <3>1 DEF ServerCommit, Committed, TypeOK
    <3>2. CASE p # r /\ stmt[r] = "hit" /\ row[r] = row[p]
      <4>1. op[r].kind \in {"update", "delete"}
        BY <1>1, <2>1, <3>2 DEF Creates, IsWrite
      <4> QED  BY <1>1, <3>2, <4>1 DEF Locks
    <3>3. CASE p # r /\ ~(stmt[r] = "hit" /\ row[r] = row[p])
      <4>1. srvTx[p] = "committed" /\ items'[row[p]] = items[row[p]]
        BY <1>1, <1>4, <2>1, <3>0, <3>3
      <4>2. \A q \in Reqs : srvTx[q] = "committed" => srvTx'[q] = "committed"
        BY <1>1
      <4> QED  BY <2>1, <4>1, <4>2 DEF Creates
    <3> QED  BY <3>1, <3>2, <3>3
  <2> QED  BY <1>1, <2>1 DEF Creates
<1> QED  BY <1>6, <1>7

\* Every step keeps what the locks and the creates say.
LEMMA RowsNext ==
  ASSUME TypeOK, Flow, Locks, Creates, [Next]_vars
  PROVE  Locks' /\ Creates'
<1>1. CASE UNCHANGED vars
  BY <1>1, QuietKeeps DEF vars, Quiet, Holds, IsWrite
<1>2. ASSUME NEW r \in Reqs, Step(r)  PROVE Locks' /\ Creates'
  <2>0. USE DEF Goto, store, tx
  <2>1. CASE Exec(r)
    BY <2>1, StatementKeeps DEF Exec
  <2>2. CASE ExecFail(r) /\ Statement(r)
    BY <2>2, StatementKeeps DEF ExecFail
  <2>3. CASE ServerCommit(r)  BY <2>3, CommitKeeps
  <2>4. CASE Query(r)
    <3>1. ~IsWrite(r)  BY <2>4 DEF Query, Flow, FlowOf
    <3>2. Quiet  BY <2>4, <3>1 DEF Query, Quiet, Holds, IsWrite, TypeOK
    <3> QED  BY <3>2, QuietKeeps
  <2>5. CASE Begin(r)
    <3>1. stmt[r] = "none" /\ srvTx[r] # "committed"
      BY <2>5 DEF Begin, Flow, FlowOf
    <3>2. Quiet  BY <2>5, <3>1 DEF Begin, Quiet, Holds, IsWrite, TypeOK
    <3> QED  BY <3>2, QuietKeeps
  <2>6. CASE RollbackEnd(r) \/ ReapEnd(r) \/ ServerAbort(r)
    <3>1. srvTx[r] # "committed"
      BY <2>6 DEF RollbackEnd, ReapEnd, ServerAbort, Flow, FlowOf
    <3>2. Quiet
      BY <2>6, <3>1
      DEF RollbackEnd, ReapEnd, ServerAbort, RolledBack, Quiet, Holds, IsWrite, TypeOK
    <3> QED  BY <3>2, QuietKeeps
  <2>7. CASE \/ Call(r) \/ Fetched(r) \/ QueryFail(r) \/ Scan(r) \/ BeginFail(r)
             \/ (ExecFail(r) /\ ~Statement(r)) \/ Rollback(r) \/ Commit(r)
             \/ CommitOk(r) \/ CommitLost(r) \/ Reap(r) \/ Cancel(r)
    <3>1. UNCHANGED <<items, nextId, op, srvTx, stmt, row>>
      BY <2>7 DEF Call, Fetched, QueryFail, Scan, BeginFail, ExecFail, Rollback,
                  Commit, CommitOk, CommitLost, Reap, Cancel
    <3>2. Quiet  BY <3>1 DEF Quiet, Holds, IsWrite
    <3> QED  BY <3>2, QuietKeeps
  <2> QED
    BY <1>2, <2>1, <2>2, <2>3, <2>4, <2>5, <2>6, <2>7 DEF Step, Serve
<1> QED  BY <1>1, <1>2 DEF Next, Step

-----------------------------------------------------------------------------
(* Theorems *)

\* The inductive invariant holds in every reachable state of the item service.
THEOREM Invariance == Spec => []IInv
<1>1. Init => IInv  BY TypeInit, FlowInit, LocksInit DEF IInv
<1>2. IInv /\ [Next]_vars => IInv'  BY TypeNext, FlowNext, RowsNext DEF IInv
<1> QED  BY <1>1, <1>2, PTL DEF Spec

\* Every variable keeps its type: in particular only rows with an id and a name
\* are ever committed.
THEOREM TypeCorrect == Spec => []TypeOK
<1>1. IInv => TypeOK  BY DEF IInv
<1> QED  BY <1>1, Invariance, PTL

\* WithTransaction and the queries give the connection back before a call whose
\* caller still waits is answered, on every error path.
THEOREM ConnReturnedCorrect == Spec => []ConnReturned
<1>1. IInv => ConnReturned
  BY DEF IInv, Flow, FlowOf, ConnReturned, Returned
<1> QED  BY <1>1, Invariance, PTL

\* The id a successful Create returns is the created item's until another call
\* updates or deletes that row.
THEOREM CreatedStandsCorrect == Spec => []CreatedStands
<1>1. IInv => CreatedStands
  <2>1. ASSUME IInv, NEW r \in Reqs, pc[r] = "ok", op[r].kind = "create"
        PROVE  stmt[r] = "hit" /\ srvTx[r] = "committed"
    <3>1. FlowOf(r) /\ IsWrite(r)  BY <2>1 DEF IInv, Flow, IsWrite
    <3>2. stmt[r] \in {"none", "hit", "miss"}  BY <2>1 DEF IInv, TypeOK
    <3> QED  BY <2>1, <3>1, <3>2 DEF FlowOf, IInv, Creates
  <2> QED  BY <2>1 DEF IInv, Creates, CreatedStands
<1> QED  BY <1>1, Invariance, PTL

-----------------------------------------------------------------------------
(* Refinement *)

\* A step that leaves the table, the snapshots and every call's status and
\* effect alone is a stutter of the store.
LEMMA Stutter ==
  ASSUME UNCHANGED <<items, op, seen>>,
         \A q \in Reqs : Status(q)' = Status(q) /\ Effect(q)' = Effect(q)
  PROVE  UNCHANGED Store!vars
BY DEF Store!vars

\* A step of r that changes at most r's status and effect, as the store does it.
LEMMA OthersStutter ==
  ASSUME TypeOK, NEW r \in Reqs, Step(r), NEW q \in Reqs, q # r
  PROVE  Status(q)' = Status(q) /\ Effect(q)' = Effect(q)
<1>1. /\ pc'[q] = pc[q] /\ goTx'[q] = goTx[q] /\ srvTx'[q] = srvTx[q]
      /\ stmt'[q] = stmt[q] /\ op' = op
  <2>0. USE DEF Goto, store, tx, TypeOK
  <2>1. CASE Call(r) \/ Fetched(r) \/ Query(r) \/ QueryFail(r) \/ Scan(r)
    BY <2>1 DEF Call, Fetched, Query, QueryFail, Scan
  <2>2. CASE Begin(r) \/ BeginFail(r) \/ Exec(r) \/ ExecFail(r)
    BY <2>2 DEF Begin, BeginFail, Exec, ExecFail, Statement
  <2>3. CASE Rollback(r) \/ RollbackEnd(r) \/ Commit(r) \/ CommitOk(r) \/ CommitLost(r)
    BY <2>3 DEF Rollback, RollbackEnd, RolledBack, Commit, CommitOk, CommitLost
  <2>4. CASE Reap(r) \/ ReapEnd(r) \/ ServerCommit(r) \/ ServerAbort(r) \/ Cancel(r)
    BY <2>4 DEF Reap, ReapEnd, RolledBack, ServerCommit, ServerAbort, Cancel
  <2> QED  BY <2>1, <2>2, <2>3, <2>4 DEF Step, Serve
<1> QED  BY <1>1 DEF Status, Effect

\* The initial states are initial states of the store.
LEMMA RefineInit == Init => Store!Init
BY DEF Init, Store!Init, Status, Effect

\* The store's view of a step of r, from what it does to r alone.
LEMMA View ==
  ASSUME TypeOK, NEW r \in Reqs, Step(r)
  PROVE  /\ op' = op
         /\ op[r] \in Ops
         /\ [q \in Reqs |-> Status(q)]' = [[q \in Reqs |-> Status(q)] EXCEPT ![r] = Status(r)']
         /\ [q \in Reqs |-> Effect(q)]' = [[q \in Reqs |-> Effect(q)] EXCEPT ![r] = Effect(r)']
<1>1. \A q \in Reqs \ {r} : Status(q)' = Status(q) /\ Effect(q)' = Effect(q)
  BY OthersStutter
<1>2. op' = op /\ op[r] \in Ops
  BY DEF Step, Serve, store, tx, Call, Fetched, Query, QueryFail, Scan, Begin,
     BeginFail, Exec, ExecFail, Rollback, RollbackEnd, Commit, CommitOk,
     CommitLost, Reap, ReapEnd, ServerCommit, ServerAbort, Cancel, TypeOK
<1> QED  BY <1>1, <1>2

\* A step after which the store's view of r is what it was.
LEMMA Silent ==
  ASSUME TypeOK, NEW r \in Reqs, Step(r), UNCHANGED <<items, seen>>,
         Status(r)' = Status(r), Effect(r)' = Effect(r)
  PROVE  UNCHANGED Store!vars
BY OthersStutter, View, Stutter

\* A step that answers an open call with an error.
LEMMA Failing ==
  ASSUME TypeOK, NEW r \in Reqs, Step(r), UNCHANGED <<items, seen>>,
         Status(r) = "open", Effect(r)' = Effect(r),
         \/ Status(r)' = "failed" /\ (Effect(r) # "applied" \/ ~IsWrite(r))
         \/ Status(r)' = "unknown" /\ IsWrite(r)
  PROVE  Store!Fail(r)
<1>1. op[r].kind \notin Writes => op[r].kind \in Store!Reads
  BY View, OpsAssumption DEF Store!Reads
<1> QED  BY <1>1, View DEF Store!Fail, Store!Writes, IsWrite

\* A statement is unseen until its commit, unless it found no row.
LEMMA StatementView ==
  ASSUME TypeOK, Flow, Creates, NEW r \in Reqs, Exec(r) \/ ExecFail(r), Statement(r)
  PROVE  Store!Miss(r) \/ UNCHANGED Store!vars
<1>0. Step(r)  BY DEF Step, Serve
<1>1. /\ pc[r] = "exec" /\ goTx[r] = "open" /\ srvTx[r] = "open" /\ stmt[r] = "none"
      /\ IsWrite(r) /\ UNCHANGED <<items, op, goTx, srvTx, seen>>
      /\ pc'[r] \in {"commit", "rollback"}
  BY DEF Exec, ExecFail, Goto, Statement, Flow, FlowOf, TypeOK
<1>2. Status(r) = "open" /\ Status(r)' = "open" /\ Effect(r) = "none"
  BY <1>1 DEF Status, Effect
<1>3. CASE stmt'[r] = "hit"
  <2>1. Effect(r)' = "none"  BY <1>1, <1>3 DEF Effect, IsWrite
  <2> QED  BY <1>0, <1>1, <1>2, <2>1, Silent
<1>4. CASE stmt'[r] # "hit"
  <2>1. /\ stmt'[r] = "miss" /\ op[r].kind \in {"update", "delete"}
        /\ items[op[r].id] = Absent
    BY <1>1, <1>4 DEF Statement, IsWrite, TypeOK
  <2>2. Effect(r)' = "miss"  BY <2>1 DEF Effect
  <2>3. [q \in Reqs |-> Status(q)]' = [q \in Reqs |-> Status(q)]
    BY <1>0, <1>2, View
  <2> QED  BY <1>0, <1>1, <1>2, <2>1, <2>2, <2>3, View DEF Store!Miss
<1> QED  BY <1>3, <1>4

\* A commit is where a write takes effect, for a caller that waits or for one
\* that was told the call failed while the COMMIT was under way.
LEMMA CommitView ==
  ASSUME TypeOK, Flow, Locks, NEW r \in Reqs, ServerCommit(r)
  PROVE  Store!Apply(r) \/ UNCHANGED Store!vars
<1>0. Step(r)  BY DEF Step
<1>1. /\ goTx[r] \in {"committing", "lost"} /\ srvTx[r] = "open"
      /\ srvTx'[r] = "committed" /\ IsWrite(r) /\ stmt[r] \in {"hit", "miss"}
      /\ UNCHANGED <<op, pc, goTx, stmt, row, seen>>
      /\ goTx[r] = "lost" => pc[r] = "failed"
      /\ goTx[r] = "committing" => pc[r] = "committing"
      /\ items' = Committed(r)
  BY DEF ServerCommit, Flow, FlowOf, TypeOK
<1>2. Status(r) \in {"open", "unknown"} /\ Status(r)' = Status(r)
  BY <1>1 DEF Status
<1>3. CASE stmt[r] = "miss"
  BY <1>0, <1>1, <1>2, <1>3, Silent DEF Effect, Committed
<1>4. CASE stmt[r] = "hit"
  <2>1. Effect(r) = "none" /\ Effect(r)' = "applied"
    BY <1>1, <1>4 DEF Effect, IsWrite
  <2>2. /\ row[r] \in Ids
        /\ IF op[r].kind = "create" THEN items[row[r]] = Absent
             ELSE row[r] = op[r].id /\ items[row[r]] # Absent
    BY <1>1, <1>4 DEF Locks, Holds
  <2>3. items' = Store!Written(items, op[r], row[r])
    BY <1>1, <1>4 DEF Committed, Store!Written
  <2>4. [q \in Reqs |-> Status(q)]' = [q \in Reqs |-> Status(q)]
    BY <1>0, <1>2, View
  <2> QED
    BY <1>0, <1>1, <1>2, <2>1, <2>2, <2>3, <2>4, View
    DEF Store!Apply, Store!Writes, IsWrite
<1> QED  BY <1>1, <1>3, <1>4

\* Every step of the service is a step of the store or a stutter.
LEMMA RefineNext ==
  ASSUME IInv, [Next]_vars
  PROVE  [Store!Next]_(Store!vars)
<1>0. TypeOK /\ Flow /\ Locks /\ Creates  BY DEF IInv
<1>1. CASE UNCHANGED vars
  BY <1>1, Stutter DEF vars, Status, Effect
<1>2. ASSUME NEW r \in Reqs, Step(r)
      PROVE  \/ Store!Invoke(r) \/ Store!Apply(r) \/ Store!Miss(r)
             \/ Store!Observe(r) \/ Store!Succeed(r) \/ Store!Fail(r)
             \/ UNCHANGED Store!vars
  <2>0. FlowOf(r)  BY <1>0 DEF Flow
  <2>a. USE <1>0, <1>2 DEF Goto, store, tx, TypeOK, IsWrite, FlowOf
  <2>1. CASE Call(r)
    <3>1. /\ Status(r) = "idle" /\ Status(r)' = "open" /\ Effect(r)' = Effect(r)
          /\ UNCHANGED <<items, seen>>
      BY <2>1 DEF Call, Status, Effect
    <3>2. [q \in Reqs |-> Effect(q)]' = [q \in Reqs |-> Effect(q)]
      BY <3>1, View
    <3> QED  BY <3>1, <3>2, View DEF Store!Invoke
  <2>2. CASE Query(r)
    <3>1. /\ Status(r) = "open" /\ Status(r)' = "open"
          /\ Effect(r) = "none" /\ Effect(r)' = "applied"
          /\ items' = items /\ seen' = [seen EXCEPT ![r] = items]
      BY <2>0, <2>2 DEF Query, Status, Effect
    <3>2. [q \in Reqs |-> Status(q)]' = [q \in Reqs |-> Status(q)]
      BY <3>1, View
    <3>3. op[r].kind \in Store!Reads
      BY <2>0, <2>2, View, OpsAssumption DEF Query, Store!Reads
    <3> QED  BY <3>1, <3>2, <3>3, View DEF Store!Observe
  <2>3. CASE Scan(r)
    <3>1. /\ Status(r) = "open" /\ Effect(r) = "applied" /\ Effect(r)' = "applied"
          /\ ~IsWrite(r) /\ UNCHANGED <<items, seen>>
      BY <2>0, <2>3 DEF Scan, Status, Effect
    <3>2. CASE pc'[r] = "failed"
      <4>1. Status(r)' = "failed"  BY <2>0, <2>3, <3>2 DEF Scan, Status
      <4> QED  BY <3>1, <4>1, Failing
    <3>3. CASE pc'[r] # "failed"
      <4>1. Status(r)' = IF op[r].kind = "get" /\ seen[r][op[r].id] = Absent
                           THEN "missing" ELSE "ok"
        BY <2>3, <3>3 DEF Scan, Status
      <4>2. [q \in Reqs |-> Effect(q)]' = [q \in Reqs |-> Effect(q)]
        BY <3>1, View
      <4> QED  BY <3>1, <4>1, <4>2, View DEF Store!Succeed
    <3> QED  BY <3>2, <3>3
  <2>4. CASE QueryFail(r) \/ BeginFail(r)
    <3>1. /\ Status(r) = "open" /\ Status(r)' = "failed"
          /\ Effect(r) = "none" /\ Effect(r)' = "none" /\ UNCHANGED <<items, seen>>
      BY <2>0, <2>4 DEF QueryFail, BeginFail, Status, Effect
    <3> QED  BY <3>1, Failing
  <2>5. CASE (Exec(r) \/ ExecFail(r)) /\ Statement(r)
    BY <2>5, StatementView
  <2>6. CASE ExecFail(r) /\ ~Statement(r)
    <3>1. Status(r)' = Status(r) /\ Effect(r)' = Effect(r) /\ UNCHANGED <<items, seen>>
      BY <2>6 DEF ExecFail, Status, Effect
    <3> QED  BY <3>1, Silent
  <2>7. CASE Rollback(r) \/ Commit(r)
    <3>1. /\ Status(r) = "open" /\ Effect(r) # "applied" /\ Effect(r)' = Effect(r)
          /\ UNCHANGED <<items, seen>>
      BY <2>0, <2>7 DEF Rollback, Commit, Status, Effect
    <3>2. Status(r)' \in {"open", "failed"}
      BY <2>0, <2>7 DEF Rollback, Commit, Status
    <3> QED  BY <3>1, <3>2, Failing, Silent
  <2>8. CASE RollbackEnd(r)
    <3>1. /\ Status(r) = "open" /\ Status(r)' = "failed"
          /\ Effect(r) # "applied" /\ Effect(r)' = Effect(r) /\ UNCHANGED <<items, seen>>
      BY <2>0, <2>8 DEF RollbackEnd, RolledBack, Status, Effect
    <3> QED  BY <3>1, Failing
  <2>9. CASE CommitOk(r)
    <3>1. /\ Status(r) = "open" /\ Status(r)' = "ok"
          /\ Effect(r) # "none" /\ Effect(r)' = Effect(r)
          /\ IsWrite(r) /\ UNCHANGED <<items, seen>>
      BY <2>0, <2>9 DEF CommitOk, Status, Effect
    <3>2. [q \in Reqs |-> Effect(q)]' = [q \in Reqs |-> Effect(q)]
      BY <3>1, View
    <3> QED  BY <3>1, <3>2, View DEF Store!Succeed
  <2>10. CASE CommitLost(r)
    <3>1. /\ Status(r) = "open" /\ Status(r)' = "unknown"
          /\ Effect(r)' = Effect(r) /\ IsWrite(r) /\ UNCHANGED <<items, seen>>
      BY <2>0, <2>10 DEF CommitLost, Status, Effect
    <3> QED  BY <3>1, Failing
  <2>11. CASE ServerCommit(r)  BY <2>11, CommitView
  <2>12. CASE Fetched(r) \/ Begin(r) \/ Reap(r) \/ ReapEnd(r) \/ ServerAbort(r) \/ Cancel(r)
    <3>1. Status(r)' = Status(r) /\ UNCHANGED <<items, seen>>
      BY <2>0, <2>12
      DEF Fetched, Begin, Reap, ReapEnd, RolledBack, ServerAbort, Cancel, Status
    <3>2. Effect(r)' = Effect(r)
      BY <2>0, <2>12
      DEF Fetched, Begin, Reap, ReapEnd, RolledBack, ServerAbort, Cancel, Effect
    <3> QED  BY <3>1, <3>2, Silent
  <2>13. Exec(r) => Statement(r)  BY DEF Exec
  <2> QED
    BY <1>2, <2>1, <2>2, <2>3, <2>4, <2>5, <2>6, <2>7, <2>8, <2>9, <2>10, <2>11, <2>12, <2>13
    DEF Step, Serve
<1> QED  BY <1>1, <1>2 DEF Next, Step, Store!Next

\* ItemTx implements ItemStore: whatever the pool, the contexts, the connections
\* and the server do, callers see a table whose writes take effect in one step,
\* at most once, before their successful answer.
THEOREM Refinement == Spec => ImplementsItemStore
<1>1. Init => Store!Init  BY RefineInit
<1>2. IInv /\ [Next]_vars => [Store!Next]_(Store!vars)  BY RefineNext
<1> QED
  BY <1>1, <1>2, Invariance, PTL DEF Spec, ImplementsItemStore, Store!Spec
=============================================================================
