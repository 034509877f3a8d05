------------------------------- MODULE ItemTx -------------------------------
(* The item service over its repository: what services/item, repositories/   *)
(* item and WithTransaction of infrastructure/db do for concurrent calls that *)
(* share one database/sql pool, one MySQL table and, each, a context that can *)
(* be cancelled at any moment.  database/sql (the pool, Tx, the goroutine     *)
(* awaitDone that rolls back when a transaction's context ends) and MySQL     *)
(* (row locks, AUTO_INCREMENT, COMMIT over a connection that can break) are   *)
(* external: they are modelled from how the code uses them.                   *)
EXTENDS Naturals, FiniteSets

CONSTANTS Reqs,      \* the calls; each is made at most once
          Ops,       \* the operations calls ask for, records with a kind
          Names,     \* the names items may have
          MaxId,     \* bound: ids AUTO_INCREMENT may hand out
          Table,     \* initial rows: id -> name or Absent
          FirstId,   \* the AUTO_INCREMENT counter of that table
          Absent,    \* no row
          MaxOpen,   \* SetMaxOpenConns
          Pinned     \* connections taken from the pool and never returned

Ids == 1..MaxId
Writes == {"create", "update", "delete"}
Values == Names \cup {Absent}

ASSUME BoundAssumption == MaxId \in Nat
ASSUME AbsentAssumption == Absent \notin Names
ASSUME OpsAssumption ==
  \A o \in Ops : \/ o.kind = "create" /\ o.name \in Names
                 \/ o.kind = "update" /\ o.id \in Ids /\ o.name \in Names
                 \/ o.kind \in {"delete", "get"} /\ o.id \in Ids
                 \/ o.kind = "list"
\* The first FirstId - 1 ids have been handed out already.
ASSUME TableAssumption == /\ Table \in [Ids -> Values]
                          /\ FirstId \in 1..(MaxId + 1)
                          /\ \A i \in Ids : i >= FirstId => Table[i] = Absent

VARIABLES items,     \* the committed rows
          nextId,    \* AUTO_INCREMENT counter of the table
          op,        \* call -> its operation
          pc,        \* call -> where its goroutine is
          ctxDone,   \* call -> the caller's context has ended
          conn,      \* call -> holds a pooled connection
          goTx,      \* call -> its sql.Tx
          srvTx,     \* call -> its transaction in MySQL
          stmt,      \* call -> what its statement did: none, hit or miss
          row,       \* call -> the row its statement locked (0: none)
          seen       \* call -> the rows a query returned

vars == <<items, nextId, op, pc, ctxDone, conn, goTx, srvTx, stmt, row, seen>>
store == <<items, nextId>>
tx == <<goTx, srvTx, stmt, row>>

Final == {"ok", "missing", "failed"}
Returned(r) == pc[r] \in Final

\* Free slots of the pool.
PoolHasRoom == Cardinality({r \in Reqs : conn[r]}) + Pinned < MaxOpen

\* Another transaction has changed row i and is still open.
RowLocked(r, i) == \E q \in Reqs \ {r} :
                     srvTx[q] = "open" /\ stmt[q] = "hit" /\ row[q] = i

\* The rows once the statement of call r is committed.
Committed(r) == IF stmt[r] # "hit" THEN items
                ELSE [items EXCEPT ![row[r]] =
                        IF op[r].kind = "delete" THEN Absent ELSE op[r].name]

Init == /\ items = Table
        /\ nextId = FirstId
        /\ op \in [Reqs -> Ops]
        /\ pc = [r \in Reqs |-> "idle"]
        /\ ctxDone = [r \in Reqs |-> FALSE]
        /\ conn = [r \in Reqs |-> FALSE]
        /\ goTx = [r \in Reqs |-> "none"]
        /\ srvTx = [r \in Reqs |-> "none"]
        /\ stmt = [r \in Reqs |-> "none"]
        /\ row = [r \in Reqs |-> 0]
        /\ seen = [r \in Reqs |-> Table]

Goto(r, l) == pc' = [pc EXCEPT ![r] = l]

-----------------------------------------------------------------------------
(* The service and the repository *)

\* A transport calls the service.  UpdateItem asks the external service first.
Call(r) == /\ pc[r] = "idle"
           /\ Goto(r, IF op[r].kind = "update" THEN "fetch"
                      ELSE IF op[r].kind \in Writes THEN "begin" ELSE "query")
           /\ UNCHANGED <<store, op, ctxDone, conn, tx, seen>>

\* FetchItemByID answers or fails: UpdateItem logs either and goes on.
Fetched(r) == /\ pc[r] = "fetch"
              /\ Goto(r, "begin")
              /\ UNCHANGED <<store, op, ctxDone, conn, tx, seen>>

\* List and Get: a connection is taken and MySQL answers with the rows of
\* this instant.
Query(r) == /\ pc[r] = "query"
            /\ ~ctxDone[r]
            /\ PoolHasRoom
            /\ conn' = [conn EXCEPT ![r] = TRUE]
            /\ stmt' = [stmt EXCEPT ![r] = "hit"]
            /\ seen' = [seen EXCEPT ![r] = items]
            /\ Goto(r, "scan")
            /\ UNCHANGED <<store, op, ctxDone, goTx, srvTx, row>>

\* No connection before the context ended, or the query failed.
QueryFail(r) == /\ pc[r] = "query"
                /\ ctxDone[r] \/ PoolHasRoom
                /\ Goto(r, "failed")
                /\ UNCHANGED <<store, op, ctxDone, conn, tx, seen>>

\* A fault: Get drops "no rows" and answers the item it did not scan into.
ScanZero(r) == /\ pc[r] = "scan"
               /\ conn' = [conn EXCEPT ![r] = FALSE]
               /\ Goto(r, "ok")
               /\ seen' = IF op[r].kind = "get" /\ seen[r][op[r].id] = Absent
                            THEN [seen EXCEPT ![r][op[r].id] = ""] ELSE seen
               /\ UNCHANGED <<store, op, ctxDone, tx>>

\* The rows are scanned and closed: Get maps "no rows" to ErrItemNotFound, and
\* a row that cannot be read fails the call.
Scan(r) == /\ pc[r] = "scan"
           /\ conn' = [conn EXCEPT ![r] = FALSE]
           /\ \/ Goto(r, IF op[r].kind = "get" /\ seen[r][op[r].id] = Absent
                           THEN "missing" ELSE "ok")
              \/ Goto(r, "failed")
           /\ UNCHANGED <<store, op, ctxDone, tx, seen>>

-----------------------------------------------------------------------------
(* WithTransaction *)

\* BeginTx waits for a free slot of the pool.
Begin(r) == /\ pc[r] = "begin"
            /\ ~ctxDone[r]
            /\ PoolHasRoom
            /\ conn' = [conn EXCEPT ![r] = TRUE]
            /\ goTx' = [goTx EXCEPT ![r] = "open"]
            /\ srvTx' = [srvTx EXCEPT ![r] = "open"]
            /\ Goto(r, "exec")
            /\ UNCHANGED <<store, op, ctxDone, stmt, row, seen>>

\* The context ended while it waited, or the server could not be reached.
BeginFail(r) == /\ pc[r] = "begin"
                /\ ctxDone[r] \/ PoolHasRoom
                /\ Goto(r, "failed")
                /\ UNCHANGED <<store, op, ctxDone, conn, tx, seen>>

\* ExecContext runs the statement on the transaction the context carries, and
\* so on the connection that transaction holds already; without one it would
\* have to wait for a connection of the pool.
InTxForgotten(r) == FALSE              \* a fault: the context without the tx
InTx(r) == goTx[r] # "none"
ExecReady(r) == InTx(r) \/ PoolHasRoom

\* What MySQL does with the statement.  An INSERT takes the next id whether or
\* not it is ever committed; an UPDATE or DELETE waits for the row's lock and
\* may find no row, which is no error: RowsAffected is never looked at.
Statement(r) ==
  LET i == IF op[r].kind = "create" THEN nextId ELSE op[r].id IN
  /\ goTx[r] = "open" /\ srvTx[r] = "open" /\ ~ctxDone[r]
  /\ i \in Ids
  /\ ~RowLocked(r, i)
  /\ nextId' = IF op[r].kind = "create" THEN nextId + 1 ELSE nextId
  /\ IF op[r].kind = "create" \/ items[i] # Absent
       THEN /\ stmt' = [stmt EXCEPT ![r] = "hit"]
            /\ row' = [row EXCEPT ![r] = i]
       ELSE /\ stmt' = [stmt EXCEPT ![r] = "miss"]
            /\ row' = row

\* The closure returns nil.
Exec(r) == /\ pc[r] = "exec"
           /\ ExecReady(r)
           /\ Statement(r)
           /\ Goto(r, "commit")
           /\ UNCHANGED <<items, op, ctxDone, conn, goTx, srvTx, seen>>

\* The closure returns an error or panics: the transaction is over already, the
\* statement was refused (a foreign key, a lock wait, a lost connection), or
\* something failed after it ran.
ExecFail(r) == /\ pc[r] = "exec"
               /\ ExecReady(r)
               /\ \/ Statement(r)
                  \/ UNCHANGED <<nextId, stmt, row>>
               /\ Goto(r, "rollback")
               /\ UNCHANGED <<items, op, ctxDone, conn, goTx, srvTx, seen>>

\* Faults: an error path that returns without Rollback, one that commits.
RollbackForgotten(r) ==
  /\ pc[r] = "rollback"
  /\ Goto(r, "failed")
  /\ UNCHANGED <<store, op, ctxDone, conn, goTx, srvTx, stmt, row, seen>>
RollbackCommits(r) ==
  /\ pc[r] = "rollback"
  /\ goTx[r] = "open"
  /\ goTx' = [goTx EXCEPT ![r] = "committing"]
  /\ Goto(r, "rolling")
  /\ UNCHANGED <<store, op, ctxDone, conn, srvTx, stmt, row, seen>>

\* tx.Rollback after an error or in the recover of a panic.
Rollback(r) == /\ pc[r] = "rollback"
               /\ IF goTx[r] = "open"
                    THEN /\ goTx' = [goTx EXCEPT ![r] = "rolling"]
                         /\ Goto(r, "rolling")
                    ELSE /\ Goto(r, "failed")         \* sql.ErrTxDone, joined
                         /\ goTx' = goTx
               /\ UNCHANGED <<store, op, ctxDone, conn, srvTx, stmt, row, seen>>

\* A ROLLBACK ends the transaction on the server, or is lost with the
\* connection; either way the slot is free again.
RolledBack(r) == /\ goTx' = [goTx EXCEPT ![r] = "done"]
                 /\ conn' = [conn EXCEPT ![r] = FALSE]
                 /\ \/ srvTx' = [srvTx EXCEPT ![r] = "aborted"]
                    \/ srvTx' = srvTx

RollbackEnd(r) == /\ pc[r] = "rolling"
                  /\ RolledBack(r)
                  /\ Goto(r, "failed")
                  /\ UNCHANGED <<store, op, ctxDone, stmt, row, seen>>

\* A fault: the error of Commit is dropped.
CommitIgnored(r) ==
  /\ pc[r] = "commit"
  /\ IF goTx[r] = "open" /\ ~ctxDone[r]
       THEN /\ goTx' = [goTx EXCEPT ![r] = "committing"]
            /\ Goto(r, "committing")
       ELSE /\ Goto(r, "ok")
            /\ goTx' = goTx
  /\ UNCHANGED <<store, op, ctxDone, conn, srvTx, stmt, row, seen>>

\* tx.Commit refuses when the context has ended or the transaction is over,
\* and otherwise sends COMMIT.
Commit(r) == /\ pc[r] = "commit"
             /\ IF goTx[r] = "open" /\ ~ctxDone[r]
                  THEN /\ goTx' = [goTx EXCEPT ![r] = "committing"]
                       /\ Goto(r, "committing")
                  ELSE /\ Goto(r, "failed")
                       /\ goTx' = goTx
             /\ UNCHANGED <<store, op, ctxDone, conn, srvTx, stmt, row, seen>>

\* COMMIT succeeded: the repository fills in the id and the service answers.
CommitOk(r) == /\ pc[r] = "committing"
               /\ srvTx[r] = "committed"
               /\ goTx' = [goTx EXCEPT ![r] = "done"]
               /\ conn' = [conn EXCEPT ![r] = FALSE]
               /\ Goto(r, "ok")
               /\ UNCHANGED <<store, op, ctxDone, srvTx, stmt, row, seen>>

\* The answer to COMMIT never came: the connection is thrown away and the call
\* fails, whatever the server does with the COMMIT.
CommitLost(r) == /\ pc[r] = "committing"
                 /\ goTx' = [goTx EXCEPT ![r] = "lost"]
                 /\ conn' = [conn EXCEPT ![r] = FALSE]
                 /\ Goto(r, "failed")
                 /\ UNCHANGED <<store, op, ctxDone, srvTx, stmt, row, seen>>

-----------------------------------------------------------------------------
(* database/sql, MySQL and the caller *)

\* awaitDone: the transaction's context has ended, because the caller's did or
\* because WithTransaction returned and its deferred cancel ran.
TxCtxDone(r) == ctxDone[r] \/ Returned(r)

Reap(r) == /\ goTx[r] = "open"
           /\ TxCtxDone(r)
           /\ goTx' = [goTx EXCEPT ![r] = "reaping"]
           /\ UNCHANGED <<store, op, pc, ctxDone, conn, srvTx, stmt, row, seen>>

ReapEnd(r) == /\ goTx[r] = "reaping"
              /\ RolledBack(r)
              /\ UNCHANGED <<store, op, pc, ctxDone, stmt, row, seen>>

\* MySQL receives the COMMIT, perhaps after the client gave up on it.
ServerCommit(r) == /\ goTx[r] \in {"committing", "lost"}
                   /\ srvTx[r] = "open"
                   /\ srvTx' = [srvTx EXCEPT ![r] = "committed"]
                   /\ items' = Committed(r)
                   /\ UNCHANGED <<nextId, op, pc, ctxDone, conn, goTx, stmt,
                                  row, seen>>

\* MySQL ends a session (a restart, a broken connection) and rolls back.
ServerAbort(r) == /\ srvTx[r] = "open"
                  /\ srvTx' = [srvTx EXCEPT ![r] = "aborted"]
                  /\ UNCHANGED <<store, op, pc, ctxDone, conn, goTx, stmt, row,
                                 seen>>

\* The caller goes away: a client disconnects, a server shuts down.
Cancel(r) == /\ pc[r] \notin Final \cup {"idle"}
             /\ ~ctxDone[r]
             /\ ctxDone' = [ctxDone EXCEPT ![r] = TRUE]
             /\ UNCHANGED <<store, op, pc, conn, tx, seen>>

-----------------------------------------------------------------------------
Serve(r) == \/ Fetched(r) \/ Query(r) \/ QueryFail(r) \/ Scan(r)
            \/ Begin(r) \/ BeginFail(r) \/ Exec(r) \/ ExecFail(r)
            \/ Rollback(r) \/ RollbackEnd(r)
            \/ Commit(r) \/ CommitOk(r) \/ CommitLost(r)

\* A session whose client has let go of it.
Orphan(r) == goTx[r] \in {"done", "lost"}

Next == \E r \in Reqs : \/ Call(r) \/ Serve(r) \/ Reap(r) \/ ReapEnd(r)
                        \/ ServerCommit(r) \/ ServerAbort(r) \/ Cancel(r)

\* The goroutines run, the external service, the driver and the server answer
\* or fail in the end, and MySQL notices a session that lost its client.
\* Nothing makes a caller call or go away.
Fairness == \A r \in Reqs : /\ WF_vars(Serve(r))
                            /\ WF_vars(Reap(r))
                            /\ WF_vars(ReapEnd(r))
                            /\ WF_vars(Orphan(r) /\ ServerAbort(r))

Spec == Init /\ [][Next]_vars /\ Fairness

-----------------------------------------------------------------------------
(* Properties *)

\* Every variable keeps to its type: in particular only items with a name are
\* stored or answered, ids stay within the bound, and a call, its sql.Tx and its
\* session are each in a state the code knows.
TypeOK == /\ items \in [Ids -> Values]
          /\ nextId \in 1..(MaxId + 1)
          /\ op \in [Reqs -> Ops]
          /\ pc \in [Reqs -> Final \cup {"idle", "fetch", "begin", "query",
                       "scan", "exec", "rollback", "rolling", "commit",
                       "committing"}]
          /\ ctxDone \in [Reqs -> BOOLEAN]
          /\ conn \in [Reqs -> BOOLEAN]
          /\ goTx \in [Reqs -> {"none", "open", "rolling", "reaping",
                                "committing", "lost", "done"}]
          /\ srvTx \in [Reqs -> {"none", "open", "aborted", "committed"}]
          /\ stmt \in [Reqs -> {"none", "hit", "miss"}]
          /\ row \in [Reqs -> 0..MaxId]
          /\ seen \in [Reqs -> [Ids -> Values]]

\* A call that ended while its caller still waited has given its connection
\* back before the answer leaves: WithTransaction never leaks a slot of the
\* pool on an error or a panic.  (A cancelled call may leave the slot to
\* awaitDone.)
ConnReturned == \A r \in Reqs : Returned(r) /\ ~ctxDone[r] => ~conn[r]

\* The id a successful Create returns names the created item, for as long as
\* no other call changes or deletes that very row.
CreatedStands ==
  \A r \in Reqs : pc[r] = "ok" /\ op[r].kind = "create" =>
    \/ items[row[r]] = op[r].name
    \/ \E q \in Reqs \ {r} : /\ op[q].kind \in {"update", "delete"}
                             /\ op[q].id = row[r]
                             /\ srvTx[q] = "committed" /\ stmt[q] = "hit"

\* An update that succeeds has updated an item, as service.go says
\* ("UpdateItem updates an existing item") and as the tests' stub of the
\* repository does, which answers ErrItemNotFound.
UpdateFindsItem ==
  \A r \in Reqs : pc[r] = "ok" /\ op[r].kind = "update" => stmt[r] = "hit"

\* Every call is answered, whatever fails and whoever goes away, even when all
\* the connections of the pool are in use.
CallsAnswered == \A r \in Reqs : (pc[r] # "idle") ~> Returned(r)

\* The calls as their callers see them: every write takes effect in one step
\* between the call and its successful answer, a call that failed with no
\* COMMIT under way never does, and reads see one instant of the table.
Status(r) == CASE pc[r] \in {"idle", "ok", "missing"} -> pc[r]
               [] pc[r] = "failed" ->
                    IF goTx[r] = "lost" THEN "unknown" ELSE "failed"
               [] OTHER -> "open"

Effect(r) == IF stmt[r] = "miss" THEN "miss"
             ELSE IF stmt[r] = "hit" /\ (op[r].kind \in Writes => srvTx[r] = "committed")
                    THEN "applied" ELSE "none"

Store == INSTANCE ItemStore WITH status <- [r \in Reqs |-> Status(r)],
                                 effect <- [r \in Reqs |-> Effect(r)]
ImplementsItemStore == Store!Spec
=============================================================================
