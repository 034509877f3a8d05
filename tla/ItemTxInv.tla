----------------------------- MODULE ItemTxInv -----------------------------
(* The inductive invariant behind the theorems of ItemTx_proofs, in a module *)
(* TLC can check too.                                                        *)
EXTENDS ItemTx

IsWrite(r) == op[r].kind \in Writes

\* Where a goroutine can be with its sql.Tx, its connection and its session.
FlowOf(r) ==
  /\ pc[r] \in {"idle", "fetch", "begin", "query"} => goTx[r] = "none" /\ stmt[r] = "none"
  /\ pc[r] \in {"fetch", "begin"} => IsWrite(r)
  /\ pc[r] \in {"query", "scan"} => ~IsWrite(r)
  /\ pc[r] = "scan" => goTx[r] = "none" /\ stmt[r] = "hit"
  /\ pc[r] = "exec" => stmt[r] = "none"
  /\ pc[r] \in {"exec", "rollback", "commit"} => goTx[r] \in {"open", "reaping", "done"}
  /\ pc[r] = "commit" => stmt[r] # "none"
  /\ pc[r] = "rolling" <=> goTx[r] = "rolling"
  /\ pc[r] = "committing" <=> goTx[r] = "committing"
  /\ goTx[r] \in {"committing", "lost"} => stmt[r] # "none"
  /\ goTx[r] = "lost" => pc[r] = "failed"
  /\ goTx[r] = "reaping" => ctxDone[r]
  /\ goTx[r] = "none" <=> srvTx[r] = "none"
  /\ goTx[r] # "none" => IsWrite(r)
  /\ srvTx[r] = "committed" =>
       /\ stmt[r] # "none"
       /\ goTx[r] \in {"committing", "lost", "done"}
       /\ goTx[r] = "done" => pc[r] = "ok"
  /\ pc[r] = "ok" /\ IsWrite(r) => goTx[r] = "done" /\ srvTx[r] = "committed"
  /\ pc[r] = "ok" /\ ~IsWrite(r) => goTx[r] = "none" /\ stmt[r] = "hit"
  /\ pc[r] = "missing" => /\ ~IsWrite(r) /\ goTx[r] = "none" /\ stmt[r] = "hit"
  /\ pc[r] = "failed" => goTx[r] # "open" \/ ctxDone[r]
  /\ conn[r] <=> pc[r] = "scan" \/ goTx[r] \in {"open", "rolling", "reaping", "committing"}

Flow == \A r \in Reqs : FlowOf(r)

\* r has changed its row and its session may still commit.
Holds(r) == IsWrite(r) /\ stmt[r] = "hit" /\ srvTx[r] = "open"

\* An open statement locked a row that is as it found it, and locked it alone;
\* ids not handed out yet have no row.
Locks ==
  /\ \A i \in Ids : i >= nextId => items[i] = Absent
  /\ \A r \in Reqs : IsWrite(r) /\ stmt[r] = "hit" =>
       /\ row[r] \in Ids
       /\ row[r] < nextId
       /\ op[r].kind # "create" => row[r] = op[r].id
  /\ \A r \in Reqs : Holds(r) => (items[row[r]] = Absent <=> op[r].kind = "create")
  /\ \A r, q \in Reqs : r # q /\ Holds(r) /\ Holds(q) => row[r] # row[q]

\* The ids of creates are their own, and a committed create's row is as it
\* made it unless an update or a delete of that row was committed.
Creates ==
  /\ \A r, q \in Reqs : /\ r # q
                        /\ op[r].kind = "create" /\ stmt[r] = "hit"
                        /\ op[q].kind = "create" /\ stmt[q] = "hit"
                        => row[r] # row[q]
  /\ \A r \in Reqs : op[r].kind = "create" => stmt[r] # "miss"
  /\ \A r \in Reqs :
       op[r].kind = "create" /\ stmt[r] = "hit" /\ srvTx[r] = "committed" =>
         \/ items[row[r]] = op[r].name
         \/ \E q \in Reqs \ {r} : /\ op[q].kind \in {"update", "delete"}
                                  /\ op[q].id = row[r]
                                  /\ srvTx[q] = "committed" /\ stmt[q] = "hit"

IInv == TypeOK /\ Flow /\ Locks /\ Creates
=============================================================================
