------------------------------ MODULE ItemStore ------------------------------
(* What the item service promises to its callers, whatever goes on below it:  *)
(* the table of items changes in one atomic step per accepted write, between  *)
(* the call and the successful reply, at most once per call; a call that      *)
(* fails before its transaction asks to commit never changes the table; only  *)
(* a call whose commit was in flight when it failed may take effect, once, at *)
(* any later time; a read returns the table as it was at one instant of the   *)
(* call.  ItemTx implements this specification.                               *)
EXTENDS Naturals

CONSTANTS Reqs,      \* the calls
          Ops,       \* the operations a call may ask for
          Ids,       \* the item ids
          Table,     \* the initial content of the table
          Absent     \* marks an id with no row

VARIABLES items,     \* the table: id -> name or Absent
          op,        \* call -> the operation it asks for
          status,    \* call -> idle, open, ok, missing, failed or unknown
          effect,    \* call -> none, applied, miss (the row was not there)
          seen       \* call -> the table as a read saw it

vars == <<items, op, status, effect, seen>>

Writes == {"create", "update", "delete"}
Reads  == {"get", "list"}

\* The table after the write o on row i.
Written(t, o, i) == [t EXCEPT ![i] = IF o.kind = "delete" THEN Absent ELSE o.name]

Init == /\ items = Table
        /\ op \in [Reqs -> Ops]
        /\ status = [r \in Reqs |-> "idle"]
        /\ effect = [r \in Reqs |-> "none"]
        /\ seen = [r \in Reqs |-> Table]

Invoke(r) == /\ status[r] = "idle"
             /\ status' = [status EXCEPT ![r] = "open"]
             /\ UNCHANGED <<items, op, effect, seen>>

\* A write takes effect.  A create takes a row nobody holds; the others
\* change a row that is there.
Apply(r) == /\ status[r] \in {"open", "unknown"}
            /\ op[r].kind \in Writes
            /\ effect[r] = "none"
            /\ \E i \in Ids :
                 /\ IF op[r].kind = "create"
                      THEN items[i] = Absent
                      ELSE i = op[r].id /\ items[i] # Absent
                 /\ items' = Written(items, op[r], i)
            /\ effect' = [effect EXCEPT ![r] = "applied"]
            /\ UNCHANGED <<op, status, seen>>

\* An update or a delete finds no row: there is nothing to change.
Miss(r) == /\ status[r] = "open"
           /\ op[r].kind \in {"update", "delete"}
           /\ effect[r] = "none"
           /\ items[op[r].id] = Absent
           /\ effect' = [effect EXCEPT ![r] = "miss"]
           /\ UNCHANGED <<items, op, status, seen>>

\* A read sees the table of this instant.
Observe(r) == /\ status[r] = "open"
              /\ op[r].kind \in Reads
              /\ effect[r] = "none"
              /\ effect' = [effect EXCEPT ![r] = "applied"]
              /\ seen' = [seen EXCEPT ![r] = items]
              /\ UNCHANGED <<items, op, status>>

Succeed(r) == /\ status[r] = "open"
              /\ effect[r] # "none"
              /\ status' = [status EXCEPT ![r] =
                   IF op[r].kind = "get" /\ seen[r][op[r].id] = Absent
                     THEN "missing" ELSE "ok"]
              /\ UNCHANGED <<items, op, effect, seen>>

\* The call fails: for good when nothing of it can happen any more, with an
\* unknown outcome when its commit was under way.
Fail(r) == /\ status[r] = "open"
           /\ \/ /\ effect[r] # "applied" \/ op[r].kind \in Reads
                 /\ status' = [status EXCEPT ![r] = "failed"]
              \/ /\ op[r].kind \in Writes
                 /\ status' = [status EXCEPT ![r] = "unknown"]
           /\ UNCHANGED <<items, op, effect, seen>>

Next == \E r \in Reqs : \/ Invoke(r) \/ Apply(r) \/ Miss(r)
                        \/ Observe(r) \/ Succeed(r) \/ Fail(r)

Spec == Init /\ [][Next]_vars
=============================================================================
