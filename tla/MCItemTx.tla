------------------------------ MODULE MCItemTx ------------------------------
(* ItemTx for TLC: three calls over a table that starts with one row.        *)
EXTENDS ItemTx, TLC

CONSTANTS r1, r2, r3

MCOps == {[kind |-> "create", name |-> "new"],
          [kind |-> "update", id |-> 1, name |-> "upd"],
          [kind |-> "update", id |-> 2, name |-> "upd"],
          [kind |-> "delete", id |-> 1],
          [kind |-> "get",    id |-> 2],
          [kind |-> "list"]}

MCTable == [i \in Ids |-> IF i = 1 THEN "old" ELSE Absent]

Symmetry == Permutations({r1, r2, r3})

\* Three calls: a create, an update of the row it makes, a read of it.
RowOps == {o \in MCOps : o.kind = "create" \/ (o.kind \in {"update", "get"} /\ o.id = 2)}
=============================================================================
