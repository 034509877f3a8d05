----------------------------- MODULE MigrationsInv -----------------------------
(* The inductive invariant behind the theorems of Migrations_proofs, in a      *)
(* module TLC can check too.                                                   *)
EXTENDS Migrations

\* Whoever is inside a migrate operation holds the database lock, and the holder
\* is inside one.
Held == /\ \A p \in Procs : at[p] # "enter" => stage[p] \in Starting /\ lock = p
        /\ lock # NoProc => at[lock] # "enter"

\* While a script runs, the version it goes to is on record as dirty.
Recorded == \A p \in Procs : at[p] = "script" =>
  /\ stage[p] # "force"
  /\ dirty
  /\ mig[p] \in Versions
  /\ mig[p] = IF stage[p] = "steps" THEN ver + 1 ELSE ver

-----------------------------------------------------------------------------
(* Instances that start one at a time *)

OneStarts == \A p, q \in Procs :
  stage[p] \in Starting /\ stage[q] \in Starting => p = q

\* Nobody serves between the Up that found the version dirty and the end of the
\* rollback, and the record is as that Up found it until Force.
Recovering == \A p \in Procs :
  /\ stage[p] \in {"force", "steps"} => ~Serving
  /\ stage[p] = "force" => dirty /\ ver = found[p]

Orderly == OneStarts /\ Recovering /\ ServingAtHead

-----------------------------------------------------------------------------
(* ... whose rollbacks are not interrupted *)

Undoing == \E p \in Procs : stage[p] = "steps"

\* The tables of every other version are as the recorded version says.
Settled(v) == \A u \in Versions \ {v} : tables[u] = IF u <= ver THEN Full ELSE None

\* The tables of a version before statement n of its up script.
UpTo(n) == [t \in Tables |->
  IF t = "items" THEN IF n = 1 THEN "none" ELSE IF n <= 3 THEN "empty" ELSE "rows"
                 ELSE IF n <= 2 THEN "none" ELSE IF n <= 4 THEN "empty" ELSE "rows"]

\* Only the tables of the version that is made, or undone, may be half done.
Schema ==
  /\ ~Undoing /\ ~dirty => tables = SchemaOf(ver)
  /\ ~Undoing /\ dirty => ver > 0 /\ Settled(ver)
  /\ \A p \in Procs :
       /\ stage[p] = "steps" /\ at[p] # "script" => ~dirty /\ ver > 0 /\ Settled(ver)
       /\ stage[p] = "steps" /\ at[p] = "script" =>
            /\ Settled(ver + 1)
            /\ line[p] >= 2 => tables[ver + 1]["details"] = "none"
            /\ line[p] >= 3 => tables[ver + 1]["items"] = "none"
       /\ stage[p] # "steps" /\ at[p] = "script" => tables[ver] = UpTo(line[p])

-----------------------------------------------------------------------------
IInv == /\ TypeOK /\ Held /\ Recorded
        /\ ~Overlap => Orderly
        /\ ~Overlap /\ "steps" \notin FaultStages /\ Retries => Schema
=============================================================================
