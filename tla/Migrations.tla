----------------------------- MODULE Migrations -----------------------------
(* RunMigrations (infrastructure/db/migrate.go) as every entry point runs it  *)
(* before it serves, by instances that share one MySQL schema, crash, lose    *)
(* the database and are restarted.  golang-migrate is external, modelled from *)
(* the calls the code makes: Up, Force and Steps take the database lock each  *)
(* on its own; Up and Steps record the version they go to as dirty, run the   *)
(* script, whose statements MySQL commits one by one, and record it as clean. *)
EXTENDS Naturals

CONSTANTS Procs,        \* the instances of the service
          Last,         \* the newest migration; version 0 is the empty schema
          Strategies,   \* values DirtyStrategy may have
          NoProc,       \* nobody holds the lock
          Overlap,      \* may instances start at the same time?
          FaultStages,  \* stages in which a crash or a database error may come
          MaxFaults     \* bound: crashes, errors and lock timeouts in a behaviour

ASSUME ConstantsAssumption == /\ Last \in Nat \ {0}
                              /\ MaxFaults \in Nat
                              /\ NoProc \notin Procs
                              /\ Overlap \in BOOLEAN

Versions == 1..Last

\* A migration makes two tables, where the second one refers to the first, and
\* then puts sample rows in each (migrations/000001_initial); its down script
\* drops them in the opposite order.
Tables == {"items", "details"}
UpScript == <<<<"create", "items">>, <<"create", "details">>,
              <<"insert", "items">>, <<"insert", "details">>>>
DownScript == <<<<"drop", "details">>, <<"drop", "items">>>>
Script(dir) == IF dir = "up" THEN UpScript ELSE DownScript
ScriptEnd(dir) == IF dir = "up" THEN 4 ELSE 2

VARIABLES ver,       \* schema_migrations.version
          dirty,     \* schema_migrations.dirty
          tables,    \* version -> table -> none, empty, rows or dup
          lock,      \* GET_LOCK: an instance or NoProc
          strategy,  \* Database.DirtyStrategy
          stage,     \* instance -> what it is doing
          at,        \* instance -> where it is inside a migrate operation
          found,     \* instance -> the dirty version its first Up reported
          mig,       \* instance -> the version whose script it runs
          line,      \* instance -> the next statement of that script
          faults     \* crashes, errors and lock timeouts so far

db == <<ver, dirty, tables>>
local == <<stage, at, found, mig, line>>
vars == <<ver, dirty, tables, lock, strategy, stage, at, found, mig, line, faults>>

Starting == {"up1", "force", "steps", "up2"}    \* stages of RunMigrations
Ups == {"up1", "up2"}

\* What the tables of a version hold once its up script ran, once, to the end.
Full == [t \in Tables |-> "rows"]
None == [t \in Tables |-> "none"]
SchemaOf(v) == [u \in Versions |-> IF u <= v THEN Full ELSE None]

\* A statement, over the tables of its version: CREATE TABLE IF NOT EXISTS,
\* INSERT, DROP TABLE IF EXISTS.
Ran(s, tbls) ==
  LET t == s[2] IN
  CASE s[1] = "create" -> [tbls EXCEPT ![t] = IF @ = "none" THEN "empty" ELSE @]
    [] s[1] = "insert" -> [tbls EXCEPT ![t] = IF @ = "empty" THEN "rows" ELSE "dup"]
    [] s[1] = "drop"   -> [tbls EXCEPT ![t] = "none"]

Init == /\ ver \in 0..Last
        /\ dirty = FALSE
        /\ tables = SchemaOf(ver)
        /\ lock = NoProc
        /\ strategy \in Strategies
        /\ stage = [p \in Procs |-> "down"]
        /\ at = [p \in Procs |-> "enter"]
        /\ found = [p \in Procs |-> 0]
        /\ mig = [p \in Procs |-> 0]
        /\ line = [p \in Procs |-> 1]
        /\ faults = 0

Enter(p, s) == /\ stage' = [stage EXCEPT ![p] = s]
               /\ at' = [at EXCEPT ![p] = "enter"]
               /\ UNCHANGED <<mig, line>>

Release(p) == lock' = IF lock = p THEN NoProc ELSE lock

\* The instance ends: its session releases the lock.
Exit(p) == /\ Enter(p, "down")
           /\ Release(p)
           /\ UNCHANGED found

-----------------------------------------------------------------------------
(* The instance *)

\* systemd or an operator starts the instance, whose first Up begins.
Boot(p) == /\ stage[p] = "down"
           /\ Overlap \/ \A q \in Procs : stage[q] \notin Starting
           /\ Enter(p, "up1")
           /\ found' = [found EXCEPT ![p] = 0]
           /\ UNCHANGED <<db, lock, strategy, faults>>

\* An instance that serves is stopped.
Stop(p) == /\ stage[p] = "serving"
           /\ Exit(p)
           /\ UNCHANGED <<db, strategy, faults>>

\* A crash, or a database error that RunMigrations returns: the instance ends
\* wherever it is.  (A statement that failed after it took effect is a Run and
\* then a Fault.)
Fault(p) == /\ stage[p] \in FaultStages
            /\ faults < MaxFaults
            /\ faults' = faults + 1
            /\ Exit(p)
            /\ UNCHANGED <<db, strategy>>

-----------------------------------------------------------------------------
(* A migrate operation: lock, look, act, unlock *)

Lock(p) == /\ stage[p] \in Starting
           /\ at[p] = "enter"
           /\ lock = NoProc
           /\ lock' = p
           /\ at' = [at EXCEPT ![p] = "locked"]
           /\ UNCHANGED <<db, strategy, stage, found, mig, line, faults>>

\* Another instance keeps the lock for too long: the operation fails and, with
\* it, RunMigrations.
LockTimeout(p) == /\ stage[p] \in Starting
                  /\ at[p] = "enter"
                  /\ lock \notin {NoProc, p}
                  /\ faults < MaxFaults
                  /\ faults' = faults + 1
                  /\ Exit(p)
                  /\ UNCHANGED <<db, strategy>>

Locked(p, stages) == stage[p] \in stages /\ at[p] = "locked"

\* Faults: the error is swallowed, or Force is forgotten before the rollback.
FindDirtyServes(p) ==
  /\ Locked(p, Ups)
  /\ dirty
  /\ Enter(p, "serving")
  /\ lock' = NoProc
  /\ UNCHANGED <<db, strategy, found, faults>>
FindDirtyUnforced(p) ==
  /\ Locked(p, Ups)
  /\ dirty
  /\ Enter(p, "steps")
  /\ lock' = NoProc
  /\ UNCHANGED <<db, strategy, found, faults>>

\* Up refuses a dirty version: the first Up goes on to Force it, the second
\* one makes RunMigrations fail.
FindDirty(p) == /\ Locked(p, Ups)
                /\ dirty
                /\ IF stage[p] = "up1"
                     THEN /\ Enter(p, "force")
                          /\ found' = [found EXCEPT ![p] = ver]
                          /\ lock' = NoProc
                     ELSE Exit(p)
                /\ UNCHANGED <<db, strategy, faults>>

\* A fault: ErrNoChange is taken for a failure to recover from.
UpToDateForced(p) == /\ Locked(p, Ups)
                     /\ ~dirty
                     /\ ver = Last
                     /\ Enter(p, IF stage[p] = "up1" THEN "force" ELSE "serving")
                     /\ found' = [found EXCEPT ![p] = ver]
                     /\ lock' = NoProc
                     /\ UNCHANGED <<db, strategy, faults>>

\* ErrNoChange, or the last pending migration is done: the instance serves.
UpToDate(p) == /\ Locked(p, Ups)
               /\ ~dirty
               /\ ver = Last
               /\ Enter(p, "serving")
               /\ lock' = NoProc
               /\ UNCHANGED <<db, strategy, found, faults>>

\* SetVersion(to, dirty) and the script of version v begins.
StartScript(p, to, v) == /\ ver' = to
                         /\ dirty' = TRUE
                         /\ mig' = [mig EXCEPT ![p] = v]
                         /\ line' = [line EXCEPT ![p] = 1]
                         /\ at' = [at EXCEPT ![p] = "script"]
                         /\ UNCHANGED <<tables, lock, strategy, stage, found, faults>>

StartUp(p) == /\ Locked(p, Ups)
              /\ ~dirty
              /\ ver < Last
              /\ StartScript(p, ver + 1, ver + 1)

\* A fault: a step back from the empty schema.
StartDownBelow(p) == /\ Locked(p, {"steps"})
                     /\ ~dirty
                     /\ ver' = ver - 1
                     /\ dirty' = TRUE
                     /\ at' = [at EXCEPT ![p] = "script"]
                     /\ UNCHANGED <<tables, lock, strategy, stage, found, mig, line, faults>>

\* Steps(-1) goes one version back.
StartDown(p) == /\ Locked(p, {"steps"})
                /\ ~dirty
                /\ ver > 0
                /\ StartScript(p, ver - 1, ver)

\* Steps(-1) fails on a dirty version or with nothing to go back to.
StepsFail(p) == /\ Locked(p, {"steps"})
                /\ dirty \/ ver = 0
                /\ Exit(p)
                /\ UNCHANGED <<db, strategy, faults>>

Dir(p) == IF stage[p] = "steps" THEN "down" ELSE "up"

Run(p) == /\ at[p] = "script"
          /\ line[p] <= ScriptEnd(Dir(p))
          /\ tables' = [tables EXCEPT ![mig[p]] = Ran(Script(Dir(p))[line[p]], @)]
          /\ line' = [line EXCEPT ![p] = @ + 1]
          /\ UNCHANGED <<ver, dirty, lock, strategy, stage, at, found, mig, faults>>

\* SetVersion(version, clean).  Up takes the next migration; Steps(-1) is done
\* and the second Up begins.
Finish(p) == /\ at[p] = "script"
             /\ line[p] > ScriptEnd(Dir(p))
             /\ dirty' = FALSE
             /\ IF stage[p] = "steps"
                  THEN Enter(p, "up2") /\ lock' = NoProc
                  ELSE /\ at' = [at EXCEPT ![p] = "locked"]
                       /\ UNCHANGED <<stage, mig, line, lock>>
             /\ UNCHANGED <<ver, tables, strategy, found, faults>>

\* Force records the version the first Up found dirty as clean, whatever the
\* table says by now; "retry", which is also the default, then rolls back.
Retries == strategy \in {"", "retry"}

\* A fault: the rollback is forgotten.
ForceOnly(p) == /\ Locked(p, {"force"})
                /\ ver' = found[p]
                /\ dirty' = FALSE
                /\ Enter(p, "up2")
                /\ lock' = NoProc
                /\ UNCHANGED <<tables, strategy, found, faults>>

ForceVersion(p) == /\ Locked(p, {"force"})
                   /\ ver' = found[p]
                   /\ dirty' = FALSE
                   /\ Enter(p, IF Retries THEN "steps" ELSE "up2")
                   /\ lock' = NoProc
                   /\ UNCHANGED <<tables, strategy, found, faults>>

-----------------------------------------------------------------------------
Migrate(p) == \/ Lock(p) \/ LockTimeout(p) \/ FindDirty(p) \/ UpToDate(p)
              \/ StartUp(p) \/ StartDown(p) \/ StepsFail(p) \/ Run(p)
              \/ Finish(p) \/ ForceVersion(p)

Next == \E p \in Procs : Boot(p) \/ Stop(p) \/ Fault(p) \/ Migrate(p)

\* A started instance goes on, MySQL hands the lock to whoever keeps waiting for
\* it, and an instance that ended is started again (the units say
\* Restart=on-failure), although it may have to wait for another's start.
Fairness == \A p \in Procs : /\ WF_vars(Migrate(p))
                             /\ SF_vars(Lock(p))
                             /\ SF_vars(Boot(p))

Spec == Init /\ [][Next]_vars /\ Fairness

-----------------------------------------------------------------------------
(* Properties *)

\* Every variable keeps to its type: in particular no step goes below the empty
\* schema or above the newest version.
TypeOK == /\ ver \in 0..Last
          /\ dirty \in BOOLEAN
          /\ tables \in [Versions -> [Tables -> {"none", "empty", "rows", "dup"}]]
          /\ lock \in Procs \cup {NoProc}
          /\ strategy \in Strategies
          /\ stage \in [Procs -> Starting \cup {"down", "serving"}]
          /\ at \in [Procs -> {"enter", "locked", "script"}]
          /\ found \in [Procs -> 0..Last]
          /\ mig \in [Procs -> 0..Last]
          /\ line \in [Procs -> 1..5]
          /\ faults \in 0..MaxFaults

Serving == \E p \in Procs : stage[p] = "serving"

\* An instance serves only on the schema of the newest version: every pending
\* migration has been applied, whatever happened to earlier attempts.
ServingAtHead == Serving => ver = Last /\ ~dirty

\* With the retry strategy an instance serves only on a consistent schema: the
\* script of every version ran to the end, exactly once, however often earlier
\* attempts stopped in the middle.
ServingConsistent == Serving /\ Retries => tables = SchemaOf(Last)

\* While an instance serves, no other one drops a table.
NoDropWhileServing == [][\A p \in Procs :
                           Run(p) /\ Dir(p) = "down" => ~Serving]_vars

\* An instance that starts, or fails to, ends up serving.
StartedServes == \A p \in Procs : stage[p] \in Starting ~> stage[p] = "serving"
=============================================================================
