--------------------------- MODULE Migrations_proofs ---------------------------
(* Proofs about Migrations, for any instances, number of versions, strategies  *)
(* and faults.  MigrationsInv!IInv is inductive: what the database lock         *)
(* protects always holds; that nobody serves a schema that is being repaired,   *)
(* when instances start one at a time; that only the tables of one version are  *)
(* half done, when in addition no rollback is interrupted.                      *)
EXTENDS MigrationsInv, TLAPS

States == {"none", "empty", "rows", "dup"}

-----------------------------------------------------------------------------
(* Scripts *)

\* The statements of both scripts.
LEMMA Statements ==
  /\ UpScript[1] = <<"create", "items">> /\ UpScript[2] = <<"create", "details">>
  /\ UpScript[3] = <<"insert", "items">> /\ UpScript[4] = <<"insert", "details">>
  /\ DownScript[1] = <<"drop", "details">> /\ DownScript[2] = <<"drop", "items">>
BY DEF UpScript, DownScript

\* A statement leaves the tables of a version typed.
LEMMA RanType ==
  ASSUME NEW s, s[1] \in {"create", "insert", "drop"}, NEW tbls \in [Tables -> States]
  PROVE  Ran(s, tbls) \in [Tables -> States]
BY DEF Ran, States

\* So does the next one of a script that has one.
LEMMA RunType ==
  ASSUME TypeOK, NEW p \in Procs, line[p] <= ScriptEnd(Dir(p)),
         NEW tbls \in [Tables -> States]
  PROVE  Ran(Script(Dir(p))[line[p]], tbls) \in [Tables -> States]
<1>1. line[p] \in 1..5  BY DEF TypeOK
<1>2. CASE Dir(p) = "up"
  <2>1. line[p] \in {1, 2, 3, 4}  BY <1>1, <1>2 DEF ScriptEnd
  <2> QED  BY <1>2, <2>1, Statements, RanType DEF Script
<1>3. CASE Dir(p) = "down"
  <2>1. line[p] \in {1, 2}  BY <1>1, <1>3 DEF ScriptEnd
  <2> QED  BY <1>3, <2>1, Statements, RanType DEF Script
<1> QED  BY <1>2, <1>3 DEF Dir

-----------------------------------------------------------------------------
(* Types *)

\* A schema starts at some version, with the tables of that version.
LEMMA InitType == Init => TypeOK
<1> SUFFICES ASSUME Init  PROVE TypeOK
  OBVIOUS
<1>1. SchemaOf(ver) \in [Versions -> [Tables -> States]]
  BY DEF SchemaOf, Full, None, States
<1>2. found \in [Procs -> 0..Last] /\ mig \in [Procs -> 0..Last] /\ faults \in 0..MaxFaults
  BY ConstantsAssumption DEF Init
<1>3. /\ stage \in [Procs -> Starting \cup {"down", "serving"}]
      /\ at \in [Procs -> {"enter", "locked", "script"}] /\ line \in [Procs -> 1..5]
  BY DEF Init
<1>4. /\ ver \in 0..Last /\ dirty \in BOOLEAN /\ lock \in Procs \cup {NoProc}
      /\ strategy \in Strategies
  BY DEF Init
<1>5. tables \in [Versions -> [Tables -> States]]  BY <1>1 DEF Init
<1> QED  BY <1>2, <1>3, <1>4, <1>5 DEF TypeOK, States

\* No step leaves the range of the versions, and every variable keeps its type.
LEMMA NextType == TypeOK /\ [Next]_vars => TypeOK'
<1> SUFFICES ASSUME TypeOK, [Next]_vars  PROVE TypeOK'
  OBVIOUS
<1>1. CASE UNCHANGED vars
  BY <1>1 DEF TypeOK, vars
<1>2. ASSUME NEW p \in Procs, Boot(p) \/ Stop(p) \/ Fault(p) \/ LockTimeout(p)
      PROVE TypeOK'
  BY <1>2, ConstantsAssumption
  DEF TypeOK, Boot, Stop, Fault, LockTimeout, Exit, Enter, Release, Starting, db
<1>3. ASSUME NEW p \in Procs, Lock(p) \/ FindDirty(p) \/ UpToDate(p) \/ StepsFail(p)
      PROVE TypeOK'
  BY <1>3 DEF TypeOK, Lock, FindDirty, UpToDate, StepsFail, Locked, Exit, Enter, Release,
              Starting, Ups, db
<1>4. ASSUME NEW p \in Procs, NEW to \in 0..Last, NEW v \in 0..Last, StartScript(p, to, v)
      PROVE TypeOK'
  BY <1>4 DEF TypeOK, StartScript
<1>5. ASSUME NEW p \in Procs, StartUp(p) \/ StartDown(p)  PROVE TypeOK'
  <2>1. ver < Last => ver + 1 \in 0..Last  BY ConstantsAssumption DEF TypeOK
  <2>2. ver > 0 => ver - 1 \in 0..Last  BY ConstantsAssumption DEF TypeOK
  <2>3. ver \in 0..Last  BY DEF TypeOK
  <2> QED  BY <1>4, <1>5, <2>1, <2>2, <2>3 DEF StartUp, StartDown
<1>6. ASSUME NEW p \in Procs, Run(p)  PROVE TypeOK'
  <2>1. tables' \in [Versions -> [Tables -> States]]
    BY <1>6, RunType DEF TypeOK, Run, States
  <2>2. line' \in [Procs -> 1..5]
    BY <1>6 DEF TypeOK, Run, ScriptEnd
  <2> QED  BY <1>6, <2>1, <2>2 DEF TypeOK, Run, States
<1>7. ASSUME NEW p \in Procs, Finish(p)  PROVE TypeOK'
  BY <1>7 DEF TypeOK, Finish, Enter, Starting
<1>8. ASSUME NEW p \in Procs, ForceVersion(p)  PROVE TypeOK'
  BY <1>8 DEF TypeOK, ForceVersion, Enter, Starting
<1> QED  BY <1>1, <1>2, <1>3, <1>5, <1>6, <1>7, <1>8 DEF Next, Migrate

-----------------------------------------------------------------------------
(* What the lock protects *)

\* An instance that ends releases the lock and is in no operation any more.
LEMMA ExitHeld ==
  ASSUME TypeOK, Held, Recorded, NEW p \in Procs, Exit(p), UNCHANGED db
  PROVE  Held' /\ Recorded'
<1>1. /\ \A q \in Procs \ {p} : stage'[q] = stage[q] /\ at'[q] = at[q]
      /\ at'[p] = "enter" /\ mig' = mig
      /\ lock' = IF lock = p THEN NoProc ELSE lock
  BY DEF Exit, Enter, Release, TypeOK
<1>2. Held'  BY <1>1 DEF Held, TypeOK
<1>3. Recorded'  BY <1>1 DEF Recorded, db
<1> QED  BY <1>2, <1>3

\* Nobody but the holder is inside an operation, so the holder can release the
\* lock and go on to another stage, and may change the record.
LEMMA LeaveHeld ==
  ASSUME TypeOK, Held, NEW p \in Procs, lock = p, NEW s, Enter(p, s), lock' = NoProc
  PROVE  Held' /\ Recorded'
<1>1. \A q \in Procs : at'[q] = "enter"
  BY DEF Enter, Held, TypeOK
<1> QED  BY <1>1 DEF Held, Recorded

\* The holder puts the version it goes to on record before it runs the script.
LEMMA ScriptHeld ==
  ASSUME TypeOK, Held, NEW p \in Procs, at[p] = "locked", stage[p] # "force",
         NEW to, NEW v \in Versions, StartScript(p, to, v),
         v = IF stage[p] = "steps" THEN to + 1 ELSE to
  PROVE  Held' /\ Recorded'
<1>1. /\ lock = p /\ lock' = p /\ stage' = stage
      /\ at'[p] = "script" /\ mig'[p] = v /\ ver' = to /\ dirty'
      /\ \A q \in Procs \ {p} : at'[q] = "enter"
  BY DEF StartScript, Held, TypeOK
<1>2. Held'  BY <1>1 DEF Held
<1>3. Recorded'  BY <1>1 DEF Recorded
<1> QED  BY <1>2, <1>3

\* Only the holder of MySQL's lock is inside an operation, and what it runs is on
\* record as dirty.
LEMMA NextHeld == TypeOK /\ Held /\ Recorded /\ [Next]_vars => Held' /\ Recorded'
<1> SUFFICES ASSUME TypeOK, Held, Recorded, [Next]_vars  PROVE Held' /\ Recorded'
  OBVIOUS
<1>1. CASE UNCHANGED vars
  BY <1>1 DEF vars, Held, Recorded
<1>2. ASSUME NEW p \in Procs, Boot(p)  PROVE Held' /\ Recorded'
  <2>1. at'[p] = "enter" /\ \A q \in Procs \ {p} : stage'[q] = stage[q] /\ at'[q] = at[q]
    BY <1>2 DEF Boot, Enter, TypeOK
  <2>2. at[p] = "enter"  BY <1>2 DEF Boot, Held, Starting
  <2>3. UNCHANGED <<lock, ver, dirty, mig>>  BY <1>2 DEF Boot, Enter, db
  <2> QED  BY <2>1, <2>2, <2>3 DEF Held, Recorded, TypeOK
<1>3. ASSUME NEW p \in Procs, Stop(p) \/ Fault(p) \/ LockTimeout(p) \/ StepsFail(p)
      PROVE Held' /\ Recorded'
  BY <1>3, ExitHeld DEF Stop, Fault, LockTimeout, StepsFail
<1>4. ASSUME NEW p \in Procs, Lock(p)  PROVE Held' /\ Recorded'
  <2>1. /\ lock' = p /\ p # NoProc /\ stage' = stage /\ at'[p] = "locked"
        /\ \A q \in Procs \ {p} : at'[q] = "enter"
    BY <1>4, ConstantsAssumption DEF Lock, Held, TypeOK
  <2> QED  BY <1>4, <2>1 DEF Lock, Held, Recorded
<1>5. ASSUME NEW p \in Procs, FindDirty(p)  PROVE Held' /\ Recorded'
  <2>1. lock = p  BY <1>5 DEF FindDirty, Locked, Held
  <2> QED  BY <1>5, <2>1, ExitHeld, LeaveHeld DEF FindDirty
<1>6. ASSUME NEW p \in Procs, UpToDate(p) \/ ForceVersion(p)  PROVE Held' /\ Recorded'
  <2>1. lock = p  BY <1>6 DEF UpToDate, ForceVersion, Locked, Held
  <2> QED  BY <1>6, <2>1, LeaveHeld DEF UpToDate, ForceVersion
<1>7. ASSUME NEW p \in Procs, StartUp(p)  PROVE Held' /\ Recorded'
  <2>1. ver + 1 \in Versions
    BY <1>7, ConstantsAssumption DEF StartUp, TypeOK, Versions
  <2>2. stage[p] # "steps" /\ stage[p] # "force" /\ at[p] = "locked"
    BY <1>7 DEF StartUp, Locked, Ups
  <2> QED  BY <1>7, <2>1, <2>2, ScriptHeld DEF StartUp
<1>8. ASSUME NEW p \in Procs, StartDown(p)  PROVE Held' /\ Recorded'
  <2>1. ver \in Versions /\ ver = (ver - 1) + 1
    BY <1>8, ConstantsAssumption DEF StartDown, TypeOK, Versions
  <2>2. stage[p] = "steps" /\ at[p] = "locked"
    BY <1>8 DEF StartDown, Locked
  <2> QED  BY <1>8, <2>1, <2>2, ScriptHeld DEF StartDown
<1>9. ASSUME NEW p \in Procs, Run(p)  PROVE Held' /\ Recorded'
  BY <1>9 DEF Run, Held, Recorded
<1>10. ASSUME NEW p \in Procs, Finish(p)  PROVE Held' /\ Recorded'
  <2>1. lock = p  BY <1>10 DEF Finish, Held
  <2>2. CASE stage[p] = "steps"
    BY <1>10, <2>1, <2>2, LeaveHeld DEF Finish
  <2>3. CASE stage[p] # "steps"
    <3>1. /\ stage' = stage /\ lock' = p /\ at'[p] = "locked"
          /\ \A q \in Procs \ {p} : at'[q] = "enter"
      BY <1>10, <2>1, <2>3 DEF Finish, Held, TypeOK
    <3> QED  BY <1>10, <2>1, <3>1 DEF Finish, Held, Recorded
  <2> QED  BY <2>2, <2>3
<1> QED
  BY <1>1, <1>2, <1>3, <1>4, <1>5, <1>6, <1>7, <1>8, <1>9, <1>10 DEF Next, Migrate

-----------------------------------------------------------------------------
(* Instances that start one at a time *)

\* An instance that ends, or goes on to the next stage without touching the
\* record, leaves the others where they were.
LEMMA EnterOrderly ==
  ASSUME TypeOK, Orderly, NEW p \in Procs, NEW s, Enter(p, s), UNCHANGED db,
         s \in Starting => stage[p] \in Starting,
         s \notin {"force", "steps", "serving"},
         \A q \in Procs \ {p} : found'[q] = found[q]
  PROVE  Orderly'
<1>1. stage'[p] = s /\ \A q \in Procs \ {p} : stage'[q] = stage[q]
  BY DEF Enter, TypeOK
<1>2. OneStarts'  BY <1>1 DEF Orderly, OneStarts
<1>3. Serving' => Serving  BY <1>1 DEF Serving
<1>4. Recovering'  BY <1>1, <1>3 DEF Orderly, Recovering, db
<1>5. ServingAtHead'  BY <1>3 DEF Orderly, ServingAtHead, db
<1> QED  BY <1>2, <1>4, <1>5 DEF Orderly

\* The only instance that starts may change the record while nobody serves.
LEMMA RepairOrderly ==
  ASSUME TypeOK, Orderly, NEW p \in Procs, stage[p] \in Starting, ~Serving,
         stage'[p] \in Starting, \A q \in Procs \ {p} : stage'[q] = stage[q],
         stage'[p] = "force" => dirty' /\ ver' = found'[p]
  PROVE  Orderly'
<1>1. \A q \in Procs \ {p} : stage'[q] \notin Starting
  BY DEF Orderly, OneStarts
<1>2. ~Serving'  BY DEF Serving, Starting
<1> QED
  BY <1>1, <1>2 DEF Orderly, OneStarts, Recovering, ServingAtHead, Starting

\* With one start at a time nobody serves while another recovers, and whoever
\* serves came there through an Up that found the newest version clean.
LEMMA NextOrderly ==
  TypeOK /\ Held /\ Recorded /\ ~Overlap /\ Orderly /\ [Next]_vars => Orderly'
<1> SUFFICES ASSUME TypeOK, Held, Recorded, ~Overlap, Orderly, [Next]_vars
             PROVE  Orderly'
  OBVIOUS
<1>0. ASSUME dirty  PROVE ~Serving
  BY <1>0 DEF Orderly, ServingAtHead
<1>1. ASSUME UNCHANGED <<stage, ver, dirty, found>>  PROVE Orderly'
  BY <1>1 DEF Orderly, OneStarts, Recovering, ServingAtHead, Serving
<1>2. ASSUME NEW p \in Procs, Boot(p)  PROVE Orderly'
  <2>1. \A q \in Procs : stage[q] \notin Starting
    BY <1>2 DEF Boot
  <2>2. stage'[p] = "up1" /\ \A q \in Procs \ {p} : stage'[q] = stage[q]
    BY <1>2 DEF Boot, Enter, TypeOK
  <2>3. Serving' => Serving  BY <2>2 DEF Serving
  <2>4. ServingAtHead'  BY <1>2, <2>3 DEF Boot, db, Orderly, ServingAtHead
  <2> QED  BY <2>1, <2>2, <2>4 DEF Orderly, OneStarts, Recovering, Starting
<1>3. ASSUME NEW p \in Procs, Stop(p) \/ Fault(p) \/ LockTimeout(p) \/ StepsFail(p)
      PROVE Orderly'
  BY <1>3, EnterOrderly
  DEF Stop, Fault, LockTimeout, StepsFail, Exit, Starting
<1>4. ASSUME NEW p \in Procs, FindDirty(p)  PROVE Orderly'
  <2>1. stage[p] \in Starting /\ ~Serving
    BY <1>0, <1>4 DEF FindDirty, Locked, Ups, Starting
  <2>2. CASE stage[p] = "up1"
    <3>1. /\ stage'[p] = "force" /\ dirty' /\ ver' = found'[p]
          /\ \A q \in Procs \ {p} : stage'[q] = stage[q]
      BY <1>4, <2>2 DEF FindDirty, Enter, db, TypeOK
    <3> QED  BY <2>1, <3>1, RepairOrderly DEF Starting
  <2>3. CASE stage[p] # "up1"
    BY <1>4, <2>3, EnterOrderly DEF FindDirty, Exit, Starting
  <2> QED  BY <2>2, <2>3
<1>5. ASSUME NEW p \in Procs, UpToDate(p)  PROVE Orderly'
  <2>1. /\ stage'[p] = "serving" /\ \A q \in Procs \ {p} : stage'[q] = stage[q]
        /\ ver' = Last /\ ~dirty' /\ stage[p] \in Starting
    BY <1>5 DEF UpToDate, Locked, Ups, Starting, Enter, db, TypeOK
  <2>2. \A q \in Procs : stage'[q] \notin Starting
    BY <2>1 DEF Orderly, OneStarts, Starting
  <2> QED  BY <2>1, <2>2 DEF Orderly, OneStarts, Recovering, ServingAtHead, Starting
<1>6. ASSUME NEW p \in Procs, StartUp(p) \/ StartDown(p)  PROVE Orderly'
  <2>1. stage[p] \in Starting \ {"force"} /\ stage' = stage
    BY <1>6 DEF StartUp, StartDown, StartScript, Locked, Ups, Starting
  <2>2. ~Serving
    <3>1. CASE StartUp(p)
      BY <3>1, ConstantsAssumption DEF StartUp, Orderly, ServingAtHead, TypeOK
    <3>2. CASE StartDown(p)
      BY <3>2 DEF StartDown, Locked, Orderly, Recovering
    <3> QED  BY <1>6, <3>1, <3>2
  <2> QED  BY <2>1, <2>2, RepairOrderly
<1>7. ASSUME NEW p \in Procs, Finish(p)  PROVE Orderly'
  <2>1. stage[p] \in Starting \ {"force"} /\ ~Serving
    BY <1>0, <1>7 DEF Finish, Held, Recorded
  <2>2. /\ stage'[p] \in Starting \ {"force"}
        /\ \A q \in Procs \ {p} : stage'[q] = stage[q]
    BY <1>7, <2>1 DEF Finish, Enter, TypeOK, Starting
  <2> QED  BY <2>1, <2>2, RepairOrderly
<1>8. ASSUME NEW p \in Procs, ForceVersion(p)  PROVE Orderly'
  <2>1. stage[p] \in Starting /\ ~Serving
    BY <1>8 DEF ForceVersion, Locked, Orderly, Recovering, Starting
  <2>2. /\ stage'[p] \in {"steps", "up2"}
        /\ \A q \in Procs \ {p} : stage'[q] = stage[q]
    BY <1>8 DEF ForceVersion, Enter, TypeOK
  <2> QED  BY <2>1, <2>2, RepairOrderly DEF Starting
<1>9. ASSUME NEW p \in Procs, Lock(p) \/ Run(p)  PROVE Orderly'
  BY <1>1, <1>9 DEF Lock, Run, db
<1> QED
  BY <1>1, <1>2, <1>3, <1>4, <1>5, <1>6, <1>7, <1>8, <1>9 DEF Next, Migrate, vars

-----------------------------------------------------------------------------
(* ... whose rollbacks are not interrupted *)

Schematic == TypeOK /\ Held /\ Recorded /\ Orderly /\ Schema

\* A statement of the up script takes the tables a step further.
LEMMA UpStatement ==
  ASSUME NEW n \in 1..4
  PROVE  Ran(UpScript[n], UpTo(n)) = UpTo(n + 1)
<1>1. CASE n = 1  BY <1>1, Statements DEF Ran, UpTo, Tables
<1>2. CASE n = 2
  <2>1. /\ UpTo(n) \in [Tables -> States] /\ UpTo(n + 1) \in [Tables -> States]
        /\ UpTo(n)["details"] = "none" /\ UpTo(n + 1)["details"] = "empty"
        /\ UpTo(n)["items"] = UpTo(n + 1)["items"]
    BY <1>2 DEF UpTo, Tables, States
  <2>2. Ran(UpScript[n], UpTo(n)) = [UpTo(n) EXCEPT !["details"] = "empty"]
    BY <1>2, <2>1, Statements DEF Ran, Tables
  <2> QED  BY <2>1, <2>2 DEF Tables
<1>3. CASE n = 3  BY <1>3, Statements DEF Ran, UpTo, Tables
<1>4. CASE n = 4
  <2>1. /\ UpTo(n) \in [Tables -> States] /\ UpTo(n + 1) \in [Tables -> States]
        /\ UpTo(n)["details"] = "empty" /\ UpTo(n + 1)["details"] = "rows"
        /\ UpTo(n)["items"] = UpTo(n + 1)["items"]
    BY <1>4 DEF UpTo, Tables, States
  <2>2. Ran(UpScript[n], UpTo(n)) = [UpTo(n) EXCEPT !["details"] = "rows"]
    BY <1>4, <2>1, Statements DEF Ran, Tables
  <2> QED  BY <2>1, <2>2 DEF Tables
<1> QED  BY <1>1, <1>2, <1>3, <1>4

\* The up script makes all tables from none.
LEMMA UpEnds == UpTo(1) = None /\ UpTo(5) = Full
BY DEF UpTo, None, Full

\* An instance in an operation is the only one that starts, and runs the only
\* script.
LEMMA OnlyOne ==
  ASSUME Held, OneStarts, NEW p \in Procs, stage[p] \in Starting
  PROVE  \A q \in Procs \ {p} : stage[q] \notin Starting /\ at[q] = "enter"
BY DEF Held, OneStarts

\* A step that begins no rollback, runs no statement and does not touch the record.
LEMMA StillSchema ==
  ASSUME Schema, UNCHANGED db,
         \A q \in Procs : stage'[q] = "steps" <=> stage[q] = "steps",
         \A q \in Procs : stage[q] = "steps" => (at'[q] = "script" <=> at[q] = "script"),
         \A q \in Procs : at'[q] = "script" => at[q] = "script" /\ line'[q] = line[q]
  PROVE  Schema'
<1>1. Undoing' = Undoing  BY DEF Undoing
<1>2. /\ \A v : Settled(v)' <=> Settled(v)
      /\ SchemaOf(ver)' = SchemaOf(ver)
  BY DEF Settled, db
<1>3. Settled(ver)' = Settled(ver) /\ Settled(ver + 1)' = Settled(ver + 1)
  BY DEF Settled, db
<1> QED  BY <1>1, <1>2, <1>3 DEF Schema, db

\* An up script starts on a version whose tables are missing.
LEMMA StartUpSchema ==
  ASSUME Schematic, NEW p \in Procs, StartUp(p)
  PROVE  Schema'
<1>1. /\ stage[p] \in Ups /\ ~dirty /\ ver < Last /\ StartScript(p, ver + 1, ver + 1)
      /\ ver \in 0..Last
  BY DEF StartUp, Locked, Schematic, TypeOK
<1>2. \A q \in Procs \ {p} : stage[q] \notin Starting /\ at[q] = "enter"
  BY <1>1, OnlyOne DEF Schematic, Orderly, Ups, Starting
<1>3. ~Undoing /\ tables = SchemaOf(ver)
  BY <1>1, <1>2 DEF Undoing, Ups, Starting, Schematic, Schema
<1>4. /\ stage' = stage /\ dirty' /\ ver' = ver + 1 /\ tables' = tables
      /\ line'[p] = 1 /\ \A q \in Procs \ {p} : at'[q] = "enter"
  BY <1>1, <1>2 DEF StartScript, Schematic, TypeOK
<1>5. ver + 1 \in Versions /\ ver + 1 > 0  BY <1>1, ConstantsAssumption DEF Versions
<1>6. ~Undoing'  BY <1>3, <1>4 DEF Undoing
<1>7. Settled(ver)'  BY <1>1, <1>3, <1>4 DEF Settled, SchemaOf, Versions
<1>8. tables'[ver'] = UpTo(1)
  BY <1>1, <1>3, <1>4, <1>5, UpEnds DEF SchemaOf
<1>9. stage'[p] # "steps"  BY <1>4, <1>6 DEF Undoing
<1> QED  BY <1>4, <1>5, <1>6, <1>7, <1>8, <1>9 DEF Schema, Undoing

\* A rollback starts on tables that may be half done.
LEMMA StartDownSchema ==
  ASSUME Schematic, NEW p \in Procs, StartDown(p)
  PROVE  Schema'
<1>1. /\ stage[p] = "steps" /\ at[p] = "locked" /\ StartScript(p, ver - 1, ver)
      /\ ver \in 0..Last
  BY DEF StartDown, Locked, Schematic, TypeOK
<1>2. \A q \in Procs \ {p} : stage[q] \notin Starting /\ at[q] = "enter"
  BY <1>1, OnlyOne DEF Schematic, Orderly, Starting
<1>3. ver > 0 /\ Settled(ver)  BY <1>1 DEF Schematic, Schema
<1>4. /\ stage' = stage /\ dirty' /\ ver' = ver - 1 /\ tables' = tables
      /\ at'[p] = "script" /\ line'[p] = 1
      /\ \A q \in Procs \ {p} : at'[q] = "enter"
  BY <1>1, <1>2 DEF StartScript, Schematic, TypeOK
<1>5. Undoing'  BY <1>1, <1>4 DEF Undoing
<1>6. Settled(ver + 1)'
  BY <1>1, <1>3, <1>4 DEF Settled, Versions
<1> QED  BY <1>1, <1>2, <1>4, <1>5, <1>6 DEF Schema, Starting

\* A statement of the script goes to the next state of its tables, and never fails
\* halfway but in a crash.
LEMMA RunSchema ==
  ASSUME Schematic, NEW p \in Procs, Run(p)
  PROVE  Schema'
<1>1. /\ at[p] = "script" /\ stage[p] \in Starting /\ stage[p] # "force"
      /\ dirty /\ mig[p] \in Versions
      /\ mig[p] = IF stage[p] = "steps" THEN ver + 1 ELSE ver
  BY DEF Run, Schematic, Held, Recorded
<1>2. \A q \in Procs \ {p} : stage[q] \notin Starting /\ at[q] = "enter"
  BY <1>1, OnlyOne DEF Schematic, Orderly
<1>3. /\ UNCHANGED <<ver, dirty, stage, at>>
      /\ tables \in [Versions -> [Tables -> States]] /\ line[p] \in 1..5 /\ ver \in 0..Last
      /\ line'[p] = line[p] + 1
      /\ \A u \in Versions \ {mig[p]} : tables'[u] = tables[u]
      /\ tables'[mig[p]] = Ran(Script(Dir(p))[line[p]], tables[mig[p]])
      /\ line[p] <= ScriptEnd(Dir(p))
  BY <1>1 DEF Run, Schematic, TypeOK, States
<1>4. Undoing' = Undoing  BY <1>3 DEF Undoing
<1>5. CASE stage[p] = "steps"
  <2>1. /\ Settled(ver + 1) /\ mig[p] = ver + 1
        /\ line[p] >= 2 => tables[ver + 1]["details"] = "none"
    BY <1>1, <1>5 DEF Schematic, Schema
  <2>2. Settled(ver + 1)'  BY <1>3, <2>1 DEF Settled
  <2>3. line[p] \in {1, 2} /\ Script(Dir(p)) = DownScript
    BY <1>3, <1>5 DEF Dir, ScriptEnd, Script
  <2>4. tables[ver + 1] \in [Tables -> States]  BY <1>1, <1>3, <2>1
  <2>5. CASE line[p] = 1
    <3>1. tables'[ver + 1] = [tables[ver + 1] EXCEPT !["details"] = "none"]
      BY <1>3, <2>1, <2>3, <2>5, Statements DEF Ran
    <3>2. tables'[ver + 1]["details"] = "none"  BY <2>4, <3>1 DEF Tables
    <3> QED
      BY <1>1, <1>2, <1>3, <1>4, <1>5, <2>2, <2>5, <3>2 DEF Schema, Undoing, Starting
  <2>6. CASE line[p] = 2
    <3>1. tables'[ver + 1] = [tables[ver + 1] EXCEPT !["items"] = "none"]
      BY <1>3, <2>1, <2>3, <2>6, Statements DEF Ran
    <3>2. tables'[ver + 1]["items"] = "none" /\ tables'[ver + 1]["details"] = "none"
      BY <2>1, <2>4, <2>6, <3>1 DEF Tables
    <3> QED
      BY <1>1, <1>2, <1>3, <1>4, <1>5, <2>2, <2>6, <3>2 DEF Schema, Undoing, Starting
  <2> QED  BY <2>3, <2>5, <2>6
<1>6. CASE stage[p] # "steps"
  <2>1. ~Undoing  BY <1>2, <1>6 DEF Undoing, Starting
  <2>2. ver > 0 /\ Settled(ver) /\ tables[ver] = UpTo(line[p]) /\ mig[p] = ver
    BY <1>1, <1>6, <2>1 DEF Schematic, Schema
  <2>3. Settled(ver)'  BY <1>3, <2>2 DEF Settled
  <2>4. line[p] \in 1..4 /\ Script(Dir(p)) = UpScript
    BY <1>3, <1>6 DEF Dir, ScriptEnd, Script
  <2>5. tables'[ver] = UpTo(line'[p])  BY <1>3, <2>2, <2>4, UpStatement
  <2> QED
    BY <1>1, <1>2, <1>3, <1>4, <1>6, <2>1, <2>2, <2>3, <2>5 DEF Schema, Undoing
<1> QED  BY <1>5, <1>6

\* A script that has run to its end leaves exactly its version's tables, or none.
LEMMA FinishSchema ==
  ASSUME Schematic, NEW p \in Procs, Finish(p)
  PROVE  Schema'
<1>1. /\ at[p] = "script" /\ stage[p] \in Starting /\ stage[p] # "force"
      /\ dirty /\ mig[p] \in Versions
      /\ mig[p] = IF stage[p] = "steps" THEN ver + 1 ELSE ver
  BY DEF Finish, Schematic, Held, Recorded
<1>2. \A q \in Procs \ {p} : stage[q] \notin Starting /\ at[q] = "enter"
  BY <1>1, OnlyOne DEF Schematic, Orderly
<1>3. /\ UNCHANGED <<ver, tables>> /\ ~dirty'
      /\ stage'[p] \in {"up1", "up2"} /\ at'[p] # "script"
      /\ \A q \in Procs \ {p} : stage'[q] = stage[q] /\ at'[q] = at[q]
      /\ tables \in [Versions -> [Tables -> States]] /\ line[p] \in 1..5 /\ ver \in 0..Last
      /\ line[p] > ScriptEnd(Dir(p))
  BY <1>1 DEF Finish, Enter, Starting, Schematic, TypeOK, States
<1>4. ~Undoing'  BY <1>2, <1>3 DEF Undoing, Starting
<1>5. \A u \in Versions : tables[u] = IF u <= ver THEN Full ELSE None
  <2>1. CASE stage[p] = "steps"
    <3>1. line[p] >= 3  BY <1>3, <2>1 DEF Dir, ScriptEnd
    <3>2. /\ Settled(ver + 1) /\ ver + 1 \in Versions
          /\ tables[ver + 1]["details"] = "none" /\ tables[ver + 1]["items"] = "none"
      BY <1>1, <1>3, <2>1, <3>1 DEF Schematic, Schema
    <3>3. tables[ver + 1] = None  BY <1>3, <3>2 DEF None, Tables
    <3> QED  BY <1>3, <3>2, <3>3 DEF Settled, Versions
  <2>2. CASE stage[p] # "steps"
    <3>1. line[p] = 5  BY <1>3, <2>2 DEF Dir, ScriptEnd
    <3>2. ~Undoing  BY <1>2, <2>2 DEF Undoing, Starting
    <3>3. Settled(ver) /\ tables[ver] = Full
      BY <1>1, <2>2, <3>1, <3>2, UpEnds DEF Schematic, Schema
    <3> QED  BY <1>3, <3>3 DEF Settled
  <2> QED  BY <2>1, <2>2
<1>6. tables = SchemaOf(ver)  BY <1>3, <1>5 DEF SchemaOf
<1>7. tables' = SchemaOf(ver)'  BY <1>3, <1>6 DEF SchemaOf
<1> QED  BY <1>2, <1>3, <1>4, <1>7 DEF Schema, Undoing, Starting

\* Force clears the flag of a version that Steps(-1) is about to undo.
LEMMA ForceSchema ==
  ASSUME Schematic, Retries, NEW p \in Procs, ForceVersion(p)
  PROVE  Schema'
<1>1. /\ stage[p] = "force" /\ dirty /\ ver' = ver /\ ~dirty' /\ tables' = tables
      /\ stage'[p] = "steps" /\ at'[p] = "enter"
      /\ \A q \in Procs \ {p} : stage'[q] = stage[q] /\ at'[q] = at[q]
  BY DEF ForceVersion, Locked, Enter, Schematic, Orderly, Recovering, TypeOK
<1>2. \A q \in Procs \ {p} : stage[q] \notin Starting /\ at[q] = "enter"
  BY <1>1, OnlyOne DEF Schematic, Orderly, Starting
<1>3. ~Undoing  BY <1>1, <1>2 DEF Undoing, Starting
<1>4. ver > 0 /\ Settled(ver)  BY <1>1, <1>3 DEF Schematic, Schema
<1>5. Settled(ver)'  BY <1>1, <1>4 DEF Settled
<1>6. Undoing'  BY <1>1 DEF Undoing
<1> QED  BY <1>1, <1>2, <1>4, <1>5, <1>6 DEF Schema, Starting

\* So the tables are as the version says, but for the one that is being changed.
LEMMA NextSchema ==
  "steps" \notin FaultStages /\ Retries /\ Schematic /\ [Next]_vars => Schema'
<1> SUFFICES ASSUME "steps" \notin FaultStages, Retries, Schematic, [Next]_vars
             PROVE  Schema'
  OBVIOUS
<1>1. CASE UNCHANGED vars
  BY <1>1, StillSchema DEF vars, db, Schematic
<1>2. ASSUME NEW p \in Procs, NEW s, Enter(p, s), UNCHANGED db,
             stage[p] # "steps", s # "steps"
      PROVE  Schema'
  <2>1. /\ stage'[p] # "steps" /\ at'[p] = "enter"
        /\ \A q \in Procs \ {p} : stage'[q] = stage[q] /\ at'[q] = at[q]
        /\ line' = line
    BY <1>2 DEF Enter, Schematic, TypeOK
  <2> QED  BY <1>2, <2>1, StillSchema DEF Schematic
<1>3. ASSUME NEW p \in Procs, Boot(p) \/ Stop(p) \/ Fault(p)  PROVE Schema'
  BY <1>2, <1>3 DEF Boot, Stop, Fault, Exit
<1>4. ASSUME NEW p \in Procs, LockTimeout(p)  PROVE FALSE
  <2>1. stage[p] \in Starting /\ lock \in Procs \ {p} /\ stage[lock] \in Starting
    BY <1>4 DEF LockTimeout, Schematic, Held, TypeOK
  <2> QED  BY <2>1 DEF Schematic, Orderly, OneStarts
<1>5. ASSUME NEW p \in Procs, StepsFail(p)  PROVE FALSE
  <2>1. stage[p] = "steps" /\ at[p] = "locked"  BY <1>5 DEF StepsFail, Locked
  <2>2. ~dirty /\ ver > 0 /\ ver \in 0..Last  BY <2>1 DEF Schematic, Schema, TypeOK
  <2> QED  BY <1>5, <2>2 DEF StepsFail
<1>6. ASSUME NEW p \in Procs, FindDirty(p) \/ UpToDate(p)  PROVE Schema'
  BY <1>2, <1>6 DEF FindDirty, UpToDate, Exit, Locked, Ups
<1>7. ASSUME NEW p \in Procs, Lock(p)  PROVE Schema'
  <2>1. /\ stage' = stage /\ at[p] = "enter" /\ at'[p] = "locked" /\ line' = line
        /\ \A q \in Procs \ {p} : at'[q] = at[q]
    BY <1>7 DEF Lock, Schematic, TypeOK
  <2> QED  BY <1>7, <2>1, StillSchema DEF Lock, Schematic
<1> QED
  BY <1>1, <1>3, <1>4, <1>5, <1>6, <1>7,
     StartUpSchema, StartDownSchema, RunSchema, FinishSchema, ForceSchema
  DEF Next, Migrate

-----------------------------------------------------------------------------
(* Theorems *)

\* The inductive invariant holds at the start ...
LEMMA InitInv == Init => IInv
<1> SUFFICES ASSUME Init  PROVE IInv
  OBVIOUS
<1>1. \A p \in Procs : stage[p] = "down" /\ at[p] = "enter"  BY DEF Init
<1>2. ~Undoing /\ ~Serving  BY <1>1 DEF Undoing, Serving
<1>3. Held /\ Recorded  BY <1>1 DEF Init, Held, Recorded
<1>4. Orderly
  BY <1>1, <1>2 DEF Orderly, OneStarts, Recovering, ServingAtHead, Starting
<1>5. Schema  BY <1>1, <1>2 DEF Init, Schema
<1> QED  BY <1>3, <1>4, <1>5, InitType DEF IInv

\* ... and every step keeps it.
LEMMA NextInv == IInv /\ [Next]_vars => IInv'
<1> SUFFICES ASSUME IInv, [Next]_vars  PROVE IInv'
  OBVIOUS
<1>1. TypeOK' /\ Held' /\ Recorded'  BY NextType, NextHeld DEF IInv
<1>2. ~Overlap => Orderly'  BY NextOrderly DEF IInv
<1>3. strategy' = strategy
  BY DEF Next, Migrate, Boot, Stop, Fault, Lock, LockTimeout, FindDirty, UpToDate, StartUp,
         StartDown, StartScript, StepsFail, Run, Finish, ForceVersion, vars
<1>4. ~Overlap /\ "steps" \notin FaultStages /\ Retries' => Schema'
  BY <1>3, NextSchema DEF IInv, Schematic, Retries
<1> QED  BY <1>1, <1>2, <1>4 DEF IInv

\* The inductive invariant holds in every reachable state.
THEOREM Invariance == Spec => []IInv
BY InitInv, NextInv, PTL DEF Spec

\* Every variable keeps its type, with any overlap and faults: in particular the
\* recorded version stays between the empty schema and the newest one.
THEOREM TypeCorrect == Spec => []TypeOK
<1>1. IInv => TypeOK  BY DEF IInv
<1> QED  BY <1>1, Invariance, PTL

\* Instances that start one at a time serve only on the newest version, clean,
\* however many there are, wherever they crash and whatever the strategy.
THEOREM ServingAtHeadCorrect ==
  ASSUME ~Overlap
  PROVE  Spec => []ServingAtHead
<1>1. IInv => ServingAtHead  BY DEF IInv, Orderly
<1> QED  BY <1>1, Invariance, PTL

\* When besides no rollback is interrupted, an instance that retries serves only
\* on a schema whose every script ran exactly once, to the end.
THEOREM ServingConsistentCorrect ==
  ASSUME ~Overlap, "steps" \notin FaultStages
  PROVE  Spec => []ServingConsistent
<1>1. IInv => ServingConsistent
  <2> SUFFICES ASSUME IInv, Serving, Retries  PROVE tables = SchemaOf(Last)
    BY DEF ServingConsistent
  <2>1. ver = Last /\ ~dirty  BY DEF IInv, Orderly, ServingAtHead
  <2>2. ~Undoing  BY DEF IInv, Orderly, Recovering, Undoing
  <2> QED  BY <2>1, <2>2 DEF IInv, Schema
<1> QED  BY <1>1, Invariance, PTL

\* Nor does a rollback drop a table under an instance that serves.
THEOREM NoDropWhileServingCorrect ==
  ASSUME ~Overlap
  PROVE  Spec => NoDropWhileServing
<1>1. IInv => \A p \in Procs : Run(p) /\ Dir(p) = "down" => ~Serving
  BY DEF IInv, Orderly, Recovering, Dir
<1> QED
  BY <1>1, Invariance, PTL DEF NoDropWhileServing
=============================================================================
