------------------------------ MODULE LogFilesInv ------------------------------
(* The inductive invariant behind the theorems of LogFiles_proofs, in a module *)
(* TLC can check too.                                                          *)
EXTENDS LogFiles

Files == [path : Paths, gen : Nat, open : BOOLEAN]
Indices == 1..Len(handles)

\* The handles are a sequence, and what is written goes to sequences of them.
Sequenced ==
  /\ handles \in Seq(Files)
  /\ handler \in [defaultWriter : Indices, writers : [Levels -> Seq(Indices)]]
  /\ line \in [todo : Seq(Indices), missed : BOOLEAN, disturbed : BOOLEAN]

\* A rename makes room for one file and tells a watcher once.
Bounded ==
  /\ \A p \in Paths : gen[p] + (IF there[p] THEN 0 ELSE 1) <= 1 + rotations
  /\ \A w \in Watchers : events[w] <= rotations

\* What is watched has a path, and everything that has one is watched.
Watched ==
  /\ \A w \in Watchers : pc[w] # "off" => PathOf(w) # None
  /\ closing = "no" /\ ~gaveUp => \A w \in HasFile \cup {Other} : pc[w] # "off"

\* One watcher at a time is between Lock and the end of rebuildHandler.
Mutex == \A w \in Watchers : pc[w] \in {"open", "swap", "default", "writers"} <=> mu = w

-----------------------------------------------------------------------------
(* Handles *)

Owned == {core.logFile} \cup {core.levelFile[l] : l \in HasFile}

\* The core has a handle for the default file and one for each level that has a
\* file, each of its own and for its path.
Distinct ==
  /\ handles[core.logFile].path = Default
  /\ \A l \in HasFile : /\ core.levelFile[l] \in Indices \ {core.logFile}
                        /\ handles[core.levelFile[l]].path = levelFilePath[l]
  /\ \A l, k \in HasFile : core.levelFile[l] = core.levelFile[k] => l = k

\* A handle that was opened anew is not yet the core's.
Opened == \A w \in Watchers :
  /\ opened[w] # 0 <=> pc[w] = "swap"
  /\ pc[w] = "swap" => /\ opened[w] \in Indices \ Owned
                       /\ handles[opened[w]].open
                       /\ handles[opened[w]].path = PathOf(w)

\* An open handle is the core's, or about to be, or was overwritten.
Accounted == \A h \in Indices \ overwritten :
  handles[h].open => h \in Owned \/ \E w \in Watchers : opened[w] = h

\* The core's handles are open until CloseLogFile.
Intact == closing = "no" => \A h \in Owned : handles[h].open

\* The handler writes to the core's handles but while it is rebuilt.
Built ==
  /\ (\A w \in Watchers : pc[w] \notin {"default", "writers"}) =>
       /\ handler.defaultWriter = core.logFile
       /\ \A l \in HasFile : handler.writers[l] = <<core.logFile, core.levelFile[l]>>
  /\ (\E w \in Watchers : pc[w] = "writers") => handler.defaultWriter = core.logFile

-----------------------------------------------------------------------------
(* Lines, CloseLogFile and rotations *)

\* As long as nothing disturbs a line, what it has still to be written to is open.
Undisturbed ==
  /\ line.missed /\ closing = "no" => line.disturbed
  /\ line.todo # <<>> /\ ~line.disturbed /\ closing = "no" =>
       /\ mu = None
       /\ \A i \in 1..Len(line.todo) : handles[line.todo[i]].open

\* A CloseLogFile that meets no reopen closes the default file, then sees all
\* watchers stopped, and leaves nothing open but what was overwritten.  So does
\* an initLoggerCore that fails.
Unraced == ~raced =>
  /\ closing # "no" => /\ \A w \in Watchers : pc[w] \in {"idle", "off", "lock"}
                       /\ ~handles[core.logFile].open
  /\ closing \in {"levels", "closed", "failed"} => \A w \in Watchers : pc[w] = "off"
  /\ closing \in {"closed", "failed"} => \A h \in Indices \ overwritten : ~handles[h].open

\* A watcher of p has been told of a rename that it has not dealt with.
Told(p) == \E w \in Watchers : PathOf(w) = p /\ (events[w] > 0 \/ pc[w] \in {"lock", "open"})

\* If none has, the file at p is that of f, or of the handle that is about to
\* replace it.
Fresh(f, p) == Told(p) \/
  /\ there[p]
  /\ \A w \in Watchers : pc[w] = "swap" /\ PathOf(w) = p => handles[opened[w]].gen = gen[p]
  /\ (\A w \in Watchers : ~(pc[w] = "swap" /\ PathOf(w) = p)) => handles[f].gen = gen[p]

AllFresh == closing = "no" /\ ~gaveUp =>
  /\ Fresh(core.logFile, Default)
  /\ \A l \in OwnPath : Fresh(core.levelFile[l], levelFilePath[l])

IInv == /\ TypeOK /\ Sequenced /\ Bounded /\ Watched /\ Mutex
        /\ Distinct /\ Opened /\ Accounted /\ Intact /\ Built
        /\ Undisturbed /\ Unraced /\ AllFresh
=============================================================================
