---------------------------- MODULE LogFiles_proofs ----------------------------
(* Proofs about LogFiles, for any levels, paths, configurations, rotations and *)
(* failures: LogFilesInv!IInv is inductive.  Its parts are kept one by one:     *)
(* types and bounds, which handle belongs to whom, what the handler and a line  *)
(* write to, what CloseLogFile leaves, and which file is the newest.            *)
EXTENDS LogFilesInv, FiniteSetTheorems, FunctionTheorems, SequenceTheorems, TLAPS

-----------------------------------------------------------------------------
(* Handles *)

\* The default file's watcher is no level.
LEMMA Levelled == /\ Other \notin Levels /\ Other \in Watchers /\ None \notin Watchers
                  /\ Levels \subseteq Watchers /\ HasFile \subseteq Levels
BY ConstantsAssumption DEF Watchers, HasFile

\* A handle is added behind the others.
LEMMA Appends ==
  ASSUME NEW s \in Seq(Files), NEW e \in Files
  PROVE  /\ Append(s, e) \in Seq(Files) /\ Len(s) \in Nat /\ Len(Append(s, e)) = Len(s) + 1
         /\ \A i \in 1..Len(s) : Append(s, e)[i] = s[i]
         /\ Append(s, e)[Len(s) + 1] = e
OBVIOUS

\* A handle is closed: all else stays.
LEMMA Closes ==
  ASSUME Sequenced, NEW h \in Indices, handles' = Closed(h)
  PROVE  /\ handles' \in Seq(Files) /\ Len(handles') = Len(handles)
         /\ \A i \in Indices : /\ handles'[i].path = handles[i].path
                               /\ handles'[i].gen = handles[i].gen
                               /\ handles'[i].open <=> handles[i].open /\ i # h
<1>1. handles \in Seq(Files)  BY DEF Sequenced
<1> DEFINE e == [handles[h] EXCEPT !.open = FALSE]
<1>2. handles[h] \in Files  BY <1>1, ElementOfSeq DEF Indices
<1>3. e \in Files /\ e.path = handles[h].path /\ e.gen = handles[h].gen /\ e.open = FALSE
  BY <1>2 DEF Files
<1>4. handles' = [handles EXCEPT ![h] = e]  BY DEF Closed
<1> HIDE DEF e
<1>5. /\ handles' \in Seq(Files) /\ Len(handles') = Len(handles)
      /\ \A i \in 1..Len(handles) : handles'[i] = IF i = h THEN e ELSE handles[i]
  BY <1>1, <1>3, <1>4, ExceptSeq DEF Indices
<1> QED  BY <1>3, <1>5 DEF Indices

-----------------------------------------------------------------------------
(* Steps *)

\* What HasFile, PathOf and the rest of the configuration are made of never changes.
LEMMA Fixed ==
  ASSUME [Next]_vars
  PROVE  /\ levelFilePath' = levelFilePath /\ overwritten' = overwritten
         /\ HasFile' = HasFile /\ OwnPath' = OwnPath
         /\ \A w \in Watchers : PathOf(w)' = PathOf(w)
<1>1. levelFilePath' = levelFilePath /\ overwritten' = overwritten
  BY DEF Next, vars, conf, Rename, Create, Reopen, Deliver, Lock, OpenLogFile, Swap,
         RebuildDefault, RebuildWriters, OpenFails, Emit, Write, CloseLogFile,
         CloseDefault, CloseWatchers, CloseLevels
<1>2. HasFile' = HasFile  BY <1>1 DEF HasFile
<1>3. OwnPath' = OwnPath  BY <1>1, <1>2 DEF OwnPath
<1>4. \A w \in Watchers : PathOf(w)' = PathOf(w)  BY <1>1 DEF PathOf
<1> QED  BY <1>1, <1>2, <1>3, <1>4

\* The steps that change a handle or whose it is.
LEMMA HandleSteps ==
  ASSUME [Next]_vars
  PROVE  \/ UNCHANGED <<handles, core>>
         \/ \E w \in Watchers : OpenLogFile(w) \/ Swap(w)
         \/ CloseDefault \/ CloseLevels
BY DEF Next, vars, Rename, Create, Reopen, Deliver, Lock,
       RebuildDefault, RebuildWriters, OpenFails, Emit, Write, CloseLogFile,
       CloseWatchers

\* The steps that change a file.
LEMMA FileSteps ==
  ASSUME [Next]_vars
  PROVE  \/ UNCHANGED <<gen, there, rotations>>
         \/ \E p \in Configured : Rename(p) \/ Create(p)
         \/ \E w \in Watchers : OpenLogFile(w)
BY DEF Next, vars, files, bounds, Reopen, Deliver, Lock, Swap,
       RebuildDefault, RebuildWriters, OpenFails, Emit, Write, CloseLogFile,
       CloseDefault, CloseWatchers, CloseLevels

\* The steps of watchers, and those that stop or wake one.
LEMMA WatcherSteps ==
  ASSUME [Next]_vars
  PROVE  \/ UNCHANGED <<mu, pc, events, tries, opened>>
         \/ \E p \in Configured : Rename(p)
         \/ \E w \in Watchers : Reopen(w) \/ OpenFails(w)
         \/ CloseWatchers
BY DEF Next, vars, reopening, Create, Emit, Write, CloseLogFile, CloseDefault, CloseLevels

-----------------------------------------------------------------------------
(* Types *)

\* TypeOK, Sequenced, Bounded, Watched and Mutex again, by what they are about.
FilesOK == /\ gen \in [Paths -> Nat \ {0}] /\ there \in [Paths -> BOOLEAN]
           /\ rotations \in 0..MaxRotations
           /\ \A p \in Paths : gen[p] + (IF there[p] THEN 0 ELSE 1) <= 1 + rotations
HandlesOK == /\ handles \in Seq(Files)
             /\ core \in [logFile : Indices, levelFile : [Levels -> 0..Len(handles)]]
             /\ handler \in [defaultWriter : Indices, writers : [Levels -> Seq(Indices)]]
             /\ line \in [todo : Seq(Indices), missed : BOOLEAN, disturbed : BOOLEAN]
             /\ overwritten \subseteq Indices
WatchersOK == /\ mu \in Watchers \cup {None}
              /\ pc \in [Watchers -> {"off", "idle", "lock", "open", "swap", "default",
                                      "writers"}]
              /\ events \in [Watchers -> Nat] /\ \A w \in Watchers : events[w] <= rotations
              /\ tries \in [Watchers -> 0..maxReopenRetries - 1]
              /\ opened \in [Watchers -> 0..Len(handles)]
              /\ Mutex
RestOK == /\ levelFilePath \in [Levels -> Paths \cup {None}]
          /\ closing \in {"no", "watchers", "levels", "closed", "failed"}
          /\ raced \in BOOLEAN /\ gaveUp \in BOOLEAN /\ fails \in 0..MaxFails
Base == FilesOK /\ HandlesOK /\ WatchersOK /\ Watched /\ RestOK

\* A file is created at most once more than its path is rotated.
LEMMA BaseTypes ==
  ASSUME Base
  PROVE  TypeOK /\ Sequenced /\ Bounded /\ Mutex
<1> USE DEF Base
<1>1. gen \in [Paths -> 1..(1 + MaxRotations)]
  <2>1. \A p \in Paths : gen[p] \in 1..(1 + MaxRotations)
    BY ConstantsAssumption DEF FilesOK
  <2> QED  BY <2>1 DEF FilesOK
<1>2. events \in [Watchers -> 0..MaxRotations]
  <2>1. \A w \in Watchers : events[w] \in 0..MaxRotations
    BY ConstantsAssumption DEF WatchersOK, FilesOK
  <2> QED  BY <2>1 DEF WatchersOK
<1>3. \A h \in Indices : handles[h] \in Files
  BY ElementOfSeq DEF HandlesOK, Indices
<1>4. \A l \in Levels : \A i \in DOMAIN handler.writers[l] :
        handler.writers[l][i] \in Indices
  <2> SUFFICES ASSUME NEW l \in Levels, NEW i \in DOMAIN handler.writers[l]
               PROVE  handler.writers[l][i] \in Indices
    OBVIOUS
  <2>1. handler.writers[l] \in Seq(Indices)  BY DEF HandlesOK
  <2> QED  BY <2>1, ElementOfSeq
<1>5. Sequenced  BY DEF Sequenced, HandlesOK
<1>6. Bounded  BY DEF Bounded, FilesOK, WatchersOK
<1>7. core \in [logFile : Indices, levelFile : [Levels -> 0..Len(handles)]]
  BY DEF HandlesOK
<1>8. handler.defaultWriter \in Indices /\ overwritten \subseteq Indices  BY DEF HandlesOK
<1>9. TypeOK
  BY <1>1, <1>2, <1>3, <1>4, <1>7, <1>8
     DEF TypeOK, Files, Indices, FilesOK, WatchersOK, RestOK
<1> QED  BY <1>5, <1>6, <1>9 DEF WatchersOK

\* PathOf is None or a path of the configuration.
LEMMA Pathed ==
  ASSUME Base
  PROVE  Configured \subseteq Paths /\ \A w \in Watchers : PathOf(w) \in Paths \cup {None}
<1>1. levelFilePath \in [Levels -> Paths \cup {None}]  BY DEF Base, RestOK
<1>2. \A w \in Watchers : PathOf(w) \in Paths \cup {None}
  BY <1>1, ConstantsAssumption DEF PathOf, Watchers
<1> QED  BY <1>2 DEF Configured

\* A path has at most one file more than it was rotated.
LEMMA FilesKeeps ==
  ASSUME Base, [Next]_vars
  PROVE  FilesOK'
<1> USE DEF FilesOK
<1>1. CASE UNCHANGED <<gen, there, rotations>>
  BY <1>1 DEF Base
<1>2. ASSUME NEW p \in Configured, Rename(p)
      PROVE  FilesOK'
  <2>1. p \in Paths  BY Pathed
  <2> QED  BY <1>2, <2>1, ConstantsAssumption DEF Rename, Base
<1>3. ASSUME NEW p \in Configured, Create(p)
      PROVE  FilesOK'
  <2>1. p \in Paths  BY Pathed
  <2> QED  BY <1>3, <2>1, ConstantsAssumption DEF Create, Base, bounds
<1>4. ASSUME NEW w \in Watchers, OpenLogFile(w)
      PROVE  FilesOK'
  <2>1. PathOf(w) \in Paths
    BY <1>4, Pathed DEF OpenLogFile, Base, Watched
  <2> DEFINE p == PathOf(w)
  <2> HIDE DEF p
  <2>2. /\ gen' = [gen EXCEPT ![p] = IF there[p] THEN gen[p] ELSE gen[p] + 1]
        /\ there' = [there EXCEPT ![p] = TRUE] /\ rotations' = rotations
    BY <1>4 DEF OpenLogFile, bounds, p
  <2> QED  BY <2>1, <2>2, ConstantsAssumption DEF Base, p
<1> QED  BY <1>1, <1>2, <1>3, <1>4, FileSteps

\* CloseLogFile is never undone, nor is a reopen that gave up.
LEMMA ForGood ==
  ASSUME Base, [Next]_vars
  PROVE  /\ closing = "no" \/ closing' # "no"
         /\ gaveUp => gaveUp'
<1>1. UNCHANGED closing \/ closing' \in {"watchers", "levels", "closed"}
  <2>1. UNCHANGED closing \/ CloseLogFile
    BY DEF Next, vars, Rename, Create, Reopen, Deliver, Lock, OpenLogFile, Swap,
           RebuildDefault, RebuildWriters, OpenFails, Emit, Write
  <2> QED  BY <2>1 DEF CloseLogFile, CloseDefault, CloseWatchers, CloseLevels
<1>2. UNCHANGED gaveUp \/ gaveUp' = TRUE
  <2>1. UNCHANGED gaveUp \/ \E w \in Watchers : OpenFails(w)
    BY DEF Next, vars, Rename, Create, Reopen, Deliver, Lock, OpenLogFile, Swap,
           RebuildDefault, RebuildWriters, Emit, Write, CloseLogFile,
           CloseDefault, CloseWatchers, CloseLevels
  <2> QED  BY <2>1 DEF OpenFails
<1> QED  BY <1>1, <1>2

\* Only what has a path is watched, and it stays so unless it is stopped.
LEMMA WatchedKeeps ==
  ASSUME Base, [Next]_vars
  PROVE  Watched'
<1>1. HasFile' = HasFile /\ \A w \in Watchers : PathOf(w)' = PathOf(w)
  BY Fixed
<1>2. /\ closing = "no" \/ closing' # "no"
      /\ gaveUp => gaveUp'
  BY ForGood
<1>3. \/ \A w \in Watchers : pc'[w] = "off" <=> pc[w] = "off"
      \/ /\ \A w \in Watchers : pc'[w] # "off" => pc[w] # "off"
         /\ closing' # "no"
  <2>1. CASE UNCHANGED pc
    BY <2>1
  <2>2. ASSUME NEW w \in Watchers, Reopen(w) \/ OpenFails(w)
        PROVE  \A v \in Watchers : pc'[v] = "off" <=> pc[v] = "off"
    BY <2>2 DEF Reopen, Deliver, Lock, OpenLogFile, Swap, RebuildDefault, RebuildWriters,
                OpenFails, Goto, Base, WatchersOK
  <2>3. CASE CloseWatchers
    BY <2>3 DEF CloseWatchers
  <2> QED  BY <2>1, <2>2, <2>3, WatcherSteps DEF Rename
<1>4. Watched /\ HasFile \cup {Other} \subseteq Watchers
  BY Levelled DEF Base
<1>5. \A w \in Watchers : pc'[w] # "off" => PathOf(w)' # None
  BY <1>1, <1>3, <1>4 DEF Watched
<1>6. closing' = "no" /\ ~gaveUp' => \A w \in HasFile' \cup {Other} : pc'[w] # "off"
  BY <1>1, <1>2, <1>3, <1>4 DEF Watched
<1> QED  BY <1>5, <1>6 DEF Watched

\* The flags and the number of failures keep their types.
LEMMA RestKeeps ==
  ASSUME Base, [Next]_vars
  PROVE  RestOK'
<1> USE DEF RestOK, Base
<1>1. levelFilePath' \in [Levels -> Paths \cup {None}]  BY Fixed
<1>2. closing' \in {"no", "watchers", "levels", "closed", "failed"}
  BY DEF Next, vars, Rename, Create, Reopen, Deliver, Lock, OpenLogFile, Swap,
         RebuildDefault, RebuildWriters, OpenFails, Emit, Write, CloseLogFile,
         CloseDefault, CloseWatchers, CloseLevels
<1>3. raced' \in BOOLEAN
  BY DEF Next, vars, Rename, Create, Reopen, Deliver, Lock, OpenLogFile, Swap,
         RebuildDefault, RebuildWriters, OpenFails, Emit, Write, CloseLogFile,
         CloseDefault, CloseWatchers, CloseLevels, Reopening
<1>4. gaveUp' \in BOOLEAN
  BY DEF Next, vars, Rename, Create, Reopen, Deliver, Lock, OpenLogFile, Swap,
         RebuildDefault, RebuildWriters, OpenFails, Emit, Write, CloseLogFile,
         CloseDefault, CloseWatchers, CloseLevels
<1>5. fails' \in 0..MaxFails
  <2>1. fails' = fails \/ (fails < MaxFails /\ fails' = fails + 1)
    BY DEF Next, vars, Rename, Create, Reopen, Deliver, Lock, OpenLogFile, Swap, bounds,
           RebuildDefault, RebuildWriters, OpenFails, Emit, Write, CloseLogFile,
           CloseDefault, CloseWatchers, CloseLevels
  <2> QED  BY <2>1, ConstantsAssumption
<1> QED  BY <1>1, <1>2, <1>3, <1>4, <1>5

-----------------------------------------------------------------------------
(* What the steps do to the handles *)

\* openLogFile adds a handle for the file that is at the path now.
LEMMA Opens ==
  ASSUME Base, NEW w \in Watchers, OpenLogFile(w)
  PROVE  /\ PathOf(w) \in Paths
         /\ handles' \in Seq(Files) /\ Len(handles') = Len(handles) + 1
         /\ \A i \in Indices : handles'[i] = handles[i]
         /\ handles'[Len(handles) + 1] =
              [path |-> PathOf(w), gen |-> gen'[PathOf(w)], open |-> TRUE]
         /\ gen'[PathOf(w)] = IF there[PathOf(w)] THEN gen[PathOf(w)] ELSE gen[PathOf(w)] + 1
<1>1. PathOf(w) \in Paths
  BY Pathed DEF OpenLogFile, Base, Watched
<1> DEFINE p == PathOf(w)
           g == IF there[p] THEN gen[p] ELSE gen[p] + 1
           e == [path |-> p, gen |-> g, open |-> TRUE]
<1>2. handles' = Append(handles, e) /\ gen' = [gen EXCEPT ![p] = g]
  BY DEF OpenLogFile
<1>3. g \in Nat /\ gen'[p] = g
  BY <1>1, <1>2 DEF Base, FilesOK
<1>4. e \in Files  BY <1>1, <1>3 DEF Files
<1>5. handles \in Seq(Files)  BY DEF Base, HandlesOK
<1>6. e = [path |-> PathOf(w), gen |-> gen'[PathOf(w)], open |-> TRUE]  BY <1>3
<1> HIDE DEF e
<1>7. /\ handles' \in Seq(Files) /\ Len(handles') = Len(handles) + 1
      /\ \A i \in 1..Len(handles) : handles'[i] = handles[i]
      /\ handles'[Len(handles) + 1] = e
  BY <1>2, <1>4, <1>5, Appends
<1> QED  BY <1>1, <1>3, <1>6, <1>7 DEF Indices

\* The old file of a level, or the default file, gives way to the one that was opened.
LEMMA Swaps ==
  ASSUME Base, Distinct, NEW w \in Watchers, Swap(w)
  PROVE  /\ opened[w] \in 0..Len(handles) /\ opened' = [opened EXCEPT ![w] = 0]
         /\ \/ /\ PathOf(w) = Default
               /\ handles' = Closed(core.logFile)
               /\ core'.logFile = opened[w] /\ core'.levelFile = core.levelFile
            \/ /\ PathOf(w) # Default
               /\ \E l \in HasFile :
                    /\ levelFilePath[l] = PathOf(w)
                    /\ core.levelFile[l] \in Indices
                    /\ handles' = Closed(core.levelFile[l])
                    /\ core'.logFile = core.logFile
                    /\ core'.levelFile = [core.levelFile EXCEPT ![l] = opened[w]]
<1>1. opened[w] \in 0..Len(handles) /\ opened' = [opened EXCEPT ![w] = 0]
  BY DEF Swap, Base, WatchersOK
<1>2. core \in [logFile : Indices, levelFile : [Levels -> 0..Len(handles)]]
  BY DEF Base, HandlesOK
<1>3. PathOf(w) # None  BY DEF Swap, Base, Watched
<1>4. CASE PathOf(w) = Default
  BY <1>1, <1>2, <1>4 DEF Swap
<1>5. CASE PathOf(w) # Default
  <2>1. PICK l \in Levels : /\ levelFilePath[l] = PathOf(w)
                            /\ handles' = Closed(core.levelFile[l])
                            /\ core' = [core EXCEPT !.levelFile[l] = opened[w]]
    BY <1>5 DEF Swap
  <2>2. l \in HasFile  BY <1>3, <2>1 DEF HasFile
  <2>3. core.levelFile[l] \in Indices  BY <2>2 DEF Distinct
  <2>4. /\ core'.logFile = core.logFile
        /\ core'.levelFile = [core.levelFile EXCEPT ![l] = opened[w]]
    BY <1>2, <2>1
  <2> QED  BY <1>1, <1>5, <2>1, <2>2, <2>3, <2>4
<1> QED  BY <1>4, <1>5

\* CloseLogFile closes the handles of the levels, and no other.
LEMMA ClosesLevels ==
  ASSUME Base, CloseLevels
  PROVE  /\ handles' \in Seq(Files) /\ Len(handles') = Len(handles)
         /\ \A i \in Indices : /\ handles'[i].path = handles[i].path
                               /\ handles'[i].gen = handles[i].gen
                               /\ handles'[i].open <=>
                                    handles[i].open /\ \A l \in HasFile : core.levelFile[l] # i
<1>1. handles \in Seq(Files) /\ Len(handles) \in Nat /\ DOMAIN handles = Indices
  BY DEF Base, HandlesOK, Indices
<1>2. \A i \in Indices : handles[i] \in Files  BY <1>1, ElementOfSeq DEF Indices
<1> DEFINE e(i) == [handles[i] EXCEPT !.open = @ /\ \A l \in HasFile : core.levelFile[l] # i]
<1>3. \A i \in Indices : /\ e(i) \in Files /\ e(i).path = handles[i].path
                         /\ e(i).gen = handles[i].gen
                         /\ e(i).open <=>
                              handles[i].open /\ \A l \in HasFile : core.levelFile[l] # i
  BY <1>2 DEF Files
<1>4. handles' = [i \in Indices |-> e(i)]
  BY <1>1 DEF CloseLevels
<1> HIDE DEF e
<1>5. handles' \in [1..Len(handles) -> Files]  BY <1>3, <1>4 DEF Indices
<1>6. handles' \in Seq(Files) /\ Len(handles') = Len(handles)
  BY <1>1, <1>5
<1> QED  BY <1>3, <1>4, <1>6

\* Handles stay: what is at an index keeps its path and generation, and is never
\* opened again.
LEMMA History ==
  ASSUME Base, Distinct, [Next]_vars
  PROVE  /\ handles' \in Seq(Files) /\ Len(handles') \in Nat /\ Len(handles) \in Nat
         /\ Len(handles') >= Len(handles)
         /\ \A i \in Indices : /\ i \in Indices'
                               /\ handles'[i].path = handles[i].path
                               /\ handles'[i].gen = handles[i].gen
                               /\ handles'[i].open => handles[i].open
<1>1. handles \in Seq(Files) /\ Len(handles) \in Nat /\ core.logFile \in Indices /\ Sequenced
  BY BaseTypes DEF Base, HandlesOK
<1>2. CASE UNCHANGED <<handles, core>>
  BY <1>1, <1>2 DEF Indices
<1>3. ASSUME NEW w \in Watchers, OpenLogFile(w)
      PROVE  /\ handles' \in Seq(Files) /\ Len(handles') = Len(handles) + 1
             /\ \A i \in Indices : handles'[i] = handles[i]
  BY <1>3, Opens
<1>4. ASSUME NEW h \in Indices, handles' = Closed(h)
      PROVE  /\ handles' \in Seq(Files) /\ Len(handles') = Len(handles)
             /\ \A i \in Indices : /\ handles'[i].path = handles[i].path
                                   /\ handles'[i].gen = handles[i].gen
                                   /\ handles'[i].open => handles[i].open
  BY <1>1, <1>4, Closes
<1>5. ASSUME NEW w \in Watchers, Swap(w)
      PROVE  \E h \in Indices : handles' = Closed(h)
  BY <1>1, <1>5, Swaps
<1>6. CASE CloseDefault
  BY <1>1, <1>4, <1>6 DEF CloseDefault, Indices
<1>7. CASE CloseLevels
  BY <1>1, <1>7, ClosesLevels DEF Indices
<1> QED  BY <1>1, <1>2, <1>3, <1>4, <1>5, <1>6, <1>7, HandleSteps DEF Indices

-----------------------------------------------------------------------------
(* Types are kept *)

\* A sequence of indices of handles remains one when handles are added.
LEMMA StillSeq ==
  ASSUME Base, Distinct, [Next]_vars
  PROVE  \A s \in Seq(Indices) : s \in Seq(Indices')
<1>1. Indices \subseteq Indices'  BY History
<1> SUFFICES ASSUME NEW s \in Seq(Indices)
             PROVE  s \in Seq(Indices')
  OBVIOUS
<1>2. Len(s) \in Nat /\ s \in [1..Len(s) -> Indices]  OBVIOUS
<1>3. s \in [1..Len(s) -> Indices']  BY <1>1, <1>2
<1> QED  BY <1>2, <1>3

\* The steps that change the handler or the line.
LEMMA HandlerSteps ==
  ASSUME [Next]_vars
  PROVE  \/ handler' = handler
         \/ \E w \in Watchers : RebuildDefault(w) \/ RebuildWriters(w)
BY DEF Next, vars, Rename, Create, Reopen, Deliver, Lock, OpenLogFile, Swap,
       OpenFails, Emit, Write, CloseLogFile, CloseDefault, CloseWatchers, CloseLevels

\* The steps that change the line.
LEMMA LineSteps ==
  ASSUME [Next]_vars
  PROVE  \/ line' = line
         \/ Disturb
         \/ \E v \in Levels \cup {Other} : Emit(v)
         \/ Write
BY DEF Next, vars, Rename, Create, Reopen, Deliver, Lock, OpenLogFile, Swap,
       RebuildDefault, RebuildWriters,
       OpenFails, CloseLogFile, CloseDefault, CloseWatchers, CloseLevels

\* The core refers to handles that exist.
LEMMA CoreKeeps ==
  ASSUME Base, Distinct, Opened, [Next]_vars
  PROVE  core' \in [logFile : Indices', levelFile : [Levels -> 0..Len(handles')]]
<1>1. core \in [logFile : Indices, levelFile : [Levels -> 0..Len(handles)]]
  BY DEF Base, HandlesOK
<1>2. Indices \subseteq Indices' /\ 0..Len(handles) \subseteq 0..Len(handles')
  BY History DEF Indices
<1>3. core \in [logFile : Indices', levelFile : [Levels -> 0..Len(handles')]]
  <2>1. core.levelFile \in [Levels -> 0..Len(handles')]  BY <1>1, <1>2
  <2> QED  BY <1>1, <1>2, <2>1
<1>4. ASSUME NEW w \in Watchers, Swap(w)
      PROVE  core' \in [logFile : Indices', levelFile : [Levels -> 0..Len(handles')]]
  <2> DEFINE n == opened[w]
  <2>1. n \in Indices /\ n \in 0..Len(handles)
    BY <1>4 DEF Swap, Opened, Base, WatchersOK
  <2>2. \/ core' = [core EXCEPT !.logFile = n]
        \/ \E l \in Levels : core' = [core EXCEPT !.levelFile[l] = n]
    BY <1>4 DEF Swap
  <2> HIDE DEF n
  <2>3. core' \in [logFile : Indices, levelFile : [Levels -> 0..Len(handles)]]
    BY <1>1, <2>1, <2>2
  <2>4. core'.levelFile \in [Levels -> 0..Len(handles')]  BY <1>2, <2>3
  <2> QED  BY <1>2, <2>3, <2>4
<1>5. core' = core \/ \E w \in Watchers : Swap(w)
  BY HandleSteps DEF OpenLogFile, CloseDefault, CloseLevels
<1> QED  BY <1>3, <1>4, <1>5

\* So does the handler: rebuildHandler takes them from the core ...
LEMMA HandlerKeeps ==
  ASSUME Base, Distinct, Opened, [Next]_vars
  PROVE  handler' \in [defaultWriter : Indices', writers : [Levels -> Seq(Indices')]]
<1>1. /\ handler \in [defaultWriter : Indices, writers : [Levels -> Seq(Indices)]]
      /\ core \in [logFile : Indices, levelFile : [Levels -> 0..Len(handles)]]
  BY DEF Base, HandlesOK
<1>2. Indices \subseteq Indices' /\ \A s \in Seq(Indices) : s \in Seq(Indices')
  BY History, StillSeq
<1>3. handler' \in [defaultWriter : Indices, writers : [Levels -> Seq(Indices)]]
  <2>1. ASSUME NEW w \in Watchers, RebuildDefault(w)
        PROVE  handler' \in [defaultWriter : Indices, writers : [Levels -> Seq(Indices)]]
    BY <1>1, <2>1 DEF RebuildDefault
  <2>2. ASSUME NEW w \in Watchers, RebuildWriters(w)
        PROVE  handler' \in [defaultWriter : Indices, writers : [Levels -> Seq(Indices)]]
    <3> DEFINE f == [l \in Levels |->
           IF l \in HasFile THEN <<core.logFile, core.levelFile[l]>> ELSE <<>>]
    <3>1. \A l \in HasFile : core.levelFile[l] \in Indices  BY DEF Distinct
    <3>2. f \in [Levels -> Seq(Indices)]  BY <1>1, <3>1
    <3>3. handler' = [handler EXCEPT !.writers = f]  BY <2>2 DEF RebuildWriters
    <3> HIDE DEF f
    <3> QED  BY <1>1, <3>2, <3>3
  <2> QED  BY <1>1, <2>1, <2>2, HandlerSteps
<1>4. handler'.writers \in [Levels -> Seq(Indices')]  BY <1>2, <1>3
<1> QED  BY <1>2, <1>3, <1>4

\* ... and so does a line, which takes them from the handler.
LEMMA LineKeeps ==
  ASSUME Base, Distinct, [Next]_vars
  PROVE  line' \in [todo : Seq(Indices'), missed : BOOLEAN, disturbed : BOOLEAN]
<1>1. /\ handler \in [defaultWriter : Indices, writers : [Levels -> Seq(Indices)]]
      /\ line \in [todo : Seq(Indices), missed : BOOLEAN, disturbed : BOOLEAN]
  BY DEF Base, HandlesOK
<1>2. \A s \in Seq(Indices) : s \in Seq(Indices')  BY StillSeq
<1>3. line' \in [todo : Seq(Indices), missed : BOOLEAN, disturbed : BOOLEAN]
  <2>1. CASE Disturb
    BY <1>1, <2>1 DEF Disturb
  <2>2. ASSUME NEW v \in Levels \cup {Other}, Emit(v)
        PROVE  line' \in [todo : Seq(Indices), missed : BOOLEAN, disturbed : BOOLEAN]
    <3>1. writerForLevel(v) \in Seq(Indices)
      BY <1>1 DEF writerForLevel, HasFile
    <3> QED  BY <2>2, <3>1 DEF Emit
  <2>3. CASE Write
    <3>1. Tail(line.todo) \in Seq(Indices)  BY <1>1, <2>3 DEF Write
    <3>2. \/ line' = [line EXCEPT !.todo = Tail(line.todo)]
          \/ line' = [line EXCEPT !.todo = <<>>, !.missed = TRUE]
      BY <2>3 DEF Write
    <3>3. <<>> \in Seq(Indices)  OBVIOUS
    <3> QED  BY <1>1, <3>1, <3>2, <3>3
  <2> QED  BY <1>1, <2>1, <2>2, <2>3, LineSteps
<1> QED  BY <1>2, <1>3

\* Together: whatever refers to a handle refers to one that exists.
LEMMA HandlesKeeps ==
  ASSUME Base, Distinct, Opened, [Next]_vars
  PROVE  HandlesOK'
<1>1. overwritten' \subseteq Indices'  BY Fixed, History DEF Base, HandlesOK
<1> QED  BY <1>1, History, CoreKeeps, HandlerKeeps, LineKeeps DEF HandlesOK

\* One step of a watcher, as far as it concerns the watchers: the others stay where
\* they are, and it takes or gives back c.mu.
LEMMA Moves ==
  ASSUME Base, NEW w \in Watchers, Reopen(w) \/ OpenFails(w)
  PROVE  /\ pc' = [pc EXCEPT ![w] = pc'[w]]
         /\ <<pc[w], pc'[w]>> \in {<<"idle", "lock">>, <<"lock", "open">>, <<"open", "open">>,
              <<"open", "swap">>, <<"open", "idle">>, <<"swap", "default">>,
              <<"default", "writers">>, <<"writers", "idle">>}
         /\ mu' = IF pc[w] = "lock" THEN w ELSE IF pc'[w] = "idle" THEN None ELSE mu
         /\ pc[w] = "lock" => mu = None
BY DEF Reopen, Deliver, Lock, OpenLogFile, Swap, RebuildDefault, RebuildWriters,
       OpenFails, Goto, Base, WatchersOK

\* The watchers keep their types, and c.mu admits one of them.
LEMMA WatchersKeeps ==
  ASSUME Base, Distinct, Opened, [Next]_vars
  PROVE  WatchersOK'
<1> USE DEF WatchersOK, Base
<1>1. mu' \in Watchers \cup {None}
  <2>1. \/ mu' = mu
        \/ \E w \in Watchers : Reopen(w) \/ OpenFails(w)
    BY WatcherSteps DEF Rename, CloseWatchers
  <2> QED  BY <2>1, Moves
<1>2. /\ pc' \in [Watchers -> {"off", "idle", "lock", "open", "swap", "default", "writers"}]
      /\ Mutex'
  <2>1. CASE UNCHANGED <<mu, pc>>
    BY <2>1 DEF Mutex
  <2>2. ASSUME NEW w \in Watchers, Reopen(w) \/ OpenFails(w)
        PROVE  /\ pc' \in [Watchers -> {"off", "idle", "lock", "open", "swap", "default",
                                        "writers"}]
               /\ Mutex'
    <3>1. pc' \in [Watchers -> {"off", "idle", "lock", "open", "swap", "default", "writers"}]
      BY <2>2, Moves
    <3>2. \A v \in Watchers : v # w => pc'[v] = pc[v]
      <4>1. pc' = [pc EXCEPT ![w] = pc'[w]]  BY <2>2, Moves
      <4> QED  BY <4>1
    <3>3. /\ <<pc[w], pc'[w]>> \in {<<"idle", "lock">>, <<"lock", "open">>, <<"open", "open">>,
              <<"open", "swap">>, <<"open", "idle">>, <<"swap", "default">>,
              <<"default", "writers">>, <<"writers", "idle">>}
          /\ mu' = IF pc[w] = "lock" THEN w ELSE IF pc'[w] = "idle" THEN None ELSE mu
          /\ pc[w] = "lock" => mu = None
      BY <2>2, Moves
    <3>4. None \notin Watchers /\ Mutex  BY Levelled
    <3> HIDE DEF Base, WatchersOK
    <3>5. Mutex'  BY <3>2, <3>3, <3>4 DEF Mutex
    <3> QED  BY <3>1, <3>5
  <2>3. CASE CloseWatchers
    BY <2>3 DEF CloseWatchers, Mutex
  <2> QED  BY <2>1, <2>2, <2>3, WatcherSteps DEF Rename
<1>3. events' \in [Watchers -> Nat] /\ \A w \in Watchers : events'[w] <= rotations'
  <2>1. rotations' \in Nat /\ rotations \in Nat /\ rotations' >= rotations
    <3>1. rotations' = rotations \/ rotations' = rotations + 1
      BY FileSteps DEF Rename, Create, OpenLogFile, bounds
    <3>2. rotations \in Nat  BY ConstantsAssumption DEF FilesOK
    <3> QED  BY <3>1, <3>2
  <2>2. CASE UNCHANGED events
    BY <2>1, <2>2
  <2>3. ASSUME NEW p \in Configured, Rename(p)
        PROVE  events' \in [Watchers -> Nat] /\ \A w \in Watchers : events'[w] <= rotations'
    <3>1. \A w \in Watchers : events'[w] \in Nat /\ events'[w] <= events[w] + 1
      BY <2>3 DEF Rename
    <3>2. events' \in [Watchers -> Nat]  BY <2>3, <3>1 DEF Rename
    <3>3. rotations' = rotations + 1  BY <2>3 DEF Rename
    <3> QED  BY <2>1, <3>1, <3>2, <3>3
  <2>4. ASSUME NEW w \in Watchers, Deliver(w)
        PROVE  events' \in [Watchers -> Nat] /\ \A v \in Watchers : events'[v] <= rotations'
    BY <2>1, <2>4 DEF Deliver
  <2>5. CASE CloseWatchers
    BY <2>1, <2>5 DEF CloseWatchers
  <2> QED
    BY <2>2, <2>3, <2>4, <2>5, WatcherSteps
       DEF Reopen, Lock, OpenLogFile, Swap, RebuildDefault, RebuildWriters, OpenFails
<1>4. tries' \in [Watchers -> 0..maxReopenRetries - 1]
  <2>1. \/ tries' = tries
        \/ \E w \in Watchers : \/ tries' = [tries EXCEPT ![w] = 0]
                               \/ /\ tries' = [tries EXCEPT ![w] = @ + 1]
                                  /\ tries[w] + 1 < maxReopenRetries
    BY WatcherSteps
       DEF Rename, Reopen, Deliver, Lock, OpenLogFile, Swap, RebuildDefault, RebuildWriters,
           OpenFails, CloseWatchers
  <2>2. /\ tries \in [Watchers -> 0..maxReopenRetries - 1]
        /\ maxReopenRetries \in Nat \ {0}
    BY ConstantsAssumption
  <2> HIDE DEF Base, WatchersOK
  <2>3. ASSUME NEW w \in Watchers, NEW n \in 0..maxReopenRetries - 1, tries' = [tries EXCEPT ![w] = n]
        PROVE  tries' \in [Watchers -> 0..maxReopenRetries - 1]
    BY <2>2, <2>3
  <2>4. 0 \in 0..maxReopenRetries - 1  BY <2>2
  <2>5. \A w \in Watchers : tries[w] + 1 < maxReopenRetries =>
          tries[w] + 1 \in 0..maxReopenRetries - 1
    BY <2>2
  <2> QED  BY <2>1, <2>2, <2>3, <2>4, <2>5
<1>5. opened' \in [Watchers -> 0..Len(handles')]
  <2>1. /\ 0..Len(handles) \subseteq 0..Len(handles')
        /\ Len(handles) \in Nat
    BY History
  <2>2. CASE opened' = opened
    BY <2>1, <2>2
  <2>3. ASSUME NEW w \in Watchers, OpenLogFile(w)
        PROVE  opened' \in [Watchers -> 0..Len(handles')]
    <3>1. Len(handles') = Len(handles) + 1  BY <2>3, Opens
    <3>2. Len(handles) + 1 \in 0..Len(handles')  BY <2>1, <3>1
    <3>3. opened' = [opened EXCEPT ![w] = Len(handles) + 1]  BY <2>3 DEF OpenLogFile
    <3> QED  BY <2>1, <3>2, <3>3
  <2>4. ASSUME NEW w \in Watchers, Swap(w)
        PROVE  opened' \in [Watchers -> 0..Len(handles')]
    BY <2>1, <2>4 DEF Swap
  <2> QED
    BY <2>2, <2>3, <2>4, WatcherSteps
       DEF Rename, Reopen, Deliver, Lock, RebuildDefault, RebuildWriters, OpenFails, CloseWatchers
<1> QED  BY <1>1, <1>2, <1>3, <1>4, <1>5

\* All types are kept.
LEMMA BaseKeeps ==
  ASSUME Base, Distinct, Opened, [Next]_vars
  PROVE  Base'
BY FilesKeeps, HandlesKeeps, WatchersKeeps, WatchedKeeps, RestKeeps DEF Base

-----------------------------------------------------------------------------
(* Whose a handle is *)

\* A swap gives the core a handle that was nobody's, for the same path.
LEMMA DistinctKeeps ==
  ASSUME Base, Distinct, Opened, [Next]_vars
  PROVE  Distinct'
<1>1. /\ levelFilePath' = levelFilePath /\ HasFile' = HasFile
      /\ \A w \in Watchers : PathOf(w)' = PathOf(w)
  BY Fixed
<1>2. \A i \in Indices : i \in Indices' /\ handles'[i].path = handles[i].path
  BY History
<1>3. core \in [logFile : Indices, levelFile : [Levels -> 0..Len(handles)]]
  BY DEF Base, HandlesOK
<1>4. CASE core' = core
  BY <1>1, <1>2, <1>3, <1>4 DEF Distinct
<1>5. ASSUME NEW w \in Watchers, Swap(w)
      PROVE  Distinct'
  <2> DEFINE n == opened[w]
  <2>1. /\ n \in Indices \ Owned /\ handles[n].path = PathOf(w)
    BY <1>5 DEF Swap, Opened
  <2> HIDE DEF n
  <2>2. CASE /\ PathOf(w) = Default
             /\ core'.logFile = n /\ core'.levelFile = core.levelFile
    BY <1>1, <1>2, <1>3, <2>1, <2>2 DEF Distinct, Owned
  <2>3. ASSUME NEW l \in HasFile, levelFilePath[l] = PathOf(w),
               core'.logFile = core.logFile,
               core'.levelFile = [core.levelFile EXCEPT ![l] = n]
        PROVE  Distinct'
    <3>1. l \in Levels  BY DEF HasFile
    <3>2. \A k \in HasFile : core'.levelFile[k] = IF k = l THEN n ELSE core.levelFile[k]
      BY <1>3, <2>3, <3>1 DEF HasFile
    <3>3. /\ core.logFile \in Indices /\ n \notin Owned /\ core.logFile \in Owned
          /\ \A k \in HasFile : core.levelFile[k] \in Owned
      BY <1>3, <2>1 DEF Owned
    <3>4. handles'[core'.logFile].path = Default
      BY <1>2, <2>3, <3>3 DEF Distinct
    <3>5. \A k \in HasFile : /\ core'.levelFile[k] \in Indices' \ {core'.logFile}
                             /\ handles'[core'.levelFile[k]].path = levelFilePath[k]
      <4> SUFFICES ASSUME NEW k \in HasFile
                   PROVE  /\ core'.levelFile[k] \in Indices' \ {core'.logFile}
                          /\ handles'[core'.levelFile[k]].path = levelFilePath[k]
        OBVIOUS
      <4>1. CASE k = l
        BY <1>2, <2>1, <2>3, <3>2, <3>3, <4>1
      <4>2. CASE k # l
        BY <1>2, <2>3, <3>2, <4>2 DEF Distinct
      <4> QED  BY <4>1, <4>2
    <3>6. \A j, k \in HasFile : core'.levelFile[j] = core'.levelFile[k] => j = k
      BY <3>2, <3>3 DEF Distinct
    <3> QED  BY <1>1, <3>4, <3>5, <3>6 DEF Distinct
  <2>4. \/ /\ PathOf(w) = Default
           /\ core'.logFile = n /\ core'.levelFile = core.levelFile
        \/ \E l \in HasFile : /\ levelFilePath[l] = PathOf(w)
                              /\ core'.logFile = core.logFile
                              /\ core'.levelFile = [core.levelFile EXCEPT ![l] = n]
    BY <1>5, Swaps DEF n
  <2> QED  BY <2>2, <2>3, <2>4
<1> QED
  BY <1>4, <1>5, HandleSteps DEF OpenLogFile, CloseDefault, CloseLevels

\* The handles of the core change only in Swap.
LEMMA OwnedKeeps ==
  ASSUME Base, Distinct, Opened, [Next]_vars
  PROVE  /\ Owned \subseteq Indices
         /\ \/ Owned' = Owned /\ core' = core /\ ~\E w \in Watchers : Swap(w)
            \/ \E w \in Watchers : \E h \in Owned :
                 /\ Swap(w) /\ handles' = Closed(h)
                 /\ Owned' = (Owned \ {h}) \cup {opened[w]}
<1>1. HasFile' = HasFile  BY Fixed
<1>2. core \in [logFile : Indices, levelFile : [Levels -> 0..Len(handles)]]
  BY DEF Base, HandlesOK
<1>3. Owned \subseteq Indices
  BY <1>2 DEF Owned, Distinct
<1>4. ASSUME NEW w \in Watchers, Swap(w)
      PROVE  \E h \in Owned : /\ handles' = Closed(h)
                              /\ Owned' = (Owned \ {h}) \cup {opened[w]}
  <2> DEFINE n == opened[w]
  <2> HIDE DEF n
  <2>1. CASE /\ handles' = Closed(core.logFile)
             /\ core'.logFile = n /\ core'.levelFile = core.levelFile
    BY <1>1, <2>1 DEF Distinct, Owned, n
  <2>2. ASSUME NEW l \in HasFile, handles' = Closed(core.levelFile[l]),
               core'.logFile = core.logFile,
               core'.levelFile = [core.levelFile EXCEPT ![l] = n]
        PROVE  \E h \in Owned : handles' = Closed(h) /\ Owned' = (Owned \ {h}) \cup {n}
    <3>1. l \in Levels  BY DEF HasFile
    <3>2. \A k \in HasFile : core'.levelFile[k] = IF k = l THEN n ELSE core.levelFile[k]
      BY <1>2, <2>2, <3>1 DEF HasFile
    <3>3. core.levelFile[l] \in Owned  BY DEF Owned
    <3>4. Owned' = (Owned \ {core.levelFile[l]}) \cup {n}
      BY <1>1, <2>2, <3>2 DEF Owned, Distinct
    <3> QED  BY <2>2, <3>3, <3>4
  <2> QED  BY <1>4, <2>1, <2>2, Swaps DEF n
<1>5. core' = core \/ \E w \in Watchers : Swap(w)
  BY HandleSteps DEF OpenLogFile, CloseDefault, CloseLevels
<1>6. core' = core => Owned' = Owned  BY <1>1 DEF Owned
<1> QED  BY <1>3, <1>4, <1>5, <1>6

\* The one watcher that has opened a handle holds c.mu.
LEMMA OpenedKeeps ==
  ASSUME Base, Distinct, Opened, [Next]_vars
  PROVE  Opened'
<1>1. \A w \in Watchers : PathOf(w)' = PathOf(w)
  BY Fixed
<1>2. /\ Owned \subseteq Indices /\ Len(handles) \in Nat
      /\ \A i \in Indices : i \in Indices' /\ handles'[i].path = handles[i].path
  BY History, OwnedKeeps
<1>3. ASSUME UNCHANGED <<handles, core, opened>>,
             \A w \in Watchers : pc[w] = "swap" <=> pc'[w] = "swap"
      PROVE  Opened'
  <2>1. Owned' = Owned  BY <1>3, Fixed DEF Owned
  <2> QED  BY <1>1, <1>3, <2>1 DEF Opened, Indices
<1>4. ASSUME NEW w \in Watchers, OpenLogFile(w)
      PROVE  Opened'
  <2>1. Owned' = Owned  BY <1>4, Fixed DEF Owned, OpenLogFile
  <2>2. /\ opened' = [opened EXCEPT ![w] = Len(handles) + 1]
        /\ pc' = [pc EXCEPT ![w] = "swap"] /\ pc[w] = "open"
    BY <1>4 DEF OpenLogFile, Goto
  <2>3. /\ handles'[Len(handles) + 1].open
        /\ handles'[Len(handles) + 1].path = PathOf(w)
        /\ Len(handles) + 1 \in Indices' \ Indices
        /\ \A i \in Indices : handles'[i] = handles[i]
    <3>1. Len(handles') = Len(handles) + 1
      BY <1>4, Opens
    <3>2. handles'[Len(handles) + 1] =
            [path |-> PathOf(w), gen |-> gen'[PathOf(w)], open |-> TRUE]
      BY <1>4, Opens
    <3>3. \A i \in Indices : handles'[i] = handles[i]
      BY <1>4, Opens
    <3>4. Len(handles) + 1 \in Indices' \ Indices
      BY <1>2, <3>1 DEF Indices
    <3> QED  BY <3>2, <3>3, <3>4
  <2>4. \A v \in Watchers : /\ opened'[v] = IF v = w THEN Len(handles) + 1 ELSE opened[v]
                            /\ pc'[v] = IF v = w THEN "swap" ELSE pc[v]
    BY <2>2 DEF Base, WatchersOK
  <2>5. Len(handles) + 1 # 0  BY <1>2
  <2> QED  BY <1>1, <1>2, <2>1, <2>3, <2>4, <2>5 DEF Opened
<1>5. ASSUME NEW w \in Watchers, Swap(w)
      PROVE  Opened'
  <2>1. \A v \in Watchers : v # w => pc[v] # "swap"
    BY <1>5 DEF Swap, Base, WatchersOK, Mutex
  <2>2. \A v \in Watchers : pc'[v] # "swap" /\ opened'[v] = 0
    BY <1>5, <2>1 DEF Swap, Goto, Opened, Base, WatchersOK
  <2> QED  BY <2>2 DEF Opened
<1>6. ASSUME UNCHANGED <<core, pc, opened>>,
             \A i \in Indices \ Owned : handles'[i].open <=> handles[i].open
      PROVE  Opened'
  <2>1. Owned' = Owned  BY <1>6, Fixed DEF Owned
  <2>2. \A w \in Watchers : pc[w] = "swap" => handles'[opened[w]].open
    BY <1>6 DEF Opened
  <2>3. \A w \in Watchers : pc[w] = "swap" =>
          opened[w] \in Indices' \ Owned /\ handles'[opened[w]].path = PathOf(w)
    BY <1>2 DEF Opened
  <2> QED  BY <1>1, <1>6, <2>1, <2>2, <2>3 DEF Opened
<1>7. CASE CloseDefault \/ CloseLevels
  <2>1. UNCHANGED <<core, pc, opened>>
    BY <1>7 DEF CloseDefault, CloseLevels, reopening
  <2>2. CASE CloseDefault
    <3>1. core.logFile \in Indices /\ handles' = Closed(core.logFile)
      BY <1>2, <2>2 DEF CloseDefault, Owned
    <3>2. \A i \in Indices : handles'[i].open <=> handles[i].open /\ i # core.logFile
      BY <3>1, Closes, BaseTypes
    <3>3. \A i \in Indices \ Owned : handles'[i].open <=> handles[i].open
      BY <3>2 DEF Owned
    <3> QED  BY <1>6, <2>1, <3>3
  <2>3. CASE CloseLevels
    <3>1. \A i \in Indices : handles'[i].open <=>
                               handles[i].open /\ \A l \in HasFile : core.levelFile[l] # i
      BY <2>3, ClosesLevels
    <3>2. \A i \in Indices \ Owned : handles'[i].open <=> handles[i].open
      BY <3>1 DEF Owned
    <3> QED  BY <1>6, <2>1, <3>2
  <2> QED  BY <1>7, <2>2, <2>3
<1>8. CASE UNCHANGED <<mu, pc, events, tries, opened>> /\ UNCHANGED <<handles, core>>
  BY <1>3, <1>8
<1>9. ASSUME NEW w \in Watchers, Deliver(w) \/ Lock(w) \/ RebuildDefault(w)
                                   \/ RebuildWriters(w) \/ OpenFails(w)
      PROVE  Opened'
  <2>1. UNCHANGED <<handles, core, opened>>
    BY <1>9 DEF Deliver, Lock, RebuildDefault, RebuildWriters, OpenFails
  <2>2. \A v \in Watchers : pc[v] = "swap" <=> pc'[v] = "swap"
    BY <1>9 DEF Deliver, Lock, RebuildDefault, RebuildWriters, OpenFails, Goto, Base, WatchersOK
  <2> QED  BY <1>3, <2>1, <2>2
<1>10. CASE CloseWatchers \/ \E p \in Configured : Rename(p)
  <2>1. UNCHANGED <<handles, core, opened>>
    BY <1>10 DEF CloseWatchers, Rename
  <2>2. \A v \in Watchers : pc[v] = "swap" <=> pc'[v] = "swap"
    BY <1>10 DEF CloseWatchers, Rename
  <2> QED  BY <1>3, <2>1, <2>2
<1> QED
  BY <1>4, <1>5, <1>6, <1>7, <1>8, <1>9, <1>10, WatcherSteps, HandleSteps DEF Reopen

\* The steps that open a handle or hand it to the core.
LEMMA OpenedSteps ==
  ASSUME [Next]_vars
  PROVE  UNCHANGED opened \/ \E w \in Watchers : OpenLogFile(w) \/ Swap(w)
BY WatcherSteps
   DEF Rename, Reopen, Deliver, Lock, RebuildDefault, RebuildWriters, OpenFails, CloseWatchers

\* A handle is not forgotten while it is open.
LEMMA AccountedKeeps ==
  ASSUME Base, Distinct, Opened, Accounted, [Next]_vars
  PROVE  Accounted'
<1>1. /\ Owned \subseteq Indices /\ Len(handles) \in Nat
      /\ \A i \in Indices : handles'[i].open => handles[i].open
      /\ overwritten' = overwritten
  BY History, OwnedKeeps, Fixed
<1>2. ASSUME NEW w \in Watchers, OpenLogFile(w)
      PROVE  Accounted'
  <2>1. Owned' = Owned  BY <1>2, Fixed DEF Owned, OpenLogFile
  <2>2. \A v \in Watchers : opened'[v] = IF v = w THEN Len(handles) + 1 ELSE opened[v]
    BY <1>2 DEF OpenLogFile, Base, WatchersOK
  <2>3. opened[w] = 0  BY <1>2 DEF OpenLogFile, Opened
  <2>4. Len(handles') = Len(handles) + 1  BY <1>2, Opens
  <2>5. \A i \in Indices' : i \in Indices \/ i = Len(handles) + 1
    BY <1>1, <2>4 DEF Indices
  <2>6. 0 \notin Indices  BY DEF Indices
  <2> QED  BY <1>1, <2>1, <2>2, <2>3, <2>5, <2>6 DEF Accounted
<1>3. ASSUME ~\E w \in Watchers : OpenLogFile(w)
      PROVE  Indices' = Indices
  <2>1. CASE UNCHANGED <<handles, core>>
    BY <2>1 DEF Indices
  <2>2. ASSUME NEW w \in Watchers, Swap(w)
        PROVE  Indices' = Indices
    BY <2>2, OwnedKeeps, Swaps, Closes, BaseTypes DEF Indices, Owned
  <2>3. CASE CloseDefault
    BY <1>1, <2>3, Closes, BaseTypes DEF CloseDefault, Indices, Owned
  <2>4. CASE CloseLevels
    BY <2>4, ClosesLevels DEF Indices
  <2> QED  BY <1>3, <2>1, <2>2, <2>3, <2>4, HandleSteps
<1>4. ASSUME NEW w \in Watchers, Swap(w), NEW h \in Owned, handles' = Closed(h),
             Owned' = (Owned \ {h}) \cup {opened[w]},
             ~\E v \in Watchers : OpenLogFile(v)
      PROVE  Accounted'
  <2>1. \A i \in Indices : handles'[i].open <=> handles[i].open /\ i # h
    BY <1>1, <1>4, Closes, BaseTypes
  <2>2. \A v \in Watchers : v # w => opened[v] = 0
    BY <1>4 DEF Swap, Base, WatchersOK, Mutex, Opened
  <2>3. 0 \notin Indices  BY DEF Indices
  <2>4. Indices' = Indices  BY <1>3, <1>4
  <2> QED  BY <1>1, <1>4, <2>1, <2>2, <2>3, <2>4 DEF Accounted
<1>5. ASSUME UNCHANGED opened, Owned' = Owned, ~\E v \in Watchers : OpenLogFile(v)
      PROVE  Accounted'
  BY <1>1, <1>3, <1>5 DEF Accounted
<1>6. (\E w \in Watchers : Swap(w)) => ~\E v \in Watchers : OpenLogFile(v)
  BY DEF Swap, OpenLogFile, Base, WatchersOK, Mutex
<1> QED  BY <1>2, <1>4, <1>5, <1>6, OwnedKeeps, OpenedSteps

\* Before CloseLogFile only Swap closes a handle, and it replaces it.
LEMMA IntactKeeps ==
  ASSUME Base, Distinct, Opened, Intact, [Next]_vars
  PROVE  Intact'
<1>1. SUFFICES ASSUME closing' = "no"
               PROVE  \A h \in Owned' : handles'[h].open
  BY DEF Intact
<1>2. closing = "no" /\ ~CloseDefault /\ ~CloseLevels
  BY <1>1
     DEF Next, vars, Rename, Create, Reopen, Deliver, Lock, OpenLogFile, Swap,
         RebuildDefault, RebuildWriters, OpenFails, Emit, Write, CloseLogFile,
         CloseDefault, CloseWatchers, CloseLevels
<1>3. Owned \subseteq Indices /\ \A h \in Owned : handles[h].open
  BY <1>2, OwnedKeeps DEF Intact
<1>4. CASE UNCHANGED <<handles, core>>
  <2>1. Owned' = Owned  BY <1>4, Fixed DEF Owned
  <2> QED  BY <1>3, <1>4, <2>1
<1>5. ASSUME NEW w \in Watchers, OpenLogFile(w)
      PROVE  \A h \in Owned' : handles'[h].open
  <2>1. Owned' = Owned  BY <1>5, Fixed DEF Owned, OpenLogFile
  <2>2. \A i \in Indices : handles'[i] = handles[i]  BY <1>5, Opens
  <2> QED  BY <1>3, <2>1, <2>2
<1>6. ASSUME NEW w \in Watchers, Swap(w), NEW h \in Owned, handles' = Closed(h),
             Owned' = (Owned \ {h}) \cup {opened[w]}
      PROVE  \A i \in Owned' : handles'[i].open
  <2>1. \A i \in Indices : handles'[i].open <=> handles[i].open /\ i # h
    BY <1>3, <1>6, Closes, BaseTypes
  <2>2. opened[w] \in Indices \ Owned /\ handles[opened[w]].open
    BY <1>6 DEF Swap, Opened
  <2> QED  BY <1>3, <1>6, <2>1, <2>2
<1>7. ~(\E w \in Watchers : Swap(w)) \/ \E w \in Watchers : \E h \in Owned :
        Swap(w) /\ handles' = Closed(h) /\ Owned' = (Owned \ {h}) \cup {opened[w]}
  BY OwnedKeeps
<1> QED  BY <1>2, <1>4, <1>5, <1>6, <1>7, HandleSteps

-----------------------------------------------------------------------------
(* What the handler writes to *)

\* rebuildHandler ends with a handler that has what the core has, since c.mu keeps
\* the core as it is meanwhile.
LEMMA BuiltKeeps ==
  ASSUME Base, Distinct, Opened, Built, [Next]_vars
  PROVE  Built'
<1>1. HasFile' = HasFile /\ HasFile \subseteq Levels  BY Fixed, Levelled
<1>2. ASSUME UNCHANGED <<handler, core>>,
             \A v \in Watchers : /\ pc'[v] = "default" <=> pc[v] = "default"
                                 /\ pc'[v] = "writers" <=> pc[v] = "writers"
      PROVE  Built'
  BY <1>1, <1>2 DEF Built
<1>3. ASSUME NEW w \in Watchers, Swap(w)
      PROVE  Built'
  <2>1. \A v \in Watchers : pc'[v] = IF v = w THEN "default" ELSE pc[v]
    BY <1>3 DEF Swap, Goto, Base, WatchersOK
  <2>2. \A v \in Watchers : v # w => pc[v] # "writers"
    BY <1>3 DEF Swap, Base, WatchersOK, Mutex
  <2> QED  BY <2>1, <2>2 DEF Built
<1>4. ASSUME NEW w \in Watchers, RebuildDefault(w)
      PROVE  Built'
  <2>1. pc'[w] = "writers"
    BY <1>4 DEF RebuildDefault, Goto, Base, WatchersOK
  <2>2. handler'.defaultWriter = core'.logFile
    BY <1>4 DEF RebuildDefault, Base, HandlesOK
  <2> QED  BY <2>1, <2>2 DEF Built
<1>5. ASSUME NEW w \in Watchers, RebuildWriters(w)
      PROVE  Built'
  <2>1. handler.defaultWriter = core.logFile /\ core' = core
    BY <1>5 DEF RebuildWriters, Built
  <2>2. /\ handler'.defaultWriter = handler.defaultWriter
        /\ \A l \in HasFile : handler'.writers[l] = <<core.logFile, core.levelFile[l]>>
    BY <1>1, <1>5 DEF RebuildWriters, Base, HandlesOK
  <2> QED  BY <1>1, <2>1, <2>2 DEF Built
<1>6. ASSUME NEW w \in Watchers, Deliver(w) \/ Lock(w) \/ OpenLogFile(w) \/ OpenFails(w)
      PROVE  Built'
  <2>1. UNCHANGED <<handler, core>>
    BY <1>6 DEF Deliver, Lock, OpenLogFile, OpenFails
  <2>2. \A v \in Watchers : /\ pc'[v] = "default" <=> pc[v] = "default"
                            /\ pc'[v] = "writers" <=> pc[v] = "writers"
    BY <1>6 DEF Deliver, Lock, OpenLogFile, OpenFails, Goto, Base, WatchersOK
  <2> QED  BY <1>2, <2>1, <2>2
<1>7. CASE CloseWatchers
  <2>1. UNCHANGED <<handler, core>>  BY <1>7 DEF CloseWatchers
  <2>2. \A v \in Watchers : /\ pc'[v] = "default" <=> pc[v] = "default"
                            /\ pc'[v] = "writers" <=> pc[v] = "writers"
    BY <1>7 DEF CloseWatchers
  <2> QED  BY <1>2, <2>1, <2>2
<1>8. CASE UNCHANGED <<handler, core, pc>>
  BY <1>2, <1>8
<1>9. \/ UNCHANGED <<handler, core, pc>>
      \/ \E w \in Watchers : Reopen(w) \/ OpenFails(w)
      \/ CloseWatchers
  BY DEF Next, vars, Rename, Create, Emit, Write, CloseLogFile, CloseDefault, CloseLevels,
         reopening
<1> QED  BY <1>3, <1>4, <1>5, <1>6, <1>7, <1>8, <1>9 DEF Reopen

-----------------------------------------------------------------------------
(* Lines *)

\* Who holds c.mu disturbs every line; who does not finds the handler complete.
LEMMA UndisturbedKeeps ==
  ASSUME Base, Distinct, Intact, Built, Undisturbed, [Next]_vars
  PROVE  Undisturbed'
<1>1. line \in [todo : Seq(Indices), missed : BOOLEAN, disturbed : BOOLEAN]
  BY DEF Base, HandlesOK
<1>2. mu = None => \A w \in Watchers : pc[w] \notin {"open", "swap", "default", "writers"}
  BY Levelled DEF Base, WatchersOK, Mutex
<1>3. closing' = "no" => closing = "no"  BY ForGood
<1>4. CASE Disturb
  <2>1. /\ line'.todo = line.todo /\ line'.missed = line.missed
        /\ line'.disturbed = (line.disturbed \/ line.todo # <<>>)
    BY <1>1, <1>4 DEF Disturb
  <2> QED  BY <2>1, <1>3 DEF Undisturbed
<1>5. ASSUME NEW v \in Levels \cup {Other}, Emit(v)
      PROVE  Undisturbed'
  <2>1. /\ line' = [todo |-> writerForLevel(v), missed |-> FALSE,
                    disturbed |-> mu # None]
        /\ UNCHANGED <<handles, mu, closing>>
    BY <1>5 DEF Emit, reopening
  <2>2. ASSUME mu = None, closing = "no"
        PROVE  \A i \in 1..Len(writerForLevel(v)) : handles[writerForLevel(v)[i]].open
    <3>1. \A h \in Owned : handles[h].open  BY <2>2 DEF Intact
    <3>2. /\ handler.defaultWriter = core.logFile
          /\ \A l \in HasFile : handler.writers[l] = <<core.logFile, core.levelFile[l]>>
      BY <1>2, <2>2 DEF Built
    <3>3. CASE v \in HasFile
      <4>1. writerForLevel(v) = <<core.logFile, core.levelFile[v]>>
        BY <3>2, <3>3 DEF writerForLevel
      <4>2. core.logFile \in Owned /\ core.levelFile[v] \in Owned
        BY <3>3 DEF Owned
      <4> QED  BY <3>1, <4>1, <4>2
    <3>4. CASE v \notin HasFile
      <4>1. writerForLevel(v) = <<core.logFile>>
        BY <3>2, <3>4 DEF writerForLevel
      <4>2. core.logFile \in Owned  BY DEF Owned
      <4> QED  BY <3>1, <4>1, <4>2
    <3> QED  BY <3>3, <3>4
  <2> QED  BY <2>1, <2>2 DEF Undisturbed
<1>6. CASE Write
  <2>1. UNCHANGED <<handles, mu, closing>> /\ line.todo # <<>>
    BY <1>6 DEF Write, reopening
  <2>2. CASE handles[Head(line.todo)].open
    <3>1. line' = [line EXCEPT !.todo = Tail(line.todo)]
      BY <1>6, <2>2 DEF Write
    <3>2. /\ Len(Tail(line.todo)) = Len(line.todo) - 1
          /\ \A i \in 1..Len(line.todo) - 1 : Tail(line.todo)[i] = line.todo[i + 1]
      BY <1>1, <2>1
    <3>3. /\ line'.todo = Tail(line.todo) /\ line'.missed = line.missed
          /\ line'.disturbed = line.disturbed
      BY <1>1, <3>1
    <3>4. Len(line.todo) \in Nat  BY <1>1
    <3>5. \A i \in 1..Len(line.todo) - 1 : i + 1 \in 1..Len(line.todo)  BY <3>4
    <3> QED  BY <2>1, <3>2, <3>3, <3>5 DEF Undisturbed
  <2>3. CASE ~handles[Head(line.todo)].open
    <3>1. line' = [line EXCEPT !.todo = <<>>, !.missed = TRUE]
      BY <1>6, <2>3 DEF Write
    <3>2. 1 \in 1..Len(line.todo) /\ Head(line.todo) = line.todo[1]
      BY <1>1, <2>1
    <3>3. closing = "no" => line.disturbed  BY <2>1, <2>3, <3>2 DEF Undisturbed
    <3> QED  BY <1>1, <2>1, <3>1, <3>3 DEF Undisturbed
  <2> QED  BY <2>2, <2>3
<1>7. CASE line' = line
  <2>1. SUFFICES ASSUME line.todo # <<>>, ~line.disturbed, closing' = "no"
                 PROVE  /\ mu' = None
                        /\ \A i \in 1..Len(line.todo) : handles'[line.todo[i]].open
    BY <1>7, <1>3 DEF Undisturbed
  <2>2. /\ mu = None
        /\ \A i \in 1..Len(line.todo) : handles[line.todo[i]].open
    BY <1>3, <2>1 DEF Undisturbed
  <2>3. ~Disturb
    BY <1>1, <1>7, <2>1 DEF Disturb
  <2>4. UNCHANGED <<handles, mu>>
    BY <1>2, <1>3, <2>1, <2>2, <2>3
       DEF Next, vars, reopening, Rename, Create, Reopen, Deliver, Lock, OpenLogFile, Swap,
           RebuildDefault, RebuildWriters, OpenFails, Emit, Write, CloseLogFile,
           CloseDefault, CloseWatchers, CloseLevels
  <2> QED  BY <2>2, <2>4
<1> QED  BY <1>4, <1>5, <1>6, <1>7, LineSteps

-----------------------------------------------------------------------------
(* CloseLogFile *)

\* The default file is closed first, so that what is left open are the levels' files.
LEMMA UnracedKeeps ==
  ASSUME Base, Distinct, Opened, Accounted, Unraced, [Next]_vars
  PROVE  Unraced'
<1>1. SUFFICES ASSUME ~raced'
               PROVE  /\ closing' # "no" =>
                           /\ \A w \in Watchers : pc'[w] \in {"idle", "off", "lock"}
                           /\ ~handles'[core'.logFile].open
                      /\ closing' \in {"levels", "closed", "failed"} =>
                           \A w \in Watchers : pc'[w] = "off"
                      /\ closing' \in {"closed", "failed"} =>
                           \A h \in Indices' \ overwritten : ~handles'[h].open
  BY Fixed DEF Unraced
<1>2. core.logFile \in Indices  BY DEF Base, HandlesOK
<1>3. CASE CloseDefault
  <2>1. \A w \in Watchers : pc'[w] \in {"idle", "off"}
    BY <1>1, <1>3 DEF CloseDefault, Reopening, reopening
  <2>2. ~handles'[core'.logFile].open
    BY <1>2, <1>3, Closes, BaseTypes DEF CloseDefault
  <2>3. closing' = "watchers"  BY <1>3 DEF CloseDefault
  <2> QED  BY <2>1, <2>2, <2>3
<1>4. CASE CloseWatchers
  <2>1. ~raced /\ closing = "watchers" /\ closing' = "levels" /\ UNCHANGED <<handles, core>>
    BY <1>1, <1>4 DEF CloseWatchers
  <2>2. \A w \in Watchers : pc'[w] = "off"
    BY <1>1, <1>4 DEF CloseWatchers, Reopening
  <2> QED  BY <2>1, <2>2 DEF Unraced
<1>5. CASE CloseLevels
  <2>1. ~raced /\ closing = "levels" /\ UNCHANGED <<pc, core>>
    BY <1>1, <1>5 DEF CloseLevels, reopening
  <2>2. (\A w \in Watchers : pc[w] = "off") /\ ~handles[core.logFile].open
    BY <2>1 DEF Unraced
  <2>3. \A w \in Watchers : opened[w] = 0
    BY <2>2 DEF Opened
  <2>4. \A h \in Indices \ overwritten : handles[h].open => \E l \in HasFile : core.levelFile[l] = h
    BY <2>2, <2>3 DEF Accounted, Owned, Indices
  <2>5. Indices' = Indices
    BY <1>5, ClosesLevels DEF Indices
  <2>6. \A h \in Indices \ overwritten : ~handles'[h].open
    BY <1>5, <2>4, ClosesLevels
  <2>7. ~handles'[core'.logFile].open  BY <1>2, <2>1, <2>2, History
  <2> QED  BY <1>2, <2>1, <2>2, <2>5, <2>6, <2>7
<1>6. ASSUME NEW w \in Watchers, Reopen(w) \/ OpenFails(w)
      PROVE  \/ closing' = "no"
             \/ closing' = "watchers" /\ closing = "watchers" /\ Deliver(w)
  <2>1. CASE Deliver(w)
    <3>1. closing' = closing /\ ~raced /\ pc[w] = "idle"
      BY <1>1, <2>1 DEF Deliver
    <3> QED  BY <2>1, <3>1 DEF Unraced, Base, RestOK
  <2>2. CASE Lock(w)
    BY <1>1, <2>2 DEF Lock
  <2>3. CASE OpenLogFile(w) \/ Swap(w) \/ RebuildDefault(w) \/ RebuildWriters(w) \/ OpenFails(w)
    <3>1. closing' = closing /\ ~raced /\ pc[w] \in {"open", "swap", "default", "writers"}
      BY <1>1, <2>3 DEF OpenLogFile, Swap, RebuildDefault, RebuildWriters, OpenFails
    <3> QED  BY <3>1 DEF Unraced
  <2> QED  BY <1>6, <2>1, <2>2, <2>3 DEF Reopen
<1>7. ASSUME NEW w \in Watchers, Deliver(w), closing = "watchers"
      PROVE  /\ \A v \in Watchers : pc'[v] \in {"idle", "off", "lock"}
             /\ ~handles'[core'.logFile].open
  <2>1. /\ UNCHANGED <<handles, core>> /\ ~raced
        /\ pc' = [pc EXCEPT ![w] = "lock"]
    BY <1>1, <1>7 DEF Deliver, Goto
  <2> QED  BY <1>7, <2>1 DEF Unraced, Base, WatchersOK
<1>8. CASE UNCHANGED <<handles, core, pc, closing, raced>>
  BY <1>1, <1>8 DEF Unraced, Indices
<1>9. \/ UNCHANGED <<handles, core, pc, closing, raced>>
      \/ \E w \in Watchers : Reopen(w) \/ OpenFails(w)
      \/ CloseDefault \/ CloseWatchers \/ CloseLevels
  BY DEF Next, vars, Rename, Create, Emit, Write, CloseLogFile, reopening
<1> QED  BY <1>3, <1>4, <1>5, <1>6, <1>7, <1>8, <1>9

-----------------------------------------------------------------------------
(* Which file is the newest *)

\* No two watchers have opened a file.
LEMMA OneSwap ==
  ASSUME Base, NEW v \in Watchers, NEW w \in Watchers, v # w,
         pc[w] \in {"open", "swap", "default", "writers"}
  PROVE  pc[v] \notin {"open", "swap", "default", "writers"}
BY DEF Base, WatchersOK, Mutex

\* The file at p is that of f, or one that a watcher has yet to open or to put in
\* place of f, after any step but a swap.
LEMMA FreshKeeps ==
  ASSUME Base, Distinct, Opened, [Next]_vars, closing' = "no", ~gaveUp', ~gaveUp,
         NEW p \in Paths, NEW f \in Indices, Fresh(f, p),
         NEW v \in Watchers, PathOf(v) = p, pc[v] # "off",
         ~\E w \in Watchers : Swap(w)
  PROVE  Fresh(f, p)'
<1>1. \A w \in Watchers : PathOf(w)' = PathOf(w)
  BY Fixed
<1>2. /\ \A i \in Indices : handles'[i].gen = handles[i].gen
      /\ \A w \in Watchers : pc[w] = "swap" => opened[w] \in Indices
  BY History DEF Opened
<1>3. ASSUME UNCHANGED <<gen, there, opened>>,
             \A w \in Watchers : /\ PathOf(w) = p /\ (events[w] > 0 \/ pc[w] \in {"lock", "open"})
                                      => events'[w] > 0 \/ pc'[w] \in {"lock", "open"}
                                 /\ pc'[w] = "swap" <=> pc[w] = "swap"
      PROVE  Fresh(f, p)'
  <2>1. CASE Told(p)
    BY <1>1, <1>3, <2>1 DEF Told, Fresh
  <2>2. CASE ~Told(p)
    BY <1>1, <1>2, <1>3, <2>2 DEF Fresh
  <2> QED  BY <2>1, <2>2
<1>4. ASSUME NEW q \in Configured, Rename(q)
      PROVE  Fresh(f, p)'
  <2>1. /\ UNCHANGED <<gen, handles, pc, opened>>
        /\ \A w \in Watchers : /\ events'[w] >= events[w]
                               /\ pc[w] # "off" /\ PathOf(w) = q => events'[w] > 0
    BY <1>4 DEF Rename, Base, WatchersOK
  <2>2. \A w \in Watchers : events[w] \in Nat /\ events'[w] \in Nat
    BY BaseKeeps DEF Base, WatchersOK
  <2>3. CASE p = q
    BY <1>1, <2>1, <2>3 DEF Fresh, Told
  <2>4. CASE p # q
    <3>1. there'[p] = there[p]
      BY <1>4, <2>4 DEF Rename, Base, FilesOK
    <3>2. CASE Told(p)
      BY <1>1, <2>1, <2>2, <3>2 DEF Told, Fresh
    <3>3. CASE ~Told(p)
      BY <1>1, <2>1, <3>1, <3>3 DEF Fresh
    <3> QED  BY <3>2, <3>3
  <2> QED  BY <2>3, <2>4
<1>5. ASSUME NEW q \in Configured, Create(q)
      PROVE  Fresh(f, p)'
  <2>1. UNCHANGED <<handles, pc, opened, events>> /\ ~there[q]
    BY <1>5 DEF Create, reopening
  <2>2. CASE Told(p)
    BY <1>1, <2>1, <2>2 DEF Told, Fresh
  <2>3. CASE ~Told(p)
    <3>1. p # q  BY <2>1, <2>3 DEF Fresh
    <3>2. there'[p] = there[p] /\ gen'[p] = gen[p]
      BY <1>5, <3>1 DEF Create, Base, FilesOK
    <3> QED  BY <1>1, <2>1, <2>3, <3>2 DEF Fresh
  <2> QED  BY <2>2, <2>3
<1>6. ASSUME NEW w \in Watchers, Deliver(w) \/ Lock(w)
      PROVE  Fresh(f, p)'
  <2>1. UNCHANGED <<gen, there, opened>>
    BY <1>6 DEF Deliver, Lock, files
  <2>2. \A u \in Watchers : /\ PathOf(u) = p /\ (events[u] > 0 \/ pc[u] \in {"lock", "open"})
                                 => events'[u] > 0 \/ pc'[u] \in {"lock", "open"}
                            /\ pc'[u] = "swap" <=> pc[u] = "swap"
    BY <1>6 DEF Deliver, Lock, Goto, Base, WatchersOK
  <2> QED  BY <1>3, <2>1, <2>2
<1>7. ASSUME NEW w \in Watchers, OpenLogFile(w)
      PROVE  Fresh(f, p)'
  <2>1. \A u \in Watchers : u # w => pc[u] # "swap" /\ pc'[u] = pc[u] /\ opened'[u] = opened[u]
                                     /\ events'[u] = events[u]
    BY <1>7, OneSwap DEF OpenLogFile, Goto, Base, WatchersOK
  <2>2. pc'[w] = "swap" /\ pc[w] = "open" /\ opened'[w] = Len(handles) + 1
    BY <1>7 DEF OpenLogFile, Goto, Base, WatchersOK
  <2>3. CASE PathOf(w) = p
    <3>1. there'[p]
      BY <1>7, <2>3 DEF OpenLogFile, Base, FilesOK
    <3>2. handles'[Len(handles) + 1].gen = gen'[p]
      <4>1. handles'[Len(handles) + 1] =
              [path |-> PathOf(w), gen |-> gen'[PathOf(w)], open |-> TRUE]
        BY <1>7, Opens
      <4> QED  BY <2>3, <4>1
    <3> QED  BY <1>1, <2>1, <2>2, <2>3, <3>1, <3>2 DEF Fresh
  <2>4. CASE PathOf(w) # p
    <3>1. there'[p] = there[p] /\ gen'[p] = gen[p]
      BY <1>7, <2>4 DEF OpenLogFile, Base, FilesOK
    <3>2. CASE Told(p)
      BY <1>1, <2>1, <2>4, <3>2 DEF Told, Fresh
    <3>3. CASE ~Told(p)
      BY <1>1, <1>2, <2>1, <2>2, <2>4, <3>1, <3>3 DEF Fresh
    <3> QED  BY <3>2, <3>3
  <2> QED  BY <2>3, <2>4
<1>8. ASSUME NEW w \in Watchers, RebuildDefault(w) \/ RebuildWriters(w)
      PROVE  Fresh(f, p)'
  <2>1. UNCHANGED <<gen, there, opened>>
    BY <1>8 DEF RebuildDefault, RebuildWriters, files
  <2>2. \A u \in Watchers : /\ PathOf(u) = p /\ (events[u] > 0 \/ pc[u] \in {"lock", "open"})
                                 => events'[u] > 0 \/ pc'[u] \in {"lock", "open"}
                            /\ pc'[u] = "swap" <=> pc[u] = "swap"
    BY <1>8 DEF RebuildDefault, RebuildWriters, Goto, Base, WatchersOK
  <2> QED  BY <1>3, <2>1, <2>2
<1>9. ASSUME NEW w \in Watchers, OpenFails(w)
      PROVE  Fresh(f, p)'
  <2>1. UNCHANGED <<gen, there, opened, events, pc>>
    BY <1>9 DEF OpenFails, files
  <2> QED  BY <1>3, <2>1
<1>10. CASE UNCHANGED <<gen, there, opened, events, pc>>
  BY <1>3, <1>10
<1>11. \/ UNCHANGED <<gen, there, opened, events, pc>>
       \/ \E q \in Configured : Rename(q) \/ Create(q)
       \/ \E w \in Watchers : Reopen(w) \/ OpenFails(w)
  BY DEF Next, vars, Emit, Write, CloseLogFile, CloseDefault, CloseWatchers, CloseLevels,
         reopening, files
<1> QED
  BY <1>4, <1>5, <1>6, <1>7, <1>8, <1>9, <1>10, <1>11 DEF Reopen

\* A swap puts the file that was opened in place of the old one of its path, and
\* leaves those of the other paths.
LEMMA FreshSwap ==
  ASSUME Base, Distinct, Opened, NEW w \in Watchers, Swap(w), [Next]_vars,
         NEW p \in Paths, NEW f \in Indices, Fresh(f, p),
         NEW g \in Indices, g = IF PathOf(w) = p THEN opened[w] ELSE f
  PROVE  Fresh(g, p)'
<1>1. \A u \in Watchers : PathOf(u)' = PathOf(u)
  BY Fixed
<1>2. \A i \in Indices : handles'[i].gen = handles[i].gen
  BY History
<1>3. UNCHANGED <<gen, there, events>>
  BY DEF Swap, files
<1>4. pc[w] = "swap" /\ pc'[w] = "default"
  BY DEF Swap, Goto, Base, WatchersOK
<1>5. \A u \in Watchers : u # w => pc[u] # "swap" /\ pc'[u] = pc[u]
  BY OneSwap DEF Swap, Goto, Base, WatchersOK
<1>6. CASE Told(p)
  BY <1>1, <1>3, <1>4, <1>5, <1>6 DEF Told, Fresh
<1>7. CASE ~Told(p)
  <2>1. there'[p]  BY <1>3, <1>7 DEF Fresh
  <2>2. handles[g].gen = gen[p]
    <3>1. CASE PathOf(w) = p
      BY <1>4, <1>7, <3>1 DEF Fresh
    <3>2. CASE PathOf(w) # p
      BY <1>5, <1>7, <3>2 DEF Fresh
    <3> QED  BY <3>1, <3>2
  <2>3. handles'[g].gen = gen'[p]  BY <1>2, <1>3, <2>2
  <2> QED  BY <1>4, <1>5, <2>1, <2>3 DEF Fresh
<1> QED  BY <1>6, <1>7

\* That holds for the default file and for every level with a path of its own.
LEMMA AllFreshKeeps ==
  ASSUME Base, Distinct, Opened, AllFresh, [Next]_vars
  PROVE  AllFresh'
<1>1. SUFFICES ASSUME closing' = "no", ~gaveUp'
               PROVE  /\ Fresh(core.logFile, Default)'
                      /\ \A l \in OwnPath : Fresh(core.levelFile[l], levelFilePath[l])'
  BY Fixed DEF AllFresh
<1>2. closing = "no" /\ ~gaveUp
  BY <1>1, ForGood
<1>3. /\ Fresh(core.logFile, Default)
      /\ \A l \in OwnPath : Fresh(core.levelFile[l], levelFilePath[l])
  BY <1>2 DEF AllFresh
<1>4. /\ OwnPath \subseteq HasFile /\ HasFile \subseteq Levels /\ Levels \subseteq Watchers
      /\ Other \in Watchers /\ Other \notin Levels
  BY Levelled DEF OwnPath
<1>5. /\ PathOf(Other) = Default /\ \A l \in OwnPath : PathOf(l) = levelFilePath[l]
      /\ Default \in Paths /\ \A l \in OwnPath : levelFilePath[l] \in Paths
  <2>1. PathOf(Other) = Default /\ \A l \in OwnPath : PathOf(l) = levelFilePath[l]
    BY <1>4 DEF PathOf
  <2>2. \A l \in OwnPath : levelFilePath[l] # None
    BY <1>4 DEF HasFile
  <2> QED  BY <1>4, <2>1, <2>2, Pathed, ConstantsAssumption
<1>6. pc[Other] # "off" /\ \A l \in OwnPath : pc[l] # "off"
  BY <1>2, <1>4 DEF Base, Watched
<1>7. /\ core.logFile \in Indices /\ \A l \in OwnPath : core.levelFile[l] \in Indices
      /\ core.levelFile \in [Levels -> 0..Len(handles)]
  BY <1>4 DEF Base, HandlesOK, Distinct
<1>8. levelFilePath' = levelFilePath  BY Fixed
<1>9. CASE ~\E w \in Watchers : Swap(w)
  <2>1. core' = core  BY <1>9, OwnedKeeps
  <2>2. ASSUME NEW p \in Paths, NEW f \in Indices, Fresh(f, p),
               NEW v \in Watchers, PathOf(v) = p, pc[v] # "off"
        PROVE  Fresh(f, p)'
    BY <1>1, <1>2, <1>9, <2>2, FreshKeeps
  <2>3. Fresh(core.logFile, Default)'
    BY <1>3, <1>4, <1>5, <1>6, <1>7, <2>1, <2>2 DEF Fresh, Told
  <2>4. ASSUME NEW l \in OwnPath
        PROVE  Fresh(core.levelFile[l], levelFilePath[l])'
    BY <1>3, <1>4, <1>5, <1>6, <1>7, <1>8, <2>1, <2>2, <2>4 DEF Fresh, Told
  <2> QED  BY <2>3, <2>4
<1>10. ASSUME NEW w \in Watchers, Swap(w)
       PROVE  /\ Fresh(core.logFile, Default)'
              /\ \A l \in OwnPath : Fresh(core.levelFile[l], levelFilePath[l])'
  <2>1. opened[w] \in Indices
    BY <1>10 DEF Swap, Opened
  <2>2. ASSUME NEW p \in Paths, NEW f \in Indices, Fresh(f, p),
               NEW g \in Indices, g = IF PathOf(w) = p THEN opened[w] ELSE f
        PROVE  Fresh(g, p)'
    BY <1>10, <2>2, FreshSwap
  <2>3. core'.logFile = IF PathOf(w) = Default THEN opened[w] ELSE core.logFile
    BY <1>10, Swaps
  <2>4. \A l \in OwnPath : core'.levelFile[l] =
          IF PathOf(w) = levelFilePath[l] THEN opened[w] ELSE core.levelFile[l]
    <3>1. CASE PathOf(w) = Default
      <4>1. core'.levelFile = core.levelFile  BY <1>10, <3>1, Swaps
      <4> QED  BY <3>1, <4>1 DEF OwnPath
    <3>2. CASE PathOf(w) # Default
      <4>1. PICK k \in HasFile : /\ levelFilePath[k] = PathOf(w)
                                 /\ core'.levelFile = [core.levelFile EXCEPT ![k] = opened[w]]
        BY <1>10, <3>2, Swaps
      <4>2. \A l \in OwnPath : k = l <=> levelFilePath[l] = PathOf(w)
        BY <4>1 DEF OwnPath
      <4> QED  BY <1>4, <1>7, <4>1, <4>2
    <3> QED  BY <3>1, <3>2
  <2>5. Fresh(core.logFile, Default)'
    BY <1>3, <1>5, <1>7, <2>1, <2>2, <2>3 DEF Fresh, Told
  <2>6. ASSUME NEW l \in OwnPath
        PROVE  Fresh(core.levelFile[l], levelFilePath[l])'
    BY <1>3, <1>5, <1>7, <1>8, <2>1, <2>2, <2>4, <2>6 DEF Fresh, Told
  <2> QED  BY <2>5, <2>6
<1> QED  BY <1>9, <1>10

-----------------------------------------------------------------------------
(* initLoggerCore *)

\* As many files can be opened as there are names, and all but the first have one.
LEMMA NamedFinite ==
  ASSUME NEW per \in Configs
  PROVE  Cardinality(Named(per)) \in Nat /\ \A x \in Named(per) : per[x] \in Paths
<1>1. IsFiniteSet(Named(per)) /\ per \in [Names -> Paths \cup {None}]
  BY FS_Subset, ConstantsAssumption DEF Named
<1> QED  BY <1>1, FS_CardinalityType DEF Named

\* What initLoggerCore sets up: the first handle is the default file's, each of the
\* others is that of one level or was overwritten.  All are open, or, if it failed,
\* those alone that were overwritten.
LEMMA Starts ==
  ASSUME Init
  PROVE  /\ handles \in Seq(Files) /\ Len(handles) \in Nat /\ Len(handles) >= 1
         /\ levelFilePath \in [Levels -> Paths \cup {None}]
         /\ overwritten \subseteq Indices \ {1}
         /\ closing \in {"no", "failed"} /\ (closing = "failed" => MaxFails > 0)
         /\ core.logFile = 1 /\ core.levelFile \in [Levels -> 0..Len(handles)]
         /\ core = [logFile |-> 1, levelFile |-> core.levelFile]
         /\ handles[1].path = Default
         /\ \A i \in Indices : /\ handles[i].gen = 1
                               /\ handles[i].open <=> closing = "no" \/ i \in overwritten
         /\ \A l \in HasFile : /\ core.levelFile[l] \in Indices \ {1}
                               /\ handles[core.levelFile[l]].path = levelFilePath[l]
         /\ \A l \in Levels : core.levelFile[l] = 0 <=> l \notin HasFile
         /\ \A l, k \in HasFile : core.levelFile[l] = core.levelFile[k] => l = k
         /\ \A i \in Indices \ overwritten : i = 1 \/ \E l \in HasFile : core.levelFile[l] = i
         /\ handler = [defaultWriter |-> 1,
                       writers |-> [l \in Levels |->
                         IF core.levelFile[l] = 0 THEN <<>> ELSE <<1, core.levelFile[l]>>]]
<1>1. PICK per \in Configs : \E n \in 1..Cardinality(Named(per)) + 1 :
        \E name \in [2..n -> Named(per)], fd \in [Levels -> 0..n] :
          initLoggerCore(per, n, name, fd)
  BY DEF Init
<1>2. PICK n \in 1..Cardinality(Named(per)) + 1 :
        \E name \in [2..n -> Named(per)], fd \in [Levels -> 0..n] :
          initLoggerCore(per, n, name, fd)
  BY <1>1
<1>3. PICK name \in [2..n -> Named(per)], fd \in [Levels -> 0..n] :
        initLoggerCore(per, n, name, fd)
  BY <1>2
<1> DEFINE all == n = Cardinality(Named(per)) + 1
           file(i) == [path |-> IF i = 1 THEN Default ELSE per[name[i]],
                       gen |-> 1, open |-> all \/ i \in overwritten]
<1>4. /\ \A l \in Levels : IsLast(name, l, fd[l])
      /\ all \/ MaxFails > 0
      /\ closing = IF all THEN "no" ELSE "failed"
      /\ levelFilePath = [l \in Levels |-> IF fd[l] = 0 THEN None ELSE per[name[fd[l]]]]
      /\ overwritten = (2..n) \ {fd[l] : l \in Levels}
      /\ handles = [i \in 1..n |-> file(i)]
      /\ core = [logFile |-> 1, levelFile |-> fd]
      /\ handler = [defaultWriter |-> 1,
                    writers |-> [l \in Levels |-> IF fd[l] = 0 THEN <<>> ELSE <<1, fd[l]>>]]
  BY <1>3 DEF initLoggerCore
<1> HIDE DEF all
<1>5. n \in Nat /\ n >= 1 /\ \A i \in 2..n : per[name[i]] \in Paths
  BY <1>2, <1>3, NamedFinite
<1>6. \A l \in Levels : /\ fd[l] \in 0..n
                        /\ fd[l] # 0 => fd[l] \in 2..n /\ ParseLogLevel(name[fd[l]]) = l
  BY <1>3, <1>4 DEF IsLast
<1>7. \A i \in 1..n : file(i) \in Files /\ file(i).gen = 1
                      /\ file(i).path = (IF i = 1 THEN Default ELSE per[name[i]])
                      /\ (file(i).open <=> all \/ i \in overwritten)
  <2> SUFFICES ASSUME NEW i \in 1..n
               PROVE  /\ file(i) \in Files /\ file(i).gen = 1
                      /\ file(i).path = (IF i = 1 THEN Default ELSE per[name[i]])
                      /\ (file(i).open <=> all \/ i \in overwritten)
    OBVIOUS
  <2>1. (IF i = 1 THEN Default ELSE per[name[i]]) \in Paths
    BY <1>5, ConstantsAssumption
  <2> QED  BY <2>1 DEF Files
<1> HIDE DEF file
<1>8. /\ handles \in Seq(Files) /\ Len(handles) = n
      /\ \A i \in 1..n : handles[i] = file(i)
  <2>1. handles = [i \in 1..n |-> file(i)]  BY <1>4
  <2>2. handles \in [1..n -> Files] /\ \A i \in 1..n : handles[i] = file(i)
    BY <1>7, <2>1
  <2> QED  BY <1>5, <2>2
<1>9. Indices = 1..n  BY <1>8 DEF Indices
<1>10. \A l \in Levels : /\ fd[l] = 0 <=> l \notin HasFile
                         /\ levelFilePath[l] = IF fd[l] = 0 THEN None ELSE per[name[fd[l]]]
  BY <1>4, <1>5, <1>6, ConstantsAssumption DEF HasFile
<1>11. HasFile \subseteq Levels  BY Levelled
<1>12. levelFilePath \in [Levels -> Paths \cup {None}]
  BY <1>4, <1>5, <1>6
<1>13. /\ overwritten \subseteq Indices \ {1}
       /\ \A i \in Indices \ overwritten : i = 1 \/ \E l \in HasFile : fd[l] = i
  BY <1>4, <1>5, <1>9, <1>10
<1>14. closing \in {"no", "failed"} /\ (closing = "failed" => MaxFails > 0)
       /\ (closing = "no" <=> all)
  BY <1>4
<1>15. core.levelFile = fd /\ core.logFile = 1  BY <1>4
<1>16. handles[1].path = Default
  BY <1>5, <1>7, <1>8
<1>17. \A l \in HasFile : /\ fd[l] \in Indices \ {1}
                          /\ handles[fd[l]].path = levelFilePath[l]
  BY <1>5, <1>6, <1>7, <1>8, <1>9, <1>10, <1>11
<1>18. \A l, k \in HasFile : fd[l] = fd[k] => l = k
  BY <1>6, <1>10, <1>11
<1>19. \A i \in Indices : /\ handles[i].gen = 1
                          /\ handles[i].open <=> closing = "no" \/ i \in overwritten
  BY <1>7, <1>8, <1>9, <1>14
<1>20. /\ core = [logFile |-> 1, levelFile |-> fd]
       /\ handler = [defaultWriter |-> 1,
                     writers |-> [l \in Levels |-> IF fd[l] = 0 THEN <<>> ELSE <<1, fd[l]>>]]
  BY <1>4
<1>21. fd \in [Levels -> 0..n] /\ \A l \in Levels : fd[l] = 0 <=> l \notin HasFile
  BY <1>3, <1>10
<1> QED
  BY <1>5, <1>8, <1>12, <1>13, <1>14, <1>15, <1>16, <1>17, <1>18, <1>19, <1>20, <1>21

\* initLoggerCore sets up what is typed ...
LEMMA InitBase ==
  ASSUME Init
  PROVE  Base
<1>1. FilesOK
  BY ConstantsAssumption DEF Init, FilesOK
<1>2. HandlesOK
  <2>1. 1 \in Indices /\ HasFile \subseteq Levels  BY Starts, Levelled DEF Indices
  <2>2. core \in [logFile : Indices, levelFile : [Levels -> 0..Len(handles)]]
    BY <2>1, Starts
  <2>3. \A l \in Levels :
          (IF core.levelFile[l] = 0 THEN <<>> ELSE <<1, core.levelFile[l]>>) \in Seq(Indices)
    BY <2>1, Starts
  <2>4. handler \in [defaultWriter : Indices, writers : [Levels -> Seq(Indices)]]
    <3> DEFINE f == [l \in Levels |->
                       IF core.levelFile[l] = 0 THEN <<>> ELSE <<1, core.levelFile[l]>>]
    <3>1. handler = [defaultWriter |-> 1, writers |-> f]  BY Starts
    <3>2. f \in [Levels -> Seq(Indices)]  BY <2>3
    <3> HIDE DEF f
    <3> QED  BY <2>1, <3>1, <3>2
  <2>5. line \in [todo : Seq(Indices), missed : BOOLEAN, disturbed : BOOLEAN]
    BY DEF Init, NoLine
  <2>6. overwritten \subseteq Indices  BY Starts
  <2> QED  BY <2>2, <2>4, <2>5, <2>6, Starts DEF HandlesOK
<1>3. PICK unwatched \in {{}} \cup {{w} : w \in {v \in HasFile \cup {Other} : MaxFails > 0}} :
        /\ pc = [w \in Watchers |->
                  IF closing = "no" /\ w \in (HasFile \cup {Other}) \ unwatched
                  THEN "idle" ELSE "off"]
        /\ fails = IF closing = "failed" THEN 1 ELSE Cardinality(unwatched)
        /\ gaveUp = (unwatched # {})
  BY DEF Init, startWatchers
<1>4. Watched
  BY <1>3, Levelled, ConstantsAssumption DEF Watched, HasFile, PathOf
<1>5. WatchersOK
  <2>1. rotations = 0 /\ mu = None /\ events = [w \in Watchers |-> 0]
    BY DEF Init
  <2>2. /\ tries \in [Watchers -> 0..maxReopenRetries - 1]
        /\ opened \in [Watchers -> 0..Len(handles)]
    <3>1. 0 \in 0..maxReopenRetries - 1 /\ 0 \in 0..Len(handles)
      BY ConstantsAssumption, Starts
    <3> QED  BY <3>1 DEF Init
  <2>3. Mutex
    BY <1>3, <2>1, Levelled DEF Mutex
  <2>4. pc \in [Watchers -> {"off", "idle", "lock", "open", "swap", "default", "writers"}]
    BY <1>3
  <2> QED  BY <2>1, <2>2, <2>3, <2>4 DEF WatchersOK
<1>6. fails \in 0..MaxFails
  <2>1. CASE unwatched = {} /\ closing = "no"
    BY <1>3, <2>1, ConstantsAssumption, FS_EmptySet
  <2>2. CASE unwatched # {} /\ closing = "no"
    <3>1. PICK w : unwatched = {w} /\ MaxFails > 0  BY <1>3, <2>2
    <3>2. Cardinality({w}) = 1  BY FS_Singleton
    <3> QED  BY <1>3, <2>2, <3>1, <3>2, ConstantsAssumption
  <2>3. CASE closing = "failed"
    BY <1>3, <2>3, Starts, ConstantsAssumption
  <2> QED  BY <2>1, <2>2, <2>3, Starts
<1>7. RestOK
  BY <1>3, <1>6, Starts DEF Init, RestOK
<1> QED  BY <1>1, <1>2, <1>4, <1>5, <1>7 DEF Base

\* ... and complete, open and current.
LEMMA InitParts ==
  ASSUME Init
  PROVE  /\ Distinct /\ Opened /\ Accounted /\ Intact /\ Built
         /\ Undisturbed /\ Unraced /\ AllFresh
<1>1. \A w \in Watchers : /\ pc[w] \in {"idle", "off"} /\ opened[w] = 0
                          /\ closing = "failed" => pc[w] = "off"
  BY DEF Init, startWatchers
<1>2. 1 \in Indices  BY Starts DEF Indices
<1>3. Owned \subseteq Indices /\ Indices \ overwritten \subseteq Owned
  BY <1>2, Starts DEF Owned
<1>4. Distinct  BY <1>2, Starts DEF Distinct
<1>5. Opened  BY <1>1 DEF Opened
<1>6. Accounted  BY <1>3 DEF Accounted
<1>7. Intact  BY <1>3, Starts DEF Intact
<1>8. Built
  <2>1. handler.defaultWriter = core.logFile
    BY Starts
  <2>2. HasFile \subseteq Levels  BY Levelled
  <2>3. \A l \in HasFile : handler.writers[l] = <<core.logFile, core.levelFile[l]>>
    BY <2>2, Starts
  <2> QED  BY <2>1, <2>3 DEF Built
<1>9. Undisturbed  BY DEF Init, NoLine, Undisturbed
<1>10. Unraced  BY <1>1, <1>2, <1>3, Starts DEF Unraced
<1>11. AllFresh
  <2>1. \A p \in Paths : there[p] /\ gen[p] = 1  BY DEF Init
  <2>2. ASSUME NEW p \in Paths, NEW f \in Indices
        PROVE  Fresh(f, p)
    BY <1>1, <2>1, Starts DEF Fresh
  <2>3. OwnPath \subseteq HasFile /\ \A l \in OwnPath : levelFilePath[l] \in Paths
    BY Levelled, Starts DEF OwnPath, HasFile
  <2> QED  BY <1>2, <2>2, <2>3, Starts, ConstantsAssumption DEF AllFresh
<1> QED  BY <1>4, <1>5, <1>6, <1>7, <1>8, <1>9, <1>10, <1>11

-----------------------------------------------------------------------------
(* The theorems *)

\* What the lemmas above keep implies the inductive invariant as LogFilesInv states it.
Kept == /\ Base /\ Distinct /\ Opened /\ Accounted /\ Intact /\ Built
        /\ Undisturbed /\ Unraced /\ AllFresh

\* They imply more than IInv says of types, and else the same.
LEMMA KeptIInv == Kept => IInv
BY BaseTypes DEF Kept, IInv, Base

\* The inductive invariant holds in every state: of the log files a core has opened,
\* each open one is the core's own or on the way to be, and what has not been told of
\* is current.
THEOREM Invariance == Spec => []IInv
<1>1. Init => Kept
  BY InitBase, InitParts DEF Kept
<1>2. Kept /\ [Next]_vars => Kept'
  BY BaseKeeps, DistinctKeeps, OpenedKeeps, AccountedKeeps, IntactKeeps, BuiltKeeps,
     UndisturbedKeeps, UnracedKeeps, AllFreshKeeps DEF Kept
<1> QED  BY <1>1, <1>2, KeptIInv, PTL DEF Spec

\* Every variable keeps to its type: indices are of handles that exist, and no file is
\* created more often than its path is rotated.
THEOREM TypeCorrect == Spec => []TypeOK
<1>1. IInv => TypeOK  BY DEF IInv
<1> QED  BY <1>1, Invariance, PTL

\* However rotations and reopens of any number of levels overlap, once all are dealt
\* with lines go to the files that are at their paths now (reopenFile, rebuildHandler).
THEOREM CurrentCorrect == Spec => []Current
<1>1. ASSUME IInv, Quiet, closing = "no", ~gaveUp
      PROVE  AllCurrent
  <2> USE <1>1 DEF IInv
  <2>1. \A w \in Watchers : events[w] = 0 /\ pc[w] \in {"idle", "off"}
    BY DEF Quiet, Reopening
  <2>2. /\ handler.defaultWriter = core.logFile
        /\ \A l \in HasFile : handler.writers[l] = <<core.logFile, core.levelFile[l]>>
    BY <2>1 DEF Built
  <2>3. ASSUME NEW f \in Owned, NEW p \in Paths, handles[f].path = p, Fresh(f, p)
        PROVE  IsCurrent(f, p)
    <3>1. ~Told(p)  BY <2>1 DEF Told
    <3>2. handles[f].gen = gen[p]  BY <2>1, <2>3, <3>1 DEF Fresh
    <3>3. handles[f].open  BY <1>1, <2>3 DEF Intact
    <3>4. f \in Indices  BY <2>3 DEF Owned, Distinct, TypeOK, Indices
    <3>5. handles[f] \in Files
      <4>1. handles \in Seq(Files)  BY DEF Sequenced
      <4> QED  BY <3>4, <4>1, ElementOfSeq DEF Indices
    <3> QED  BY <2>3, <3>2, <3>3, <3>5 DEF IsCurrent, Files
  <2>4. /\ Fresh(core.logFile, Default)
        /\ \A l \in OwnPath : Fresh(core.levelFile[l], levelFilePath[l])
    BY <1>1 DEF AllFresh
  <2>5. /\ OwnPath \subseteq HasFile /\ HasFile \subseteq Levels /\ Other \notin Levels
        /\ levelFilePath \in [Levels -> Paths \cup {None}]
    BY Levelled DEF OwnPath, TypeOK
  <2>6. IsCurrent(handler.defaultWriter, Default)
    BY <2>2, <2>3, <2>4, ConstantsAssumption DEF Distinct, Owned
  <2>7. ASSUME NEW l \in OwnPath
        PROVE  /\ Len(handler.writers[l]) = 2
               /\ IsCurrent(handler.writers[l][1], Default)
               /\ IsCurrent(handler.writers[l][2], PathOf(l))
    <3>1. handler.writers[l] = <<core.logFile, core.levelFile[l]>>
      BY <2>2, <2>5
    <3>2. PathOf(l) = levelFilePath[l] /\ levelFilePath[l] \in Paths
      BY <2>5 DEF PathOf, HasFile
    <3>3. IsCurrent(core.levelFile[l], PathOf(l))
      BY <2>3, <2>4, <2>5, <3>2 DEF Distinct, Owned
    <3>4. IsCurrent(core.logFile, Default)  BY <2>2, <2>6
    <3> QED  BY <3>1, <3>3, <3>4
  <2> QED  BY <2>6, <2>7 DEF AllCurrent
<1>2. IInv => Current  BY <1>1 DEF Current
<1> QED  BY <1>2, Invariance, PTL

\* Until CloseLogFile is called, a line is dropped only when a reopen ran while it was
\* written: at any other time every file that the handler has is open (emit, Handle).
THEOREM LostOnlyDisturbedCorrect == Spec => []LostOnlyDisturbed
<1>1. IInv => LostOnlyDisturbed  BY DEF IInv, Undisturbed, LostOnlyDisturbed
<1> QED  BY <1>1, Invariance, PTL

\* Files that a reopen replaced are closed; CloseLogFile, unless it overlapped a reopen,
\* and an initLoggerCore that fails leave none open.  Only a file that another name of
\* its level replaced may stay, whatever the names are.
THEOREM NoLeakCorrect == Spec => []NoLeak
<1>1. ASSUME IInv, ~Reopening, ~raced, NEW h \in DOMAIN handles \ overwritten,
             handles[h].open
      PROVE  closing \notin {"closed", "failed"} /\ h \in Owned
  <2> USE <1>1 DEF IInv
  <2>1. h \in Indices \ overwritten
    BY DEF Sequenced, Indices
  <2>2. \A w \in Watchers : opened[w] = 0
    BY DEF Reopening, Opened
  <2>3. h \in Owned  BY <2>1, <2>2 DEF Accounted, Indices
  <2>4. closing \notin {"closed", "failed"}  BY <2>1 DEF Unraced
  <2> QED  BY <2>3, <2>4
<1>2. IInv => NoLeak  BY <1>1 DEF NoLeak, Owned
<1> QED  BY <1>2, Invariance, PTL
==============================================================================
