------------------------------- MODULE LogFiles -------------------------------
(* The log files of one logger core (pkg/logger) while something rotates them: *)
(* a watcher goroutine per configured file that opens a renamed file anew and  *)
(* rebuilds the handler without the handler's lock, loggers that write to what *)
(* the handler has, and CloseLogFile, which takes neither lock and whose core  *)
(* loggers keep.  fsnotify, the file system and the rotation are external;     *)
(* h.mu admits one line at a time.                                             *)
EXTENDS Naturals, Sequences, FiniteSets

CONSTANTS Levels,            \* levels that may have a file of their own
          INFO,              \* the level that stands for unknown ones
          Other,             \* a level that has none
          Names,             \* names of levels, as a configuration may spell them
          ToUpper,           \* name -> the level it spells, or something else
          Paths,             \* paths of the configuration
          Configs,           \* PerLevelFiles: name -> a path, or None
          Default,           \* the path of the default file
          None,
          maxReopenRetries,  \* attempts to open a file anew
          MaxRotations,      \* bound: renames
          MaxFails           \* bound: failures to open a file or to watch one

ASSUME ConstantsAssumption == /\ IsFiniteSet(Levels) /\ IsFiniteSet(Names)
                              /\ INFO \in Levels
                              /\ Default \in Paths
                              /\ Other \notin Levels
                              /\ None \notin Paths \cup Levels \cup {Other}
                              /\ Configs \subseteq [Names -> Paths \cup {None}]
                              /\ maxReopenRetries \in Nat \ {0}
                              /\ MaxRotations \in Nat /\ MaxFails \in Nat

Watchers == Levels \cup {Other}   \* Other: the watcher of the default file

VARIABLES levelFilePath,  \* level -> its path, or None
          gen,            \* path -> how many files were created there
          there,          \* path -> it exists
          handles,        \* the files opened so far: path, gen, open
          overwritten,    \* handles that another name of their level replaced
          core,           \* logFile and levelFile: indices of handles
          handler,        \* defaultWriter and writers (level -> indices)
          mu,             \* who holds c.mu, or None
          pc,             \* watcher -> where its goroutine is
          events,         \* watcher -> renames it has not been told of
          tries,          \* watcher -> attempts of this reopen
          opened,         \* watcher -> the handle it has opened
          line,           \* the line that is being written
          closing,        \* CloseLogFile: no, watchers, levels, closed;
                          \* failed: initLoggerCore gave up, there is no core
          raced,          \* CloseLogFile overlapped a reopen
          gaveUp,         \* a reopen gave up, or a file is not watched
          rotations, fails

conf == <<levelFilePath, overwritten>>
files == <<gen, there>>
reopening == <<mu, pc, events, tries, opened>>
bounds == <<rotations, fails>>
vars == <<levelFilePath, gen, there, handles, overwritten, core, handler, mu, pc, events, tries,
          opened, line, closing, raced, gaveUp, rotations, fails>>

PathOf(w) == IF w = Other THEN Default ELSE levelFilePath[w]
Configured == {PathOf(w) : w \in Watchers} \ {None}
HasFile == {l \in Levels : levelFilePath[l] # None}
Reopening == \E w \in Watchers : pc[w] \notin {"idle", "off"}
NoLine == [todo |-> <<>>, missed |-> FALSE, disturbed |-> FALSE]
Disturb == line' = [line EXCEPT !.disturbed = @ \/ line.todo # <<>>]

ParseLogLevel(n) == IF ToUpper[n] \in Levels THEN ToUpper[n] ELSE INFO
Named(per) == {n \in Names : per[n] # None}

\* i is the last of the files opened for names of level l, or 0.
IsLast(name, l, i) ==
  /\ i # 0 => i \in DOMAIN name /\ ParseLogLevel(name[i]) = l
  /\ \A j \in DOMAIN name : ParseLogLevel(name[j]) = l => j <= i

\* initLoggerCore opens the default file, then one per name in the map's order
\* (i: the file of name[i]), and keeps the last of each level (fd).  If one
\* cannot be opened after n, it closes what it kept and there is no core.
initLoggerCore(per, n, name, fd) ==
  LET all == n = Cardinality(Named(per)) + 1
  IN /\ \A i, j \in 2..n : name[i] = name[j] => i = j
     /\ \A l \in Levels : IsLast(name, l, fd[l])
     /\ all \/ MaxFails > 0
     /\ closing = IF all THEN "no" ELSE "failed"
     /\ levelFilePath = [l \in Levels |-> IF fd[l] = 0 THEN None ELSE per[name[fd[l]]]]
     /\ overwritten = (2..n) \ {fd[l] : l \in Levels}
     /\ handles = [i \in 1..n |-> [path |-> IF i = 1 THEN Default ELSE per[name[i]],
                                   gen |-> 1, open |-> all \/ i \in overwritten]]
     /\ core = [logFile |-> 1, levelFile |-> fd]
     /\ handler = [defaultWriter |-> 1,
                   writers |-> [l \in Levels |-> IF fd[l] = 0 THEN <<>> ELSE <<1, fd[l]>>]]

\* A watcher for the default file and for each that was kept; one cannot be had.
startWatchers ==
  \E unwatched \in {{}} \cup {{w} : w \in {v \in HasFile \cup {Other} : MaxFails > 0}} :
    /\ pc = [w \in Watchers |->
              IF closing = "no" /\ w \in (HasFile \cup {Other}) \ unwatched
              THEN "idle" ELSE "off"]
    /\ closing = "failed" => unwatched = {}
    /\ fails = IF closing = "failed" THEN 1 ELSE Cardinality(unwatched)
    /\ gaveUp = (unwatched # {})

Init ==
  /\ \E per \in Configs : \E n \in 1..Cardinality(Named(per)) + 1 :
       \E name \in [2..n -> Named(per)], fd \in [Levels -> 0..n] :
         initLoggerCore(per, n, name, fd)
  /\ startWatchers
  /\ gen = [p \in Paths |-> 1]
  /\ there = [p \in Paths |-> TRUE]
  /\ mu = None
  /\ events = [w \in Watchers |-> 0]
  /\ tries = [w \in Watchers |-> 0]
  /\ opened = [w \in Watchers |-> 0]
  /\ line = NoLine
  /\ raced = FALSE
  /\ rotations = 0

-----------------------------------------------------------------------------
(* The rotation *)

\* A file is renamed or removed: every watcher of its path is told.
Rename(p) ==
  /\ there[p]
  /\ rotations < MaxRotations
  /\ rotations' = rotations + 1
  /\ there' = [there EXCEPT ![p] = FALSE]
  /\ events' = [w \in Watchers |-> events[w] +
                  (IF pc[w] # "off" /\ PathOf(w) = p THEN 1 ELSE 0)]
  /\ UNCHANGED <<conf, gen, handles, core, handler, mu, pc, tries, opened, line,
                 closing, raced, gaveUp, fails>>

\* The rotation may put a new file there itself.
Create(p) ==
  /\ ~there[p]
  /\ there' = [there EXCEPT ![p] = TRUE]
  /\ gen' = [gen EXCEPT ![p] = @ + 1]
  /\ UNCHANGED <<conf, handles, core, handler, reopening, line, closing, raced,
                 gaveUp, bounds>>

-----------------------------------------------------------------------------
(* watchLoop and reopenFile *)

Goto(w, l) == pc' = [pc EXCEPT ![w] = l]
Closed(h) == [handles EXCEPT ![h].open = FALSE]

Deliver(w) ==
  /\ pc[w] = "idle"
  /\ events[w] > 0
  /\ events' = [events EXCEPT ![w] = @ - 1]
  /\ Goto(w, "lock")
  /\ UNCHANGED <<conf, files, handles, core, handler, mu, tries, opened, line,
                 closing, raced, gaveUp, bounds>>

Lock(w) ==
  /\ pc[w] = "lock"
  /\ mu = None
  /\ mu' = w
  /\ Disturb
  /\ raced' = (raced \/ closing # "no")
  /\ Goto(w, "open")
  /\ UNCHANGED <<conf, files, handles, core, handler, events, tries, opened,
                 closing, gaveUp, bounds>>

OpenLogFile(w) ==
  LET p == PathOf(w)
      g == IF there[p] THEN gen[p] ELSE gen[p] + 1
  IN /\ pc[w] = "open"
     /\ gen' = [gen EXCEPT ![p] = g]
     /\ there' = [there EXCEPT ![p] = TRUE]
     /\ handles' = Append(handles, [path |-> p, gen |-> g, open |-> TRUE])
     /\ opened' = [opened EXCEPT ![w] = Len(handles) + 1]
     /\ tries' = [tries EXCEPT ![w] = 0]
     /\ Goto(w, "swap")
     /\ UNCHANGED <<conf, core, handler, mu, events, line, closing, raced, gaveUp,
                    bounds>>

\* Faults: one attempt too many; the old default file is closed beforehand.
OpenFailsAgain(w) ==
  /\ pc[w] = "open"
  /\ fails < MaxFails
  /\ fails' = fails + 1
  /\ tries' = [tries EXCEPT ![w] = @ + 1]
  /\ UNCHANGED <<conf, files, handles, core, handler, mu, pc, events, opened,
                 line, closing, raced, gaveUp, rotations>>
OpenFailsClosed(w) ==
  /\ pc[w] = "open"
  /\ PathOf(w) = Default
  /\ handles' = Closed(core.logFile)
  /\ mu' = None
  /\ Goto(w, "idle")
  /\ gaveUp' = TRUE
  /\ UNCHANGED <<conf, files, core, handler, events, tries, opened, line,
                 closing, raced, bounds>>

\* A failed attempt is followed by another after a pause, or by none.
OpenFails(w) ==
  /\ pc[w] = "open"
  /\ fails < MaxFails
  /\ fails' = fails + 1
  /\ IF tries[w] + 1 < maxReopenRetries
     THEN tries' = [tries EXCEPT ![w] = @ + 1] /\ UNCHANGED <<mu, pc, gaveUp>>
     ELSE /\ tries' = [tries EXCEPT ![w] = 0]
          /\ mu' = None
          /\ Goto(w, "idle")
          /\ gaveUp' = TRUE
  /\ UNCHANGED <<conf, files, handles, core, handler, events, opened, line,
                 closing, raced, rotations>>

\* A fault: the old file of a level stays open.
SwapOnly(w) ==
  /\ pc[w] = "swap"
  /\ IF PathOf(w) = Default
     THEN /\ handles' = Closed(core.logFile)
          /\ core' = [core EXCEPT !.logFile = opened[w]]
     ELSE \E l \in {k \in Levels : levelFilePath[k] = PathOf(w)} :
            /\ UNCHANGED handles
            /\ core' = [core EXCEPT !.levelFile[l] = opened[w]]
  /\ opened' = [opened EXCEPT ![w] = 0]
  /\ Goto(w, "default")
  /\ UNCHANGED <<conf, files, handler, mu, events, tries, line, closing, raced,
                 gaveUp, bounds>>

\* The old file is closed and the new one put in its place: the default file, or
\* that of a level with this path, the first that the map yields.
Swap(w) ==
  /\ pc[w] = "swap"
  /\ IF PathOf(w) = Default
     THEN /\ handles' = Closed(core.logFile)
          /\ core' = [core EXCEPT !.logFile = opened[w]]
     ELSE \E l \in {k \in Levels : levelFilePath[k] = PathOf(w)} :
            /\ handles' = Closed(core.levelFile[l])
            /\ core' = [core EXCEPT !.levelFile[l] = opened[w]]
  /\ opened' = [opened EXCEPT ![w] = 0]
  /\ Goto(w, "default")
  /\ UNCHANGED <<conf, files, handler, mu, events, tries, line, closing, raced,
                 gaveUp, bounds>>

\* rebuildHandler: first the default writer ...
RebuildDefault(w) ==
  /\ pc[w] = "default"
  /\ handler' = [handler EXCEPT !.defaultWriter = core.logFile]
  /\ Goto(w, "writers")
  /\ UNCHANGED <<conf, files, handles, core, mu, events, tries, opened, line,
                 closing, raced, gaveUp, bounds>>

\* Faults: only the default writer is replaced; c.mu is not released.
RebuildNothing(w) ==
  /\ pc[w] = "writers"
  /\ mu' = None
  /\ Goto(w, "idle")
  /\ UNCHANGED <<conf, files, handles, core, handler, events, tries, opened, line,
                 closing, raced, gaveUp, bounds>>
RebuildLocked(w) ==
  /\ pc[w] = "writers"
  /\ handler' = [handler EXCEPT !.writers = [l \in Levels |->
       IF l \in HasFile THEN <<core.logFile, core.levelFile[l]>> ELSE <<>>]]
  /\ Goto(w, "idle")
  /\ UNCHANGED <<conf, files, handles, core, mu, events, tries, opened, line,
                 closing, raced, gaveUp, bounds>>

\* ... then those of all levels.
RebuildWriters(w) ==
  /\ pc[w] = "writers"
  /\ handler' = [handler EXCEPT !.writers = [l \in Levels |->
       IF l \in HasFile THEN <<core.logFile, core.levelFile[l]>> ELSE <<>>]]
  /\ mu' = None
  /\ Goto(w, "idle")
  /\ UNCHANGED <<conf, files, handles, core, events, tries, opened, line, closing,
                 raced, gaveUp, bounds>>

-----------------------------------------------------------------------------
(* emit and Handle *)

writerForLevel(v) == IF v \in HasFile THEN handler.writers[v] ELSE <<handler.defaultWriter>>

\* Loggers go on with this core after CloseLogFile; without one there are none.
Emit(v) ==
  /\ closing # "failed"
  /\ line.todo = <<>>
  /\ line' = [todo |-> writerForLevel(v), missed |-> FALSE, disturbed |-> mu # None]
  /\ UNCHANGED <<conf, files, handles, core, handler, reopening, closing, raced,
                 gaveUp, bounds>>

\* MultiWriter ends at the first file that fails; nobody looks at the error.
Write ==
  /\ line.todo # <<>>
  /\ line' = IF handles[Head(line.todo)].open
             THEN [line EXCEPT !.todo = Tail(@)]
             ELSE [line EXCEPT !.todo = <<>>, !.missed = TRUE]
  /\ UNCHANGED <<conf, files, handles, core, handler, reopening, closing, raced,
                 gaveUp, bounds>>

-----------------------------------------------------------------------------
(* CloseLogFile *)

CloseDefault ==
  /\ closing = "no"
  /\ handles' = Closed(core.logFile)
  /\ raced' = Reopening
  /\ closing' = "watchers"
  /\ UNCHANGED <<conf, files, core, handler, reopening, line, gaveUp, bounds>>

\* A watcher that is reopening goes on to the end of it.
CloseWatchers ==
  /\ closing = "watchers"
  /\ pc' = [w \in Watchers |-> IF pc[w] = "idle" THEN "off" ELSE pc[w]]
  /\ events' = [w \in Watchers |-> 0]
  /\ raced' = (raced \/ Reopening)
  /\ closing' = "levels"
  /\ UNCHANGED <<conf, files, handles, core, handler, mu, tries, opened, line,
                 gaveUp, bounds>>

CloseLevels ==
  /\ closing = "levels"
  /\ handles' = [h \in DOMAIN handles |->
       [handles[h] EXCEPT !.open = @ /\ \A l \in HasFile : core.levelFile[l] # h]]
  /\ raced' = (raced \/ Reopening)
  /\ closing' = "closed"
  /\ UNCHANGED <<conf, files, core, handler, reopening, line, gaveUp, bounds>>

CloseLogFile == CloseDefault \/ CloseWatchers \/ CloseLevels

-----------------------------------------------------------------------------
Reopen(w) == \/ Deliver(w) \/ Lock(w) \/ OpenLogFile(w) \/ Swap(w)
             \/ RebuildDefault(w) \/ RebuildWriters(w)

Next == \/ \E p \in Configured : Rename(p) \/ Create(p)
        \/ \E w \in Watchers : Reopen(w) \/ OpenFails(w)
        \/ \E v \in Levels \cup {Other} : Emit(v)
        \/ Write
        \/ CloseLogFile

\* Some watcher that can go on does; c.mu is never held by one that cannot.
Fairness == WF_vars(\E w \in Watchers : Reopen(w))

Spec == Init /\ [][Next]_vars /\ Fairness

-----------------------------------------------------------------------------
(* Properties *)

\* Every variable keeps to its type.
TypeOK ==
  LET Handle == 1..Len(handles) IN
  /\ levelFilePath \in [Levels -> Paths \cup {None}]
  /\ overwritten \subseteq Handle
  /\ gen \in [Paths -> 1..(1 + MaxRotations)]
  /\ there \in [Paths -> BOOLEAN]
  /\ \A h \in Handle : handles[h] \in [path : Paths, gen : Nat, open : BOOLEAN]
  /\ core \in [logFile : Handle, levelFile : [Levels -> 0..Len(handles)]]
  /\ handler.defaultWriter \in Handle
  /\ \A l \in Levels : \A i \in DOMAIN handler.writers[l] : handler.writers[l][i] \in Handle
  /\ mu \in Watchers \cup {None}
  /\ pc \in [Watchers -> {"off", "idle", "lock", "open", "swap", "default", "writers"}]
  /\ events \in [Watchers -> 0..MaxRotations]
  /\ tries \in [Watchers -> 0..maxReopenRetries - 1]
  /\ opened \in [Watchers -> 0..Len(handles)]
  /\ closing \in {"no", "watchers", "levels", "closed", "failed"}
  /\ raced \in BOOLEAN /\ gaveUp \in BOOLEAN
  /\ rotations \in 0..MaxRotations /\ fails \in 0..MaxFails

Quiet == ~Reopening /\ \A w \in Watchers : events[w] = 0

\* Levels whose path nobody else has: a watcher refreshes one file of its path,
\* never that of a level which has the default path.
OwnPath == {l \in HasFile : /\ levelFilePath[l] # Default
                            /\ \A k \in HasFile \ {l} : levelFilePath[k] # levelFilePath[l]}

IsCurrent(h, p) == handles[h] = [path |-> p, gen |-> gen[p], open |-> TRUE]
AllCurrent == /\ IsCurrent(handler.defaultWriter, Default)
              /\ \A l \in OwnPath : LET w == handler.writers[l] IN
                   Len(w) = 2 /\ IsCurrent(w[1], Default) /\ IsCurrent(w[2], PathOf(l))

\* However rotations overlap with reopens, once all are dealt with lines go to
\* the files that are at their paths now, and not to a renamed or closed one.
Current == Quiet /\ closing = "no" /\ ~gaveUp => AllCurrent

\* That comes about after every rotation.
Refreshed == ~AllCurrent ~> AllCurrent \/ closing # "no" \/ gaveUp

\* Until CloseLogFile is called, a line is dropped only when a reopen ran while
\* it was written.  After the call nothing is promised: loggers keep its core.
LostOnlyDisturbed == line.missed /\ closing = "no" => line.disturbed

\* Files that a reopen replaced are closed, and CloseLogFile, unless it overlapped
\* a reopen, which it does not wait for, leaves open none that the core has; nor
\* does an initLoggerCore that fails.  Of two names for one level the first file
\* is nobody's: it stays open, and the property leaves it out.
NoLeak == ~Reopening /\ ~raced => \A h \in DOMAIN handles \ overwritten :
  handles[h].open => /\ closing \notin {"closed", "failed"}
                     /\ h \in {core.logFile} \cup {core.levelFile[l] : l \in HasFile}
=============================================================================
