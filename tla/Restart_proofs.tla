----------------------------- MODULE Restart_proofs -----------------------------
(* Proofs about Restart, for any numbers of panics, failures and deaths of the *)
(* supervisor.  RestartInv!IInv is inductive: a restart request that runs alone *)
(* keeps its temporary unit, and there are no more stop requests than starts of *)
(* main that restart requests and failures can account for.                    *)
EXTENDS RestartInv, FiniteSetTheorems, TLAPS

Phases == Running \cup {"off", "draining", "auto"}
Places == {"free", "sent", "wait", "poll", "restart", "done", "lost"}

\* TypeOK without the bound of stops, which Budget is about.
Types == /\ phase \in [Units -> Phases]
         /\ again \in [Units -> BOOLEAN]
         /\ panicked \in BOOLEAN
         /\ req \in [Requests -> Places]
         /\ alone \in [Requests -> BOOLEAN]
         /\ stops \in Nat
         /\ fails \in 0..MaxFails
         /\ listening \in BOOLEAN
         /\ missed \in BOOLEAN
         /\ aways \in 0..MaxAway

-----------------------------------------------------------------------------
(* Units *)

\* A unit goes on to another phase: the other one is where it was.
LEMMA OneUnit ==
  ASSUME Types, NEW u \in Units, NEW f \in Phases, SetPhase(u, f)
  PROVE  /\ phase' \in [Units -> Phases] /\ phase'[u] = f
         /\ \A v \in Units \ {u} : phase'[v] = phase[v]
BY DEF Types, SetPhase

\* A job changes one unit, and leaves a unit waiting only while it drains.
LEMMA Job ==
  ASSUME Types, AgainDrains, NEW u \in Units,
         JobStart(u) \/ JobStop(u) \/ JobRestart(u)
  PROVE  /\ phase' \in [Units -> Phases] /\ again' \in [Units -> BOOLEAN]
         /\ \A v \in Units \ {u} : phase'[v] = phase[v] /\ again'[v] = again[v]
         /\ AgainDrains'
<1>1. PICK f \in Phases : SetPhase(u, f)
  BY DEF JobStart, JobStop, JobRestart, Types, Phases, Running
<1>2. /\ phase' \in [Units -> Phases] /\ phase'[u] = f
      /\ \A v \in Units \ {u} : phase'[v] = phase[v]
  BY <1>1, OneUnit
<1>3. again' \in [Units -> BOOLEAN] /\ \A v \in Units \ {u} : again'[v] = again[v]
  BY DEF JobStart, JobStop, JobRestart, Types
<1>4. again'[u] => phase'[u] = "draining"
  <2>1. CASE JobStart(u)
    BY <2>1 DEF JobStart, SetPhase, Types
  <2>2. CASE JobStop(u)
    BY <2>2 DEF JobStop, Types
  <2>3. CASE JobRestart(u)
    BY <2>3 DEF JobRestart, SetPhase, Types
  <2> QED  BY <2>1, <2>2, <2>3
<1> QED  BY <1>2, <1>3, <1>4 DEF AgainDrains

-----------------------------------------------------------------------------
(* Types *)

\* The inductive invariant holds at the start ...
LEMMA InitInv == Init => IInv
<1> SUFFICES ASSUME Init  PROVE IInv
  OBVIOUS
<1>1. TypeOK
  <2>1. stops \in 0..(MaxPanics + MaxFails) /\ fails \in 0..MaxFails /\ aways \in 0..MaxAway
    BY BoundsAssumption DEF Init
  <2>2. phase \in [Units -> Running \cup {"off", "draining", "auto"}]
    BY DEF Init, Running
  <2> QED  BY <2>1, <2>2 DEF Init, TypeOK
<1>2. AgainDrains  BY DEF Init, AgainDrains
<1>3. Alone  BY DEF Init, Alone, InFlight
<1>4. Budget
  <2>1. Open = 1..MaxPanics  BY DEF Init, Open, Requests
  <2>2. Cardinality(1..MaxPanics) = MaxPanics
    BY FS_Interval, BoundsAssumption
  <2>3. Coming = 0 /\ stops = 0 /\ fails = 0  BY DEF Init, Coming, Units
  <2> QED  BY <2>1, <2>2, <2>3, BoundsAssumption DEF Budget
<1>5. Relieved  BY DEF Init, Relieved
<1> QED  BY <1>1, <1>2, <1>3, <1>4, <1>5 DEF IInv

\* Every variable keeps its type, and a unit waits only while it drains.
LEMMA NextTypes ==
  Types /\ AgainDrains /\ [Next]_vars => Types' /\ AgainDrains'
<1> SUFFICES ASSUME Types, AgainDrains, [Next]_vars  PROVE Types' /\ AgainDrains'
  OBVIOUS
<1> USE DEF supervisor
<1>1. CASE UNCHANGED vars
  BY <1>1 DEF vars, Types, AgainDrains
<1>2. ASSUME NEW h \in Requests, Panic(h)  PROVE Types' /\ AgainDrains'
  BY <1>2 DEF Panic, Types, Places, AgainDrains
<1>3. ASSUME NEW h \in Requests, Handle(h)  PROVE Types' /\ AgainDrains'
  <2>1. CASE StartTemp(h)
    <3>1. /\ phase' \in [Units -> Phases] /\ again' \in [Units -> BOOLEAN]
          /\ AgainDrains'
      BY <2>1, Job DEF StartTemp, Units
    <3> QED  BY <2>1, <3>1 DEF StartTemp, Types, Places
  <2>2. CASE Poll(h)
    BY <2>2 DEF Poll, Types, Places, AgainDrains
  <2>3. CASE RestartMain(h)
    <3>1. /\ phase' \in [Units -> Phases] /\ again' \in [Units -> BOOLEAN]
          /\ AgainDrains'
      BY <2>3, Job DEF RestartMain, Units
    <3> QED  BY <2>3, <3>1 DEF RestartMain, Types, Places
  <2> QED  BY <1>3, <2>1, <2>2, <2>3 DEF Handle
<1>4. ASSUME NEW u \in Units, Fail(u) \/ Quit(u)  PROVE Types' /\ AgainDrains'
  <2>1. /\ phase' \in [Units -> Phases] /\ phase[u] # "draining"
        /\ \A v \in Units \ {u} : phase'[v] = phase[v]
    BY <1>4, OneUnit DEF Fail, Quit, Phases, Running
  <2>2. AgainDrains'  BY <1>4, <2>1 DEF Fail, Quit, AgainDrains
  <2>3. req' \in [Requests -> Places]
    BY <1>4 DEF Fail, Quit, StartReturns, Types, Places
  <2>4. fails' \in 0..MaxFails
    BY <1>4, BoundsAssumption DEF Fail, Quit, Types
  <2> QED  BY <1>4, <2>1, <2>2, <2>3, <2>4 DEF Fail, Quit, Types
<1>5. ASSUME NEW u \in Units, Process(u)  PROVE Types' /\ AgainDrains'
  <2>1. CASE Ready(u)
    <3>1. /\ phase' \in [Units -> Phases] /\ phase[u] # "draining"
          /\ \A v \in Units \ {u} : phase'[v] = phase[v]
      BY <2>1, OneUnit DEF Ready, Phases, Running
    <3>2. req' \in [Requests -> Places]
      BY <2>1 DEF Ready, StartReturns, Types, Places
    <3> QED  BY <2>1, <3>1, <3>2 DEF Ready, Types, AgainDrains
  <2>2. CASE Launch(u)
    <3>1. /\ phase' \in [Units -> Phases]
          /\ \A v \in Units \ {u} : phase'[v] = phase[v]
      BY <2>2, OneUnit DEF Launch, Phases, Running
    <3> QED  BY <2>2, <3>1 DEF Launch, Types, AgainDrains
  <2>3. CASE Drained(u)
    <3>1. /\ phase' \in [Units -> Phases]
          /\ \A v \in Units \ {u} : phase'[v] = phase[v]
      BY <2>3, OneUnit DEF Drained, Phases
    <3> QED  BY <2>3, <3>1 DEF Drained, Types, AgainDrains
  <2> QED  BY <1>5, <2>1, <2>2, <2>3 DEF Process
<1>6. CASE OnStartUp
  <2>1. /\ phase' \in [Units -> Phases] /\ phase["main"] # "draining"
        /\ \A v \in Units \ {"main"} : phase'[v] = phase[v]
    BY <1>6, OneUnit DEF OnStartUp, Phases, Running, Units
  <2> QED  BY <1>6, <2>1 DEF OnStartUp, Types, AgainDrains
<1>7. CASE StopTemp
  <2>1. /\ phase' \in [Units -> Phases] /\ again' \in [Units -> BOOLEAN]
        /\ AgainDrains'
    BY <1>7, Job DEF StopTemp, Units
  <2>2. req' \in [Requests -> Places]
    BY <1>7 DEF StopTemp, StartReturns, Types, Places
  <2> QED  BY <1>7, <2>1, <2>2 DEF StopTemp, Types
<1>8. CASE SupervisorDies
  <2>1. req' \in [Requests -> Places]
    BY <1>8 DEF SupervisorDies, Types, Places
  <2>2. aways' \in 0..MaxAway /\ panicked' \in BOOLEAN /\ missed' \in BOOLEAN
    BY <1>8, BoundsAssumption DEF SupervisorDies, Types
  <2> QED  BY <1>8, <2>1, <2>2 DEF SupervisorDies, Types, AgainDrains
<1>9. CASE Listen
  BY <1>9 DEF Listen, Types, AgainDrains
<1> QED
  BY <1>1, <1>2, <1>3, <1>4, <1>5, <1>6, <1>7, <1>8, <1>9 DEF Next

-----------------------------------------------------------------------------
(* A request that runs alone *)

\* The blocked handlers that go on are still in flight, and so are the others.
LEMMA Returning ==
  ASSUME Types, NEW l \in {"poll", "restart"}, StartReturns(l)
  PROVE  /\ \A h \in Requests : InFlight(h)' <=> InFlight(h)
         /\ \A h \in Requests : req'[h] \in {"poll", "restart"} =>
              req[h] \in {"wait", "poll", "restart"}
BY DEF StartReturns, InFlight, Types

\* Requests that go on as they are lose nothing while the temporary unit is
\* where it was.
LEMMA StillAlone ==
  ASSUME Alone, UNCHANGED <<req, alone, stops, fails>>, phase'["temp"] = phase["temp"]
  PROVE  Alone'
BY DEF Alone, InFlight

\* A request beside one that ran alone ends its being alone, and only a stop or a
\* failure takes away the unit it waited for.
LEMMA NextAlone == Types /\ Alone /\ [Next]_vars => Alone'
<1> SUFFICES ASSUME Types, Alone, [Next]_vars  PROVE Alone'
  OBVIOUS
<1>1. CASE UNCHANGED vars
  BY <1>1, StillAlone DEF vars
<1>2. ASSUME NEW h \in Requests, Panic(h)  PROVE Alone'
  <2>1. /\ req[h] = "free" /\ stops' = stops
        /\ \A g \in Requests \ {h} : req'[g] = req[g]
        /\ req'[h] \in {"sent", "lost"}
        /\ alone'[h] => stops = 0 /\ \A k \in Requests : ~InFlight(k)
        /\ \A g \in Requests \ {h} : alone'[g] => ~InFlight(g)
    BY <1>2 DEF Panic, Types
  <2> QED  BY <2>1 DEF Alone, InFlight
<1>3. ASSUME NEW h \in Requests, InFlight(h), UNCHANGED <<alone, stops, fails>>,
             \A g \in Requests \ {h} : req'[g] = req[g],
             req'[h] \in {"poll", "restart"} =>
               \/ phase'["temp"] = "up"
               \/ req[h] \in {"poll", "restart"} /\ phase'["temp"] = phase["temp"]
      PROVE  Alone'
  <2>1. \A g \in Requests \ {h} : ~(alone[g] /\ InFlight(g))
    BY <1>3 DEF Alone
  <2>2. \A g \in Requests \ {h} : InFlight(g)' <=> InFlight(g)
    BY <1>3 DEF InFlight
  <2>3. alone[h] => /\ \A g \in Requests \ {h} : ~InFlight(g)
                    /\ stops = 0
                    /\ req[h] \in {"poll", "restart"} => phase["temp"] = "up" \/ fails > 0
    BY <1>3 DEF Alone
  <2> QED  BY <1>3, <2>1, <2>2, <2>3 DEF Alone
<1>4. ASSUME NEW h \in Requests, Handle(h)  PROVE Alone'
  <2>1. CASE StartTemp(h)
    <3>1. req'[h] \in {"poll", "restart"} => phase'["temp"] = "up"
      BY <2>1 DEF StartTemp, JobStart, SetPhase, Types, Units
    <3> QED  BY <1>3, <2>1, <3>1 DEF StartTemp, InFlight, Types, supervisor
  <2>2. CASE Poll(h)
    BY <1>3, <2>2 DEF Poll, InFlight, Types, supervisor
  <2>3. CASE RestartMain(h)
    <3>1. req'[h] = "done"  BY <2>3 DEF RestartMain, Types
    <3> QED  BY <1>3, <2>3, <3>1 DEF RestartMain, InFlight, Types
  <2> QED  BY <1>4, <2>1, <2>2, <2>3 DEF Handle
<1>5. ASSUME NEW u \in Units, Fail(u) \/ Quit(u)  PROVE Alone'
  <2>1. \A h \in Requests : InFlight(h)' <=> InFlight(h)
    BY <1>5, Returning DEF Fail, Quit, InFlight
  <2>2. fails' > 0  BY <1>5, BoundsAssumption DEF Fail, Quit, Types
  <2> QED  BY <1>5, <2>1, <2>2 DEF Fail, Quit, Alone
<1>6. ASSUME NEW u \in Units, Process(u)  PROVE Alone'
  <2>1. CASE u = "main"
    <3>1. phase'["temp"] = phase["temp"] /\ UNCHANGED <<req, alone, stops, fails>>
      BY <1>6, <2>1 DEF Process, Ready, Launch, Drained, SetPhase, Types, Units
    <3> QED  BY <3>1, StillAlone
  <2>2. CASE u = "temp" /\ Ready(u)
    <3>1. StartReturns("poll") /\ phase'["temp"] = "up" /\ UNCHANGED <<alone, stops, fails>>
      BY <2>2 DEF Ready, SetPhase, Types, Units
    <3> QED  BY <3>1, Returning DEF Alone
  <2>3. CASE u = "temp" /\ (Launch(u) \/ Drained(u))
    <3>1. phase["temp"] # "up" /\ UNCHANGED <<req, alone, stops, fails>>
      BY <2>3 DEF Launch, Drained
    <3> QED  BY <3>1 DEF Alone, InFlight
  <2> QED  BY <1>6, <2>1, <2>2, <2>3 DEF Process, Units
<1>7. CASE OnStartUp
  BY <1>7 DEF OnStartUp, Alone, InFlight
<1>8. CASE StopTemp
  <2>1. /\ \A h \in Requests : InFlight(h)' <=> InFlight(h)
        /\ stops > 0 /\ alone' = alone
    BY <1>8, Returning DEF StopTemp
  <2> QED  BY <2>1 DEF Alone
<1>9. CASE SupervisorDies
  <2>1. \A h \in Requests : ~InFlight(h)'
    BY <1>9 DEF SupervisorDies, InFlight, Types
  <2> QED  BY <2>1 DEF Alone
<1>10. CASE Listen
  BY <1>10, StillAlone DEF Listen
<1> QED
  BY <1>1, <1>2, <1>4, <1>5, <1>6, <1>7, <1>8, <1>9, <1>10 DEF Next

-----------------------------------------------------------------------------
(* The budget of stops *)

\* Requests are finitely many, so fewer of them are fewer in number.
LEMMA Counting ==
  ASSUME NEW S \in SUBSET Requests, NEW T \in SUBSET S
  PROVE  /\ Cardinality(S) \in Nat /\ Cardinality(T) \in Nat
         /\ Cardinality(T) <= Cardinality(S)
         /\ \A h \in S \ T : Cardinality(T) + 1 <= Cardinality(S)
<1>1. IsFiniteSet(Requests)
  BY FS_Interval, BoundsAssumption DEF Requests
<1>2. IsFiniteSet(S)  BY <1>1, FS_Subset
<1>3. IsFiniteSet(T) /\ Cardinality(T) <= Cardinality(S)  BY <1>2, FS_Subset
<1>4. Cardinality(S) \in Nat /\ Cardinality(T) \in Nat
  BY <1>2, <1>3, FS_CardinalityType
<1>5. ASSUME NEW h \in S \ T  PROVE Cardinality(T) + 1 <= Cardinality(S)
  <2>1. T \in SUBSET (S \ {h})  BY <1>5
  <2>2. IsFiniteSet(S \ {h}) /\ Cardinality(S \ {h}) = Cardinality(S) - 1
    BY <1>2, <1>5, FS_RemoveElement
  <2>3. Cardinality(T) <= Cardinality(S \ {h})  BY <2>1, <2>2, FS_Subset
  <2> QED  BY <1>4, <2>2, <2>3
<1> QED  BY <1>3, <1>4, <1>5

\* The numbers of a state are naturals.
LEMMA Numbers ==
  ASSUME Types, Types'
  PROVE  stops \in Nat /\ stops' \in Nat /\ fails \in Nat /\ fails' \in Nat
BY BoundsAssumption DEF Types

\* The arithmetic of the next lemma: s stops, c starts of main, n open requests,
\* f failures.
LEMMA Sums ==
  \A m, s, s1, c, c1, n, n1, f, f1 \in Nat :
    n1 <= n /\ s1 + c1 + f <= s + c + f1 /\ s + c + n <= m + f
      => s1 + c1 + n1 <= m + f1
OBVIOUS

\* A step that opens no request stays within the budget when it pays for the stops
\* and starts it adds with those it takes away or with a failure.
LEMMA Pays ==
  ASSUME Types, Types', Budget, Open' \subseteq Open,
         stops' + Coming' + fails <= stops + Coming + fails'
  PROVE  Budget'
<1>1. Open \in SUBSET Requests /\ Open' \in SUBSET Open  BY DEF Open
<1>2. /\ Cardinality(Open) \in Nat /\ Cardinality(Open') \in Nat
      /\ Cardinality(Open') <= Cardinality(Open)
  BY <1>1, Counting
<1>3. Coming \in Nat /\ Coming' \in Nat  BY DEF Coming
<1>4. stops + Coming + Cardinality(Open) <= MaxPanics + fails  BY DEF Budget
<1>5. stops \in Nat /\ stops' \in Nat /\ fails \in Nat /\ fails' \in Nat
  BY Numbers
<1>6. stops' + Coming' + Cardinality(Open') <= MaxPanics + fails'
  BY <1>2, <1>3, <1>4, <1>5, Sums, BoundsAssumption
<1> QED  BY <1>6 DEF Budget

\* So does one that closes a request and adds one start of main.
LEMMA Spends ==
  ASSUME Types, Types', Budget, NEW h \in Open, Open' \subseteq Open \ {h},
         Coming' <= Coming + 1, stops' = stops, fails' = fails
  PROVE  Budget'
<1>1. Open \in SUBSET Requests /\ Open' \in SUBSET Open /\ h \in Open \ Open'
  BY DEF Open
<1>2. /\ Cardinality(Open) \in Nat /\ Cardinality(Open') \in Nat
      /\ Cardinality(Open') + 1 <= Cardinality(Open)
  BY <1>1, Counting
<1>3. Coming \in Nat /\ Coming' \in Nat  BY DEF Coming
<1> QED
  BY <1>2, <1>3, BoundsAssumption DEF Types, Budget

\* A start of main takes the place of the request or failure it comes from, and a
\* stop that of the start.
LEMMA NextBudget ==
  Types /\ Types' /\ AgainDrains /\ Budget /\ [Next]_vars => Budget'
<1> SUFFICES ASSUME Types, Types', AgainDrains, Budget, [Next]_vars  PROVE Budget'
  OBVIOUS
<1>0. ASSUME phase'["main"] = phase["main"], again'["main"] = again["main"]
      PROVE  Coming' = Coming
  BY <1>0 DEF Coming
<1>1. ASSUME Open' \subseteq Open, phase'["main"] = phase["main"],
             again'["main"] = again["main"], stops' <= stops, fails <= fails'
      PROVE  Budget'
  <2>1. Coming' = Coming /\ Coming \in Nat  BY <1>0, <1>1 DEF Coming
  <2>2. stops' + Coming' + fails <= stops + Coming + fails'
    BY <1>1, <2>1, Numbers
  <2> QED  BY <1>1, <2>2, Pays
<1>2. ASSUME NEW l \in {"poll", "restart"}, StartReturns(l)  PROVE Open' = Open
  BY <1>2 DEF StartReturns, Open, Types
<1>3. CASE UNCHANGED vars
  BY <1>1, <1>3 DEF vars, Open, Types
<1>4. ASSUME NEW h \in Requests, Panic(h)  PROVE Budget'
  <2>1. Open' \subseteq Open  BY <1>4 DEF Panic, Open, Types
  <2> QED  BY <1>1, <1>4, <2>1 DEF Panic, Types
<1>5. ASSUME NEW h \in Requests, StartTemp(h) \/ Poll(h)  PROVE Budget'
  <2>1. Open' \subseteq Open  BY <1>5 DEF StartTemp, Poll, Open, Types
  <2>2. phase'["main"] = phase["main"] /\ again'["main"] = again["main"]
    BY <1>5, Job DEF StartTemp, Poll, Units
  <2> QED  BY <1>1, <1>5, <2>1, <2>2 DEF StartTemp, Poll, Types
<1>6. ASSUME NEW h \in Requests, RestartMain(h)  PROVE Budget'
  <2>1. h \in Open /\ Open' \subseteq Open \ {h}
    BY <1>6 DEF RestartMain, Open, Types
  <2>2. Coming' <= Coming + 1
    BY <1>6 DEF RestartMain, JobRestart, SetPhase, Coming, Types, AgainDrains, Units
  <2> QED  BY <1>6, <2>1, <2>2, Spends DEF RestartMain
<1>7. ASSUME NEW u \in Units, Fail(u) \/ Quit(u)  PROVE Budget'
  <2>1. Open' = Open  BY <1>2, <1>7 DEF Fail, Quit, Open
  <2>2. Coming' <= Coming + 1 /\ Coming \in Nat /\ Coming' \in Nat
    BY <1>7 DEF Fail, Quit, SetPhase, Coming, Types, Units
  <2>3. stops' = stops /\ fails' = fails + 1  BY <1>7 DEF Fail, Quit
  <2>4. stops' + Coming' + fails <= stops + Coming + fails'
    BY <2>2, <2>3, Numbers
  <2> QED  BY <2>1, <2>4, Pays
<1>8. ASSUME NEW u \in Units, Process(u)  PROVE Budget'
  <2>1. Open' = Open
    BY <1>2, <1>8 DEF Process, Ready, Launch, Drained, Open
  <2>2. Coming' <= Coming /\ Coming \in Nat /\ Coming' \in Nat
    BY <1>8 DEF Process, Ready, Launch, Drained, SetPhase, Coming, Types, Units
  <2>3. stops' = stops /\ fails' = fails
    BY <1>8 DEF Process, Ready, Launch, Drained
  <2>4. stops' + Coming' + fails <= stops + Coming + fails'
    BY <2>2, <2>3, Numbers
  <2> QED  BY <2>1, <2>4, Pays
<1>9. CASE OnStartUp
  <2>1. Open' = Open  BY <1>9 DEF OnStartUp, Open
  <2>2. Coming' = Coming - 1 /\ Coming \in Nat
    BY <1>9 DEF OnStartUp, SetPhase, Coming, Types, Units
  <2>3. stops' <= stops + 1 /\ fails' = fails  BY <1>9 DEF OnStartUp, Types
  <2>4. stops' + Coming' + fails <= stops + Coming + fails'
    BY <2>2, <2>3, Numbers
  <2> QED  BY <2>1, <2>4, Pays
<1>10. CASE StopTemp
  <2>1. phase'["main"] = phase["main"] /\ again'["main"] = again["main"]
    <3>1. Types /\ AgainDrains /\ JobStop("temp")  BY <1>10 DEF StopTemp
    <3> QED  BY <3>1, Job DEF Units
  <2>2. stops' <= stops /\ fails' = fails /\ Open' = Open
    BY <1>2, <1>10 DEF StopTemp, Types
  <2> QED  BY <1>1, <2>1, <2>2 DEF Types
<1>11. CASE SupervisorDies
  <2>1. Open' \subseteq Open  BY <1>11 DEF SupervisorDies, Open, Types
  <2> QED  BY <1>1, <1>11, <2>1 DEF SupervisorDies, Types
<1>12. CASE Listen
  BY <1>1, <1>12 DEF Listen, Open, Types
<1> QED
  BY <1>3, <1>4, <1>5, <1>6, <1>7, <1>8, <1>9, <1>10, <1>11, <1>12 DEF Next, Handle

-----------------------------------------------------------------------------
(* Stops of the temporary unit *)

\* Main leaves after it has told only when it fails or is restarted again, and a
\* restart that meets a stop on its way did not run alone.
LEMMA NextRelieved == Types /\ AgainDrains /\ Alone /\ Relieved /\ [Next]_vars => Relieved'
<1> SUFFICES ASSUME Types, AgainDrains, Alone, Relieved, [Next]_vars, stops' > 0
             PROVE  \/ phase'["main"] \in {"told", "up"}
                    \/ fails' > 0
                    \/ \E h \in Requests : ~alone'[h]
  BY DEF Relieved
<1> DEFINE Goal == \/ phase'["main"] \in {"told", "up"}
                   \/ fails' > 0
                   \/ \E h \in Requests : ~alone'[h]
<1>1. ASSUME stops > 0, fails' = fails, alone' = alone,
             \/ phase'["main"] = phase["main"]
             \/ phase["main"] \notin {"told", "up"}
             \/ phase'["main"] \in {"told", "up"}
      PROVE  Goal
  BY <1>1 DEF Relieved
<1>2. CASE UNCHANGED vars
  BY <1>1, <1>2 DEF vars, Types
<1>3. ASSUME NEW h \in Requests, Panic(h)  PROVE Goal
  <2>1. stops' = stops /\ fails' = fails  BY <1>3 DEF Panic, Types
  <2>2. alone'[h] => stops = 0  BY <1>3 DEF Panic
  <2>3. stops # 0  BY <2>1 DEF Types
  <2> QED  BY <2>2, <2>3
<1>4. ASSUME NEW h \in Requests, StartTemp(h) \/ Poll(h)  PROVE Goal
  <2>1. phase'["main"] = phase["main"]
    BY <1>4, Job DEF StartTemp, Poll, Units
  <2> QED  BY <1>1, <1>4, <2>1 DEF StartTemp, Poll, Types
<1>5. ASSUME NEW h \in Requests, RestartMain(h)  PROVE Goal
  <2>1. stops > 0 /\ alone' = alone /\ InFlight(h)
    BY <1>5 DEF RestartMain, InFlight
  <2>2. ~alone[h]  BY <2>1 DEF Alone
  <2> QED  BY <2>1, <2>2
<1>6. ASSUME NEW u \in Units, Fail(u) \/ Quit(u)  PROVE Goal
  BY <1>6, BoundsAssumption DEF Fail, Quit, Types
<1>7. ASSUME NEW u \in Units, Process(u)  PROVE Goal
  <2>1. \/ phase'["main"] = phase["main"] \/ phase["main"] \notin {"told", "up"}
        \/ phase'["main"] \in {"told", "up"}
    BY <1>7 DEF Process, Ready, Launch, Drained, SetPhase, Types, Units
  <2> QED  BY <1>1, <1>7, <2>1 DEF Process, Ready, Launch, Drained, Types
<1>8. CASE OnStartUp
  BY <1>8 DEF OnStartUp, SetPhase, Types, Units
<1>9. CASE StopTemp
  <2>1. phase'["main"] = phase["main"]
    <3>1. JobStop("temp")  BY <1>9 DEF StopTemp
    <3> QED  BY <3>1, Job DEF Units
  <2> QED  BY <1>1, <1>9, <2>1 DEF StopTemp, Types
<1>10. CASE SupervisorDies
  BY <1>10 DEF SupervisorDies
<1>11. CASE Listen
  BY <1>1, <1>11 DEF Listen, Types
<1> QED
  BY <1>2, <1>3, <1>4, <1>5, <1>6, <1>7, <1>8, <1>9, <1>10, <1>11 DEF Next, Handle

-----------------------------------------------------------------------------
(* Theorems *)

\* Within the budget, stops has the bound of TypeOK.
LEMMA Typed == TypeOK <=> Types /\ stops <= MaxPanics + MaxFails
BY BoundsAssumption DEF TypeOK, Types, Phases, Places

\* ... and every step keeps it.
LEMMA NextInv == IInv /\ [Next]_vars => IInv'
<1> SUFFICES ASSUME IInv, [Next]_vars  PROVE IInv'
  OBVIOUS
<1>1. Types /\ AgainDrains /\ Budget /\ Alone /\ Relieved  BY Typed DEF IInv
<1>2. Types' /\ AgainDrains'  BY <1>1, NextTypes
<1>3. Budget' /\ Alone' /\ Relieved'
  BY <1>1, <1>2, NextBudget, NextAlone, NextRelieved
<1>4. stops' <= MaxPanics + MaxFails
  <2>1. Open \in SUBSET Requests /\ Open' \in SUBSET Requests  BY DEF Open
  <2>2. Cardinality(Open') \in Nat  BY <2>1, Counting
  <2>3. Coming' \in Nat  BY DEF Coming
  <2> QED  BY <1>2, <1>3, <2>2, <2>3, BoundsAssumption DEF Types, Budget
<1>5. TypeOK'  BY <1>2, <1>4, BoundsAssumption DEF TypeOK, Types, Phases, Places
<1> QED  BY <1>2, <1>3, <1>5 DEF IInv

\* The inductive invariant holds in every reachable state.
THEOREM Invariance == Spec => []IInv
BY InitInv, NextInv, PTL DEF Spec

\* Every variable keeps its type; in particular a behaviour sends no more stop
\* requests than it has panics and failures.
THEOREM TypeCorrect == Spec => []TypeOK
<1>1. IInv => TypeOK  BY DEF IInv
<1> QED  BY <1>1, Invariance, PTL

\* A restart that no other request runs beside stops the old main only while the
\* temporary unit serves, unless an instance failed on the way.
THEOREM CoveredCorrect == Spec => Covered
<1>1. IInv => \A h \in Requests : RestartMain(h) /\ alone[h] =>
                phase["temp"] = "up" \/ fails > 0
  BY DEF IInv, Alone, RestartMain, InFlight
<1> QED  BY <1>1, Invariance, PTL DEF Covered

\* The temporary unit, while it serves, is stopped only when a new main is initialised
\* or serves, unless an instance failed or restarts ran beside each other.
THEOREM HandoverCorrect == Spec => Handover
<1>1. IInv => (StopTemp /\ phase["temp"] = "up" =>
                 phase["main"] \in {"told", "up"} \/ fails > 0
                 \/ \E h \in Requests : ~alone[h])
  BY DEF IInv, Relieved, StopTemp
<1> QED  BY <1>1, Invariance, PTL DEF Handover
=============================================================================
