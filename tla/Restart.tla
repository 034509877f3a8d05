------------------------------- MODULE Restart -------------------------------
(* The restart after a panic: the client side (infrastructure/supervisor,     *)
(* pkg/lifecycle NotifyReady, the recover hooks), the supervisor's listener   *)
(* (examples/systemd/supervisor/connection, one goroutine per request) and    *)
(* the main and the temporary unit of examples/systemd.  systemd is external: *)
(* Type=notify units, whose start succeeds at READY, Restart=on-failure, and  *)
(* jobs that merge with, or replace, the job a unit already has.  The units   *)
(* are set up for supervision; the supervisor may die, with what it handles.  *)
EXTENDS Naturals

CONSTANTS MaxPanics,   \* bound: restart requests in a behaviour
          MaxFails,    \* bound: instances that fail to start, crash or quit
          MaxAway      \* bound: deaths of the supervisor

ASSUME BoundsAssumption == MaxPanics \in Nat /\ MaxFails \in Nat /\ MaxAway \in Nat

Requests == 1..MaxPanics
Units == {"main", "temp"}

VARIABLES phase,     \* unit -> off, boot, told (stop of temp sent), up,
                     \*         draining, auto (failed, to be started again)
          again,     \* unit -> started again once it has drained
          panicked,  \* main's restart has been asked for, and the request not lost
          req,       \* restart request -> where its handler is
          alone,     \* restart request -> no other request ran beside it
          stops,     \* stop requests sent and not carried out yet
          fails,     \* failed instances so far
          listening, \* the supervisor accepts connections
          missed,    \* no stop of temp is to come: it, or what leads to it, was lost
          aways      \* deaths of the supervisor so far

supervisor == <<listening, missed, aways>>
vars == <<phase, again, panicked, req, alone, stops, fails, supervisor>>

Running == {"boot", "told", "up"}
InFlight(h) == req[h] \in {"sent", "wait", "poll", "restart"}

\* Main has started once and serves.
Init == /\ phase = [u \in Units |-> IF u = "main" THEN "up" ELSE "off"]
        /\ again = [u \in Units |-> FALSE]
        /\ panicked = FALSE
        /\ req = [h \in Requests |-> "free"]
        /\ alone = [h \in Requests |-> TRUE]
        /\ stops = 0
        /\ fails = 0
        /\ listening = TRUE
        /\ missed = FALSE
        /\ aways = 0

-----------------------------------------------------------------------------
(* systemctl: what a job makes of a unit *)

SetPhase(u, p) == phase' = [phase EXCEPT ![u] = p]

JobStart(u) ==
  /\ SetPhase(u, IF phase[u] \in {"off", "auto"} THEN "boot" ELSE phase[u])
  /\ again' = [again EXCEPT ![u] = phase[u] = "draining"]

JobStop(u) ==
  /\ SetPhase(u, IF phase[u] \in Running THEN "draining"
                 ELSE IF phase[u] = "auto" THEN "off" ELSE phase[u])
  /\ again' = [again EXCEPT ![u] = FALSE]

JobRestart(u) ==
  /\ SetPhase(u, IF phase[u] \in {"off", "auto"} THEN "boot" ELSE "draining")
  /\ again' = [again EXCEPT ![u] = phase[u] \notin {"off", "auto"}]

\* Handlers blocked in "systemctl start" of the temporary unit return: with
\* success they poll, with an error they go straight on to the restart.
StartReturns(l) == req' = [h \in Requests |-> IF req[h] = "wait" THEN l ELSE req[h]]

-----------------------------------------------------------------------------
(* The application's processes *)

\* A request panics in main, which may be shutting down already: the hook sends
\* "restart main,temp" and main serves on.  A request that cannot be sent is
\* logged, and that is all.
Panic(h) == /\ phase["main"] \in {"up", "draining"}
            /\ req[h] = "free"
            /\ panicked' = (panicked \/ listening)
            /\ req' = [req EXCEPT ![h] = IF listening THEN "sent" ELSE "lost"]
            /\ alone' = [g \in Requests |->
                 IF g = h THEN stops = 0 /\ \A k \in Requests : ~InFlight(k)
                 ELSE alone[g] /\ ~InFlight(g)]
            /\ UNCHANGED <<phase, again, stops, fails, supervisor>>

\* Faults: a new main that tells nobody, one that never stops telling.
OnStartUpSilent == /\ phase["main"] = "boot"
                   /\ SetPhase("main", "told")
                   /\ UNCHANGED <<again, panicked, req, alone, stops, fails, supervisor>>
OnStartUpRepeats == /\ phase["main"] = "boot"
                    /\ stops' = stops + 1
                    /\ UNCHANGED <<phase, again, panicked, req, alone, fails, supervisor>>

\* A fault: a new main that cannot tell does not go on.
OnStartUpInsists == /\ phase["main"] = "boot"
                    /\ listening
                    /\ SetPhase("main", "told")
                    /\ stops' = stops + 1
                    /\ missed' = FALSE
                    /\ UNCHANGED <<again, panicked, req, alone, fails, listening, aways>>

\* A new main, initialised and about to serve, sends "stop temp" first; it logs
\* that it could not, and goes on.
OnStartUp == /\ phase["main"] = "boot"
             /\ SetPhase("main", "told")
             /\ stops' = IF listening THEN stops + 1 ELSE stops
             /\ missed' = ~listening
             /\ alone' = [g \in Requests |-> alone[g] /\ ~InFlight(g)]
             /\ UNCHANGED <<again, panicked, req, fails, listening, aways>>

\* SdNotify READY, then Serve.  The temporary unit has TEMP_SERVICE=true: it
\* sends nothing.
Ready(u) == /\ phase[u] = IF u = "main" THEN "told" ELSE "boot"
            /\ SetPhase(u, "up")
            /\ IF u = "temp" THEN StartReturns("poll") ELSE UNCHANGED req
            /\ UNCHANGED <<again, panicked, alone, stops, fails, supervisor>>

\* A process fails to start (its migrations, its listener), which is a failure
\* of a Type=notify unit even at status 0, or dies.
Fail(u) == /\ phase[u] \in Running
           /\ fails < MaxFails
           /\ fails' = fails + 1
           /\ SetPhase(u, "auto")
           /\ IF u = "temp" THEN StartReturns("restart") ELSE UNCHANGED req
           /\ UNCHANGED <<again, panicked, alone, stops, supervisor>>

\* Serving ends with an error: Start logs it, the process ends with status 0 and
\* Restart=on-failure leaves it at that.
Quit(u) == /\ phase[u] = "up"
           /\ fails < MaxFails
           /\ fails' = fails + 1
           /\ SetPhase(u, "off")
           /\ UNCHANGED <<again, panicked, req, alone, stops, supervisor>>

\* A fault: a new main tells before it is initialised.
LaunchTells(u) == /\ \/ phase[u] = "draining" /\ again[u]
                     \/ phase[u] = "auto"
                  /\ SetPhase(u, "boot")
                  /\ again' = [again EXCEPT ![u] = FALSE]
                  /\ panicked' = (panicked /\ u # "main")
                  /\ stops' = IF u = "main" /\ listening THEN stops + 1 ELSE stops
                  /\ UNCHANGED <<req, alone, fails, supervisor>>

\* A unit's next process begins: after the old one drained, or after a failure.
Launch(u) == /\ \/ phase[u] = "draining" /\ again[u]
                \/ phase[u] = "auto"
             /\ SetPhase(u, "boot")
             /\ again' = [again EXCEPT ![u] = FALSE]
             /\ panicked' = (panicked /\ u # "main")
             /\ UNCHANGED <<req, alone, stops, fails, supervisor>>

Drained(u) == /\ phase[u] = "draining"
              /\ ~again[u]
              /\ SetPhase(u, "off")
              /\ UNCHANGED <<again, panicked, req, alone, stops, fails, supervisor>>

-----------------------------------------------------------------------------
(* The supervisor: handle *)

\* A fault: the start is not waited for.
StartTempAsync(h) == /\ req[h] = "sent"
                     /\ JobStart("temp")
                     /\ req' = [req EXCEPT ![h] = "restart"]
                     /\ UNCHANGED <<panicked, alone, stops, fails, supervisor>>

\* "systemctl start temp" blocks until the unit is up or its start failed.
StartTemp(h) == /\ req[h] = "sent"
                /\ JobStart("temp")
                /\ req' = [req EXCEPT ![h] =
                     IF phase["temp"] = "up" THEN "poll" ELSE "wait"]
                /\ UNCHANGED <<panicked, alone, stops, fails, supervisor>>

\* A fault: the restart is given up when the temporary unit is not active.
PollAborts(h) == /\ req[h] = "poll"
                 /\ req' = [req EXCEPT ![h] =
                      IF phase["temp"] = "up" THEN "restart" ELSE "done"]
                 /\ UNCHANGED <<phase, again, panicked, alone, stops, fails, supervisor>>

\* "systemctl is-active temp", once a second, until it says so or the deadline
\* has passed; the restart goes on in both cases.
Poll(h) == /\ req[h] = "poll"
           /\ req' = [req EXCEPT ![h] = "restart"]
           /\ UNCHANGED <<phase, again, panicked, alone, stops, fails, supervisor>>

RestartMain(h) == /\ req[h] = "restart"
                  /\ JobRestart("main")
                  /\ panicked' = (panicked /\ phase["main"] \notin {"off", "auto"})
                  /\ req' = [req EXCEPT ![h] = "done"]
                  /\ UNCHANGED <<alone, stops, fails, supervisor>>

\* "systemctl stop temp"; it cancels a start that is under way.
StopTemp == /\ stops > 0
            /\ stops' = stops - 1
            /\ JobStop("temp")
            /\ StartReturns("restart")
            /\ UNCHANGED <<panicked, alone, fails, supervisor>>

\* The supervisor dies: its handlers and what is sent and not yet read are gone,
\* the jobs of the units are systemd's and stay.
SupervisorDies ==
  /\ listening
  /\ aways < MaxAway
  /\ aways' = aways + 1
  /\ listening' = FALSE
  /\ req' = [h \in Requests |-> IF InFlight(h) THEN "lost" ELSE req[h]]
  /\ stops' = 0
  /\ missed' = (missed \/ stops > 0
                 \/ \E h \in Requests : InFlight(h) /\ req[h] # "sent")
  /\ panicked' = (panicked /\ (again["main"] \/ phase["main"] = "auto"))
  /\ UNCHANGED <<phase, again, alone, fails>>

\* It removes the old socket and listens on a new one.
Listen == /\ ~listening
          /\ listening' = TRUE
          /\ UNCHANGED <<phase, again, panicked, req, alone, stops, fails, missed, aways>>

-----------------------------------------------------------------------------
Handle(h) == StartTemp(h) \/ Poll(h) \/ RestartMain(h)
Process(u) == Ready(u) \/ Launch(u) \/ Drained(u)

Next == \/ \E h \in Requests : Panic(h) \/ Handle(h)
        \/ \E u \in Units : Fail(u) \/ Quit(u) \/ Process(u)
        \/ OnStartUp
        \/ StopTemp
        \/ SupervisorDies
        \/ Listen

\* Every process and every handler goes on; nothing makes a request panic, an
\* instance fail or the supervisor die, nor anybody start it again (its unit has
\* no Restart=).
Fairness == /\ \A h \in Requests : WF_vars(Handle(h))
            /\ \A u \in Units : WF_vars(Process(u))
            /\ WF_vars(OnStartUp)
            /\ WF_vars(StopTemp)

Spec == Init /\ [][Next]_vars /\ Fairness

-----------------------------------------------------------------------------
(* Properties *)

\* Every variable keeps to its type; each start of main sends one stop request.
TypeOK == /\ phase \in [Units -> Running \cup {"off", "draining", "auto"}]
          /\ again \in [Units -> BOOLEAN]
          /\ panicked \in BOOLEAN
          /\ req \in [Requests -> {"free", "sent", "wait", "poll", "restart", "done", "lost"}]
          /\ alone \in [Requests -> BOOLEAN]
          /\ stops \in 0..(MaxPanics + MaxFails)
          /\ fails \in 0..MaxFails
          /\ listening \in BOOLEAN
          /\ missed \in BOOLEAN
          /\ aways \in 0..MaxAway

\* A restart that no other request runs beside stops the old main only while
\* the temporary unit serves, unless an instance failed on the way: traffic can
\* be drained from the old process.
Covered == [][\A h \in Requests : RestartMain(h) /\ alone[h] =>
                phase["temp"] = "up" \/ fails > 0]_vars

\* A temporary unit that serves is stopped only when a new main is initialised or
\* serves, unless an instance failed or restarts ran beside each other: the way
\* back to main is covered, too.
Handover == [][StopTemp /\ phase["temp"] = "up" =>
                 phase["main"] \in {"told", "up"} \/ fails > 0
                 \/ \E h \in Requests : ~alone[h]]_vars

\* A main that has asked for its restart gives way to a new one that serves,
\* however many requests run at once and whatever becomes of the temporary unit,
\* unless the supervisor dies on the way.
Renewed == panicked ~> (phase["main"] = "up" /\ ~panicked) \/ ~listening

\* The temporary unit does not stay, whatever restart and stop requests overlap:
\* it is stopped in the end, unless the supervisor was away when it should have
\* been told, and then by the next main that can tell it.
Retired == phase["temp"] # "off" ~> (phase["temp"] = "off" \/ missed)

\* A new main always comes to serve, or fails: it does not wait for a supervisor.
Serves == phase["main"] = "boot" ~> phase["main"] \in {"up", "auto", "draining"}
=============================================================================
