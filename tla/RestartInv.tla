------------------------------- MODULE RestartInv -------------------------------
(* The inductive invariant behind the theorems of Restart_proofs, in a module  *)
(* TLC can check too.                                                          *)
EXTENDS Restart, FiniteSets

\* Only a unit that drains can be waiting to be started again.
AgainDrains == \A u \in Units : again[u] => phase[u] = "draining"

\* Every stop that is sent comes from a start of main, and every start of main
\* from a restart request that was carried out or from a failure.
Open == {h \in Requests : req[h] \notin {"done", "lost"}}
Coming == (IF phase["main"] \in {"boot", "auto"} THEN 1 ELSE 0)
          + (IF again["main"] THEN 1 ELSE 0)
Budget == stops + Coming + Cardinality(Open) <= MaxPanics + fails

\* While a request that ran alone is in flight no other is, no stop is on its
\* way, and once its start of the temporary unit returned that unit serves,
\* unless an instance failed.
Alone == \A h \in Requests : alone[h] /\ InFlight(h) =>
  /\ \A g \in Requests \ {h} : ~InFlight(g)
  /\ stops = 0
  /\ req[h] \in {"poll", "restart"} => phase["temp"] = "up" \/ fails > 0

\* While a stop is on its way the main that sent it is there, unless an instance
\* failed or a restart ran beside something else.
Relieved == stops > 0 => \/ phase["main"] \in {"told", "up"}
                         \/ fails > 0
                         \/ \E h \in Requests : ~alone[h]

IInv == TypeOK /\ AgainDrains /\ Budget /\ Alone /\ Relieved
=============================================================================
