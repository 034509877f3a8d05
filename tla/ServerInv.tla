------------------------------- MODULE ServerInv -------------------------------
(* The inductive invariant behind the theorems of Server_proofs, in a module   *)
(* TLC can check too.                                                          *)
EXTENDS Server, PipelineInv

\* The log file is open from the dependencies to the end of Start, and the
\* listener only while Start serves.
LogOpen ==
  /\ start \in {"ready", "closehook", "hooks", "serve", "stopped", "done"} => log = "open"
  /\ lis = "open" => start = "serve"

\* Before Run closes anything, Serve does not return but by failing; so requests
\* come only while Start serves, or after serving failed.
NotYetClosed == run \in {"init", "wait"} =>
  /\ ~stopping
  /\ start = "serve" => lis # "closed"
  /\ start # "serve" /\ ~broken => \A r \in Requests : stage[r] = "none"

\* Nothing is served before Run can find the function that shuts it down.
Hooked == "shutdown" \notin hooks =>
  /\ start \notin {"hooks", "serve"}
  /\ \A r \in Requests : stage[r] = "none"

\* Only the end of the process cuts requests.
CutAtEnd == run # "ended" => \A r \in Requests : stage[r] # "cut"

IInv == /\ TypeOK /\ PipelineInv
        /\ LogOpen /\ NotYetClosed /\ Hooked /\ CutAtEnd /\ CutOnlyLate
=============================================================================
