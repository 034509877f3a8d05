------------------------------- MODULE Delivery -------------------------------
(* What the two ends of the items topic may rely on: messages are taken in    *)
(* the order of the topic, one that is taken is carried out at most once and  *)
(* once more for every move of the partition, and a caller that is answered   *)
(* has had its request carried out.  A message that is taken and never        *)
(* carried out is lost; a caller that gave up knows nothing.                  *)
EXTENDS Naturals, Sequences

CONSTANTS Callers, Others, MaxCopies

VARIABLES source,   \* message, in the order of the topic -> who wrote it
          taken,    \* messages taken: 1..taken
          runs,     \* message -> how often it was carried out
          caller,   \* caller -> idle, waiting, answered or failed
          moves     \* times the partition was taken from a consumer

vars == <<source, taken, runs, caller, moves>>

Init == /\ source = <<>>
        /\ taken = 0
        /\ runs = <<>>
        /\ caller = [k \in Callers |-> "idle"]
        /\ moves = 0

\* A writer retries and does not wait for the broker: 0 or more copies arrive.
Write(s) == \E n \in 0..MaxCopies :
              /\ source' = source \o [i \in 1..n |-> s]
              /\ runs' = runs \o [i \in 1..n |-> 0]
              /\ UNCHANGED <<taken, moves>>

Publish(s) == Write(s) /\ UNCHANGED caller

Call(k) == /\ caller[k] = "idle"
           /\ Write(k)
           /\ \E end \in {"waiting", "failed"} : caller' = [caller EXCEPT ![k] = end]

Take == /\ taken < Len(source)
        /\ taken' = taken + 1
        /\ UNCHANGED <<source, runs, caller, moves>>

Run(o) == /\ o <= taken
          /\ runs[o] <= moves
          /\ runs' = [runs EXCEPT ![o] = @ + 1]
          /\ UNCHANGED <<source, taken, caller, moves>>

Move == /\ moves' = moves + 1
        /\ UNCHANGED <<source, taken, runs, caller>>

Answer(k) == /\ caller[k] = "waiting"
             /\ \E o \in DOMAIN source : source[o] = k /\ runs[o] > 0
             /\ caller' = [caller EXCEPT ![k] = "answered"]
             /\ UNCHANGED <<source, taken, runs, moves>>

GiveUp(k) == /\ caller[k] = "waiting"
             /\ caller' = [caller EXCEPT ![k] = "failed"]
             /\ UNCHANGED <<source, taken, runs, moves>>

Next == \/ \E k \in Callers : Call(k) \/ Answer(k) \/ GiveUp(k)
        \/ \E s \in Others : Publish(s)
        \/ Take
        \/ \E o \in DOMAIN runs : Run(o)
        \/ Move

Spec == Init /\ [][Next]_vars
=============================================================================
