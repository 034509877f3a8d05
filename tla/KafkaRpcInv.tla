------------------------------ MODULE KafkaRpcInv ------------------------------
(* The inductive invariant behind the theorems of KafkaRpc_proofs, in a module *)
(* TLC can check too.                                                          *)
EXTENDS KafkaRpc

Acts == Actions \cup {"none", "create"}
Messages == [src : Callers \cup Others, format : {"item", "event", "old", "garbage"},
             action : Actions \cup {"none"}, reply : BOOLEAN]

\* did has an entry for every message of the topic.
Entries == /\ topic \in Seq(Messages)
           /\ did \in Seq(Seq(Acts))
           /\ Len(did) = Len(topic)

\* The owner runs and has a Reader.  No Reader is ahead of what was taken but by
\* the message it commits; what is handled was taken.
ReaderOf(c) ==
  /\ pc[c] \in Idle => next[c] = 0
  /\ owner = c => next[c] # 0
  /\ next[c] <= taken + 1 \/ (pc[c] = "commit" /\ next[c] = at[c] + 1)
  /\ pc[c] = "commit" => at[c] \in 1..Len(topic) /\ at[c] <= taken + 1
  /\ pc[c] \in {"handle", "reply"} => at[c] \in 1..taken
  /\ pc[c] = "reply" => did[at[c]] # <<>>
Readers == \A c \in Consumers : ReaderOf(c)

\* What was not taken was not carried out.
Untouched == \A o \in 1..Len(topic) : o > taken => did[o] = <<>>

\* A reply is to a message that was carried out.
Earned == \A k \in Callers : reply[k] # "none" =>
            \E o \in 1..taken : topic[o].src = k /\ did[o] # <<>>

-----------------------------------------------------------------------------
(* How often a message may still be carried out *)

\* c commits the message its Reader fetched last, which a Reader that was
\* started anew in between does not know of.
Fetched(c) == pc[c] = "commit" /\ next[c] = at[c] + 1

\* The message the owner fetches next, or has fetched and not committed.
Position(c) == IF Fetched(c) THEN at[c] ELSE next[c]

\* The owner, or the next one, is still to come to o.
Coming(o) == o > committed \/ \E c \in Consumers : owner = c /\ o >= Position(c)
Ahead(o) == IF Coming(o) THEN 1 ELSE 0

\* The partition was taken from c, which may yet make a commit of that time.
IsLate(c) == \/ owner # c /\ next[c] # 0
             \/ pc[c] = "commit" /\ (owner # c \/ ~Fetched(c))
Late == {c \in Consumers : IsLate(c)}

Handling(o) == {c \in Consumers : pc[c] = "handle" /\ at[c] = o}

\* Every move leaves at most one late consumer.  A late commit either repeats a
\* message or sets the offset back, once, before the messages that come after.
Budget == /\ Cardinality(Late) <= moves
          /\ \A o \in 1..Len(topic) :
               Len(did[o]) + Cardinality(Handling(o)) + Cardinality(Late) + Ahead(o)
                 <= 1 + moves

IInv == /\ TypeOK /\ Entries /\ Readers /\ Untouched /\ Earned /\ Budget
=============================================================================
