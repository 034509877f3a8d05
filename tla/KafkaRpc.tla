------------------------------- MODULE KafkaRpc -------------------------------
(* The items topic from both ends: the publisher (outbound/service/example,   *)
(* PublishItem and PublishItemAndWait) and the consumer loop (server/kafka),  *)
(* with processes that crash, stop on an error and are started again.  The    *)
(* broker and kafka-go's Reader are external: one partition, one consumer     *)
(* group, whose offset is committed by ReadMessage before it returns.  The    *)
(* partition moves between the members of the group; a member that lost it    *)
(* still has what it fetched, and a commit that waits is made as a member of  *)
(* the next generation: the broker asks who commits, not whose the partition  *)
(* is.  Writers retry and do not wait for acknowledgements.                   *)
EXTENDS Naturals, Sequences, FiniteSets

CONSTANTS Callers,      \* calls of PublishItemAndWait, each made once
          Others,       \* other messages: PublishItem and programs elsewhere
          Actions,      \* actions other programs ask for
          Consumers,    \* processes that run the consumer
          NoOne,        \* nobody has the partition
          MaxCopies,    \* bound: copies of a message a writer's retries leave
          MaxMoves,     \* bound: times the partition is taken from a member
          MaxFaults     \* bound: crashes, errors, losses and copies

ASSUME ConstantsAssumption == /\ IsFiniteSet(Consumers)
                              /\ MaxCopies \in Nat \ {0}
                              /\ MaxMoves \in Nat /\ MaxFaults \in Nat
                              /\ NoOne \notin Consumers
                              /\ Callers \cap Others = {}

ServiceActions == {"create", "update", "get", "list", "delete"}

VARIABLES topic,      \* the items topic: a sequence of messages
          committed,  \* the group's offset: where the next owner goes on
          taken,      \* the highest offset there has been
          owner,      \* the consumer that has the partition
          next,       \* consumer -> the next message of its Reader, 0 if none
          pc,         \* consumer -> where its goroutine is
          at,         \* consumer -> the message it has read
          payload,    \* consumer -> respPayload
          did,        \* message -> the actions it was dispatched to
          asked,      \* a restart was requested
          reply,      \* caller -> the first message of its reply topic
          call,       \* caller -> idle, waiting, answered or failed
          moves,      \* times the partition was taken from a member
          faults      \* faults so far

offsets == <<committed, taken>>
group == <<owner, next, moves>>
broker == <<topic, offsets, group>>
consumer == <<pc, at, payload>>
vars == <<topic, offsets, group, consumer, did, asked, reply, call, faults>>

Idle == {"down", "ended"}
Payloads == {"item", "empty", "array", "deleted", "null"}

Message(s, f, a, r) == [src |-> s, format |-> f, action |-> a, reply |-> r]

Init == /\ topic = <<>>
        /\ committed = 0 /\ taken = 0
        /\ owner = NoOne
        /\ next = [c \in Consumers |-> 0]
        /\ moves = 0
        /\ pc = [c \in Consumers |-> "down"]
        /\ at = [c \in Consumers |-> 0]
        /\ payload = [c \in Consumers |-> "null"]
        /\ did = <<>>
        /\ asked = FALSE
        /\ reply = [k \in Callers |-> "none"]
        /\ call = [k \in Callers |-> "idle"]
        /\ faults = 0

Fault(happens) == /\ happens => faults < MaxFaults
                  /\ faults' = faults + (IF happens THEN 1 ELSE 0)

-----------------------------------------------------------------------------
(* Publishers *)

Arrive(m, n) == /\ topic' = topic \o [i \in 1..n |-> m]
                /\ did' = did \o [i \in 1..n |-> <<>>]

\* PublishItemAndWait writes the bare item, with a reply topic of its own, and
\* waits; when the write (or what comes before it) fails it returns, and the
\* message may have arrived nevertheless.
PublishItemAndWait(k) ==
  /\ call[k] = "idle"
  /\ \E n \in 0..MaxCopies, end \in {"waiting", "failed"} :
       /\ Arrive(Message(k, "item", "none", TRUE), n)
       /\ Fault(n # 1 \/ end = "failed")
       /\ call' = [call EXCEPT ![k] = end]
  /\ UNCHANGED <<offsets, group, consumer, asked, reply>>

\* PublishItem writes the bare item; other programs write events, items that do
\* not decode as an event ("old"), or anything.
Formats == {<<"item", "none", FALSE>>, <<"old", "none", FALSE>>,
            <<"garbage", "none", FALSE>>} \cup ({"event"} \X Actions \X BOOLEAN)
Publish(s) ==
  /\ \A o \in DOMAIN topic : topic[o].src # s
  /\ \E f \in Formats : Arrive(Message(s, f[1], f[2], f[3]), 1)
  /\ UNCHANGED <<offsets, group, consumer, asked, reply, call, faults>>

\* The reply topic is the caller's own, so its first message matches.
Answer(k) == /\ call[k] = "waiting"
             /\ reply[k] # "none"
             /\ call' = [call EXCEPT ![k] = IF reply[k] = "array" THEN "failed"
                                              ELSE "answered"]
             /\ UNCHANGED <<broker, consumer, did, asked, reply, faults>>

Timeout(k) == /\ call[k] = "waiting"
              /\ call' = [call EXCEPT ![k] = "failed"]
              /\ UNCHANGED <<broker, consumer, did, asked, reply, faults>>

-----------------------------------------------------------------------------
(* The consumer's process and its partition *)

Goto(c, l) == pc' = [pc EXCEPT ![c] = l]

\* NewConsumer joins the group.
StartConsumer(c) == /\ pc[c] \in Idle
                    /\ Goto(c, "read")
                    /\ UNCHANGED <<broker, at, payload, did, asked, reply, call, faults>>

\* A new generation gives c the partition, from the group's offset.
Assign(c) == /\ owner = NoOne
             /\ pc[c] \notin Idle
             /\ owner' = c
             /\ next' = [next EXCEPT ![c] = committed + 1]
             /\ UNCHANGED <<topic, offsets, moves, consumer, did, asked, reply, call, faults>>

\* The partition is taken from a member that runs, which keeps what its Reader
\* has, ...
Revoke(c) == /\ owner = c
             /\ moves < MaxMoves
             /\ moves' = moves + 1
             /\ owner' = NoOne
             /\ UNCHANGED <<topic, offsets, next, consumer, did, asked, reply, call, faults>>

\* ... until it is a member of a new generation.
Rejoin(c) == /\ owner # c
             /\ next[c] # 0
             /\ next' = [next EXCEPT ![c] = 0]
             /\ UNCHANGED <<topic, offsets, owner, moves, consumer, did, asked, reply, call,
                            faults>>

Leave(c) == /\ owner' = IF owner = c THEN NoOne ELSE owner
            /\ next' = [next EXCEPT ![c] = 0]
            /\ UNCHANGED moves

\* The process dies, or shutdown ends it while it handles a message.
Crash(c) == /\ pc[c] \notin Idle
            /\ Fault(TRUE)
            /\ Leave(c)
            /\ Goto(c, "down")
            /\ UNCHANGED <<topic, offsets, at, payload, did, asked, reply, call>>

\* ReadMessage fetches the next message of the Reader ...
Fetches(c, o, l) == /\ pc[c] = "read"
                    /\ next[c] \in 1..Len(topic)
                    /\ at' = [at EXCEPT ![c] = o]
                    /\ next' = [next EXCEPT ![c] = o + 1]
                    /\ Goto(c, l)
                    /\ UNCHANGED <<topic, offsets, owner, moves, payload, did, asked, reply,
                                   call, faults>>

\* Faults: the newest message is fetched; the message is fetched and never
\* committed.
FetchLatest(c) == Fetches(c, Len(topic), "commit")
FetchOnly(c) == Fetches(c, next[c], "handle")

Fetch(c) == Fetches(c, next[c], "commit")

\* ... and commits it before it returns.  A commit of the generation that has
\* ended waits for the next one; the offset goes back if others went on.
Committable(c) == pc[c] = "commit" /\ (owner = c \/ next[c] = 0)
CommitAt(o) == /\ committed' = o
               /\ taken' = IF o > taken THEN o ELSE taken

\* A fault: the offset that is committed is one too high.
CommitNext(c) == /\ Committable(c)
                 /\ CommitAt(at[c] + 1)
                 /\ Goto(c, "handle")
                 /\ UNCHANGED <<topic, group, at, payload, did, asked, reply, call, faults>>

Commit(c) == /\ Committable(c)
             /\ CommitAt(at[c])
             /\ Goto(c, "handle")
             /\ UNCHANGED <<topic, group, at, payload, did, asked, reply, call, faults>>

\* ReadMessage fails, or shutdown cancels it: Start returns, and the commit it
\* was waiting for may have been carried out.
ReadFails(c) == /\ pc[c] \in {"read", "commit"}
                /\ Fault(TRUE)
                /\ UNCHANGED offsets \/ (Committable(c) /\ CommitAt(at[c]))
                /\ Leave(c)
                /\ Goto(c, "ended")
                /\ UNCHANGED <<topic, at, payload, did, asked, reply, call>>

-----------------------------------------------------------------------------
(* handleMessage *)

\* A bare item decodes as an event without an action, so the old format is only
\* tried on what no event decodes from: that is a create.
Decoded(m) == CASE m.format = "event" -> m.action
                [] m.format = "old" -> "create"
                [] OTHER -> "none"

\* What is answered: the zero item of a failed call, nothing for an action
\* that is not known, and "deleted" whatever DeleteItem returned.
Answered(a, ok) == IF a \notin ServiceActions THEN "null"
                   ELSE IF a = "delete" THEN "deleted"
                   ELSE IF a = "list" THEN (IF ok THEN "array" ELSE "null")
                   ELSE (IF ok THEN "item" ELSE "empty")

\* It cannot be decoded, or no ID or logger is to be had.
Reject(c) == /\ pc[c] = "handle"
             /\ Fault(topic[at[c]].format # "garbage")
             /\ Goto(c, "read")
             /\ UNCHANGED <<broker, at, payload, did, asked, reply, call>>

Dispatched(c) == did' = [did EXCEPT ![at[c]] = Append(@, Decoded(topic[at[c]]))]

\* The service is called; its error is only logged.
Handle(c) ==
  LET m == topic[at[c]]
      a == Decoded(m)
  IN /\ pc[c] = "handle"
     /\ m.format # "garbage"
     /\ a # "crash"
     /\ Dispatched(c)
     /\ \E ok \in BOOLEAN : payload' = [payload EXCEPT ![c] = Answered(a, ok)]
     /\ Goto(c, IF m.reply THEN "reply" ELSE "read")
     /\ UNCHANGED <<broker, at, asked, reply, call, faults>>

\* The handler panics: recovered, and a restart is requested on the side.
Panic(c) == /\ pc[c] = "handle"
            /\ topic[at[c]].format # "garbage"
            /\ Fault(Decoded(topic[at[c]]) # "crash")
            /\ Dispatched(c)
            /\ asked' = TRUE
            /\ Goto(c, "read")
            /\ UNCHANGED <<broker, at, payload, reply, call>>

\* A fault: the reply is written until it arrives.
ReplyRetried(c) == /\ pc[c] = "reply"
                   /\ UNCHANGED vars

\* The reply is written to the caller's topic, or lost; a failed write is
\* reported to Start, which logs it.
Reply(c) ==
  LET s == topic[at[c]].src IN
  /\ pc[c] = "reply"
  /\ \E arrives \in BOOLEAN :
       /\ Fault(~arrives)
       /\ reply' = [k \in Callers |-> IF arrives /\ k = s /\ reply[k] = "none"
                                      THEN payload[c] ELSE reply[k]]
  /\ Goto(c, "read")
  /\ UNCHANGED <<broker, at, payload, did, asked, call>>

-----------------------------------------------------------------------------
Consume(c) == Fetch(c) \/ Commit(c) \/ Reject(c) \/ Handle(c) \/ Panic(c) \/ Reply(c)

Next == \/ \E k \in Callers : PublishItemAndWait(k) \/ Answer(k) \/ Timeout(k)
        \/ \E s \in Others : Publish(s)
        \/ \E c \in Consumers : \/ StartConsumer(c) \/ Assign(c) \/ Revoke(c)
                                \/ Rejoin(c) \/ Crash(c) \/ ReadFails(c) \/ Consume(c)

\* The goroutine of a consumer goes on, and a crashed process is started again;
\* one that ended by itself need not be.  The group's members join the next
\* generation, and the broker gives a free partition to one of them.
Fairness == /\ \A c \in Consumers :
                 /\ WF_vars(Consume(c) \/ (StartConsumer(c) /\ pc[c] = "down"))
                 /\ WF_vars(Rejoin(c))
            /\ WF_vars(\E c \in Consumers : Assign(c))

Spec == Init /\ [][Next]_vars /\ Fairness

-----------------------------------------------------------------------------
(* Properties *)

\* Every variable keeps to its type.
TypeOK == /\ \A o \in DOMAIN topic : topic[o] \in
               [src : Callers \cup Others, format : {"item", "event", "old", "garbage"},
                action : Actions \cup {"none"}, reply : BOOLEAN]
          /\ DOMAIN did = DOMAIN topic
          /\ taken \in 0..Len(topic)
          /\ committed \in 0..taken
          /\ owner \in Consumers \cup {NoOne}
          /\ next \in [Consumers -> 0..Len(topic) + 1]
          /\ pc \in [Consumers -> Idle \cup {"read", "commit", "handle", "reply"}]
          /\ at \in [Consumers -> 0..Len(topic)]
          /\ payload \in [Consumers -> Payloads]
          /\ asked \in BOOLEAN
          /\ reply \in [Callers -> Payloads \cup {"none"}]
          /\ call \in [Callers -> {"idle", "waiting", "answered", "failed"}]
          /\ moves \in 0..MaxMoves
          /\ faults \in 0..MaxFaults

\* A message is carried out at most once, whatever crashes and restarts happen
\* between its being read and its being handled, plus at most once for every
\* time the partition was taken from a member that runs: a commit of that member
\* still to come may repeat its message, or set the offset back once.
OnceUnlessMoved == \A o \in DOMAIN did : Len(did[o]) <= 1 + moves

\* Publishers and the consumers together are the delivery of Delivery: messages
\* are taken in the order of the topic before they are carried out, none is left
\* out or repeated too often, and a caller that is answered was served.
D == INSTANCE Delivery WITH
       source <- [o \in DOMAIN topic |-> topic[o].src],
       runs <- [o \in DOMAIN topic |-> Len(did[o])],
       caller <- call
ImplementsDelivery == D!Spec

\* Undecodable messages, panics, failed replies, crashes and moves never stop the
\* consumption: while a message is left it goes on to the end of the topic, unless
\* every process ended because ReadMessage failed.
Consumed == taken < Len(topic) ~>
              taken = Len(topic) \/ \A c \in Consumers : pc[c] = "ended"

\* "fallback to old format where value is an Item": a message whose value is an
\* item, as PublishItem writes it, is a request to create that item.
OldFormatCreates == \A o \in DOMAIN topic :
  topic[o].format = "item" /\ did[o] # <<>> => did[o][1] = "create"
=============================================================================
