---------------------------- MODULE KafkaRpc_proofs ----------------------------
(* Proofs about KafkaRpc, for any callers, messages and finite set of          *)
(* consumers, and any numbers of copies, moves and faults.  KafkaRpcInv!IInv is *)
(* inductive: the type invariant, that a Reader is ahead of what was taken by   *)
(* at most the message it commits, that what is handled was taken, that replies *)
(* were earned, and the budget of moves that pays for every repetition.         *)
EXTENDS KafkaRpcInv, SequenceTheorems, FiniteSetTheorems, TLAPS

Calls == {"idle", "waiting", "answered", "failed"}
Places == Idle \cup {"read", "commit", "handle", "reply"}

-----------------------------------------------------------------------------
(* Messages arrive *)

\* Appending n equal elements keeps what was there.
LEMMA AppendCopies ==
  ASSUME NEW S, NEW s \in Seq(S), NEW m \in S, NEW n \in Nat,
         NEW t, t = s \o [i \in 1..n |-> m]
  PROVE  /\ t \in Seq(S)
         /\ Len(t) = Len(s) + n
         /\ DOMAIN t = 1..Len(t)
         /\ \A o \in 1..Len(s) : t[o] = s[o]
         /\ \A o \in 1..Len(t) : o > Len(s) => t[o] = m
<1> DEFINE u == [i \in 1..n |-> m]
<1>1. u \in Seq(S) /\ Len(u) = n  OBVIOUS
<1>2. \A i \in 1..n : u[i] = m  OBVIOUS
<1> HIDE DEF u
<1>3. t = s \o u  BY DEF u
<1>4. /\ t \in Seq(S) /\ Len(t) = Len(s) + n
      /\ \A o \in 1..Len(s) + n : t[o] = IF o <= Len(s) THEN s[o] ELSE u[o - Len(s)]
  BY <1>1, <1>3, ConcatProperties
<1>5. Len(s) \in Nat /\ DOMAIN t = 1..Len(t)  BY <1>4, LenProperties
<1>6. \A o \in 1..Len(s) : t[o] = s[o]  BY <1>4, <1>5
<1>7. ASSUME NEW o \in 1..Len(t), o > Len(s)  PROVE t[o] = m
  <2>1. o - Len(s) \in 1..n  BY <1>4, <1>5, <1>7
  <2> QED  BY <1>2, <1>4, <1>5, <1>7, <2>1
<1> QED  BY <1>4, <1>5, <1>6, <1>7

\* New messages have not been carried out; the others are as they were.
LEMMA Arrival ==
  ASSUME Entries, NEW m \in Messages, NEW n \in Nat, Arrive(m, n)
  PROVE  /\ Entries'
         /\ Len(topic) \in Nat
         /\ Len(topic)' = Len(topic) + n
         /\ DOMAIN topic = 1..Len(topic) /\ DOMAIN did = 1..Len(topic)
         /\ DOMAIN topic' = 1..Len(topic') /\ DOMAIN did' = 1..Len(topic')
         /\ \A o \in 1..Len(topic) : topic'[o] = topic[o] /\ did'[o] = did[o]
         /\ \A o \in 1..Len(topic') : o > Len(topic) => topic'[o] = m /\ did'[o] = <<>>
<1>1. topic' = topic \o [i \in 1..n |-> m] /\ did' = did \o [i \in 1..n |-> <<>>]
  BY DEF Arrive
<1>2. topic \in Seq(Messages) /\ did \in Seq(Seq(Acts)) /\ Len(did) = Len(topic)
  BY DEF Entries
<1>3. <<>> \in Seq(Acts)  BY EmptySeq
<1>4. /\ topic' \in Seq(Messages) /\ Len(topic') = Len(topic) + n
      /\ DOMAIN topic' = 1..Len(topic')
      /\ \A o \in 1..Len(topic) : topic'[o] = topic[o]
      /\ \A o \in 1..Len(topic') : o > Len(topic) => topic'[o] = m
  BY <1>1, <1>2, AppendCopies
<1>5. /\ did' \in Seq(Seq(Acts)) /\ Len(did') = Len(did) + n
      /\ DOMAIN did' = 1..Len(did')
      /\ \A o \in 1..Len(did) : did'[o] = did[o]
      /\ \A o \in 1..Len(did') : o > Len(did) => did'[o] = <<>>
  <2>1. PICK e \in Seq(Acts) : e = <<>>  BY <1>3
  <2>2. PICK s \in Seq(Seq(Acts)) : s = did  BY <1>2
  <2>3. PICK t : t = s \o [i \in 1..n |-> e]  OBVIOUS
  <2>4. /\ t \in Seq(Seq(Acts)) /\ Len(t) = Len(s) + n
        /\ DOMAIN t = 1..Len(t)
        /\ \A o \in 1..Len(s) : t[o] = s[o]
        /\ \A o \in 1..Len(t) : o > Len(s) => t[o] = e
    BY <2>3, AppendCopies
  <2>5. t = did'  BY <1>1, <2>1, <2>2, <2>3
  <2> QED  BY <2>1, <2>2, <2>4, <2>5
<1>6. DOMAIN topic = 1..Len(topic) /\ DOMAIN did = 1..Len(did) /\ Len(topic) \in Nat
  BY <1>2, LenProperties
<1> QED  BY <1>2, <1>4, <1>5, <1>6 DEF Entries

\* The count of faults keeps its bound.
LEMMA FaultBound ==
  ASSUME faults \in 0..MaxFaults, NEW happens \in BOOLEAN, Fault(happens)
  PROVE  faults' \in 0..MaxFaults
BY ConstantsAssumption DEF Fault

-----------------------------------------------------------------------------
(* Counting *)

\* Lengths and offsets are numbers.
LEMMA Numbers ==
  ASSUME IInv
  PROVE  /\ Len(topic) \in Nat /\ committed \in Nat /\ taken \in Nat
         /\ committed <= taken /\ taken <= Len(topic) /\ moves \in Nat
         /\ DOMAIN topic = 1..Len(topic) /\ DOMAIN did = 1..Len(topic)
<1>1. Len(topic) \in Nat /\ DOMAIN topic = 1..Len(topic) /\ DOMAIN did = 1..Len(topic)
  BY LenProperties DEF IInv, Entries
<1>2. taken \in 0..Len(topic) /\ committed \in 0..taken /\ moves \in 0..MaxMoves
  BY DEF IInv, TypeOK
<1> QED  BY <1>1, <1>2, ConstantsAssumption

Lt(c) == IF IsLate(c) THEN 1 ELSE 0
Hd(c, o) == IF pc[c] = "handle" /\ at[c] = o THEN 1 ELSE 0

\* Two sets of consumers that differ in one consumer at most.
LEMMA OneChange ==
  ASSUME NEW S \in SUBSET Consumers, NEW T \in SUBSET Consumers, NEW c \in Consumers,
         \A d \in Consumers : d # c => (d \in S <=> d \in T)
  PROVE  /\ Cardinality(S) \in Nat /\ Cardinality(T) \in Nat
         /\ Cardinality(T) = Cardinality(S) + (IF c \in T THEN 1 ELSE 0)
                                            - (IF c \in S THEN 1 ELSE 0)
<1>1. IsFiniteSet(S) /\ IsFiniteSet(T)  BY FS_Subset, ConstantsAssumption
<1>2. S \ {c} = T \ {c}  OBVIOUS
<1>3. /\ Cardinality(S \ {c}) = IF c \in S THEN Cardinality(S) - 1 ELSE Cardinality(S)
      /\ Cardinality(T \ {c}) = IF c \in T THEN Cardinality(T) - 1 ELSE Cardinality(T)
  BY <1>1, FS_RemoveElement
<1>4. Cardinality(S) \in Nat /\ Cardinality(T) \in Nat  BY <1>1, FS_CardinalityType
<1> QED  BY <1>2, <1>3, <1>4

\* The others are where they were.
OthersStay(c) == \A d \in Consumers : d # c =>
                /\ pc'[d] = pc[d] /\ at'[d] = at[d] /\ next'[d] = next[d]
                /\ owner' = d <=> owner = d

\* A step of c pays for what it adds to the budget of a message.
Pays(c) == /\ Lt(c)' - Lt(c) <= moves' - moves
           /\ \A o \in 1..Len(topic) :
                (Len(did'[o]) - Len(did[o])) + (Hd(c, o)' - Hd(c, o))
                  + (Lt(c)' - Lt(c)) + (Ahead(o)' - Ahead(o)) <= moves' - moves

\* The budget is kept by a step that pays.
LEMMA BudgetStep ==
  ASSUME IInv, NEW c \in Consumers, topic' = topic, Entries', OthersStay(c),
         moves' \in Nat, Pays(c)
  PROVE  Budget'
<1>0. Len(topic) \in Nat /\ moves \in Nat  BY Numbers
<1>1. /\ Cardinality(Late) \in Nat /\ Cardinality(Late') \in Nat
      /\ Cardinality(Late') = Cardinality(Late) + Lt(c)' - Lt(c)
  <2>1. Late \in SUBSET Consumers /\ Late' \in SUBSET Consumers  BY DEF Late
  <2>2. \A d \in Consumers : d # c => (d \in Late <=> d \in Late')
    BY DEF OthersStay, Late, IsLate, Fetched
  <2>3. (c \in Late <=> IsLate(c)) /\ (c \in Late' <=> IsLate(c)')  BY DEF Late
  <2>4. /\ Cardinality(Late) \in Nat /\ Cardinality(Late') \in Nat
        /\ Cardinality(Late') = Cardinality(Late) + (IF c \in Late' THEN 1 ELSE 0)
                                                  - (IF c \in Late THEN 1 ELSE 0)
    BY <2>1, <2>2, OneChange
  <2> QED  BY <2>3, <2>4 DEF Lt
<1>2. Cardinality(Late') <= moves'
  <2>1. Lt(c) \in 0..1 /\ Lt(c)' \in 0..1  BY DEF Lt
  <2>2. Lt(c)' - Lt(c) <= moves' - moves  BY DEF Pays
  <2>3. Cardinality(Late) <= moves  BY DEF IInv, Budget
  <2> QED  BY <1>0, <1>1, <2>1, <2>2, <2>3
<1>3. ASSUME NEW o \in 1..Len(topic)
      PROVE  Len(did'[o]) + Cardinality(Handling(o)') + Cardinality(Late') + Ahead(o)'
               <= 1 + moves'
  <2>1. /\ Cardinality(Handling(o)) \in Nat /\ Cardinality(Handling(o)') \in Nat
        /\ Cardinality(Handling(o)') = Cardinality(Handling(o)) + Hd(c, o)' - Hd(c, o)
    <3>1. Handling(o) \in SUBSET Consumers /\ Handling(o)' \in SUBSET Consumers
      BY DEF Handling
    <3>2. \A d \in Consumers : d # c => (d \in Handling(o) <=> d \in Handling(o)')
      BY DEF OthersStay, Handling
    <3>3. /\ c \in Handling(o) <=> pc[c] = "handle" /\ at[c] = o
          /\ c \in Handling(o)' <=> pc'[c] = "handle" /\ at'[c] = o
      BY DEF Handling
    <3>4. /\ Cardinality(Handling(o)) \in Nat /\ Cardinality(Handling(o)') \in Nat
          /\ Cardinality(Handling(o)') = Cardinality(Handling(o))
               + (IF c \in Handling(o)' THEN 1 ELSE 0) - (IF c \in Handling(o) THEN 1 ELSE 0)
      BY <3>1, <3>2, OneChange
    <3> QED  BY <3>3, <3>4 DEF Hd
  <2>2. Len(did[o]) \in Nat /\ Len(did'[o]) \in Nat
    BY LenProperties DEF IInv, Entries
  <2>3. /\ Lt(c) \in 0..1 /\ Hd(c, o) \in 0..1 /\ Ahead(o) \in 0..1
        /\ Lt(c)' \in 0..1 /\ Hd(c, o)' \in 0..1 /\ Ahead(o)' \in 0..1
    BY DEF Lt, Hd, Ahead
  <2>4. Len(did[o]) + Cardinality(Handling(o)) + Cardinality(Late) + Ahead(o) <= 1 + moves
    BY DEF IInv, Budget
  <2>5. (Len(did'[o]) - Len(did[o])) + (Hd(c, o)' - Hd(c, o))
          + (Lt(c)' - Lt(c)) + (Ahead(o)' - Ahead(o)) <= moves' - moves
    BY DEF Pays
  <2>6. PICK n \in Nat, nn \in Nat : n = Len(did[o]) /\ nn = Len(did'[o])  BY <2>2
  <2>7. PICK h \in Nat, hh \in Nat :
          h = Cardinality(Handling(o)) /\ hh = Cardinality(Handling(o)')
    BY <2>1
  <2>8. PICK l \in Nat, ll \in Nat : l = Cardinality(Late) /\ ll = Cardinality(Late')
    BY <1>1
  <2>9. PICK a \in 0..1, aa \in 0..1 : a = Ahead(o) /\ aa = Ahead(o)'  BY <2>3
  <2>10. PICK x \in 0..1, xx \in 0..1 : x = Lt(c) /\ xx = Lt(c)'  BY <2>3
  <2>11. PICK y \in 0..1, yy \in 0..1 : y = Hd(c, o) /\ yy = Hd(c, o)'  BY <2>3
  <2>12. PICK k \in Nat, kk \in Nat : k = moves /\ kk = moves'  BY <1>0
  <2>13. /\ n + h + l + a <= 1 + k
         /\ hh = h + yy - y /\ ll = l + xx - x
         /\ (nn - n) + (yy - y) + (xx - x) + (aa - a) <= kk - k
    BY <1>1, <2>1, <2>4, <2>5, <2>6, <2>7, <2>8, <2>9, <2>10, <2>11, <2>12
  <2>14. nn + hh + ll + aa <= 1 + kk  BY <2>13
  <2> QED  BY <2>6, <2>7, <2>8, <2>9, <2>12, <2>14
<1> QED  BY <1>2, <1>3 DEF Budget

-----------------------------------------------------------------------------
(* What a step has to show *)

\* A step of c keeps the invariant when it keeps the types, what c has read, and
\* what was carried out, earns the replies it writes and pays.
LEMMA StepOf ==
  ASSUME IInv, NEW c \in Consumers, topic' = topic,
         TypeOK', Entries', OthersStay(c), ReaderOf(c)',
         taken <= taken', moves' \in Nat, Pays(c),
         \A o \in 1..Len(topic) : did'[o] = did[o] \/ (o <= taken /\ did'[o] # <<>>),
         \A k \in Callers : reply'[k] # "none" =>
            reply[k] # "none" \/ \E o \in 1..taken : topic[o].src = k /\ did[o] # <<>>
  PROVE  IInv'
<1>0. /\ Len(topic) \in Nat /\ taken \in Nat /\ taken <= Len(topic) /\ taken' \in Nat
  <2>1. taken' \in 0..Len(topic')  BY DEF TypeOK
  <2> QED  BY Numbers, <2>1
<1>1. Readers'
  <2> SUFFICES ASSUME NEW d \in Consumers, d # c  PROVE ReaderOf(d)'
    BY DEF Readers
  <2>1. ReaderOf(d)  BY DEF IInv, Readers
  <2>2. /\ pc'[d] = pc[d] /\ at'[d] = at[d] /\ next'[d] = next[d]
        /\ owner' = d <=> owner = d
    BY DEF OthersStay
  <2>3. at[d] \in 1..taken => at[d] \in 1..taken' /\ at[d] \in 1..Len(topic)  BY <1>0
  <2>4. next[d] \in Nat /\ at[d] \in Nat  BY <1>0 DEF IInv, TypeOK
  <2>5. (next[d] <= taken + 1 => next[d] <= taken' + 1)
          /\ (at[d] <= taken + 1 => at[d] <= taken' + 1)
    BY <1>0, <2>4
  <2> QED  BY <2>1, <2>2, <2>3, <2>5 DEF ReaderOf
<1>2. Untouched'
  <2> SUFFICES ASSUME NEW o \in 1..Len(topic), o > taken'  PROVE did'[o] = <<>>
    BY DEF Untouched
  <2>1. o > taken /\ ~(o <= taken)  BY <1>0
  <2> QED  BY <2>1 DEF IInv, Untouched
<1>3. Earned'
  <2> SUFFICES ASSUME NEW k \in Callers, reply'[k] # "none"
               PROVE \E o \in 1..taken' : topic[o].src = k /\ did'[o] # <<>>
    BY DEF Earned
  <2>1. PICK o \in 1..taken : topic[o].src = k /\ did[o] # <<>>  BY DEF IInv, Earned
  <2>2. o \in 1..taken' /\ o \in 1..Len(topic)  BY <1>0
  <2>3. did'[o] # <<>>  BY <2>1, <2>2
  <2> QED  BY <2>1, <2>2, <2>3
<1>4. Budget'  BY BudgetStep
<1> QED  BY <1>1, <1>2, <1>3, <1>4 DEF IInv

\* A step of c that keeps who is late and where the owner is pays for itself.
LEMMA NothingToPay ==
  ASSUME IInv, NEW c \in Consumers, moves' = moves,
         Lt(c)' <= Lt(c),
         \A o \in 1..Len(topic) :
           /\ Coming(o)' => Coming(o)
           /\ (Len(did'[o]) - Len(did[o])) + (Hd(c, o)' - Hd(c, o)) <= 0,
         Entries', topic' = topic
  PROVE  Pays(c)
<1>1. moves \in Nat /\ Lt(c) \in 0..1 /\ Lt(c)' \in 0..1  BY Numbers DEF Lt
<1>2. Lt(c)' - Lt(c) <= moves' - moves  BY <1>1
<1>3. ASSUME NEW o \in 1..Len(topic)
      PROVE  (Len(did'[o]) - Len(did[o])) + (Hd(c, o)' - Hd(c, o))
               + (Lt(c)' - Lt(c)) + (Ahead(o)' - Ahead(o)) <= moves' - moves
  <2>1. Ahead(o)' <= Ahead(o) /\ Ahead(o) \in 0..1 /\ Ahead(o)' \in 0..1
    <3>1. (Ahead(o) = 0 \/ Ahead(o) = 1) /\ (Ahead(o)' = 0 \/ Ahead(o)' = 1)
      BY DEF Ahead
    <3>2. Ahead(o)' = 1 => Ahead(o) = 1  BY DEF Ahead
    <3> QED  BY <3>1, <3>2
  <2>2. Len(did[o]) \in Nat /\ Len(did'[o]) \in Nat
    BY LenProperties DEF IInv, Entries
  <2>3. Hd(c, o) \in 0..1 /\ Hd(c, o)' \in 0..1  BY DEF Hd
  <2>4. (Len(did'[o]) - Len(did[o])) + (Hd(c, o)' - Hd(c, o)) <= 0  OBVIOUS
  <2>5. PICK n \in Nat, nn \in Nat : n = Len(did[o]) /\ nn = Len(did'[o])  BY <2>2
  <2>6. PICK a \in 0..1, aa \in 0..1 : a = Ahead(o) /\ aa = Ahead(o)'  BY <2>1
  <2>7. PICK x \in 0..1, xx \in 0..1 : x = Lt(c) /\ xx = Lt(c)'  BY <1>1
  <2>8. PICK y \in 0..1, yy \in 0..1 : y = Hd(c, o) /\ yy = Hd(c, o)'  BY <2>3
  <2>9. aa <= a /\ xx <= x /\ (nn - n) + (yy - y) <= 0
    BY <2>1, <2>4, <2>5, <2>6, <2>7, <2>8
  <2>10. (nn - n) + (yy - y) + (xx - x) + (aa - a) <= 0  BY <2>9
  <2>11. moves' - moves = 0  BY <1>1
  <2> QED  BY <2>5, <2>6, <2>7, <2>8, <2>10, <2>11
<1> QED  BY <1>2, <1>3 DEF Pays

-----------------------------------------------------------------------------
(* Steps of the publishers *)

\* A step that only lets messages arrive and callers go on keeps the invariant:
\* the owner comes to the new messages once, and nobody handles them yet.
LEMMA InvArrive ==
  ASSUME IInv, NEW m \in Messages, NEW n \in Nat, Arrive(m, n),
         UNCHANGED <<offsets, group, consumer, asked, reply>>,
         call' \in [Callers -> Calls], faults' \in 0..MaxFaults
  PROVE  IInv'
<1>1. /\ Entries'
      /\ Len(topic) \in Nat
      /\ Len(topic)' = Len(topic) + n
      /\ DOMAIN topic = 1..Len(topic) /\ DOMAIN did = 1..Len(topic)
      /\ DOMAIN topic' = 1..Len(topic') /\ DOMAIN did' = 1..Len(topic')
      /\ \A o \in 1..Len(topic) : topic'[o] = topic[o] /\ did'[o] = did[o]
      /\ \A o \in 1..Len(topic') : o > Len(topic) => topic'[o] = m /\ did'[o] = <<>>
  BY Arrival DEF IInv
<1>2. UNCHANGED <<committed, taken, owner, next, moves, pc, at, payload, asked, reply>>
  BY DEF consumer, offsets, group
<1>3. /\ taken \in 0..Len(topic) /\ committed \in 0..taken /\ moves \in Nat
      /\ at \in [Consumers -> 0..Len(topic)] /\ next \in [Consumers -> 0..Len(topic) + 1]
  BY Numbers DEF IInv, TypeOK
<1>4. \A o \in 1..Len(topic') : o <= Len(topic) \/ o > Len(topic)  BY <1>1
<1>5. TypeOK'
  <2>1. \A o \in DOMAIN topic' : topic'[o] \in Messages
    <3> SUFFICES ASSUME NEW o \in 1..Len(topic')  PROVE topic'[o] \in Messages
      BY <1>1
    <3>1. CASE o <= Len(topic)
      <4>1. o \in 1..Len(topic)  BY <1>1, <3>1
      <4> QED  BY <1>1, <4>1 DEF IInv, TypeOK, Messages
    <3>2. CASE o > Len(topic)  BY <1>1, <3>2
    <3> QED  BY <1>4, <3>1, <3>2
  <2>2. taken' \in 0..Len(topic') /\ committed' \in 0..taken'  BY <1>1, <1>2, <1>3
  <2>3. at' \in [Consumers -> 0..Len(topic')]  BY <1>1, <1>2, <1>3
  <2>4. next' \in [Consumers -> 0..Len(topic') + 1]  BY <1>1, <1>2, <1>3
  <2> QED  BY <1>1, <1>2, <2>1, <2>2, <2>3, <2>4 DEF IInv, TypeOK, Calls, Messages
<1>6. Readers'
  <2> SUFFICES ASSUME NEW c \in Consumers  PROVE ReaderOf(c)'
    BY DEF Readers
  <2>1. ReaderOf(c)  BY DEF IInv, Readers
  <2>2. at[c] \in 1..taken => did'[at[c]] = did[at[c]]  BY <1>1, <1>3
  <2>3. at[c] \in 1..Len(topic) => at[c] \in 1..Len(topic')  BY <1>1
  <2> QED  BY <1>2, <2>1, <2>2, <2>3 DEF ReaderOf
<1>7. Untouched'  BY <1>1, <1>2, <1>4 DEF IInv, Untouched
<1>8. Earned'
  <2>1. \A o \in 1..taken : topic'[o] = topic[o] /\ did'[o] = did[o]  BY <1>1, <1>3
  <2> QED  BY <1>2, <2>1 DEF IInv, Earned
<1>9. Budget'
  <2>1. Late' = Late  BY <1>2 DEF Late, IsLate, Fetched
  <2>2. Cardinality(Late) \in Nat /\ Cardinality(Late) <= moves
    <3>1. IsFiniteSet(Late)  BY FS_Subset, ConstantsAssumption DEF Late
    <3> QED  BY <3>1, FS_CardinalityType DEF IInv, Budget
  <2>3. ASSUME NEW o \in 1..Len(topic')
        PROVE  Len(did'[o]) + Cardinality(Handling(o)') + Cardinality(Late') + Ahead(o)'
                 <= 1 + moves'
    <3>1. Handling(o)' = Handling(o) /\ Ahead(o)' = Ahead(o)
      BY <1>2 DEF Handling, Ahead, Coming, Position, Fetched
    <3>2. CASE o <= Len(topic)
      <4>1. o \in 1..Len(topic) /\ did'[o] = did[o]  BY <1>1, <3>2
      <4> QED  BY <1>2, <2>1, <3>1, <4>1 DEF IInv, Budget
    <3>3. CASE o > Len(topic)
      <4>1. Len(did'[o]) = 0  BY <1>1, <3>3
      <4>2. Handling(o) = {}
        <5>1. \A c \in Consumers : pc[c] = "handle" => at[c] \in 1..taken
          BY DEF IInv, Readers, ReaderOf
        <5>2. \A c \in Consumers : pc[c] = "handle" => at[c] # o  BY <1>1, <1>3, <3>3, <5>1
        <5> QED  BY <5>2 DEF Handling
      <4>3. Cardinality(Handling(o)) = 0  BY <4>2, FS_EmptySet
      <4>4. Ahead(o) \in 0..1  BY DEF Ahead
      <4>5. PICK l \in Nat, a \in 0..1 : l = Cardinality(Late) /\ a = Ahead(o)
        BY <2>2, <4>4
      <4>6. 0 + 0 + l + a <= 1 + moves  BY <1>3, <2>2, <4>5
      <4> QED  BY <1>2, <2>1, <3>1, <4>1, <4>3, <4>5, <4>6
    <3> QED  BY <1>4, <3>2, <3>3
  <2> QED  BY <1>2, <2>1, <2>2, <2>3 DEF Budget
<1> QED  BY <1>1, <1>5, <1>6, <1>7, <1>8, <1>9 DEF IInv

\* What PublishItemAndWait and PublishItem write are messages.
LEMMA CallStep ==
  ASSUME IInv, NEW k \in Callers, PublishItemAndWait(k)
  PROVE  IInv'
<1>1. PICK n \in 0..MaxCopies, end \in {"waiting", "failed"} :
        /\ Arrive(Message(k, "item", "none", TRUE), n)
        /\ Fault(n # 1 \/ end = "failed")
        /\ call' = [call EXCEPT ![k] = end]
  BY DEF PublishItemAndWait
<1>2. Message(k, "item", "none", TRUE) \in Messages  BY DEF Message, Messages
<1>3. faults' \in 0..MaxFaults  BY <1>1, FaultBound DEF IInv, TypeOK
<1>4. call' \in [Callers -> Calls]  BY <1>1 DEF IInv, TypeOK, Calls
<1>5. n \in Nat  BY ConstantsAssumption
<1> QED  BY <1>1, <1>2, <1>3, <1>4, <1>5, InvArrive DEF PublishItemAndWait

\* What is published has a format, an action and a flag.
LEMMA FormatsTyped ==
  ASSUME NEW f \in Formats
  PROVE  /\ f[1] \in {"item", "event", "old", "garbage"}
         /\ f[2] \in Actions \cup {"none"} /\ f[3] \in BOOLEAN
<1> DEFINE Plain == {<<"item", "none", FALSE>>, <<"old", "none", FALSE>>,
                     <<"garbage", "none", FALSE>>}
<1>1. f \in Plain \/ f \in {"event"} \X Actions \X BOOLEAN  BY DEF Formats
<1>2. CASE f \in Plain
  <2>1. PICK g \in {"item", "old", "garbage"} : f = <<g, "none", FALSE>>  BY <1>2
  <2>2. f[1] = g /\ f[2] = "none"  BY <2>1
  <2>3. f[3] = FALSE  BY <2>1
  <2> QED  BY <2>2, <2>3
<1>3. CASE f \in {"event"} \X Actions \X BOOLEAN  BY <1>3
<1> QED  BY <1>1, <1>2, <1>3

\* PublishItem, and what other programs publish, keeps the invariant.
LEMMA PublishStep ==
  ASSUME IInv, NEW s \in Others, Publish(s)
  PROVE  IInv'
<1>1. PICK f \in Formats : Arrive(Message(s, f[1], f[2], f[3]), 1)  BY DEF Publish
<1>2. Message(s, f[1], f[2], f[3]) \in Messages  BY FormatsTyped DEF Message, Messages
<1>3. faults' \in 0..MaxFaults /\ call' \in [Callers -> Calls]
  BY DEF Publish, IInv, TypeOK, Calls
<1> QED  BY <1>1, <1>2, <1>3, InvArrive DEF Publish

\* The budget, and what was read and earned, depend on the topic, the group, the
\* consumers, what was carried out and the replies.
LEMMA Unmoved ==
  ASSUME IInv, UNCHANGED <<topic, offsets, group, consumer, did, reply>>
  PROVE  Entries' /\ Readers' /\ Untouched' /\ Earned' /\ Budget'
<1> USE DEF offsets, group, consumer
<1>1. Entries' /\ Untouched' /\ Earned'  BY DEF IInv, Entries, Untouched, Earned
<1>2. Readers'  BY DEF IInv, Readers, ReaderOf
<1>3. Late' = Late /\ \A o : Handling(o)' = Handling(o) /\ Ahead(o)' = Ahead(o)
  BY DEF Late, IsLate, Fetched, Handling, Ahead, Coming, Position
<1>4. Budget'  BY <1>3 DEF IInv, Budget
<1> QED  BY <1>1, <1>2, <1>4

\* A caller that is answered or gives up touches nothing but itself.
LEMMA CallerStep ==
  ASSUME IInv, NEW k \in Callers, Answer(k) \/ Timeout(k)
  PROVE  IInv'
<1>1. UNCHANGED <<topic, offsets, group, consumer, did, asked, reply, faults>>
  BY DEF Answer, Timeout, broker
<1>2. call' \in [Callers -> Calls]  BY DEF Answer, Timeout, IInv, TypeOK, Calls
<1>3. TypeOK'  BY <1>1, <1>2 DEF IInv, TypeOK, Calls, offsets, group, consumer
<1> QED  BY <1>1, <1>3, Unmoved DEF IInv

-----------------------------------------------------------------------------
(* Steps of the group and of ReadMessage *)

\* What every consumer has read, and its place in the types.
LEMMA Read ==
  ASSUME IInv, NEW c \in Consumers
  PROVE  /\ pc[c] \in Places /\ next[c] \in Nat /\ at[c] \in Nat
         /\ next[c] <= Len(topic) + 1 /\ at[c] <= Len(topic)
         /\ ReaderOf(c)
         /\ owner = c => c # NoOne
<1>1. Len(topic) \in Nat  BY Numbers
<1>2. /\ pc \in [Consumers -> Places]
      /\ next \in [Consumers -> 0..Len(topic) + 1] /\ at \in [Consumers -> 0..Len(topic)]
  BY DEF IInv, TypeOK, Places
<1>3. next[c] \in 0..Len(topic) + 1 /\ at[c] \in 0..Len(topic)  BY <1>2
<1> QED  BY <1>1, <1>2, <1>3, ConstantsAssumption DEF IInv, Readers

\* A step of c, of what the consumer and its group may change, keeps the types.
LEMMA TypedStep ==
  ASSUME IInv, NEW c \in Consumers, UNCHANGED <<topic, payload, did, asked, reply, call>>,
         NEW l \in Places, pc' = pc \/ pc' = [pc EXCEPT ![c] = l],
         NEW n \in 0..Len(topic) + 1, next' = next \/ next' = [next EXCEPT ![c] = n],
         NEW o \in 0..Len(topic), at' = at \/ at' = [at EXCEPT ![c] = o],
         owner' \in Consumers \cup {NoOne},
         taken' \in 0..Len(topic), committed' \in 0..taken', moves' \in 0..MaxMoves,
         faults' \in 0..MaxFaults
  PROVE  TypeOK' /\ Entries'
<1>1. Entries'  BY DEF IInv, Entries
<1>2. pc' \in [Consumers -> Idle \cup {"read", "commit", "handle", "reply"}]
  BY DEF IInv, TypeOK, Places
<1>3. next' \in [Consumers -> 0..Len(topic) + 1]  BY DEF IInv, TypeOK
<1>4. at' \in [Consumers -> 0..Len(topic)]  BY DEF IInv, TypeOK
<1> QED  BY <1>1, <1>2, <1>3, <1>4 DEF IInv, TypeOK

\* NewConsumer: who starts has no partition and nothing to commit.
LEMMA StartStep ==
  ASSUME IInv, NEW c \in Consumers, StartConsumer(c)
  PROVE  IInv'
<1> USE DEF StartConsumer, Goto, broker, offsets, group
<1>1. /\ UNCHANGED <<topic, committed, taken, owner, next, moves, at, payload, did, asked,
                     reply, call, faults>>
      /\ pc[c] \in Idle /\ pc' = [pc EXCEPT ![c] = "read"]
  OBVIOUS
<1>2. /\ pc[c] \in Places /\ ReaderOf(c) /\ Len(topic) \in Nat
      /\ next[c] = 0 /\ owner # c
  BY <1>1, Read, Numbers DEF ReaderOf
<1>3. TypeOK' /\ Entries'
  <2>1. "read" \in Places /\ 0 \in 0..Len(topic) /\ 0 \in 0..Len(topic) + 1
    BY <1>2 DEF Places
  <2> QED  BY <1>1, <2>1, TypedStep DEF IInv, TypeOK
<1>4. pc'[c] = "read" /\ OthersStay(c)
  BY <1>1 DEF OthersStay, IInv, TypeOK
<1>5. ReaderOf(c)'  BY <1>1, <1>2, <1>4, Numbers DEF ReaderOf, Idle
<1>6. Pays(c)
  <2>1. ~IsLate(c)'  BY <1>1, <1>2, <1>4 DEF IsLate
  <2>2. Lt(c)' <= Lt(c)  BY <2>1 DEF Lt
  <2>3. \A o \in 1..Len(topic) :
          /\ Coming(o)' => Coming(o)
          /\ (Len(did'[o]) - Len(did[o])) + (Hd(c, o)' - Hd(c, o)) <= 0
    <3> SUFFICES ASSUME NEW o \in 1..Len(topic)
                 PROVE  /\ Coming(o)' => Coming(o)
                        /\ (Len(did'[o]) - Len(did[o])) + (Hd(c, o)' - Hd(c, o)) <= 0
      OBVIOUS
    <3>1. Coming(o)' => Coming(o)
      <4>1. \A d \in Consumers : owner = d => Position(d)' = Position(d)
        BY <1>1, <1>2, <1>4 DEF OthersStay, Position, Fetched
      <4> QED  BY <1>1, <4>1 DEF Coming
    <3>2. Hd(c, o)' = 0 /\ Hd(c, o) = 0  BY <1>1, <1>4 DEF Hd, Idle
    <3>3. Len(did[o]) \in Nat  BY LenProperties DEF IInv, Entries
    <3> QED  BY <1>1, <3>1, <3>2, <3>3
  <2> QED  BY <1>1, <1>3, <2>2, <2>3, NothingToPay
<1>7. taken <= taken' /\ moves' \in Nat  BY <1>1, Numbers
<1> QED  BY <1>1, <1>3, <1>4, <1>5, <1>6, <1>7, StepOf

\* A late commit, or its end, pays for one repetition: of the message itself or,
\* by setting the offset back, of the others.
LEMMA LatePays ==
  ASSUME IInv, NEW c \in Consumers, moves' = moves, topic' = topic, did' = did,
         IsLate(c), ~IsLate(c)',
         \A o \in 1..Len(topic) : Hd(c, o)' <= Hd(c, o) \/ (Coming(o)' => Coming(o))
  PROVE  Pays(c)
<1>1. Lt(c)' = 0 /\ Lt(c) = 1 /\ moves \in Nat  BY Numbers DEF Lt
<1>2. ASSUME NEW o \in 1..Len(topic)
      PROVE  (Len(did'[o]) - Len(did[o])) + (Hd(c, o)' - Hd(c, o))
               + (Lt(c)' - Lt(c)) + (Ahead(o)' - Ahead(o)) <= moves' - moves
  <2>1. Len(did[o]) \in Nat  BY LenProperties DEF IInv, Entries
  <2>2. PICK a \in 0..1, aa \in 0..1 : /\ a = Ahead(o) /\ aa = Ahead(o)'
                                       /\ (Coming(o)' => Coming(o)) => aa <= a
    BY DEF Ahead
  <2>3. PICK y \in 0..1, yy \in 0..1 : y = Hd(c, o) /\ yy = Hd(c, o)'  BY DEF Hd
  <2>4. (yy - y) + (aa - a) <= 1  BY <2>2, <2>3
  <2> QED  BY <1>1, <2>1, <2>2, <2>3, <2>4
<1> QED  BY <1>1, <1>2 DEF Pays

\* A new generation gives c the partition.  What c fetched before and commits now
\* is the message it would fetch, or is late.
LEMMA AssignStep ==
  ASSUME IInv, NEW c \in Consumers, Assign(c)
  PROVE  IInv'
<1>1. /\ UNCHANGED <<topic, committed, taken, moves, pc, at, payload, did, asked,
                     reply, call, faults>>
      /\ owner = NoOne /\ pc[c] \notin Idle
      /\ owner' = c /\ next' = [next EXCEPT ![c] = committed + 1]
  BY DEF Assign, offsets, consumer
<1>2. /\ ReaderOf(c) /\ Len(topic) \in Nat /\ committed \in Nat /\ taken \in Nat
      /\ committed <= taken /\ taken <= Len(topic) /\ at[c] \in Nat
  BY Read, Numbers
<1>3. TypeOK' /\ Entries'
  <2>1. "read" \in Places /\ 0 \in 0..Len(topic) /\ committed + 1 \in 0..Len(topic) + 1
    BY <1>2 DEF Places
  <2> QED  BY <1>1, <2>1, TypedStep DEF IInv, TypeOK
<1>4. next'[c] = committed + 1  BY <1>1 DEF IInv, TypeOK
<1>5. OthersStay(c)
  <2>1. \A d \in Consumers : d # c => next'[d] = next[d]  BY <1>1 DEF IInv, TypeOK
  <2> QED  BY <1>1, <2>1, ConstantsAssumption DEF OthersStay
<1>6. ReaderOf(c)'
  <2>1. next'[c] # 0 /\ next'[c] <= taken + 1  BY <1>2, <1>4
  <2> QED  BY <1>1, <1>2, <2>1 DEF ReaderOf
<1>7. \A o \in Nat : Coming(o) <=> o > committed
  BY <1>1, ConstantsAssumption DEF Coming
<1>8. \A o \in Nat : Coming(o)' <=> o > committed \/ o >= Position(c)'
  BY <1>1 DEF Coming
<1>9. \A o : Hd(c, o)' = Hd(c, o)  BY <1>1 DEF Hd
<1>10. Pays(c)
  <2>1. CASE Fetched(c)'
    <3>1. IsLate(c) /\ ~IsLate(c)'
      BY <1>1, <2>1, ConstantsAssumption DEF IsLate, Fetched
    <3>2. \A o \in 1..Len(topic) : Hd(c, o)' <= Hd(c, o)
      BY <1>9 DEF Hd
    <3> QED  BY <1>1, <3>1, <3>2, LatePays
  <2>2. CASE ~Fetched(c)'
    <3>1. IsLate(c)' => IsLate(c)
      BY <1>1, ConstantsAssumption DEF IsLate, Fetched
    <3>2. Lt(c)' <= Lt(c)  BY <3>1 DEF Lt
    <3>3. Position(c)' = committed + 1  BY <1>4, <2>2 DEF Position
    <3>4. \A o \in 1..Len(topic) :
            /\ Coming(o)' => Coming(o)
            /\ (Len(did'[o]) - Len(did[o])) + (Hd(c, o)' - Hd(c, o)) <= 0
      <4> SUFFICES ASSUME NEW o \in 1..Len(topic)
                   PROVE  /\ Coming(o)' => Coming(o)
                          /\ (Len(did'[o]) - Len(did[o])) + (Hd(c, o)' - Hd(c, o)) <= 0
        OBVIOUS
      <4>1. Coming(o)' => Coming(o)  BY <1>2, <1>7, <1>8, <3>3
      <4>2. Len(did[o]) \in Nat /\ Hd(c, o) \in 0..1
        BY LenProperties DEF IInv, Entries, Hd
      <4> QED  BY <1>1, <1>9, <4>1, <4>2
    <3> QED  BY <1>1, <1>3, <3>2, <3>4, NothingToPay
  <2> QED  BY <2>1, <2>2
<1>11. taken <= taken' /\ moves' \in Nat  BY <1>1, Numbers
<1> QED  BY <1>1, <1>3, <1>5, <1>6, <1>10, <1>11, StepOf

\* The partition is taken from c: one more move, for a member that is late now.
LEMMA RevokeStep ==
  ASSUME IInv, NEW c \in Consumers, Revoke(c)
  PROVE  IInv'
<1>1. /\ UNCHANGED <<topic, committed, taken, next, pc, at, payload, did, asked,
                     reply, call, faults>>
      /\ owner = c /\ owner' = NoOne /\ moves < MaxMoves /\ moves' = moves + 1
  BY DEF Revoke, offsets, consumer
<1>2. ReaderOf(c) /\ Len(topic) \in Nat /\ moves \in Nat  BY Read, Numbers
<1>3. TypeOK' /\ Entries'
  <2>1. "read" \in Places /\ 0 \in 0..Len(topic) /\ 0 \in 0..Len(topic) + 1
    BY <1>2 DEF Places
  <2>2. moves' \in 0..MaxMoves  BY <1>1, <1>2, ConstantsAssumption
  <2> QED  BY <1>1, <2>1, <2>2, TypedStep DEF IInv, TypeOK
<1>4. OthersStay(c)  BY <1>1, ConstantsAssumption DEF OthersStay
<1>5. ReaderOf(c)'  BY <1>1, <1>2, ConstantsAssumption DEF ReaderOf
<1>6. Pays(c)
  <2>1. Lt(c) \in 0..1 /\ Lt(c)' \in 0..1 /\ moves' - moves = 1
    BY <1>1, <1>2 DEF Lt
  <2>3. ASSUME NEW o \in 1..Len(topic)
        PROVE  (Len(did'[o]) - Len(did[o])) + (Hd(c, o)' - Hd(c, o))
                 + (Lt(c)' - Lt(c)) + (Ahead(o)' - Ahead(o)) <= moves' - moves
    <3>1. Len(did[o]) \in Nat /\ Hd(c, o)' = Hd(c, o) /\ Hd(c, o) \in 0..1
      BY <1>1, LenProperties DEF IInv, Entries, Hd
    <3>2. Coming(o)' => Coming(o)  BY <1>1, ConstantsAssumption DEF Coming
    <3>3. PICK a \in 0..1, aa \in 0..1 : a = Ahead(o) /\ aa = Ahead(o)' /\ aa <= a
      BY <3>2 DEF Ahead
    <3>4. PICK x \in 0..1, xx \in 0..1 : x = Lt(c) /\ xx = Lt(c)'  BY <2>1
    <3>5. (xx - x) + (aa - a) <= 1  BY <3>3, <3>4
    <3> QED  BY <1>1, <2>1, <3>1, <3>3, <3>4, <3>5
  <2>4. Lt(c)' - Lt(c) <= moves' - moves
    <3>1. PICK x \in 0..1, xx \in 0..1 : x = Lt(c) /\ xx = Lt(c)'  BY <2>1
    <3>2. xx - x <= 1  OBVIOUS
    <3> QED  BY <2>1, <3>1, <3>2
  <2> QED  BY <2>3, <2>4 DEF Pays
<1>7. taken <= taken' /\ moves' \in Nat  BY <1>1, Numbers
<1> QED  BY <1>1, <1>3, <1>4, <1>5, <1>6, <1>7, StepOf

\* A member that lost the partition is started a new Reader, or none.
LEMMA RejoinStep ==
  ASSUME IInv, NEW c \in Consumers, Rejoin(c)
  PROVE  IInv'
<1>1. /\ UNCHANGED <<topic, committed, taken, owner, moves, pc, at, payload, did, asked,
                     reply, call, faults>>
      /\ owner # c /\ next[c] # 0 /\ next' = [next EXCEPT ![c] = 0]
  BY DEF Rejoin, offsets, consumer
<1>2. ReaderOf(c) /\ Len(topic) \in Nat /\ taken \in Nat  BY Read, Numbers
<1>3. TypeOK' /\ Entries'
  <2>1. "read" \in Places /\ 0 \in 0..Len(topic) /\ 0 \in 0..Len(topic) + 1
    BY <1>2 DEF Places
  <2> QED  BY <1>1, <2>1, TypedStep DEF IInv, TypeOK
<1>4. next'[c] = 0 /\ OthersStay(c)
  BY <1>1 DEF OthersStay, IInv, TypeOK
<1>5. ReaderOf(c)'
  <2>1. next'[c] <= taken + 1  BY <1>2, <1>4
  <2> QED  BY <1>1, <1>2, <1>4, <2>1 DEF ReaderOf
<1>6. Pays(c)
  <2>1. IsLate(c)  BY <1>1 DEF IsLate
  <2>2. Lt(c)' <= Lt(c)  BY <2>1 DEF Lt
  <2>3. \A o \in 1..Len(topic) :
          /\ Coming(o)' => Coming(o)
          /\ (Len(did'[o]) - Len(did[o])) + (Hd(c, o)' - Hd(c, o)) <= 0
    <3> SUFFICES ASSUME NEW o \in 1..Len(topic)
                 PROVE  /\ Coming(o)' => Coming(o)
                        /\ (Len(did'[o]) - Len(did[o])) + (Hd(c, o)' - Hd(c, o)) <= 0
      OBVIOUS
    <3>1. Coming(o)' => Coming(o)
      <4>1. \A d \in Consumers : owner = d => Position(d)' = Position(d)
        BY <1>1, <1>4 DEF OthersStay, Position, Fetched
      <4> QED  BY <1>1, <4>1 DEF Coming
    <3>2. Len(did[o]) \in Nat /\ Hd(c, o)' = Hd(c, o) /\ Hd(c, o) \in 0..1
      BY <1>1, LenProperties DEF IInv, Entries, Hd
    <3> QED  BY <1>1, <3>1, <3>2
  <2> QED  BY <1>1, <1>3, <2>2, <2>3, NothingToPay
<1>7. taken <= taken' /\ moves' \in Nat  BY <1>1, Numbers
<1> QED  BY <1>1, <1>3, <1>4, <1>5, <1>6, <1>7, StepOf

\* Fetch: the Reader goes one message on, which c is about to commit.
LEMMA FetchStep ==
  ASSUME IInv, NEW c \in Consumers, Fetch(c)
  PROVE  IInv'
<1>1. /\ UNCHANGED <<topic, committed, taken, owner, moves, payload, did, asked,
                     reply, call, faults>>
      /\ pc[c] = "read" /\ next[c] \in 1..Len(topic)
      /\ at' = [at EXCEPT ![c] = next[c]] /\ next' = [next EXCEPT ![c] = next[c] + 1]
      /\ pc' = [pc EXCEPT ![c] = "commit"]
  BY DEF Fetch, Fetches, Goto, offsets
<1>2. ReaderOf(c) /\ Len(topic) \in Nat /\ taken \in Nat /\ next[c] \in Nat
  BY Read, Numbers
<1>3. TypeOK' /\ Entries'
  <2>1. /\ "commit" \in Places /\ next[c] \in 0..Len(topic)
        /\ next[c] + 1 \in 0..Len(topic) + 1
    BY <1>1, <1>2 DEF Places
  <2> QED  BY <1>1, <2>1, TypedStep DEF IInv, TypeOK
<1>4. /\ next'[c] = next[c] + 1 /\ at'[c] = next[c] /\ pc'[c] = "commit"
      /\ OthersStay(c)
  BY <1>1 DEF OthersStay, IInv, TypeOK
<1>5. next[c] <= taken + 1  BY <1>1, <1>2 DEF ReaderOf
<1>6. ReaderOf(c)'
  <2>1. next'[c] # 0  BY <1>1, <1>2, <1>4
  <2> QED  BY <1>1, <1>4, <1>5, <2>1 DEF ReaderOf, Idle
<1>7. Pays(c)
  <2>1. IsLate(c)' => IsLate(c)
    BY <1>1, <1>4 DEF IsLate, Fetched
  <2>2. Lt(c)' <= Lt(c)  BY <2>1 DEF Lt
  <2>3. \A o \in 1..Len(topic) :
          /\ Coming(o)' => Coming(o)
          /\ (Len(did'[o]) - Len(did[o])) + (Hd(c, o)' - Hd(c, o)) <= 0
    <3> SUFFICES ASSUME NEW o \in 1..Len(topic)
                 PROVE  /\ Coming(o)' => Coming(o)
                        /\ (Len(did'[o]) - Len(did[o])) + (Hd(c, o)' - Hd(c, o)) <= 0
      OBVIOUS
    <3>1. Coming(o)' => Coming(o)
      <4>1. Position(c)' = Position(c)  BY <1>1, <1>4 DEF Position, Fetched
      <4>2. \A d \in Consumers : d # c => Position(d)' = Position(d)
        BY <1>4 DEF OthersStay, Position, Fetched
      <4> QED  BY <1>1, <4>1, <4>2 DEF Coming
    <3>2. Hd(c, o)' = 0 /\ Hd(c, o) = 0  BY <1>1, <1>4 DEF Hd
    <3>3. Len(did[o]) \in Nat  BY LenProperties DEF IInv, Entries
    <3> QED  BY <1>1, <3>1, <3>2, <3>3
  <2> QED  BY <1>1, <1>3, <2>2, <2>3, NothingToPay
<1>8. taken <= taken' /\ moves' \in Nat  BY <1>1, Numbers
<1> QED  BY <1>1, <1>3, <1>4, <1>6, <1>7, <1>8, StepOf

\* A commit sets the offset to a message of the topic; it takes the message when
\* nobody did, which is then the first that nobody took.
LEMMA Committing ==
  ASSUME IInv, NEW c \in Consumers, Committable(c), CommitAt(at[c])
  PROVE  /\ pc[c] = "commit" /\ at[c] \in 1..Len(topic)
         /\ committed' = at[c] /\ committed' \in 0..taken'
         /\ taken' \in 0..Len(topic) /\ taken <= taken' /\ at[c] \in 1..taken'
         /\ taken' = taken \/ (taken' = taken + 1 /\ taken < Len(topic))
<1>1. pc[c] = "commit" /\ committed' = at[c]
      /\ taken' = IF at[c] > taken THEN at[c] ELSE taken
  BY DEF Committable, CommitAt
<1>2. at[c] \in 1..Len(topic) /\ at[c] <= taken + 1  BY <1>1, Read DEF ReaderOf
<1>3. Len(topic) \in Nat /\ taken \in Nat /\ taken <= Len(topic)  BY Numbers
<1> QED  BY <1>1, <1>2, <1>3

\* Commit: c goes on to handle the message it read.
LEMMA CommitStep ==
  ASSUME IInv, NEW c \in Consumers, Commit(c)
  PROVE  IInv'
<1>1. /\ UNCHANGED <<topic, owner, next, moves, at, payload, did, asked, reply, call, faults>>
      /\ pc' = [pc EXCEPT ![c] = "handle"]
      /\ Committable(c) /\ CommitAt(at[c])
      /\ owner = c \/ next[c] = 0
  BY DEF Commit, Goto, group, Committable
<1>2. /\ pc[c] = "commit" /\ at[c] \in 1..Len(topic)
      /\ committed' = at[c] /\ committed' \in 0..taken'
      /\ taken' \in 0..Len(topic) /\ taken <= taken' /\ at[c] \in 1..taken'
  BY <1>1, Committing
<1>3. /\ ReaderOf(c) /\ Len(topic) \in Nat /\ taken \in Nat /\ next[c] \in Nat
      /\ committed \in Nat /\ committed <= taken
  BY Read, Numbers
<1>4. TypeOK' /\ Entries'
  <2>1. "handle" \in Places /\ 0 \in 0..Len(topic) /\ 0 \in 0..Len(topic) + 1
    BY <1>3 DEF Places
  <2> QED  BY <1>1, <1>2, <2>1, TypedStep DEF IInv, TypeOK
<1>5. pc'[c] = "handle" /\ OthersStay(c)
  BY <1>1 DEF OthersStay, IInv, TypeOK
<1>6. ReaderOf(c)'
  <2>1. next[c] <= taken' + 1
    <3>1. taken' \in Nat  BY <1>2, <1>3
    <3> QED  BY <1>2, <1>3, <3>1 DEF ReaderOf
  <2> QED  BY <1>1, <1>2, <1>3, <1>5, <2>1 DEF ReaderOf, Idle
<1>7. /\ \A d \in Consumers : d # c => Position(d)' = Position(d)
      /\ Position(c)' = next[c]
  BY <1>1, <1>5 DEF OthersStay, Position, Fetched
<1>8. \A o : Hd(c, o) = 0 /\ (o # at[c] => Hd(c, o)' = 0) /\ Hd(c, o)' \in 0..1
  BY <1>1, <1>2, <1>5 DEF Hd
<1>9. CASE owner = c /\ Fetched(c)
  <2>1. ~IsLate(c) /\ ~IsLate(c)'  BY <1>1, <1>5, <1>9 DEF IsLate
  <2>2. Lt(c) = 0 /\ Lt(c)' = 0  BY <2>1 DEF Lt
  <2>3. \A o \in 1..Len(topic) : /\ Coming(o) <=> o > committed \/ o >= at[c]
                                 /\ Coming(o)' <=> o > at[c] \/ o >= at[c] + 1
    BY <1>1, <1>2, <1>7, <1>9 DEF Coming, Position, Fetched
  <2>4. ASSUME NEW o \in 1..Len(topic)
        PROVE  (Len(did'[o]) - Len(did[o])) + (Hd(c, o)' - Hd(c, o))
                 + (Lt(c)' - Lt(c)) + (Ahead(o)' - Ahead(o)) <= moves' - moves
    <3>1. Len(did[o]) \in Nat /\ moves \in Nat
      BY Numbers, LenProperties DEF IInv, Entries
    <3>2. CASE o = at[c]
      <4>1. Coming(o) /\ ~Coming(o)'  BY <1>2, <2>3, <3>2
      <4>2. Ahead(o) = 1 /\ Ahead(o)' = 0  BY <4>1 DEF Ahead
      <4>3. PICK yy \in 0..1 : yy = Hd(c, o)'  BY <1>8
      <4> QED  BY <1>1, <1>8, <2>2, <3>1, <4>2, <4>3
    <3>3. CASE o # at[c]
      <4>1. Coming(o)' => Coming(o)  BY <1>2, <2>3, <3>3
      <4>2. PICK a \in 0..1, aa \in 0..1 : a = Ahead(o) /\ aa = Ahead(o)' /\ aa <= a
        BY <4>1 DEF Ahead
      <4>3. Hd(c, o)' = 0 /\ Hd(c, o) = 0  BY <1>8, <3>3
      <4> QED  BY <1>1, <2>2, <3>1, <4>2, <4>3
    <3> QED  BY <3>2, <3>3
  <2>5. Lt(c)' - Lt(c) <= moves' - moves  BY <1>1, <2>2, Numbers
  <2>6. Pays(c)  BY <2>4, <2>5 DEF Pays
  <2>7. moves' \in Nat  BY <1>1, Numbers
  <2> QED  BY <1>1, <1>2, <1>4, <1>5, <1>6, <2>6, <2>7, StepOf
<1>10. CASE ~(owner = c /\ Fetched(c))
  <2>1. IsLate(c) /\ ~IsLate(c)'
    BY <1>1, <1>2, <1>5, <1>10 DEF IsLate
  <2>2. \A o \in 1..Len(topic) : Hd(c, o)' <= Hd(c, o) \/ (Coming(o)' => Coming(o))
    <3> SUFFICES ASSUME NEW o \in 1..Len(topic)
                 PROVE Hd(c, o)' <= Hd(c, o) \/ (Coming(o)' => Coming(o))
      OBVIOUS
    <3>1. CASE o # at[c]  BY <1>8, <3>1
    <3>2. CASE o = at[c]
      <4>1. owner = c => Position(c)' = Position(c)
        BY <1>7, <1>10 DEF Position
      <4>2. ~(o > committed')  BY <1>2, <3>2
      <4>3. Coming(o)' => \E d \in Consumers : owner = d /\ o >= Position(d)'
        BY <1>1, <4>2 DEF Coming
      <4> QED  BY <1>7, <4>1, <4>3 DEF Coming
    <3> QED  BY <3>1, <3>2
  <2>3. Pays(c)  BY <1>1, <2>1, <2>2, LatePays
  <2>4. moves' \in Nat  BY <1>1, Numbers
  <2> QED  BY <1>1, <1>2, <1>4, <1>5, <1>6, <2>3, <2>4, StepOf
<1> QED  BY <1>9, <1>10

\* Crash and ReadFails: c leaves the group, and its commit may have been made.
LEMMA EndStep ==
  ASSUME IInv, NEW c \in Consumers, Crash(c) \/ ReadFails(c)
  PROVE  IInv'
<1>1. /\ UNCHANGED <<topic, moves, at, payload, did, asked, reply, call>>
      /\ pc[c] \notin Idle
      /\ Fault(TRUE)
      /\ owner' = IF owner = c THEN NoOne ELSE owner
      /\ next' = [next EXCEPT ![c] = 0]
      /\ \E l \in Idle : pc' = [pc EXCEPT ![c] = l]
      /\ UNCHANGED offsets \/ (Committable(c) /\ CommitAt(at[c]))
  <2>1. CASE Crash(c)  BY <2>1 DEF Crash, Leave, Goto, Idle
  <2>2. CASE ReadFails(c)  BY <2>2 DEF ReadFails, Leave, Goto, Idle
  <2> QED  BY <2>1, <2>2
<1>2. PICK l \in Idle : pc' = [pc EXCEPT ![c] = l]  BY <1>1
<1>3. /\ ReaderOf(c) /\ Len(topic) \in Nat /\ taken \in Nat
      /\ committed \in Nat /\ committed <= taken /\ taken <= Len(topic)
  BY Read, Numbers
<1>4. taken' \in 0..Len(topic) /\ committed' \in 0..taken' /\ taken <= taken'
  <2>1. CASE UNCHANGED offsets  BY <1>3, <2>1 DEF offsets
  <2>2. CASE Committable(c) /\ CommitAt(at[c])  BY <2>2, Committing
  <2> QED  BY <1>1, <2>1, <2>2
<1>5. TypeOK' /\ Entries'
  <2>1. l \in Places /\ 0 \in 0..Len(topic) /\ 0 \in 0..Len(topic) + 1
    BY <1>3 DEF Places
  <2>2. faults' \in 0..MaxFaults  BY <1>1, FaultBound DEF IInv, TypeOK
  <2>3. owner' \in Consumers \cup {NoOne}  BY <1>1 DEF IInv, TypeOK
  <2>4. moves' \in 0..MaxMoves  BY <1>1 DEF IInv, TypeOK
  <2> QED  BY <1>1, <1>2, <1>4, <2>1, <2>2, <2>3, <2>4, TypedStep
<1>6. next'[c] = 0 /\ pc'[c] = l /\ owner' # c
  <2>1. owner' # c  BY <1>1, ConstantsAssumption
  <2> QED  BY <1>1, <1>2, <2>1 DEF IInv, TypeOK
<1>7. OthersStay(c)
  <2> SUFFICES ASSUME NEW d \in Consumers, d # c
               PROVE  /\ pc'[d] = pc[d] /\ at'[d] = at[d] /\ next'[d] = next[d]
                      /\ owner' = d <=> owner = d
    BY DEF OthersStay
  <2>1. owner' = d <=> owner = d  BY <1>1, ConstantsAssumption
  <2> QED  BY <1>1, <1>2, <2>1 DEF IInv, TypeOK
<1>8. ReaderOf(c)'
  <2>1. next'[c] <= taken' + 1
    <3>1. PICK n \in Nat : n = taken'  BY <1>3, <1>4
    <3>2. 0 <= n + 1  OBVIOUS
    <3>3. next'[c] = 0  BY <1>6
    <3> QED  BY <3>1, <3>2, <3>3
  <2> QED  BY <1>6, <2>1 DEF ReaderOf, Idle
<1>9. ~IsLate(c)' /\ \A o : Hd(c, o)' = 0 /\ Hd(c, o)' <= Hd(c, o)
  BY <1>6 DEF IsLate, Hd, Idle
<1>10. ASSUME NEW o, Coming(o)'
       PROVE  o > committed' \/ \E d \in Consumers : d # c /\ owner = d /\ o >= Position(d)
  <2>1. \A d \in Consumers : d # c => Position(d)' = Position(d)
    BY <1>7 DEF OthersStay, Position, Fetched
  <2>2. \A d \in Consumers : owner' = d => owner = d /\ d # c
    BY <1>6, <1>7 DEF OthersStay
  <2> QED  BY <1>10, <2>1, <2>2 DEF Coming
<1>11. Pays(c)
  <2>1. CASE \A o \in 1..Len(topic) : Coming(o)' => Coming(o)
    <3>1. Lt(c)' <= Lt(c)  BY <1>9 DEF Lt
    <3>2. ASSUME NEW o \in 1..Len(topic)
          PROVE (Len(did'[o]) - Len(did[o])) + (Hd(c, o)' - Hd(c, o)) <= 0
      <4>1. Len(did[o]) \in Nat  BY LenProperties DEF IInv, Entries
      <4>2. PICK y \in 0..1 : y = Hd(c, o)  BY DEF Hd
      <4>3. Hd(c, o)' = 0  BY <1>9
      <4> QED  BY <1>1, <4>1, <4>2, <4>3
    <3> QED  BY <1>1, <1>5, <2>1, <3>1, <3>2, NothingToPay
  <2>2. CASE UNCHANGED offsets
    <3>1. \A o \in 1..Len(topic) : Coming(o)' => Coming(o)
      BY <1>10, <2>2 DEF offsets, Coming
    <3> QED  BY <2>1, <3>1
  <2>3. CASE Committable(c) /\ CommitAt(at[c])
    <3>1. /\ pc[c] = "commit" /\ committed' = at[c] /\ at[c] \in 1..Len(topic)
          /\ owner = c \/ next[c] = 0
      BY <2>3, Committing DEF Committable
    <3>2. CASE owner = c /\ Fetched(c)
      <4>1. \A o \in 1..Len(topic) : Coming(o)' => o > at[c]
        BY <1>10, <3>1, <3>2
      <4>2. \A o \in 1..Len(topic) : o > at[c] => o >= at[c]  BY <3>1
      <4>3. \A o \in 1..Len(topic) : o >= at[c] => Coming(o)
        BY <3>2 DEF Coming, Position
      <4> QED  BY <2>1, <4>1, <4>2, <4>3
    <3>3. CASE ~(owner = c /\ Fetched(c))
      <4>1. IsLate(c)  BY <3>1, <3>3 DEF IsLate
      <4> QED  BY <1>1, <1>9, <4>1, LatePays
    <3> QED  BY <3>2, <3>3
  <2> QED  BY <1>1, <2>2, <2>3
<1>12. moves' \in Nat  BY <1>1, Numbers
<1> QED  BY <1>1, <1>4, <1>5, <1>7, <1>8, <1>11, <1>12, StepOf

-----------------------------------------------------------------------------
(* Steps of handleMessage *)

\* A step that neither reads nor commits: the Readers stay where they are.
Handles(c, l) == /\ UNCHANGED <<topic, offsets, group, at>>
                 /\ pc[c] \in {"handle", "reply"}
                 /\ pc' = [pc EXCEPT ![c] = l]

\* Such a step to a place where nothing is handled pays, when c carries out the
\* message it handled, once, or nothing.
LEMMA HandlesPays ==
  ASSUME IInv, NEW c \in Consumers, NEW l \in {"read", "reply"}, Handles(c, l), Entries',
         \A o \in 1..Len(topic) :
           Len(did'[o]) <= Len(did[o]) + Hd(c, o)
  PROVE  Pays(c) /\ OthersStay(c) /\ pc'[c] = l /\ moves' \in Nat /\ taken' = taken
<1>1. /\ UNCHANGED <<topic, committed, taken, owner, next, moves, at>>
      /\ pc[c] \in {"handle", "reply"} /\ pc' = [pc EXCEPT ![c] = l]
  BY DEF Handles, offsets, group
<1>2. pc'[c] = l /\ OthersStay(c)  BY <1>1 DEF OthersStay, IInv, TypeOK
<1>3. moves' \in Nat  BY <1>1, Numbers
<1>4. Lt(c)' <= Lt(c)
  <2>1. IsLate(c)' => IsLate(c)  BY <1>1, <1>2 DEF IsLate
  <2> QED  BY <2>1 DEF Lt
<1>5. ASSUME NEW o \in 1..Len(topic)
      PROVE  /\ Coming(o)' => Coming(o)
             /\ (Len(did'[o]) - Len(did[o])) + (Hd(c, o)' - Hd(c, o)) <= 0
  <2>1. \A d \in Consumers : Position(d)' = Position(d)
    BY <1>1, <1>2 DEF OthersStay, Position, Fetched
  <2>2. Coming(o)' => Coming(o)  BY <1>1, <2>1 DEF Coming
  <2>3. Len(did[o]) \in Nat /\ Len(did'[o]) \in Nat
    BY <1>1, LenProperties DEF IInv, Entries
  <2>4. Hd(c, o)' = 0  BY <1>2 DEF Hd
  <2>5. PICK y \in 0..1 : y = Hd(c, o)  BY DEF Hd
  <2>6. PICK n \in Nat, nn \in Nat : n = Len(did[o]) /\ nn = Len(did'[o])  BY <2>3
  <2>7. nn <= n + y  BY <2>5, <2>6
  <2>8. (nn - n) + (0 - y) <= 0  BY <2>7
  <2> QED  BY <2>2, <2>4, <2>5, <2>6, <2>8
<1> QED  BY <1>1, <1>2, <1>3, <1>4, <1>5, NothingToPay

\* A message that is rejected is left as it is.
LEMMA RejectStep ==
  ASSUME IInv, NEW c \in Consumers, Reject(c)
  PROVE  IInv'
<1>1. /\ Handles(c, "read") /\ UNCHANGED <<payload, did, asked, reply, call>>
      /\ pc[c] = "handle"
  BY DEF Reject, Goto, broker, Handles
<1>2. faults' \in 0..MaxFaults
  <2>1. Fault(topic[at[c]].format # "garbage")  BY DEF Reject
  <2> QED  BY <2>1, FaultBound DEF IInv, TypeOK
<1>3. UNCHANGED <<topic, offsets, group, at>> /\ pc' = [pc EXCEPT ![c] = "read"]
  BY <1>1 DEF Handles
<1>4. TypeOK' /\ Entries'
  BY <1>1, <1>2, <1>3 DEF IInv, TypeOK, Entries, offsets, group
<1>5. \A o \in 1..Len(topic) :
        Len(did'[o]) <= Len(did[o]) + Hd(c, o)
  <2> SUFFICES ASSUME NEW o \in 1..Len(topic)
               PROVE  Len(did'[o]) <= Len(did[o]) + Hd(c, o)
    OBVIOUS
  <2>1. Len(did[o]) \in Nat  BY LenProperties DEF IInv, Entries
  <2>2. PICK y \in 0..1 : y = Hd(c, o)  BY DEF Hd
  <2> QED  BY <1>1, <2>1, <2>2
<1>6. Pays(c) /\ OthersStay(c) /\ pc'[c] = "read" /\ moves' \in Nat /\ taken' = taken
  BY <1>1, <1>4, <1>5, HandlesPays
<1>7. ReaderOf(c)'
  BY <1>1, <1>3, <1>6, Read DEF ReaderOf, Idle, group
<1>8. taken <= taken'  BY <1>6, Numbers
<1> QED  BY <1>1, <1>3, <1>4, <1>6, <1>7, <1>8, StepOf

\* The message a consumer handles was taken, and a Dispatched step carries it out
\* once more.
LEMMA Dispatching ==
  ASSUME IInv, NEW c \in Consumers, pc[c] = "handle", Dispatched(c)
  PROVE  /\ at[c] \in 1..taken /\ at[c] \in 1..Len(topic)
         /\ did' \in Seq(Seq(Acts)) /\ Len(did') = Len(did)
         /\ DOMAIN did' = DOMAIN did
         /\ Len(did'[at[c]]) = Len(did[at[c]]) + 1 /\ did'[at[c]] # <<>>
         /\ \A o \in 1..Len(topic) : o # at[c] => did'[o] = did[o]
<1>1. at[c] \in 1..taken  BY Read DEF ReaderOf
<1>2. /\ at[c] \in 1..Len(topic)
      /\ DOMAIN topic = 1..Len(topic) /\ DOMAIN did = 1..Len(topic)
  BY <1>1, Numbers
<1> DEFINE a == Decoded(topic[at[c]])
<1>3. a \in Acts
  <2>1. topic[at[c]] \in Messages  BY <1>2 DEF IInv, TypeOK, Messages
  <2> QED  BY <2>1 DEF Decoded, Messages, Acts
<1> HIDE DEF a
<1>4. did' = [did EXCEPT ![at[c]] = Append(did[at[c]], a)]  BY DEF Dispatched, a
<1>5. did \in Seq(Seq(Acts)) /\ Len(did) = Len(topic)  BY DEF IInv, Entries
<1>6. PICK s \in Seq(Acts) : s = did[at[c]]  BY <1>2, <1>5, ElementOfSeq
<1>7. PICK e : e = Append(s, a)  OBVIOUS
<1>8. e \in Seq(Acts) /\ Len(e) = Len(s) + 1  BY <1>3, <1>7, AppendProperties
<1>9. Len(s) \in Nat /\ e # <<>>
  <2>1. Len(s) \in Nat  BY LenProperties
  <2>2. Len(<<>>) = 0  OBVIOUS
  <2> QED  BY <1>8, <2>1, <2>2
<1>10. did' = [did EXCEPT ![at[c]] = e]  BY <1>4, <1>6, <1>7
<1>11. did' \in Seq(Seq(Acts)) /\ Len(did') = Len(did)
  BY <1>2, <1>5, <1>8, <1>10, ExceptSeq
<1>12. DOMAIN did' = DOMAIN did /\ did'[at[c]] = e
       /\ \A o \in 1..Len(topic) : o # at[c] => did'[o] = did[o]
  BY <1>2, <1>10
<1> QED  BY <1>1, <1>2, <1>6, <1>8, <1>9, <1>11, <1>12

\* Handle and Panic: the action is dispatched, and the consumer goes on to the
\* reply or to the next message.
LEMMA DispatchStep ==
  ASSUME IInv, NEW c \in Consumers, Handle(c) \/ Panic(c)
  PROVE  IInv'
<1>1. /\ pc[c] = "handle" /\ Dispatched(c) /\ UNCHANGED <<reply, call>>
      /\ UNCHANGED <<topic, offsets, group, at>>
      /\ \E l \in {"read", "reply"} : pc' = [pc EXCEPT ![c] = l]
  <2>1. CASE Handle(c)  BY <2>1 DEF Handle, Goto, broker
  <2>2. CASE Panic(c)  BY <2>2 DEF Panic, Goto, broker
  <2> QED  BY <2>1, <2>2
<1>2. PICK l \in {"read", "reply"} : pc' = [pc EXCEPT ![c] = l]  BY <1>1
<1>3. /\ at[c] \in 1..taken /\ at[c] \in 1..Len(topic)
      /\ did' \in Seq(Seq(Acts)) /\ Len(did') = Len(did)
      /\ DOMAIN did' = DOMAIN did
      /\ Len(did'[at[c]]) = Len(did[at[c]]) + 1 /\ did'[at[c]] # <<>>
      /\ \A o \in 1..Len(topic) : o # at[c] => did'[o] = did[o]
  BY <1>1, Dispatching
<1>4. Entries'  BY <1>1, <1>3 DEF IInv, Entries
<1>5. TypeOK'
  <2>1. faults' \in 0..MaxFaults
    <3>1. CASE Handle(c)  BY <3>1 DEF Handle, IInv, TypeOK
    <3>2. CASE Panic(c)  BY <3>2, FaultBound DEF Panic, IInv, TypeOK
    <3> QED  BY <3>1, <3>2
  <2>2. payload' \in [Consumers -> Payloads]
    <3>1. CASE Handle(c)
      <4>1. PICK ok \in BOOLEAN :
              payload' = [payload EXCEPT ![c] = Answered(Decoded(topic[at[c]]), ok)]
        BY <3>1 DEF Handle
      <4>2. Answered(Decoded(topic[at[c]]), ok) \in Payloads  BY DEF Answered, Payloads
      <4> QED  BY <4>1, <4>2 DEF IInv, TypeOK
    <3>2. CASE Panic(c)  BY <3>2 DEF Panic, IInv, TypeOK
    <3> QED  BY <3>1, <3>2
  <2>3. asked' \in BOOLEAN  BY DEF Handle, Panic, IInv, TypeOK
  <2>4. pc' \in [Consumers -> Idle \cup {"read", "commit", "handle", "reply"}]
    BY <1>2 DEF IInv, TypeOK
  <2> QED  BY <1>1, <1>3, <2>1, <2>2, <2>3, <2>4 DEF IInv, TypeOK, offsets, group
<1>6. Handles(c, l)  BY <1>1, <1>2 DEF Handles
<1>7. \A o \in 1..Len(topic) :
        Len(did'[o]) <= Len(did[o]) + Hd(c, o)
  <2> SUFFICES ASSUME NEW o \in 1..Len(topic)
               PROVE  Len(did'[o]) <= Len(did[o]) + Hd(c, o)
    OBVIOUS
  <2>1. Len(did[o]) \in Nat  BY LenProperties DEF IInv, Entries
  <2>2. CASE o = at[c]
    <3>1. Hd(c, o) = 1  BY <1>1, <2>2 DEF Hd
    <3>2. Len(did'[o]) = Len(did[o]) + 1  BY <1>3, <2>2
    <3> QED  BY <2>1, <3>1, <3>2
  <2>3. CASE o # at[c]
    <3>1. Hd(c, o) = 0 /\ did'[o] = did[o]  BY <1>3, <2>3 DEF Hd
    <3> QED  BY <2>1, <3>1
  <2> QED  BY <2>2, <2>3
<1>8. Pays(c) /\ OthersStay(c) /\ pc'[c] = l /\ moves' \in Nat /\ taken' = taken
  BY <1>4, <1>6, <1>7, HandlesPays
<1>9. ReaderOf(c)'
  <2>1. UNCHANGED <<owner, next, at, taken>>  BY <1>1 DEF offsets, group
  <2>2. ReaderOf(c)  BY Read
  <2>3. next[c] <= taken + 1 /\ (owner = c => next[c] # 0)
    BY <1>1, <2>2 DEF ReaderOf
  <2> QED  BY <1>3, <1>8, <2>1, <2>3 DEF ReaderOf, Idle
<1>10. taken <= taken'  BY <1>8, Numbers
<1>11. \A o \in 1..Len(topic) : did'[o] = did[o] \/ (o <= taken /\ did'[o] # <<>>)
  BY <1>3
<1> QED  BY <1>1, <1>4, <1>5, <1>8, <1>9, <1>10, <1>11, StepOf

\* A reply is for a message that was carried out.
LEMMA ReplyStep ==
  ASSUME IInv, NEW c \in Consumers, Reply(c)
  PROVE  IInv'
<1> DEFINE s == topic[at[c]].src
<1>1. PICK arrives \in BOOLEAN :
        /\ Fault(~arrives)
        /\ reply' = [k \in Callers |-> IF arrives /\ k = s /\ reply[k] = "none"
                                       THEN payload[c] ELSE reply[k]]
  BY DEF Reply
<1>2. /\ UNCHANGED <<topic, offsets, group, at, payload, did, asked, call>>
      /\ pc[c] = "reply" /\ pc' = [pc EXCEPT ![c] = "read"]
  BY DEF Reply, Goto, broker
<1>3. faults' \in 0..MaxFaults  BY <1>1, FaultBound DEF IInv, TypeOK
<1>4. reply' \in [Callers -> Payloads \cup {"none"}]
  BY <1>1 DEF IInv, TypeOK
<1>5. TypeOK' /\ Entries'
  BY <1>2, <1>3, <1>4 DEF IInv, TypeOK, Entries, offsets, group
<1>6. \A o \in 1..Len(topic) :
        Len(did'[o]) <= Len(did[o]) + Hd(c, o)
  <2> SUFFICES ASSUME NEW o \in 1..Len(topic)
               PROVE  Len(did'[o]) <= Len(did[o]) + Hd(c, o)
    OBVIOUS
  <2>1. Len(did[o]) \in Nat  BY LenProperties DEF IInv, Entries
  <2>2. PICK y \in 0..1 : y = Hd(c, o)  BY DEF Hd
  <2> QED  BY <1>2, <2>1, <2>2
<1>7. Handles(c, "read")  BY <1>2 DEF Handles
<1>8. Pays(c) /\ OthersStay(c) /\ pc'[c] = "read" /\ moves' \in Nat /\ taken' = taken
  BY <1>5, <1>6, <1>7, HandlesPays
<1>9. ReaderOf(c) /\ at[c] \in 1..taken /\ did[at[c]] # <<>>
  BY <1>2, Read DEF ReaderOf
<1>10. ReaderOf(c)'  BY <1>2, <1>8, <1>9 DEF ReaderOf, Idle, group
<1>11. \A k \in Callers : reply'[k] # "none" =>
         reply[k] # "none" \/ \E o \in 1..taken : topic[o].src = k /\ did[o] # <<>>
  <2> SUFFICES ASSUME NEW k \in Callers, reply'[k] # "none", reply[k] = "none"
               PROVE \E o \in 1..taken : topic[o].src = k /\ did[o] # <<>>
    OBVIOUS
  <2>1. k = s  BY <1>1
  <2> QED  BY <1>9, <2>1
<1>12. taken <= taken'  BY <1>8, Numbers
<1> QED  BY <1>2, <1>5, <1>8, <1>10, <1>11, <1>12, StepOf

-----------------------------------------------------------------------------
(* The invariant *)

\* The invariant holds of an empty topic.
LEMMA InvInit == Init => IInv
<1> SUFFICES ASSUME Init  PROVE IInv
  OBVIOUS
<1> USE DEF Init
<1>1. Entries  BY EmptySeq DEF Entries
<1>2. Len(topic) = 0 /\ DOMAIN topic = {} /\ DOMAIN did = {}
  BY EmptySeq, LenProperties
<1>3. TypeOK
  <2>1. /\ taken \in 0..Len(topic) /\ committed \in 0..taken
        /\ at \in [Consumers -> 0..Len(topic)]
        /\ next \in [Consumers -> 0..Len(topic) + 1]
    BY <1>2
  <2>2. /\ pc \in [Consumers -> Idle \cup {"read", "commit", "handle", "reply"}]
        /\ payload \in [Consumers -> Payloads]
        /\ reply \in [Callers -> Payloads \cup {"none"}]
        /\ call \in [Callers -> Calls]
        /\ asked \in BOOLEAN /\ owner \in Consumers \cup {NoOne}
    BY DEF Idle, Payloads, Calls
  <2>3. faults \in 0..MaxFaults /\ moves \in 0..MaxMoves  BY ConstantsAssumption
  <2> QED  BY <1>2, <2>1, <2>2, <2>3 DEF TypeOK, Calls
<1>4. Readers  BY ConstantsAssumption DEF Readers, ReaderOf, Idle
<1>5. Untouched /\ Earned  BY <1>2 DEF Untouched, Earned
<1>6. Budget
  <2>1. Late = {}  BY ConstantsAssumption DEF Late, IsLate
  <2>2. Cardinality(Late) = 0  BY <2>1, FS_EmptySet
  <2> QED  BY <1>2, <2>2 DEF Budget
<1> QED  BY <1>1, <1>3, <1>4, <1>5, <1>6 DEF IInv

\* Every step keeps the invariant.
LEMMA InvNext == IInv /\ [Next]_vars => IInv'
<1> SUFFICES ASSUME IInv, [Next]_vars  PROVE IInv'
  OBVIOUS
<1>1. CASE UNCHANGED vars
  <2>1. UNCHANGED <<topic, offsets, group, consumer, did, asked, reply, call, faults>>
    BY <1>1 DEF vars
  <2>2. TypeOK'  BY <2>1 DEF IInv, TypeOK, offsets, group, consumer
  <2> QED  BY <2>1, <2>2, Unmoved DEF IInv
<1>2. ASSUME NEW k \in Callers, PublishItemAndWait(k) \/ Answer(k) \/ Timeout(k)
      PROVE IInv'
  BY <1>2, CallStep, CallerStep
<1>3. ASSUME NEW s \in Others, Publish(s)  PROVE IInv'
  BY <1>3, PublishStep
<1>4. ASSUME NEW c \in Consumers, StartConsumer(c) \/ Assign(c) \/ Revoke(c) \/ Rejoin(c)
      PROVE IInv'
  BY <1>4, StartStep, AssignStep, RevokeStep, RejoinStep
<1>5. ASSUME NEW c \in Consumers, Crash(c) \/ ReadFails(c) \/ Consume(c)
      PROVE IInv'
  BY <1>5, EndStep, FetchStep, CommitStep, RejectStep, DispatchStep, ReplyStep DEF Consume
<1> QED  BY <1>1, <1>2, <1>3, <1>4, <1>5 DEF Next

\* What is handled was taken, no Reader is ahead of the topic by more than the
\* message it commits, and every move pays for what is repeated.
THEOREM Invariance == Spec => []IInv
BY InvInit, InvNext, PTL DEF Spec

\* Every variable of KafkaRpc keeps to its type.
THEOREM TypeCorrect == Spec => []TypeOK
<1>1. IInv => TypeOK  BY DEF IInv
<1> QED  BY <1>1, Invariance, PTL

\* The counts of a message's budget are numbers.
LEMMA BudgetOf ==
  ASSUME IInv, NEW o \in 1..Len(topic)
  PROVE  /\ Len(did[o]) \in Nat /\ Cardinality(Handling(o)) \in Nat /\ moves \in Nat
         /\ Len(did[o]) + Cardinality(Handling(o)) <= 1 + moves
         /\ Handling(o) # {} => Len(did[o]) <= moves
<1>1. Len(did[o]) \in Nat /\ moves \in Nat
  BY Numbers, LenProperties DEF IInv, Entries
<1>2. IsFiniteSet(Late) /\ IsFiniteSet(Handling(o))
  BY FS_Subset, ConstantsAssumption DEF Late, Handling
<1>3. PICK l \in Nat, h \in Nat : l = Cardinality(Late) /\ h = Cardinality(Handling(o))
  BY <1>2, FS_CardinalityType
<1>4. PICK a \in 0..1 : a = Ahead(o)  BY DEF Ahead
<1>5. PICK n \in Nat : n = Len(did[o])  BY <1>1
<1>6. n + h + l + a <= 1 + moves  BY <1>3, <1>4, <1>5 DEF IInv, Budget
<1>7. n + h <= 1 + moves  BY <1>1, <1>6
<1>8. Handling(o) # {} => h # 0  BY <1>2, <1>3, FS_EmptySet
<1>9. h # 0 => n <= moves  BY <1>1, <1>7
<1> QED  BY <1>1, <1>3, <1>5, <1>7, <1>8, <1>9

\* No message is dispatched more than once and once more for every move of the
\* partition, for any number of consumers, crashes and commits whose outcome is
\* unknown: without moves, at most once.
THEOREM OnceUnlessMovedCorrect == Spec => []OnceUnlessMoved
<1>1. IInv => OnceUnlessMoved
  <2> SUFFICES ASSUME IInv, NEW o \in DOMAIN did  PROVE Len(did[o]) <= 1 + moves
    BY DEF OnceUnlessMoved
  <2>1. o \in 1..Len(topic)  BY Numbers
  <2>2. PICK n \in Nat, h \in Nat, k \in Nat :
          n = Len(did[o]) /\ h = Cardinality(Handling(o)) /\ k = moves
    BY <2>1, BudgetOf
  <2>3. n + h <= 1 + k  BY <2>1, <2>2, BudgetOf
  <2>4. n <= 1 + k  BY <2>3
  <2> QED  BY <2>2, <2>4
<1> QED  BY <1>1, Invariance, PTL

-----------------------------------------------------------------------------
(* KafkaRpc implements Delivery *)

Source == [o \in DOMAIN topic |-> topic[o].src]
Runs == [o \in DOMAIN topic |-> Len(did[o])]

\* Source and Runs are what the refinement mapping substitutes: sequences as
\* long as the topic.
LEMMA Views ==
  ASSUME IInv
  PROVE  /\ Source \in Seq(Callers \cup Others) /\ Len(Source) = Len(topic)
         /\ Runs \in Seq(Nat) /\ Len(Runs) = Len(topic)
         /\ \A o \in 1..Len(topic) : Source[o] = topic[o].src /\ Runs[o] = Len(did[o])
<1>1. Len(topic) \in Nat /\ DOMAIN topic = 1..Len(topic)  BY Numbers
<1>2. \A o \in 1..Len(topic) : topic[o].src \in Callers \cup Others
  BY <1>1 DEF IInv, TypeOK
<1>3. \A o \in 1..Len(topic) : Len(did[o]) \in Nat  BY BudgetOf
<1>4. Source = [o \in 1..Len(topic) |-> topic[o].src]  BY <1>1 DEF Source
<1>5. Runs = [o \in 1..Len(topic) |-> Len(did[o])]  BY <1>1 DEF Runs
<1>6. Source \in Seq(Callers \cup Others) /\ Len(Source) = Len(topic)
  BY <1>1, <1>2, <1>4
<1>7. Runs \in Seq(Nat) /\ Len(Runs) = Len(topic)  BY <1>1, <1>3, <1>5
<1> QED  BY <1>4, <1>5, <1>6, <1>7

\* Messages that arrive were neither taken nor carried out.
LEMMA Written ==
  ASSUME IInv, IInv', NEW m \in Messages, NEW n \in 0..MaxCopies, Arrive(m, n),
         UNCHANGED <<taken, moves>>
  PROVE  D!Write(m.src)
<1>0. n \in Nat  BY ConstantsAssumption
<1>1. /\ Len(topic) \in Nat
      /\ Len(topic)' = Len(topic) + n
      /\ \A o \in 1..Len(topic) : topic'[o] = topic[o] /\ did'[o] = did[o]
      /\ \A o \in 1..Len(topic') : o > Len(topic) => topic'[o] = m /\ did'[o] = <<>>
  BY <1>0, Arrival DEF IInv
<1>2. /\ Source \in Seq(Callers \cup Others) /\ Len(Source) = Len(topic)
      /\ Runs \in Seq(Nat) /\ Len(Runs) = Len(topic)
      /\ \A o \in 1..Len(topic) : Source[o] = topic[o].src /\ Runs[o] = Len(did[o])
  BY Views
<1>3. /\ Source' \in Seq(Callers \cup Others) /\ Len(Source') = Len(topic')
      /\ Runs' \in Seq(Nat) /\ Len(Runs') = Len(topic')
      /\ \A o \in 1..Len(topic') : Source'[o] = topic'[o].src /\ Runs'[o] = Len(did'[o])
  <2>1. Len(topic') \in Nat /\ DOMAIN topic' = 1..Len(topic')
    BY LenProperties DEF IInv, Entries
  <2>2. \A o \in 1..Len(topic') : topic'[o].src \in Callers \cup Others
    BY <2>1 DEF IInv, TypeOK
  <2>3. \A o \in 1..Len(topic') : Len(did'[o]) \in Nat
    BY LenProperties DEF IInv, Entries
  <2>4. Source' = [o \in 1..Len(topic') |-> topic'[o].src]  BY <2>1 DEF Source
  <2>5. Runs' = [o \in 1..Len(topic') |-> Len(did'[o])]  BY <2>1 DEF Runs
  <2>6. Source' \in Seq(Callers \cup Others) /\ Len(Source') = Len(topic')
    BY <2>1, <2>2, <2>4
  <2>7. Runs' \in Seq(Nat) /\ Len(Runs') = Len(topic')  BY <2>1, <2>3, <2>5
  <2> QED  BY <2>4, <2>5, <2>6, <2>7
<1>4. m.src \in Callers \cup Others  BY DEF Messages
<1>5. Source' = Source \o [i \in 1..n |-> m.src]
  <2>1. PICK s \in Seq(Callers \cup Others), t \in Seq(Callers \cup Others),
             a \in Callers \cup Others : s = Source /\ t = Source' /\ a = m.src
    BY <1>2, <1>3, <1>4
  <2>2. Len(t) = Len(s) + n  BY <1>1, <1>2, <1>3, <2>1
  <2>3. \A o \in 1..Len(s) : t[o] = s[o]
    <3> SUFFICES ASSUME NEW o \in 1..Len(s)  PROVE t[o] = s[o]
      OBVIOUS
    <3>1. o \in 1..Len(topic) /\ o \in 1..Len(topic')  BY <1>1, <1>2, <2>1
    <3> QED  BY <1>1, <1>2, <1>3, <2>1, <3>1
  <2>4. \A o \in 1..Len(t) : o > Len(s) => t[o] = a
    BY <1>1, <1>2, <1>3, <2>1
  <2>5. PICK u : u = s \o [i \in 1..n |-> a]  OBVIOUS
  <2>6. /\ u \in Seq(Callers \cup Others) /\ Len(u) = Len(s) + n
        /\ \A o \in 1..Len(s) : u[o] = s[o]
        /\ \A o \in 1..Len(u) : o > Len(s) => u[o] = a
    BY <1>0, <2>5, AppendCopies
  <2>7. \A o \in 1..Len(t) : t[o] = u[o]
    <3> SUFFICES ASSUME NEW o \in 1..Len(t)  PROVE t[o] = u[o]
      OBVIOUS
    <3>1. o \in 1..Len(s) \/ o > Len(s)  BY LenProperties
    <3> QED  BY <2>2, <2>3, <2>4, <2>6, <3>1
  <2>8. t = u  BY <2>2, <2>6, <2>7, SeqEqual
  <2> QED  BY <2>1, <2>5, <2>8
<1>6. Runs' = Runs \o [i \in 1..n |-> 0]
  <2>1. PICK s \in Seq(Nat), t \in Seq(Nat), a \in Nat : s = Runs /\ t = Runs' /\ a = 0
    BY <1>2, <1>3
  <2>2. Len(t) = Len(s) + n  BY <1>1, <1>2, <1>3, <2>1
  <2>3. \A o \in 1..Len(s) : t[o] = s[o]
    <3> SUFFICES ASSUME NEW o \in 1..Len(s)  PROVE t[o] = s[o]
      OBVIOUS
    <3>1. o \in 1..Len(topic) /\ o \in 1..Len(topic')  BY <1>1, <1>2, <2>1
    <3> QED  BY <1>1, <1>2, <1>3, <2>1, <3>1
  <2>4. \A o \in 1..Len(t) : o > Len(s) => t[o] = a
    <3> SUFFICES ASSUME NEW o \in 1..Len(t), o > Len(s)  PROVE t[o] = 0
      BY <2>1
    <3>1. o \in 1..Len(topic') /\ o > Len(topic)  BY <1>2, <1>3, <2>1
    <3>2. Len(<<>>) = 0  OBVIOUS
    <3> QED  BY <1>1, <1>3, <2>1, <3>1, <3>2
  <2>5. PICK u : u = s \o [i \in 1..n |-> a]  OBVIOUS
  <2>6. /\ u \in Seq(Nat) /\ Len(u) = Len(s) + n
        /\ \A o \in 1..Len(s) : u[o] = s[o]
        /\ \A o \in 1..Len(u) : o > Len(s) => u[o] = a
    BY <1>0, <2>5, AppendCopies
  <2>7. \A o \in 1..Len(t) : t[o] = u[o]
    <3> SUFFICES ASSUME NEW o \in 1..Len(t)  PROVE t[o] = u[o]
      OBVIOUS
    <3>1. o \in 1..Len(s) \/ o > Len(s)  BY LenProperties
    <3> QED  BY <2>2, <2>3, <2>4, <2>6, <3>1
  <2>8. t = u  BY <2>2, <2>6, <2>7, SeqEqual
  <2> QED  BY <2>1, <2>5, <2>8
<1> QED  BY <1>5, <1>6 DEF D!Write, Source, Runs

\* A step that keeps what Delivery sees is a stutter.
LEMMA Silent ==
  ASSUME UNCHANGED <<topic, did, call, taken, moves>>
  PROVE  UNCHANGED D!vars
BY DEF D!vars

\* What is taken is the first message that was not.
LEMMA Taken ==
  ASSUME IInv, UNCHANGED <<topic, did, call, moves>>,
         taken' = taken \/ (taken' = taken + 1 /\ taken < Len(topic))
  PROVE  UNCHANGED D!vars \/ D!Take
<1>1. CASE taken' = taken  BY <1>1, Silent
<1>2. CASE taken' = taken + 1 /\ taken < Len(topic)
  <2>1. Len(Source) = Len(topic)  BY Views
  <2> QED  BY <1>2, <2>1 DEF D!Take, Source
<1> QED  BY <1>1, <1>2

\* What a consumer dispatches was taken, and the moves still pay for it.
LEMMA Carried ==
  ASSUME IInv, NEW c \in Consumers, NEW o \in Nat, at[c] = o,
         pc[c] = "handle", Dispatched(c), UNCHANGED <<topic, taken, call, moves>>
  PROVE  o \in DOMAIN Runs /\ D!Run(o)
<1>1. /\ o \in 1..taken /\ o \in 1..Len(topic)
      /\ Len(did'[o]) = Len(did[o]) + 1
      /\ \A p \in 1..Len(topic) : p # o => did'[p] = did[p]
  BY Dispatching
<1>2. DOMAIN topic = 1..Len(topic) /\ taken \in Nat  BY Numbers
<1>3. Handling(o) # {}  BY DEF Handling
<1>4. Len(did[o]) <= moves  BY <1>1, <1>3, BudgetOf
<1>5. Runs' = [Runs EXCEPT ![o] = Len(did[o]) + 1] /\ Source' = Source
  BY <1>1, <1>2 DEF Runs, Source
<1>6. o \in DOMAIN Runs /\ Runs[o] = Len(did[o]) /\ o <= taken
  BY <1>1, <1>2 DEF Runs
<1> QED  BY <1>4, <1>5, <1>6 DEF D!Run, Source, Runs

\* An empty topic is an empty topic.
LEMMA RefineInit == Init => D!Init
<1> SUFFICES ASSUME Init  PROVE D!Init
  OBVIOUS
<1>1. topic = <<>> /\ taken = 0 /\ moves = 0 /\ call = [k \in Callers |-> "idle"]
  BY DEF Init
<1>2. DOMAIN topic = {} /\ DOMAIN <<>> = {}  BY <1>1, EmptySeq, LenProperties
<1>3. Source = <<>> /\ Runs = <<>>  BY <1>1, <1>2 DEF Source, Runs
<1> QED  BY <1>1, <1>3 DEF D!Init, Source, Runs

\* Every step is a step of Delivery or a stutter.
LEMMA RefineNext == IInv /\ IInv' /\ [Next]_vars => [D!Next]_(D!vars)
<1> SUFFICES ASSUME IInv, IInv', [Next]_vars  PROVE [D!Next]_(D!vars)
  OBVIOUS
<1> USE DEF offsets, group
<1>1. CASE UNCHANGED vars
  <2>1. UNCHANGED <<topic, did, call, taken, moves>>  BY <1>1 DEF vars
  <2> QED  BY <2>1, Silent
<1>2. ASSUME NEW k \in Callers, PublishItemAndWait(k)  PROVE D!Call(k)
  <2>1. PICK n \in 0..MaxCopies, end \in {"waiting", "failed"} :
          /\ Arrive(Message(k, "item", "none", TRUE), n)
          /\ call' = [call EXCEPT ![k] = end]
    BY <1>2 DEF PublishItemAndWait
  <2> DEFINE m == Message(k, "item", "none", TRUE)
  <2>2. m \in Messages /\ m.src = k  BY DEF Message, Messages
  <2> HIDE DEF m
  <2>3. D!Write(m.src)  BY <1>2, <2>1, <2>2, Written DEF PublishItemAndWait, m
  <2>4. call[k] = "idle"  BY <1>2 DEF PublishItemAndWait
  <2> QED  BY <2>1, <2>2, <2>3, <2>4 DEF D!Call
<1>3. ASSUME NEW s \in Others, Publish(s)  PROVE D!Publish(s)
  <2>1. PICK f \in Formats : Arrive(Message(s, f[1], f[2], f[3]), 1)
    BY <1>3 DEF Publish
  <2> DEFINE m == Message(s, f[1], f[2], f[3])
  <2>2. m \in Messages /\ m.src = s  BY FormatsTyped DEF Message, Messages
  <2> HIDE DEF m
  <2>3. 1 \in 0..MaxCopies  BY ConstantsAssumption
  <2>4. D!Write(m.src)  BY <1>3, <2>1, <2>2, <2>3, Written DEF Publish, m
  <2> QED  BY <1>3, <2>2, <2>4 DEF D!Publish, Publish
<1>4. ASSUME NEW k \in Callers, Answer(k) \/ Timeout(k)
      PROVE D!Answer(k) \/ D!GiveUp(k)
  <2>1. /\ UNCHANGED <<topic, taken, did, moves>> /\ call[k] = "waiting"
        /\ \/ call' = [call EXCEPT ![k] = "answered"] /\ reply[k] # "none"
           \/ call' = [call EXCEPT ![k] = "failed"]
    BY <1>4 DEF Answer, Timeout, broker
  <2>2. Source' = Source /\ Runs' = Runs  BY <2>1 DEF Source, Runs
  <2>3. CASE call' = [call EXCEPT ![k] = "failed"]
    BY <2>1, <2>2, <2>3 DEF D!GiveUp, Source, Runs
  <2>4. CASE call' = [call EXCEPT ![k] = "answered"] /\ reply[k] # "none"
    <3>1. PICK o \in 1..taken : topic[o].src = k /\ did[o] # <<>>
      BY <2>4 DEF IInv, Earned
    <3>2. o \in 1..Len(topic) /\ DOMAIN topic = 1..Len(topic)  BY Numbers
    <3>3. Len(did[o]) > 0
      <4>1. did[o] \in Seq(Acts)  BY <3>2, ElementOfSeq DEF IInv, Entries
      <4>2. Len(did[o]) \in Nat /\ Len(did[o]) # 0  BY <3>1, <4>1, EmptySeq, LenProperties
      <4> QED  BY <4>2
    <3>4. o \in DOMAIN Source /\ Source[o] = k /\ Runs[o] > 0
      BY <3>1, <3>2, <3>3 DEF Source, Runs
    <3> QED  BY <2>1, <2>2, <2>4, <3>4 DEF D!Answer, Source, Runs
  <2> QED  BY <2>1, <2>3, <2>4
<1>5. ASSUME NEW c \in Consumers,
             \/ StartConsumer(c) \/ Assign(c) \/ Rejoin(c) \/ Crash(c)
             \/ Fetch(c) \/ Reject(c) \/ Reply(c)
      PROVE UNCHANGED D!vars
  <2>1. UNCHANGED <<topic, did, call, taken, moves>>
    BY <1>5 DEF StartConsumer, Assign, Rejoin, Crash, Leave, Fetch, Fetches, Reject, Reply,
                broker
  <2> QED  BY <2>1, Silent
<1>6. ASSUME NEW c \in Consumers, Revoke(c)  PROVE D!Move
  BY <1>6 DEF Revoke, D!Move
<1>7. ASSUME NEW c \in Consumers, Commit(c) \/ ReadFails(c)
      PROVE UNCHANGED D!vars \/ D!Take
  <2>1. /\ UNCHANGED <<topic, did, call, moves>>
        /\ taken' = taken \/ (Committable(c) /\ CommitAt(at[c]))
    BY <1>7 DEF Commit, ReadFails, Leave
  <2>2. taken' = taken \/ (taken' = taken + 1 /\ taken < Len(topic))
    BY <2>1, Committing
  <2> QED  BY <2>1, <2>2, Taken
<1>8. ASSUME NEW c \in Consumers, Handle(c) \/ Panic(c)
      PROVE \E o \in DOMAIN Runs : D!Run(o)
  <2>1. /\ pc[c] = "handle" /\ Dispatched(c) /\ UNCHANGED <<topic, taken, call, moves>>
    BY <1>8 DEF Handle, Panic, broker
  <2>2. PICK o \in Nat : o = at[c]  BY Read
  <2> QED  BY <2>1, <2>2, Carried
<1> QED
  BY <1>1, <1>2, <1>3, <1>4, <1>5, <1>6, <1>7, <1>8
  DEF Next, Consume, D!Next, Runs

\* KafkaRpc implements Delivery: whatever crashes, copies, losses, partition
\* moves and late commits there are, messages are taken in the order of the topic
\* and before they are carried out, none more often than the moves allow, and a
\* caller that is answered has had its request carried out.
THEOREM Refinement == Spec => ImplementsDelivery
<1>1. IInv /\ IInv' /\ [Next]_vars => [D!Next]_(D!vars)  BY RefineNext
<1> QED
  BY <1>1, RefineInit, Invariance, PTL DEF Spec, ImplementsDelivery, D!Spec
=============================================================================
