----------------------------- MODULE Server_proofs -----------------------------
(* Proofs about a process and the requests it serves, for any requests and     *)
(* operations: ServerInv!IInv is inductive.  What it says of the requests is   *)
(* kept by Pipeline_proofs; here are their arrival, the end of the process     *)
(* that cuts them, and the two goroutines Start and Run.                       *)
EXTENDS ServerInv, Pipeline_proofs

-----------------------------------------------------------------------------
(* Requests *)

\* A request that comes in is at the first stage of its front end.
LEMMA Arrives ==
  ASSUME PipelineInv, NEW r \in Requests, Arrive(r)
  PROVE  PipelineInv'
<1>1. PipelineTypes /\ SentTypes /\ Fine(r) /\ stage[r] = "none"
  BY DEF PipelineInv, Arrive
<1>2. stage'[r] = IF kind = "rest" THEN "logger" ELSE IF kind = "grpc" THEN "build" ELSE "message"
  BY <1>1 DEF Arrive, Go, PipelineTypes
<1>3. /\ \A q \in Requests \ {r} : stage'[q] = stage[q]
      /\ stage' \in [Requests -> Stages]
  BY <1>1 DEF Arrive, Go, PipelineTypes, Stages
<1>4. UNCHANGED <<kind, keyed, op, tok, ctx, client, fetched, ran, result, held, sent,
                  cause, asked>>
  BY DEF Arrive
<1>5. PipelineTypes' /\ SentTypes'
  BY <1>1, <1>3, <1>4 DEF PipelineTypes, SentTypes, Stages
<1>6. Located(r)' /\ Answered(r)' /\ Carrying(r)'
  BY <1>1, <1>2, <1>4 DEF Fine, Located, Answered, Carrying, Before, Entry, Within,
     PipelineTypes
<1>7. Permitted(r)' /\ Returned(r)' /\ Blaming(r)'
  BY <1>1, <1>2, <1>4 DEF Fine, Permitted, Returned, Blaming, Before, Entry
<1>8. Told(r)'  BY <1>1, <1>4, Silent DEF Fine, Answered, Before, Entry
<1>9. ASSUME NEW q \in Requests \ {r}  PROVE Fine(q)'
  BY <1>3, <1>4, <1>9, Stays DEF PipelineInv
<1> QED  BY <1>5, <1>6, <1>7, <1>8, <1>9 DEF PipelineInv, Fine

\* A message that was handled leaves nothing behind.
LEMMA MessageDone ==
  ASSUME PipelineInv, NEW r \in Requests, HandleMessage(r)
  PROVE  PipelineInv'
<1>1. PipelineTypes /\ SentTypes /\ Fine(r) /\ stage[r] = "message"
  BY DEF PipelineInv, HandleMessage
<1>2. stage'[r] = "done"
  BY <1>1 DEF HandleMessage, Go, PipelineTypes
<1>3. /\ \A q \in Requests \ {r} : stage'[q] = stage[q]
      /\ stage' \in [Requests -> Stages]
  BY <1>1 DEF HandleMessage, Go, PipelineTypes, Stages
<1>4. UNCHANGED <<kind, keyed, op, tok, ctx, client, fetched, ran, result, held, sent,
                  cause, asked>>
  BY DEF HandleMessage
<1>5. PipelineTypes' /\ SentTypes'
  BY <1>1, <1>3, <1>4 DEF PipelineTypes, SentTypes, Stages
<1>6. Located(r)' /\ Answered(r)' /\ Carrying(r)'
  BY <1>1, <1>2, <1>4 DEF Fine, Located, Answered, Carrying, Before, Entry, Within
<1>7. Permitted(r)' /\ Returned(r)' /\ Blaming(r)'
  BY <1>1, <1>2, <1>4 DEF Fine, Permitted, Returned, Blaming, Before, Entry
<1>8. Told(r)'  BY <1>1, <1>4, Silent DEF Fine, Answered, Before, Entry
<1>9. ASSUME NEW q \in Requests \ {r}  PROVE Fine(q)'
  BY <1>3, <1>4, <1>9, Stays DEF PipelineInv
<1> QED  BY <1>5, <1>6, <1>7, <1>8, <1>9 DEF PipelineInv, Fine

\* The end of the process cuts what is in flight, and nothing else happens.
LEMMA Cuts ==
  ASSUME PipelineInv, NEW why, End(why)
  PROVE  PipelineInv'
<1>1. PipelineTypes /\ SentTypes  BY DEF PipelineInv
<1>2. /\ \A q \in Requests : stage'[q] \in {stage[q], "cut"}
      /\ stage' \in [Requests -> Stages]
  BY <1>1 DEF End, PipelineTypes, Stages
<1>3. UNCHANGED <<kind, keyed, op, tok, ctx, client, fetched, ran, result, held, sent,
                  cause, asked>>
  BY DEF End
<1>4. PipelineTypes' /\ SentTypes'
  BY <1>1, <1>2, <1>3 DEF PipelineTypes, SentTypes, Stages
<1>5. ASSUME NEW q \in Requests  PROVE Fine(q)'
  BY <1>2, <1>3, <1>5, Stays DEF PipelineInv
<1> QED  BY <1>4, <1>5 DEF PipelineInv

\* What changes nothing about requests keeps what holds of them.
LEMMA Idle ==
  ASSUME PipelineInv, UNCHANGED pipeline
  PROVE  PipelineInv'
<1>1. UNCHANGED <<kind, keyed, stage, op, tok, ctx, client, fetched, ran, result, held,
                  sent, cause, asked>>
  BY DEF pipeline, perRequest
<1>2. PipelineTypes' /\ SentTypes'
  BY <1>1 DEF PipelineInv, PipelineTypes, SentTypes
<1>3. ASSUME NEW q \in Requests  PROVE Fine(q)'
  BY <1>1, <1>3, Stays DEF PipelineInv
<1> QED  BY <1>2, <1>3 DEF PipelineInv

\* A step either concerns one request, or leaves the requests alone, or ends the
\* process.
LEMMA NextPipeline == PipelineInv /\ [Next]_vars => PipelineInv'
<1> SUFFICES ASSUME PipelineInv, [Next]_vars  PROVE PipelineInv'
  OBVIOUS
<1>1. CASE UNCHANGED vars  BY <1>1, Idle DEF vars
<1>2. CASE Start
  <2>1. UNCHANGED pipeline
    BY <1>2 DEF Start, InitFails, InitDependencies, NoServer, RegisterClose,
       RegisterShutdown, ListenFails, StartServer, ServeReturns, ServeFails, CloseDone,
       CloseLogFile
  <2> QED  BY <2>1, Idle
<1>3. CASE Run
  <2>1. CASE UNCHANGED pipeline  BY <2>1, Idle
  <2>2. CASE \E why : End(why)  BY <2>2, Cuts
  <2>3. UNCHANGED pipeline \/ \E why : End(why)
    BY <1>3 DEF Run, Notify, ReceiveSignal, ReceiveDone, CloseServerListener,
       ShutdownServer, RestShutdownServer, GRPCShutdownServer, KafkaShutdownServer,
       Drained, Expire
  <2> QED  BY <2>1, <2>2, <2>3
<1>4. CASE Signal
  BY <1>4, Idle, Cuts DEF Signal
<1>5. ASSUME NEW r \in Requests, Arrive(r) \/ Serve(r) \/ HandleMessage(r)
      PROVE  PipelineInv'
  BY <1>5, Arrives, MessageDone, ProcessKeeps DEF Serve
<1> QED  BY <1>1, <1>2, <1>3, <1>4, <1>5 DEF Next

-----------------------------------------------------------------------------
(* The two goroutines *)

ProcessTypes ==
  /\ start \in {"init", "ready", "closehook", "hooks", "serve", "stopped", "done", "exited"}
  /\ run \in {"init", "wait", "close", "shutdown", "draining", "ended"}
  /\ hooks \subseteq {"close", "shutdown"}
  /\ lis \in {"none", "open", "closed"}
  /\ log \in {"none", "open", "closed", "reopened"}
  /\ ending \in {"none", "killed", "done", "nothing", "drained", "expired"}
  /\ stopping \in BOOLEAN /\ sig \in BOOLEAN /\ broken \in BOOLEAN

\* Start and Run keep their states, and the log file is open while there is a
\* listener.
LEMMA NextProcess == ProcessTypes /\ LogOpen /\ [Next]_vars => ProcessTypes' /\ LogOpen'
<1> SUFFICES ASSUME ProcessTypes, LogOpen, [Next]_vars  PROVE ProcessTypes' /\ LogOpen'
  OBVIOUS
<1> USE DEF ProcessTypes, LogOpen
<1>1. CASE UNCHANGED vars  BY <1>1 DEF vars, process
<1>2. CASE Start
  <2>1. CASE InitFails
    BY <2>1 DEF InitFails, StartAt
  <2>2. CASE InitDependencies
    BY <2>2 DEF InitDependencies, StartAt
  <2>3. CASE NoServer
    BY <2>3 DEF NoServer, StartAt
  <2>4. CASE RegisterClose
    BY <2>4 DEF RegisterClose, StartAt
  <2>5. CASE RegisterShutdown
    BY <2>5 DEF RegisterShutdown, StartAt
  <2>6. CASE ListenFails
    BY <2>6 DEF ListenFails, StartAt
  <2>7. CASE StartServer
    BY <2>7 DEF StartServer, StartAt
  <2>8. CASE ServeReturns
    BY <2>8 DEF ServeReturns, StartAt
  <2>9. CASE ServeFails
    BY <2>9 DEF ServeFails, StartAt
  <2>10. CASE CloseDone
    BY <2>10 DEF CloseDone, StartAt
  <2>11. CASE CloseLogFile
    BY <2>11 DEF CloseLogFile, StartAt
  <2> HIDE DEF ProcessTypes, LogOpen
  <2> QED  BY <1>2, <2>1, <2>2, <2>3, <2>4, <2>5, <2>6,
           <2>7, <2>8, <2>9, <2>10, <2>11 DEF Start
<1>3. CASE Run
  <2>1. CASE Notify
    BY <2>1 DEF Notify
  <2>2. CASE ReceiveSignal
    BY <2>2 DEF ReceiveSignal
  <2>3. CASE ReceiveDone
    BY <2>3 DEF ReceiveDone, End
  <2>4. CASE CloseServerListener
    <3>1. /\ run' = "shutdown" /\ UNCHANGED <<start, hooks, log, sig, ending, broken>>
      BY <2>4 DEF CloseServerListener
    <3>2. (lis' = lis \/ lis' = "closed") /\ stopping' \in BOOLEAN
      BY <2>4 DEF CloseServerListener, CloseListener, KafkaCloseListener
    <3>3. ProcessTypes'  BY <3>1, <3>2
    <3>4. LogOpen'  BY <3>1, <3>2
    <3> QED  BY <3>3, <3>4
  <2>5. CASE ShutdownServer
    <3>1. UNCHANGED <<start, hooks, log, sig, broken>>  BY <2>5 DEF ShutdownServer
    <3>2. /\ (lis' = lis \/ lis' = "closed") /\ stopping' \in BOOLEAN
          /\ \/ run' = "draining" /\ ending' = ending
             \/ run' = "ended" /\ ending' = "nothing"
      BY <2>5 DEF ShutdownServer, RestShutdownServer, GRPCShutdownServer,
                  KafkaShutdownServer, KafkaCloseListener, End
    <3>3. ProcessTypes'  BY <3>1, <3>2
    <3>4. LogOpen'  BY <3>1, <3>2
    <3> QED  BY <3>3, <3>4
  <2>6. CASE Drained
    BY <2>6 DEF Drained, End
  <2>7. CASE Expire
    BY <2>7 DEF Expire, End
  <2> HIDE DEF ProcessTypes, LogOpen
  <2> QED  BY <1>3, <2>1, <2>2, <2>3, <2>4, <2>5, <2>6, <2>7 DEF Run
<1>4. CASE Signal  BY <1>4 DEF Signal, End
<1>5. ASSUME NEW r \in Requests, Arrive(r) \/ HandleMessage(r)
      PROVE  ProcessTypes' /\ LogOpen'
  <2>1. UNCHANGED process  BY <1>5 DEF Arrive, HandleMessage
  <2> QED  BY <2>1 DEF process
<1>6. ASSUME NEW r \in Requests, Serve(r)  PROVE ProcessTypes' /\ LogOpen'
  BY <1>6 DEF Serve
<1> HIDE DEF ProcessTypes, LogOpen
<1> QED  BY <1>1, <1>2, <1>3, <1>4, <1>5, <1>6 DEF Next

-----------------------------------------------------------------------------
(* What the end of the process finds in flight *)

\* A request that is served has come, and is not cut.
LEMMA Served ==
  ASSUME PipelineInv, NEW r \in Requests, Serve(r) \/ HandleMessage(r)
  PROVE  /\ stage[r] # "none" /\ stage'[r] # "cut"
         /\ \A q \in Requests \ {r} : stage'[q] = stage[q]
<1>1. PipelineTypes /\ SentTypes  BY DEF PipelineInv
<1>2. CASE HandleMessage(r)
  BY <1>1, <1>2 DEF HandleMessage, Go, PipelineTypes
<1>3. CASE Process(r)
  <2>1. \A q \in Requests \ {r} : stage'[q] = stage[q]
    BY <1>1, <1>3, Others
  <2>2. stage[r] # "none" /\ \E s \in Stages \ {"cut"} : Go(r, s)
    <3>1. CASE LoggerMiddleware(r) \/ ServiceMiddleware(r) \/ Unrouted(r) \/ Routed(r)
      BY <3>1 DEF LoggerMiddleware, ServiceMiddleware, Unrouted, Routed, Stages
    <3>2. CASE AuthMiddleware(r) \/ BadInput(r) \/ GoodInput(r)
      BY <3>2 DEF AuthMiddleware, BadInput, GoodInput, Stages
    <3>3. CASE BuildServiceFails(r) \/ BuildService(r) \/ FetchItemByID(r)
      BY <3>3 DEF BuildServiceFails, BuildService, FetchItemByID, AfterFetch, Stages
    <3>4. CASE Handler(r) \/ Panics(r) \/ Encode(r) \/ ErrorFormatMiddleware(r)
      BY <3>4 DEF Handler, Panics, Encode, ErrorFormatMiddleware, Stages
    <3>5. CASE RecoverMiddleware(r) \/ RecoverUnaryServerInterceptor(r) \/ RequestRestart(r)
      BY <3>5 DEF RecoverMiddleware, RecoverUnaryServerInterceptor, RequestRestart, Stages
    <3> QED  BY <1>3, <3>1, <3>2, <3>3, <3>4, <3>5 DEF Process
  <2>3. stage'[r] # "cut"  BY <1>1, <2>2 DEF Go, PipelineTypes
  <2> QED  BY <2>1, <2>2, <2>3
<1> QED  BY <1>2, <1>3 DEF Serve

\* A request that arrives does so while Start serves, or after another one.
LEMMA Arrived ==
  ASSUME PipelineInv, NEW r \in Requests, Arrive(r)
  PROVE  /\ start = "serve" \/ \E q \in Requests : stage[q] # "none"
         /\ stage'[r] # "cut"
         /\ \A q \in Requests \ {r} : stage'[q] = stage[q]
BY DEF Arrive, Go, PipelineInv, PipelineTypes

\* If no request has come, the end of the process cuts none.
LEMMA NoneCut ==
  ASSUME PipelineInv, NEW why, End(why), \A r \in Requests : stage[r] = "none"
  PROVE  stage' = stage
BY DEF End, InFlight, PipelineInv, PipelineTypes

\* Before Run closes anything nothing makes Serve return but a failure, and what
\* is in flight when Run can find no function that shuts it down is nothing.
LEMMA NextEarly ==
  PipelineInv /\ ProcessTypes /\ NotYetClosed /\ Hooked /\ [Next]_vars =>
    NotYetClosed' /\ Hooked'
<1> SUFFICES ASSUME PipelineInv, ProcessTypes, NotYetClosed, Hooked, [Next]_vars
             PROVE  NotYetClosed' /\ Hooked'
  OBVIOUS
<1> USE DEF NotYetClosed, Hooked
<1>1. CASE UNCHANGED vars  BY <1>1 DEF vars, process, pipeline, perRequest
<1>2. CASE Start
  <2>0. stage' = stage /\ run' = run /\ stopping' = stopping
    BY <1>2 DEF Start, InitFails, InitDependencies, NoServer, RegisterClose,
       RegisterShutdown, ListenFails, StartServer, ServeReturns, ServeFails, CloseDone,
       CloseLogFile, pipeline, perRequest
  <2>1. CASE InitFails \/ InitDependencies \/ NoServer \/ CloseDone \/ CloseLogFile
    BY <2>0, <2>1 DEF InitFails, InitDependencies, NoServer, CloseDone, CloseLogFile, StartAt
  <2>2. CASE RegisterClose \/ RegisterShutdown
    BY <2>0, <2>2 DEF RegisterClose, RegisterShutdown, StartAt
  <2>3. CASE ListenFails \/ StartServer
    BY <2>0, <2>3 DEF ListenFails, StartServer, StartAt
  <2>4. CASE ServeReturns \/ ServeFails
    BY <2>0, <2>4 DEF ServeReturns, ServeFails, StartAt
  <2> QED  BY <1>2, <2>1, <2>2, <2>3, <2>4 DEF Start
<1>3. CASE Run \/ Signal
  <2>1. start' = start /\ hooks' = hooks /\ broken' = broken
    BY <1>3 DEF Run, Signal, Notify, ReceiveSignal, ReceiveDone, CloseServerListener,
       ShutdownServer, Drained, Expire
  <2>2. run' \in {"init", "wait"} =>
          run \in {"init", "wait"} /\ stage' = stage /\ stopping' = stopping /\ lis' = lis
    BY <1>3 DEF Run, Signal, Notify, ReceiveSignal, ReceiveDone, CloseServerListener,
       ShutdownServer, RestShutdownServer, GRPCShutdownServer, KafkaShutdownServer,
       Drained, Expire, End, pipeline, perRequest
  <2>3. (\A r \in Requests : stage[r] = "none") => stage' = stage
    <3>1. stage' = stage \/ \E why : End(why)
      BY <1>3 DEF Run, Signal, Notify, ReceiveSignal, ReceiveDone, CloseServerListener,
         ShutdownServer, RestShutdownServer, GRPCShutdownServer, KafkaShutdownServer,
         Drained, Expire, pipeline, perRequest
    <3> QED  BY <3>1, NoneCut
  <2> QED  BY <2>1, <2>2, <2>3
<1>4. ASSUME NEW r \in Requests, Serve(r) \/ HandleMessage(r)
      PROVE  NotYetClosed' /\ Hooked'
  <2>1. UNCHANGED <<start, run, hooks, lis, stopping, broken>>
    BY <1>4 DEF Serve, HandleMessage, process
  <2> QED  BY <1>4, <2>1, Served
<1>5. ASSUME NEW r \in Requests, Arrive(r)  PROVE NotYetClosed' /\ Hooked'
  <2>1. UNCHANGED <<start, run, hooks, lis, stopping, broken>>
    BY <1>5 DEF Arrive, process
  <2> QED  BY <1>5, <2>1, Arrived
<1> QED  BY <1>1, <1>2, <1>3, <1>4, <1>5 DEF Next

\* Run ends only when it has to wait for nobody any more: by a signal before it
\* listens for one, by the write timeout, in the consumer, after a server that
\* failed, or with nothing in flight.
LEMMA NextCut ==
  PipelineInv /\ NotYetClosed /\ Hooked /\ CutAtEnd /\ CutOnlyLate /\ Next =>
    CutAtEnd' /\ CutOnlyLate'
<1> DEFINE Late == /\ run' = "ended"
                   /\ kind' = "kafka" \/ broken' \/ ending' \in {"killed", "expired"}
<1> SUFFICES ASSUME PipelineInv, NotYetClosed, Hooked, CutAtEnd, CutOnlyLate, Next
              PROVE  (\A r \in Requests : stage'[r] # "cut") \/ Late
  BY DEF CutAtEnd, CutOnlyLate
<1>2. run # "ended" /\ \A r \in Requests : stage[r] # "cut"
  BY DEF Next, Alive, CutAtEnd
<1>4. CASE stage' = stage  BY <1>2, <1>4
<1>5. ASSUME ~Busy, NEW why, End(why)  PROVE stage' = stage
  BY <1>5 DEF Busy, End, PipelineInv, PipelineTypes
<1>6. CASE Start
  <2>1. stage' = stage
    BY <1>6 DEF Start, InitFails, InitDependencies, NoServer, RegisterClose,
       RegisterShutdown, ListenFails, StartServer, ServeReturns, ServeFails, CloseDone,
       CloseLogFile, pipeline, perRequest
  <2> QED  BY <1>4, <2>1
<1>7. CASE Notify \/ ReceiveSignal \/ CloseServerListener
  <2>1. stage' = stage
    BY <1>7 DEF Notify, ReceiveSignal, CloseServerListener, pipeline, perRequest
  <2> QED  BY <1>4, <2>1
<1>8. CASE ReceiveDone
  <2>1. CASE broken  BY <1>8, <2>1 DEF ReceiveDone, End
  <2>2. CASE ~broken
    <3>1. \A r \in Requests : stage[r] = "none"
      BY <1>8, <2>2 DEF ReceiveDone, DoneChan, NotYetClosed
    <3> QED  BY <1>4, <1>8, <3>1, NoneCut DEF ReceiveDone
  <2> QED  BY <2>1, <2>2
<1>9. CASE ShutdownServer
  <2>1. CASE "shutdown" \notin hooks
    <3>1. End("nothing") /\ \A r \in Requests : stage[r] = "none"
      BY <1>9, <2>1 DEF ShutdownServer, Hooked
    <3> QED  BY <1>4, <3>1, NoneCut
  <2>2. CASE "shutdown" \in hooks /\ kind \in {"rest", "grpc"}
    <3>1. stage' = stage
      BY <1>9, <2>2 DEF ShutdownServer, RestShutdownServer, GRPCShutdownServer,
         pipeline, perRequest
    <3> QED  BY <1>4, <3>1
  <2>3. CASE "shutdown" \in hooks /\ kind = "kafka"
    BY <1>9, <2>3 DEF ShutdownServer, KafkaShutdownServer, End
  <2> QED  BY <2>1, <2>2, <2>3 DEF PipelineInv, PipelineTypes
<1>10. CASE Drained
  BY <1>4, <1>5, <1>10 DEF Drained
<1>11. CASE Expire
  BY <1>11 DEF Expire, End
<1>12. CASE Signal
  <2>1. CASE run = "init"  BY <1>12, <2>1 DEF Signal, End
  <2>2. CASE run # "init"
    <3>1. stage' = stage  BY <1>12, <2>2 DEF Signal, pipeline, perRequest
    <3> QED  BY <1>4, <3>1
  <2> QED  BY <2>1, <2>2
<1>13. ASSUME NEW r \in Requests, Serve(r) \/ HandleMessage(r) \/ Arrive(r)
       PROVE  \A q \in Requests : stage'[q] # "cut"
  BY <1>2, <1>13, Served, Arrived
<1> QED
  BY <1>6, <1>7, <1>8, <1>9, <1>10, <1>11, <1>12, <1>13 DEF Next, Run

-----------------------------------------------------------------------------
(* Theorems *)

\* The types are those of the requests and those of the process.
LEMMA TypeParts == TypeOK <=> PipelineTypes /\ ProcessTypes
BY DEF TypeOK, ProcessTypes

\* The inductive invariant holds at the start ...
LEMMA InitInv == Init => IInv
<1> SUFFICES ASSUME Init  PROVE IInv
  OBVIOUS
<1>1. PipelineInv  BY InitKeeps DEF Init
<1>2. ProcessTypes /\ LogOpen  BY DEF Init, ProcessTypes, LogOpen
<1>3. \A r \in Requests : stage[r] = "none"  BY DEF Init, InitPipeline
<1>4. NotYetClosed /\ Hooked /\ CutAtEnd /\ CutOnlyLate
  BY <1>3 DEF Init, NotYetClosed, Hooked, CutAtEnd, CutOnlyLate
<1> QED  BY <1>1, <1>2, <1>4, TypeParts DEF IInv, PipelineInv

\* ... and every step keeps it.
LEMMA NextInv == IInv /\ [Next]_vars => IInv'
<1> SUFFICES ASSUME IInv, [Next]_vars  PROVE IInv'
  OBVIOUS
<1>1. PipelineInv /\ ProcessTypes /\ LogOpen /\ NotYetClosed /\ Hooked /\ CutAtEnd
        /\ CutOnlyLate
  BY TypeParts DEF IInv
<1>2. PipelineInv'  BY <1>1, NextPipeline
<1>3. ProcessTypes' /\ LogOpen'  BY <1>1, NextProcess
<1>4. NotYetClosed' /\ Hooked'  BY <1>1, NextEarly
<1>5. CutAtEnd' /\ CutOnlyLate'
  <2>1. CASE UNCHANGED vars
    BY <1>1, <2>1 DEF vars, process, pipeline, perRequest, CutAtEnd, CutOnlyLate
  <2> QED  BY <1>1, <2>1, NextCut
<1>6. TypeOK'  BY <1>2, <1>3 DEF PipelineInv, TypeOK, ProcessTypes
<1> QED  BY <1>2, <1>3, <1>4, <1>5, <1>6 DEF IInv

\* The inductive invariant holds in every reachable state.
THEOREM Invariance == Spec => []IInv
BY InitInv, NextInv, PTL DEF Spec

\* Every variable keeps its type; in particular nothing is held back but what chi
\* could not find.
THEOREM TypeCorrect == Spec => []TypeOK
<1>1. IInv => TypeOK  BY DEF IInv
<1> QED  BY <1>1, Invariance, PTL

\* A request that was handled to its end got exactly one response.
THEOREM OneResponseCorrect == Spec => []OneResponse
<1>1. IInv => OneResponse  BY Properties DEF IInv
<1> QED  BY <1>1, Invariance, PTL

\* No error reaches a REST client as plain text, unless no logger could be made.
THEOREM ProblemsCorrect == Spec => []Problems
<1>1. IInv => Problems  BY Properties DEF IInv
<1> QED  BY <1>1, Invariance, PTL

\* A response blames the client when it was wrong and the server when it failed,
\* whatever the external service of an update does.
THEOREM RightBlameCorrect == Spec => []RightBlame
<1>1. IInv => RightBlame  BY Properties DEF IInv
<1> QED  BY <1>1, Invariance, PTL

\* The item service is called only for a request with a valid token, and never
\* while no key is loaded.
THEOREM AuthenticatedCorrect == Spec => []Authenticated
<1>1. IInv => Authenticated  BY Properties DEF IInv
<1> QED  BY <1>1, Invariance, PTL

\* However many requests run beside it, what is fetched for one carries its own
\* token and parent id.
THEOREM OwnIdentityCorrect == Spec => []OwnIdentity
<1>1. IInv => OwnIdentity  BY Properties DEF IInv
<1> QED  BY <1>1, Invariance, PTL

\* A request that panicked and was handled to its end asked for a restart.
THEOREM PanicRestartsCorrect == Spec => []PanicRestarts
<1>1. IInv => PanicRestarts  BY Properties DEF IInv
<1> QED  BY <1>1, Invariance, PTL

\* Requests are cut only by the write timeout, a server that failed, a signal
\* before Run listens for it, or in the consumer.
THEOREM CutOnlyLateCorrect == Spec => []CutOnlyLate
<1>1. IInv => CutOnlyLate  BY DEF IInv
<1> QED  BY <1>1, Invariance, PTL

\* As long as the listener takes requests, the log file is open.
THEOREM LoggedWhileListeningCorrect == Spec => []LoggedWhileListening
<1>1. IInv => LoggedWhileListening
  BY DEF IInv, LogOpen, LoggedWhileListening
<1> QED  BY <1>1, Invariance, PTL
=============================================================================
