-------------------------------- MODULE Server --------------------------------
(* A process of the program from its start to its end: Start and               *)
(* lifecycle.Run, which are two goroutines, the hooks the one registers for    *)
(* the other, the listener, the log file, and the requests (Pipeline) that are *)
(* in flight while all that comes and goes.  KafkaRpc has what becomes of a    *)
(* message; here it is one step, between which the process may end.            *)
(* net/http, grpc-go and kafka-go are external.                                *)
EXTENDS Pipeline

VARIABLES start,     \* Start: init, ready, closehook, hooks, serve, stopped,
                     \*        done (doneChan is closed), exited
          run,       \* Run: init, wait, close, shutdown, draining, ended
          hooks,     \* lifecycle: the functions that were registered
          lis,       \* the listener: none, open, closed
          stopping,  \* Shutdown, GracefulStop or cancel was called
          log,       \* the log file: none, open, closed, reopened
          sig,       \* SIGTERM was sent
          ending,    \* why Run returned
          broken     \* serving ended by itself

process == <<start, run, hooks, lis, stopping, log, sig, ending, broken>>
vars == <<pipeline, process>>

\* The program as built has no key (InitializeJWTService(false, false)); with
\* others, as the tests load them, requests get further.
Init == /\ kind \in {"rest", "grpc", "kafka"}
        /\ keyed \in BOOLEAN
        /\ InitPipeline
        /\ start = "init"
        /\ run = "init"
        /\ hooks = {}
        /\ lis = "none"
        /\ stopping = FALSE
        /\ log = "none"
        /\ sig = FALSE
        /\ ending = "none"
        /\ broken = FALSE

Busy == \E r \in Requests : InFlight(r)
Alive == run # "ended"
DoneChan == start \in {"done", "exited"}

-----------------------------------------------------------------------------
(* Start *)

StartAt(l) == start' = l

\* Flags and dependencies: -version, or an error, and Start is done, its
\* deferred CloseLogFile not yet in place.
InitFails == /\ start = "init"
             /\ StartAt("exited")
             /\ UNCHANGED <<pipeline, run, hooks, lis, stopping, log, sig, ending, broken>>

InitDependencies == /\ start = "init"
                    /\ log' = "open"
                    /\ StartAt("ready")
                    /\ UNCHANGED <<pipeline, run, hooks, lis, stopping, sig, ending, broken>>

\* The port of the configuration is no number, or a route cannot be walked.
NoServer == /\ start = "ready"
            /\ kind = "rest"
            /\ StartAt("stopped")
            /\ UNCHANGED <<pipeline, run, hooks, lis, stopping, log, sig, ending, broken>>

RegisterClose == /\ start = "ready"
                 /\ hooks' = hooks \cup {"close"}
                 /\ StartAt("closehook")
                 /\ UNCHANGED <<pipeline, run, lis, stopping, log, sig, ending, broken>>

RegisterShutdown == /\ start = "closehook"
                    /\ hooks' = hooks \cup {"shutdown"}
                    /\ StartAt("hooks")
                    /\ UNCHANGED <<pipeline, run, lis, stopping, log, sig, ending, broken>>

\* StartServer: the address may be in use, the socket may be missing.
ListenFails == /\ start = "hooks"
               /\ kind # "kafka"
               /\ StartAt("stopped")
               /\ UNCHANGED <<pipeline, run, hooks, lis, stopping, log, sig, ending, broken>>

StartServer == /\ start = "hooks"
               /\ lis' = IF kind = "kafka" THEN "none" ELSE "open"
               /\ StartAt("serve")
               /\ UNCHANGED <<pipeline, run, hooks, stopping, log, sig, ending, broken>>

\* Serve returns when its listener is closed or it is told to stop; gRPC, told
\* to stop, waits for its calls first, and the consumer for its message.
ServeReturns == /\ start = "serve"
                /\ lis = "closed" \/ stopping
                /\ (kind = "grpc" /\ stopping) \/ kind = "kafka" => ~Busy
                /\ lis' = IF lis = "open" THEN "closed" ELSE lis
                /\ StartAt("stopped")
                /\ UNCHANGED <<pipeline, run, hooks, stopping, log, sig, ending, broken>>

\* Accept, or ReadMessage, fails for good.
ServeFails == /\ start = "serve"
              /\ lis # "closed" /\ ~stopping
              /\ kind = "kafka" => ~Busy
              /\ lis' = IF lis = "open" THEN "closed" ELSE lis
              /\ broken' = TRUE
              /\ StartAt("stopped")
              /\ UNCHANGED <<pipeline, run, hooks, stopping, log, sig, ending>>

CloseDone == /\ start = "stopped"
             /\ StartAt("done")
             /\ UNCHANGED <<pipeline, run, hooks, lis, stopping, log, sig, ending, broken>>

\* A fault: the close is not deferred.
CloseAtOnce == /\ start \in {"ready", "hooks", "serve"}
               /\ log' = "closed"
               /\ UNCHANGED <<pipeline, start, run, hooks, lis, stopping, sig, ending, broken>>

CloseLogFile == /\ start = "done"
                /\ log' = "closed"
                /\ StartAt("exited")
                /\ UNCHANGED <<pipeline, run, hooks, lis, stopping, sig, ending, broken>>

Start == \/ InitFails \/ InitDependencies \/ NoServer \/ RegisterClose
         \/ RegisterShutdown \/ ListenFails \/ StartServer \/ ServeReturns
         \/ ServeFails \/ CloseDone \/ CloseLogFile

-----------------------------------------------------------------------------
(* Run *)

\* The process ends, and with it what is in flight.
End(why) == /\ run' = "ended"
            /\ ending' = why
            /\ stage' = [r \in Requests |-> IF InFlight(r) THEN "cut" ELSE stage[r]]
            /\ UNCHANGED <<kind, keyed, op, tok, ctx, client, fetched, ran, result,
                           held, sent, cause, asked>>

\* Before signal.Notify a signal kills the process.
Signal == /\ ~sig
          /\ sig' = TRUE
          /\ IF run = "init" THEN End("killed") ELSE UNCHANGED <<pipeline, run, ending>>
          /\ UNCHANGED <<start, hooks, lis, stopping, log, broken>>

Notify == /\ run = "init"
          /\ run' = "wait"
          /\ UNCHANGED <<pipeline, start, hooks, lis, stopping, log, sig, ending, broken>>

ReceiveSignal == /\ run = "wait"
                 /\ sig
                 /\ run' = "close"
                 /\ UNCHANGED <<pipeline, start, hooks, lis, stopping, log, sig, ending, broken>>

\* A fault: Run goes on selecting while it shuts down.
ReceiveDoneLate == /\ run \in {"wait", "draining"}
                   /\ DoneChan
                   /\ End("done")
                   /\ UNCHANGED <<start, hooks, lis, stopping, log, sig, broken>>

ReceiveDone == /\ run = "wait"
               /\ DoneChan
               /\ End("done")
               /\ UNCHANGED <<start, hooks, lis, stopping, log, sig, broken>>

\* RestCloseListener and GRPCCloseListener close the listener if they see one:
\* its field is written by Start and read here without synchronisation.
\* KafkaCloseListener cancels the consumer.
CloseListener == /\ lis' \in {lis} \cup (IF lis = "open" THEN {"closed"} ELSE {})
                 /\ UNCHANGED stopping
KafkaCloseListener == stopping' = TRUE /\ UNCHANGED lis

CloseServerListener ==
  /\ run = "close"
  /\ run' = "shutdown"
  /\ IF "close" \notin hooks THEN UNCHANGED <<lis, stopping>>
     ELSE IF kind = "kafka" THEN KafkaCloseListener ELSE CloseListener
  /\ UNCHANGED <<pipeline, start, hooks, log, sig, ending, broken>>

\* Shutdown and GracefulStop, which wait for the requests; the consumer is
\* cancelled again and not waited for.
RestShutdownServer == /\ stopping' = TRUE
                      /\ lis' = IF lis = "open" THEN "closed" ELSE lis
                      /\ run' = "draining"
                      /\ UNCHANGED <<pipeline, ending>>
GRPCShutdownServer == /\ lis' = IF lis = "open" THEN "closed" ELSE lis
                      /\ stopping' = TRUE
                      /\ run' = "draining"
                      /\ UNCHANGED <<pipeline, ending>>
KafkaShutdownServer == KafkaCloseListener /\ End("nothing")

ShutdownServer ==
  /\ run = "shutdown"
  /\ IF "shutdown" \notin hooks THEN End("nothing") /\ UNCHANGED <<lis, stopping>>
     ELSE IF kind = "rest" THEN RestShutdownServer
     ELSE IF kind = "grpc" THEN GRPCShutdownServer ELSE KafkaShutdownServer
  /\ UNCHANGED <<start, hooks, log, sig, broken>>

Drained == /\ run = "draining"
           /\ ~Busy
           /\ End("drained")
           /\ UNCHANGED <<start, hooks, lis, stopping, log, sig, broken>>

\* A fault: Shutdown without a deadline.
ExpireNever == /\ run = "draining"
               /\ ~Busy
               /\ End("expired")
               /\ UNCHANGED <<start, hooks, lis, stopping, log, sig, broken>>

\* RestShutdownServer waits as long as a response may take to be written.
Expire == /\ run = "draining"
          /\ kind = "rest"
          /\ End("expired")
          /\ UNCHANGED <<start, hooks, lis, stopping, log, sig, broken>>

Run == \/ Notify \/ ReceiveSignal \/ ReceiveDone \/ CloseServerListener
       \/ ShutdownServer \/ Drained \/ Expire

-----------------------------------------------------------------------------
(* Requests *)

\* Over the listener while Serve accepts, or over a connection that an earlier
\* request left open; the consumer takes one message at a time.
Arrive(r) ==
  /\ stage[r] = "none"
  /\ ~stopping
  /\ IF kind = "kafka" THEN start = "serve" /\ ~Busy
     ELSE \/ start = "serve" /\ lis = "open"
          \/ \E q \in Requests : stage[q] # "none"
  /\ Go(r, IF kind = "rest" THEN "logger" ELSE IF kind = "grpc" THEN "build" ELSE "message")
  /\ UNCHANGED <<kind, keyed, op, tok, ctx, client, fetched, ran, result, held, sent,
                 cause, asked, process>>

\* A request that gets a logger after CloseLogFile opens the files again.
Serve(r) ==
  /\ Process(r)
  /\ log' = IF log = "closed" /\ "logger" \in ctx'[r] \ ctx[r] THEN "reopened" ELSE log
  /\ UNCHANGED <<start, run, hooks, lis, stopping, sig, ending, broken>>

HandleMessage(r) ==
  /\ stage[r] = "message"
  /\ Go(r, "done")
  /\ UNCHANGED <<kind, keyed, op, tok, ctx, client, fetched, ran, result, held, sent,
                 cause, asked, process>>

-----------------------------------------------------------------------------
Next == /\ Alive
        /\ \/ Start \/ Run \/ Signal
           \/ \E r \in Requests : Arrive(r) \/ Serve(r) \/ HandleMessage(r)

\* Run's goroutine goes on.  GracefulStop has no limit, so its calls have to
\* end; neither REST requests nor messages have to.
Fairness == /\ WF_vars(Alive /\ Run)
            /\ \A r \in Requests : WF_vars(Alive /\ kind = "grpc" /\ Serve(r))

Spec == Init /\ [][Next]_vars /\ Fairness

-----------------------------------------------------------------------------
(* Properties *)

\* Every variable keeps to its type.
TypeOK ==
  /\ PipelineTypes
  /\ start \in {"init", "ready", "closehook", "hooks", "serve", "stopped", "done", "exited"}
  /\ run \in {"init", "wait", "close", "shutdown", "draining", "ended"}
  /\ hooks \subseteq {"close", "shutdown"}
  /\ lis \in {"none", "open", "closed"}
  /\ log \in {"none", "open", "closed", "reopened"}
  /\ ending \in {"none", "killed", "done", "nothing", "drained", "expired"}
  /\ stopping \in BOOLEAN /\ sig \in BOOLEAN /\ broken \in BOOLEAN

\* Closing the listener makes Serve return and Start finish while requests are
\* still served; no request is cut by that, but only by the write timeout, by
\* a server that failed, by a signal that comes before Run listens for it, or
\* in the consumer, whose shutdown does not wait.
CutOnlyLate == (\E r \in Requests : stage[r] = "cut") =>
                 kind = "kafka" \/ broken \/ ending \in {"killed", "expired"}

\* As long as the listener takes requests, the log file is open.
LoggedWhileListening == lis = "open" => log = "open"

\* A signal ends the process, whatever Start is at when it comes.
Ends == sig ~> run = "ended"
=============================================================================
