------------------------------- MODULE Pipeline -------------------------------
(* What becomes of a request: the REST middlewares in the order               *)
(* GetRESTServer stacks them (recover, logger, service, error format, routes, *)
(* authentication, input, handler), the gRPC interceptors and buildService,   *)
(* and behind both the item service with its call of an external service.     *)
(* neoma, chi and grpc-go are external; input that they refuse is one step.   *)
EXTENDS Naturals, Sequences

CONSTANTS Requests,   \* requests, each sent once
          Ops         \* operations that clients use

VARIABLES kind,     \* the front end that was built in: rest, grpc or kafka
          keyed,    \* the JWT service has a public key
          stage,    \* request -> the part of the program that has it
          op,       \* request -> operation it was routed to
          tok,      \* request -> its token, once it was looked at
          ctx,      \* request -> what its context carries
          client,   \* request -> whose logger its outbound clients hold
          fetched,  \* request -> token and parent id sent to the other service
          ran,      \* request -> the service was called for it
          result,   \* request -> code its handler returned
          held,     \* request -> status the error formatter holds back
          sent,     \* request -> responses written to its connection
          cause,    \* request -> whose fault it is: nobody, client or server
          asked     \* request -> a restart was requested for its panic

perRequest == <<stage, op, tok, ctx, client, fetched, ran, result, held, sent, cause, asked>>
pipeline == <<kind, keyed, perRequest>>

ItemOps == {"create", "list", "get", "update", "delete"}
FileOps == {"upload", "download", "form"}
SystemOps == {"echo", "long", "crash"}
ASSUME OpsAssumption == Ops \subseteq ItemOps \cup FileOps \cup SystemOps

Tokens == {"missing", "expired", "invalid", "valid"}

\* pkg/code: the codes these paths use, with their HTTP and gRPC codes.
Codes == [ok                     |-> <<200, "OK">>,
          ErrPayloadError        |-> <<400, "InvalidArgument">>,
          ErrMissingToken        |-> <<401, "Unauthenticated">>,
          ErrTokenExpired        |-> <<401, "Unauthenticated">>,
          ErrInvalidToken        |-> <<401, "Unauthenticated">>,
          ErrNotFound            |-> <<404, "NotFound">>,
          ErrItemNotFound        |-> <<404, "NotFound">>,
          ErrMethodNotAllowed    |-> <<405, "Unimplemented">>,
          ErrInternalServerError |-> <<500, "Internal">>]

ClientCodes == {"InvalidArgument", "Unauthenticated", "NotFound", "Unimplemented"}
Blamed(c) ==
  IF kind = "grpc"
  THEN IF Codes[c][2] = "OK" THEN "nobody"
       ELSE IF Codes[c][2] \in ClientCodes THEN "client" ELSE "server"
  ELSE IF Codes[c][1] < 400 THEN "nobody"
       ELSE IF Codes[c][1] < 500 THEN "client" ELSE "server"

InitPipeline ==
  /\ stage = [r \in Requests |-> "none"]
  /\ op = [r \in Requests |-> "none"]
  /\ tok = [r \in Requests |-> "none"]
  /\ ctx = [r \in Requests |-> {}]
  /\ client = [r \in Requests |-> {}]
  /\ fetched = [r \in Requests |-> {}]
  /\ ran = [r \in Requests |-> FALSE]
  /\ result = [r \in Requests |-> "none"]
  /\ held = [r \in Requests |-> "none"]
  /\ sent = [r \in Requests |-> <<>>]
  /\ cause = [r \in Requests |-> "nobody"]
  /\ asked = [r \in Requests |-> FALSE]

Go(r, s) == stage' = [stage EXCEPT ![r] = s]
Blame(r, who) == cause' = [cause EXCEPT ![r] = who]

\* writeError, http.Error or an encoded result, written to the connection.
Respond(r, c, b) == sent' = [sent EXCEPT ![r] = Append(@, [code |-> c, body |-> b])]

-----------------------------------------------------------------------------
(* REST middlewares *)

Context(r, vs) == ctx' = [ctx EXCEPT ![r] = @ \cup vs]

\* A fault: the aggregator of outbound clients is made once, for all requests.
SharedOutbound(r) ==
  client' = [client EXCEPT ![r] = IF \A q \in Requests : client[q] = {} THEN {r}
                                  ELSE UNION {client[q] : q \in Requests}]

\* A new aggregator, whose clients use the logger of the request.
NewOutbound(r) == client' = [client EXCEPT ![r] = {r}]

\* A logger for the request; without an id or a log file it ends here.
LoggerMiddleware(r) ==
  /\ kind = "rest"
  /\ stage[r] = "logger"
  /\ \/ /\ Context(r, {"logger"})
        /\ Go(r, "service")
        /\ UNCHANGED <<sent, cause>>
     \/ /\ Respond(r, "ErrInternalServerError", "text")
        /\ Blame(r, "server")
        /\ Go(r, "done")
        /\ UNCHANGED ctx
  /\ UNCHANGED <<kind, keyed, op, tok, client, fetched, ran, result, held, asked>>

\* Aggregators of repositories and outbound clients, with the request's logger.
ServiceMiddleware(r) ==
  /\ kind = "rest"
  /\ stage[r] = "service"
  /\ Context(r, {"repo", "outbound", "token"})
  /\ NewOutbound(r)
  /\ Go(r, "route")
  /\ UNCHANGED <<kind, keyed, op, tok, fetched, ran, result, held, sent, cause, asked>>

\* Faults: every status is written through; every client error is held back.
InterceptNothing(r, c, b) == Respond(r, c, b) /\ UNCHANGED held
InterceptAll(r, c, b) ==
  IF Codes[c][1] \in 400..499
  THEN held' = [held EXCEPT ![r] = c] /\ UNCHANGED sent
  ELSE Respond(r, c, b) /\ UNCHANGED held

\* statusInterceptWriter: a 404 or 405 that is not JSON is held back.
Intercept(r, c, b) ==
  IF Codes[c][1] \in {404, 405} /\ b = "text"
  THEN held' = [held EXCEPT ![r] = c] /\ UNCHANGED sent
  ELSE Respond(r, c, b) /\ UNCHANGED held

\* chi finds no route, or no method, and answers in plain text ...
Unrouted(r) ==
  /\ kind = "rest"
  /\ stage[r] = "route"
  /\ \E c \in {"ErrNotFound", "ErrMethodNotAllowed"} : Intercept(r, c, "text")
  /\ Blame(r, "client")
  /\ Go(r, "format")
  /\ UNCHANGED <<kind, keyed, op, tok, ctx, client, fetched, ran, result, asked>>

\* ... or one of the routers' operations: only items need authentication.
Routed(r) ==
  /\ kind = "rest"
  /\ stage[r] = "route"
  /\ \E o \in Ops :
       /\ op' = [op EXCEPT ![r] = o]
       /\ Go(r, IF o \in ItemOps THEN "auth" ELSE "input")
  /\ UNCHANGED <<kind, keyed, tok, ctx, client, fetched, ran, result, held, sent, cause, asked>>

\* A fault: only the presence of a token is looked at.
ParseNothing(t) == IF t = "missing" THEN "ErrMissingToken" ELSE "ok"

\* ParseJWT: without a public key every token is refused.
Parsed(t) == IF t = "missing" THEN "ErrMissingToken"
             ELSE IF ~keyed THEN "ErrInvalidToken"
             ELSE IF t = "expired" THEN "ErrTokenExpired"
             ELSE IF t = "invalid" THEN "ErrInvalidToken" ELSE "ok"

AuthMiddleware(r) ==
  /\ kind = "rest"
  /\ stage[r] = "auth"
  /\ \E t \in Tokens :
       /\ tok' = [tok EXCEPT ![r] = t]
       /\ IF Parsed(t) = "ok"
          THEN Context(r, {"user"}) /\ Go(r, "input") /\ UNCHANGED <<held, sent, cause>>
          ELSE /\ Intercept(r, Parsed(t), "problem")
               /\ Blame(r, "client")
               /\ Go(r, "format")
               /\ UNCHANGED ctx
  /\ UNCHANGED <<kind, keyed, op, client, fetched, ran, result, asked>>

\* neoma decodes and validates the input.
BadInput(r) ==
  /\ stage[r] = "input"
  /\ Intercept(r, "ErrPayloadError", "problem")
  /\ Blame(r, "client")
  /\ Go(r, "format")
  /\ UNCHANGED <<kind, keyed, op, tok, ctx, client, fetched, ran, result, asked>>

\* serviceFromContext needs repository, outbound clients and logger.
GoodInput(r) ==
  /\ stage[r] = "input"
  /\ IF op[r] \in ItemOps /\ ~{"repo", "outbound", "logger"} \subseteq ctx[r]
     THEN result' = [result EXCEPT ![r] = "ErrInternalServerError"] /\ Go(r, "encode")
     ELSE UNCHANGED result /\ Go(r, IF op[r] = "update" THEN "fetch" ELSE "handler")
  /\ UNCHANGED <<kind, keyed, op, tok, ctx, client, fetched, ran, held, sent, cause, asked>>

-----------------------------------------------------------------------------
(* gRPC: RecoverUnaryServerInterceptor, LoggingUnaryServerInterceptor, and     *)
(* buildService at the start of every method                                   *)

BuildServiceFails(r) ==
  /\ kind = "grpc"
  /\ stage[r] = "build"
  /\ Respond(r, "ErrInternalServerError", "status")
  /\ Blame(r, "server")
  /\ Go(r, "done")
  /\ UNCHANGED <<kind, keyed, op, tok, ctx, client, fetched, ran, result, held, asked>>

BuildService(r) ==
  /\ kind = "grpc"
  /\ stage[r] = "build"
  /\ \E t \in Tokens, o \in Ops \cap ItemOps :
       /\ tok' = [tok EXCEPT ![r] = t]
       /\ op' = [op EXCEPT ![r] = o]
       /\ IF Parsed(t) = "ok"
          THEN /\ Context(r, {"logger", "user", "token"})
               /\ NewOutbound(r)
               /\ Go(r, IF o = "update" THEN "fetch" ELSE "handler")
               /\ UNCHANGED <<sent, cause>>
          ELSE /\ Context(r, {"logger"})
               /\ Respond(r, "ErrInvalidToken", "status")
               /\ Blame(r, "client")
               /\ Go(r, "done")
               /\ UNCHANGED client
  /\ UNCHANGED <<kind, keyed, fetched, ran, result, held, asked>>

-----------------------------------------------------------------------------
(* The services *)

\* SendHTTPRequest gives up at the first part that fails; a response that is
\* no success is decoded like any other.
Parts == <<"Url", "Payload", "Headers", "Fire", "Read">>
SendHTTPRequest(fails) ==
  LET bad == {i \in 1..Len(Parts) : Parts[i] \in fails}
  IN IF bad = {} THEN "ok" ELSE Parts[CHOOSE i \in bad : \A j \in bad : i <= j]

\* A fault: an update that cannot fetch the item is refused.
FetchMustSucceed(e) == IF e = "ok" THEN "handler" ELSE "encode"

\* UpdateItem only logs what becomes of the call.
AfterFetch(e) == "handler"

\* The caller's token and the parent id of the client's logger.
Headers(r) == {<<IF "token" \in ctx[r] THEN r ELSE "nobody", q>> : q \in client[r]}

FetchItemByID(r) ==
  /\ stage[r] = "fetch"
  /\ fetched' = [fetched EXCEPT ![r] = Headers(r)]
  /\ \E fails \in {{}, {"Fire"}, {"Read"}} :
       LET s == AfterFetch(SendHTTPRequest(fails)) IN
       /\ Go(r, s)
       /\ result' = [result EXCEPT ![r] =
            IF s = "encode" THEN "ErrInternalServerError" ELSE @]
  /\ UNCHANGED <<kind, keyed, op, tok, ctx, client, ran, held, sent, cause, asked>>

\* What a handler may return: an item may be missing, the database may fail, an
\* upload may have no file, a file may be absent or unreadable.
ClientErrors(o) == IF o \in {"get", "delete"} THEN {"ErrItemNotFound"}
                   ELSE IF o \in {"upload", "form"} THEN {"ErrPayloadError"}
                   ELSE IF o = "download" THEN {"ErrNotFound"} ELSE {}
ServerErrors(o) == IF o \in ItemOps \cup {"download"} THEN {"ErrInternalServerError"} ELSE {}

Handler(r) ==
  /\ stage[r] = "handler"
  /\ op[r] # "crash"
  /\ ran' = [ran EXCEPT ![r] = TRUE]
  /\ \E c \in {"ok"} \cup ClientErrors(op[r]) \cup ServerErrors(op[r]) :
       /\ result' = [result EXCEPT ![r] = c]
       /\ Blame(r, IF c = "ok" THEN "nobody"
                   ELSE IF c \in ClientErrors(op[r]) THEN "client" ELSE "server")
  /\ Go(r, "encode")
  /\ UNCHANGED <<kind, keyed, op, tok, ctx, client, fetched, held, sent, asked>>

\* The crash endpoint panics, and so may a service that has a defect.
Panics(r) ==
  /\ stage[r] = "handler"
  /\ op[r] \in ItemOps \cup {"crash"}
  /\ ran' = [ran EXCEPT ![r] = TRUE]
  /\ Blame(r, "server")
  /\ Go(r, "panic")
  /\ UNCHANGED <<kind, keyed, op, tok, ctx, client, fetched, result, held, sent, asked>>

-----------------------------------------------------------------------------
(* The way back *)

\* neoma writes the result, or the code as JSON; gRPC returns the status.
Encode(r) ==
  /\ stage[r] = "encode"
  /\ IF kind = "rest"
     THEN Intercept(r, result[r], IF result[r] = "ok" THEN "json" ELSE "problem")
     ELSE Respond(r, result[r], "status") /\ UNCHANGED held
  /\ Go(r, IF kind = "rest" THEN "format" ELSE "done")
  /\ UNCHANGED <<kind, keyed, op, tok, ctx, client, fetched, ran, result, cause, asked>>

\* A fault: what was held back is dropped.
FormatNothing(r) ==
  /\ stage[r] = "format"
  /\ Go(r, "done")
  /\ UNCHANGED <<kind, keyed, op, tok, ctx, client, fetched, ran, result, held, sent, cause, asked>>

\* ErrorFormatMiddleware writes what was held back.
ErrorFormatMiddleware(r) ==
  /\ stage[r] = "format"
  /\ IF held[r] = "none" THEN UNCHANGED sent ELSE Respond(r, held[r], "problem")
  /\ Go(r, "done")
  /\ UNCHANGED <<kind, keyed, op, tok, ctx, client, fetched, ran, result, held, cause, asked>>

\* A fault: the panic is answered and nobody is told.
RecoverQuietly(r) ==
  /\ kind = "rest"
  /\ stage[r] = "panic"
  /\ Respond(r, "ErrInternalServerError", "problem")
  /\ Go(r, "done")
  /\ UNCHANGED <<kind, keyed, op, tok, ctx, client, fetched, ran, result, held, cause, asked>>

\* RecoverMiddleware answers first and then asks for the restart ...
RecoverMiddleware(r) ==
  /\ kind = "rest"
  /\ stage[r] = "panic"
  /\ Respond(r, "ErrInternalServerError", "problem")
  /\ Go(r, "restart")
  /\ UNCHANGED <<kind, keyed, op, tok, ctx, client, fetched, ran, result, held, cause, asked>>

RequestRestart(r) ==
  /\ stage[r] = "restart"
  /\ asked' = [asked EXCEPT ![r] = TRUE]
  /\ Go(r, "done")
  /\ UNCHANGED <<kind, keyed, op, tok, ctx, client, fetched, ran, result, held, sent, cause>>

\* ... the interceptor on the side, in a goroutine of its own.
RecoverUnaryServerInterceptor(r) ==
  /\ kind = "grpc"
  /\ stage[r] = "panic"
  /\ Respond(r, "ErrInternalServerError", "status")
  /\ Go(r, "restart")
  /\ UNCHANGED <<kind, keyed, op, tok, ctx, client, fetched, ran, result, held, cause, asked>>

-----------------------------------------------------------------------------
Process(r) == \/ LoggerMiddleware(r) \/ ServiceMiddleware(r)
              \/ Unrouted(r) \/ Routed(r) \/ AuthMiddleware(r)
              \/ BadInput(r) \/ GoodInput(r)
              \/ BuildServiceFails(r) \/ BuildService(r)
              \/ FetchItemByID(r) \/ Handler(r) \/ Panics(r)
              \/ Encode(r) \/ ErrorFormatMiddleware(r)
              \/ RecoverMiddleware(r) \/ RecoverUnaryServerInterceptor(r)
              \/ RequestRestart(r)

\* Nobody waits for the goroutine of the interceptor.
InFlight(r) == stage[r] \notin {"none", "done", "cut"} \cup
                 (IF kind = "grpc" THEN {"restart"} ELSE {})

-----------------------------------------------------------------------------
(* Properties *)

\* Every variable keeps to its type.
PipelineTypes ==
  /\ kind \in {"rest", "grpc", "kafka"} /\ keyed \in BOOLEAN
  /\ stage \in [Requests -> {"none", "logger", "service", "route", "auth", "input", "build",
                  "message", "fetch", "handler", "encode", "format", "panic",
                  "restart", "done", "cut"}]
  /\ op \in [Requests -> Ops \cup {"none"}]
  /\ tok \in [Requests -> Tokens \cup {"none"}]
  /\ ctx \in [Requests -> SUBSET {"logger", "repo", "outbound", "token", "user"}]
  /\ ran \in [Requests -> BOOLEAN] /\ asked \in [Requests -> BOOLEAN]
  /\ client \in [Requests -> SUBSET Requests]
  /\ \A r \in Requests : fetched[r] \subseteq (Requests \cup {"nobody"}) \X Requests
  /\ result \in [Requests -> DOMAIN Codes \cup {"none"}]
  /\ held \in [Requests -> {"none", "ErrNotFound", "ErrMethodNotAllowed"}]
  /\ \A r \in Requests : \A i \in DOMAIN sent[r] :
       sent[r][i] \in [code : DOMAIN Codes, body : {"text", "json", "problem", "status"}]
  /\ cause \in [Requests -> {"nobody", "client", "server"}]

\* A request that was handled to its end got exactly one response, whichever
\* part answered it, and the error formatter never adds to one already written.
OneResponse == \A r \in Requests :
  /\ stage[r] = "done" /\ kind # "kafka" => Len(sent[r]) = 1
  /\ Len(sent[r]) <= 1

\* No error reaches a REST client as plain text, unknown routes and methods
\* included, except when not even a logger could be made.
Problems == kind = "rest" => \A r \in Requests : \A i \in DOMAIN sent[r] :
  sent[r][i].code # "ok" /\ "logger" \in ctx[r] => sent[r][i].body = "problem"

\* A client is told that it was wrong when it was, and that the server failed
\* when the server did, alike over REST and gRPC; what the external service of
\* an update does is never answered.  (Without a key, good tokens are refused.)
RightBlame == \A r \in Requests : \A i \in DOMAIN sent[r] :
  Blamed(sent[r][i].code) = cause[r]

\* The item service is called only for a request with a valid token, and never
\* while no key is loaded.
Authenticated == kind # "kafka" => \A r \in Requests :
  ran[r] /\ op[r] \in ItemOps => keyed /\ tok[r] = "valid"

\* What is sent to the external service carries the token and the parent id of
\* the request it is sent for, whatever requests run beside it.
OwnIdentity == \A r \in Requests : fetched[r] \subseteq {<<r, r>>}

\* A request that panicked and was handled to its end asked for a restart.
PanicRestarts == \A r \in Requests :
  stage[r] = "done" /\ ran[r] /\ result[r] = "none" /\ kind # "kafka" => asked[r]
=============================================================================
