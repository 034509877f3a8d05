---------------------------- MODULE Pipeline_proofs ----------------------------
(* Lemmas about the pipeline, for any requests and operations: what a step of  *)
(* one request does to it keeps PipelineInv, and leaves the others alone.      *)
(* Server_proofs has the theorems they lead to.                                *)
EXTENDS PipelineInv, TLAPS

Stages == {"none", "logger", "service", "route", "auth", "input", "build", "message",
           "fetch", "handler", "encode", "format", "panic", "restart", "done", "cut"}
Bodies == {"text", "json", "problem", "status"}

-----------------------------------------------------------------------------
(* Codes, answers and tokens *)

\* The codes there are.
LEMMA CodeNames ==
  DOMAIN Codes = {"ok", "ErrPayloadError", "ErrMissingToken", "ErrTokenExpired",
                  "ErrInvalidToken", "ErrNotFound", "ErrItemNotFound",
                  "ErrMethodNotAllowed", "ErrInternalServerError"}
BY DEF Codes

\* Whom a code blames is the same over every front end.
LEMMA Blames ==
  /\ Blamed("ok") = "nobody"
  /\ Blamed("ErrInternalServerError") = "server"
  /\ \A c \in DOMAIN Codes \ {"ok", "ErrInternalServerError"} : Blamed(c) = "client"
BY DEF Blamed, Codes, ClientCodes

\* Only what is neither found nor allowed can be held back.
LEMMA NotHeld ==
  ASSUME NEW c \in DOMAIN Codes, Codes[c][1] \in {404, 405}
  PROVE  c \in {"ErrNotFound", "ErrItemNotFound", "ErrMethodNotAllowed"}
BY DEF Codes

\* The first response.
LEMMA First == \A a : Append(<<>>, a) = <<a>>
OBVIOUS

\* A sequence of one answer is not empty and has that answer.
LEMMA Single == \A a, b : <<a>> # <<>> /\ (<<a>> = <<b>> => a = b)
OBVIOUS

\* A token is good only if a key is there to check it.
LEMMA Parses ==
  \A t \in Tokens :
    /\ Parsed(t) \in DOMAIN Codes \ {"ErrInternalServerError"}
    /\ Parsed(t) \notin {"ErrNotFound", "ErrItemNotFound", "ErrMethodNotAllowed"}
    /\ Parsed(t) = "ok" => keyed /\ t = "valid"
BY CodeNames DEF Parsed, Tokens

-----------------------------------------------------------------------------
(* What a part of the pipeline writes *)

\* A response to a request that has none is the only one.
LEMMA Responds ==
  ASSUME SentTypes, NEW r \in Requests, sent[r] = <<>>,
         NEW c \in DOMAIN Codes, NEW b \in Bodies, Respond(r, c, b)
  PROVE  /\ [code |-> c, body |-> b] \in Answers
         /\ sent'[r] = <<[code |-> c, body |-> b]>>
         /\ sent' \in [Requests -> {<<>>} \cup {<<a>> : a \in Answers}]
         /\ \A q \in Requests \ {r} : sent'[q] = sent[q]
<1>1. [code |-> c, body |-> b] \in Answers  BY DEF Answers, Bodies
<1>2. sent' = [sent EXCEPT ![r] = <<[code |-> c, body |-> b]>>]
  BY First DEF Respond
<1>3. <<[code |-> c, body |-> b]>> \in {<<a>> : a \in Answers}  BY <1>1
<1> QED  BY <1>1, <1>2, <1>3 DEF SentTypes

\* Through the interceptor it is written at once, or held back if it says in plain
\* text what chi could not find.
LEMMA Intercepts ==
  ASSUME PipelineTypes, SentTypes, NEW r \in Requests, sent[r] = <<>>, held[r] = "none",
         NEW c \in DOMAIN Codes, NEW b \in Bodies, Intercept(r, c, b),
         b = "text" => c \in {"ErrNotFound", "ErrMethodNotAllowed"}
  PROVE  /\ sent' \in [Requests -> {<<>>} \cup {<<a>> : a \in Answers}]
         /\ held' \in [Requests -> {"none", "ErrNotFound", "ErrMethodNotAllowed"}]
         /\ \A q \in Requests \ {r} : sent'[q] = sent[q] /\ held'[q] = held[q]
         /\ \/ held'[r] = c /\ c # "none" /\ sent'[r] = <<>>
            \/ held'[r] = "none" /\ b # "text" /\ sent'[r] = <<[code |-> c, body |-> b]>>
<1>1. CASE b = "text"
  <2>1. c \in {"ErrNotFound", "ErrMethodNotAllowed"} /\ Codes[c][1] \in {404, 405}
    BY <1>1 DEF Codes
  <2>2. held' = [held EXCEPT ![r] = c] /\ sent' = sent
    BY <1>1, <2>1 DEF Intercept
  <2> QED  BY <2>1, <2>2 DEF PipelineTypes, SentTypes
<1>2. CASE b # "text"
  <2>1. Respond(r, c, b) /\ held' = held  BY <1>2 DEF Intercept
  <2> QED  BY <1>2, <2>1, Responds DEF PipelineTypes
<1> QED  BY <1>1, <1>2

\* Responses have codes and bodies.
LEMMA Typed ==
  ASSUME NEW S \in [Requests -> {<<>>} \cup {<<a>> : a \in Answers}]
  PROVE  \A r \in Requests : \A i \in DOMAIN S[r] : S[r][i] \in Answers
<1> SUFFICES ASSUME NEW r \in Requests, NEW i \in DOMAIN S[r]
             PROVE  S[r][i] \in Answers
  OBVIOUS
<1>1. CASE S[r] = <<>>  BY <1>1
<1>2. CASE \E a \in Answers : S[r] = <<a>>
  <2>1. PICK a \in Answers : S[r] = <<a>>  BY <1>2
  <2> QED  BY <2>1
<1> QED  BY <1>1, <1>2

\* A response that blames the right one, and is a problem if it has to be, says
\* what it should.
LEMMA Tells ==
  ASSUME NEW r \in Requests, NEW c \in DOMAIN Codes, NEW b \in Bodies,
         [code |-> c, body |-> b] \in Answers, kind' = kind,
         sent'[r] = <<[code |-> c, body |-> b]>>, Blamed(c) = cause'[r],
         kind = "rest" /\ c # "ok" /\ "logger" \in ctx'[r] => b = "problem"
  PROVE  Told(r)'
<1> SUFFICES ASSUME NEW a \in Answers', sent'[r] = <<a>>
             PROVE  /\ Blamed(a.code)' = cause'[r]
                    /\ kind' = "rest" /\ a.code # "ok" /\ "logger" \in ctx'[r] =>
                         a.body = "problem"
  BY DEF Told
<1>1. a = [code |-> c, body |-> b]  BY Single
<1>2. a.code = c /\ a.body = b  BY <1>1
<1> QED  BY <1>2 DEF Blamed

\* So does a request that has no response.
LEMMA Silent == ASSUME NEW r \in Requests, sent'[r] = <<>>  PROVE Told(r)'
BY Single DEF Told

\* A step of a request leaves the others where they are.
LEMMA Others ==
  ASSUME PipelineTypes, SentTypes, NEW r \in Requests, Process(r),
         NEW q \in Requests \ {r}
  PROVE  /\ kind' = kind /\ keyed' = keyed
         /\ stage'[q] = stage[q] /\ op'[q] = op[q] /\ tok'[q] = tok[q]
         /\ ctx'[q] = ctx[q] /\ client'[q] = client[q] /\ fetched'[q] = fetched[q]
         /\ ran'[q] = ran[q] /\ result'[q] = result[q] /\ held'[q] = held[q]
         /\ sent'[q] = sent[q] /\ cause'[q] = cause[q] /\ asked'[q] = asked[q]
<1> USE DEF Go, Blame, Respond, Context, PipelineTypes, SentTypes
<1>0. ASSUME NEW c, NEW b, Intercept(r, c, b)
      PROVE  sent'[q] = sent[q] /\ held'[q] = held[q]
  BY <1>0 DEF Intercept
<1>1. CASE LoggerMiddleware(r) \/ RecoverMiddleware(r) \/ RecoverUnaryServerInterceptor(r)
  BY <1>1 DEF LoggerMiddleware, RecoverMiddleware, RecoverUnaryServerInterceptor
<1>2. CASE ServiceMiddleware(r) \/ BuildServiceFails(r) \/ BuildService(r)
  BY <1>2 DEF ServiceMiddleware, BuildServiceFails, BuildService, NewOutbound
<1>3. CASE Unrouted(r) \/ BadInput(r)
  BY <1>0, <1>3 DEF Unrouted, BadInput
<1>4. CASE AuthMiddleware(r)
  BY <1>0, <1>4 DEF AuthMiddleware
<1>5. CASE Routed(r) \/ GoodInput(r) \/ FetchItemByID(r)
  BY <1>5 DEF Routed, GoodInput, FetchItemByID
<1>6. CASE Handler(r) \/ Panics(r)
  BY <1>6 DEF Handler, Panics
<1>7. CASE Encode(r)
  BY <1>0, <1>7 DEF Encode
<1>8. CASE ErrorFormatMiddleware(r) \/ RequestRestart(r)
  BY <1>8 DEF ErrorFormatMiddleware, RequestRestart
<1> QED  BY <1>1, <1>2, <1>3, <1>4, <1>5, <1>6, <1>7, <1>8 DEF Process

\* A request that nothing happens to, or that the end of the process cuts, stays
\* fine.
LEMMA Stays ==
  ASSUME NEW q \in Requests, Fine(q), stage'[q] \in {stage[q], "cut"},
         kind' = kind, keyed' = keyed,
         op'[q] = op[q], tok'[q] = tok[q],
         ctx'[q] = ctx[q], client'[q] = client[q], fetched'[q] = fetched[q],
         ran'[q] = ran[q], result'[q] = result[q], held'[q] = held[q],
         sent'[q] = sent[q], cause'[q] = cause[q], asked'[q] = asked[q]
  PROVE  Fine(q)'
<1>1. Located(q)' /\ Answered(q)' /\ Carrying(q)'
  BY DEF Fine, Located, Answered, Carrying, Before, Entry, Within
<1>2. Permitted(q)' /\ Returned(q)'
  BY DEF Fine, Permitted, Returned, Before, Entry
<1>3. Blaming(q)'
  BY DEF Fine, Blaming, Blamed
<1>4. Told(q)'
  BY DEF Fine, Told, Blamed, Answers
<1> QED  BY <1>1, <1>2, <1>3, <1>4 DEF Fine

-----------------------------------------------------------------------------
(* One lemma per part of the pipeline: it keeps the types, and the request it   *)
(* has served fine                                                             *)

Kept(r) == PipelineTypes' /\ SentTypes' /\ Fine(r)'

\* A part that answers leaves the request done, or about to ask for a restart.
LEMMA RespondedKeeps ==
  ASSUME PipelineInv, NEW r \in Requests,
         NEW c \in DOMAIN Codes, NEW b \in Bodies, Respond(r, c, b),
         NEW s \in {"done", "restart"}, Go(r, s),
         stage[r] \in {"logger", "build", "encode", "panic"}, kind # "kafka",
         s = "restart" => stage[r] = "panic" /\ ctx'[r] = ctx[r],
         s = "done" => ~ran[r] \/ result[r] # "none",
         kind = "rest" /\ c # "ok" /\ "logger" \in ctx'[r] => b = "problem",
         op' \in [Requests -> Ops \cup {"none"}],
         tok' \in [Requests -> Tokens \cup {"none"}],
         ~ran[r] \/ (op'[r] = op[r] /\ tok'[r] = tok[r]),
         ctx' \in [Requests -> SUBSET {"logger", "repo", "outbound", "token", "user"}],
         cause' \in [Requests -> {"nobody", "client", "server"}], cause'[r] = Blamed(c),
         UNCHANGED <<kind, keyed, client, fetched, ran, result, held, asked>>
  PROVE  Kept(r)
<1>1. PipelineTypes /\ SentTypes /\ Fine(r)  BY DEF PipelineInv
<1>2. sent[r] = <<>> /\ held[r] = "none"
  BY <1>1 DEF Fine, Answered, Before, Entry
<1>3. stage'[r] = s /\ stage' = [stage EXCEPT ![r] = s]
  BY <1>1 DEF Go, PipelineTypes
<1>4. /\ [code |-> c, body |-> b] \in Answers
      /\ sent'[r] = <<[code |-> c, body |-> b]>>
      /\ sent' \in [Requests -> {<<>>} \cup {<<a>> : a \in Answers}]
  BY <1>1, <1>2, Responds
<1>5. PipelineTypes' /\ SentTypes'
  <2>1. \A q \in Requests : \A i \in DOMAIN sent'[q] : sent'[q][i] \in Answers
    BY <1>4, Typed
  <2>2. stage' \in [Requests -> Stages]  BY <1>1, <1>3 DEF PipelineTypes, Stages
  <2>3. PipelineTypes'  BY <1>1, <2>1, <2>2 DEF PipelineTypes, Answers, Stages
  <2>4. SentTypes'  BY <1>1, <1>4 DEF SentTypes, Answers
  <2> QED  BY <2>3, <2>4
<1>6. Told(r)'  BY <1>4, Tells
<1>7. sent'[r] # <<>>  BY <1>4, Single
<1>8. Located(r)' /\ Answered(r)' /\ Carrying(r)'
  BY <1>1, <1>3, <1>7 DEF Fine, Located, Answered, Carrying, Before, Entry, Within
<1>9. Permitted(r)' /\ Returned(r)' /\ Blaming(r)'
  BY <1>1, <1>3 DEF Fine, Permitted, Returned, Blaming, Before, Entry
<1> QED  BY <1>5, <1>6, <1>8, <1>9 DEF Kept, Fine

\* So does a part whose answer goes through the interceptor.
LEMMA InterceptedKeeps ==
  ASSUME PipelineInv, NEW r \in Requests,
         NEW c \in DOMAIN Codes, NEW b \in Bodies, Intercept(r, c, b),
         Go(r, "format"), kind = "rest",
         stage[r] \in {"route", "auth", "input", "encode"},
         b = "text" => c \in {"ErrNotFound", "ErrMethodNotAllowed"},
         c # "ok" => b \in {"text", "problem"},
         tok' \in [Requests -> Tokens \cup {"none"}], ~ran[r] \/ tok'[r] = tok[r],
         ran[r] => result[r] # "none",
         cause' \in [Requests -> {"nobody", "client", "server"}], cause'[r] = Blamed(c),
         UNCHANGED <<kind, keyed, op, ctx, client, fetched, ran, result, asked>>
  PROVE  Kept(r)
<1>1. PipelineTypes /\ SentTypes /\ Fine(r)  BY DEF PipelineInv
<1>2. sent[r] = <<>> /\ held[r] = "none"
  BY <1>1 DEF Fine, Answered, Before, Entry
<1>3. stage'[r] = "format" /\ stage' = [stage EXCEPT ![r] = "format"]
  BY <1>1 DEF Go, PipelineTypes
<1>4. /\ sent' \in [Requests -> {<<>>} \cup {<<a>> : a \in Answers}]
      /\ held' \in [Requests -> {"none", "ErrNotFound", "ErrMethodNotAllowed"}]
      /\ \/ held'[r] = c /\ c # "none" /\ sent'[r] = <<>>
         \/ held'[r] = "none" /\ b # "text" /\ sent'[r] = <<[code |-> c, body |-> b]>>
  BY <1>1, <1>2, Intercepts
<1>5. PipelineTypes' /\ SentTypes'
  <2>1. \A q \in Requests : \A i \in DOMAIN sent'[q] : sent'[q][i] \in Answers
    BY <1>4, Typed
  <2> QED  BY <1>1, <1>3, <1>4, <2>1 DEF PipelineTypes, SentTypes, Answers
<1>6. Told(r)'
  <2>1. CASE sent'[r] = <<>>  BY <2>1, Silent
  <2>2. CASE b # "text" /\ sent'[r] = <<[code |-> c, body |-> b]>>
    <3>1. [code |-> c, body |-> b] \in Answers  BY DEF Answers, Bodies
    <3> QED  BY <2>2, <3>1, Tells
  <2> QED  BY <1>4, <2>1, <2>2
<1>7. sent'[r] = <<>> <=> held'[r] # "none"  BY <1>4, Single
<1>8. Located(r)' /\ Answered(r)' /\ Carrying(r)'
  BY <1>1, <1>3, <1>7 DEF Fine, Located, Answered, Carrying, Before, Entry, Within
<1>9. Permitted(r)' /\ Returned(r)'
  BY <1>1, <1>3 DEF Fine, Permitted, Returned, Before, Entry
<1>10. Blaming(r)'
  BY <1>3, <1>4 DEF Blaming, Blamed
<1> QED  BY <1>5, <1>6, <1>8, <1>9, <1>10 DEF Kept, Fine

\* LoggerMiddleware puts the request's logger into its context.
LEMMA LoggerKeeps ==
  ASSUME PipelineInv, NEW r \in Requests, LoggerMiddleware(r)
  PROVE  Kept(r)
<1>0. PipelineTypes /\ SentTypes /\ Fine(r) /\ stage[r] = "logger"
  BY DEF PipelineInv, LoggerMiddleware
<1>1. ctx[r] = {} /\ sent[r] = <<>> /\ held[r] = "none" /\ ~ran[r]
  BY <1>0 DEF Fine, Carrying, Answered, Returned, Before, Entry
<1>2. CASE Context(r, {"logger"}) /\ Go(r, "service") /\ UNCHANGED <<sent, cause>>
  <2>1. PipelineTypes' /\ SentTypes'
    BY <1>0, <1>2 DEF LoggerMiddleware, Context, Go, PipelineTypes, SentTypes
  <2>2. stage'[r] = "service" /\ ctx'[r] = {"logger"}
    BY <1>0, <1>1, <1>2 DEF Context, Go, PipelineTypes
  <2>3. Fine(r)'
    BY <1>0, <1>1, <1>2, <2>2, Silent DEF LoggerMiddleware, Fine, Located, Answered,
       Carrying, Permitted, Returned, Blaming, Before, Entry, Within
  <2> QED  BY <2>1, <2>3 DEF Kept
<1>3. CASE /\ Respond(r, "ErrInternalServerError", "text") /\ Blame(r, "server")
           /\ Go(r, "done") /\ UNCHANGED ctx
  <2>1. "ErrInternalServerError" \in DOMAIN Codes /\ "text" \in Bodies
    BY CodeNames DEF Bodies
  <2>2. /\ cause' \in [Requests -> {"nobody", "client", "server"}]
        /\ cause'[r] = Blamed("ErrInternalServerError")
    BY <1>0, <1>3, Blames DEF Blame, PipelineTypes
  <2> QED
    BY <1>0, <1>1, <1>3, <2>1, <2>2, RespondedKeeps DEF LoggerMiddleware, PipelineTypes
<1> QED  BY <1>2, <1>3 DEF LoggerMiddleware

\* ServiceMiddleware, and its checks of the context, come before anything is written.
LEMMA ServiceKeeps ==
  ASSUME PipelineInv, NEW r \in Requests, ServiceMiddleware(r)
  PROVE  Kept(r)
<1>0. PipelineTypes /\ SentTypes /\ Fine(r) /\ stage[r] = "service"
  BY DEF PipelineInv, ServiceMiddleware
<1>1. PipelineTypes' /\ SentTypes'
  BY <1>0 DEF ServiceMiddleware, Context, NewOutbound, Go, PipelineTypes, SentTypes
<1>2. /\ stage'[r] = "route" /\ client'[r] = {r} /\ kind = "rest"
      /\ {"logger", "repo", "outbound", "token"} \subseteq ctx'[r]
  BY <1>0 DEF ServiceMiddleware, Context, NewOutbound, Go, PipelineTypes, Fine, Carrying
<1>3. Fine(r)'
  BY <1>0, <1>2, Silent DEF ServiceMiddleware, Fine, Located, Answered,
       Carrying, Permitted, Returned, Blaming, Before, Entry, Within
<1> QED  BY <1>1, <1>3 DEF Kept

\* The router's own answers for unknown routes and methods are held back.
LEMMA UnroutedKeeps ==
  ASSUME PipelineInv, NEW r \in Requests, Unrouted(r)
  PROVE  Kept(r)
<1>1. PipelineTypes /\ Fine(r) /\ stage[r] = "route"
  BY DEF PipelineInv, Unrouted
<1>2. ~ran[r]  BY <1>1 DEF Fine, Returned, Before
<1>3. PICK c \in {"ErrNotFound", "ErrMethodNotAllowed"} : Intercept(r, c, "text")
  BY DEF Unrouted
<1>4. c \in DOMAIN Codes /\ "text" \in Bodies  BY CodeNames DEF Bodies
<1>5. /\ cause' \in [Requests -> {"nobody", "client", "server"}]
      /\ cause'[r] = Blamed(c)
  BY <1>1, <1>4, Blames DEF Unrouted, Blame, PipelineTypes
<1> QED
  BY <1>1, <1>2, <1>3, <1>4, <1>5, InterceptedKeeps DEF Unrouted, PipelineTypes

\* A request that is routed has not been answered.
LEMMA RoutedKeeps ==
  ASSUME PipelineInv, NEW r \in Requests, Routed(r)
  PROVE  Kept(r)
<1>1. PipelineTypes /\ SentTypes /\ Fine(r) /\ stage[r] = "route" /\ kind = "rest"
  BY DEF PipelineInv, Routed
<1>2. PICK o \in Ops : /\ op' = [op EXCEPT ![r] = o]
                       /\ Go(r, IF o \in ItemOps THEN "auth" ELSE "input")
  BY DEF Routed
<1>3. /\ op'[r] = o
      /\ stage'[r] = IF o \in ItemOps THEN "auth" ELSE "input"
  BY <1>1, <1>2 DEF Go, PipelineTypes
<1>4. PipelineTypes' /\ SentTypes'
  <2>1. stage' \in [Requests -> Stages] /\ op' \in [Requests -> Ops \cup {"none"}]
    BY <1>1, <1>2 DEF Go, PipelineTypes, Stages
  <2> QED  BY <1>1, <2>1 DEF Routed, PipelineTypes, SentTypes, Stages
<1>5. Fine(r)'
  <2>1. Located(r)' /\ Answered(r)'
    BY <1>1, <1>3 DEF Routed, Fine, Located, Answered, Before, Entry
  <2>2. Carrying(r)'
    BY <1>1, <1>3 DEF Routed, Fine, Carrying, Within
  <2>3. Permitted(r)' /\ Returned(r)' /\ Blaming(r)'
    BY <1>1, <1>3 DEF Routed, Fine, Permitted, Returned, Blaming, Before, Entry
  <2>4. Told(r)'
    BY <1>1, Silent DEF Routed, Fine, Answered, Before
  <2> QED  BY <2>1, <2>2, <2>3, <2>4 DEF Fine
<1> QED  BY <1>4, <1>5 DEF Kept

\* AuthMiddleware lets only valid tokens through.
LEMMA AuthKeeps ==
  ASSUME PipelineInv, NEW r \in Requests, AuthMiddleware(r)
  PROVE  Kept(r)
<1>1. PipelineTypes /\ SentTypes /\ Fine(r) /\ stage[r] = "auth" /\ kind = "rest"
  BY DEF PipelineInv, AuthMiddleware
<1>2. ~ran[r]  BY <1>1 DEF Fine, Returned, Before
<1>3. PICK t \in Tokens :
        /\ tok' = [tok EXCEPT ![r] = t]
        /\ IF Parsed(t) = "ok"
           THEN Context(r, {"user"}) /\ Go(r, "input") /\ UNCHANGED <<held, sent, cause>>
           ELSE /\ Intercept(r, Parsed(t), "problem")
                /\ Blame(r, "client")
                /\ Go(r, "format")
                /\ UNCHANGED ctx
  BY DEF AuthMiddleware
<1>4. tok'[r] = t /\ tok' \in [Requests -> Tokens \cup {"none"}]
  BY <1>1, <1>3 DEF PipelineTypes
<1>5. CASE Parsed(t) = "ok"
  <2>1. keyed /\ t = "valid"  BY <1>5, Parses
  <2>2. /\ stage'[r] = "input" /\ ctx'[r] = ctx[r] \cup {"user"}
    BY <1>1, <1>3, <1>5 DEF Context, Go, PipelineTypes
  <2>3. PipelineTypes' /\ SentTypes'
    BY <1>1, <1>3, <1>4, <1>5 DEF AuthMiddleware, Context, Go, PipelineTypes, SentTypes
  <2>4. Fine(r)'
    BY <1>1, <1>2, <1>3, <1>4, <1>5, <2>1, <2>2, Silent DEF AuthMiddleware, Fine, Located,
       Answered, Carrying, Permitted, Returned, Blaming, Before, Entry, Within
  <2> QED  BY <2>3, <2>4 DEF Kept
<1>6. CASE Parsed(t) # "ok"
  <2>1. Parsed(t) \in DOMAIN Codes /\ "problem" \in Bodies  BY Parses DEF Bodies
  <2>2. /\ cause' \in [Requests -> {"nobody", "client", "server"}]
        /\ cause'[r] = Blamed(Parsed(t))
    BY <1>1, <1>3, <1>6, Parses, Blames DEF Blame, PipelineTypes
  <2> QED
    BY <1>1, <1>2, <1>3, <1>4, <1>6, <2>1, <2>2, InterceptedKeeps DEF AuthMiddleware
<1> QED  BY <1>5, <1>6

\* Malformed input is the client's fault.
LEMMA BadInputKeeps ==
  ASSUME PipelineInv, NEW r \in Requests, BadInput(r)
  PROVE  Kept(r)
<1>1. PipelineTypes /\ Fine(r) /\ stage[r] = "input"
  BY DEF PipelineInv, BadInput
<1>2. ~ran[r] /\ kind = "rest"  BY <1>1 DEF Fine, Returned, Located, Before
<1>3. "ErrPayloadError" \in DOMAIN Codes /\ "problem" \in Bodies
  BY CodeNames DEF Bodies
<1>4. /\ cause' \in [Requests -> {"nobody", "client", "server"}]
      /\ cause'[r] = Blamed("ErrPayloadError")
  BY <1>1, <1>3, Blames DEF BadInput, Blame, PipelineTypes
<1> QED
  BY <1>1, <1>2, <1>3, <1>4, InterceptedKeeps DEF BadInput, PipelineTypes

\* Input that is in order goes on to the service.
LEMMA GoodInputKeeps ==
  ASSUME PipelineInv, NEW r \in Requests, GoodInput(r)
  PROVE  Kept(r)
<1>1. PipelineTypes /\ SentTypes /\ Fine(r) /\ stage[r] = "input"
  BY DEF PipelineInv, GoodInput
<1>2. kind = "rest" /\ {"repo", "outbound", "logger"} \subseteq ctx[r]
  BY <1>1 DEF Fine, Located, Carrying, Within
<1>3. Go(r, IF op[r] = "update" THEN "fetch" ELSE "handler") /\ result' = result
  BY <1>2 DEF GoodInput
<1>4. stage'[r] \in {"fetch", "handler"} /\ stage' \in [Requests -> Stages]
  BY <1>1, <1>3 DEF Go, PipelineTypes, Stages
<1>5. PipelineTypes' /\ SentTypes'
  BY <1>1, <1>3, <1>4 DEF GoodInput, PipelineTypes, SentTypes, Stages
<1>6. Fine(r)'
  <2>1. Located(r)' /\ Answered(r)' /\ Carrying(r)'
    BY <1>1, <1>2, <1>4 DEF GoodInput, Fine, Located, Answered, Carrying, Before, Entry, Within
  <2>2. Permitted(r)' /\ Returned(r)' /\ Blaming(r)'
    BY <1>1, <1>3, <1>4 DEF GoodInput, Fine, Permitted, Returned, Blaming, Before, Entry
  <2>3. Told(r)'
    BY <1>1, Silent DEF GoodInput, Fine, Answered, Before
  <2> QED  BY <2>1, <2>2, <2>3 DEF Fine
<1> QED  BY <1>5, <1>6 DEF Kept

\* A gRPC call that no service can be built for is answered with a status.
LEMMA BuildFailsKeeps ==
  ASSUME PipelineInv, NEW r \in Requests, BuildServiceFails(r)
  PROVE  Kept(r)
<1>1. PipelineTypes /\ Fine(r) /\ stage[r] = "build" /\ kind = "grpc"
  BY DEF PipelineInv, BuildServiceFails
<1>2. ~ran[r]  BY <1>1 DEF Fine, Returned, Before, Entry
<1>3. "ErrInternalServerError" \in DOMAIN Codes /\ "status" \in Bodies
  BY CodeNames DEF Bodies
<1>4. /\ cause' \in [Requests -> {"nobody", "client", "server"}]
      /\ cause'[r] = Blamed("ErrInternalServerError")
  BY <1>1, Blames DEF BuildServiceFails, Blame, PipelineTypes
<1> QED
  BY <1>1, <1>2, <1>3, <1>4, RespondedKeeps DEF BuildServiceFails, PipelineTypes

\* buildService gives a gRPC call what the middlewares give a REST request.
LEMMA BuildKeeps ==
  ASSUME PipelineInv, NEW r \in Requests, BuildService(r)
  PROVE  Kept(r)
<1>1. PipelineTypes /\ SentTypes /\ Fine(r) /\ stage[r] = "build" /\ kind = "grpc"
  BY DEF PipelineInv, BuildService
<1>2. ~ran[r]  BY <1>1 DEF Fine, Returned, Before, Entry
<1>3. PICK t \in Tokens, o \in Ops \cap ItemOps :
        /\ tok' = [tok EXCEPT ![r] = t]
        /\ op' = [op EXCEPT ![r] = o]
        /\ IF Parsed(t) = "ok"
           THEN /\ Context(r, {"logger", "user", "token"})
                /\ NewOutbound(r)
                /\ Go(r, IF o = "update" THEN "fetch" ELSE "handler")
                /\ UNCHANGED <<sent, cause>>
           ELSE /\ Context(r, {"logger"})
                /\ Respond(r, "ErrInvalidToken", "status")
                /\ Blame(r, "client")
                /\ Go(r, "done")
                /\ UNCHANGED client
  BY DEF BuildService
<1>4. /\ tok'[r] = t /\ tok' \in [Requests -> Tokens \cup {"none"}]
      /\ op'[r] = o /\ op' \in [Requests -> Ops \cup {"none"}]
  BY <1>1, <1>3 DEF PipelineTypes
<1>5. CASE Parsed(t) = "ok"
  <2>1. keyed /\ t = "valid"  BY <1>5, Parses
  <2>2. /\ stage'[r] \in {"fetch", "handler"} /\ stage' \in [Requests -> Stages]
        /\ client'[r] = {r} /\ {"logger", "token"} \subseteq ctx'[r]
    BY <1>1, <1>3, <1>5 DEF Context, NewOutbound, Go, PipelineTypes, Stages
  <2>3. PipelineTypes' /\ SentTypes'
    <3>1. /\ ctx' \in [Requests -> SUBSET {"logger", "repo", "outbound", "token", "user"}]
          /\ client' \in [Requests -> SUBSET Requests]
      BY <1>1, <1>3, <1>5 DEF Context, NewOutbound, PipelineTypes
    <3>2. UNCHANGED <<kind, keyed, fetched, ran, result, held, sent, cause, asked>>
      BY <1>3, <1>5 DEF BuildService
    <3> QED  BY <1>1, <1>4, <2>2, <3>1, <3>2 DEF PipelineTypes, SentTypes, Stages
  <2>4. Located(r)' /\ Answered(r)' /\ Carrying(r)'
    BY <1>1, <1>3, <1>5, <2>2 DEF BuildService, Fine, Located, Answered, Carrying,
       Before, Entry, Within
  <2>5. Permitted(r)' /\ Returned(r)' /\ Blaming(r)'
    BY <1>1, <1>2, <1>4, <2>1, <2>2 DEF BuildService, Fine, Permitted, Returned, Blaming,
       Before, Entry
  <2>6. Told(r)'
    BY <1>1, <1>3, <1>5, Silent DEF Fine, Answered, Before, Entry
  <2> QED  BY <2>3, <2>4, <2>5, <2>6 DEF Kept, Fine
<1>6. CASE Parsed(t) # "ok"
  <2>1. "ErrInvalidToken" \in DOMAIN Codes /\ "status" \in Bodies
    BY CodeNames DEF Bodies
  <2>2. /\ cause' \in [Requests -> {"nobody", "client", "server"}]
        /\ cause'[r] = Blamed("ErrInvalidToken")
    BY <1>1, <1>3, <1>6, <2>1, Blames DEF Blame, PipelineTypes
  <2>3. ctx' \in [Requests -> SUBSET {"logger", "repo", "outbound", "token", "user"}]
    BY <1>1, <1>3, <1>6 DEF Context, PipelineTypes
  <2> QED
    BY <1>1, <1>2, <1>3, <1>4, <1>6, <2>1, <2>2, <2>3, RespondedKeeps DEF BuildService
<1> QED  BY <1>5, <1>6

\* What the external service answers makes no difference.
LEMMA FetchKeeps ==
  ASSUME PipelineInv, NEW r \in Requests, FetchItemByID(r)
  PROVE  Kept(r)
<1>1. PipelineTypes /\ SentTypes /\ Fine(r) /\ stage[r] = "fetch"
  BY DEF PipelineInv, FetchItemByID
<1>2. Go(r, "handler") /\ result' = [result EXCEPT ![r] = result[r]]
  BY DEF FetchItemByID, AfterFetch
<1>3. /\ stage'[r] = "handler" /\ stage' \in [Requests -> Stages]
      /\ result' = result
  BY <1>1, <1>2 DEF Go, PipelineTypes, Stages
<1>4. Headers(r) = {<<r, r>>}
  BY <1>1 DEF Headers, Fine, Carrying, Within
<1>5. fetched' = [fetched EXCEPT ![r] = {<<r, r>>}]
  BY <1>4 DEF FetchItemByID
<1>6. /\ fetched'[r] = {<<r, r>>}
      /\ fetched' \in [Requests -> SUBSET ((Requests \cup {"nobody"}) \X Requests)]
  BY <1>1, <1>5 DEF SentTypes
<1>7. PipelineTypes' /\ SentTypes'
  BY <1>1, <1>3, <1>6 DEF FetchItemByID, PipelineTypes, SentTypes, Stages
<1>8. Located(r)' /\ Answered(r)' /\ Carrying(r)'
  BY <1>1, <1>3, <1>6 DEF FetchItemByID, Fine, Located, Answered, Carrying, Before,
     Entry, Within
<1>9. Permitted(r)' /\ Returned(r)' /\ Blaming(r)'
  BY <1>1, <1>3 DEF FetchItemByID, Fine, Permitted, Returned, Blaming, Before, Entry
<1>10. Told(r)'
  BY <1>1, Silent DEF FetchItemByID, Fine, Answered, Before
<1> QED  BY <1>7, <1>8, <1>9, <1>10 DEF Kept, Fine

\* The service returns a result that says whose fault an error is.
LEMMA HandlerKeeps ==
  ASSUME PipelineInv, NEW r \in Requests, Handler(r)
  PROVE  Kept(r)
<1>1. PipelineTypes /\ SentTypes /\ Fine(r) /\ stage[r] = "handler"
  BY DEF PipelineInv, Handler
<1>2. PICK c \in {"ok"} \cup ClientErrors(op[r]) \cup ServerErrors(op[r]) :
        /\ result' = [result EXCEPT ![r] = c]
        /\ Blame(r, IF c = "ok" THEN "nobody"
                    ELSE IF c \in ClientErrors(op[r]) THEN "client" ELSE "server")
  BY DEF Handler
<1>3. /\ ClientErrors(op[r]) \subseteq DOMAIN Codes \ {"ok", "ErrInternalServerError"}
      /\ ServerErrors(op[r]) \subseteq {"ErrInternalServerError"}
  BY CodeNames DEF ClientErrors, ServerErrors
<1>4. c \in DOMAIN Codes  BY <1>2, <1>3, CodeNames
<1>5. /\ stage'[r] = "encode" /\ stage' \in [Requests -> Stages]
      /\ ran'[r] = TRUE /\ ran' \in [Requests -> BOOLEAN]
  BY <1>1 DEF Handler, Go, PipelineTypes, Stages
<1>6. /\ result'[r] = c /\ result' \in [Requests -> DOMAIN Codes \cup {"none"}]
  BY <1>1, <1>2, <1>4 DEF PipelineTypes
<1>7. /\ cause'[r] = Blamed(c) /\ cause' \in [Requests -> {"nobody", "client", "server"}]
  <2>1. CASE c = "ok"  BY <1>1, <1>2, <2>1, Blames DEF Blame, PipelineTypes
  <2>2. CASE c \in ClientErrors(op[r])
    <3>1. c # "ok" /\ Blamed(c) = "client"  BY <1>3, <2>2, Blames
    <3> QED  BY <1>1, <1>2, <2>2, <3>1 DEF Blame, PipelineTypes
  <2>3. CASE c = "ErrInternalServerError"
    BY <1>1, <1>2, <1>3, <2>3, Blames DEF Blame, PipelineTypes
  <2> QED  BY <1>2, <1>3, <2>1, <2>2, <2>3
<1>8. PipelineTypes' /\ SentTypes'
  BY <1>1, <1>5, <1>6, <1>7 DEF Handler, PipelineTypes, SentTypes, Stages
<1>9. Located(r)' /\ Answered(r)' /\ Carrying(r)'
  BY <1>1, <1>5 DEF Handler, Fine, Located, Answered, Carrying, Before, Entry, Within
<1>10. Permitted(r)' /\ Returned(r)'
  BY <1>1, <1>4, <1>5, <1>6, CodeNames DEF Handler, Fine, Permitted, Returned, Before, Entry
<1>11. Blaming(r)'
  BY <1>5, <1>6, <1>7 DEF Handler, Blaming, Blamed
<1>12. Told(r)'
  BY <1>1, Silent DEF Handler, Fine, Answered, Before
<1> QED  BY <1>8, <1>9, <1>10, <1>11, <1>12 DEF Kept, Fine

\* A panic unwinds before anything was written.
LEMMA PanicsKeeps ==
  ASSUME PipelineInv, NEW r \in Requests, Panics(r)
  PROVE  Kept(r)
<1>1. PipelineTypes /\ SentTypes /\ Fine(r) /\ stage[r] = "handler"
  BY DEF PipelineInv, Panics
<1>2. /\ stage'[r] = "panic" /\ stage' \in [Requests -> Stages]
      /\ ran'[r] = TRUE /\ ran' \in [Requests -> BOOLEAN]
      /\ cause'[r] = "server" /\ cause' \in [Requests -> {"nobody", "client", "server"}]
  BY <1>1 DEF Panics, Go, Blame, PipelineTypes, Stages
<1>3. PipelineTypes' /\ SentTypes'
  BY <1>1, <1>2 DEF Panics, PipelineTypes, SentTypes, Stages
<1>4. Located(r)' /\ Answered(r)' /\ Carrying(r)'
  BY <1>1, <1>2 DEF Panics, Fine, Located, Answered, Carrying, Before, Entry, Within
<1>5. Permitted(r)' /\ Returned(r)' /\ Blaming(r)'
  BY <1>1, <1>2 DEF Panics, Fine, Permitted, Returned, Blaming, Before, Entry
<1>6. Told(r)'
  BY <1>1, Silent DEF Panics, Fine, Answered, Before
<1> QED  BY <1>3, <1>4, <1>5, <1>6 DEF Kept, Fine

\* A result is written as it is, or held back as an error.
LEMMA EncodeKeeps ==
  ASSUME PipelineInv, NEW r \in Requests, Encode(r)
  PROVE  Kept(r)
<1>1. PipelineTypes /\ Fine(r) /\ stage[r] = "encode"
  BY DEF PipelineInv, Encode
<1>2. kind # "kafka" /\ result[r] \in DOMAIN Codes /\ cause[r] = Blamed(result[r])
  BY <1>1 DEF Fine, Located, Returned, Blaming
<1>3. result[r] # "none"  BY <1>2, CodeNames
<1>4. CASE kind = "rest"
  <2>1. PICK b \in {"json", "problem"} :
          Intercept(r, result[r], b) /\ (result[r] # "ok" => b = "problem")
    BY <1>4 DEF Encode
  <2>2. b \in Bodies  BY DEF Bodies
  <2>3. Go(r, "format")  BY <1>4 DEF Encode
  <2>4. UNCHANGED <<kind, keyed, op, tok, ctx, client, fetched, ran, result, cause, asked>>
    BY DEF Encode
  <2> QED
    BY <1>1, <1>2, <1>3, <1>4, <2>1, <2>2, <2>3, <2>4, InterceptedKeeps
       DEF PipelineTypes
<1>5. CASE kind # "rest"
  <2>1. "status" \in Bodies  BY DEF Bodies
  <2> QED
    BY <1>1, <1>2, <1>3, <1>5, <2>1, RespondedKeeps DEF Encode, PipelineTypes
<1> QED  BY <1>4, <1>5

\* What was held back is written, and nothing is added to what was not.
LEMMA FormatKeeps ==
  ASSUME PipelineInv, NEW r \in Requests, ErrorFormatMiddleware(r)
  PROVE  Kept(r)
<1>1. PipelineTypes /\ SentTypes /\ Fine(r) /\ stage[r] = "format" /\ kind = "rest"
  BY DEF PipelineInv, ErrorFormatMiddleware, Fine, Located
<1>2. stage'[r] = "done" /\ stage' \in [Requests -> Stages]
  BY <1>1 DEF ErrorFormatMiddleware, Go, PipelineTypes, Stages
<1>3. /\ sent' \in [Requests -> {<<>>} \cup {<<a>> : a \in Answers}]
      /\ sent'[r] # <<>> /\ Told(r)'
  <2>1. CASE held[r] = "none"
    <3>1. sent' = sent /\ sent[r] # <<>>
      BY <1>1, <2>1 DEF ErrorFormatMiddleware, Fine, Answered
    <3>2. Told(r)'
      BY <1>1, <3>1 DEF ErrorFormatMiddleware, Fine, Told, Blamed
    <3> QED  BY <1>1, <3>1, <3>2 DEF SentTypes
  <2>2. CASE held[r] # "none"
    <3>1. Respond(r, held[r], "problem") /\ sent[r] = <<>> /\ Blamed(held[r]) = cause[r]
      BY <1>1, <2>2 DEF ErrorFormatMiddleware, Fine, Answered, Blaming
    <3>2. held[r] \in DOMAIN Codes /\ "problem" \in Bodies
      BY <1>1, <2>2, CodeNames DEF PipelineTypes, Bodies
    <3>3. /\ [code |-> held[r], body |-> "problem"] \in Answers
          /\ sent'[r] = <<[code |-> held[r], body |-> "problem"]>>
          /\ sent' \in [Requests -> {<<>>} \cup {<<a>> : a \in Answers}]
      BY <1>1, <3>1, <3>2, Responds
    <3>4. cause'[r] = cause[r] /\ kind' = kind  BY DEF ErrorFormatMiddleware
    <3>5. Told(r)'  BY <3>1, <3>2, <3>3, <3>4, Tells
    <3> QED  BY <3>3, <3>5, Single
  <2> QED  BY <2>1, <2>2
<1>4. PipelineTypes' /\ SentTypes'
  <2>1. \A q \in Requests : \A i \in DOMAIN sent'[q] : sent'[q][i] \in Answers
    BY <1>3, Typed
  <2>2. PipelineTypes'
    BY <1>1, <1>2, <2>1 DEF ErrorFormatMiddleware, PipelineTypes, Answers, Stages
  <2>3. SentTypes'
    BY <1>1, <1>3 DEF ErrorFormatMiddleware, SentTypes, Answers
  <2> QED  BY <2>2, <2>3
<1>5. Located(r)' /\ Answered(r)' /\ Carrying(r)'
  BY <1>1, <1>2, <1>3 DEF ErrorFormatMiddleware, Fine, Located, Answered, Carrying,
     Before, Entry, Within
<1>6. Permitted(r)' /\ Returned(r)' /\ Blaming(r)'
  BY <1>1, <1>2 DEF ErrorFormatMiddleware, Fine, Permitted, Returned, Blaming, Before,
     Entry
<1> QED  BY <1>3, <1>4, <1>5, <1>6 DEF Kept, Fine

\* The recovery answers for the part that panicked.
LEMMA RecoverKeeps ==
  ASSUME PipelineInv, NEW r \in Requests,
         RecoverMiddleware(r) \/ RecoverUnaryServerInterceptor(r)
  PROVE  Kept(r)
<1>1. PipelineTypes /\ Fine(r) /\ stage[r] = "panic" /\ kind # "kafka"
  BY DEF PipelineInv, RecoverMiddleware, RecoverUnaryServerInterceptor
<1>2. cause[r] = Blamed("ErrInternalServerError")
  BY <1>1, Blames DEF Fine, Blaming
<1>3. PICK b \in {"problem", "status"} :
        /\ Respond(r, "ErrInternalServerError", b)
        /\ kind = "rest" => b = "problem"
  BY DEF RecoverMiddleware, RecoverUnaryServerInterceptor
<1>4. "ErrInternalServerError" \in DOMAIN Codes /\ b \in Bodies
  BY CodeNames DEF Bodies
<1>5. /\ Go(r, "restart")
      /\ UNCHANGED <<kind, keyed, op, tok, ctx, client, fetched, ran, result, held,
                     cause, asked>>
  BY DEF RecoverMiddleware, RecoverUnaryServerInterceptor
<1> QED
  BY <1>1, <1>2, <1>3, <1>4, <1>5, RespondedKeeps DEF PipelineTypes

\* It asks for the restart once it has answered.
LEMMA RestartKeeps ==
  ASSUME PipelineInv, NEW r \in Requests, RequestRestart(r)
  PROVE  Kept(r)
<1>1. PipelineTypes /\ SentTypes /\ Fine(r) /\ stage[r] = "restart"
  BY DEF PipelineInv, RequestRestart
<1>2. /\ stage'[r] = "done" /\ stage' \in [Requests -> Stages]
      /\ asked'[r] = TRUE /\ asked' \in [Requests -> BOOLEAN]
  BY <1>1 DEF RequestRestart, Go, PipelineTypes, Stages
<1>3. PipelineTypes' /\ SentTypes'
  BY <1>1, <1>2 DEF RequestRestart, PipelineTypes, SentTypes, Stages
<1>4. Located(r)' /\ Answered(r)' /\ Carrying(r)'
  BY <1>1, <1>2 DEF RequestRestart, Fine, Located, Answered, Carrying, Before, Entry, Within
<1>5. Permitted(r)' /\ Returned(r)' /\ Blaming(r)'
  BY <1>1, <1>2 DEF RequestRestart, Fine, Permitted, Returned, Blaming, Before, Entry
<1>6. Told(r)'
  BY <1>1 DEF RequestRestart, Fine, Told, Blamed
<1> QED  BY <1>3, <1>4, <1>5, <1>6 DEF Kept, Fine

-----------------------------------------------------------------------------
(* The pipeline as a whole *)

\* Whatever part has a request, its step keeps the invariant of all requests.
LEMMA ProcessKeeps ==
  ASSUME PipelineInv, NEW r \in Requests, Process(r)
  PROVE  PipelineInv'
<1>1. Kept(r)
  BY LoggerKeeps, ServiceKeeps, UnroutedKeeps, RoutedKeeps, AuthKeeps, BadInputKeeps,
     GoodInputKeeps, BuildFailsKeeps, BuildKeeps, FetchKeeps, HandlerKeeps, PanicsKeeps,
     EncodeKeeps, FormatKeeps, RecoverKeeps, RestartKeeps DEF Process
<1>2. ASSUME NEW q \in Requests \ {r}  PROVE Fine(q)'
  BY <1>2, Others, Stays DEF PipelineInv
<1> QED  BY <1>1, <1>2 DEF Kept, PipelineInv

\* Before a request comes there is nothing to be wrong about it.
LEMMA InitKeeps ==
  ASSUME kind \in {"rest", "grpc", "kafka"}, keyed \in BOOLEAN, InitPipeline
  PROVE  PipelineInv
<1>1. PipelineTypes  BY DEF InitPipeline, PipelineTypes
<1>2. SentTypes  BY DEF InitPipeline, SentTypes
<1>3. ASSUME NEW r \in Requests  PROVE Fine(r)
  <2>1. /\ stage[r] = "none" /\ sent[r] = <<>> /\ held[r] = "none" /\ ctx[r] = {}
        /\ fetched[r] = {} /\ ran[r] = FALSE
    BY DEF InitPipeline
  <2>2. Located(r) /\ Answered(r) /\ Carrying(r)
    BY <2>1 DEF Located, Answered, Carrying, Within
  <2>3. Permitted(r) /\ Returned(r) /\ Blaming(r)
    BY <2>1 DEF Permitted, Returned, Blaming
  <2>4. Told(r)  BY <2>1, Single DEF Told
  <2> QED  BY <2>2, <2>3, <2>4 DEF Fine
<1> QED  BY <1>1, <1>2, <1>3 DEF PipelineInv

\* A response is the first of its request, and one of the answers.
LEMMA Only ==
  ASSUME PipelineInv, NEW r \in Requests
  PROVE  /\ sent[r] = <<>> => Len(sent[r]) = 0 /\ DOMAIN sent[r] = {}
         /\ sent[r] # <<>> => /\ Len(sent[r]) = 1 /\ DOMAIN sent[r] = {1}
                              /\ sent[r][1] \in Answers /\ sent[r] = <<sent[r][1]>>
<1>1. CASE sent[r] = <<>>  BY <1>1
<1>2. CASE \E a \in Answers : sent[r] = <<a>>
  <2>1. PICK a \in Answers : sent[r] = <<a>>  BY <1>2
  <2>2. sent[r][1] = a /\ Len(sent[r]) = 1 /\ DOMAIN sent[r] = {1} /\ sent[r] # <<>>
    BY <2>1, Single
  <2> QED  BY <2>1, <2>2
<1> QED  BY <1>1, <1>2 DEF PipelineInv, SentTypes

\* What the runs check of every request follows from its being fine.
LEMMA Properties ==
  PipelineInv => /\ OneResponse /\ Problems /\ RightBlame
                 /\ Authenticated /\ OwnIdentity /\ PanicRestarts
<1> SUFFICES ASSUME PipelineInv
             PROVE  /\ OneResponse /\ Problems /\ RightBlame
                    /\ Authenticated /\ OwnIdentity /\ PanicRestarts
  OBVIOUS
<1>1. \A r \in Requests : Fine(r)  BY DEF PipelineInv
<1>2. ASSUME NEW r \in Requests
      PROVE  /\ stage[r] = "done" /\ kind # "kafka" => Len(sent[r]) = 1
             /\ Len(sent[r]) <= 1
  <2> DEFINE n == Len(sent[r])
  <2>1. n \in {0, 1} /\ (sent[r] # <<>> => n = 1)
    BY Only
  <2>2. stage[r] = "done" /\ kind # "kafka" => sent[r] # <<>>
    BY <1>1 DEF Fine, Answered
  <2> HIDE DEF n
  <2>3. n <= 1  BY <2>1
  <2>4. stage[r] = "done" /\ kind # "kafka" => n = 1  BY <2>1, <2>2
  <2> QED  BY <2>3, <2>4 DEF n
<1>9. OneResponse  BY <1>2 DEF OneResponse
<1>3. ASSUME NEW r \in Requests, NEW i \in DOMAIN sent[r]
      PROVE  /\ Blamed(sent[r][i].code) = cause[r]
             /\ kind = "rest" /\ sent[r][i].code # "ok" /\ "logger" \in ctx[r] =>
                  sent[r][i].body = "problem"
  <2>1. i = 1 /\ sent[r][i] \in Answers /\ sent[r] = <<sent[r][i]>>
    BY <1>3, Only
  <2> QED  BY <1>1, <2>1 DEF Fine, Told
<1>4. Problems  BY <1>3 DEF Problems
<1>8. RightBlame  BY <1>3 DEF RightBlame
<1>5. Authenticated  BY <1>1 DEF Authenticated, Fine, Permitted
<1>6. OwnIdentity  BY <1>1 DEF OwnIdentity, Fine, Carrying
<1>7. PanicRestarts  BY <1>1 DEF PanicRestarts, Fine, Returned
<1> QED  BY <1>4, <1>5, <1>6, <1>7, <1>8, <1>9
=============================================================================
