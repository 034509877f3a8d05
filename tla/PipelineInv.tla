------------------------------ MODULE PipelineInv ------------------------------
(* What holds of a request in every part of the program that may have it: the  *)
(* inductive invariant behind Pipeline_proofs and Server_proofs, in a module   *)
(* TLC can check too.                                                          *)
EXTENDS Pipeline

Answers == [code : DOMAIN Codes, body : {"text", "json", "problem", "status"}]

\* At most one response is written, and what is fetched is a set of headers.
SentTypes ==
  /\ sent \in [Requests -> {<<>>} \cup {<<a>> : a \in Answers}]
  /\ fetched \in [Requests -> SUBSET ((Requests \cup {"nobody"}) \X Requests)]

\* The stages a request has before it is routed and authenticated, before the
\* service is called for it, and while a service may be built for it.
Entry == {"none", "logger", "service", "build", "message"}
Before == Entry \cup {"route", "auth", "input", "fetch", "handler"}
Within == {"route", "auth", "input", "fetch", "handler", "encode", "format",
           "panic", "restart"}

\* Every front end has its own way in, and only items go through authentication.
Located(r) ==
  /\ stage[r] \in {"logger", "service", "route", "auth", "input", "format"} => kind = "rest"
  /\ stage[r] = "build" => kind = "grpc"
  /\ stage[r] = "message" => kind = "kafka"
  /\ kind = "kafka" => stage[r] \in {"none", "message", "done", "cut"}
  /\ stage[r] = "auth" => op[r] \in ItemOps

\* Nothing is written before the result, the refusal or the panic; after it one
\* response is written or held back, never both.
Answered(r) ==
  /\ stage[r] \in Before \cup {"encode", "panic"} => sent[r] = <<>> /\ held[r] = "none"
  /\ stage[r] = "format" => (sent[r] = <<>> <=> held[r] # "none")
  /\ stage[r] = "restart" => sent[r] # <<>>
  /\ stage[r] = "done" /\ kind # "kafka" => sent[r] # <<>>

\* The context grows on the way in, and with it the clients of the request.
Carrying(r) ==
  /\ stage[r] \in {"none", "logger"} => ctx[r] = {}
  /\ stage[r] = "service" => "logger" \in ctx[r]
  /\ stage[r] \in Within => {"logger", "token"} \subseteq ctx[r] /\ client[r] = {r}
  /\ stage[r] \in Within /\ kind = "rest" => {"repo", "outbound"} \subseteq ctx[r]
  /\ fetched[r] \subseteq {<<r, r>>}

\* Behind authentication an operation on items has a valid token.
Permitted(r) ==
  /\ stage[r] \in {"input", "fetch", "handler"} /\ op[r] \in ItemOps =>
       keyed /\ tok[r] = "valid"
  /\ ran[r] /\ op[r] \in ItemOps => keyed /\ tok[r] = "valid"

\* A request that has not come to its service has no result; one that has, and
\* no result, is panicking or has asked for a restart.
Returned(r) ==
  /\ stage[r] \in Before => ~ran[r]
  /\ stage[r] = "encode" => result[r] \in DOMAIN Codes
  /\ stage[r] = "format" /\ ran[r] => result[r] # "none"
  /\ stage[r] = "done" /\ ran[r] /\ result[r] = "none" => asked[r]

\* What is to be answered blames whoever is at fault ...
Blaming(r) ==
  /\ stage[r] = "encode" => Blamed(result[r]) = cause[r]
  /\ stage[r] = "panic" => cause[r] = "server"
  /\ stage[r] = "format" /\ held[r] # "none" => Blamed(held[r]) = cause[r]

\* ... and so does an answer, which is a problem if it is an error.
Told(r) == \A a \in Answers : sent[r] = <<a>> =>
  /\ Blamed(a.code) = cause[r]
  /\ kind = "rest" /\ a.code # "ok" /\ "logger" \in ctx[r] => a.body = "problem"

Fine(r) == Located(r) /\ Answered(r) /\ Carrying(r) /\ Permitted(r) /\ Returned(r)
             /\ Blaming(r) /\ Told(r)

PipelineInv == PipelineTypes /\ SentTypes /\ \A r \in Requests : Fine(r)
=============================================================================
