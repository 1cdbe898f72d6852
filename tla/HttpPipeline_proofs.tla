------------------------- MODULE HttpPipeline_proofs -------------------------
(***************************************************************************)
(* Proofs about HttpPipeline, for every set of requests, with any headers, *)
(* and every constant of the gateway behind it.                            *)
(***************************************************************************)
EXTENDS HttpPipeline, Gateway_proofs

-----------------------------------------------------------------------------
(***************************************************************************)
(* Types                                                                   *)
(***************************************************************************)
AllHeaders == {q.header : q \in HttpRequests}

Ids == [by : {"client", "middleware", "dependency", "nobody", "absent"},
        of : AllHeaders \cup Reqs \cup {None}]

RaisedErrors == {"policy_invalid", "unicode_error"} \cup ErrorNames

StatusCodes == {200, 400, 404, 422, 500, 501, 502}

Results ==
    [kind : {"response"}, code : StatusCodes,
     header : Ids, body_id : Ids]
    \cup [kind : {"raised"}, error : RaisedErrors]

HttpStates ==
    [pc : {"idle", "routed", "handler", "chat", "result", "done"},
     request : HttpRequests \cup {None}, context : Ids, dependency : Ids,
     result : Results \cup {None}, reply : Results \cup {None}]

-----------------------------------------------------------------------------
(***************************************************************************)
(* The inductive invariant                                                 *)
(***************************************************************************)
Accepted == HttpResponse(200, NoId, NoId)

Refused == HttpResponse(422, NoId, NoId)

\* What chat has made of the request.
ChatResult(g, h) ==
    IF IsResponse(g.reply) THEN HttpResponse(200, NoId, h.dependency)
    ELSE Raising(g.reply.status)

\* Where the result that goes back through the stack comes from.
Carries(g, h) ==
    \/ h.result = Refused /\ g.pc = "idle"
    \/ /\ h.request.endpoint = "chat" /\ g.pc = "replied"
       /\ h.result = ChatResult(g, h)
    \/ /\ h.request.endpoint # "chat"
       /\ \/ h.result = Accepted
          \/ \E error \in RaisedErrors : h.result = Raising(error)

\* One request: h is what the stack holds for it, g the locals of chat.
Passing(r, g, h) ==
    /\ h.pc = "idle" => h = NotArrived
    /\ h.pc # "idle" =>
          /\ h.request \in HttpRequests
          /\ h.context = IdFrom(r, h.request.header, "middleware")
          /\ h.dependency \in {NoId, IdFrom(r, h.request.header, "dependency")}
    /\ h.pc \in {"idle", "routed", "handler"} => g.pc = "idle"
    /\ h.pc = "chat" => h.request.endpoint = "chat" /\ g.pc # "idle"
    /\ h.pc \in {"result", "done"} => Carries(g, h)
    /\ h.pc = "done" =>
          h.reply = ThroughStack(h.request.header, h.context, h.result)

HttpInv ==
    /\ Inv
    /\ http \in [Reqs -> HttpStates]
    /\ \A r \in Reqs : Passing(r, gw[r], http[r])

-----------------------------------------------------------------------------
(***************************************************************************)
(* The layers                                                              *)
(***************************************************************************)
(***************************************************************************)
(* What the stack makes of a body and of an exception (main.py:58-66,      *)
(* middleware.py:15-74).                                                   *)
(***************************************************************************)
LEMMA ResponsePasses ==
    ASSUME NEW header, NEW context, NEW code, NEW id, NEW body_id
    PROVE  ThroughStack(header, context, HttpResponse(code, id, body_id))
             = HttpResponse(code, context, body_id)
BY DEF ThroughStack, NormaliseErrors, AttachContext, ServerError, HttpResponse

(***************************************************************************)
(* An exception becomes the response its class is mapped to, with the id   *)
(* of the context; any other becomes a bare 500.                           *)
(***************************************************************************)
LEMMA ErrorPasses ==
    ASSUME NEW header, NEW context, NEW error
    PROVE  ThroughStack(header, context, Raising(error)) =
             IF error \in GatewayErrors
             THEN HttpResponse(HttpStatus(error), context, ErrorBodyId(header))
             ELSE IF error = "not_implemented"
             THEN HttpResponse(501, context, ErrorBodyId(header))
             ELSE HttpResponse(500, NoId, NoId)
BY DEF ThroughStack, NormaliseErrors, AttachContext, ServerError, HttpResponse,
       Raising

(***************************************************************************)
(* The status of every error (exceptions.py, middleware.py:57-74).         *)
(***************************************************************************)
LEMMA StatusOfErrors ==
    /\ HttpStatus("policy_not_found") = 404
    /\ \A error \in ProviderErrors : HttpStatus(error) = 502
    /\ HttpStatus("provider_not_found") = 400
    /\ HttpStatus("policy_invalid") = 422
<1>1. ASSUME NEW error \in ProviderErrors PROVE HttpStatus(error) = 502
  BY DEF HttpStatus, ProviderErrors, InputValidationErrors,
         OutputValidationErrors
<1> QED
  BY <1>1 DEF HttpStatus, ProviderErrors, InputValidationErrors,
              OutputValidationErrors

(***************************************************************************)
(* The ids the layers take, make or put into a body are ids.               *)
(***************************************************************************)
LEMMA IdTypes ==
    ASSUME NEW r \in Reqs, NEW q \in HttpRequests,
           NEW place \in {"middleware", "dependency"}
    PROVE  /\ IdFrom(r, q.header, place) \in Ids
           /\ ErrorBodyId(q.header) \in Ids /\ NoId \in Ids
<1>1. q.header \in AllHeaders
  BY DEF AllHeaders
<1>2. Given(q.header) \in Ids /\ Uuid(r, place) \in Ids /\ Dash \in Ids /\ NoId \in Ids
  BY <1>1 DEF Given, Uuid, Dash, NoId, Ids
<1> QED
  BY <1>2 DEF IdFrom, ErrorBodyId

(***************************************************************************)
(* What leaves the stack is a response with one of its codes.              *)
(***************************************************************************)
LEMMA StackTypes ==
    ASSUME NEW q \in HttpRequests, NEW context \in Ids,
           NEW passed \in Results, NEW r \in Reqs
    PROVE  LET reply == ThroughStack(q.header, context, passed)
           IN  /\ reply \in [kind : {"response"}, code : StatusCodes,
                             header : Ids, body_id : Ids]
               /\ reply.header \in {context, NoId}
               /\ reply.code # 500 => reply.header = context
               /\ \/ reply.body_id \in {ErrorBodyId(q.header), NoId}
                  \/ /\ passed.kind = "response"
                     /\ reply.body_id = passed.body_id
<1>1. /\ ErrorBodyId(q.header) \in Ids /\ NoId \in Ids
  BY IdTypes
<1>2. CASE passed \in [kind : {"response"}, code : StatusCodes,
                       header : Ids, body_id : Ids]
  <2>1. passed = HttpResponse(passed.code, passed.header, passed.body_id)
    BY <1>2 DEF HttpResponse
  <2>2. ThroughStack(q.header, context, passed)
          = HttpResponse(passed.code, context, passed.body_id)
    BY <2>1, ResponsePasses
  <2> QED
    BY <1>2, <2>2 DEF HttpResponse
<1>3. CASE passed \in [kind : {"raised"}, error : RaisedErrors]
  <2>1. passed = Raising(passed.error) /\ passed.error \in RaisedErrors
    BY <1>3 DEF Raising
  <2>2. ThroughStack(q.header, context, passed) =
             IF passed.error \in GatewayErrors
             THEN HttpResponse(HttpStatus(passed.error), context,
                               ErrorBodyId(q.header))
             ELSE IF passed.error = "not_implemented"
             THEN HttpResponse(501, context, ErrorBodyId(q.header))
             ELSE HttpResponse(500, NoId, NoId)
    BY <2>1, ErrorPasses
  <2>3. passed.error \in GatewayErrors =>
          HttpStatus(passed.error) \in StatusCodes \ {500}
    BY <2>1 DEF HttpStatus, StatusCodes, GatewayErrors, ProviderErrors,
                InputValidationErrors, OutputValidationErrors
  <2> QED
    BY <1>1, <2>2, <2>3 DEF HttpResponse, StatusCodes
<1> QED
  BY <1>2, <1>3 DEF Results, StatusCodes

-----------------------------------------------------------------------------
(***************************************************************************)
(* The pipeline drives the gateway                                         *)
(***************************************************************************)
(***************************************************************************)
(* Whatever the layers do, the gateway behind them makes one of its own    *)
(* steps or none: the router hands it bodies of its schema, and a reload   *)
(* over HTTP is one of the reloads it reckons with.                        *)
(***************************************************************************)
LEMMA PipelineStep == HttpInv /\ [HttpNext]_httpvars => [Next]_vars
<1> SUFFICES ASSUME HttpInv, [HttpNext]_httpvars PROVE [Next]_vars
  OBVIOUS
<1>1. ASSUME NEW r \in Reqs, HandleChat(r) PROVE Next
  <2>1. /\ http[r].pc = "handler" /\ http[r].request.endpoint = "chat"
        /\ Receive(r, http[r].request.body)
    BY <1>1 DEF HandleChat
  <2>2. http[r].request \in HttpRequests
    BY <2>1 DEF HttpInv, Passing
  <2>3. http[r].request.body \in ChatRequests
    BY <2>1, <2>2, HttpRequestsAssumption
  <2> QED
    BY <2>1, <2>3 DEF Next
<1>2. ASSUME NEW r \in Reqs, HandleReload(r) PROVE Reload
  BY <1>2 DEF HandleReload, Reload
<1>3. ASSUME NEW r \in Reqs, Serve(r) PROVE [Next]_vars
  BY <1>1, <1>2, <1>3
  DEF Serve, SolveDependencies, ChatEnds, HandleRead, HandleValidate,
      ReloadFails, Respond, Next
<1>4. ASSUME NEW r \in Reqs, Proceed(r) PROVE Next
  BY <1>4 DEF Proceed, Next
<1>5. ASSUME NEW r \in Reqs, NEW request, Arrive(r, request) PROVE UNCHANGED vars
  BY <1>5 DEF Arrive
<1>6. CASE Reload
  BY <1>6 DEF Next
<1>7. CASE UNCHANGED httpvars
  BY <1>7 DEF httpvars
<1> QED
  BY <1>3, <1>4, <1>5, <1>6, <1>7 DEF HttpNext

-----------------------------------------------------------------------------
(***************************************************************************)
(* The steps of a request                                                  *)
(***************************************************************************)
(***************************************************************************)
(* A step of one request keeps the invariant if that request is coherent   *)
(* afterwards and the others are left alone.                               *)
(***************************************************************************)
LEMMA LayerStep ==
    ASSUME HttpInv, Inv', NEW r \in Reqs, NEW h \in HttpStates,
           http' = [http EXCEPT ![r] = h],
           \A d \in Reqs : d # r => gw'[d] = gw[d],
           Passing(r, gw'[r], h)
    PROVE  HttpInv'
<1>1. http \in [Reqs -> HttpStates]
  BY DEF HttpInv
<1>2. /\ http' \in [Reqs -> HttpStates] /\ http'[r] = h
      /\ \A d \in Reqs : d # r => http'[d] = http[d]
  BY <1>1
<1>3. ASSUME NEW d \in Reqs PROVE Passing(d, gw'[d], http'[d])
  BY <1>2 DEF HttpInv
<1> QED
  BY <1>2, <1>3 DEF HttpInv

(***************************************************************************)
(* A request arrives and the outer layers give it an id.                   *)
(***************************************************************************)
LEMMA ArriveStep ==
    ASSUME HttpInv, Inv', NEW r \in Reqs, NEW request \in HttpRequests,
           Arrive(r, request)
    PROVE  HttpInv'
<1> DEFINE id == IdFrom(r, request.header, "middleware")
           h == [http[r] EXCEPT !.pc = "routed", !.request = request,
                                !.context = id]
<1>1. /\ http \in [Reqs -> HttpStates] /\ http[r] \in HttpStates
      /\ Passing(r, gw[r], http[r])
  BY DEF HttpInv
<1>2. http[r].pc = "idle" /\ gw' = gw
  BY DEF Arrive, vars
<1>3. http' = [http EXCEPT ![r] = h]
  BY <1>1 DEF Arrive
<1>4. id \in Ids
  BY IdTypes
<1>5. http[r].dependency = NoId /\ gw[r].pc = "idle"
  BY <1>1, <1>2 DEF Passing, NotArrived
<1> HIDE DEF id
<1>6. /\ h \in HttpStates /\ h.pc = "routed" /\ h.request = request
      /\ h.context = id /\ h.dependency = NoId
  BY <1>1, <1>4, <1>5 DEF HttpStates
<1> HIDE DEF h
<1>7. Passing(r, gw[r], h)
  BY <1>5, <1>6 DEF Passing, id
<1> QED
  BY <1>2, <1>3, <1>6, <1>7, LayerStep

(***************************************************************************)
(* The dependencies are solved, or the body is refused.                    *)
(***************************************************************************)
LEMMA SolveDependenciesStep ==
    ASSUME HttpInv, Inv', NEW r \in Reqs, SolveDependencies(r)
    PROVE  HttpInv'
<1> DEFINE request == http[r].request
           id == IF request.endpoint = "health" THEN NoId
                 ELSE IdFrom(r, request.header, "dependency")
           h == [http[r] EXCEPT
                    !.pc = IF request.well_formed THEN "handler" ELSE "result",
                    !.dependency = id,
                    !.result = IF request.well_formed THEN None ELSE Refused]
<1>1. /\ http \in [Reqs -> HttpStates] /\ http[r] \in HttpStates
      /\ Passing(r, gw[r], http[r])
  BY DEF HttpInv
<1>2. http[r].pc = "routed" /\ gw' = gw
  BY DEF SolveDependencies, vars
<1>3. http' = [http EXCEPT ![r] = h]
  BY <1>1, ZenonT(40) DEF SolveDependencies, Refused
<1>4. /\ request \in HttpRequests /\ gw[r].pc = "idle"
      /\ http[r].context = IdFrom(r, request.header, "middleware")
  BY <1>1, <1>2 DEF Passing
<1>5. /\ id \in Ids /\ id \in {NoId, IdFrom(r, request.header, "dependency")}
      /\ NoId \in Ids
  BY <1>4, IdTypes
<1>6. Refused \in Results
  BY <1>5 DEF Refused, HttpResponse, Results, StatusCodes
<1> HIDE DEF id
<1>7. /\ h \in HttpStates
      /\ h.pc = IF request.well_formed THEN "handler" ELSE "result"
      /\ h.request = request /\ h.context = http[r].context
      /\ h.dependency = id
      /\ h.result = IF request.well_formed THEN None ELSE Refused
  BY <1>1, <1>5, <1>6 DEF HttpStates
<1> HIDE DEF h
<1>8. Passing(r, gw[r], h)
  BY <1>4, <1>5, <1>7 DEF Passing, Carries
<1> QED
  BY <1>2, <1>3, <1>7, <1>8, LayerStep

(***************************************************************************)
(* The handler of chat hands the body to the gateway.                      *)
(***************************************************************************)
LEMMA HandleChatStep ==
    ASSUME HttpInv, Inv', NEW r \in Reqs, HandleChat(r)
    PROVE  HttpInv'
<1> DEFINE h == [http[r] EXCEPT !.pc = "chat"]
<1>1. /\ http \in [Reqs -> HttpStates] /\ http[r] \in HttpStates
      /\ Passing(r, gw[r], http[r]) /\ gw \in [Reqs -> Chats]
  BY DEF HttpInv, Inv, Types
<1>2. /\ http[r].pc = "handler" /\ http[r].request.endpoint = "chat"
      /\ http' = [http EXCEPT ![r] = h]
  BY <1>1 DEF HandleChat
<1>3. gw' = [gw EXCEPT ![r].pc = "resolve", ![r].body = http[r].request.body]
  BY DEF HandleChat, Receive
<1>4. gw'[r].pc = "resolve" /\ \A d \in Reqs : d # r => gw'[d] = gw[d]
  BY <1>1, <1>3 DEF Chats
<1>5. /\ h \in HttpStates /\ h.pc = "chat" /\ h.request = http[r].request
      /\ h.context = http[r].context /\ h.dependency = http[r].dependency
  BY <1>1 DEF HttpStates
<1> HIDE DEF h
<1>6. Passing(r, gw'[r], h)
  BY <1>1, <1>2, <1>4, <1>5 DEF Passing
<1> QED
  BY <1>2, <1>4, <1>5, <1>6, LayerStep

(***************************************************************************)
(* A handler ends with what chat made of the request, or, when it is       *)
(* another handler, with its body or an exception of its own.              *)
(***************************************************************************)
LEMMA HandlerEndsStep ==
    ASSUME HttpInv, Inv', NEW r \in Reqs, NEW result \in Results, gw' = gw,
           http[r].pc \in {"handler", "chat"}, HandlerEnds(r, result),
           \/ /\ http[r].request.endpoint = "chat" /\ gw[r].pc = "replied"
              /\ result = ChatResult(gw[r], http[r])
           \/ /\ http[r].request.endpoint # "chat"
              /\ \/ result = Accepted
                 \/ \E error \in RaisedErrors : result = Raising(error)
    PROVE  HttpInv'
<1> DEFINE h == [http[r] EXCEPT !.pc = "result", !.result = result]
<1>1. /\ http \in [Reqs -> HttpStates] /\ http[r] \in HttpStates
      /\ Passing(r, gw[r], http[r])
  BY DEF HttpInv
<1>2. http' = [http EXCEPT ![r] = h]
  BY <1>1 DEF HandlerEnds
<1>3. /\ h \in HttpStates /\ h.pc = "result" /\ h.request = http[r].request
      /\ h.context = http[r].context /\ h.dependency = http[r].dependency
      /\ h.result = result
  BY <1>1 DEF HttpStates
<1> HIDE DEF h
<1>4. ChatResult(gw[r], h) = ChatResult(gw[r], http[r])
  BY <1>3 DEF ChatResult
<1>5. Carries(gw[r], h)
  BY <1>3, <1>4 DEF Carries
<1>6. Passing(r, gw[r], h)
  BY <1>1, <1>3, <1>5 DEF Passing
<1> QED
  BY <1>2, <1>3, <1>6, LayerStep

\* The bodies and the exceptions of the handlers are results.
LEMMA ResultTypes ==
    /\ Accepted \in Results /\ Refused \in Results
    /\ \A error \in RaisedErrors : Raising(error) \in Results
BY DEF Accepted, Refused, NoId, Ids, HttpResponse, Raising, Results, StatusCodes

\* And so is what becomes of an answer of chat: its errors are named.
LEMMA ChatResultType ==
    ASSUME Inv, NEW r \in Reqs, NEW h \in HttpStates, gw[r].pc = "replied"
    PROVE  ChatResult(gw[r], h) \in Results
<1>1. CASE IsResponse(gw[r].reply)
  <2>1. h.dependency \in Ids /\ NoId \in Ids
    BY DEF HttpStates, NoId, Ids
  <2> QED
    BY <1>1, <2>1 DEF ChatResult, HttpResponse, Results, StatusCodes
<1>2. CASE ~IsResponse(gw[r].reply)
  <2>1. gw[r].reply.status \in ErrorNames
    BY <1>2, Known DEF Coherent, Blames, Cause
  <2> QED
    BY <1>2, <2>1, ResultTypes DEF ChatResult, RaisedErrors
<1> QED
  BY <1>1, <1>2

(***************************************************************************)
(* The gateway has replied, and the handler returns or raises.             *)
(***************************************************************************)
LEMMA ChatEndsStep ==
    ASSUME HttpInv, Inv', NEW r \in Reqs, ChatEnds(r)
    PROVE  HttpInv'
<1>1. /\ http[r] \in HttpStates /\ Passing(r, gw[r], http[r]) /\ Inv
  BY DEF HttpInv
<1>2. /\ http[r].pc = "chat" /\ gw[r].pc = "replied" /\ gw' = gw
      /\ HandlerEnds(r, ChatResult(gw[r], http[r]))
  BY DEF ChatEnds, ChatResult, vars
<1>3. http[r].request.endpoint = "chat"
  BY <1>1, <1>2 DEF Passing
<1>4. ChatResult(gw[r], http[r]) \in Results
  BY <1>1, <1>2, ChatResultType
<1> QED
  BY <1>2, <1>3, <1>4, HandlerEndsStep

(***************************************************************************)
(* The handlers of the other endpoints end in one step.                    *)
(***************************************************************************)
LEMMA HandleOtherStep ==
    ASSUME HttpInv, Inv', NEW r \in Reqs,
           \/ HandleRead(r) \/ HandleValidate(r) \/ HandleReload(r)
           \/ ReloadFails(r)
    PROVE  HttpInv'
<1>1. /\ http[r].pc = "handler" /\ http[r].request.endpoint # "chat"
      /\ gw' = gw
  BY DEF HandleRead, HandleValidate, HandleReload, ReloadFails, Handles, vars
<1>2. \/ HandlerEnds(r, Accepted)
      \/ \E error \in RaisedErrors : HandlerEnds(r, Raising(error))
  <2>1. {"policy_not_found", "policy_invalid", "unicode_error", "json_error"}
          \subseteq RaisedErrors
    BY DEF RaisedErrors, ErrorNames
  <2> QED
    BY <2>1 DEF HandleRead, HandleValidate, HandleReload, ReloadFails, Accepted
<1>3. CASE HandlerEnds(r, Accepted)
  BY <1>1, <1>3, ResultTypes, HandlerEndsStep
<1>4. ASSUME NEW error \in RaisedErrors, HandlerEnds(r, Raising(error))
      PROVE  HttpInv'
  BY <1>1, <1>4, ResultTypes, HandlerEndsStep
<1> QED
  BY <1>2, <1>3, <1>4

(***************************************************************************)
(* The result goes back through the layers.                                *)
(***************************************************************************)
LEMMA RespondStep ==
    ASSUME HttpInv, Inv', NEW r \in Reqs, Respond(r)
    PROVE  HttpInv'
<1> DEFINE reply == ThroughStack(http[r].request.header, http[r].context,
                                 http[r].result)
           h == [http[r] EXCEPT !.pc = "done", !.reply = reply]
<1>1. /\ http \in [Reqs -> HttpStates] /\ http[r] \in HttpStates
      /\ Passing(r, gw[r], http[r])
  BY DEF HttpInv
<1>2. http[r].pc = "result" /\ gw' = gw /\ http' = [http EXCEPT ![r] = h]
  BY <1>1 DEF Respond, vars
<1>3. /\ http[r].request \in HttpRequests /\ Carries(gw[r], http[r])
  BY <1>1, <1>2 DEF Passing
<1>4. http[r].result \in Results
  BY <1>1, <1>3, ChatResultType, ResultTypes DEF Carries, HttpInv
<1>5. reply \in Results
  BY <1>1, <1>3, <1>4, StackTypes DEF HttpStates, Results
<1> HIDE DEF reply
<1>6. /\ h \in HttpStates /\ h.pc = "done" /\ h.request = http[r].request
      /\ h.context = http[r].context /\ h.dependency = http[r].dependency
      /\ h.result = http[r].result /\ h.reply = reply
  BY <1>1, <1>5 DEF HttpStates
<1> HIDE DEF h
<1>7. ChatResult(gw[r], h) = ChatResult(gw[r], http[r])
  BY <1>6 DEF ChatResult
<1>8. Passing(r, gw[r], h)
  BY <1>1, <1>2, <1>3, <1>6, <1>7 DEF Passing, Carries, reply
<1> QED
  BY <1>2, <1>6, <1>8, LayerStep

\* Chat works on what it was given, and comes to its answer from there.
LEMMA ChatWorks ==
    ASSUME Inv, Inv', NEW r \in Reqs, Chat(r) \/ Await(r)
    PROVE  /\ Working(gw[r]) /\ gw'[r].pc # "idle" /\ Elsewhere(r)
<1>1. Seen(r) /\ Elsewhere(r)
  BY ChatSeen, AwaitSeen
<1>2. CASE Chat(r)
  <2>1. Working(gw[r])
    BY <1>2 DEF Chat, Resolve, PolicyNotFound, Block, AdmitInput, CallProviders,
                ProvidersRaised, CheckOutput, EnterRetry, RetrySucceeded,
                OutputRaised, RetryExhausted, RetryRaised, Finish, Working
  <2> QED
    BY <1>1, <2>1 DEF Seen, Working
<1>3. CASE Await(r)
  <2>1. gw' = gw
    BY <1>3 DEF Await
  <2> QED
    BY <1>1, <2>1 DEF Seen, Working
<1> QED
  BY <1>2, <1>3

(***************************************************************************)
(* A step of the gateway changes nothing of what the layers hold.          *)
(***************************************************************************)
LEMMA ProceedStep ==
    ASSUME HttpInv, Inv', NEW r \in Reqs, Proceed(r)
    PROVE  HttpInv'
<1> DEFINE h == http[r]
<1>1. /\ http \in [Reqs -> HttpStates] /\ h \in HttpStates
      /\ Passing(r, gw[r], h) /\ Inv
  BY DEF HttpInv
<1>2. http' = http /\ (Chat(r) \/ Await(r))
  BY DEF Proceed
<1>3. /\ Working(gw[r]) /\ gw'[r].pc # "idle" /\ Elsewhere(r)
  BY <1>1, <1>2, ChatWorks
<1>4. gw[r].pc \notin {"idle", "replied"}
  BY <1>3 DEF Working
<1> HIDE DEF h
<1>5. Passing(r, gw'[r], h)
  BY <1>1, <1>3, <1>4 DEF Passing, Carries
<1>6. http' = [http EXCEPT ![r] = h]
  BY <1>1, <1>2 DEF h
<1> QED
  BY <1>1, <1>3, <1>5, <1>6, LayerStep DEF Elsewhere

(***************************************************************************)
(* The invariant is kept by every step of the pipeline.                    *)
(***************************************************************************)
LEMMA HttpInvStep == HttpInv /\ [HttpNext]_httpvars => HttpInv'
<1> SUFFICES ASSUME HttpInv, [HttpNext]_httpvars PROVE HttpInv'
  OBVIOUS
<1>1. Inv'
  BY PipelineStep, InvStep DEF HttpInv
<1>2. ASSUME gw' = gw, http' = http PROVE HttpInv'
  BY <1>1, <1>2 DEF HttpInv
<1>3. ASSUME NEW r \in Reqs, Serve(r) PROVE HttpInv'
  BY <1>1, <1>3, SolveDependenciesStep, HandleChatStep, ChatEndsStep,
     HandleOtherStep, RespondStep DEF Serve
<1>4. CASE Reload /\ UNCHANGED http
  BY <1>2, <1>4 DEF Reload
<1>5. CASE UNCHANGED httpvars
  BY <1>2, <1>5 DEF httpvars, vars
<1> QED
  BY <1>1, <1>3, <1>4, <1>5, ArriveStep, ProceedStep DEF HttpNext

\* Nothing has arrived at first.
LEMMA HttpInvInit == HttpInit => HttpInv
<1> SUFFICES ASSUME HttpInit PROVE HttpInv
  OBVIOUS
<1>1. Inv
  BY InvInit DEF HttpInit
<1>2. NotArrived \in HttpStates /\ NotArrived.pc = "idle"
  BY DEF NotArrived, NoId, Ids, HttpStates
<1>3. \A r \in Reqs : http[r] = NotArrived /\ gw[r].pc = "idle"
  BY DEF HttpInit, Init, NotReceived
<1>4. http \in [Reqs -> HttpStates]
  BY <1>2 DEF HttpInit
<1> QED
  BY <1>1, <1>2, <1>3, <1>4 DEF HttpInv, Passing

-----------------------------------------------------------------------------
(***************************************************************************)
(* The invariant holds of every pipeline.                                  *)
(***************************************************************************)
THEOREM HttpInvariance == HttpSpec => []HttpInv
<1> QED
  BY HttpInvInit, HttpInvStep, PTL DEF HttpSpec

(***************************************************************************)
(* Behind the HTTP layers the gateway behaves as Gateway says, fairness    *)
(* apart: whatever arrives, its state begins and changes as there.         *)
(***************************************************************************)
THEOREM PipelineDrivesGateway == HttpSpec => Init /\ [][Next]_vars
<1>1. HttpInit => Init
  BY DEF HttpInit
<1> QED
  BY <1>1, PipelineStep, HttpInvariance, PTL DEF HttpSpec

(***************************************************************************)
(* So whatever comes in over HTTP, no provider sees a prompt its policy    *)
(* blocks, the text that is sent is the last completion and was checked,   *)
(* its violations, risk score and retries are its own, the providers asked *)
(* are the policy's, no request changes a policy, and the contract of POST *)
(* /chat is kept (gateway.py:66-242).                                      *)
(***************************************************************************)
THEOREM GatewayHoldsBehindHttp ==
    HttpSpec => /\ []PromptScreened
                /\ []OnlyCheckedTextLeaves
                /\ []ReplyDescribesText
                /\ []TrafficFollowsPolicy
                /\ []RetriesTruthful
                /\ RequestsLeavePoliciesAlone
                /\ ImplementsContract
<1>1. Init /\ [][Next]_vars => []Inv
  BY InvInit, InvStep, PTL
<1>2. Init /\ [][Next]_vars => RequestsLeavePoliciesAlone
  BY <1>1, RegistryStep, PTL DEF RequestsLeavePoliciesAlone
<1>3. Init /\ [][Next]_vars => ImplementsContract
  BY <1>1, ContractInit, ContractStep, PTL DEF ImplementsContract, Contract!Spec
<1> QED
  BY <1>1, <1>2, <1>3, PipelineDrivesGateway, ScreenedByInv, CheckedByInv,
     DescribedByInv, FollowedByInv, CountedByInv, PTL

(***************************************************************************)
(* What a request has when its reply has left.                             *)
(***************************************************************************)
LEMMA Departed ==
    ASSUME HttpInv, NEW r \in Reqs, http[r].pc = "done"
    PROVE  /\ http[r].request \in HttpRequests
           /\ http[r].context = IdFrom(r, http[r].request.header, "middleware")
           /\ http[r].dependency \in
                 {NoId, IdFrom(r, http[r].request.header, "dependency")}
           /\ http[r].result \in Results
           /\ http[r].context \in Ids
           /\ Carries(gw[r], http[r])
           /\ http[r].reply = ThroughStack(http[r].request.header,
                                  http[r].context, http[r].result)
<1>1. Passing(r, gw[r], http[r]) /\ http[r] \in HttpStates /\ Inv
  BY DEF HttpInv
<1>2. Carries(gw[r], http[r])
  BY <1>1 DEF Passing
<1>3. http[r].result \in Results
  BY <1>1, <1>2, ChatResultType, ResultTypes DEF Carries
<1> QED
  BY <1>1, <1>2, <1>3 DEF Passing, HttpStates

(***************************************************************************)
(* The ids of a reply: its header is the one the middleware took or made;  *)
(* its body has the one of the dependency, or repeats the header.          *)
(***************************************************************************)
LEMMA ReplyIds ==
    ASSUME HttpInv, NEW r \in Reqs, http[r].pc = "done"
    PROVE  LET header == http[r].request.header
               reply == http[r].reply
           IN  /\ reply.code \in StatusCodes
               /\ reply.header \in {IdFrom(r, header, "middleware"), NoId}
               /\ reply.code # 500 =>
                     reply.header = IdFrom(r, header, "middleware")
               /\ reply.body_id \in {NoId, ErrorBodyId(header),
                                     IdFrom(r, header, "dependency")}
<1> DEFINE h == http[r]
           header == h.request.header
<1>1. /\ h.reply \in [kind : {"response"}, code : StatusCodes,
                      header : Ids, body_id : Ids]
      /\ h.reply.header \in {h.context, NoId}
      /\ h.reply.code # 500 => h.reply.header = h.context
      /\ \/ h.reply.body_id \in {ErrorBodyId(header), NoId}
         \/ /\ h.result.kind = "response"
            /\ h.reply.body_id = h.result.body_id
  BY Departed, StackTypes
<1>2. h.result.kind = "response" => h.result.body_id \in {NoId, h.dependency}
  <2>1. /\ Accepted.body_id = NoId /\ Refused.body_id = NoId
        /\ \A error : Raising(error).kind = "raised"
    BY DEF Accepted, Refused, Raising, HttpResponse
  <2>2. \/ ChatResult(gw[r], h).kind = "raised"
        \/ ChatResult(gw[r], h).body_id = h.dependency
    BY DEF ChatResult, Raising, HttpResponse
  <2>3. Carries(gw[r], h)
    BY Departed
  <2> HIDE DEF h
  <2> QED
    BY <2>1, <2>2, <2>3 DEF Carries
<1>3. /\ h.context = IdFrom(r, header, "middleware")
      /\ h.dependency \in {NoId, IdFrom(r, header, "dependency")}
  BY Departed
<1> HIDE DEF h
<1> QED
  BY <1>1, <1>2, <1>3 DEF h

(***************************************************************************)
(* An id that stands anywhere is the client's, or was made where it stands.*)
(***************************************************************************)
LEMMA SentIds ==
    ASSUME NEW r \in Reqs, NEW q \in HttpRequests, NEW place
    PROVE  /\ IdFrom(r, q.header, place) \in Sent(r, place)
           /\ ErrorBodyId(q.header) \in
                 Sent(r, "dependency") \cup {Given(""), Dash}
<1>1. q.header \notin {None, ""} => q.header \in Headers
  BY DEF Headers
<1> QED
  BY <1>1 DEF IdFrom, ErrorBodyId, Sent

(***************************************************************************)
(* Each layer holds ids of its own place, and a reply has a status of the  *)
(* API (middleware.py:20, 44, 57-74; dependencies.py:13).                  *)
(***************************************************************************)
THEOREM HttpTypesAreCorrect == HttpSpec => []HttpTypeOK
<1>1. ASSUME HttpInv, NEW r \in Reqs
      PROVE  /\ http[r].pc \in {"idle", "routed", "handler", "chat", "result",
                                "done"}
             /\ http[r].request \in HttpRequests \cup {None}
             /\ http[r].context \in Sent(r, "middleware") \cup {NoId}
             /\ http[r].dependency \in Sent(r, "dependency") \cup {NoId}
  <2>1. http[r] \in HttpStates /\ Passing(r, gw[r], http[r])
    BY <1>1 DEF HttpInv
  <2>2. CASE http[r].pc = "idle"
    BY <2>1, <2>2 DEF Passing, NotArrived
  <2>3. CASE http[r].pc # "idle"
    <3>1. /\ http[r].request \in HttpRequests
          /\ http[r].context = IdFrom(r, http[r].request.header, "middleware")
          /\ http[r].dependency \in
                {NoId, IdFrom(r, http[r].request.header, "dependency")}
      BY <2>1, <2>3 DEF Passing
    <3>2. /\ IdFrom(r, http[r].request.header, "middleware")
                \in Sent(r, "middleware")
          /\ IdFrom(r, http[r].request.header, "dependency")
                \in Sent(r, "dependency")
      BY <3>1, SentIds
    <3>3. http[r].pc \in {"idle", "routed", "handler", "chat", "result", "done"}
      BY <2>1 DEF HttpStates
    <3> QED
      BY <3>1, <3>2, <3>3
  <2> QED
    BY <2>2, <2>3
<1>2. ASSUME HttpInv, NEW r \in Reqs, Done(r)
      PROVE  /\ http[r].reply.code \in {200, 400, 404, 422, 500, 501, 502}
             /\ http[r].reply.header \in Sent(r, "middleware") \cup {NoId}
             /\ http[r].reply.body_id \in
                   Sent(r, "dependency") \cup {Given(""), Dash, NoId}
  <2>1. http[r].pc = "done"
    BY <1>2 DEF Done
  <2>2. http[r].request \in HttpRequests
    BY <1>2, <2>1, Departed
  <2> DEFINE header == http[r].request.header
             reply == http[r].reply
  <2>3. /\ IdFrom(r, header, "middleware") \in Sent(r, "middleware")
        /\ IdFrom(r, header, "dependency") \in Sent(r, "dependency")
        /\ ErrorBodyId(header) \in
              Sent(r, "dependency") \cup {Given(""), Dash}
    BY <2>2, SentIds
  <2>4. /\ reply.code \in StatusCodes
        /\ reply.header \in {IdFrom(r, header, "middleware"), NoId}
        /\ reply.body_id \in {NoId, ErrorBodyId(header),
                              IdFrom(r, header, "dependency")}
    BY <1>2, <2>1, ReplyIds
  <2> HIDE DEF header, reply
  <2>5. /\ reply.code \in {200, 400, 404, 422, 500, 501, 502}
        /\ reply.header \in Sent(r, "middleware") \cup {NoId}
        /\ reply.body_id \in Sent(r, "dependency") \cup {Given(""), Dash, NoId}
    <3>1. reply.code \in {200, 400, 404, 422, 500, 501, 502}
      BY <2>4 DEF StatusCodes
    <3>2. reply.header \in Sent(r, "middleware") \cup {NoId}
      BY <2>3, <2>4
    <3>3. reply.body_id \in Sent(r, "dependency") \cup {Given(""), Dash, NoId}
      BY <2>3, <2>4
    <3> QED
      BY <3>1, <3>2, <3>3
  <2> QED
    BY <2>5 DEF reply
<1>3. ASSUME HttpInv, NEW r \in Reqs
      PROVE
        /\ http[r].pc \in {"idle", "routed", "handler", "chat", "result", "done"}
        /\ http[r].request \in HttpRequests \cup {None}
        /\ http[r].context \in Sent(r, "middleware") \cup {NoId}
        /\ http[r].dependency \in Sent(r, "dependency") \cup {NoId}
        /\ Done(r) =>
              /\ http[r].reply.code \in {200, 400, 404, 422, 500, 501, 502}
              /\ http[r].reply.header \in Sent(r, "middleware") \cup {NoId}
              /\ http[r].reply.body_id \in
                    Sent(r, "dependency") \cup {Given(""), Dash, NoId}
  <2>1. Done(r) =>
          /\ http[r].reply.code \in {200, 400, 404, 422, 500, 501, 502}
          /\ http[r].reply.header \in Sent(r, "middleware") \cup {NoId}
          /\ http[r].reply.body_id \in
                Sent(r, "dependency") \cup {Given(""), Dash, NoId}
    BY <1>2, <1>3, ZenonT(40)
  <2>2. /\ http[r].pc \in {"idle", "routed", "handler", "chat", "result", "done"}
        /\ http[r].request \in HttpRequests \cup {None}
        /\ http[r].context \in Sent(r, "middleware") \cup {NoId}
        /\ http[r].dependency \in Sent(r, "dependency") \cup {NoId}
    BY <1>1, <1>3, Zenon
  <2> QED
    BY <2>1, <2>2, Zenon
<1>4. HttpInv => HttpTypeOK
  BY <1>3, Zenon DEF HttpTypeOK
<1> QED
  BY <1>4, HttpInvariance, PTL

(***************************************************************************)
(* Every reply the gateway itself makes carries an id in its header, and a *)
(* client's id comes back wherever there is one (middleware.py:20, 44, 63; *)
(* dependencies.py:13).                                                    *)
(***************************************************************************)
THEOREM RepliesAreTraceable == HttpSpec => []RepliesTraceable
<1>1. ASSUME NEW r, NEW header, NEW place \in {"middleware", "dependency"}
      PROVE  /\ IdFrom(r, header, place) # NoId
             /\ header \notin {None, ""} =>
                   /\ IdFrom(r, header, place) = Given(header)
                   /\ ErrorBodyId(header) = Given(header)
  BY DEF IdFrom, ErrorBodyId, Given, Uuid, NoId
<1>2. ASSUME HttpInv, NEW r \in Reqs, Done(r)
      PROVE  LET reply == http[r].reply
                 header == http[r].request.header
             IN  /\ reply.code # 500 => reply.header # NoId
                 /\ header \notin {None, ""} =>
                       /\ reply.header \in {NoId, Given(header)}
                       /\ reply.body_id \in {NoId, Given(header)}
  <2>1. http[r].pc = "done"
    BY <1>2 DEF Done
  <2> DEFINE header == http[r].request.header
             reply == http[r].reply
  <2>2. /\ reply.header \in {IdFrom(r, header, "middleware"), NoId}
        /\ reply.code # 500 => reply.header = IdFrom(r, header, "middleware")
        /\ reply.body_id \in {NoId, ErrorBodyId(header),
                              IdFrom(r, header, "dependency")}
    BY <1>2, <2>1, ReplyIds
  <2>3. /\ IdFrom(r, header, "middleware") # NoId
        /\ header \notin {None, ""} =>
              /\ IdFrom(r, header, "middleware") = Given(header)
              /\ IdFrom(r, header, "dependency") = Given(header)
              /\ ErrorBodyId(header) = Given(header)
    BY <1>1
  <2> HIDE DEF header, reply
  <2>4. /\ reply.code # 500 => reply.header # NoId
        /\ header \notin {None, ""} =>
              /\ reply.header \in {NoId, Given(header)}
              /\ reply.body_id \in {NoId, Given(header)}
    BY <2>2, <2>3
  <2> QED
    BY <2>4 DEF header, reply
<1>3. HttpInv => RepliesTraceable
  BY <1>2 DEF RepliesTraceable
<1> QED
  BY <1>3, HttpInvariance, PTL

(***************************************************************************)
(* What a chat reply over HTTP says is what the invariant of the gateway   *)
(* says of the error, or of the answer, that chat made.                    *)
(***************************************************************************)
\* The status the stack gives to an exception that leaves chat.
ErrorCode(error) ==
    IF error \in GatewayErrors THEN HttpStatus(error)
    ELSE IF error = "not_implemented" THEN 501 ELSE 500

(***************************************************************************)
(* The status of each error, after all layers.                             *)
(***************************************************************************)
LEMMA ErrorCodes ==
    /\ ErrorCode("policy_not_found") = 404
    /\ ErrorCode("not_implemented") = 501
    /\ ErrorCode("provider_not_found") = 400
    /\ ErrorCode("index_error") = 500
    /\ ErrorCode("json_error") = 500
    /\ \A error \in {"provider_error", "non_recoverable", "all_providers_failed"} :
          ErrorCode(error) = 502
<1>1. /\ \A error \in ProviderErrors \cup {"policy_not_found", "provider_not_found"} :
            error \in GatewayErrors
      /\ \A error \in {"not_implemented", "index_error", "json_error"} :
            error \notin GatewayErrors
  BY DEF GatewayErrors, ProviderErrors, InputValidationErrors,
         OutputValidationErrors
<1>2. {"provider_error", "non_recoverable", "all_providers_failed"}
        \subseteq ProviderErrors
  BY DEF ProviderErrors
<1> QED
  BY <1>1, <1>2, StatusOfErrors DEF ErrorCode

(***************************************************************************)
(* The status of the reply to a chat is that of what the gateway replied,  *)
(* or it never saw the request.                                            *)
(***************************************************************************)
LEMMA ChatCodes ==
    ASSUME HttpInv, NEW r \in Reqs, http[r].pc = "done",
           http[r].request.endpoint = "chat"
    PROVE  LET code == http[r].reply.code
               g == gw[r]
           IN  \/ code = 422 /\ g.pc = "idle"
               \/ code = 200 /\ g.pc = "replied" /\ IsResponse(g.reply)
               \/ /\ g.pc = "replied" /\ ~IsResponse(g.reply)
                  /\ code = ErrorCode(g.reply.status)
<1> DEFINE h == http[r]
           g == gw[r]
<1>1. /\ h.reply = ThroughStack(h.request.header, h.context, h.result)
      /\ \/ h.result = Refused /\ g.pc = "idle"
         \/ g.pc = "replied" /\ h.result = ChatResult(g, h)
  BY Departed DEF Carries
<1> HIDE DEF h, g
<1>2. CASE h.result = Refused /\ g.pc = "idle"
  <2>1. h.reply = HttpResponse(422, h.context, NoId)
    BY <1>1, <1>2, ResponsePasses DEF Refused
  <2> QED
    BY <1>2, <2>1 DEF HttpResponse, h, g
<1>3. CASE g.pc = "replied" /\ IsResponse(g.reply) /\ h.result = ChatResult(g, h)
  <2>1. h.reply = HttpResponse(200, h.context, h.dependency)
    BY <1>1, <1>3, ResponsePasses DEF ChatResult
  <2> QED
    BY <1>3, <2>1 DEF HttpResponse, h, g
<1>4. CASE g.pc = "replied" /\ ~IsResponse(g.reply) /\ h.result = ChatResult(g, h)
  <2>1. h.result = Raising(g.reply.status)
    BY <1>4 DEF ChatResult
  <2>2. h.reply =
          IF g.reply.status \in GatewayErrors
          THEN HttpResponse(HttpStatus(g.reply.status), h.context,
                            ErrorBodyId(h.request.header))
          ELSE IF g.reply.status = "not_implemented"
          THEN HttpResponse(501, h.context, ErrorBodyId(h.request.header))
          ELSE HttpResponse(500, NoId, NoId)
    BY <1>1, <2>1, ErrorPasses
  <2>3. h.reply.code = ErrorCode(g.reply.status)
    BY <2>2 DEF ErrorCode, HttpResponse
  <2> QED
    BY <1>4, <2>3 DEF h, g
<1> QED
  BY <1>1, <1>2, <1>3, <1>4

(***************************************************************************)
(* The status of a chat reply tells what happened to the request: that no  *)
(* policy was found, that the policy has another strategy, that the chain  *)
(* came to a provider that does not exist, that the last provider asked    *)
(* failed, answered without choices or with a text that could not be       *)
(* decoded, that the body was refused, or that there is an answer          *)
(* (exceptions.py, middleware.py:57-74).                                   *)
(***************************************************************************)
LEMMA StatusByInv == HttpInv => StatusTellsCause
<1> SUFFICES ASSUME HttpInv, NEW r \in Reqs, Done(r),
                    http[r].request.endpoint = "chat"
             PROVE
        LET code == http[r].reply.code
            resolved == gw[r].ref # 0
            chain == Len(Governing(r).provider.fallbacks) + 1
            n == Len(asked[r])
            otherStrategy == Governing(r).provider.strategy # "sequential"
            unserved == /\ n < chain
                        /\ \A k \in 1 .. n : Orchestrator!Transient(answers[r][k])
                        /\ Route(r, n + 1).vendor \notin LITELLM_PREFIXES
            undecoded == /\ Last(answers[r]).kind = "completion"
                         /\ Unreadable(r, Last(answers[r]).content)
        IN  CASE code = 422 -> gw[r].pc = "idle" /\ n = 0
              [] code = 404 -> ~resolved /\ n = 0
              [] code = 501 -> resolved /\ n = 0 /\ otherStrategy
              [] code = 400 -> resolved /\ unserved /\ ~otherStrategy
              [] code = 502 -> /\ resolved /\ n > 0 /\ ~unserved
                               /\ Last(answers[r]).kind \in Exceptions
              [] code = 500 -> /\ resolved /\ n > 0
                               /\ Last(answers[r]) = EmptyAnswer \/ undecoded
              [] code = 200 -> /\ resolved
                               /\ n > 0 => /\ ~otherStrategy /\ ~undecoded
                                           /\ Last(answers[r]).kind = "completion"
              [] OTHER -> FALSE
  BY ZenonT(40) DEF StatusTellsCause
<1> DEFINE code == http[r].reply.code
           g == gw[r]
           p == Governed(r)
           a == asked[r]
           b == answers[r]
           n == Len(a)
           otherStrategy == Governing(r).provider.strategy # "sequential"
           unserved ==
               /\ n < Len(Governing(r).provider.fallbacks) + 1
               /\ \A k \in 1 .. n : Orchestrator!Transient(b[k])
               /\ Route(r, n + 1).vendor \notin LITELLM_PREFIXES
           undecoded == /\ Last(b).kind = "completion"
                        /\ Unreadable(r, Last(b).content)
<1>1. Inv /\ http[r].pc = "done"
  BY DEF HttpInv, Done
<1>2. /\ Coherent(g, exec[r], retry[r], a, b, p)
      /\ a \in Seq(Sendable) /\ n \in Nat
  BY <1>1, Known
<1>3. (n = 0 <=> a = <<>>) /\ (n > 0 <=> a # <<>>)
  BY <1>2, EmptySeq
<1>4. g.ref # 0 =>
        /\ otherStrategy <=> p.provider.strategy # "sequential"
        /\ unserved <=> Unserved(g, a, b, p)
        /\ undecoded <=> /\ b[Len(b)].kind = "completion"
                         /\ Unread(p, b[Len(b)].content)
  BY <1>1, SameTerms DEF Unserved, Unreadable, Unread, Last
<1>5. CASE code = 422 /\ g.pc = "idle"
  <2>1. n = 0
    BY <1>2, <1>3, <1>5 DEF Coherent, NotYet
  <2> QED
    BY <1>5, <2>1
<1>6. CASE code = 200 /\ g.pc = "replied" /\ IsResponse(g.reply)
  <2>1. g.ref # 0 /\ Tells(g.reply, g, a, b, p) /\ g.reply \in ChatResponses
    BY <1>1, <1>6, ReplyTells DEF Replied
  <2>2. a # <<>> => /\ p.provider.strategy = "sequential"
                    /\ b[Len(b)].kind = "completion"
                    /\ ~Unread(p, b[Len(b)].content)
    <3>1. a # <<>> => p.provider.strategy = "sequential"
      BY <1>2 DEF Coherent, Follows
    <3>2. a # <<>> => /\ b[Len(b)].kind = "completion"
                      /\ ~Unread(p, b[Len(b)].content)
      BY <2>1 DEF Tells, Completion
    <3> QED
      BY <3>1, <3>2
  <2> QED
    BY <1>3, <1>4, <1>6, <2>1, <2>2 DEF Last
<1>7. CASE /\ g.pc = "replied" /\ ~IsResponse(g.reply)
           /\ code = ErrorCode(g.reply.status)
  <2> DEFINE error == g.reply.status
  <2>1. Cause(error, g, a, b, p)
    BY <1>2, <1>7 DEF Coherent, Blames
  <2>2. error \in {"policy_not_found", "not_implemented", "provider_not_found",
                   "provider_error", "non_recoverable", "all_providers_failed",
                   "index_error", "json_error"}
    BY <2>1 DEF Cause, ErrorNames, OrchestratorProofs!Errors
  <2>3. code = ErrorCode(error)
    BY <1>7
  <2> HIDE DEF error, code, g, a, b, p, n, otherStrategy, unserved, undecoded
  <2>4. CASE error = "policy_not_found"
    BY <1>3, <2>1, <2>3, <2>4, ErrorCodes DEF Cause, code, g, a, n
  <2>5. CASE error = "not_implemented"
    <3>1. code = 501 /\ g.ref # 0 /\ n = 0 /\ otherStrategy
      BY <1>3, <1>4, <2>1, <2>3, <2>5, ErrorCodes DEF Cause
    <3> QED
      BY <3>1 DEF code, g, a, n, otherStrategy
  <2>6. CASE error = "provider_not_found"
    <3>1. code = 400 /\ g.ref # 0 /\ unserved /\ ~otherStrategy
      BY <1>4, <2>1, <2>3, <2>6, ErrorCodes DEF Cause
    <3> QED
      BY <3>1 DEF code, g, a, b, n, otherStrategy, unserved
  <2>7. CASE error \in {"provider_error", "non_recoverable",
                        "all_providers_failed"}
    <3>1. /\ code = 502 /\ g.ref # 0 /\ n > 0 /\ ~unserved
          /\ b[Len(b)].kind \in Exceptions
      BY <1>3, <1>4, <2>1, <2>3, <2>7, ErrorCodes DEF Cause
    <3> QED
      BY <3>1 DEF code, g, a, b, n, unserved, Last
  <2>8. CASE error = "index_error"
    <3>1. code = 500 /\ g.ref # 0 /\ n > 0 /\ b[Len(b)] = EmptyAnswer
      BY <1>3, <2>1, <2>3, <2>8, ErrorCodes DEF Cause
    <3> QED
      BY <3>1 DEF code, g, a, b, n, Last
  <2>9. CASE error = "json_error"
    <3>1. code = 500 /\ g.ref # 0 /\ n > 0 /\ undecoded
      BY <1>3, <1>4, <2>1, <2>3, <2>9, ErrorCodes DEF Cause
    <3> QED
      BY <3>1 DEF code, g, a, b, n, undecoded
  <2> QED
    BY <2>2, <2>4, <2>5, <2>6, <2>7, <2>8, <2>9
<1> QED
  BY <1>1, <1>5, <1>6, <1>7, ChatCodes

(***************************************************************************)
(* The status of a reply tells what happened to its request: refused       *)
(* before the gateway, answered, or ended by the error it stands for       *)
(* (middleware.py:57-74).                                                  *)
(***************************************************************************)
THEOREM StatusesTellTheCause == HttpSpec => []StatusTellsCause
<1> QED
  BY StatusByInv, HttpInvariance, PTL
=====
