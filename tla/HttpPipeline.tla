----------------------------- MODULE HttpPipeline -----------------------------
(***************************************************************************)
(* The HTTP side of the gateway (app/main.py, app/api): each request goes  *)
(* through the middleware stack                                            *)
(*     CORS > RequestContextMiddleware > GatewayErrorMiddleware > router   *)
(* to the dependencies of its route and to its handler, and the result of  *)
(* the handler, or what it raises, goes back through the same stack.  The  *)
(* handler of POST /chat is the chat of Gateway, the other handlers run to *)
(* their end on the same registry.  FastAPI and Starlette are external.    *)
(***************************************************************************)
EXTENDS GatewayProperties

CONSTANT HttpRequests       \* the requests clients may send

VARIABLE http               \* what the stack holds for each request

httpvars == <<vars, http>>

OtherEndpoints == {"list", "health", "reload", "validate"}

\* header: the X-Request-ID of the client, "" when it is empty, None without
\* one.  well_formed: the body passes the schema of the endpoint.
ASSUME HttpRequestsAssumption ==
    \A q \in HttpRequests :
        /\ q.endpoint \in {"chat"} \cup OtherEndpoints
        /\ q.well_formed \in BOOLEAN
        /\ q.endpoint = "chat" => q.body \in ChatRequests
        /\ q.endpoint \in {"reload", "validate"} => q.policy_id \in PolicyIds \cup {None}

\* A request id: the client's, a uuid4 made by one of the two places that
\* make one, or the "-" of an error body.
Given(header) == [by |-> "client", of |-> header]
Uuid(r, place) == [by |-> place, of |-> r]
Dash == [by |-> "nobody", of |-> None]
NoId == [by |-> "absent", of |-> None]

\* request.headers.get("X-Request-ID") or str(uuid.uuid4())
\* Slip: a missing header is seen, an empty one is not.
IdFrom_EmptyKept(r, header, place) ==
    IF header = None THEN Uuid(r, place) ELSE Given(header)
IdFrom(r, header, place) ==
    IF header \in {None, ""} THEN Uuid(r, place) ELSE Given(header)

NotArrived ==
    [pc |-> "idle", request |-> None, context |-> NoId, dependency |-> NoId,
     result |-> None, reply |-> None]

HttpInit == Init /\ http = [r \in Reqs |-> NotArrived]

-----------------------------------------------------------------------------
(***************************************************************************)
(* What the layers make of a result                                        *)
(***************************************************************************)
\* The subclasses of GatewayError, by code; those of the guardrails are
\* raised nowhere.
InputValidationErrors ==
    {"input_validation_failed", "prompt_injection_detected",
     "jailbreak_detected", "pii_detected", "secret_detected",
     "token_limit_exceeded", "toxic_input_detected"}

OutputValidationErrors ==
    {"output_validation_failed", "json_schema_violation",
     "prompt_leakage_detected", "toxic_output_detected"}

\* What chat raises as ProviderError.
ProviderErrors ==
    {"provider_error", "non_recoverable", "all_providers_failed", "no_providers"}

GatewayErrors ==
    InputValidationErrors \cup OutputValidationErrors \cup ProviderErrors \cup
    {"policy_not_found", "policy_invalid", "provider_not_found",
     "max_retries_exceeded"}

\* http_status of each.
\* Slip: ProviderNotFoundError is a ProviderError.
HttpStatus_NotFoundIsProviderError(error) ==
    CASE error = "policy_not_found" -> 404
      [] error \in ProviderErrors \cup {"provider_not_found"} -> 502
      [] error \in InputValidationErrors -> 400
      [] OTHER -> 422
HttpStatus(error) ==
    CASE error = "policy_not_found" -> 404
      [] error \in ProviderErrors -> 502
      [] error \in InputValidationErrors \cup {"provider_not_found"} -> 400
      [] error \in OutputValidationErrors
                   \cup {"policy_invalid", "max_retries_exceeded"} -> 422

HttpResponse(code, header, body_id) ==
    [kind |-> "response", code |-> code, header |-> header, body_id |-> body_id]

Raising(error) == [kind |-> "raised", error |-> error]

\* The error body quotes the header, not the id the middleware made.
ErrorBodyId(header) == IF header = None THEN Dash ELSE Given(header)

\* GatewayErrorMiddleware.dispatch around what the router returns or raises.
NormaliseErrors(header, passed) ==
    IF passed.kind = "response" THEN passed
    ELSE IF passed.error \in GatewayErrors
    THEN HttpResponse(HttpStatus(passed.error), NoId, ErrorBodyId(header))
    ELSE IF passed.error = "not_implemented"
    THEN HttpResponse(501, NoId, ErrorBodyId(header))
    ELSE passed

\* RequestContextMiddleware.dispatch: an exception goes on, without header.
AttachContext(context, passed) ==
    IF passed.kind = "response" THEN [passed EXCEPT !.header = context] ELSE passed

\* Starlette's outermost handler.
ServerError(passed) ==
    IF passed.kind = "response" THEN passed ELSE HttpResponse(500, NoId, NoId)

\* Slip: the two middlewares are added in the other order.
ThroughStack_Swapped(header, context, passed) ==
    ServerError(NormaliseErrors(header, AttachContext(context, passed)))
ThroughStack(header, context, passed) ==
    ServerError(AttachContext(context, NormaliseErrors(header, passed)))

-----------------------------------------------------------------------------
(***************************************************************************)
(* The life of a request                                                   *)
(***************************************************************************)
(***************************************************************************)
(* Arrive: the request enters RequestContextMiddleware, which takes or     *)
(* makes its id.                                                           *)
(***************************************************************************)
Arrive(r, request) ==
    /\ http[r].pc = "idle"
    /\ http' = [http EXCEPT ![r].pc = "routed", ![r].request = request,
                            ![r].context = IdFrom(r, request.header, "middleware")]
    /\ UNCHANGED vars

(***************************************************************************)
(* SolveDependencies: FastAPI runs get_request_id_header in a thread; a    *)
(* body that does not fit is then answered by FastAPI itself.  GET /health *)
(* has no such dependency.                                                 *)
(***************************************************************************)
SolveDependencies(r) ==
    /\ http[r].pc = "routed"
    /\ LET request == http[r].request
       IN  http' = [http EXCEPT
              ![r].pc = IF request.well_formed THEN "handler" ELSE "result",
              ![r].dependency = IF request.endpoint = "health" THEN NoId
                                ELSE IdFrom(r, request.header, "dependency"),
              ![r].result = IF request.well_formed THEN None
                            ELSE HttpResponse(422, NoId, NoId)]
    /\ UNCHANGED vars

\* The handler ends with a result: a body, which has a request id only in a
\* ChatResponse, or an exception.
HandlerEnds(r, result) ==
    http' = [http EXCEPT ![r].pc = "result", ![r].result = result]

(***************************************************************************)
(* HandleChat, ChatEnds: the chat handler around GatewayService.chat.      *)
(***************************************************************************)
HandleChat(r) ==
    /\ http[r].pc = "handler"
    /\ http[r].request.endpoint = "chat"
    /\ http' = [http EXCEPT ![r].pc = "chat"]
    /\ Receive(r, http[r].request.body)

ChatEnds(r) ==
    /\ http[r].pc = "chat"
    /\ gw[r].pc = "replied"
    /\ HandlerEnds(r, IF IsResponse(gw[r].reply)
                      THEN HttpResponse(200, NoId, http[r].dependency)
                      ELSE Raising(gw[r].reply.status))
    /\ UNCHANGED vars

Handles(r, endpoint) ==
    /\ http[r].pc = "handler"
    /\ http[r].request.endpoint = endpoint

(***************************************************************************)
(* HandleRead: GET /policies and GET /health.                              *)
(***************************************************************************)
HandleRead(r) ==
    /\ http[r].pc = "handler"
    /\ http[r].request.endpoint \in {"list", "health"}
    /\ HandlerEnds(r, HttpResponse(200, NoId, NoId))
    /\ UNCHANGED vars

(***************************************************************************)
(* HandleValidate: POST /validate/*, with a policy or without.  Its JSON   *)
(* check may raise, on a response that cannot be decoded or on the schema  *)
(* that only a call without policy can bring along.                        *)
(***************************************************************************)
HandleValidate(r) ==
    /\ Handles(r, "validate")
    /\ LET i == http[r].request.policy_id
       IN  \/ /\ i = None \/ Registry!IsCached(i)
              /\ HandlerEnds(r, HttpResponse(200, NoId, NoId))
           \/ /\ i # None /\ ~Registry!IsCached(i)
              /\ HandlerEnds(r, Raising("policy_not_found"))
           \/ /\ \/ i = None
                 \/ /\ Registry!IsCached(i)
                    /\ "json_schema" \in EnabledOutput(Registry!Lookup(i))
              /\ HandlerEnds(r, Raising("json_error"))
    /\ UNCHANGED vars

(***************************************************************************)
(* HandleReload, ReloadFails: POST /policies/reload of one file or of the  *)
(* directory (PolicyService has the details).  A file may be missing,      *)
(* refused or unreadable; a directory only unreadable.                     *)
(***************************************************************************)
HandleReload(r) ==
    /\ Handles(r, "reload")
    /\ IF http[r].request.policy_id # None
       THEN Len(heap) < MaxPublished /\ \E p \in PolicySet : Registry!Publish(p)
       ELSE \E ps \in Directories :
               Len(heap) + Len(ps) <= MaxPublished /\ Registry!PublishAll(ps)
    /\ HandlerEnds(r, HttpResponse(200, NoId, NoId))
    /\ UNCHANGED <<gw, providers>>

ReloadFails(r) ==
    /\ Handles(r, "reload")
    /\ \E error \in {"policy_not_found", "policy_invalid", "unicode_error"} :
          /\ http[r].request.policy_id = None => error = "unicode_error"
          /\ HandlerEnds(r, Raising(error))
    /\ UNCHANGED vars

(***************************************************************************)
(* Respond: the result goes back through the stack to the client.          *)
(***************************************************************************)
Respond(r) ==
    /\ http[r].pc = "result"
    /\ http' = [http EXCEPT ![r].pc = "done",
                            ![r].reply = ThroughStack(http[r].request.header,
                                             http[r].context, http[r].result)]
    /\ UNCHANGED vars

Serve(r) ==
    \/ SolveDependencies(r)
    \/ HandleChat(r)
    \/ ChatEnds(r)
    \/ HandleRead(r)
    \/ HandleValidate(r)
    \/ HandleReload(r)
    \/ ReloadFails(r)
    \/ Respond(r)

\* The service behind the chat handler goes on.
Proceed(r) == (Chat(r) \/ Await(r)) /\ UNCHANGED http

HttpNext ==
    \/ \E r \in Reqs :
          \/ \E request \in HttpRequests : Arrive(r, request)
          \/ Serve(r)
          \/ Proceed(r)
    \/ Reload /\ UNCHANGED http

(***************************************************************************)
(* Safety only: that chat answers is a property of Gateway, and the rest   *)
(* of the stack never waits.                                               *)
(***************************************************************************)
HttpSpec == HttpInit /\ [][HttpNext]_httpvars

-----------------------------------------------------------------------------
(***************************************************************************)
(* Properties                                                              *)
(***************************************************************************)
Done(r) == http[r].pc = "done"

Headers == {q.header : q \in HttpRequests} \ {None, ""}

Sent(r, place) == {Given(header) : header \in Headers} \cup {Uuid(r, place)}

\* Which ids can stand where; GET /health has no dependency, and only an
\* error body repeats an empty header.
HttpTypeOK ==
    \A r \in Reqs :
        /\ http[r].pc \in {"idle", "routed", "handler", "chat", "result", "done"}
        /\ http[r].request \in HttpRequests \cup {None}
        /\ http[r].context \in Sent(r, "middleware") \cup {NoId}
        /\ http[r].dependency \in Sent(r, "dependency") \cup {NoId}
        /\ Done(r) =>
              /\ http[r].reply.code \in {200, 400, 404, 422, 500, 501, 502}
              /\ http[r].reply.header \in Sent(r, "middleware") \cup {NoId}
              /\ http[r].reply.body_id \in
                    Sent(r, "dependency") \cup {Given(""), Dash, NoId}

(***************************************************************************)
(* Whatever the gateway itself answers, a result, an error of its own or a *)
(* rejected body, can be found by its X-Request-ID header; when the client *)
(* sent an id, header, ChatResponse and error body all carry that id       *)
(* (middleware.py:20, 44, 63; dependencies.py:13).                         *)
(***************************************************************************)
RepliesTraceable ==
    \A r \in Reqs : Done(r) =>
        LET reply == http[r].reply
            header == http[r].request.header
        IN  /\ reply.code # 500 => reply.header # NoId
            /\ header \notin {None, ""} =>
                  /\ reply.header \in {NoId, Given(header)}
                  /\ reply.body_id \in {NoId, Given(header)}

Last(s) == s[Len(s)]

(***************************************************************************)
(* The status of a chat reply tells what happened to the request, seen     *)
(* from its policy and its provider traffic: 404 that no policy was found, *)
(* 501 that the policy has another strategy, 400 that the chain came to a  *)
(* provider that does not exist, 502 that the last provider asked failed   *)
(* and the chain came to no such provider, a bare 500 that it answered     *)
(* without choices or with a text on which the JSON check of the policy    *)
(* raised, 422 that the body was refused before anything was done; and 200 *)
(* none of these (exceptions.py, middleware.py:57-74, json_schema.py:34).  *)
(***************************************************************************)
StatusTellsCause ==
    \A r \in Reqs : (Done(r) /\ http[r].request.endpoint = "chat") =>
        LET code == http[r].reply.code
            resolved == gw[r].ref # 0
            chain == Len(Governing(r).provider.fallbacks) + 1
            n == Len(asked[r])
            otherStrategy == Governing(r).provider.strategy # "sequential"
            unserved == /\ n < chain
                        /\ \A k \in 1 .. n : Orchestrator!Transient(answers[r][k])
                        /\ Route(r, n + 1).vendor \notin LITELLM_PREFIXES
            undecoded == /\ Last(answers[r]).kind = "completion"
                         /\ Unreadable(r, Last(answers[r]).content)
        IN  CASE code = 422 -> gw[r].pc = "idle" /\ n = 0
              [] code = 404 -> ~resolved /\ n = 0
              [] code = 501 -> resolved /\ n = 0 /\ otherStrategy
              [] code = 400 -> resolved /\ unserved /\ ~otherStrategy
              [] code = 502 -> /\ resolved /\ n > 0 /\ ~unserved
                               /\ Last(answers[r]).kind \in Exceptions
              [] code = 500 -> /\ resolved /\ n > 0
                               /\ Last(answers[r]) = EmptyAnswer \/ undecoded
              [] code = 200 -> /\ resolved
                               /\ n > 0 => /\ ~otherStrategy /\ ~undecoded
                                           /\ Last(answers[r]).kind = "completion"
              [] OTHER -> FALSE
=============================================================================
