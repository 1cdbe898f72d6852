------------------------------- MODULE Gateway --------------------------------
(***************************************************************************)
(* GatewayService.chat: the life of the chat requests, composed with the   *)
(* provider orchestrator, the retry engine and the policy registry.  Each  *)
(* request is one asyncio task; the registry changes under it because the  *)
(* hot reloader runs in another thread and other tasks reload policies.    *)
(* `gw' holds the locals of chat for each request.                         *)
(***************************************************************************)
EXTENDS Guardrails

CONSTANTS
    Reqs,              \* chat requests
    ChatRequests,      \* their bodies
    Histories,         \* values of context
    DefaultId,         \* default_policy_id
    PolicySet,         \* policies a reload may load
    Directories,       \* what a reload of everything may load
    MaxPublished       \* bound on the policy objects published

VARIABLES
    gw,                      \* locals of chat
    exec, retry,             \* locals of the orchestrator and the engine
    asked, answers,          \* provider traffic of each request
    cache, heap              \* policy registry

vars == <<gw, exec, retry, asked, answers, cache, heap>>

RetryContexts ==
    [prompt : Prompts, policy : PolicyRecords, conversation_history : Histories]

Registry == INSTANCE PolicyRegistry WITH Objects <- PolicySet

Orchestrator == INSTANCE ProviderOrchestrator WITH
    Calls <- Reqs, Requests <- ProviderRequests,
    ConfigLists <- Seq(Models), Strategies <- {"sequential"}

Engine == INSTANCE RetryEngine WITH Calls <- Reqs, Contexts <- RetryContexts

registry == <<cache, heap>>
traffic == <<asked, answers>>
providers == <<exec, retry, asked, answers>>

ASSUME GatewayAssumption ==
    /\ DefaultId \in PolicyIds
    /\ PolicySet \subseteq PolicyRecords
    /\ \A body \in ChatRequests :
          /\ body.prompt \in Prompts
          /\ body.policy_id \in PolicyIds \cup {None}
          /\ body.model \in ModelNames \cup {None}
          /\ body.provider \in Vendors \cup {None}
          /\ body.context \in Histories
    /\ \A ps \in Directories :
          ps \in Seq(PolicySet) /\ Registry!DistinctIds(ps)

\* None is told from a policy, a vendor, an error and a strategy.
ASSUME NoneAssumption ==
    /\ None \notin PolicyRecords \cup Vendors \cup Engine!RunErrors
    /\ \A p \in PolicySet : p.provider.strategy # None

-----------------------------------------------------------------------------
\* A ChatResponse, or the domain error that leaves chat.
NoReply == [status |-> "none"]

ErrorReply(error) == [status |-> error]

IsResponse(reply) == reply.status = "ok"

NotReceived ==
    [pc |-> "idle", body |-> None, ref |-> 0, own |-> None, input |-> None,
     output |-> None, llm |-> None, violations |-> {}, retries |-> 0,
     reply |-> NoReply]

Init ==
    /\ gw = [r \in Reqs |-> NotReceived]
    /\ Orchestrator!Init
    /\ retry = [r \in Reqs |-> Engine!NotStarted]
    /\ \E ps \in Directories :
          /\ heap = ps
          /\ cache = [i \in PolicyIds |->
                IF \E k \in 1 .. Len(ps) : ps[k].id = i
                THEN CHOOSE k \in 1 .. Len(ps) : ps[k].id = i
                ELSE Registry!Absent]

\* The policy object a request holds: its own copy, or a published object.
PolicyOf(r) == IF gw[r].own # None THEN gw[r].own ELSE heap[gw[r].ref]

\* policy_id or self._default_id
PolicyId(body) == IF body.policy_id = None THEN DefaultId ELSE body.policy_id

\* Model and provider of a request replace those of the primary endpoint.
Overridden(policy, body) ==
    [policy EXCEPT
        !.provider.primary.model = body.model,
        !.provider.primary.name = IF body.provider # None THEN body.provider ELSE @]

\* Slip: the published object itself is changed instead of a copy.
Hold_InPlace(r, ref, body) ==
    /\ gw' = [gw EXCEPT ![r].pc = "input", ![r].ref = ref]
    /\ heap' = IF body.model # None
               THEN [heap EXCEPT ![ref] = Overridden(@, body)] ELSE heap
    /\ UNCHANGED cache

\* The request keeps the object, or a deep copy with its override.
Hold(r, ref, body) ==
    /\ gw' = [gw EXCEPT
          ![r].pc = "input",
          ![r].ref = ref,
          ![r].own = IF body.model # None THEN Overridden(heap[ref], body)
                                          ELSE None]
    /\ UNCHANGED registry

Reply(r, reply) ==
    gw' = [gw EXCEPT ![r].pc = "replied", ![r].reply = reply]

-----------------------------------------------------------------------------
(***************************************************************************)
(* Receive: the router hands a request body to chat.                       *)
(***************************************************************************)
Receive(r, body) ==
    /\ gw[r].pc = "idle"
    /\ gw' = [gw EXCEPT ![r].pc = "resolve", ![r].body = body]
    /\ UNCHANGED <<providers, registry>>

(***************************************************************************)
(* Resolve, PolicyNotFound: step 1 and 2 of chat.                          *)
(***************************************************************************)
Resolve(r) ==
    /\ gw[r].pc = "resolve"
    /\ Registry!IsCached(PolicyId(gw[r].body))
    /\ Hold(r, cache[PolicyId(gw[r].body)], gw[r].body)
    /\ UNCHANGED providers

\* Slip: chat looks the policy up again until it turns up.
PolicyNotFound_LooksAgain(r) ==
    /\ gw[r].pc = "resolve"
    /\ ~Registry!IsCached(PolicyId(gw[r].body))
    /\ UNCHANGED <<gw, providers, registry>>
PolicyNotFound(r) ==
    /\ gw[r].pc = "resolve"
    /\ ~Registry!IsCached(PolicyId(gw[r].body))
    /\ Reply(r, ErrorReply("policy_not_found"))
    /\ UNCHANGED <<providers, registry>>

\* The action of the prompt-injection guardrail stands for all of them.
\* Slip: it is compared with the wrong action.
Blocks_OnWarn(policy) ==
    policy.input_guardrails["prompt_injection"].action = "warn"
Blocks(policy) ==
    policy.input_guardrails["prompt_injection"].action = "block"

Response(text, provider, violations, risk, retries, raw, input_valid, output_valid) ==
    [status |-> "ok", response |-> text, provider |-> provider,
     violations |-> violations, risk_score |-> risk, retries |-> retries,
     fallback_used |-> raw.fallback_used, attempts |-> raw.attempts,
     provider_chain |-> raw.provider_chain, input_valid |-> input_valid,
     output_valid |-> output_valid]

\* The text of a response: a completion, or the policy's fallback message.
Completed(content) == [kind |-> "completion", text |-> content]
FallbackOf(r) ==
    [kind |-> "fallback", text |-> PolicyOf(r).retry.fallback_message]

NothingTried == [fallback_used |-> FALSE, attempts |-> 0, provider_chain |-> <<>>]

InputResult(r) == ValidateInput(gw[r].body.prompt, PolicyOf(r))

(***************************************************************************)
(* Block, AdmitInput: step 3.  A prompt with violations is answered with   *)
(* the fallback message, or goes on with its violations on record.         *)
(***************************************************************************)
Block(r) ==
    /\ gw[r].pc = "input"
    /\ ~InputResult(r).passed
    /\ Blocks(PolicyOf(r))
    /\ Reply(r, Response(FallbackOf(r), PolicyOf(r).provider.primary.name,
                         InputResult(r).violations, InputResult(r).risk_score,
                         0, NothingTried, FALSE, FALSE))
    /\ UNCHANGED <<providers, registry>>

AdmitInput(r) ==
    /\ gw[r].pc = "input"
    /\ InputResult(r).passed \/ ~Blocks(PolicyOf(r))
    /\ gw' = [gw EXCEPT ![r].pc = "call", ![r].input = InputResult(r),
                        ![r].violations = InputResult(r).violations]
    /\ UNCHANGED <<providers, registry>>

ProviderConfigsOf(policy) ==
    <<LitellmModel(policy)>>
        \o [k \in 1 .. Len(policy.provider.fallbacks) |->
                Routed(policy.provider.fallbacks[k])]

ProviderRequestOf(r) ==
    [model |-> LitellmModel(PolicyOf(r)),
     messages |-> [history |-> gw[r].body.context,
                   prompt |-> Engine!Plain(gw[r].body.prompt)],
     timeout_seconds |-> PolicyOf(r).provider.primary.timeout_seconds]

(***************************************************************************)
(* CallProviders: steps 4 and 5, up to the await of the orchestrator.      *)
(***************************************************************************)
CallProviders(r) ==
    /\ gw[r].pc = "call"
    /\ gw' = [gw EXCEPT ![r].pc = "providers"]
    /\ Orchestrator!Execute(r, ProviderRequestOf(r),
                            ProviderConfigsOf(PolicyOf(r)),
                            PolicyOf(r).provider.strategy)
    /\ UNCHANGED <<retry, registry>>

(***************************************************************************)
(* ProvidersRaised: whatever the orchestrator raises leaves chat.          *)
(***************************************************************************)
ProvidersRaised(r) ==
    /\ gw[r].pc = "providers"
    /\ exec[r].pc = "raised"
    /\ Reply(r, ErrorReply(exec[r].error))
    /\ UNCHANGED <<providers, registry>>

OutputResult(r, content) ==
    ValidateOutput(content, PolicyOf(r), gw[r].body.prompt)

\* Slip: max_attempts = 0 is taken for one attempt.
Retries_AtLeastOnce(r, result) == ~result.passed
Retries(r, result) == ~result.passed /\ PolicyOf(r).retry.max_attempts > 0

\* Slip: step 6 reads the policy again instead of using the request's own.
CheckOutput_FreshPolicy(r) ==
    /\ gw[r].pc = "providers"
    /\ exec[r].pc = "returned"
    /\ Registry!IsCached(PolicyId(gw[r].body))
    /\ ~OutputRaises(exec[r].response.content,
                     Registry!Lookup(PolicyId(gw[r].body)))
    /\ LET content == exec[r].response.content
           result == ValidateOutput(content,
                         Registry!Lookup(PolicyId(gw[r].body)),
                         gw[r].body.prompt)
       IN  gw' = [gw EXCEPT
              ![r].pc = IF Retries(r, result) THEN "retry" ELSE "finish",
              ![r].llm = exec[r].response,
              ![r].output = result,
              ![r].violations = @ \cup result.violations]
    /\ UNCHANGED <<providers, registry>>

(***************************************************************************)
(* CheckOutput: step 6 and the condition of step 7.                        *)
(***************************************************************************)
CheckOutput(r) ==
    /\ gw[r].pc = "providers"
    /\ exec[r].pc = "returned"
    /\ ~OutputRaises(exec[r].response.content, PolicyOf(r))
    /\ LET content == exec[r].response.content
           result == OutputResult(r, content)
       IN  gw' = [gw EXCEPT
              ![r].pc = IF Retries(r, result) THEN "retry" ELSE "finish",
              ![r].llm = exec[r].response,
              ![r].output = result,
              ![r].violations = @ \cup result.violations]
    /\ UNCHANGED <<providers, registry>>

(***************************************************************************)
(* OutputRaised: step 6 raises, which leaves chat.                         *)
(***************************************************************************)
OutputRaised(r) ==
    /\ gw[r].pc = "providers"
    /\ exec[r].pc = "returned"
    /\ OutputRaises(exec[r].response.content, PolicyOf(r))
    /\ Reply(r, ErrorReply("json_error"))
    /\ UNCHANGED <<providers, registry>>

(***************************************************************************)
(* EnterRetry: step 7.  The primary model's provider exists: the           *)
(* orchestrator has asked it first.                                        *)
(***************************************************************************)
EnterRetry(r) ==
    /\ gw[r].pc = "retry"
    /\ gw' = [gw EXCEPT ![r].pc = "retrying"]
    /\ Engine!Run(r, [prompt |-> gw[r].body.prompt, policy |-> PolicyOf(r),
                      conversation_history |-> gw[r].body.context])
    /\ UNCHANGED <<exec, registry>>

\* raw of a retried response has none of the orchestrator's keys, so the
\* reply shows the defaults of raw.get.
\* Slip: the chain is the one value raw.get returns for a missing key.
Retried_ChainOfNone(response) ==
    [content |-> response.content, provider |-> response.provider,
     fallback_used |-> FALSE, attempts |-> 1, provider_chain |-> <<None>>]
Retried(response) ==
    [content |-> response.content, provider |-> response.provider,
     fallback_used |-> FALSE, attempts |-> 1, provider_chain |-> <<>>]

\* Slip: the violations of the first answer stay on the list.
RetrySucceeded_KeepsOld(r) ==
    /\ gw[r].pc = "retrying"
    /\ retry[r].pc = "returned"
    /\ gw' = [gw EXCEPT
          ![r].pc = "finish",
          ![r].llm = Retried(retry[r].response),
          ![r].output = OutputResult(r, retry[r].response.content),
          ![r].retries = retry[r].attempt]
    /\ UNCHANGED <<providers, registry>>

(***************************************************************************)
(* RetrySucceeded: the engine's answer replaces the first one.             *)
(***************************************************************************)
RetrySucceeded(r) ==
    /\ gw[r].pc = "retrying"
    /\ retry[r].pc = "returned"
    /\ LET result == OutputResult(r, retry[r].response.content)
       IN  gw' = [gw EXCEPT
              ![r].pc = "finish",
              ![r].llm = Retried(retry[r].response),
              ![r].output = result,
              ![r].retries = retry[r].attempt,
              ![r].violations = gw[r].input.violations \cup result.violations]
    /\ UNCHANGED <<providers, registry>>

\* Slips: the rejected text is sent instead of the fallback; the retries
\* are not counted.
RetryExhausted_LastText(r) ==
    /\ gw[r].pc = "retrying"
    /\ retry[r].error = "max_retries_exceeded"
    /\ Reply(r, Response(Completed(gw[r].llm.content), gw[r].llm.provider,
                         gw[r].violations, RiskScore(gw[r].violations),
                         PolicyOf(r).retry.max_attempts, gw[r].llm,
                         gw[r].input.passed, FALSE))
    /\ UNCHANGED <<providers, registry>>

RetryExhausted_NotCounted(r) ==
    /\ gw[r].pc = "retrying"
    /\ retry[r].error = "max_retries_exceeded"
    /\ Reply(r, Response(FallbackOf(r), gw[r].llm.provider, gw[r].violations,
                         RiskScore(gw[r].violations), gw[r].retries, gw[r].llm,
                         gw[r].input.passed, FALSE))
    /\ UNCHANGED <<providers, registry>>

(***************************************************************************)
(* RetryExhausted: MaxRetriesExceededError becomes the fallback reply, the *)
(* rest of which still describes the first answer.                         *)
(***************************************************************************)
RetryExhausted(r) ==
    /\ gw[r].pc = "retrying"
    /\ retry[r].error = "max_retries_exceeded"
    /\ Reply(r, Response(FallbackOf(r), gw[r].llm.provider, gw[r].violations,
                         RiskScore(gw[r].violations),
                         PolicyOf(r).retry.max_attempts, gw[r].llm,
                         gw[r].input.passed, FALSE))
    /\ UNCHANGED <<providers, registry>>

(***************************************************************************)
(* RetryRaised: any other exception of the engine leaves chat.             *)
(***************************************************************************)
RetryRaised(r) ==
    /\ gw[r].pc = "retrying"
    /\ retry[r].error \in {"provider_error", "index_error", "json_error"}
    /\ Reply(r, ErrorReply(retry[r].error))
    /\ UNCHANGED <<providers, registry>>

(***************************************************************************)
(* Finish: step 8, with whatever text is at hand.                          *)
(***************************************************************************)
Finish(r) ==
    /\ gw[r].pc = "finish"
    /\ Reply(r, Response(Completed(gw[r].llm.content), gw[r].llm.provider,
                         gw[r].violations, RiskScore(gw[r].violations),
                         gw[r].retries, gw[r].llm, gw[r].input.passed,
                         gw[r].output.passed))
    /\ UNCHANGED <<providers, registry>>

-----------------------------------------------------------------------------
\* The steps of chat itself.
Chat(r) ==
    \/ Resolve(r)
    \/ PolicyNotFound(r)
    \/ Block(r)
    \/ AdmitInput(r)
    \/ CallProviders(r)
    \/ ProvidersRaised(r)
    \/ CheckOutput(r)
    \/ OutputRaised(r)
    \/ EnterRetry(r)
    \/ RetrySucceeded(r)
    \/ RetryExhausted(r)
    \/ RetryRaised(r)
    \/ Finish(r)

\* The steps of what it awaits.
Await(r) ==
    \/ Orchestrator!Progress(r) /\ UNCHANGED <<gw, retry, registry>>
    \/ Engine!Progress(r) /\ UNCHANGED <<gw, exec, registry>>

\* A reload publishes one policy or a whole directory.
Reload ==
    /\ \/ /\ Len(heap) < MaxPublished
          /\ \E p \in PolicySet : Registry!Publish(p)
       \/ \E ps \in Directories :
             /\ Len(heap) + Len(ps) <= MaxPublished
             /\ Registry!PublishAll(ps)
    /\ UNCHANGED <<gw, providers>>

Next ==
    \/ \E r \in Reqs :
          \/ \E body \in ChatRequests : Receive(r, body)
          \/ Chat(r)
          \/ Await(r)
    \/ Reload

(***************************************************************************)
(* The event loop runs every ready task and provider calls end, at the     *)
(* latest at their timeout.  Nobody has to send requests or to reload.     *)
(***************************************************************************)
Fairness == \A r \in Reqs : WF_vars(Chat(r) \/ Await(r))

Spec == Init /\ [][Next]_vars /\ Fairness
=============================================================================
