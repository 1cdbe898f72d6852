----------------------------- MODULE Gateway_proofs -----------------------------
(***************************************************************************)
(* Proofs about Gateway, for every set of requests, policies, texts,       *)
(* guardrail findings and outcomes, any number of fallbacks and retries,   *)
(* and whatever is reloaded in between.                                    *)
(***************************************************************************)
EXTENDS GatewayProperties, Guardrails_proofs, SequenceTheorems,
        WellFoundedInduction

\* What can be sent on behalf of a request.
Conversations == [history : Histories, prompt : Engine!UserMessages]

Sendable ==
    [model : Models, messages : Conversations, timeout_seconds : Timeouts]

RegistryProofs == INSTANCE PolicyRegistry_proofs WITH Objects <- PolicySet

OrchestratorProofs == INSTANCE ProviderOrchestrator_proofs WITH
    Calls <- Reqs, MessageLists <- Conversations, Requests <- Sendable,
    ConfigLists <- Seq(Models),
    Strategies <- {"sequential", "random", "lowest_latency", "cheapest"}

-----------------------------------------------------------------------------
(***************************************************************************)
(* Types                                                                   *)
(***************************************************************************)
AllViolations == Violations(InputGuardrails \cup OutputGuardrails)

Verdicts ==
    [passed : BOOLEAN, violations : SUBSET AllViolations, risk_score : 0 .. 100]

\* An answer as chat holds it: the orchestrator's response, or the engine's.
RetriedAnswers ==
    [content : Contents, provider : Vendors, fallback_used : BOOLEAN,
     attempts : Nat, provider_chain : Seq(Vendors)]

LlmAnswers == OrchestratorProofs!Responses \cup RetriedAnswers

ErrorNames ==
    {"policy_not_found", "provider_error", "index_error", "json_error"}
    \cup OrchestratorProofs!Errors

ErrorReplies == {ErrorReply(error) : error \in ErrorNames}

ChatResponses ==
    [status : {"ok"},
     response : [kind : {"completion", "fallback"}, text : Contents \cup Fallbacks],
     provider : Vendors, violations : SUBSET AllViolations,
     risk_score : 0 .. 100, retries : Nat, fallback_used : BOOLEAN,
     attempts : Nat, provider_chain : Seq(Vendors), input_valid : BOOLEAN,
     output_valid : BOOLEAN]

Chats ==
    [pc : {"idle", "resolve", "input", "call", "providers", "retry",
           "retrying", "finish", "replied"},
     body : ChatRequests \cup {None},
     ref : Nat,
     own : PolicyRecords \cup {None},
     input : Verdicts \cup {None},
     output : Verdicts \cup {None},
     llm : LlmAnswers \cup {None},
     violations : SUBSET AllViolations,
     retries : Nat,
     reply : {NoReply} \cup ErrorReplies \cup ChatResponses]

Runs ==
    [pc : {"idle", "loop", "awaiting", "returned", "raised"},
     ctx : RetryContexts \cup {None},
     attempt : Nat,
     current_prompt : Engine!UserMessages \cup {None},
     response : [content : Contents, provider : Vendors] \cup {None},
     error : Engine!RunErrors \cup {None}]

Types ==
    /\ gw \in [Reqs -> Chats]
    /\ retry \in [Reqs -> Runs]
    /\ OrchestratorProofs!TypeOK
    /\ Registry!TypeOK
    /\ Registry!KeyedById
    /\ \A r \in Reqs : gw[r].ref \in 0 .. Len(heap)

-----------------------------------------------------------------------------
(***************************************************************************)
(* What is known of one request.  g, e and t are the locals of chat, of    *)
(* the orchestrator and of the engine, a and b the traffic of the request, *)
(* p the published policy it resolved to.                                  *)
(***************************************************************************)
Governed(r) == IF gw[r].ref = 0 THEN None ELSE Governing(r)

\* The policy the request works with.
Held(g, p) == IF g.body.model # None THEN Overridden(p, g.body) ELSE p

PromptFinds(g, p) ==
    {v \in PromptFlags[g.body.prompt] : p.input_guardrails[v.guardrail].enabled}

TextFinds(g, p, content) ==
    {v \in OutputFlags[g.body.prompt, content] :
        p.output_guardrails[v.guardrail].enabled}

\* The policy has answers decoded, which fails on this one.
Unread(p, content) ==
    content \in Undecodable /\ p.output_guardrails["json_schema"].enabled

Admits(g, p) ==
    \/ PromptFinds(g, p) = {}
    \/ p.input_guardrails["prompt_injection"].action # "block"

Completions(b) == {k \in 1 .. Len(b) : b[k].kind = "completion"}

First(a, b) ==
    IF Completions(b) = {} THEN Len(a)
    ELSE CHOOSE k \in Completions(b) : \A j \in Completions(b) : k <= j

Model(g, p, k) ==
    LET point == IF k = 1 THEN p.provider.primary
                 ELSE p.provider.fallbacks[k - 1]
        name == IF k = 1 /\ g.body.model # None /\ g.body.provider # None
                THEN g.body.provider ELSE point.name
        model == IF k = 1 /\ g.body.model # None THEN g.body.model
                 ELSE point.model
    IN  [vendor |-> IF model.vendor = None THEN name ELSE model.vendor,
         base |-> model.base]

FirstRequest(g, p) ==
    [model |-> LitellmModel(Held(g, p)),
     messages |-> [history |-> g.body.context,
                   prompt |-> Engine!Plain(g.body.prompt)],
     timeout_seconds |-> Held(g, p).provider.primary.timeout_seconds]

Context(g, p) ==
    [prompt |-> g.body.prompt, policy |-> Held(g, p),
     conversation_history |-> g.body.context]

-----------------------------------------------------------------------------
(***************************************************************************)
(* The inductive invariant                                                 *)
(***************************************************************************)
\* The policy of the request, with or without an override.
Resolved(g, p) ==
    /\ g.pc # "idle" => g.body \in ChatRequests
    /\ g.pc \in {"idle", "resolve"} => g.ref = 0
    /\ g.pc \in {"input", "call", "providers", "retry", "retrying", "finish"}
          => g.ref # 0
    /\ g.ref = 0 => g.own = None
    /\ g.ref # 0 => /\ p \in PolicySet
                    /\ g.own = IF g.body.model # None THEN Overridden(p, g.body)
                               ELSE None

\* What has not been started yet.
NotYet(g, e, t, a, b) ==
    /\ g.pc \in {"idle", "resolve", "input", "call"} =>
          e.pc = "idle" /\ a = <<>> /\ b = <<>>
    /\ g.pc \in {"idle", "resolve", "input", "call", "providers", "retry"} =>
          t.pc = "idle" /\ g.retries = 0

\* What is not awaited makes no steps.
Quiet(g, e, t) ==
    /\ g.pc # "providers" => e.pc \notin {"loop", "awaiting"}
    /\ g.pc # "retrying" => t.pc \notin {"loop", "awaiting"}

\* The prompt was screened, and its violations are on record.
Screened(g, a, p) ==
    /\ a # <<>> => g.ref # 0 /\ Admits(g, p)
    /\ g.pc \in {"call", "providers", "retry", "retrying", "finish"} =>
          /\ Admits(g, p)
          /\ g.input \in Verdicts /\ g.input.violations = PromptFinds(g, p)
    /\ g.pc \in {"call", "providers"} => g.violations = PromptFinds(g, p)

\* The orchestrator works on the policy's endpoints.
Entered(g, e, p) ==
    g.pc = "providers" =>
        \/ /\ e.pc # "idle"
           /\ p.provider.strategy = "sequential"
           /\ e.configs = ProviderConfigsOf(Held(g, p))
           /\ e.request = FirstRequest(g, p)
        \/ /\ p.provider.strategy # "sequential"
           /\ e.pc = "raised" /\ e.error = "not_implemented"
           /\ e.configs = <<>>

Follows(g, a, b, p) ==
    a # <<>> =>
        LET m == First(a, b)
        IN  /\ p.provider.strategy = "sequential"
            /\ m <= Len(p.provider.fallbacks) + 1
            /\ \A k \in 1 .. Len(a) :
                  a[k].model = Model(g, p, IF k <= m THEN k ELSE 1)
            /\ Len(a) - m <= p.retry.max_attempts

\* The rejected first answer is at hand while there is a retry.
Rejected(g, a, b, p) ==
    g.pc \in {"retry", "retrying"} =>
        LET m == First(a, b)
        IN  /\ m \in 1 .. Len(b)
            /\ b[m] = Completion(g.llm.content)
            /\ g.llm \in LlmAnswers
            /\ ~Unread(p, g.llm.content)
            /\ TextFinds(g, p, g.llm.content) # {}
            /\ g.violations = PromptFinds(g, p) \cup TextFinds(g, p, g.llm.content)
            /\ p.retry.max_attempts > 0
            /\ g.pc = "retry" => Len(a) = m /\ Len(b) = m

\* The engine's calls are those after the first answer.
Retrying(g, t, a, b, p) ==
    g.pc = "retrying" =>
        /\ t.pc # "idle"
        /\ t.ctx = Context(g, p)
        /\ Len(a) = First(a, b) + t.attempt
        /\ t.attempt <= p.retry.max_attempts
        /\ Len(a) = IF t.pc = "awaiting" THEN Len(b) + 1 ELSE Len(b)
        /\ t.pc \in {"loop", "awaiting"} =>
              t.current_prompt \in Engine!UserMessages
        /\ t.pc # "raised" => t.error = None
        /\ t.error = "max_retries_exceeded" => t.attempt = p.retry.max_attempts
        /\ t.pc = "loop" \/ t.error = "max_retries_exceeded" =>
              b[Len(b)].kind = "completion" /\ ~Unread(p, b[Len(b)].content)
        /\ t.error = "provider_error" => b[Len(b)].kind \in Exceptions
        /\ t.error = "index_error" => b[Len(b)] = EmptyAnswer
        /\ t.error = "json_error" =>
              b[Len(b)].kind = "completion" /\ Unread(p, b[Len(b)].content)
        /\ t.pc = "returned" =>
              /\ t.response \in [content : Contents, provider : Vendors]
              /\ ~Unread(p, t.response.content)
              /\ b[Len(b)] = Completion(t.response.content)
              /\ TextFinds(g, p, t.response.content) = {}

\* The text that is about to be sent is the last answer.
Finishing(g, a, b, p) ==
    g.pc = "finish" =>
        /\ Len(a) = Len(b) /\ Len(b) > 0
        /\ g.llm \in LlmAnswers
        /\ b[Len(b)] = Completion(g.llm.content)
        /\ ~Unread(p, g.llm.content)
        /\ g.violations = PromptFinds(g, p) \cup TextFinds(g, p, g.llm.content)
        /\ g.output \in Verdicts
        /\ g.output.passed <=> TextFinds(g, p, g.llm.content) = {}
        /\ TextFinds(g, p, g.llm.content) # {} => p.retry.max_attempts = 0
        /\ g.retries = Len(a) - First(a, b)

Answers(g) == g.pc = "replied" /\ IsResponse(g.reply)

\* What a reply says is true of the policy and the traffic.
Tells(reply, g, a, b, p) ==
    LET text == reply.response.text
        sent == reply.response.kind = "completion"
        shown == IF sent THEN TextFinds(g, p, text)
                 ELSE IF a = <<>> THEN {}
                 ELSE TextFinds(g, p, b[First(a, b)].content)
    IN  /\ reply.retries = Len(a) - First(a, b)
        /\ reply.violations = PromptFinds(g, p) \cup shown
        /\ reply.risk_score = RiskScore(reply.violations)
        /\ sent => /\ a # <<>> /\ Len(b) > 0
                   /\ b[Len(b)] = Completion(text)
                   /\ ~Unread(p, text)
                   /\ reply.output_valid <=> TextFinds(g, p, text) = {}
                   /\ TextFinds(g, p, text) # {} => p.retry.max_attempts = 0
        /\ ~sent /\ a # <<>> => /\ Len(a) > 1 /\ b[Len(b)].kind = "completion"
                               /\ ~Unread(p, b[Len(b)].content)

Truthful(g, a, b, p) == Answers(g) => g.ref # 0 /\ Tells(g.reply, g, a, b, p)

\* The chain came to a provider that does not exist.
Unserved(g, a, b, p) ==
    /\ Len(a) < Len(p.provider.fallbacks) + 1
    /\ \A k \in 1 .. Len(a) : Orchestrator!Transient(b[k])
    /\ Model(g, p, Len(a) + 1).vendor \notin LITELLM_PREFIXES

\* What an error that leaves chat says of the policy and the traffic; a
\* value_error and no_providers cannot come from a policy.
Cause(error, g, a, b, p) ==
    /\ error \in ErrorNames \ {"value_error", "no_providers"}
    /\ error = "policy_not_found" => g.ref = 0 /\ a = <<>>
    /\ error # "policy_not_found" => g.ref # 0 /\ Len(b) = Len(a)
    /\ error = "not_implemented" =>
          a = <<>> /\ p.provider.strategy # "sequential"
    /\ error = "provider_not_found" =>
          p.provider.strategy = "sequential" /\ Unserved(g, a, b, p)
    /\ error \in {"provider_error", "non_recoverable", "all_providers_failed"} =>
          a # <<>> /\ b[Len(b)].kind \in Exceptions /\ ~Unserved(g, a, b, p)
    /\ error = "index_error" => a # <<>> /\ b[Len(b)] = EmptyAnswer
    /\ error = "json_error" =>
          /\ a # <<>> /\ b[Len(b)].kind = "completion"
          /\ Unread(p, b[Len(b)].content)

Blames(g, a, b, p) ==
    g.pc = "replied" /\ ~IsResponse(g.reply) =>
        Cause(g.reply.status, g, a, b, p)

Coherent(g, e, t, a, b, p) ==
    /\ Resolved(g, p) /\ NotYet(g, e, t, a, b) /\ Quiet(g, e, t)
    /\ Screened(g, a, p)
    /\ Entered(g, e, p) /\ Follows(g, a, b, p) /\ Rejected(g, a, b, p)
    /\ Retrying(g, t, a, b, p) /\ Finishing(g, a, b, p)
    /\ Truthful(g, a, b, p) /\ Blames(g, a, b, p)

\* Until the orchestrator is done, its own invariant holds of the request.
Orchestrated(r) ==
    gw[r].pc \in {"idle", "resolve", "input", "call", "providers"} =>
        /\ OrchestratorProofs!Consistent(r)
        /\ OrchestratorProofs!Recorded(r)
        /\ OrchestratorProofs!TruthfulMetadata(r)
        /\ OrchestratorProofs!Explained(r)

Own(r) ==
    /\ Coherent(gw[r], exec[r], retry[r], asked[r], answers[r], Governed(r))
    /\ Orchestrated(r)

Inv == Types /\ \A r \in Reqs : Own(r)

-----------------------------------------------------------------------------
(***************************************************************************)
(* The orchestrator's proofs apply                                         *)
(***************************************************************************)
LEMMA SameModels ==
    /\ Models = OrchestratorProofs!Models
    /\ Sendable = OrchestratorProofs!ProviderRequests
    /\ AllOutcomes = OrchestratorProofs!AllOutcomes
<1>1. Models = OrchestratorProofs!Models
  BY DEF Models, OrchestratorProofs!Models
<1>2. Sendable = OrchestratorProofs!ProviderRequests
  BY <1>1 DEF Sendable, OrchestratorProofs!ProviderRequests
<1>3. AllOutcomes = OrchestratorProofs!AllOutcomes
  BY DEF AllOutcomes, OrchestratorProofs!AllOutcomes,
         Completion, OrchestratorProofs!Completion,
         EmptyAnswer, OrchestratorProofs!EmptyAnswer,
         Raised, OrchestratorProofs!Raised,
         Exceptions, OrchestratorProofs!Exceptions
<1> QED
  BY <1>1, <1>2, <1>3

(***************************************************************************)
(* What the orchestrator assumes of its constants is so of the requests    *)
(* and the endpoints of policies.                                          *)
(***************************************************************************)
LEMMA OrchestratorAssumptions ==
    /\ LITELLM_PREFIXES \subseteq Vendors
    /\ ExcTexts \subseteq SUBSET OrchestratorProofs!RECOVERABLE_FAILURE_MARKERS
    /\ Outcomes \subseteq OrchestratorProofs!AllOutcomes
    /\ Sendable \subseteq OrchestratorProofs!ProviderRequests
    /\ Seq(Models)
         \subseteq Seq(OrchestratorProofs!Models \cup {OrchestratorProofs!NoModel})
<1>1. ASSUME NEW s \in Seq(Models)
      PROVE  s \in Seq(OrchestratorProofs!Models \cup {OrchestratorProofs!NoModel})
  BY SameModels
<1>2. RECOVERABLE_FAILURE_MARKERS = OrchestratorProofs!RECOVERABLE_FAILURE_MARKERS
  BY DEF RECOVERABLE_FAILURE_MARKERS,
         OrchestratorProofs!RECOVERABLE_FAILURE_MARKERS
<1> QED
  BY <1>1, <1>2, SameModels, PrefixesAssumption, ExcTextsAssumption,
     OutcomesAssumption

(***************************************************************************)
(* The steps of the orchestrator the gateway awaits are those the proofs   *)
(* are about.                                                              *)
(***************************************************************************)
LEMMA SameProgress ==
    ASSUME NEW r \in Reqs, Orchestrator!Progress(r)
    PROVE  OrchestratorProofs!Progress(r)
BY DEF Orchestrator!Progress, OrchestratorProofs!Progress,
       Orchestrator!RejectConfig, OrchestratorProofs!RejectConfig,
       Orchestrator!RejectVendor, OrchestratorProofs!RejectVendor,
       Orchestrator!Ask, OrchestratorProofs!Ask,
       Orchestrator!Succeed, OrchestratorProofs!Succeed,
       Orchestrator!FailOver, OrchestratorProofs!FailOver,
       Orchestrator!Abort, OrchestratorProofs!Abort,
       Orchestrator!Crash, OrchestratorProofs!Crash,
       Orchestrator!Exhaust, OrchestratorProofs!Exhaust,
       Orchestrator!Answer, OrchestratorProofs!Answer,
       Orchestrator!Raise, OrchestratorProofs!Raise,
       Orchestrator!HasNext, OrchestratorProofs!HasNext,
       Orchestrator!NextModel, OrchestratorProofs!NextModel,
       Orchestrator!Current, OrchestratorProofs!Current,
       Orchestrator!NoModel, OrchestratorProofs!NoModel,
       Orchestrator!HasProvider, OrchestratorProofs!HasProvider,
       Orchestrator!Prefix, OrchestratorProofs!Prefix,
       Orchestrator!Answered, OrchestratorProofs!Answered,
       Orchestrator!RaisesProviderError, OrchestratorProofs!RaisesProviderError,
       Orchestrator!IsRecoverableFailure, OrchestratorProofs!IsRecoverableFailure,
       Orchestrator!Reason, OrchestratorProofs!Reason,
       Orchestrator!Preamble, OrchestratorProofs!Preamble,
       Orchestrator!Malformed, OrchestratorProofs!Malformed,
       Orchestrator!RECOVERABLE_FAILURE_MARKERS,
       OrchestratorProofs!RECOVERABLE_FAILURE_MARKERS,
       Orchestrator!Exceptions, OrchestratorProofs!Exceptions,
       Orchestrator!Failed, OrchestratorProofs!Failed,
       Orchestrator!Succeeded, OrchestratorProofs!Succeeded,
       Orchestrator!FallbackUsed, OrchestratorProofs!FallbackUsed

(***************************************************************************)
(* The orchestrator call chat makes is the entry the proofs are about.     *)
(***************************************************************************)
LEMMA SameExecute ==
    ASSUME NEW r \in Reqs, NEW request \in Sendable, NEW configs \in Seq(Models),
           NEW strategy \in {"sequential", "random", "lowest_latency", "cheapest"},
           Orchestrator!Execute(r, request, configs, strategy)
    PROVE  OrchestratorProofs!Enter(r)
<1>1. OrchestratorProofs!Execute(r, request, configs, strategy)
  BY DEF Orchestrator!Execute, OrchestratorProofs!Execute,
         Orchestrator!IsImplemented, OrchestratorProofs!IsImplemented,
         Orchestrator!NotStarted, OrchestratorProofs!NotStarted,
         Orchestrator!Select, OrchestratorProofs!Select
<1> QED
  BY <1>1 DEF OrchestratorProofs!Enter

(***************************************************************************)
(* A step of the orchestrator changes nothing but its own request.         *)
(***************************************************************************)
LEMMA OrchestratorStep ==
    ASSUME NEW r \in Reqs, OrchestratorProofs!TypeOK,
           OrchestratorProofs!Consistent(r), OrchestratorProofs!Recorded(r),
           OrchestratorProofs!TruthfulMetadata(r), OrchestratorProofs!Explained(r),
           OrchestratorProofs!Enter(r) \/ OrchestratorProofs!Progress(r)
    PROVE  /\ OrchestratorProofs!TypeOK'
           /\ OrchestratorProofs!Consistent(r)'
           /\ OrchestratorProofs!Recorded(r)'
           /\ OrchestratorProofs!TruthfulMetadata(r)'
           /\ OrchestratorProofs!Explained(r)'
           /\ \A d \in Reqs : d # r => /\ exec'[d] = exec[d]
                                       /\ asked'[d] = asked[d]
                                       /\ answers'[d] = answers[d]
<1>1. OrchestratorProofs!TypeOK'
  BY OrchestratorAssumptions, OrchestratorProofs!OwnTypes
<1>2. OrchestratorProofs!Consistent(r)'
  BY OrchestratorAssumptions, OrchestratorProofs!OwnStep
<1>3. OrchestratorProofs!Recorded(r)' /\ OrchestratorProofs!TruthfulMetadata(r)'
  BY OrchestratorAssumptions, OrchestratorProofs!OwnMetadata
<1>5. OrchestratorProofs!Explained(r)'
  BY OrchestratorAssumptions, OrchestratorProofs!OwnExplained
<1>4. ASSUME NEW d \in Reqs, d # r
      PROVE  /\ exec'[d] = exec[d]
             /\ asked'[d] = asked[d]
             /\ answers'[d] = answers[d]
  BY <1>4, OrchestratorAssumptions, OrchestratorProofs!OtherCalls
<1> QED
  BY <1>1, <1>2, <1>3, <1>4, <1>5

-----------------------------------------------------------------------------
(***************************************************************************)
(* Operators                                                               *)
(***************************************************************************)
(***************************************************************************)
(* A policy with the override of a request is a policy, and it differs     *)
(* from the published one in its primary endpoint only (gateway.py:82-90). *)
(***************************************************************************)
LEMMA OverriddenPolicy ==
    ASSUME NEW p \in PolicySet, NEW body \in ChatRequests, body.model # None
    PROVE  LET held == Overridden(p, body)
           IN  /\ held \in PolicyRecords
               /\ held.input_guardrails = p.input_guardrails
               /\ held.output_guardrails = p.output_guardrails
               /\ held.retry = p.retry
               /\ held.provider.strategy = p.provider.strategy
               /\ held.provider.fallbacks = p.provider.fallbacks
               /\ held.provider.primary.model = body.model
               /\ held.provider.primary.name =
                     IF body.provider # None THEN body.provider
                     ELSE p.provider.primary.name
<1> DEFINE name == IF body.provider # None THEN body.provider
                   ELSE p.provider.primary.name
           primary == [p.provider.primary EXCEPT !.model = body.model,
                                                 !.name = name]
           provider == [p.provider EXCEPT !.primary = primary]
<1>1. /\ p \in PolicyRecords
      /\ body.model \in ModelNames
      /\ body.provider \in Vendors \cup {None}
  BY GatewayAssumption
<1>2. p.provider \in ProviderConfigs
  BY <1>1 DEF PolicyRecords
<1>3. p.provider.primary \in Endpoints
  BY <1>2 DEF ProviderConfigs
<1>4. name \in Vendors
  BY <1>1, <1>3 DEF Endpoints
<1> HIDE DEF name
<1>5. /\ primary \in Endpoints
      /\ primary.model = body.model /\ primary.name = name
  BY <1>1, <1>3, <1>4 DEF Endpoints
<1>6. Overridden(p, body) = [p EXCEPT !.provider = provider]
  BY <1>1, <1>2, <1>3 DEF Overridden, PolicyRecords, ProviderConfigs, Endpoints, name
<1> HIDE DEF primary
<1>7. /\ provider \in ProviderConfigs
      /\ provider.primary = primary
      /\ provider.fallbacks = p.provider.fallbacks
      /\ provider.strategy = p.provider.strategy
  BY <1>2, <1>5 DEF ProviderConfigs
<1> HIDE DEF provider
<1>8. LET held == [p EXCEPT !.provider = provider]
      IN  /\ held \in PolicyRecords
          /\ held.provider = provider
          /\ held.input_guardrails = p.input_guardrails
          /\ held.output_guardrails = p.output_guardrails
          /\ held.retry = p.retry
  BY <1>1, <1>7 DEF PolicyRecords
<1> QED
  BY <1>5, <1>6, <1>7, <1>8 DEF name

(***************************************************************************)
(* So the policy a request works with has the guardrails, the budget and   *)
(* the strategy of the published one.                                      *)
(***************************************************************************)
LEMMA HeldPolicy ==
    ASSUME NEW p \in PolicySet, NEW g, g.body \in ChatRequests
    PROVE  /\ p \in PolicyRecords
           /\ Held(g, p) \in PolicyRecords
           /\ Held(g, p).input_guardrails = p.input_guardrails
           /\ Held(g, p).output_guardrails = p.output_guardrails
           /\ Held(g, p).retry = p.retry
           /\ Held(g, p).provider.strategy = p.provider.strategy
           /\ Held(g, p).provider.fallbacks = p.provider.fallbacks
<1>1. p \in PolicyRecords
  BY GatewayAssumption
<1>2. CASE g.body.model = None
  BY <1>1, <1>2 DEF Held
<1>3. CASE g.body.model # None
  BY <1>1, <1>3, OverriddenPolicy DEF Held
<1> QED
  BY <1>2, <1>3

(***************************************************************************)
(* And the request holds that policy, whatever is published.               *)
(***************************************************************************)
LEMMA PolicyHeld ==
    ASSUME NEW r \in Reqs, gw[r].ref # 0, gw[r].body \in ChatRequests,
           Resolved(gw[r], Governed(r))
    PROVE  /\ Governed(r) = Governing(r)
           /\ Governed(r) \in PolicySet
           /\ PolicyOf(r) = Held(gw[r], Governed(r))
<1>1. Governed(r) = Governing(r) /\ Governed(r) \in PolicySet
  BY DEF Governed, Resolved
<1>2. CASE gw[r].body.model = None
  BY <1>1, <1>2 DEF Resolved, PolicyOf, Held, Governing
<1>3. CASE gw[r].body.model # None
  <2>1. gw[r].own = Overridden(Governed(r), gw[r].body)
    BY <1>3 DEF Resolved
  <2>2. gw[r].own \in PolicyRecords
    BY <1>1, <1>3, <2>1, OverriddenPolicy
  <2>3. gw[r].own # None
    BY <2>2, NoneAssumption
  <2> QED
    BY <1>1, <1>3, <2>1, <2>3 DEF PolicyOf, Held
<1> QED
  BY <1>1, <1>2, <1>3

(***************************************************************************)
(* The endpoints handed to the orchestrator are those the policy and the   *)
(* override name, in their order (gateway.py:131-141).                     *)
(***************************************************************************)
LEMMA ConfigsFollowPolicy ==
    ASSUME NEW p \in PolicySet, NEW g, g.body \in ChatRequests
    PROVE  LET configs == ProviderConfigsOf(Held(g, p))
           IN  /\ LitellmModel(Held(g, p)) = Model(g, p, 1)
               /\ Model(g, p, 1) \in Models
               /\ configs \in Seq(Models)
               /\ Len(configs) = Len(p.provider.fallbacks) + 1
               /\ Len(p.provider.fallbacks) \in Nat
               /\ \A k \in 1 .. Len(configs) : configs[k] = Model(g, p, k)
<1> DEFINE held == Held(g, p)
           fallbacks == p.provider.fallbacks
           routed == [k \in 1 .. Len(fallbacks) |-> Routed(fallbacks[k])]
           configs == ProviderConfigsOf(held)
<1>1. /\ held \in PolicyRecords /\ p \in PolicyRecords
      /\ held.provider.fallbacks = fallbacks
  BY HeldPolicy
<1>2. fallbacks \in Seq(Endpoints) /\ Len(fallbacks) \in Nat
  BY <1>1, LenProperties DEF PolicyRecords, ProviderConfigs
<1>3. LitellmModel(held) \in Models
  BY <1>1, LitellmModelType
<1>4. LitellmModel(held) = Model(g, p, 1)
  <2>1. CASE g.body.model = None
    BY <2>1 DEF Held, LitellmModel, Routed, Model
  <2>2. CASE g.body.model # None
    <3>1. /\ held.provider.primary.model = g.body.model
          /\ held.provider.primary.name =
                IF g.body.provider # None THEN g.body.provider
                ELSE p.provider.primary.name
      BY <2>2, OverriddenPolicy DEF Held
    <3> HIDE DEF held
    <3> QED
      BY <2>2, <3>1 DEF LitellmModel, Routed, Model
  <2> QED
    BY <2>1, <2>2
<1>5. \A k \in 1 .. Len(fallbacks) : fallbacks[k] \in Endpoints
  BY <1>2
<1>6. \A k \in 1 .. Len(fallbacks) : Routed(fallbacks[k]) \in Models
  BY <1>5, RoutedType
<1>7. /\ routed \in Seq(Models) /\ Len(routed) = Len(fallbacks)
      /\ \A k \in 1 .. Len(fallbacks) : routed[k] = Routed(fallbacks[k])
  BY <1>2, <1>6
<1>8. configs = <<LitellmModel(held)>> \o routed
  BY <1>1 DEF ProviderConfigsOf
<1> HIDE DEF held, routed, configs, fallbacks
<1>9. <<LitellmModel(held)>> \in Seq(Models) /\ Len(<<LitellmModel(held)>>) = 1
      /\ <<LitellmModel(held)>>[1] = LitellmModel(held)
  BY <1>3
<1>10. /\ configs \in Seq(Models)
       /\ Len(configs) = Len(fallbacks) + 1
       /\ configs[1] = LitellmModel(held)
       /\ \A k \in 2 .. Len(fallbacks) + 1 : configs[k] = routed[k - 1]
  <2>1. /\ configs \in Seq(Models)
        /\ Len(configs) = 1 + Len(routed)
        /\ \A k \in 1 .. 1 + Len(routed) :
              configs[k] = IF k <= 1 THEN <<LitellmModel(held)>>[k] ELSE routed[k - 1]
    BY <1>7, <1>8, <1>9, ConcatProperties
  <2> QED
    BY <1>2, <1>7, <1>9, <2>1
<1>11. ASSUME NEW k \in 1 .. Len(configs) PROVE configs[k] = Model(g, p, k)
  <2>1. CASE k = 1
    BY <1>4, <1>10, <2>1
  <2>2. CASE k # 1
    <3>1. k - 1 \in 1 .. Len(fallbacks) /\ k \in 2 .. Len(fallbacks) + 1
      BY <1>2, <1>10, <2>2
    <3>2. configs[k] = Routed(fallbacks[k - 1])
      BY <1>7, <1>10, <3>1
    <3> QED
      BY <2>2, <3>2 DEF Routed, Model, fallbacks
  <2> QED
    BY <2>1, <2>2
<1> QED
  BY <1>2, <1>3, <1>4, <1>10, <1>11 DEF held, configs, fallbacks

(***************************************************************************)
(* The request that starts the chain, and the context that starts the      *)
(* engine, are well typed.                                                 *)
(***************************************************************************)
LEMMA StartTypes ==
    ASSUME NEW p \in PolicySet, NEW g, g.body \in ChatRequests
    PROVE  /\ FirstRequest(g, p) \in Sendable
           /\ Context(g, p) \in RetryContexts
           /\ Engine!Plain(g.body.prompt) \in Engine!UserMessages
           /\ p.provider.strategy \in
                 {"sequential", "random", "lowest_latency", "cheapest"}
<1>1. /\ Held(g, p) \in PolicyRecords /\ p \in PolicyRecords
      /\ g.body.prompt \in Prompts /\ g.body.context \in Histories
  BY HeldPolicy, GatewayAssumption
<1>2. Engine!Plain(g.body.prompt) \in Engine!UserMessages
  BY <1>1 DEF Engine!Plain, Engine!UserMessages
<1>3. Held(g, p).provider.primary.timeout_seconds \in Timeouts
  BY <1>1 DEF PolicyRecords, ProviderConfigs, Endpoints
<1>4. FirstRequest(g, p) \in Sendable
  BY <1>1, <1>2, <1>3, LitellmModelType
  DEF FirstRequest, Sendable, Conversations
<1>5. Context(g, p) \in RetryContexts
  BY <1>1 DEF Context, RetryContexts
<1>6. p.provider.strategy \in
        {"sequential", "random", "lowest_latency", "cheapest"}
  BY <1>1 DEF PolicyRecords, ProviderConfigs
<1> QED
  BY <1>2, <1>4, <1>5, <1>6

(***************************************************************************)
(* The verdicts chat asks for are those of the published policy, whatever  *)
(* the override (gateway.py:95, 156, 182).                                 *)
(***************************************************************************)
LEMMA PromptVerdict ==
    ASSUME NEW p \in PolicySet, NEW g, g.body \in ChatRequests
    PROVE  LET result == ValidateInput(g.body.prompt, Held(g, p))
           IN  /\ result.violations = PromptFinds(g, p)
               /\ result.passed <=> PromptFinds(g, p) = {}
               /\ PromptFinds(g, p) \in SUBSET AllViolations
<1>1. /\ g.body.prompt \in Prompts
      /\ Held(g, p) \in PolicyRecords
      /\ Held(g, p).input_guardrails = p.input_guardrails
  BY HeldPolicy, GatewayAssumption
<1> DEFINE held == Held(g, p)
           result == ValidateInput(g.body.prompt, held)
           minded == {v \in PromptFlags[g.body.prompt] :
                         held.input_guardrails[v.guardrail].enabled}
<1>2. minded = PromptFinds(g, p)
  BY <1>1 DEF PromptFinds
<1>3. result.violations = minded
  BY <1>1, InputVerdict
<1>4. result.passed <=> minded = {}
  BY <1>1, InputVerdict
<1>5. minded \subseteq Violations(InputGuardrails)
  BY <1>1, InputVerdict
<1>6. minded \subseteq AllViolations
  BY <1>5 DEF AllViolations, Violations
<1> QED
  BY <1>2, <1>3, <1>4, <1>6

(***************************************************************************)
(* The output chain, run under the policy a request works with, reports    *)
(* what that policy minds in the text; an override changes nothing of it.  *)
(***************************************************************************)
LEMMA TextVerdict ==
    ASSUME NEW p \in PolicySet, NEW g, g.body \in ChatRequests,
           NEW content \in Contents
    PROVE  LET result == ValidateOutput(content, Held(g, p), g.body.prompt)
           IN  /\ result.violations = TextFinds(g, p, content)
               /\ result.passed <=> TextFinds(g, p, content) = {}
               /\ TextFinds(g, p, content) \in SUBSET AllViolations
<1>1. /\ g.body.prompt \in Prompts
      /\ Held(g, p) \in PolicyRecords
      /\ Held(g, p).output_guardrails = p.output_guardrails
  BY HeldPolicy, GatewayAssumption
<1> DEFINE held == Held(g, p)
           result == ValidateOutput(content, held, g.body.prompt)
           minded == {v \in OutputFlags[g.body.prompt, content] :
                         held.output_guardrails[v.guardrail].enabled}
<1>2. minded = TextFinds(g, p, content)
  BY <1>1 DEF TextFinds
<1>3. result.violations = minded
  BY <1>1, OutputVerdict
<1>4. result.passed <=> minded = {}
  BY <1>1, OutputVerdict
<1>5. minded \subseteq Violations(OutputGuardrails)
  BY <1>1, OutputVerdict
<1>6. minded \subseteq AllViolations
  BY <1>5 DEF AllViolations, Violations
<1> QED
  BY <1>2, <1>3, <1>4, <1>6

(***************************************************************************)
(* Nor does an override change on which texts the output chain raises.     *)
(***************************************************************************)
LEMMA TextRaises ==
    ASSUME NEW p \in PolicySet, NEW g, g.body \in ChatRequests, NEW content
    PROVE  OutputRaises(content, Held(g, p)) <=> Unread(p, content)
<1>1. Held(g, p).output_guardrails = p.output_guardrails
  BY HeldPolicy
<1> QED
  BY <1>1, OutputRaisesWhen DEF Unread

(***************************************************************************)
(* A nonempty set of scores has a highest one.                             *)
(***************************************************************************)
LEMMA HighestScore ==
    ASSUME NEW scores \in SUBSET (0 .. 100), scores # {}
    PROVE  \E s \in scores : \A t \in scores : t <= s
<1> DEFINE less == OpToRel(<, Nat)
           below == {100 - s : s \in scores}
<1>1. IsWellFoundedOn(less, Nat)
  BY NatLessThanWellFounded
<1>2. below \in SUBSET Nat /\ below # {}
  <2>1. \A s \in scores : 100 - s \in Nat
    OBVIOUS
  <2> QED
    BY <2>1
<1> HIDE DEF less
<1>3. PICK x \in below : \A y \in below : ~(<<y, x>> \in less)
  BY <1>1, <1>2, WFMin
<1>4. PICK s \in scores : x = 100 - s
  OBVIOUS
<1>5. ASSUME NEW t \in scores PROVE t <= s
  <2>1. 100 - t \in below /\ 100 - t \in Nat /\ x \in Nat
    BY <1>2
  <2>2. ~(<<100 - t, x>> \in less)
    BY <1>3, <2>1
  <2>3. ~(100 - t < x)
    BY <2>1, <2>2 DEF less, OpToRel
  <2> QED
    BY <1>4, <2>3
<1> QED
  BY <1>5

(***************************************************************************)
(* The risk score is the highest score on the list, 0 for an empty one.    *)
(***************************************************************************)
LEMMA RiskScoreIsHighest ==
    ASSUME NEW violations \in SUBSET AllViolations
    PROVE  /\ RiskScore(violations) \in 0 .. 100
           /\ \A v \in violations : v.score <= RiskScore(violations)
           /\ \/ RiskScore(violations) = 0
              \/ \E v \in violations : v.score = RiskScore(violations)
<1> DEFINE scores == {v.score : v \in violations}
<1>1. CASE violations = {}
  BY <1>1 DEF RiskScore
<1>2. CASE violations # {}
  <2>1. scores \in SUBSET (0 .. 100) /\ scores # {}
    BY <1>2 DEF AllViolations, Violations
  <2>2. \E s \in scores : \A t \in scores : t <= s
    BY <2>1, HighestScore
  <2>3. RiskScore(violations) = CHOOSE s \in scores : \A t \in scores : t <= s
    BY <1>2 DEF RiskScore
  <2>4. /\ RiskScore(violations) \in scores
        /\ \A t \in scores : t <= RiskScore(violations)
    <3> HIDE DEF scores
    <3> QED
      BY <2>2, <2>3
  <2> QED
    BY <2>1, <2>4
<1> QED
  BY <1>1, <1>2

(***************************************************************************)
(* A result made of violations of the known guardrails is a verdict.       *)
(***************************************************************************)
LEMMA VerdictType ==
    ASSUME NEW violations \in SUBSET AllViolations
    PROVE  Result(violations) \in Verdicts
BY RiskScoreIsHighest DEF Result, Verdicts

(***************************************************************************)
(* So both chains deliver verdicts.                                        *)
(***************************************************************************)
LEMMA VerdictTypes ==
    ASSUME NEW p \in PolicySet, NEW g, g.body \in ChatRequests
    PROVE  /\ ValidateInput(g.body.prompt, Held(g, p)) \in Verdicts
           /\ \A content \in Contents :
                 ValidateOutput(content, Held(g, p), g.body.prompt) \in Verdicts
<1>1. ValidateInput(g.body.prompt, Held(g, p)) \in Verdicts
  <2> DEFINE kept == {v \in PromptFlags[g.body.prompt] :
                         v.guardrail \in EnabledInput(Held(g, p))}
  <2>1. kept = ValidateInput(g.body.prompt, Held(g, p)).violations
    BY DEF ValidateInput, Result
  <2>2. kept \in SUBSET AllViolations
    BY <2>1, PromptVerdict
  <2> HIDE DEF kept
  <2>3. Result(kept) \in Verdicts
    BY <2>2, VerdictType
  <2> QED
    BY <2>3 DEF ValidateInput, kept
<1>2. ASSUME NEW content \in Contents
      PROVE  ValidateOutput(content, Held(g, p), g.body.prompt) \in Verdicts
  <2> DEFINE kept == {v \in OutputFlags[g.body.prompt, content] :
                         v.guardrail \in EnabledOutput(Held(g, p))}
  <2>1. kept = ValidateOutput(content, Held(g, p), g.body.prompt).violations
    BY DEF ValidateOutput, Result
  <2>2. kept \in SUBSET AllViolations
    BY <2>1, TextVerdict
  <2> HIDE DEF kept
  <2>3. Result(kept) \in Verdicts
    BY <2>2, VerdictType
  <2> QED
    BY <2>3 DEF ValidateOutput, kept
<1> QED
  BY <1>1, <1>2

(***************************************************************************)
(* Where the first completion stands                                       *)
(***************************************************************************)
LEMMA FirstOfNone ==
    ASSUME NEW a, NEW b, \A k \in 1 .. Len(b) : b[k].kind # "completion"
    PROVE  First(a, b) = Len(a)
BY DEF First, Completions

(***************************************************************************)
(* The first completion is the one with no completion before it.           *)
(***************************************************************************)
LEMMA FirstIs ==
    ASSUME NEW a, NEW b, NEW m \in 1 .. Len(b), Len(b) \in Nat,
           b[m].kind = "completion",
           \A k \in 1 .. Len(b) : b[k].kind = "completion" => m <= k
    PROVE  First(a, b) = m
<1> DEFINE completed == Completions(b)
<1>1. /\ m \in completed
      /\ \A j \in completed : m <= j /\ j \in Nat
      /\ m \in Nat
  BY DEF Completions
<1>2. First(a, b) = CHOOSE k \in completed : \A j \in completed : k <= j
  BY <1>1 DEF First
<1> HIDE DEF completed
<1>3. \A k \in completed : (\A j \in completed : k <= j) => k = m
  BY <1>1
<1> QED
  BY <1>1, <1>2, <1>3

(***************************************************************************)
(* A later answer does not move it.                                        *)
(***************************************************************************)
LEMMA FirstStays ==
    ASSUME NEW a, NEW b \in Seq(AllOutcomes), NEW outcome \in AllOutcomes,
           NEW c, NEW m \in 1 .. Len(b), First(a, b) = m,
           b[m].kind = "completion",
           \A k \in 1 .. Len(b) : b[k].kind = "completion" => m <= k
    PROVE  /\ First(c, b) = m
           /\ First(c, Append(b, outcome)) = m
<1>1. /\ Len(b) \in Nat
      /\ Len(Append(b, outcome)) = Len(b) + 1
      /\ \A k \in 1 .. Len(b) : Append(b, outcome)[k] = b[k]
  BY LenProperties, AppendProperties
<1>2. First(c, b) = m
  BY <1>1, FirstIs
<1> DEFINE b2 == Append(b, outcome)
<1>3. /\ m \in 1 .. Len(b2) /\ Len(b2) \in Nat
      /\ b2[m].kind = "completion"
      /\ \A k \in 1 .. Len(b2) : b2[k].kind = "completion" => m <= k
  <2>1. m \in 1 .. Len(b2) /\ Len(b2) \in Nat /\ b2[m].kind = "completion"
    BY <1>1
  <2>2. ASSUME NEW k \in 1 .. Len(b2), b2[k].kind = "completion" PROVE m <= k
    <3>1. CASE k \in 1 .. Len(b)
      BY <1>1, <2>2, <3>1
    <3>2. CASE k = Len(b) + 1
      BY <1>1, <3>2
    <3> QED
      BY <1>1, <3>1, <3>2
  <2> QED
    BY <2>1, <2>2
<1> HIDE DEF b2
<1>4. First(c, b2) = m
  BY <1>3, FirstIs
<1> QED
  BY <1>2, <1>4 DEF b2

-----------------------------------------------------------------------------
(***************************************************************************)
(* Steps                                                                   *)
(***************************************************************************)
Early == {"idle", "resolve", "input", "call", "providers"}

(***************************************************************************)
(* A request nothing happens to stays as coherent as it was, as long as no *)
(* published policy is changed.                                            *)
(***************************************************************************)
LEMMA OwnStays ==
    ASSUME Inv, NEW d \in Reqs, gw'[d] = gw[d], exec'[d] = exec[d],
           retry'[d] = retry[d], asked'[d] = asked[d], answers'[d] = answers[d],
           \A k \in 1 .. Len(heap) : heap'[k] = heap[k]
    PROVE  Own(d)'
<1>1. gw[d].ref \in 0 .. Len(heap) /\ Own(d)
  BY DEF Inv, Types
<1>2. heap \in Seq(PolicySet)
  BY DEF Inv, Types, Registry!TypeOK
<1>3. Len(heap) \in Nat
  BY <1>2, LenProperties
<1>4. Governed(d)' = Governed(d)
  BY <1>1, <1>3 DEF Governed, Governing
<1>5. Coherent(gw[d], exec[d], retry[d], asked[d], answers[d], Governed(d))'
  BY <1>1, <1>4 DEF Own
<1>6. Orchestrated(d)'
  <2> SUFFICES ASSUME gw[d].pc \in Early
               PROVE  /\ OrchestratorProofs!Consistent(d)'
                      /\ OrchestratorProofs!Recorded(d)'
                      /\ OrchestratorProofs!TruthfulMetadata(d)'
                      /\ OrchestratorProofs!Explained(d)'
    BY DEF Orchestrated, Early
  <2>1. /\ OrchestratorProofs!Consistent(d)
        /\ OrchestratorProofs!Recorded(d)
        /\ OrchestratorProofs!TruthfulMetadata(d)
        /\ OrchestratorProofs!Explained(d)
    BY <1>1 DEF Own, Orchestrated, Early
  <2>2. OrchestratorProofs!Consistent(d)'
    BY <2>1, OrchestratorAssumptions, OrchestratorProofs!Frame
  <2>3. OrchestratorProofs!Recorded(d)' /\ OrchestratorProofs!TruthfulMetadata(d)'
    BY <2>1, OrchestratorAssumptions, OrchestratorProofs!RecordsFrame
  <2>4. OrchestratorProofs!Explained(d)'
    BY <2>1, OrchestratorAssumptions, OrchestratorProofs!ExplainedFrame
  <2> QED
    BY <2>2, <2>3, <2>4
<1> QED
  BY <1>5, <1>6 DEF Own

(***************************************************************************)
(* A step of chat that leaves the providers and the registry alone.        *)
(***************************************************************************)
LEMMA LocalStep ==
    ASSUME Inv, NEW r \in Reqs, NEW g \in Chats, gw' = [gw EXCEPT ![r] = g],
           UNCHANGED <<providers, registry>>,
           g.ref \in 0 .. Len(heap),
           g.pc \in Early => gw[r].pc \in Early,
           Coherent(g, exec[r], retry[r], asked[r], answers[r],
                    IF g.ref = 0 THEN None ELSE heap[g.ref])
    PROVE  Inv'
<1>1. /\ gw \in [Reqs -> Chats] /\ gw' \in [Reqs -> Chats]
      /\ gw'[r] = g /\ \A d \in Reqs : d # r => gw'[d] = gw[d]
  BY DEF Inv, Types
<1>2. /\ exec' = exec /\ retry' = retry /\ asked' = asked /\ answers' = answers
      /\ heap' = heap /\ cache' = cache
  BY DEF providers, registry
<1>3. \A d \in Reqs : gw'[d].ref \in 0 .. Len(heap')
  BY <1>1, <1>2 DEF Inv, Types
<1>4. OrchestratorProofs!TypeOK'
  BY <1>2 DEF Inv, Types, OrchestratorProofs!TypeOK
<1>5. Registry!TypeOK' /\ Registry!KeyedById'
  BY <1>2 DEF Inv, Types, Registry!TypeOK, Registry!KeyedById, Registry!Absent
<1>6. Types'
  BY <1>1, <1>2, <1>3, <1>4, <1>5 DEF Inv, Types
<1>7. Own(r)'
  <2>1. Governed(r)' = IF g.ref = 0 THEN None ELSE heap[g.ref]
    BY <1>1, <1>2 DEF Governed, Governing
  <2>2. Coherent(gw[r], exec[r], retry[r], asked[r], answers[r], Governed(r))'
    BY <1>1, <1>2, <2>1
  <2>3. Orchestrated(r)'
    <3> SUFFICES ASSUME g.pc \in Early
                 PROVE  /\ OrchestratorProofs!Consistent(r)'
                        /\ OrchestratorProofs!Recorded(r)'
                        /\ OrchestratorProofs!TruthfulMetadata(r)'
                        /\ OrchestratorProofs!Explained(r)'
      BY <1>1 DEF Orchestrated, Early
    <3>1. /\ OrchestratorProofs!Consistent(r)
          /\ OrchestratorProofs!Recorded(r)
          /\ OrchestratorProofs!TruthfulMetadata(r)
          /\ OrchestratorProofs!Explained(r)
      BY DEF Inv, Own, Orchestrated, Early
    <3>2. OrchestratorProofs!Consistent(r)'
      BY <1>2, <3>1, OrchestratorAssumptions, OrchestratorProofs!Frame
    <3>3. OrchestratorProofs!Recorded(r)' /\ OrchestratorProofs!TruthfulMetadata(r)'
      BY <1>2, <3>1, OrchestratorAssumptions, OrchestratorProofs!RecordsFrame
    <3>4. OrchestratorProofs!Explained(r)'
      BY <1>2, <3>1, OrchestratorAssumptions, OrchestratorProofs!ExplainedFrame
    <3> QED
      BY <3>2, <3>3, <3>4
  <2> QED
    BY <2>2, <2>3 DEF Own
<1>8. ASSUME NEW d \in Reqs, d # r PROVE Own(d)'
  BY <1>1, <1>2, <1>8, OwnStays
<1> QED
  BY <1>6, <1>7, <1>8 DEF Inv

(***************************************************************************)
(* What the invariant says of a request.                                   *)
(***************************************************************************)
LEMMA Known ==
    ASSUME Inv, NEW r \in Reqs
    PROVE  /\ gw \in [Reqs -> Chats] /\ gw[r] \in Chats
           /\ retry \in [Reqs -> Runs] /\ retry[r] \in Runs
           /\ exec \in [Reqs -> OrchestratorProofs!ExecRecords]
           /\ exec[r] \in OrchestratorProofs!ExecRecords
           /\ asked \in [Reqs -> Seq(Sendable)] /\ asked[r] \in Seq(Sendable)
           /\ answers \in [Reqs -> Seq(AllOutcomes)]
           /\ answers[r] \in Seq(AllOutcomes)
           /\ Len(asked[r]) \in Nat /\ Len(answers[r]) \in Nat
           /\ heap \in Seq(PolicySet) /\ Len(heap) \in Nat
           /\ cache \in [PolicyIds -> Nat]
           /\ gw[r].ref \in 0 .. Len(heap)
           /\ Coherent(gw[r], exec[r], retry[r], asked[r], answers[r], Governed(r))
<1>1. /\ gw \in [Reqs -> Chats] /\ retry \in [Reqs -> Runs]
      /\ heap \in Seq(PolicySet) /\ cache \in [PolicyIds -> Nat]
      /\ gw[r].ref \in 0 .. Len(heap)
  BY DEF Inv, Types, Registry!TypeOK
<1>2. /\ exec \in [Reqs -> OrchestratorProofs!ExecRecords]
      /\ asked \in [Reqs -> Seq(Sendable)]
      /\ answers \in [Reqs -> Seq(AllOutcomes)]
  BY SameModels DEF Inv, Types, OrchestratorProofs!TypeOK
<1> QED
  BY <1>1, <1>2, LenProperties DEF Inv, Own

(***************************************************************************)
(* A request is accepted: nothing has been done for it yet.                *)
(***************************************************************************)
LEMMA ReceiveStep ==
    ASSUME Inv, NEW r \in Reqs, NEW body \in ChatRequests, Receive(r, body)
    PROVE  Inv'
<1> DEFINE g == [gw[r] EXCEPT !.pc = "resolve", !.body = body]
<1>1. gw' = [gw EXCEPT ![r] = g] /\ g \in Chats /\ gw[r].pc = "idle"
  BY Known, ZenonT(40) DEF Receive, Chats
<1>2. /\ g.pc = "resolve" /\ g.body = body /\ g.ref = gw[r].ref
      /\ g.own = gw[r].own /\ g.retries = gw[r].retries
  BY Known DEF Chats
<1> HIDE DEF g
<1>3. Coherent(g, exec[r], retry[r], asked[r], answers[r],
               IF g.ref = 0 THEN None ELSE heap[g.ref])
  BY <1>1, <1>2, Known
  DEF Coherent, Resolved, NotYet, Quiet, Screened, Entered, Follows, Rejected,
      Retrying, Finishing, Truthful, Blames, Answers
<1> QED
  BY <1>1, <1>2, <1>3, Known, LocalStep DEF Receive, Early

(***************************************************************************)
(* An error that leaves chat.                                              *)
(***************************************************************************)
LEMMA ErrorStep ==
    ASSUME Inv, NEW r \in Reqs, NEW error \in ErrorNames, gw[r].pc # "idle",
           Reply(r, ErrorReply(error)), UNCHANGED <<providers, registry>>,
           exec[r].pc \notin {"loop", "awaiting"},
           retry[r].pc \notin {"loop", "awaiting"},
           Cause(error, gw[r], asked[r], answers[r], Governed(r))
    PROVE  Inv'
<1> DEFINE g == [gw[r] EXCEPT !.pc = "replied", !.reply = ErrorReply(error)]
<1>1. gw' = [gw EXCEPT ![r] = g] /\ g \in Chats
  BY Known DEF Reply, Chats, ErrorReplies
<1>2. /\ g.pc = "replied" /\ g.body = gw[r].body /\ g.ref = gw[r].ref
      /\ g.own = gw[r].own /\ g.reply = ErrorReply(error)
  BY Known DEF Chats
<1>3. ~ IsResponse(g.reply)
  BY <1>2 DEF IsResponse, ErrorReply, ErrorNames, OrchestratorProofs!Errors
<1> HIDE DEF g
<1>4. Coherent(g, exec[r], retry[r], asked[r], answers[r],
               IF g.ref = 0 THEN None ELSE heap[g.ref])
  <2> DEFINE p == Governed(r)
  <2>1. p = IF g.ref = 0 THEN None ELSE heap[g.ref]
    BY <1>2 DEF Governed, Governing
  <2>2. Coherent(gw[r], exec[r], retry[r], asked[r], answers[r], p)
    BY Known
  <2> HIDE DEF p
  <2>3. Follows(g, asked[r], answers[r], p)
    BY <1>2, <2>2 DEF Coherent, Follows, Model
  <2>4. Resolved(g, p)
    BY <1>2, <2>2 DEF Coherent, Resolved
  <2>5. Screened(g, asked[r], p)
    BY <1>2, <2>2 DEF Coherent, Screened, Admits, PromptFinds
  <2>6. Cause(error, g, asked[r], answers[r], p)
    BY <1>2 DEF Cause, Unserved, Model, p
  <2>7. g.reply.status = error
    BY <1>2 DEF ErrorReply
  <2>8. Blames(g, asked[r], answers[r], p)
    BY <2>6, <2>7 DEF Blames
  <2> QED
    BY <1>2, <1>3, <2>1, <2>3, <2>4, <2>5, <2>8
    DEF Coherent, NotYet, Quiet, Entered, Rejected, Retrying, Finishing, Truthful,
        Answers
<1> QED
  BY <1>1, <1>2, <1>4, Known, LocalStep DEF Early

(***************************************************************************)
(* The request is bound to the object that is published at this moment, or *)
(* to a copy of it with its override.                                      *)
(***************************************************************************)
LEMMA ResolveStep ==
    ASSUME Inv, NEW r \in Reqs, Resolve(r)
    PROVE  Inv'
<1> DEFINE body == gw[r].body
           ref == cache[PolicyId(body)]
           own == IF body.model # None THEN Overridden(heap[ref], body) ELSE None
           g == [gw[r] EXCEPT !.pc = "input", !.ref = ref, !.own = own]
<1>1. body \in ChatRequests /\ gw[r].pc = "resolve"
  BY Known DEF Resolve, Coherent, Resolved
<1>2. ref \in 1 .. Len(heap)
  BY DEF Resolve, Registry!IsCached, Registry!Absent, Inv, Types,
         Registry!KeyedById
<1>3. heap[ref] \in PolicySet /\ ref \in Nat
  BY <1>2, Known
<1>4. own \in PolicyRecords \cup {None}
  BY <1>1, <1>3, OverriddenPolicy
<1>5. gw' = [gw EXCEPT ![r] = g]
  BY Known DEF Resolve, Hold, Chats
<1> HIDE DEF ref, own, body
<1>6. g \in Chats
  BY <1>3, <1>4, Known, ZenonT(40) DEF Chats
<1>7. /\ g.pc = "input" /\ g.body = gw[r].body /\ g.ref = ref
      /\ g.own = own /\ g.retries = gw[r].retries
  BY Known DEF Chats
<1> HIDE DEF g
<1>8. Coherent(g, exec[r], retry[r], asked[r], answers[r],
               IF g.ref = 0 THEN None ELSE heap[g.ref])
  BY <1>1, <1>2, <1>3, <1>7, Known
  DEF Coherent, Resolved, NotYet, Quiet, Screened, Entered, Follows, Rejected,
      Retrying, Finishing, Truthful, Blames, Answers, body, own
<1>9. UNCHANGED <<providers, registry>>
  BY DEF Resolve, Hold
<1>10. g.ref \in 0 .. Len(heap) /\ gw[r].pc \in Early
  BY <1>1, <1>2, <1>7, Known DEF Early
<1> QED
  BY <1>5, <1>6, <1>8, <1>9, <1>10, LocalStep

(***************************************************************************)
(* What chat knows of the policy and the body of a request it is busy with.*)
(***************************************************************************)
LEMMA Busy ==
    ASSUME Inv, NEW r \in Reqs,
           gw[r].pc \in {"input", "call", "providers", "retry", "retrying",
                         "finish"}
    PROVE  LET g == gw[r]
               p == Governed(r)
           IN  /\ g.body \in ChatRequests
               /\ g.ref # 0
               /\ p \in PolicySet
               /\ p = heap[g.ref]
               /\ PolicyOf(r) = Held(g, p)
               /\ Resolved(g, p)
<1>1. Resolved(gw[r], Governed(r)) /\ gw[r].ref # 0 /\ gw[r].body \in ChatRequests
  BY Known DEF Coherent, Resolved
<1> QED
  BY <1>1, PolicyHeld DEF Governing

(***************************************************************************)
(* The prompt is checked and let through.                                  *)
(***************************************************************************)
LEMMA AdmitInputStep ==
    ASSUME Inv, NEW r \in Reqs, AdmitInput(r)
    PROVE  Inv'
<1> DEFINE p == Governed(r)
           result == InputResult(r)
           g == [gw[r] EXCEPT !.pc = "call", !.input = result,
                              !.violations = result.violations]
<1>1. /\ gw[r].pc = "input" /\ gw[r].body \in ChatRequests /\ gw[r].ref # 0
      /\ p \in PolicySet /\ p = heap[gw[r].ref]
      /\ PolicyOf(r) = Held(gw[r], p) /\ Resolved(gw[r], p)
  BY Busy DEF AdmitInput
<1>2. result = ValidateInput(gw[r].body.prompt, Held(gw[r], p))
  BY <1>1 DEF InputResult
<1> HIDE DEF p
<1>3. result.violations = PromptFinds(gw[r], p)
  BY <1>1, <1>2, PromptVerdict
<1>4. result.passed <=> PromptFinds(gw[r], p) = {}
  BY <1>1, <1>2, PromptVerdict
<1>5. PromptFinds(gw[r], p) \in SUBSET AllViolations /\ result \in Verdicts
  BY <1>1, <1>2, PromptVerdict, VerdictTypes
<1>6. PolicyOf(r).input_guardrails = p.input_guardrails
  BY <1>1, HeldPolicy
<1>7. Admits(gw[r], p)
  BY <1>4, <1>6 DEF AdmitInput, Blocks, Admits
<1>8. gw' = [gw EXCEPT ![r] = g]
  BY Known DEF AdmitInput, Chats
<1> HIDE DEF result
<1>9. g \in Chats
  BY <1>3, <1>5, Known, ZenonT(40) DEF Chats
<1>10. /\ g.pc = "call" /\ g.body = gw[r].body /\ g.ref = gw[r].ref
       /\ g.own = gw[r].own /\ g.retries = gw[r].retries
       /\ g.input = result /\ g.violations = result.violations
  BY Known DEF Chats
<1> HIDE DEF g
<1>11. Coherent(gw[r], exec[r], retry[r], asked[r], answers[r], p)
  BY Known DEF p
<1>12. Admits(g, p) /\ PromptFinds(g, p) = PromptFinds(gw[r], p)
  BY <1>7, <1>10 DEF Admits, PromptFinds
<1>13. Coherent(g, exec[r], retry[r], asked[r], answers[r], p)
  BY <1>1, <1>3, <1>5, <1>10, <1>11, <1>12
  DEF Coherent, Resolved, NotYet, Quiet, Screened, Entered, Follows, Rejected,
      Retrying, Finishing, Truthful, Blames, Answers
<1>14. p = IF g.ref = 0 THEN None ELSE heap[g.ref]
  BY <1>1, <1>10
<1>15. g.ref \in 0 .. Len(heap) /\ gw[r].pc \in Early
  BY <1>1, <1>10, Known DEF Early
<1>16. UNCHANGED <<providers, registry>>
  BY DEF AdmitInput
<1> QED
  BY <1>8, <1>9, <1>13, <1>14, <1>15, <1>16, LocalStep

(***************************************************************************)
(* A response that leaves chat, and tells what happened.                   *)
(***************************************************************************)
LEMMA ResponseStep ==
    ASSUME Inv, NEW r \in Reqs, NEW reply \in ChatResponses, gw[r].ref # 0,
           gw[r].pc # "idle", Reply(r, reply), UNCHANGED <<providers, registry>>,
           exec[r].pc \notin {"loop", "awaiting"},
           retry[r].pc \notin {"loop", "awaiting"},
           Tells(reply, gw[r], asked[r], answers[r], Governed(r))
    PROVE  Inv'
<1> DEFINE g == [gw[r] EXCEPT !.pc = "replied", !.reply = reply]
<1>1. gw' = [gw EXCEPT ![r] = g] /\ g \in Chats
  BY Known DEF Reply, Chats
<1>2. /\ g.pc = "replied" /\ g.body = gw[r].body /\ g.ref = gw[r].ref
      /\ g.own = gw[r].own /\ g.reply = reply
  BY Known DEF Chats
<1> HIDE DEF g
<1>3. Coherent(g, exec[r], retry[r], asked[r], answers[r],
               IF g.ref = 0 THEN None ELSE heap[g.ref])
  <2> DEFINE p == Governed(r)
  <2>1. p = IF g.ref = 0 THEN None ELSE heap[g.ref]
    BY <1>2 DEF Governed, Governing
  <2>2. Coherent(gw[r], exec[r], retry[r], asked[r], answers[r], p)
    BY Known
  <2> HIDE DEF p
  <2>3. Follows(g, asked[r], answers[r], p)
    BY <1>2, <2>2 DEF Coherent, Follows, Model
  <2>4. Resolved(g, p)
    BY <1>2, <2>2 DEF Coherent, Resolved
  <2>5. Screened(g, asked[r], p)
    BY <1>2, <2>2 DEF Coherent, Screened, Admits, PromptFinds
  <2>6. Tells(reply, g, asked[r], answers[r], p)
    BY <1>2 DEF Tells, PromptFinds, TextFinds, p
  <2>7. Blames(g, asked[r], answers[r], p)
    BY <1>2 DEF Blames, ChatResponses, IsResponse
  <2> QED
    BY <1>2, <2>1, <2>3, <2>4, <2>5, <2>6, <2>7
    DEF Coherent, NotYet, Quiet, Entered, Rejected, Retrying, Finishing, Truthful
<1> QED
  BY <1>1, <1>2, <1>3, Known, LocalStep DEF Early

(***************************************************************************)
(* The prompt is blocked: the reply carries a fallback message and no      *)
(* traffic.                                                                *)
(***************************************************************************)
LEMMA BlockStep ==
    ASSUME Inv, NEW r \in Reqs, Block(r)
    PROVE  Inv'
<1> DEFINE p == Governed(r)
           result == InputResult(r)
           name == PolicyOf(r).provider.primary.name
           reply == Response(FallbackOf(r), name, result.violations,
                             result.risk_score, 0, NothingTried, FALSE, FALSE)
<1>1. /\ gw[r].pc = "input" /\ gw[r].body \in ChatRequests /\ gw[r].ref # 0
      /\ p \in PolicySet /\ PolicyOf(r) = Held(gw[r], p)
  BY Busy DEF Block
<1>2. result = ValidateInput(gw[r].body.prompt, Held(gw[r], p))
  BY <1>1 DEF InputResult
<1>3. result.violations = PromptFinds(gw[r], p)
  BY <1>1, <1>2, PromptVerdict
<1>4. PolicyOf(r) \in PolicyRecords
  BY <1>1, HeldPolicy
<1>5. result \in Verdicts
  BY <1>1, <1>2, VerdictTypes
<1>6. /\ name \in Vendors
      /\ PolicyOf(r).retry.fallback_message \in Fallbacks
  BY <1>4 DEF PolicyRecords, ProviderConfigs, Endpoints
<1>7. result.risk_score = RiskScore(result.violations)
  BY DEF InputResult, ValidateInput, Result
<1>8. asked[r] = <<>> /\ answers[r] = <<>>
  BY <1>1, Known DEF Coherent, NotYet
<1>9. Reply(r, reply)
  BY DEF Block
<1>10. UNCHANGED <<providers, registry>>
  BY DEF Block
<1> HIDE DEF p, result, name
<1>11. reply \in ChatResponses
  BY <1>5, <1>6
  DEF Response, ChatResponses, FallbackOf, NothingTried, Verdicts
<1>12. /\ reply.response.kind = "fallback" /\ reply.retries = 0
       /\ reply.violations = result.violations
       /\ reply.risk_score = result.risk_score
  BY DEF Response, FallbackOf
<1>13. First(asked[r], answers[r]) = 0
  BY <1>8 DEF First, Completions
<1> HIDE DEF reply
<1>14. Tells(reply, gw[r], asked[r], answers[r], p)
  BY <1>3, <1>7, <1>8, <1>12, <1>13 DEF Tells
<1>15. /\ exec[r].pc \notin {"loop", "awaiting"}
       /\ retry[r].pc \notin {"loop", "awaiting"}
  BY <1>1, Known DEF Coherent, Quiet
<1> QED
  BY <1>1, <1>9, <1>10, <1>11, <1>14, <1>15, ResponseStep DEF p

(***************************************************************************)
(* An answer as chat holds it has what a response shows of it.             *)
(***************************************************************************)
LEMMA AnswerFields ==
    ASSUME NEW llm \in LlmAnswers
    PROVE  /\ llm.content \in Contents /\ llm.provider \in Vendors
           /\ llm.fallback_used \in BOOLEAN /\ llm.attempts \in Nat
           /\ llm.provider_chain \in Seq(Vendors)
BY DEF LlmAnswers, RetriedAnswers, OrchestratorProofs!Responses

(***************************************************************************)
(* The last answer becomes the reply.                                      *)
(***************************************************************************)
LEMMA FinishStep ==
    ASSUME Inv, NEW r \in Reqs, Finish(r)
    PROVE  Inv'
<1> DEFINE p == Governed(r)
           g == gw[r]
           reply == Response(Completed(g.llm.content), g.llm.provider,
                             g.violations, RiskScore(g.violations), g.retries,
                             g.llm, g.input.passed, g.output.passed)
<1>1. g.pc = "finish" /\ g.ref # 0
  BY Busy DEF Finish
<1>2. /\ Finishing(g, asked[r], answers[r], p) /\ Screened(g, asked[r], p)
      /\ g \in Chats
      /\ Len(asked[r]) \in Nat /\ asked[r] \in Seq(Sendable)
  BY Known DEF Coherent
<1>3. /\ g.llm \in LlmAnswers /\ g.input \in Verdicts /\ g.output \in Verdicts
      /\ g.violations \in SUBSET AllViolations /\ g.retries \in Nat
  BY <1>1, <1>2 DEF Finishing, Screened, Chats
<1>4. RiskScore(g.violations) \in 0 .. 100
  BY <1>3, RiskScoreIsHighest
<1>5. g.input.passed \in BOOLEAN /\ g.output.passed \in BOOLEAN
  BY <1>3 DEF Verdicts
<1>6. Reply(r, reply) /\ UNCHANGED <<providers, registry>>
  BY DEF Finish
<1>7. reply \in ChatResponses
  <2>1. /\ g.llm.content \in Contents /\ g.llm.provider \in Vendors
        /\ g.llm.fallback_used \in BOOLEAN /\ g.llm.attempts \in Nat
        /\ g.llm.provider_chain \in Seq(Vendors)
    BY <1>3, AnswerFields
  <2> HIDE DEF g
  <2> QED
    BY <1>3, <1>4, <1>5, <2>1 DEF Response, ChatResponses, Completed
<1>8. /\ reply.response.kind = "completion"
      /\ reply.response.text = g.llm.content
      /\ reply.retries = g.retries /\ reply.violations = g.violations
      /\ reply.risk_score = RiskScore(g.violations)
      /\ reply.output_valid = g.output.passed
  BY DEF Response, Completed
<1>9. asked[r] # <<>>
  BY <1>1, <1>2 DEF Finishing
<1> HIDE DEF reply
<1>10. Tells(reply, g, asked[r], answers[r], p)
  BY <1>1, <1>2, <1>8, <1>9 DEF Tells, Finishing
<1>11. /\ exec[r].pc \notin {"loop", "awaiting"}
       /\ retry[r].pc \notin {"loop", "awaiting"}
  BY <1>1, Known DEF Coherent, Quiet
<1> QED
  BY <1>1, <1>6, <1>7, <1>10, <1>11, ResponseStep

(***************************************************************************)
(* The absence of an error is not one of the errors of the engine.         *)
(***************************************************************************)
LEMMA NoneIsNoError ==
    /\ None # "max_retries_exceeded"
    /\ None \notin {"provider_error", "index_error", "json_error"}
BY NoneAssumption DEF Engine!RunErrors

(***************************************************************************)
(* The budget is spent: the reply carries the fallback message.            *)
(***************************************************************************)
LEMMA RetryExhaustedStep ==
    ASSUME Inv, NEW r \in Reqs, RetryExhausted(r)
    PROVE  Inv'
<1> DEFINE p == Governed(r)
           g == gw[r]
           a == asked[r]
           b == answers[r]
           max == PolicyOf(r).retry.max_attempts
           reply == Response(FallbackOf(r), g.llm.provider, g.violations,
                             RiskScore(g.violations), max, g.llm,
                             g.input.passed, FALSE)
<1>1. /\ g.pc = "retrying" /\ g.ref # 0 /\ g.body \in ChatRequests
      /\ p \in PolicySet /\ PolicyOf(r) = Held(g, p)
  BY Busy DEF RetryExhausted
<1>2. /\ Rejected(g, a, b, p) /\ Retrying(g, retry[r], a, b, p)
      /\ Screened(g, a, p) /\ g \in Chats
      /\ Len(a) \in Nat /\ Len(b) \in Nat /\ a \in Seq(Sendable)
  BY Known DEF Coherent
<1>3. PolicyOf(r) \in PolicyRecords /\ max = p.retry.max_attempts
  BY <1>1, HeldPolicy
<1>4. max \in Nat /\ PolicyOf(r).retry.fallback_message \in Fallbacks
  BY <1>3 DEF PolicyRecords
<1>5. /\ g.llm \in LlmAnswers /\ g.input \in Verdicts
      /\ g.violations \in SUBSET AllViolations
  BY <1>1, <1>2 DEF Rejected, Screened, Chats
<1>6. RiskScore(g.violations) \in 0 .. 100
  BY <1>5, RiskScoreIsHighest
<1>7. g.input.passed \in BOOLEAN
  BY <1>5 DEF Verdicts
<1>8. Reply(r, reply) /\ UNCHANGED <<providers, registry>>
  BY DEF RetryExhausted
<1>9. /\ First(a, b) \in 1 .. Len(b)
      /\ b[First(a, b)] = Completion(g.llm.content)
      /\ g.violations = PromptFinds(g, p) \cup TextFinds(g, p, g.llm.content)
      /\ max > 0
  BY <1>1, <1>2, <1>3 DEF Rejected
<1>10. Len(a) = First(a, b) + max
  BY <1>1, <1>2, <1>3 DEF Retrying, RetryExhausted
<1>11. b[First(a, b)].content = g.llm.content
  BY <1>9 DEF Completion
<1>12. Len(a) > 1 /\ a # <<>> /\ Len(a) - First(a, b) = max
  BY <1>2, <1>4, <1>9, <1>10
<1> HIDE DEF max
<1>13. reply \in ChatResponses
  <2>1. /\ g.llm.provider \in Vendors
        /\ g.llm.fallback_used \in BOOLEAN /\ g.llm.attempts \in Nat
        /\ g.llm.provider_chain \in Seq(Vendors)
    BY <1>5, AnswerFields
  <2> HIDE DEF g
  <2> QED
    BY <1>4, <1>5, <1>6, <1>7, <2>1 DEF Response, ChatResponses, FallbackOf
<1>14. /\ reply.response.kind = "fallback" /\ reply.retries = max
       /\ reply.violations = g.violations
       /\ reply.risk_score = RiskScore(g.violations)
  BY DEF Response, FallbackOf
<1> HIDE DEF reply
<1>15. Tells(reply, g, a, b, p)
  <2>1. b[Len(b)].kind = "completion" /\ ~Unread(p, b[Len(b)].content)
    BY <1>1, <1>2 DEF Retrying, RetryExhausted
  <2> QED
    BY <1>9, <1>11, <1>12, <1>14, <2>1 DEF Tells
<1>16. /\ exec[r].pc \notin {"loop", "awaiting"}
       /\ retry[r].pc \notin {"loop", "awaiting"}
  BY <1>1, Known, NoneIsNoError DEF Coherent, Quiet, Retrying, RetryExhausted
<1> QED
  BY <1>1, <1>8, <1>13, <1>15, <1>16, ResponseStep

-----------------------------------------------------------------------------
(***************************************************************************)
(* The provider chain                                                      *)
(***************************************************************************)
LEMMA AnsweredIsCompletion ==
    ASSUME NEW outcome \in AllOutcomes, outcome.kind = "completion"
    PROVE  /\ outcome.content \in Contents
           /\ outcome = Completion(outcome.content)
BY DEF AllOutcomes, Completion, EmptyAnswer, Raised, Exceptions

(***************************************************************************)
(* A transient failure is not a completion.                                *)
(***************************************************************************)
LEMMA TransientIsNone ==
    ASSUME NEW outcome, OrchestratorProofs!Transient(outcome)
    PROVE  outcome.kind # "completion"
BY DEF OrchestratorProofs!Transient, OrchestratorProofs!Exceptions

(***************************************************************************)
(* In a chain that has been entered, the first completion, when there is   *)
(* one, is the last answer, and the models asked are those configured.     *)
(***************************************************************************)
ChainIsTold(r) ==
    LET e == exec[r]
        a == asked[r]
        b == answers[r]
    IN  /\ First(a, b) = Len(a)
        /\ Len(a) <= Len(e.configs)
        /\ e.request \in Sendable =>
              \A k \in 1 .. Len(a) : a[k].model = e.configs[k]
        /\ e.pc = "returned" =>
              /\ Len(a) = Len(b) /\ Len(b) > 0
              /\ e.response \in OrchestratorProofs!Responses
              /\ b[Len(b)] = Completion(e.response.content)

OrchestratorKnows(r) ==
    /\ OrchestratorProofs!TypeOK
    /\ OrchestratorProofs!Consistent(r)
    /\ OrchestratorProofs!Recorded(r)
    /\ OrchestratorProofs!TruthfulMetadata(r)
    /\ OrchestratorProofs!Explained(r)

(***************************************************************************)
(* The chain in the locals of the orchestrator is the one that the traffic *)
(* tells.                                                                  *)
(***************************************************************************)
LEMMA ChainTold ==
    \A r \in Reqs :
        OrchestratorKnows(r) /\ exec[r].pc # "idle" => ChainIsTold(r)
<1> SUFFICES ASSUME NEW r \in Reqs, OrchestratorKnows(r), exec[r].pc # "idle"
             PROVE  ChainIsTold(r)
  OBVIOUS
<1> DEFINE e == exec[r]
           a == asked[r]
           b == answers[r]
<1>1. /\ e \in OrchestratorProofs!ExecRecords
      /\ a \in Seq(Sendable) /\ b \in Seq(AllOutcomes)
      /\ Len(a) \in Nat /\ Len(b) \in Nat
  BY SameModels, LenProperties DEF OrchestratorKnows, OrchestratorProofs!TypeOK
<1>2. /\ Len(a) <= Len(e.configs)
      /\ \A k \in 1 .. Len(a) : a[k] = [e.request EXCEPT !.model = e.configs[k]]
      /\ \A k \in 1 .. Len(a) - 1 : OrchestratorProofs!Transient(b[k])
  BY DEF OrchestratorKnows, OrchestratorProofs!Consistent,
         OrchestratorProofs!InOrder
<1>3. ASSUME e.request \in Sendable, NEW k \in 1 .. Len(a)
      PROVE  a[k].model = e.configs[k]
  BY <1>2, <1>3 DEF Sendable
<1>4. CASE e.pc = "returned"
  <2>1. /\ Len(a) = Len(b) /\ Len(b) > 0
        /\ e.response.content = b[Len(b)].content
        /\ b[Len(b)].kind = "completion"
    BY <1>4 DEF OrchestratorKnows, OrchestratorProofs!TruthfulMetadata
  <2>2. e.response \in OrchestratorProofs!Responses
    BY <1>4 DEF OrchestratorKnows, OrchestratorProofs!Recorded
  <2>3. b[Len(b)] = Completion(e.response.content)
    BY <1>1, <2>1, AnsweredIsCompletion
  <2>4. \A k \in 1 .. Len(b) : b[k].kind = "completion" => Len(b) <= k
    <3> SUFFICES ASSUME NEW k \in 1 .. Len(b), b[k].kind = "completion",
                        k < Len(b)
                 PROVE  FALSE
      BY <1>1
    <3>1. k \in 1 .. Len(a) - 1
      BY <1>1, <2>1
    <3> QED
      BY <1>2, <3>1, TransientIsNone
  <2>5. First(a, b) = Len(b)
    <3> HIDE DEF a, b, e
    <3>1. Len(b) \in 1 .. Len(b)
      BY <1>1, <2>1
    <3> QED
      BY <1>1, <2>1, <2>4, <3>1, FirstIs
  <2> QED
    BY <1>2, <1>3, <2>1, <2>2, <2>3, <2>5 DEF ChainIsTold
<1>5. CASE e.pc # "returned"
  <2>1. \A k \in 1 .. Len(b) : b[k].kind # "completion"
    <3>1. CASE e.pc = "raised"
      BY <3>1 DEF OrchestratorKnows, OrchestratorProofs!Consistent,
                  OrchestratorProofs!TruthfulError
    <3>2. CASE e.pc \in {"loop", "awaiting"}
      <4>1. \A k \in 1 .. Len(b) : OrchestratorProofs!Transient(b[k])
        BY <3>2 DEF OrchestratorKnows, OrchestratorProofs!Consistent,
                    OrchestratorProofs!Bookkeeping
      <4> QED
        BY <4>1, TransientIsNone
    <3> QED
      BY <1>1, <1>5, <3>1, <3>2 DEF OrchestratorProofs!ExecRecords
  <2>2. First(a, b) = Len(a)
    BY <2>1, FirstOfNone
  <2> QED
    BY <1>2, <1>3, <1>5, <2>2 DEF ChainIsTold
<1> QED
  BY <1>4, <1>5

\* The same of the state after a step.
LEMMA ChainToldNext ==
    (\A r \in Reqs :
        OrchestratorKnows(r) /\ exec[r].pc # "idle" => ChainIsTold(r))'
BY ChainTold, PTL

(***************************************************************************)
(* As long as every answer is transient, the requests of the orchestrator  *)
(* are those the policy prescribes, one endpoint after the other.          *)
(***************************************************************************)
LEMMA ChainFollows ==
    ASSUME NEW r \in Reqs, NEW p \in PolicySet, NEW g, g.body \in ChatRequests,
           g.pc = "providers", NEW e, NEW a \in Seq(Sendable), NEW b,
           Entered(g, e, p), First(a, b) = Len(a), Len(a) <= Len(e.configs),
           e.request \in Sendable =>
               \A k \in 1 .. Len(a) : a[k].model = e.configs[k]
    PROVE  Follows(g, a, b, p)
<1> SUFFICES ASSUME a # <<>> PROVE Follows(g, a, b, p)
  BY DEF Follows
<1>1. Len(a) \in Nat /\ Len(a) > 0
  BY LenProperties, EmptySeq
<1>2. /\ p.provider.strategy = "sequential"
      /\ e.configs = ProviderConfigsOf(Held(g, p))
      /\ e.request = FirstRequest(g, p)
  <2>1. e.configs # <<>>
    BY <1>1
  <2> QED
    BY <2>1 DEF Entered
<1> DEFINE configs == ProviderConfigsOf(Held(g, p))
<1>3. /\ Len(configs) = Len(p.provider.fallbacks) + 1
      /\ Len(p.provider.fallbacks) \in Nat
      /\ \A k \in 1 .. Len(configs) : configs[k] = Model(g, p, k)
  BY ConfigsFollowPolicy
<1>4. e.request \in Sendable
  BY <1>2, StartTypes
<1> HIDE DEF configs
<1>5. \A k \in 1 .. Len(a) : a[k].model = Model(g, p, k)
  BY <1>1, <1>2, <1>3, <1>4 DEF configs
<1>6. Len(a) <= Len(p.provider.fallbacks) + 1
  BY <1>1, <1>2, <1>3 DEF configs
<1>7. p.retry.max_attempts \in Nat
  BY GatewayAssumption DEF PolicyRecords
<1> QED
  BY <1>1, <1>2, <1>5, <1>6, <1>7 DEF Follows

(***************************************************************************)
(* A step of chat that changes neither the body nor the policy of its      *)
(* request keeps what is known of them.                                    *)
(***************************************************************************)
LEMMA SamePolicy ==
    ASSUME NEW g, NEW h, h.body = g.body, h.ref = g.ref, h.own = g.own,
           NEW a, NEW b, NEW p, g.pc # "idle", g.ref # 0
    PROVE  /\ \A content : TextFinds(h, p, content) = TextFinds(g, p, content)
           /\ PromptFinds(h, p) = PromptFinds(g, p)
           /\ Admits(h, p) <=> Admits(g, p)
           /\ Held(h, p) = Held(g, p)
           /\ Context(h, p) = Context(g, p)
           /\ Resolved(g, p) /\ h.pc \notin {"idle", "resolve"} => Resolved(h, p)
           /\ Follows(g, a, b, p) => Follows(h, a, b, p)
<1>1. /\ \A content : TextFinds(h, p, content) = TextFinds(g, p, content)
      /\ PromptFinds(h, p) = PromptFinds(g, p)
      /\ Held(h, p) = Held(g, p)
  BY DEF TextFinds, PromptFinds, Held
<1>2. Admits(h, p) <=> Admits(g, p)
  BY <1>1 DEF Admits
<1>3. Context(h, p) = Context(g, p)
  BY <1>1 DEF Context
<1>4. ASSUME Resolved(g, p), h.pc \notin {"idle", "resolve"} PROVE Resolved(h, p)
  BY <1>4 DEF Resolved
<1>5. ASSUME Follows(g, a, b, p) PROVE Follows(h, a, b, p)
  BY <1>5 DEF Follows, Model
<1> QED
  BY <1>1, <1>2, <1>3, <1>4, <1>5

(***************************************************************************)
(* The first answer is checked: it is sent, retried, or there is no        *)
(* budget.                                                                 *)
(***************************************************************************)
LEMMA CheckOutputStep ==
    ASSUME Inv, NEW r \in Reqs, CheckOutput(r)
    PROVE  Inv'
<1> DEFINE p == Governed(r)
           h == gw[r]
           e == exec[r]
           a == asked[r]
           b == answers[r]
           content == e.response.content
           result == OutputResult(r, content)
           finds == TextFinds(h, p, content)
           g == [h EXCEPT !.pc = IF Retries(r, result) THEN "retry" ELSE "finish",
                          !.llm = e.response, !.output = result,
                          !.violations = h.violations \cup result.violations]
<1>1. /\ h.pc = "providers" /\ h.body \in ChatRequests /\ h.ref # 0
      /\ p \in PolicySet /\ p = heap[h.ref]
      /\ PolicyOf(r) = Held(h, p) /\ Resolved(h, p)
  BY Busy DEF CheckOutput
<1>2. e.pc = "returned"
  BY DEF CheckOutput
<1>3. OrchestratorKnows(r)
  BY <1>1 DEF Inv, Types, Own, Orchestrated, OrchestratorKnows
<1>4. /\ First(a, b) = Len(a) /\ Len(a) = Len(b) /\ Len(b) > 0
      /\ e.response \in OrchestratorProofs!Responses
      /\ b[Len(b)] = Completion(content)
  BY <1>2, <1>3, ChainTold DEF ChainIsTold
<1>5. e.response \in LlmAnswers
  BY <1>4 DEF LlmAnswers
<1>6. content \in Contents
  BY <1>5, AnswerFields
<1>7. result = ValidateOutput(content, Held(h, p), h.body.prompt)
  BY <1>1 DEF OutputResult
<1>8. result.violations = finds
  BY <1>1, <1>6, <1>7, TextVerdict
<1>9. result.passed <=> finds = {}
  BY <1>1, <1>6, <1>7, TextVerdict
<1>10. finds \in SUBSET AllViolations /\ result \in Verdicts
  BY <1>1, <1>6, <1>7, TextVerdict, VerdictTypes
<1>11. /\ p.retry.max_attempts \in Nat
       /\ PolicyOf(r).retry.max_attempts = p.retry.max_attempts
  <2>1. PolicyOf(r).retry = p.retry /\ p \in PolicyRecords
    BY <1>1, HeldPolicy
  <2> QED
    BY <2>1 DEF PolicyRecords
<1>12. /\ Coherent(h, e, retry[r], a, b, p) /\ h \in Chats
       /\ Len(a) \in Nat /\ Len(b) \in Nat
  BY Known
<1>29. ~Unread(p, content)
  BY <1>1, TextRaises DEF CheckOutput
<1>13. Retries(r, result) <=> finds # {} /\ p.retry.max_attempts > 0
  BY <1>9, <1>11 DEF Retries
<1>14. gw' = [gw EXCEPT ![r] = g]
  BY Known DEF CheckOutput, Chats
<1>15. UNCHANGED <<providers, registry>>
  BY DEF CheckOutput
<1> HIDE DEF p, e, a, b, result, content, finds, h
<1>16. g \in Chats
  BY <1>5, <1>8, <1>10, <1>12, ZenonT(40) DEF Chats
<1>17. /\ g.pc = IF Retries(r, result) THEN "retry" ELSE "finish"
       /\ g.body = h.body /\ g.ref = h.ref /\ g.own = h.own
       /\ g.input = h.input /\ g.output = result /\ g.llm = e.response
       /\ g.violations = h.violations \cup finds /\ g.retries = h.retries
  BY <1>8, <1>12 DEF Chats
<1> HIDE DEF g
<1>18. /\ TextFinds(g, p, content) = finds
       /\ PromptFinds(g, p) = PromptFinds(h, p)
       /\ Admits(g, p) <=> Admits(h, p)
  BY <1>1, <1>17, SamePolicy DEF finds
<1>19. Resolved(g, p)
  BY <1>1, <1>17, SamePolicy
<1>20. Follows(g, a, b, p)
  BY <1>1, <1>12, <1>17, SamePolicy DEF Coherent
<1>21. g.llm.content = content
  BY <1>17 DEF content
<1>22. NotYet(g, e, retry[r], a, b) /\ Screened(g, a, p)
  BY <1>1, <1>12, <1>17, <1>18 DEF Coherent, NotYet, Screened
<1>23. g.violations = PromptFinds(g, p) \cup TextFinds(g, p, g.llm.content)
  BY <1>1, <1>12, <1>17, <1>18, <1>21 DEF Coherent, Screened
<1>24. Rejected(g, a, b, p)
  BY <1>4, <1>5, <1>12, <1>13, <1>17, <1>18, <1>21, <1>23, <1>29 DEF Rejected
<1>25. Finishing(g, a, b, p)
  <2>1. SUFFICES ASSUME g.pc = "finish"
                 PROVE  /\ g.output.passed <=> TextFinds(g, p, g.llm.content) = {}
                        /\ TextFinds(g, p, g.llm.content) # {}
                              => p.retry.max_attempts = 0
                        /\ g.retries = Len(a) - First(a, b)
    BY <1>4, <1>5, <1>10, <1>17, <1>21, <1>23, <1>29 DEF Finishing
  <2>2. g.output.passed <=> TextFinds(g, p, g.llm.content) = {}
    BY <1>9, <1>17, <1>18, <1>21
  <2>3. TextFinds(g, p, g.llm.content) # {} => p.retry.max_attempts = 0
    BY <1>11, <1>13, <1>17, <1>18, <1>21, <2>1
  <2>4. g.retries = 0 /\ Len(a) - First(a, b) = 0
    BY <1>1, <1>4, <1>12, <1>17 DEF Coherent, NotYet
  <2> QED
    BY <2>2, <2>3, <2>4
<1>26. Coherent(g, e, retry[r], a, b, p)
  BY <1>1, <1>2, <1>12, <1>17, <1>19, <1>20, <1>22, <1>24, <1>25
  DEF Coherent, Quiet, Entered, Retrying, Truthful, Blames, Answers
<1>27. p = IF g.ref = 0 THEN None ELSE heap[g.ref]
  BY <1>1, <1>17
<1>28. g.ref \in 0 .. Len(heap) /\ g.pc \notin Early
  BY <1>17, Known DEF h, Early
<1> QED
  BY <1>14, <1>15, <1>16, <1>26, <1>27, <1>28, LocalStep DEF e, a, b

(***************************************************************************)
(* The first answer cannot be decoded, which ends the request.             *)
(***************************************************************************)
LEMMA OutputRaisedStep ==
    ASSUME Inv, NEW r \in Reqs, OutputRaised(r)
    PROVE  Inv'
<1> DEFINE p == Governed(r)
           g == gw[r]
           a == asked[r]
           b == answers[r]
           content == exec[r].response.content
<1>1. /\ g.pc = "providers" /\ g.body \in ChatRequests /\ g.ref # 0
      /\ p \in PolicySet /\ PolicyOf(r) = Held(g, p)
  BY Busy DEF OutputRaised
<1>2. exec[r].pc = "returned" /\ UNCHANGED <<providers, registry>>
  BY DEF OutputRaised
<1>3. OrchestratorKnows(r)
  BY <1>1 DEF Inv, Types, Own, Orchestrated, OrchestratorKnows
<1>4. /\ Len(a) = Len(b) /\ Len(b) > 0
      /\ b[Len(b)] = Completion(content)
  BY <1>2, <1>3, ChainTold DEF ChainIsTold
<1>5. Unread(p, content)
  BY <1>1, TextRaises DEF OutputRaised
<1>6. "json_error" \in ErrorNames \ {"value_error", "no_providers"}
  BY DEF ErrorNames
<1>7. a # <<>>
  BY <1>4
<1>8. b[Len(b)].kind = "completion" /\ b[Len(b)].content = content
  BY <1>4 DEF Completion
<1>9. retry[r].pc \notin {"loop", "awaiting"}
  BY <1>1, Known DEF Coherent, Quiet
<1>10. Reply(r, ErrorReply("json_error"))
  BY DEF OutputRaised
<1> HIDE DEF p, g, a, b, content
<1>11. Cause("json_error", g, a, b, p)
  BY <1>1, <1>4, <1>5, <1>6, <1>7, <1>8 DEF Cause
<1> QED
  BY <1>1, <1>2, <1>6, <1>9, <1>10, <1>11, ErrorStep DEF p, g, a, b

(***************************************************************************)
(* The engine returned a completion that passes.                           *)
(***************************************************************************)
LEMMA RetrySucceededStep ==
    ASSUME Inv, NEW r \in Reqs, RetrySucceeded(r)
    PROVE  Inv'
<1> DEFINE p == Governed(r)
           h == gw[r]
           t == retry[r]
           a == asked[r]
           b == answers[r]
           content == t.response.content
           result == OutputResult(r, content)
           finds == TextFinds(h, p, content)
           llm == Retried(t.response)
           g == [h EXCEPT !.pc = "finish", !.llm = llm, !.output = result,
                          !.retries = t.attempt,
                          !.violations = h.input.violations \cup result.violations]
<1>1. /\ h.pc = "retrying" /\ h.body \in ChatRequests /\ h.ref # 0
      /\ p \in PolicySet /\ p = heap[h.ref]
      /\ PolicyOf(r) = Held(h, p) /\ Resolved(h, p)
  BY Busy DEF RetrySucceeded
<1>2. /\ Coherent(h, exec[r], t, a, b, p) /\ h \in Chats /\ t \in Runs
      /\ Len(a) \in Nat /\ Len(b) \in Nat
  BY Known
<1>3. t.pc = "returned"
  BY DEF RetrySucceeded
<1>4. /\ t.response \in [content : Contents, provider : Vendors]
      /\ b[Len(b)] = Completion(content)
      /\ finds = {} /\ ~Unread(p, content)
      /\ Len(a) = First(a, b) + t.attempt /\ Len(a) = Len(b)
      /\ First(a, b) \in 1 .. Len(b)
  BY <1>1, <1>2, <1>3 DEF Coherent, Retrying, Rejected
<1>5. t.attempt \in Nat
  BY <1>2 DEF Runs
<1>6. content \in Contents
  BY <1>4
<1>7. llm \in LlmAnswers /\ llm.content = content
  BY <1>4 DEF Retried, LlmAnswers, RetriedAnswers
<1>8. result = ValidateOutput(content, Held(h, p), h.body.prompt)
  BY <1>1 DEF OutputResult
<1>9. result.violations = finds
  BY <1>1, <1>6, <1>8, TextVerdict
<1>10. result.passed <=> finds = {}
  BY <1>1, <1>6, <1>8, TextVerdict
<1>11. finds \in SUBSET AllViolations /\ result \in Verdicts
  BY <1>1, <1>6, <1>8, TextVerdict, VerdictTypes
<1>12. gw' = [gw EXCEPT ![r] = g]
  BY Known DEF RetrySucceeded, Chats
<1>13. UNCHANGED <<providers, registry>>
  BY DEF RetrySucceeded
<1>14. /\ h.input \in Verdicts /\ h.input.violations = PromptFinds(h, p)
       /\ h.input.violations \in SUBSET AllViolations
  BY <1>1, <1>2 DEF Coherent, Screened, Verdicts
<1> HIDE DEF p, t, a, b, result, content, finds, h, llm
<1>15. g \in Chats
  BY <1>2, <1>5, <1>7, <1>9, <1>11, <1>14 DEF Chats
<1>16. /\ g.pc = "finish" /\ g.body = h.body /\ g.ref = h.ref /\ g.own = h.own
       /\ g.input = h.input /\ g.output = result /\ g.llm = llm
       /\ g.violations = h.input.violations \cup finds /\ g.retries = t.attempt
  BY <1>2, <1>9 DEF Chats
<1> HIDE DEF g
<1>17. /\ TextFinds(g, p, content) = finds
       /\ PromptFinds(g, p) = PromptFinds(h, p)
       /\ Admits(g, p) <=> Admits(h, p)
  BY <1>1, <1>16, SamePolicy DEF finds
<1>18. Resolved(g, p)
  BY <1>1, <1>16, SamePolicy
<1>19. Follows(g, a, b, p)
  BY <1>1, <1>2, <1>16, SamePolicy DEF Coherent
<1>20. NotYet(g, exec[r], t, a, b) /\ Screened(g, a, p)
  BY <1>1, <1>2, <1>16, <1>17 DEF Coherent, NotYet, Screened
<1>21. Finishing(g, a, b, p)
  <2>1. g.violations = PromptFinds(g, p) \cup TextFinds(g, p, g.llm.content)
    BY <1>7, <1>14, <1>16, <1>17
  <2>2. g.output.passed <=> TextFinds(g, p, g.llm.content) = {}
    BY <1>7, <1>10, <1>16, <1>17
  <2>3. TextFinds(g, p, g.llm.content) = {}
    BY <1>4, <1>7, <1>16, <1>17
  <2>4. /\ Len(b) > 0 /\ g.retries = Len(a) - First(a, b)
    BY <1>2, <1>4, <1>5, <1>16
  <2>5. b[Len(b)] = Completion(g.llm.content)
    BY <1>4, <1>7, <1>16
  <2> QED
    BY <1>4, <1>7, <1>11, <1>16, <2>1, <2>2, <2>3, <2>4, <2>5 DEF Finishing
<1>22. Coherent(g, exec[r], t, a, b, p)
  BY <1>1, <1>2, <1>3, <1>16, <1>18, <1>19, <1>20, <1>21
  DEF Coherent, Quiet, Entered, Rejected, Retrying, Truthful, Blames, Answers
<1>23. p = IF g.ref = 0 THEN None ELSE heap[g.ref]
  BY <1>1, <1>16
<1>24. g.ref \in 0 .. Len(heap) /\ g.pc \notin Early
  BY <1>16, Known DEF h, Early
<1> QED
  BY <1>12, <1>13, <1>15, <1>22, <1>23, <1>24, LocalStep DEF t, a, b

(***************************************************************************)
(* A transient failure is the same to the gateway and to the proofs of the *)
(* orchestrator, and so are an empty answer and a registered vendor.       *)
(***************************************************************************)
LEMMA SameOutcomes ==
    /\ \A outcome :
          /\ OrchestratorProofs!Transient(outcome) <=> Orchestrator!Transient(outcome)
          /\ OrchestratorProofs!RaisesProviderError(outcome)
                <=> outcome.kind \in Exceptions
    /\ OrchestratorProofs!EmptyAnswer = EmptyAnswer
    /\ \A model : model.vendor # None =>
          (OrchestratorProofs!HasProvider(model)
              <=> model.vendor \in LITELLM_PREFIXES)
<1>1. ASSUME NEW outcome
      PROVE  OrchestratorProofs!Transient(outcome) <=> Orchestrator!Transient(outcome)
  BY DEF OrchestratorProofs!Transient, Orchestrator!Transient,
         OrchestratorProofs!Exceptions, Orchestrator!Exceptions
<1>2. ASSUME NEW outcome
      PROVE  OrchestratorProofs!RaisesProviderError(outcome)
                <=> outcome.kind \in Exceptions
  BY DEF OrchestratorProofs!RaisesProviderError, OrchestratorProofs!Exceptions,
         Exceptions
<1>3. OrchestratorProofs!EmptyAnswer = EmptyAnswer
  BY DEF OrchestratorProofs!EmptyAnswer, EmptyAnswer
<1>4. ASSUME NEW model, model.vendor # None
      PROVE  OrchestratorProofs!HasProvider(model)
                <=> model.vendor \in LITELLM_PREFIXES
  BY <1>4 DEF OrchestratorProofs!HasProvider, OrchestratorProofs!Prefix
<1> QED
  BY <1>1, <1>2, <1>3, <1>4

(***************************************************************************)
(* The error the orchestrator raises has its cause in the policy and in    *)
(* what the providers answered.                                            *)
(***************************************************************************)
LEMMA RaisedHasCause ==
    ASSUME NEW r \in Reqs, NEW p \in PolicySet, NEW g, g.body \in ChatRequests,
           g.pc = "providers", g.ref # 0, OrchestratorKnows(r),
           exec[r].pc = "raised", Entered(g, exec[r], p)
    PROVE  Cause(exec[r].error, g, asked[r], answers[r], p)
<1> DEFINE e == exec[r]
           a == asked[r]
           b == answers[r]
           n == Len(a)
           configs == ProviderConfigsOf(Held(g, p))
           passing == \A k \in 1 .. n : Orchestrator!Transient(b[k])
<1>1. /\ a \in Seq(Sendable) /\ n \in Nat
  BY SameModels, LenProperties DEF OrchestratorKnows, OrchestratorProofs!TypeOK
<1>2. /\ e.error \in OrchestratorProofs!Errors
      /\ Len(b) = n
      /\ e.error = "not_implemented" => n = 0 /\ e.configs = <<>>
      /\ e.error = "value_error" =>
            n < Len(e.configs) /\ e.configs[n + 1] = OrchestratorProofs!NoModel
      /\ e.error = "provider_not_found" =>
            /\ n < Len(e.configs) /\ passing
            /\ ~OrchestratorProofs!HasProvider(e.configs[n + 1])
      /\ e.error = "non_recoverable" =>
            /\ n > 0 /\ b[n].kind \in Exceptions
            /\ ~Orchestrator!Transient(b[n])
      /\ e.error = "all_providers_failed" =>
            n > 0 /\ n = Len(e.configs) /\ passing
      /\ e.error = "no_providers" => e.configs = <<>>
      /\ e.error = "index_error" => n > 0 /\ b[n] = EmptyAnswer
  BY SameOutcomes DEF OrchestratorKnows, OrchestratorProofs!Explained
<1>3. /\ Len(configs) = Len(p.provider.fallbacks) + 1
      /\ Len(p.provider.fallbacks) \in Nat
      /\ configs \in Seq(Models)
      /\ \A k \in 1 .. Len(configs) : configs[k] = Model(g, p, k)
  BY ConfigsFollowPolicy
<1>4. /\ e.error \in ErrorNames
      /\ e.error \notin {"policy_not_found", "provider_error", "json_error"}
  BY <1>2 DEF ErrorNames, OrchestratorProofs!Errors
<1>5. CASE p.provider.strategy # "sequential"
  <2>1. e.error = "not_implemented"
    BY <1>5 DEF Entered
  <2>2. a = <<>>
    BY <1>1, <1>2, <2>1, EmptySeq
  <2> QED
    BY <1>2, <1>4, <1>5, <2>1, <2>2 DEF Cause
<1>6. CASE p.provider.strategy = "sequential"
  <2>1. e.configs = configs
    BY <1>6 DEF Entered
  <2> HIDE DEF configs, e, a, b, n, passing
  <2>2. configs # <<>>
    BY <1>3
  <2>3. e.error \notin {"not_implemented", "no_providers"}
    BY <1>2, <2>1, <2>2
  <2>4. e.error # "value_error"
    <3> SUFFICES ASSUME e.error = "value_error" PROVE FALSE
      OBVIOUS
    <3>1. n + 1 \in 1 .. Len(configs)
      BY <1>1, <1>2, <1>3, <2>1
    <3>2. configs[n + 1] \in Models
      BY <1>3, <3>1
    <3>3. configs[n + 1].vendor = None
      BY <1>2, <2>1 DEF OrchestratorProofs!NoModel
    <3> QED
      BY <3>2, <3>3, NoneAssumption DEF Models
  <2>5. e.error \in {"non_recoverable", "all_providers_failed", "index_error"}
          => a # <<>>
    BY <1>1, <1>2 DEF n
  <2>6. e.error = "provider_not_found" => Unserved(g, a, b, p)
    <3> SUFFICES ASSUME e.error = "provider_not_found" PROVE Unserved(g, a, b, p)
      OBVIOUS
    <3>1. n + 1 \in 1 .. Len(configs)
      BY <1>1, <1>2, <1>3, <2>1
    <3>2. configs[n + 1] = Model(g, p, n + 1) /\ configs[n + 1] \in Models
      BY <1>3, <3>1
    <3>3. configs[n + 1].vendor # None
      BY <3>2, NoneAssumption DEF Models
    <3>4. configs[n + 1].vendor \notin LITELLM_PREFIXES
      BY <1>2, <2>1, <3>3, SameOutcomes
    <3> QED
      BY <1>2, <1>3, <2>1, <3>2, <3>4 DEF Unserved, n, passing
  <2>7. e.error \in {"non_recoverable", "all_providers_failed"}
          => ~Unserved(g, a, b, p) /\ b[n].kind \in Exceptions
    <3>1. CASE e.error = "non_recoverable"
      <4>1. n \in 1 .. n /\ ~Orchestrator!Transient(b[n])
        BY <1>1, <1>2, <3>1
      <4> QED
        BY <1>2, <3>1, <4>1 DEF Unserved, n
    <3>2. CASE e.error = "all_providers_failed"
      <4>1. ~(n < Len(p.provider.fallbacks) + 1)
        BY <1>1, <1>2, <1>3, <2>1, <3>2
      <4>2. n \in 1 .. n
        BY <1>1, <1>2, <3>2
      <4>3. b[n].kind \in Exceptions
        BY <1>2, <3>2, <4>2 DEF passing, Orchestrator!Transient, Exceptions, Orchestrator!Exceptions
      <4> QED
        BY <4>1, <4>3 DEF Unserved, n
    <3> QED
      BY <3>1, <3>2
  <2> QED
    <3>1. Len(b) = n /\ (e.error = "index_error" => b[n] = EmptyAnswer)
      BY <1>2
    <3>2. Cause(e.error, g, a, b, p)
      BY <1>4, <1>6, <2>3, <2>4, <2>5, <2>6, <2>7, <3>1 DEF Cause, n
    <3> QED
      BY <3>2 DEF e, a, b
<1> QED
  BY <1>5, <1>6

(***************************************************************************)
(* The errors of the orchestrator and of the engine.                       *)
(***************************************************************************)
LEMMA ProvidersRaisedStep ==
    ASSUME Inv, NEW r \in Reqs, ProvidersRaised(r)
    PROVE  Inv'
<1>1. /\ gw[r].pc = "providers" /\ exec[r].pc = "raised"
      /\ UNCHANGED <<providers, registry>>
  BY DEF ProvidersRaised
<1>2. OrchestratorKnows(r)
  BY <1>1 DEF Inv, Types, Own, Orchestrated, OrchestratorKnows
<1>3. /\ gw[r].body \in ChatRequests /\ gw[r].ref # 0 /\ Governed(r) \in PolicySet
  BY <1>1, Busy
<1>4. Entered(gw[r], exec[r], Governed(r))
  BY Known DEF Coherent
<1>5. Cause(exec[r].error, gw[r], asked[r], answers[r], Governed(r))
  BY <1>1, <1>2, <1>3, <1>4, RaisedHasCause
<1>6. exec[r].error \in ErrorNames
  BY <1>5 DEF Cause
<1>7. retry[r].pc \notin {"loop", "awaiting"}
  BY <1>1, Known DEF Coherent, Quiet
<1> QED
  BY <1>1, <1>5, <1>6, <1>7, ErrorStep DEF ProvidersRaised

(***************************************************************************)
(* The engine ended with an error of a provider or of the JSON check,      *)
(* which ends the request.                                                 *)
(***************************************************************************)
LEMMA RetryRaisedStep ==
    ASSUME Inv, NEW r \in Reqs, RetryRaised(r)
    PROVE  Inv'
<1> DEFINE error == retry[r].error
           g == gw[r]
           p == Governed(r)
           a == asked[r]
           b == answers[r]
<1>1. /\ error \in {"provider_error", "index_error", "json_error"}
      /\ error \in ErrorNames
  BY DEF RetryRaised, ErrorNames
<1>2. g.pc = "retrying" /\ UNCHANGED <<providers, registry>>
  BY DEF RetryRaised
<1>3. /\ exec[r].pc \notin {"loop", "awaiting"}
      /\ retry[r].pc \notin {"loop", "awaiting"}
  BY <1>2, Known, NoneIsNoError DEF Coherent, Quiet, Retrying, RetryRaised
<1>4. /\ g.ref # 0 /\ Len(a) \in Nat /\ Len(b) \in Nat
      /\ Retrying(g, retry[r], a, b, p) /\ Rejected(g, a, b, p)
  BY <1>2, Busy, Known DEF Coherent
<1>5. /\ Len(a) = Len(b)
      /\ error = "provider_error" => b[Len(b)].kind \in Exceptions
      /\ error = "index_error" => b[Len(b)] = EmptyAnswer
      /\ error = "json_error" =>
            b[Len(b)].kind = "completion" /\ Unread(p, b[Len(b)].content)
  BY <1>2, <1>3, <1>4 DEF Retrying
<1>6. /\ First(a, b) \in 1 .. Len(b)
      /\ b[First(a, b)].kind = "completion"
  BY <1>2, <1>4 DEF Rejected, Completion
<1>7. a # <<>> /\ ~Unserved(g, a, b, p)
  <2>1. First(a, b) \in 1 .. Len(a)
    BY <1>5, <1>6
  <2>2. ~Orchestrator!Transient(b[First(a, b)])
    BY <1>6 DEF Orchestrator!Transient, Orchestrator!Exceptions
  <2> QED
    BY <1>4, <1>5, <2>1, <2>2 DEF Unserved
<1>8. Cause(error, g, a, b, p)
  <2> HIDE DEF error, g, p, a, b
  <2> QED
    BY <1>1, <1>4, <1>5, <1>7 DEF Cause
<1> QED
  BY <1>1, <1>2, <1>3, <1>8, ErrorStep DEF RetryRaised

(***************************************************************************)
(* No policy has the id the request names.                                 *)
(***************************************************************************)
LEMMA PolicyNotFoundStep ==
    ASSUME Inv, NEW r \in Reqs, PolicyNotFound(r)
    PROVE  Inv'
<1>1. "policy_not_found" \in ErrorNames
  BY DEF ErrorNames
<1>2. gw[r].pc = "resolve" /\ UNCHANGED <<providers, registry>>
  BY DEF PolicyNotFound
<1>3. /\ exec[r].pc \notin {"loop", "awaiting"}
      /\ retry[r].pc \notin {"loop", "awaiting"}
  BY <1>2, Known DEF Coherent, Quiet
<1>4. Cause("policy_not_found", gw[r], asked[r], answers[r], Governed(r))
  BY <1>1, <1>2, Known DEF Coherent, Resolved, NotYet, Cause
<1> QED
  BY <1>1, <1>2, <1>3, <1>4, ErrorStep DEF PolicyNotFound

(***************************************************************************)
(* Steps of what chat awaits                                               *)
(***************************************************************************)
(***************************************************************************)
(* A step of one request that leaves the registry alone.                   *)
(***************************************************************************)
LEMMA SharedStep ==
    ASSUME Inv, NEW r \in Reqs, UNCHANGED registry,
           gw' \in [Reqs -> Chats], retry' \in [Reqs -> Runs],
           OrchestratorProofs!TypeOK',
           gw'[r].ref = gw[r].ref,
           \A d \in Reqs : d # r => /\ gw'[d] = gw[d] /\ exec'[d] = exec[d]
                                    /\ retry'[d] = retry[d]
                                    /\ asked'[d] = asked[d]
                                    /\ answers'[d] = answers[d],
           Coherent(gw'[r], exec'[r], retry'[r], asked'[r], answers'[r],
                    Governed(r)),
           gw'[r].pc \in Early =>
               /\ OrchestratorProofs!Consistent(r)'
               /\ OrchestratorProofs!Recorded(r)'
               /\ OrchestratorProofs!TruthfulMetadata(r)'
               /\ OrchestratorProofs!Explained(r)'
    PROVE  Inv'
<1>1. heap' = heap /\ cache' = cache
  BY DEF registry
<1>2. ASSUME NEW d \in Reqs PROVE gw'[d].ref \in 0 .. Len(heap')
  <2>1. gw[d].ref \in 0 .. Len(heap)
    BY DEF Inv, Types
  <2>2. gw'[d].ref = gw[d].ref
    BY <1>2
  <2> QED
    BY <1>1, <2>1, <2>2
<1>3. Registry!TypeOK' /\ Registry!KeyedById'
  BY <1>1 DEF Inv, Types, Registry!TypeOK, Registry!KeyedById, Registry!Absent
<1>4. Types'
  BY <1>2, <1>3 DEF Types
<1>5. Own(r)'
  <2>1. Governed(r)' = Governed(r)
    BY <1>1 DEF Governed, Governing
  <2>2. Coherent(gw[r], exec[r], retry[r], asked[r], answers[r], Governed(r))'
    BY <2>1
  <2>3. Orchestrated(r)'
    BY DEF Orchestrated, Early
  <2> QED
    BY <2>2, <2>3 DEF Own
<1>6. ASSUME NEW d \in Reqs, d # r PROVE Own(d)'
  BY <1>1, <1>6, OwnStays
<1> QED
  BY <1>4, <1>5, <1>6 DEF Inv

(***************************************************************************)
(* The orchestrator is called with the endpoints of the policy.            *)
(***************************************************************************)
LEMMA CallProvidersStep ==
    ASSUME Inv, NEW r \in Reqs, CallProviders(r)
    PROVE  Inv'
<1> DEFINE p == Governed(r)
           h == gw[r]
           g == [h EXCEPT !.pc = "providers"]
           configs == ProviderConfigsOf(Held(h, p))
           strategy == Held(h, p).provider.strategy
<1>1. /\ h.pc = "call" /\ h.body \in ChatRequests /\ h.ref # 0
      /\ p \in PolicySet /\ PolicyOf(r) = Held(h, p) /\ Resolved(h, p)
  BY Busy DEF CallProviders
<1>2. /\ Coherent(h, exec[r], retry[r], asked[r], answers[r], p) /\ h \in Chats
  BY Known
<1>3. /\ OrchestratorProofs!TypeOK /\ OrchestratorProofs!Consistent(r)
      /\ OrchestratorProofs!Recorded(r) /\ OrchestratorProofs!TruthfulMetadata(r)
      /\ OrchestratorProofs!Explained(r)
  BY <1>1 DEF Inv, Types, Own, Orchestrated
<1>4. ProviderRequestOf(r) = FirstRequest(h, p)
  BY <1>1 DEF ProviderRequestOf, FirstRequest
<1>5. Orchestrator!Execute(r, FirstRequest(h, p), configs, strategy)
  BY <1>1, <1>4 DEF CallProviders
<1>6. /\ FirstRequest(h, p) \in Sendable
      /\ strategy \in {"sequential", "random", "lowest_latency", "cheapest"}
  BY <1>1, HeldPolicy, StartTypes
<1>7. configs \in Seq(Models)
  BY <1>1, ConfigsFollowPolicy
<1>8. gw' = [gw EXCEPT ![r] = g] /\ retry' = retry /\ UNCHANGED registry
  BY Known DEF CallProviders, Chats
<1> HIDE DEF p, configs, strategy
<1>9. OrchestratorProofs!Enter(r)
  BY <1>5, <1>6, <1>7, SameExecute
<1>10. /\ OrchestratorProofs!TypeOK'
       /\ OrchestratorProofs!Consistent(r)'
       /\ OrchestratorProofs!Recorded(r)'
       /\ OrchestratorProofs!TruthfulMetadata(r)'
       /\ OrchestratorProofs!Explained(r)'
       /\ \A d \in Reqs : d # r => /\ exec'[d] = exec[d]
                                   /\ asked'[d] = asked[d]
                                   /\ answers'[d] = answers[d]
  BY <1>3, <1>9, OrchestratorStep
<1>11. /\ g \in Chats /\ g.pc = "providers" /\ g.body = h.body
       /\ g.ref = h.ref /\ g.own = h.own /\ g.input = h.input
       /\ g.violations = h.violations /\ g.retries = h.retries
  BY <1>2 DEF Chats
<1>12. /\ gw' \in [Reqs -> Chats] /\ gw'[r] = g
       /\ \A d \in Reqs : d # r => gw'[d] = gw[d]
  BY <1>8, <1>11, Known
<1> HIDE DEF g
<1>13. \/ /\ p.provider.strategy = "sequential"
          /\ exec'[r].pc = "loop" /\ exec'[r].configs = configs
          /\ exec'[r].request = FirstRequest(h, p)
       \/ /\ p.provider.strategy # "sequential"
          /\ exec'[r].pc = "raised" /\ exec'[r].error = "not_implemented"
          /\ exec'[r].configs = <<>>
  <2>1. exec'[r] =
          IF Orchestrator!IsImplemented(strategy)
          THEN [Orchestrator!NotStarted EXCEPT !.pc = "loop",
                    !.request = FirstRequest(h, p), !.configs = configs]
          ELSE [Orchestrator!NotStarted EXCEPT !.pc = "raised",
                    !.error = "not_implemented"]
    BY <1>5, Known DEF Orchestrator!Execute, Orchestrator!Select
  <2>2. strategy = p.provider.strategy /\ strategy # None
    BY <1>1, HeldPolicy, NoneAssumption DEF strategy
  <2> QED
    BY <2>1, <2>2 DEF Orchestrator!NotStarted, Orchestrator!IsImplemented
<1>14. asked' = asked /\ answers' = answers
  BY <1>5 DEF Orchestrator!Execute
<1>15. asked[r] = <<>> /\ answers[r] = <<>> /\ retry[r].pc = "idle"
       /\ h.retries = 0
  BY <1>1, <1>2 DEF Coherent, NotYet
<1>16. /\ PromptFinds(g, p) = PromptFinds(h, p)
       /\ Admits(g, p) <=> Admits(h, p)
       /\ Held(g, p) = Held(h, p)
       /\ Context(g, p) = Context(h, p)
  BY <1>1, <1>11, SamePolicy
<1>17. Resolved(g, p)
  BY <1>1, <1>11, SamePolicy
<1>18. FirstRequest(g, p) = FirstRequest(h, p)
  BY <1>11, <1>16 DEF FirstRequest
<1>19. Entered(g, exec'[r], p)
  BY <1>13, <1>16, <1>18 DEF Entered, configs
<1>20. Screened(g, asked[r], p)
  BY <1>1, <1>2, <1>11, <1>16 DEF Coherent, Screened
<1>21. Coherent(g, exec'[r], retry[r], asked[r], answers[r], p)
  BY <1>11, <1>15, <1>17, <1>19, <1>20
  DEF Coherent, NotYet, Quiet, Follows, Rejected, Retrying, Finishing, Truthful,
      Answers, Blames
<1> QED
  BY <1>8, <1>10, <1>11, <1>12, <1>14, <1>21, Known, SharedStep DEF p

(***************************************************************************)
(* A step of the provider chain.                                           *)
(***************************************************************************)
LEMMA OrchestratorProgressStep ==
    ASSUME Inv, NEW r \in Reqs, Orchestrator!Progress(r),
           UNCHANGED <<gw, retry, registry>>
    PROVE  Inv'
<1> DEFINE p == Governed(r)
           g == gw[r]
<1>1. OrchestratorProofs!Progress(r)
  BY SameProgress
<1>2. exec[r].pc \in {"loop", "awaiting"}
  BY DEF Orchestrator!Progress, Orchestrator!RejectConfig,
         Orchestrator!RejectVendor, Orchestrator!Ask, Orchestrator!Succeed,
         Orchestrator!FailOver, Orchestrator!Abort, Orchestrator!Crash,
         Orchestrator!Exhaust, Orchestrator!HasNext, Orchestrator!Answer
<1>3. /\ Coherent(g, exec[r], retry[r], asked[r], answers[r], p) /\ g \in Chats
  BY Known
<1>4. g.pc = "providers"
  BY <1>2, <1>3 DEF Coherent, Quiet
<1>5. /\ g.body \in ChatRequests /\ g.ref # 0 /\ p \in PolicySet
  BY <1>4, Busy
<1>6. /\ OrchestratorProofs!TypeOK /\ OrchestratorProofs!Consistent(r)
      /\ OrchestratorProofs!Recorded(r) /\ OrchestratorProofs!TruthfulMetadata(r)
      /\ OrchestratorProofs!Explained(r)
  BY <1>4 DEF Inv, Types, Own, Orchestrated
<1>7. /\ OrchestratorProofs!TypeOK'
      /\ OrchestratorProofs!Consistent(r)'
      /\ OrchestratorProofs!Recorded(r)'
      /\ OrchestratorProofs!TruthfulMetadata(r)'
      /\ OrchestratorProofs!Explained(r)'
      /\ \A d \in Reqs : d # r => /\ exec'[d] = exec[d]
                                  /\ asked'[d] = asked[d]
                                  /\ answers'[d] = answers[d]
  BY <1>1, <1>6, OrchestratorStep
<1>8. /\ exec'[r].configs = exec[r].configs
      /\ exec'[r].request = exec[r].request
      /\ exec'[r].pc # "idle"
  BY <1>1, <1>6, OrchestratorAssumptions, OrchestratorProofs!CourseIsSet
<1>9. ChainIsTold(r)'
  BY <1>7, <1>8, ChainToldNext DEF OrchestratorKnows
<1>10. /\ First(asked'[r], answers'[r]) = Len(asked'[r])
       /\ Len(asked'[r]) <= Len(exec'[r].configs)
       /\ exec'[r].request \in Sendable =>
             \A k \in 1 .. Len(asked'[r]) :
                asked'[r][k].model = exec'[r].configs[k]
  BY <1>9 DEF ChainIsTold
<1>11. asked'[r] \in Seq(Sendable)
  BY <1>7, SameModels DEF OrchestratorProofs!TypeOK
<1> HIDE DEF p, g
<1>12. Entered(g, exec'[r], p)
  <2>1. \/ /\ p.provider.strategy = "sequential"
           /\ exec[r].configs = ProviderConfigsOf(Held(g, p))
           /\ exec[r].request = FirstRequest(g, p)
        \/ exec[r].pc = "raised"
    BY <1>3, <1>4 DEF Coherent, Entered
  <2> QED
    BY <1>2, <1>8, <2>1 DEF Entered
<1>13. Follows(g, asked'[r], answers'[r], p)
  BY <1>4, <1>5, <1>10, <1>11, <1>12, ChainFollows
<1>14. Screened(g, asked'[r], p)
  BY <1>3, <1>4, <1>5 DEF Coherent, Screened
<1>15. Coherent(g, exec'[r], retry[r], asked'[r], answers'[r], p)
  BY <1>3, <1>4, <1>12, <1>13, <1>14
  DEF Coherent, NotYet, Quiet, Rejected, Retrying, Finishing, Truthful, Blames, Answers
<1>16. gw' = gw /\ retry' = retry /\ UNCHANGED registry
  OBVIOUS
<1> QED
  BY <1>7, <1>15, <1>16, Known, SharedStep DEF p, g

(***************************************************************************)
(* The retry engine                                                        *)
(***************************************************************************)
(***************************************************************************)
(* When the answer before the engine's calls is a completion, it stays the *)
(* first one whatever is answered next.                                    *)
(***************************************************************************)
LEMMA FirstIsSettled ==
    ASSUME NEW a, NEW b \in Seq(AllOutcomes), First(a, b) \in 1 .. Len(b),
           b[First(a, b)].kind = "completion", NEW outcome \in AllOutcomes, NEW c
    PROVE  /\ First(c, b) = First(a, b)
           /\ First(c, Append(b, outcome)) = First(a, b)
<1> DEFINE completed == Completions(b)
           less == OpToRel(<, Nat)
           m == First(a, b)
<1>1. completed \in SUBSET Nat /\ completed # {}
  BY DEF Completions
<1>2. IsWellFoundedOn(less, Nat)
  BY NatLessThanWellFounded
<1>3. m = CHOOSE k \in completed : \A j \in completed : k <= j
  BY <1>1 DEF First
<1> HIDE DEF less, completed
<1>4. PICK x \in completed : \A y \in completed : ~(<<y, x>> \in less)
  BY <1>1, <1>2, WFMin
<1>5. ASSUME NEW y \in completed PROVE x <= y
  <2>1. x \in Nat /\ y \in Nat
    BY <1>1
  <2>2. ~(y < x)
    BY <1>4, <2>1 DEF less, OpToRel
  <2> QED
    BY <2>1, <2>2
<1>6. m \in completed /\ \A j \in completed : m <= j
  <2> HIDE DEF m
  <2> QED
    BY <1>3, <1>5
<1>7. \A k \in 1 .. Len(b) : b[k].kind = "completion" => m <= k
  BY <1>6 DEF completed, Completions
<1> QED
  BY <1>7, FirstStays

(***************************************************************************)
(* The engine reads policies and outcomes as chat does.                    *)
(***************************************************************************)
LEMMA SameReading ==
    /\ \A policy : Engine!LitellmModel(policy) = LitellmModel(policy)
    /\ \A content, policy, prompt :
          Engine!ValidateOutput(content, policy, prompt)
              = ValidateOutput(content, policy, prompt)
    /\ \A content, policy :
          Engine!OutputRaises(content, policy) <=> OutputRaises(content, policy)
    /\ \A outcome : Engine!Answered(outcome) <=> outcome.kind = "completion"
    /\ \A violations : Engine!CodesOf(violations) = CodesOf(violations)
<1>1. \A policy : Engine!LitellmModel(policy) = LitellmModel(policy)
  BY DEF Engine!LitellmModel, LitellmModel, Engine!Routed, Routed
<1>2. \A content, policy, prompt :
          Engine!ValidateOutput(content, policy, prompt)
              = ValidateOutput(content, policy, prompt)
  BY DEF Engine!ValidateOutput, ValidateOutput, Engine!Result, Result,
         Engine!RiskScore, RiskScore, Engine!EnabledOutput, EnabledOutput,
         Engine!OutputGuardrails, OutputGuardrails
<1>3. \A outcome : Engine!Answered(outcome) <=> outcome.kind = "completion"
  BY DEF Engine!Answered
<1>4. \A violations : Engine!CodesOf(violations) = CodesOf(violations)
  BY DEF Engine!CodesOf, CodesOf
<1>5. \A content, policy :
          Engine!OutputRaises(content, policy) <=> OutputRaises(content, policy)
  BY DEF Engine!OutputRaises, OutputRaises, Engine!EnabledOutput, EnabledOutput,
         Engine!OutputGuardrails, OutputGuardrails
<1> QED
  BY <1>1, <1>2, <1>3, <1>4, <1>5

(***************************************************************************)
(* The engine is called with the original prompt and the policy.           *)
(***************************************************************************)
LEMMA EnterRetryStep ==
    ASSUME Inv, NEW r \in Reqs, EnterRetry(r)
    PROVE  Inv'
<1> DEFINE p == Governed(r)
           h == gw[r]
           g == [h EXCEPT !.pc = "retrying"]
           t == [Engine!NotStarted EXCEPT
                    !.pc = "loop", !.ctx = Context(h, p),
                    !.current_prompt = Engine!Plain(h.body.prompt)]
           a == asked[r]
           b == answers[r]
<1>1. /\ h.pc = "retry" /\ h.body \in ChatRequests /\ h.ref # 0
      /\ p \in PolicySet /\ PolicyOf(r) = Held(h, p) /\ Resolved(h, p)
  BY Busy DEF EnterRetry
<1>2. /\ Coherent(h, exec[r], retry[r], a, b, p) /\ h \in Chats
      /\ retry \in [Reqs -> Runs] /\ gw \in [Reqs -> Chats]
      /\ Len(a) \in Nat /\ Len(b) \in Nat
  BY Known
<1>3. /\ Context(h, p) \in RetryContexts
      /\ Engine!Plain(h.body.prompt) \in Engine!UserMessages
  BY <1>1, StartTypes
<1>4. /\ gw' = [gw EXCEPT ![r] = g] /\ UNCHANGED <<exec, registry>>
  BY <1>2 DEF EnterRetry, Chats
<1>5. UNCHANGED <<asked, answers>>
  BY DEF EnterRetry, Engine!Run
<1>6. retry' = [retry EXCEPT ![r] = t]
  <2>1. [prompt |-> h.body.prompt, policy |-> PolicyOf(r),
         conversation_history |-> h.body.context] = Context(h, p)
    BY <1>1 DEF Context
  <2>2. Context(h, p).prompt = h.body.prompt
    BY DEF Context
  <2> QED
    BY <2>1, <2>2 DEF EnterRetry, Engine!Run
<1>7. /\ t.pc = "loop" /\ t.ctx = Context(h, p) /\ t.attempt = 0
      /\ t.current_prompt = Engine!Plain(h.body.prompt)
      /\ t.error = None
  BY DEF Engine!NotStarted
<1>8. t \in Runs
  BY <1>3 DEF Engine!NotStarted, Runs
<1>9. p.retry.max_attempts \in Nat
  BY <1>1, GatewayAssumption DEF PolicyRecords
<1>10. /\ g \in Chats /\ g.pc = "retrying" /\ g.body = h.body
       /\ g.ref = h.ref /\ g.own = h.own /\ g.input = h.input
       /\ g.llm = h.llm /\ g.violations = h.violations
  BY <1>2 DEF Chats
<1> HIDE DEF g, t, a, b, p, h
<1>11. /\ gw'[r] = g /\ gw' \in [Reqs -> Chats]
       /\ retry'[r] = t /\ retry' \in [Reqs -> Runs]
       /\ \A d \in Reqs : d # r => gw'[d] = gw[d] /\ retry'[d] = retry[d]
  BY <1>2, <1>4, <1>6, <1>8, <1>10
<1>12. /\ \A content : TextFinds(g, p, content) = TextFinds(h, p, content)
       /\ PromptFinds(g, p) = PromptFinds(h, p)
       /\ Admits(g, p) <=> Admits(h, p)
       /\ Context(g, p) = Context(h, p)
  BY <1>1, <1>10, SamePolicy
<1>13. Resolved(g, p)
  BY <1>1, <1>10, SamePolicy
<1>14. Follows(g, a, b, p)
  BY <1>1, <1>2, <1>10, SamePolicy DEF Coherent
<1>15. Screened(g, a, p)
  BY <1>1, <1>2, <1>10, <1>12 DEF Coherent, Screened
<1>16. Rejected(h, a, b, p)
  BY <1>2 DEF Coherent
<1>17. Rejected(g, a, b, p)
  BY <1>1, <1>10, <1>12, <1>16 DEF Rejected
<1>18. Retrying(g, t, a, b, p)
  <2>1. /\ Len(a) = First(a, b) + 0 /\ Len(a) = Len(b)
        /\ b[Len(b)].kind = "completion" /\ ~Unread(p, b[Len(b)].content)
    BY <1>1, <1>2, <1>16 DEF Rejected, Completion
  <2>2. t.error \notin {"max_retries_exceeded", "provider_error", "index_error",
                     "json_error"}
    BY <1>7, NoneIsNoError
  <2> QED
    BY <1>3, <1>7, <1>9, <1>12, <2>1, <2>2 DEF Retrying
<1>19. Coherent(g, exec[r], t, a, b, p)
  BY <1>1, <1>2, <1>10, <1>13, <1>14, <1>15, <1>17, <1>18
  DEF Coherent, NotYet, Quiet, Entered, Finishing, Truthful, Blames, Answers
<1>20. OrchestratorProofs!TypeOK'
  BY <1>4, <1>5 DEF Inv, Types, OrchestratorProofs!TypeOK
<1> QED
  BY <1>4, <1>5, <1>10, <1>11, <1>19, <1>20, SharedStep DEF p, a, b, h, Early

(***************************************************************************)
(* A step of the engine: it changes the locals of its run, and may ask the *)
(* provider or get its answer.                                             *)
(***************************************************************************)
LEMMA EngineStep ==
    ASSUME Inv, NEW r \in Reqs, gw[r].pc = "retrying",
           UNCHANGED <<gw, exec, registry>>,
           NEW t \in Runs, retry' = [retry EXCEPT ![r] = t],
           NEW a \in Seq(Sendable), asked' = [asked EXCEPT ![r] = a],
           NEW b \in Seq(AllOutcomes), answers' = [answers EXCEPT ![r] = b],
           Follows(gw[r], a, b, Governed(r)),
           Rejected(gw[r], a, b, Governed(r)),
           Retrying(gw[r], t, a, b, Governed(r))
    PROVE  Inv'
<1> DEFINE p == Governed(r)
           g == gw[r]
<1>1. /\ Coherent(g, exec[r], retry[r], asked[r], answers[r], p)
      /\ gw \in [Reqs -> Chats] /\ retry \in [Reqs -> Runs]
      /\ exec \in [Reqs -> OrchestratorProofs!ExecRecords]
      /\ asked \in [Reqs -> Seq(Sendable)]
      /\ answers \in [Reqs -> Seq(AllOutcomes)]
  BY Known
<1>2. /\ gw' = gw /\ exec' = exec
      /\ retry' \in [Reqs -> Runs] /\ retry'[r] = t
      /\ \A d \in Reqs : d # r => retry'[d] = retry[d]
  BY <1>1
<1>3. /\ asked' \in [Reqs -> Seq(Sendable)] /\ asked'[r] = a
      /\ \A d \in Reqs : d # r => asked'[d] = asked[d]
  BY <1>1
<1>4. /\ answers' \in [Reqs -> Seq(AllOutcomes)] /\ answers'[r] = b
      /\ \A d \in Reqs : d # r => answers'[d] = answers[d]
  BY <1>1
<1>5. OrchestratorProofs!TypeOK'
  BY <1>1, <1>2, <1>3, <1>4, SameModels DEF OrchestratorProofs!TypeOK
<1>6. Coherent(g, exec[r], t, a, b, p)
  <2> HIDE DEF g, p
  <2>1. g.pc = "retrying"
    BY DEF g
  <2>2. /\ Follows(g, a, b, p) /\ Rejected(g, a, b, p) /\ Retrying(g, t, a, b, p)
    BY DEF g, p
  <2> QED
    BY <1>1, <2>1, <2>2
    DEF Coherent, Resolved, NotYet, Quiet, Screened, Entered, Finishing,
        Truthful, Blames, Answers
<1> QED
  BY <1>1, <1>2, <1>3, <1>4, <1>5, <1>6, SharedStep DEF Early

(***************************************************************************)
(* What is known of the run of a request while the engine works for it.    *)
(***************************************************************************)
LEMMA RunKnown ==
    ASSUME Inv, NEW r \in Reqs, retry[r].pc \in {"loop", "awaiting"}
    PROVE  LET p == Governed(r)
               g == gw[r]
               t == retry[r]
               a == asked[r]
               b == answers[r]
           IN  /\ g.pc = "retrying" /\ g.body \in ChatRequests /\ p \in PolicySet
               /\ Follows(g, a, b, p) /\ Rejected(g, a, b, p)
               /\ Retrying(g, t, a, b, p)
               /\ t.ctx = Context(g, p) /\ t.ctx.policy = Held(g, p)
               /\ t.ctx.prompt = g.body.prompt
               /\ Engine!MaxAttempts(r) = p.retry.max_attempts
               /\ p.retry.max_attempts \in Nat
               /\ t.attempt \in Nat /\ t.error = None
               /\ t.current_prompt \in Engine!UserMessages
               /\ Len(a) = First(a, b) + t.attempt
               /\ t.attempt <= p.retry.max_attempts
               /\ Len(a) = IF t.pc = "awaiting" THEN Len(b) + 1 ELSE Len(b)
               /\ First(a, b) \in 1 .. Len(b)
               /\ b[First(a, b)].kind = "completion"
               /\ t.pc = "loop" => /\ b[Len(b)].kind = "completion"
                                   /\ ~Unread(p, b[Len(b)].content)
<1> DEFINE p == Governed(r)
           g == gw[r]
           t == retry[r]
           a == asked[r]
           b == answers[r]
<1>1. /\ Coherent(g, exec[r], t, a, b, p) /\ t \in Runs
  BY Known
<1>2. g.pc = "retrying"
  BY <1>1 DEF Coherent, Quiet
<1>3. g.body \in ChatRequests /\ p \in PolicySet
  BY <1>2, Busy
<1>4. /\ t.ctx = Context(g, p) /\ t.error = None
      /\ t.current_prompt \in Engine!UserMessages
      /\ Len(a) = First(a, b) + t.attempt
      /\ t.attempt <= p.retry.max_attempts
      /\ Len(a) = IF t.pc = "awaiting" THEN Len(b) + 1 ELSE Len(b)
      /\ t.pc = "loop" => /\ b[Len(b)].kind = "completion"
                          /\ ~Unread(p, b[Len(b)].content)
  BY <1>1, <1>2 DEF Coherent, Retrying
<1>5. /\ t.ctx.policy = Held(g, p) /\ t.ctx.prompt = g.body.prompt
  BY <1>4 DEF Context
<1>6. p \in PolicyRecords /\ Held(g, p).retry = p.retry
  BY <1>3, HeldPolicy
<1>7. /\ p.retry.max_attempts \in Nat
      /\ Engine!MaxAttempts(r) = p.retry.max_attempts
  BY <1>5, <1>6 DEF Engine!MaxAttempts, PolicyRecords
<1>8. /\ First(a, b) \in 1 .. Len(b)
      /\ b[First(a, b)].kind = "completion"
  BY <1>1, <1>2 DEF Coherent, Rejected, Completion
<1>9. t.attempt \in Nat
  BY <1>1 DEF Runs
<1> QED
  BY <1>1, <1>2, <1>3, <1>4, <1>5, <1>7, <1>8, <1>9 DEF Coherent

(***************************************************************************)
(* An answer to the engine's call is no first answer: what is known of the *)
(* traffic and of the rejected text stays.                                 *)
(***************************************************************************)
LEMMA AnswerKeeps ==
    ASSUME Inv, NEW r \in Reqs, retry[r].pc = "awaiting", NEW outcome \in AllOutcomes
    PROVE  LET p == Governed(r)
               g == gw[r]
               a == asked[r]
               b == Append(answers[r], outcome)
           IN  /\ b \in Seq(AllOutcomes) /\ b[Len(b)] = outcome
               /\ Len(b) = Len(a)
               /\ First(a, b) = First(a, answers[r])
               /\ Follows(g, a, b, p) /\ Rejected(g, a, b, p)
<1> DEFINE p == Governed(r)
           g == gw[r]
           a == asked[r]
           old == answers[r]
           b == Append(old, outcome)
           m == First(a, old)
<1>1. /\ g.pc = "retrying"
      /\ Follows(g, a, old, p) /\ Rejected(g, a, old, p)
      /\ Len(a) = Len(old) + 1
      /\ m \in 1 .. Len(old) /\ old[m].kind = "completion"
  BY RunKnown
<1>2. old \in Seq(AllOutcomes) /\ Len(old) \in Nat
  BY Known
<1> HIDE DEF p, g, a, old, m
<1>3. /\ b \in Seq(AllOutcomes) /\ Len(b) = Len(old) + 1
      /\ b[Len(old) + 1] = outcome
      /\ \A k \in 1 .. Len(old) : b[k] = old[k]
  BY <1>2, AppendProperties
<1>4. First(a, b) = m
  BY <1>1, <1>2, FirstIsSettled DEF m
<1> HIDE DEF b
<1>5. Follows(g, a, b, p)
  BY <1>1, <1>4 DEF Follows, m
<1>6. /\ m \in 1 .. Len(b) /\ b[m] = old[m]
  BY <1>1, <1>2, <1>3
<1>7. Rejected(g, a, b, p)
  BY <1>1, <1>4, <1>6 DEF Rejected, m
<1> QED
  BY <1>1, <1>2, <1>3, <1>4, <1>5, <1>7 DEF p, g, a, old, m, b

(***************************************************************************)
(* The engine accepts an answer.                                           *)
(***************************************************************************)
LEMMA AcceptStep ==
    ASSUME Inv, NEW r \in Reqs, Engine!Accept(r), UNCHANGED <<gw, exec, registry>>
    PROVE  Inv'
<1> DEFINE p == Governed(r)
           g == gw[r]
           old == retry[r]
           a == asked[r]
<1>1. PICK outcome \in Outcomes :
          /\ Engine!Answered(outcome) /\ Engine!Answer(r, outcome)
          /\ ~Engine!CheckRaises(r, outcome.content)
          /\ Engine!Check(r, outcome.content).passed
          /\ retry' = [retry EXCEPT
                ![r].pc = "returned",
                ![r].response = Engine!Response(r, outcome.content)]
  BY DEF Engine!Accept
<1> DEFINE b == Append(answers[r], outcome)
           response == Engine!Response(r, outcome.content)
           t == [old EXCEPT !.pc = "returned", !.response = response]
<1>2. /\ old.pc = "awaiting"
      /\ answers' = [answers EXCEPT ![r] = b] /\ asked' = asked
  BY <1>1 DEF Engine!Answer
<1>3. outcome \in AllOutcomes /\ outcome.kind = "completion"
  BY <1>1, SameReading, OutcomesAssumption
<1>4. outcome.content \in Contents /\ outcome = Completion(outcome.content)
  BY <1>3, AnsweredIsCompletion
<1>5. /\ g.pc = "retrying" /\ g.body \in ChatRequests /\ p \in PolicySet
      /\ old.ctx = Context(g, p) /\ old.ctx.policy = Held(g, p)
      /\ old.ctx.prompt = g.body.prompt
      /\ old.attempt \in Nat /\ old.error = None
      /\ Len(a) = First(a, answers[r]) + old.attempt
      /\ old.attempt <= p.retry.max_attempts
  BY <1>2, RunKnown
<1>6. /\ b \in Seq(AllOutcomes) /\ b[Len(b)] = outcome
      /\ Len(b) = Len(a)
      /\ First(a, b) = First(a, answers[r])
      /\ Follows(g, a, b, p) /\ Rejected(g, a, b, p)
  BY <1>2, <1>3, AnswerKeeps
<1>7. /\ old \in Runs /\ retry \in [Reqs -> Runs] /\ a \in Seq(Sendable)
      /\ asked \in [Reqs -> Seq(Sendable)]
  BY Known
<1>8. Engine!Check(r, outcome.content)
        = ValidateOutput(outcome.content, Held(g, p), g.body.prompt)
  BY <1>5, SameReading DEF Engine!Check
<1>9. TextFinds(g, p, outcome.content) = {}
  BY <1>1, <1>4, <1>5, <1>8, TextVerdict
<1>15. ~Unread(p, outcome.content)
  BY <1>1, <1>5, SameReading, TextRaises DEF Engine!CheckRaises
<1>10. response \in [content : Contents, provider : Vendors]
       /\ response.content = outcome.content
  <2>1. LitellmModel(old.ctx.policy) \in Models
    BY <1>5, HeldPolicy, LitellmModelType
  <2>2. LitellmModel(old.ctx.policy).vendor \in Vendors
    BY <2>1 DEF Models
  <2> QED
    BY <1>4, <2>2, SameReading DEF Engine!Response
<1>11. retry' = [retry EXCEPT ![r] = t]
  BY <1>1, <1>7 DEF Runs
<1> HIDE DEF response, b, g, a, p
<1>12. /\ t \in Runs /\ t.pc = "returned" /\ t.response = response
       /\ t.ctx = old.ctx /\ t.attempt = old.attempt /\ t.error = None
  BY <1>5, <1>7, <1>10 DEF Runs
<1> HIDE DEF t, old
<1>13. Retrying(g, t, a, b, p)
  <2>1. t.error \notin {"max_retries_exceeded", "provider_error", "index_error",
                     "json_error"}
    BY <1>12, NoneIsNoError
  <2>2. b[Len(b)] = Completion(t.response.content)
    BY <1>4, <1>6, <1>10, <1>12
  <2> QED
    BY <1>5, <1>6, <1>9, <1>10, <1>12, <1>15, <2>1, <2>2 DEF Retrying
<1>14. asked' = [asked EXCEPT ![r] = a]
  BY <1>2, <1>7 DEF a
<1> QED
  BY <1>2, <1>5, <1>6, <1>7, <1>11, <1>12, <1>13, <1>14, EngineStep
  DEF g, a, p

(***************************************************************************)
(* The engine rejects an answer and makes a correction of it.              *)
(***************************************************************************)
LEMMA RejectStep ==
    ASSUME Inv, NEW r \in Reqs, Engine!Reject(r), UNCHANGED <<gw, exec, registry>>
    PROVE  Inv'
<1> DEFINE p == Governed(r)
           g == gw[r]
           old == retry[r]
           a == asked[r]
<1>1. PICK outcome \in Outcomes :
          /\ Engine!Answered(outcome) /\ Engine!Answer(r, outcome)
          /\ ~Engine!CheckRaises(r, outcome.content)
          /\ retry' = [retry EXCEPT
                ![r].pc = "loop",
                ![r].current_prompt =
                    IF retry[r].attempt < Engine!MaxAttempts(r)
                    THEN Engine!BuildCorrection(r,
                             Engine!Check(r, outcome.content).violations,
                             retry[r].attempt + 1)
                    ELSE @]
  BY DEF Engine!Reject
<1> DEFINE b == Append(answers[r], outcome)
           found == Engine!Check(r, outcome.content).violations
           correction == Engine!BuildCorrection(r, found, old.attempt + 1)
           prompt == IF old.attempt < Engine!MaxAttempts(r) THEN correction
                     ELSE old.current_prompt
           t == [old EXCEPT !.pc = "loop", !.current_prompt = prompt]
<1>2. /\ old.pc = "awaiting"
      /\ answers' = [answers EXCEPT ![r] = b] /\ asked' = asked
  BY <1>1 DEF Engine!Answer
<1>3. outcome \in AllOutcomes /\ outcome.kind = "completion"
  BY <1>1, SameReading, OutcomesAssumption
<1>4. outcome.content \in Contents
  BY <1>3, AnsweredIsCompletion
<1>5. /\ g.pc = "retrying" /\ g.body \in ChatRequests /\ p \in PolicySet
      /\ old.ctx = Context(g, p) /\ old.ctx.policy = Held(g, p)
      /\ old.ctx.prompt = g.body.prompt
      /\ old.attempt \in Nat /\ old.error = None
      /\ old.current_prompt \in Engine!UserMessages
      /\ Len(a) = First(a, answers[r]) + old.attempt
      /\ old.attempt <= p.retry.max_attempts
  BY <1>2, RunKnown
<1>6. /\ b \in Seq(AllOutcomes) /\ b[Len(b)] = outcome
      /\ Len(b) = Len(a)
      /\ First(a, b) = First(a, answers[r])
      /\ Follows(g, a, b, p) /\ Rejected(g, a, b, p)
  BY <1>2, <1>3, AnswerKeeps
<1>7. /\ old \in Runs /\ retry \in [Reqs -> Runs] /\ a \in Seq(Sendable)
      /\ asked \in [Reqs -> Seq(Sendable)]
  BY Known
<1>8. Engine!Check(r, outcome.content)
        = ValidateOutput(outcome.content, Held(g, p), g.body.prompt)
  BY <1>5, SameReading DEF Engine!Check
<1>9. found \in SUBSET AllViolations
  BY <1>4, <1>5, <1>8, TextVerdict
<1>10. Engine!CodesOf(found) \in SUBSET Codes
  BY <1>9, SameReading DEF CodesOf, AllViolations, Violations
<1>11. g.body.prompt \in Prompts
  BY <1>5, GatewayAssumption
<1>17. ~Unread(p, outcome.content)
  BY <1>1, <1>5, SameReading, TextRaises DEF Engine!CheckRaises
<1>12. prompt \in Engine!UserMessages
  <2> HIDE DEF found
  <2>1. correction \in Engine!UserMessages
    BY <1>5, <1>10, <1>11 DEF Engine!BuildCorrection, Engine!UserMessages
  <2> QED
    BY <1>5, <2>1
<1>13. retry' = [retry EXCEPT ![r] = t]
  BY <1>1, <1>7 DEF Runs
<1> HIDE DEF prompt, b, g, a, p
<1>14. /\ t \in Runs /\ t.pc = "loop" /\ t.current_prompt = prompt
       /\ t.ctx = old.ctx /\ t.attempt = old.attempt /\ t.error = None
  BY <1>5, <1>7, <1>12 DEF Runs
<1> HIDE DEF t, old
<1>15. Retrying(g, t, a, b, p)
  <2>1. t.error \notin {"max_retries_exceeded", "provider_error", "index_error",
                     "json_error"}
    BY <1>14, NoneIsNoError
  <2> QED
    BY <1>3, <1>5, <1>6, <1>12, <1>14, <1>17, <2>1 DEF Retrying
<1>16. asked' = [asked EXCEPT ![r] = a]
  BY <1>2, <1>7 DEF a
<1> QED
  BY <1>2, <1>5, <1>6, <1>7, <1>13, <1>14, <1>15, <1>16, EngineStep
  DEF g, a, p

(***************************************************************************)
(* A call of the engine fails, or the check of its answer raises.          *)
(***************************************************************************)
LEMMA FailStep ==
    ASSUME Inv, NEW r \in Reqs, Engine!Fail(r), UNCHANGED <<gw, exec, registry>>
    PROVE  Inv'
<1> DEFINE p == Governed(r)
           g == gw[r]
           old == retry[r]
           a == asked[r]
<1>1. PICK outcome \in Outcomes :
          /\ Engine!Answer(r, outcome)
          /\ ~Engine!Answered(outcome) \/ Engine!CheckRaises(r, outcome.content)
          /\ retry' = [retry EXCEPT
                ![r].pc = "raised",
                ![r].error =
                    CASE Engine!RaisesProviderError(outcome) -> "provider_error"
                      [] Engine!Malformed(outcome) -> "index_error"
                      [] Engine!Answered(outcome) -> "json_error"]
  BY DEF Engine!Fail
<1> DEFINE b == Append(answers[r], outcome)
           error == CASE Engine!RaisesProviderError(outcome) -> "provider_error"
                      [] Engine!Malformed(outcome) -> "index_error"
                      [] Engine!Answered(outcome) -> "json_error"
           t == [old EXCEPT !.pc = "raised", !.error = error]
<1>2. /\ old.pc = "awaiting"
      /\ answers' = [answers EXCEPT ![r] = b] /\ asked' = asked
  BY <1>1 DEF Engine!Answer
<1>3. outcome \in AllOutcomes
  BY OutcomesAssumption
<1>4. /\ g.pc = "retrying" /\ old.ctx = Context(g, p) /\ old.attempt \in Nat
      /\ g.body \in ChatRequests /\ p \in PolicySet
      /\ old.ctx.policy = Held(g, p)
      /\ Len(a) = First(a, answers[r]) + old.attempt
      /\ old.attempt <= p.retry.max_attempts
  BY <1>2, RunKnown
<1>5. /\ b \in Seq(AllOutcomes) /\ b[Len(b)] = outcome
      /\ Len(b) = Len(a)
      /\ First(a, b) = First(a, answers[r])
      /\ Follows(g, a, b, p) /\ Rejected(g, a, b, p)
  BY <1>2, <1>3, AnswerKeeps
<1>6. /\ old \in Runs /\ retry \in [Reqs -> Runs] /\ a \in Seq(Sendable)
      /\ asked \in [Reqs -> Seq(Sendable)]
  BY Known
<1>7. /\ error \in {"provider_error", "index_error", "json_error"}
      /\ error = "provider_error" => outcome.kind \in Exceptions
      /\ error = "index_error" => outcome = EmptyAnswer
      /\ error = "json_error" =>
            outcome.kind = "completion" /\ Unread(p, outcome.content)
  <2>1. CASE outcome.kind \in Exceptions
    BY <2>1 DEF Engine!RaisesProviderError, Engine!Malformed, Engine!Answered,
                Engine!Exceptions, Exceptions
  <2>2. CASE outcome = EmptyAnswer
    BY <2>2 DEF Engine!RaisesProviderError, Engine!Malformed, Engine!Answered,
                Engine!Exceptions, EmptyAnswer
  <2>3. CASE outcome.kind = "completion"
    <3>1. error = "json_error"
      BY <2>3 DEF Engine!RaisesProviderError, Engine!Malformed, Engine!Answered,
                  Engine!Exceptions
    <3>2. Engine!OutputRaises(outcome.content, Held(g, p))
      BY <1>1, <1>4, <2>3, SameReading DEF Engine!CheckRaises
    <3>3. Unread(p, outcome.content)
      BY <1>4, <3>2, SameReading, TextRaises
    <3> QED
      BY <2>3, <3>1, <3>3
  <2>4. \/ outcome.kind \in Exceptions \/ outcome = EmptyAnswer
        \/ outcome.kind = "completion"
    BY <1>3 DEF AllOutcomes, Completion, Raised
  <2> HIDE DEF error
  <2> QED
    BY <2>1, <2>2, <2>3, <2>4
<1>8. retry' = [retry EXCEPT ![r] = t]
  <2>1. retry' = [retry EXCEPT ![r].pc = "raised", ![r].error = error]
    BY <1>1
  <2> HIDE DEF error
  <2> QED
    BY <1>6, <2>1 DEF Runs
<1> HIDE DEF error, b, g, a, p
<1>9. /\ t \in Runs /\ t.pc = "raised" /\ t.error = error
      /\ t.ctx = old.ctx /\ t.attempt = old.attempt
  BY <1>6, <1>7 DEF Runs, Engine!RunErrors
<1> HIDE DEF t, old
<1>10. Retrying(g, t, a, b, p)
  BY <1>4, <1>5, <1>7, <1>9 DEF Retrying
<1>11. asked' = [asked EXCEPT ![r] = a]
  BY <1>2, <1>6 DEF a
<1> QED
  BY <1>2, <1>4, <1>5, <1>6, <1>8, <1>9, <1>10, <1>11, EngineStep
  DEF g, a, p

(***************************************************************************)
(* The engine has used up its budget.                                      *)
(***************************************************************************)
LEMMA ExhaustStep ==
    ASSUME Inv, NEW r \in Reqs, Engine!Exhaust(r), UNCHANGED <<gw, exec, registry>>
    PROVE  Inv'
<1> DEFINE p == Governed(r)
           g == gw[r]
           old == retry[r]
           a == asked[r]
           b == answers[r]
           t == [old EXCEPT !.pc = "raised", !.error = "max_retries_exceeded"]
<1>1. /\ old.pc = "loop" /\ ~(old.attempt < Engine!MaxAttempts(r))
      /\ retry' = [retry EXCEPT ![r].pc = "raised",
                                ![r].error = "max_retries_exceeded"]
      /\ asked' = asked /\ answers' = answers
  BY DEF Engine!Exhaust, Engine!MayAttempt
<1>2. /\ g.pc = "retrying" /\ old.ctx = Context(g, p) /\ old.attempt \in Nat
      /\ Follows(g, a, b, p) /\ Rejected(g, a, b, p)
      /\ Len(a) = First(a, b) + old.attempt /\ Len(a) = Len(b)
      /\ old.attempt <= p.retry.max_attempts
      /\ Engine!MaxAttempts(r) = p.retry.max_attempts
      /\ p.retry.max_attempts \in Nat
      /\ b[Len(b)].kind = "completion" /\ ~Unread(p, b[Len(b)].content)
  BY <1>1, RunKnown
<1>3. /\ old \in Runs /\ retry \in [Reqs -> Runs]
      /\ a \in Seq(Sendable) /\ asked \in [Reqs -> Seq(Sendable)]
      /\ b \in Seq(AllOutcomes) /\ answers \in [Reqs -> Seq(AllOutcomes)]
  BY Known
<1>4. old.attempt = p.retry.max_attempts
  BY <1>1, <1>2
<1>5. retry' = [retry EXCEPT ![r] = t]
  BY <1>1, <1>3 DEF Runs
<1>6. /\ t \in Runs /\ t.pc = "raised" /\ t.error = "max_retries_exceeded"
      /\ t.ctx = old.ctx /\ t.attempt = old.attempt
  BY <1>3 DEF Runs, Engine!RunErrors
<1>7. /\ asked' = [asked EXCEPT ![r] = a] /\ answers' = [answers EXCEPT ![r] = b]
  BY <1>1, <1>3
<1> HIDE DEF t, old, g, a, b, p
<1>8. Retrying(g, t, a, b, p)
  BY <1>2, <1>4, <1>6 DEF Retrying
<1> QED
  BY <1>2, <1>3, <1>5, <1>6, <1>7, <1>8, EngineStep DEF g, p

(***************************************************************************)
(* The engine asks the primary endpoint of the policy once more.           *)
(***************************************************************************)
LEMMA SendStep ==
    ASSUME Inv, NEW r \in Reqs, Engine!Send(r), UNCHANGED <<gw, exec, registry>>
    PROVE  Inv'
<1> DEFINE p == Governed(r)
           g == gw[r]
           old == retry[r]
           request == Engine!RequestOf(r)
           before == asked[r]
           a == Append(before, request)
           b == answers[r]
           t == [old EXCEPT !.pc = "awaiting", !.attempt = old.attempt + 1]
           m == First(before, b)
<1>1. /\ old.pc = "loop" /\ old.attempt < Engine!MaxAttempts(r)
      /\ retry' = [retry EXCEPT ![r].pc = "awaiting", ![r].attempt = @ + 1]
      /\ asked' = [asked EXCEPT ![r] = a] /\ answers' = answers
  BY Known DEF Engine!Send, Engine!MayAttempt
<1>2. /\ g.pc = "retrying" /\ g.body \in ChatRequests /\ p \in PolicySet
      /\ old.ctx = Context(g, p) /\ old.ctx.policy = Held(g, p)
      /\ old.attempt \in Nat /\ old.error = None
      /\ old.current_prompt \in Engine!UserMessages
      /\ Follows(g, before, b, p) /\ Rejected(g, before, b, p)
      /\ Len(before) = m + old.attempt /\ Len(before) = Len(b)
      /\ Engine!MaxAttempts(r) = p.retry.max_attempts
      /\ p.retry.max_attempts \in Nat
      /\ m \in 1 .. Len(b) /\ b[m].kind = "completion"
  BY <1>1, RunKnown
<1>3. /\ old \in Runs /\ retry \in [Reqs -> Runs]
      /\ before \in Seq(Sendable) /\ asked \in [Reqs -> Seq(Sendable)]
      /\ b \in Seq(AllOutcomes) /\ answers \in [Reqs -> Seq(AllOutcomes)]
      /\ Len(before) \in Nat /\ Len(b) \in Nat
  BY Known
<1>4. /\ request \in Sendable /\ request.model = Model(g, p, 1)
  <2>1. /\ LitellmModel(Held(g, p)) = Model(g, p, 1)
        /\ Model(g, p, 1) \in Models
    BY <1>2, ConfigsFollowPolicy
  <2>2. Held(g, p) \in PolicyRecords /\ g.body.context \in Histories
    BY <1>2, HeldPolicy, GatewayAssumption
  <2>3. Held(g, p).provider.primary.timeout_seconds \in Timeouts
    BY <2>2 DEF PolicyRecords, ProviderConfigs, Endpoints
  <2>4. old.ctx.conversation_history = g.body.context
    BY <1>2 DEF Context
  <2>5. request =
          [model |-> Model(g, p, 1),
           messages |-> [history |-> g.body.context,
                         prompt |-> old.current_prompt],
           timeout_seconds |-> Held(g, p).provider.primary.timeout_seconds]
    BY <1>2, <2>1, <2>4, SameReading DEF Engine!RequestOf
  <2> HIDE DEF request, p, g, old
  <2> QED
    BY <1>2, <2>1, <2>2, <2>3, <2>5 DEF Sendable, Conversations
<1>5. retry' = [retry EXCEPT ![r] = t]
  BY <1>1, <1>3 DEF Runs
<1>6. /\ t \in Runs /\ t.pc = "awaiting" /\ t.error = None
      /\ t.ctx = old.ctx /\ t.attempt = old.attempt + 1
      /\ t.current_prompt = old.current_prompt
  <2>1. old.attempt + 1 \in Nat
    BY <1>2
  <2>2. old.error = None
    BY <1>2
  <2> HIDE DEF old
  <2> QED
    BY <1>3, <2>1, <2>2 DEF Runs
<1>7. answers' = [answers EXCEPT ![r] = b]
  BY <1>1, <1>3
<1> HIDE DEF t, old, g, b, p, before, request, m
<1>8. /\ a \in Seq(Sendable) /\ Len(a) = Len(before) + 1
      /\ a[Len(before) + 1] = request
      /\ \A k \in 1 .. Len(before) : a[k] = before[k]
  BY <1>3, <1>4, AppendProperties
<1> HIDE DEF a
<1>9. First(a, b) = m
  <2>1. EmptyAnswer \in AllOutcomes
    BY DEF AllOutcomes
  <2> QED
    BY <1>2, <1>3, <2>1, FirstIsSettled DEF m
<1>10. Follows(g, a, b, p)
  <2>1. before # <<>>
    BY <1>2, <1>3
  <2>2. /\ p.provider.strategy = "sequential"
        /\ m <= Len(p.provider.fallbacks) + 1
        /\ \A k \in 1 .. Len(before) :
              before[k].model = Model(g, p, IF k <= m THEN k ELSE 1)
    BY <1>2, <2>1 DEF Follows, m
  <2>3. ASSUME NEW k \in 1 .. Len(a)
        PROVE  a[k].model = Model(g, p, IF k <= m THEN k ELSE 1)
    <3>1. CASE k \in 1 .. Len(before)
      BY <1>8, <2>2, <3>1
    <3>2. CASE k = Len(before) + 1
      <4>1. ~(k <= m)
        BY <1>2, <1>3, <3>2
      <4> QED
        BY <1>4, <1>8, <3>2, <4>1
    <3> QED
      BY <1>3, <1>8, <3>1, <3>2
  <2>4. Len(a) - m <= p.retry.max_attempts
    BY <1>1, <1>2, <1>3, <1>8, SMTT(30)
  <2> QED
    BY <1>9, <2>2, <2>3, <2>4 DEF Follows
<1>11. Rejected(g, a, b, p)
  BY <1>2, <1>9 DEF Rejected, m
<1>12. Retrying(g, t, a, b, p)
  <2>1. t.error \notin {"max_retries_exceeded", "provider_error", "index_error",
                     "json_error"}
    BY <1>6, NoneIsNoError
  <2>2. t.attempt <= p.retry.max_attempts
    BY <1>1, <1>2, <1>6
  <2>3. Len(a) = m + t.attempt /\ Len(a) = Len(b) + 1
    <3>1. m \in Nat /\ old.attempt \in Nat /\ Len(before) = m + old.attempt
      BY <1>2, <1>3
    <3>2. Len(a) = Len(before) + 1 /\ Len(before) = Len(b)
      BY <1>2, <1>8
    <3>3. m + old.attempt + 1 = m + (old.attempt + 1)
      BY <3>1
    <3> QED
      BY <1>6, <3>1, <3>2, <3>3
  <2> QED
    BY <1>2, <1>6, <1>9, <2>1, <2>2, <2>3 DEF Retrying
<1> QED
  BY <1>1, <1>2, <1>3, <1>5, <1>6, <1>7, <1>8, <1>10, <1>11, <1>12, EngineStep
  DEF g, p

-----------------------------------------------------------------------------
(***************************************************************************)
(* Reloads                                                                 *)
(***************************************************************************)
(***************************************************************************)
(* A reload is a step of the registry as the registry's proofs see it.     *)
(***************************************************************************)
LEMMA ReloadIsRegistryStep ==
    ASSUME Inv, Reload
    PROVE  RegistryProofs!Next /\ Registry!Next
<1>1. RegistryProofs!TypeOK
  BY DEF Inv, Types, Registry!TypeOK, RegistryProofs!TypeOK
<1>2. CASE \E p \in PolicySet : Registry!Publish(p)
  <2>1. PICK p \in PolicySet : Registry!Publish(p)
    BY <1>2
  <2>2. RegistryProofs!Publish(p)
    BY <2>1 DEF Registry!Publish, RegistryProofs!Publish
  <2>3. RegistryProofs!Put
    BY <1>1, <2>2, RegistryProofs!PublishIsPut
  <2>4. Registry!Put
    BY <2>3 DEF RegistryProofs!Put, Registry!Put, RegistryProofs!Published,
                Registry!Published, RegistryProofs!Publish, Registry!Publish
  <2> QED
    BY <2>3, <2>4 DEF Registry!Next, RegistryProofs!Next
<1>3. CASE \E ps \in Directories : Registry!PublishAll(ps)
  <2>1. PICK ps \in Directories : Registry!PublishAll(ps)
    BY <1>3
  <2>2. ps \in Seq(PolicySet) /\ Registry!DistinctIds(ps)
    BY GatewayAssumption
  <2>3. RegistryProofs!DistinctIds(ps)
    BY <2>2 DEF Registry!DistinctIds, RegistryProofs!DistinctIds
  <2>4. RegistryProofs!PublishAll(ps)
    BY <2>1 DEF Registry!PublishAll, RegistryProofs!PublishAll,
                Registry!Absent, RegistryProofs!Absent
  <2>5. RegistryProofs!Replace
    BY <1>1, <2>2, <2>3, <2>4, RegistryProofs!PublishAllIsReplace
  <2>6. RegistryProofs!Published = ps
    BY <1>1, <2>2, <2>4, RegistryProofs!PublishedIsTheRest
    DEF RegistryProofs!PublishAll
  <2>7. Registry!Published = ps
    BY <2>6 DEF RegistryProofs!Published, Registry!Published
  <2>8. Registry!Replace
    BY <2>1, <2>2, <2>7 DEF Registry!Replace
  <2> QED
    BY <2>5, <2>8 DEF Registry!Next, RegistryProofs!Next
<1> QED
  BY <1>2, <1>3 DEF Reload

(***************************************************************************)
(* A reload changes neither a published policy nor a request.              *)
(***************************************************************************)
LEMMA ReloadStep ==
    ASSUME Inv, Reload
    PROVE  Inv'
<1>1. /\ RegistryProofs!TypeOK /\ RegistryProofs!KeyedById
      /\ [RegistryProofs!Next]_RegistryProofs!regvars
  BY ReloadIsRegistryStep
  DEF Inv, Types, Registry!TypeOK, RegistryProofs!TypeOK, Registry!KeyedById,
      RegistryProofs!KeyedById, Registry!Absent, RegistryProofs!Absent
<1>2. RegistryProofs!TypeOK'
  BY <1>1, RegistryProofs!TypeStep
<1>3. RegistryProofs!KeyedById'
  BY <1>1, RegistryProofs!KeyedStep
<1>4. /\ Len(heap) \in Nat /\ Len(heap') \in Nat /\ Len(heap) <= Len(heap')
      /\ \A k \in 1 .. Len(heap) : heap'[k] = heap[k]
  BY <1>1, RegistryProofs!NothingIsRewritten
<1>5. /\ gw' = gw /\ exec' = exec /\ retry' = retry
      /\ asked' = asked /\ answers' = answers
  BY DEF Reload, providers
<1>6. Registry!TypeOK' /\ Registry!KeyedById'
  BY <1>2, <1>3
  DEF Registry!TypeOK, RegistryProofs!TypeOK, Registry!KeyedById,
      RegistryProofs!KeyedById, Registry!Absent, RegistryProofs!Absent
<1>7. OrchestratorProofs!TypeOK'
  BY <1>5 DEF Inv, Types, OrchestratorProofs!TypeOK
<1>8. ASSUME NEW r \in Reqs PROVE gw'[r].ref \in 0 .. Len(heap')
  <2>1. gw[r].ref \in 0 .. Len(heap)
    BY Known
  <2> QED
    BY <1>4, <1>5, <2>1
<1>9. Types'
  BY <1>5, <1>6, <1>7, <1>8 DEF Inv, Types
<1>10. ASSUME NEW r \in Reqs PROVE Own(r)'
  BY <1>4, <1>5, OwnStays
<1> QED
  BY <1>9, <1>10 DEF Inv

-----------------------------------------------------------------------------
(***************************************************************************)
(* Every step keeps the invariant.                                         *)
(***************************************************************************)
LEMMA ChatStep ==
    ASSUME Inv, NEW r \in Reqs, Chat(r)
    PROVE  Inv'
BY ResolveStep, PolicyNotFoundStep, BlockStep, AdmitInputStep,
   CallProvidersStep, ProvidersRaisedStep, CheckOutputStep, OutputRaisedStep,
   EnterRetryStep, RetrySucceededStep, RetryExhaustedStep, RetryRaisedStep, FinishStep DEF Chat

(***************************************************************************)
(* A step of what a request awaits, orchestrator or engine, keeps the      *)
(* invariant.                                                              *)
(***************************************************************************)
LEMMA AwaitStep ==
    ASSUME Inv, NEW r \in Reqs, Await(r)
    PROVE  Inv'
<1>1. CASE Orchestrator!Progress(r) /\ UNCHANGED <<gw, retry, registry>>
  BY <1>1, OrchestratorProgressStep
<1>2. CASE Engine!Progress(r) /\ UNCHANGED <<gw, exec, registry>>
  BY <1>2, SendStep, AcceptStep, RejectStep, FailStep, ExhaustStep
  DEF Engine!Progress
<1> QED
  BY <1>1, <1>2 DEF Await

(***************************************************************************)
(* So does a step of something else.                                       *)
(***************************************************************************)
LEMMA IdleStep == Inv /\ UNCHANGED vars => Inv'
<1> SUFFICES ASSUME Inv, UNCHANGED vars PROVE Inv'
  OBVIOUS
<1>1. /\ gw' = gw /\ exec' = exec /\ retry' = retry /\ asked' = asked
      /\ answers' = answers /\ heap' = heap /\ cache' = cache
  BY DEF vars
<1>2. Types'
  BY <1>1 DEF Inv, Types, OrchestratorProofs!TypeOK, Registry!TypeOK,
              Registry!KeyedById, Registry!Absent
<1>3. ASSUME NEW r \in Reqs PROVE Own(r)'
  BY <1>1, OwnStays
<1> QED
  BY <1>2, <1>3 DEF Inv

(***************************************************************************)
(* Every step of the gateway, reloads included, keeps the invariant.       *)
(***************************************************************************)
LEMMA InvStep == Inv /\ [Next]_vars => Inv'
<1> SUFFICES ASSUME Inv, Next PROVE Inv'
  BY IdleStep
<1>1. ASSUME NEW r \in Reqs, NEW body \in ChatRequests, Receive(r, body)
      PROVE  Inv'
  BY <1>1, ReceiveStep
<1> QED
  BY <1>1, ChatStep, AwaitStep, ReloadStep DEF Next

(***************************************************************************)
(* It holds before the first request, whatever was loaded at start-up.     *)
(***************************************************************************)
LEMMA InitialRegistry ==
    ASSUME NEW ps \in Directories, heap = ps,
           cache = [i \in PolicyIds |->
                IF \E k \in 1 .. Len(ps) : ps[k].id = i
                THEN CHOOSE k \in 1 .. Len(ps) : ps[k].id = i
                ELSE Registry!Absent]
    PROVE  Registry!TypeOK /\ Registry!KeyedById /\ Len(heap) \in Nat
<1>1. ps \in Seq(PolicySet) /\ Len(ps) \in Nat
  BY GatewayAssumption, LenProperties
<1>2. ASSUME NEW i \in PolicyIds
      PROVE  /\ cache[i] \in Nat
             /\ cache[i] # 0 => cache[i] \in 1 .. Len(ps) /\ ps[cache[i]].id = i
  <2>1. CASE \E k \in 1 .. Len(ps) : ps[k].id = i
    <3>1. cache[i] = CHOOSE k \in 1 .. Len(ps) : ps[k].id = i
      BY <2>1
    <3>2. cache[i] \in 1 .. Len(ps) /\ ps[cache[i]].id = i
      BY <2>1, <3>1
    <3> QED
      BY <1>1, <3>2
  <2>2. CASE ~ \E k \in 1 .. Len(ps) : ps[k].id = i
    BY <2>2 DEF Registry!Absent
  <2> QED
    BY <2>1, <2>2
<1>3. cache \in [PolicyIds -> Nat]
  <2>1. cache = [i \in PolicyIds |-> cache[i]]
    OBVIOUS
  <2> QED
    BY <1>2, <2>1
<1> QED
  BY <1>1, <1>2, <1>3 DEF Registry!TypeOK, Registry!KeyedById, Registry!Absent

(***************************************************************************)
(* The invariant holds before the first request.                           *)
(***************************************************************************)
LEMMA InvInit == Init => Inv
<1> SUFFICES ASSUME Init PROVE Inv
  OBVIOUS
<1>1. Registry!TypeOK /\ Registry!KeyedById /\ Len(heap) \in Nat
  BY InitialRegistry DEF Init
<1>2. OrchestratorProofs!Init
  BY DEF Init, Orchestrator!Init, OrchestratorProofs!Init,
         Orchestrator!NotStarted, OrchestratorProofs!NotStarted
<1>3. OrchestratorProofs!TypeOK
  BY <1>2, OrchestratorAssumptions, OrchestratorProofs!TypeInit
<1>4. OrchestratorProofs!Inv
  BY <1>2, OrchestratorAssumptions, OrchestratorProofs!InvInit
<1>5. NotReceived \in Chats
  BY DEF NotReceived, Chats
<1>6. Engine!NotStarted \in Runs
  BY DEF Engine!NotStarted, Runs
<1>7. Types
  <2>1. \A r \in Reqs : gw[r].ref \in 0 .. Len(heap)
    BY <1>1 DEF Init, NotReceived
  <2> QED
    BY <1>1, <1>3, <1>5, <1>6, <2>1 DEF Init, Types
<1>8. ASSUME NEW r \in Reqs PROVE Own(r)
  <2>1. /\ gw[r] = NotReceived /\ retry[r] = Engine!NotStarted
        /\ exec[r] = OrchestratorProofs!NotStarted
        /\ asked[r] = <<>> /\ answers[r] = <<>>
    BY <1>2 DEF Init, OrchestratorProofs!Init
  <2>2. Orchestrated(r)
    <3>1. OrchestratorProofs!Consistent(r)
      BY <1>4 DEF OrchestratorProofs!Inv
    <3>2. OrchestratorProofs!Recorded(r) /\ OrchestratorProofs!TruthfulMetadata(r)
      BY <2>1 DEF OrchestratorProofs!Recorded, OrchestratorProofs!TruthfulMetadata,
                  OrchestratorProofs!NotStarted
    <3>3. OrchestratorProofs!Explained(r)
      BY <2>1 DEF OrchestratorProofs!Explained, OrchestratorProofs!NotStarted
    <3> QED
      BY <3>1, <3>2, <3>3 DEF Orchestrated
  <2>3. Coherent(gw[r], exec[r], retry[r], asked[r], answers[r], Governed(r))
    BY <2>1
    DEF Coherent, Resolved, NotYet, Quiet, Screened, Entered, Follows, Rejected,
        Retrying, Finishing, Truthful, Blames, Answers, NotReceived, Engine!NotStarted,
        OrchestratorProofs!NotStarted
  <2> QED
    BY <2>2, <2>3 DEF Own
<1> QED
  BY <1>7, <1>8 DEF Inv

-----------------------------------------------------------------------------
(***************************************************************************)
(* The invariant holds of every gateway.                                   *)
(***************************************************************************)
THEOREM Invariance == Spec => []Inv
<1> QED
  BY InvInit, InvStep, PTL DEF Spec

(***************************************************************************)
(* The locals of chat and the registry have the types they should have.    *)
(***************************************************************************)
THEOREM TypeCorrect == Spec => []TypeOK
<1>1. ASSUME Inv, NEW r \in Reqs
      PROVE  /\ gw[r].reply.status \in
                  {"none", "ok", "policy_not_found", "provider_error",
                   "index_error", "json_error"} \cup Orchestrator!Errors
             /\ IsResponse(gw[r].reply) =>
                  gw[r].reply.provider_chain \in Seq(Vendors)
  <2>1. gw[r].reply \in {NoReply} \cup ErrorReplies \cup ChatResponses
    BY <1>1, Known DEF Chats
  <2>2. CASE gw[r].reply = NoReply
    BY <2>2 DEF NoReply, IsResponse
  <2>3. CASE gw[r].reply \in ErrorReplies
    <3>1. PICK error \in ErrorNames : gw[r].reply = ErrorReply(error)
      BY <2>3 DEF ErrorReplies
    <3>2. gw[r].reply.status = error
      BY <3>1 DEF ErrorReply
    <3> QED
      BY <3>2 DEF ErrorNames, OrchestratorProofs!Errors, Orchestrator!Errors,
                  IsResponse
  <2>4. CASE gw[r].reply \in ChatResponses
    BY <2>4 DEF ChatResponses
  <2> QED
    BY <2>1, <2>2, <2>3, <2>4
<1>2. ASSUME Inv, NEW r \in Reqs
      PROVE  /\ gw[r].pc \in {"idle", "resolve", "input", "call", "providers",
                              "retry", "retrying", "finish", "replied"}
             /\ gw[r].body \in ChatRequests \cup {None}
             /\ gw[r].ref \in 0 .. Len(heap)
             /\ gw[r].own \in PolicyRecords \cup {None}
             /\ gw[r].retries \in Nat
             /\ gw[r].violations \subseteq
                   Violations(InputGuardrails \cup OutputGuardrails)
  BY <1>2, Known DEF Chats, AllViolations
<1>3. Inv => TypeOK
  BY <1>1, <1>2 DEF Inv, Types, TypeOK
<1> QED
  BY <1>3, Invariance, PTL

(***************************************************************************)
(* The properties speak of the published policy and the traffic as the     *)
(* invariant does.                                                         *)
(***************************************************************************)
LEMMA SameTerms ==
    ASSUME Inv, NEW r \in Reqs, gw[r].ref # 0
    PROVE  LET p == Governed(r)
               g == gw[r]
           IN  /\ p = Governing(r)
               /\ InputFlags(r) = PromptFinds(g, p)
               /\ \A content : TextFlags(r, content) = TextFinds(g, p, content)
               /\ FirstAnswer(r) = First(asked[r], answers[r])
               /\ \A k : Route(r, k) = Model(g, p, k)
BY DEF Governed, InputFlags, FlagsPrompt, PromptFinds, TextFlags, TextFinds,
       FirstAnswer, First, Completions, Route, Model

(***************************************************************************)
(* The invariant says that no provider sees a blocked prompt.              *)
(***************************************************************************)
LEMMA ScreenedByInv == Inv => PromptScreened
<1> SUFFICES ASSUME Inv, NEW r \in Reqs, asked[r] # <<>>
             PROVE  \/ InputFlags(r) = {}
                    \/ Governing(r).input_guardrails["prompt_injection"].action
                          # "block"
  BY DEF PromptScreened
<1>1. gw[r].ref # 0 /\ Admits(gw[r], Governed(r))
  BY Known DEF Coherent, Screened
<1> QED
  BY <1>1, SameTerms DEF Admits

(***************************************************************************)
(* Whoever has been asked something belongs to a policy that admits the    *)
(* prompt: no provider sees a prompt an enabled guardrail objects to when  *)
(* the policy blocks (gateway.py:93-123).                                  *)
(***************************************************************************)
THEOREM PromptsAreScreened == Spec => []PromptScreened
<1> QED
  BY ScreenedByInv, Invariance, PTL

(***************************************************************************)
(* What a reply tells is what the invariant says of it.                    *)
(***************************************************************************)
LEMMA ReplyTells ==
    ASSUME Inv, NEW r \in Reqs, Replied(r)
    PROVE  /\ gw[r].ref # 0
           /\ gw[r].reply \in ChatResponses
           /\ Tells(gw[r].reply, gw[r], asked[r], answers[r], Governed(r))
<1>1. /\ gw[r].pc = "replied" /\ IsResponse(gw[r].reply)
  BY DEF Replied
<1>2. /\ gw[r].ref # 0
      /\ Tells(gw[r].reply, gw[r], asked[r], answers[r], Governed(r))
  BY <1>1, Known DEF Coherent, Truthful, Blames, Answers
<1>3. gw[r].reply \in {NoReply} \cup ErrorReplies \cup ChatResponses
  BY Known DEF Chats
<1>4. gw[r].reply # NoReply
  BY <1>1 DEF NoReply, IsResponse
<1>5. gw[r].reply \notin ErrorReplies
  BY <1>1 DEF ErrorReplies, ErrorReply, ErrorNames, OrchestratorProofs!Errors,
              IsResponse
<1> QED
  BY <1>2, <1>3, <1>4, <1>5

(***************************************************************************)
(* That a text leaves only with the verdict of its own policy.             *)
(***************************************************************************)
LEMMA CheckedByInv == Inv => OnlyCheckedTextLeaves
<1> SUFFICES ASSUME Inv, NEW r \in Reqs, SentText(r)
             PROVE  LET text == gw[r].reply.response.text
                        n == Len(answers[r])
                    IN  /\ n > 0
                        /\ answers[r][n] = Completion(text)
                        /\ ~Unreadable(r, text)
                        /\ gw[r].reply.output_valid = (TextFlags(r, text) = {})
                        /\ TextFlags(r, text) # {} =>
                              Governing(r).retry.max_attempts = 0
  BY DEF OnlyCheckedTextLeaves
<1>1. Replied(r) /\ gw[r].reply.response.kind = "completion"
  BY DEF SentText
<1>2. /\ gw[r].ref # 0 /\ gw[r].reply \in ChatResponses
      /\ Tells(gw[r].reply, gw[r], asked[r], answers[r], Governed(r))
  BY <1>1, ReplyTells
<1>3. gw[r].reply.output_valid \in BOOLEAN
  BY <1>2 DEF ChatResponses
<1> DEFINE text == gw[r].reply.response.text
           finds == TextFinds(gw[r], Governed(r), text)
<1>4. /\ Len(answers[r]) > 0
      /\ answers[r][Len(answers[r])] = Completion(text)
      /\ ~Unread(Governed(r), text)
      /\ gw[r].reply.output_valid <=> finds = {}
      /\ finds # {} => Governed(r).retry.max_attempts = 0
  BY <1>1, <1>2 DEF Tells
<1>5. TextFlags(r, text) = finds /\ Governing(r) = Governed(r)
  BY <1>2, SameTerms
<1> HIDE DEF text, finds
<1>6. gw[r].reply.output_valid = (TextFlags(r, text) = {})
  BY <1>3, <1>4, <1>5
<1>7. ~Unreadable(r, text)
  BY <1>4, <1>5 DEF Unread, Unreadable
<1> QED
  BY <1>4, <1>5, <1>6, <1>7 DEF text

(***************************************************************************)
(* The text a client gets is the last completion made for its request, and *)
(* output_valid says what the policy it resolved to makes of it; a text    *)
(* that policy rejects goes out only when it allows no retry, and a text   *)
(* its JSON check cannot read never does (gateway.py:155-209, 228-242).    *)
(***************************************************************************)
THEOREM OnlyCheckedTextIsSent == Spec => []OnlyCheckedTextLeaves
<1> QED
  BY CheckedByInv, Invariance, PTL

(***************************************************************************)
(* That a reply describes the text it carries.                             *)
(***************************************************************************)
LEMMA DescribedByInv == Inv => ReplyDescribesText
<1> SUFFICES ASSUME Inv, NEW r \in Reqs, Replied(r)
             PROVE  LET reply == gw[r].reply
                        shown == IF SentText(r)
                                 THEN TextFlags(r, reply.response.text)
                                 ELSE IF asked[r] = <<>> THEN {}
                                 ELSE TextFlags(r,
                                        answers[r][FirstAnswer(r)].content)
                    IN  /\ reply.violations = InputFlags(r) \cup shown
                        /\ \A v \in reply.violations :
                              v.score <= reply.risk_score
                        /\ reply.risk_score = 0
                           \/ \E v \in reply.violations :
                                 v.score = reply.risk_score
  BY DEF ReplyDescribesText
<1> DEFINE reply == gw[r].reply
<1>1. /\ gw[r].ref # 0 /\ reply \in ChatResponses
      /\ Tells(reply, gw[r], asked[r], answers[r], Governed(r))
  BY ReplyTells
<1>2. /\ InputFlags(r) = PromptFinds(gw[r], Governed(r))
      /\ \A content :
            TextFlags(r, content) = TextFinds(gw[r], Governed(r), content)
      /\ FirstAnswer(r) = First(asked[r], answers[r])
  BY <1>1, SameTerms
<1>3. SentText(r) <=> reply.response.kind = "completion"
  BY DEF SentText
<1>4. reply.violations =
        InputFlags(r) \cup
          (IF SentText(r) THEN TextFlags(r, reply.response.text)
           ELSE IF asked[r] = <<>> THEN {}
           ELSE TextFlags(r, answers[r][FirstAnswer(r)].content))
  <2> HIDE DEF reply
  <2> QED
    BY <1>1, <1>2, <1>3 DEF Tells
<1>5. /\ reply.risk_score = RiskScore(reply.violations)
      /\ reply.violations \in SUBSET AllViolations
  BY <1>1 DEF Tells, ChatResponses
<1> HIDE DEF reply
<1>6. /\ \A v \in reply.violations : v.score <= reply.risk_score
      /\ reply.risk_score = 0
         \/ \E v \in reply.violations : v.score = reply.risk_score
  BY <1>5, RiskScoreIsHighest
<1> QED
  BY <1>4, <1>6 DEF reply

(***************************************************************************)
(* The violations and the risk score of a reply belong to the prompt and   *)
(* to the text it carries, in a fallback reply to the first answer         *)
(* (gateway.py:159, 182-184, 197-201, 212-216).                            *)
(***************************************************************************)
THEOREM RepliesDescribeTheirText == Spec => []ReplyDescribesText
<1> QED
  BY DescribedByInv, Invariance, PTL

(***************************************************************************)
(* That the traffic follows the policy.                                    *)
(***************************************************************************)
LEMMA FollowedByInv == Inv => TrafficFollowsPolicy
<1> SUFFICES ASSUME Inv, NEW r \in Reqs, asked[r] # <<>>
             PROVE  LET m == FirstAnswer(r)
                    IN  /\ m <= Len(Governing(r).provider.fallbacks) + 1
                        /\ \A k \in 1 .. Len(asked[r]) :
                              asked[r][k].model =
                                  Route(r, IF k <= m THEN k ELSE 1)
                        /\ Len(asked[r]) - m
                              <= Governing(r).retry.max_attempts
  BY DEF TrafficFollowsPolicy
<1>1. gw[r].ref # 0 /\ Follows(gw[r], asked[r], answers[r], Governed(r))
  BY Known DEF Coherent, Screened
<1>2. /\ Governed(r) = Governing(r)
      /\ FirstAnswer(r) = First(asked[r], answers[r])
      /\ \A k : Route(r, k) = Model(gw[r], Governed(r), k)
  BY <1>1, SameTerms
<1> QED
  BY <1>1, <1>2 DEF Follows

(***************************************************************************)
(* The providers asked are those of the policy the request resolved to,    *)
(* with its override, whatever is reloaded; after the first answer only    *)
(* the primary, at most max_attempts times (gateway.py:131-153, 163-181).  *)
(***************************************************************************)
THEOREM TrafficKeepsToPolicy == Spec => []TrafficFollowsPolicy
<1> QED
  BY FollowedByInv, Invariance, PTL

(***************************************************************************)
(* That the retries a reply reports were made.                             *)
(***************************************************************************)
LEMMA CountedByInv == Inv => RetriesTruthful
<1> SUFFICES ASSUME Inv, NEW r \in Reqs, Replied(r)
             PROVE  gw[r].reply.retries = Len(asked[r]) - FirstAnswer(r)
  BY DEF RetriesTruthful
<1>1. gw[r].ref # 0
      /\ Tells(gw[r].reply, gw[r], asked[r], answers[r], Governed(r))
  BY ReplyTells
<1>2. FirstAnswer(r) = First(asked[r], answers[r])
  BY <1>1, SameTerms
<1> QED
  BY <1>1, <1>2 DEF Tells

(***************************************************************************)
(* retries counts the calls made after the first answer                    *)
(* (gateway.py:180, 202).                                                  *)
(***************************************************************************)
THEOREM RetriesAreTruthful == Spec => []RetriesTruthful
<1> QED
  BY CountedByInv, Invariance, PTL

(***************************************************************************)
(* Every step of the gateway is a step of the registry or leaves it alone. *)
(***************************************************************************)
LEMMA RegistryStep == Inv /\ [Next]_vars => [Registry!Next]_registry
<1> SUFFICES ASSUME Inv, [Next]_vars PROVE [Registry!Next]_registry
  OBVIOUS
<1>1. ASSUME NEW r \in Reqs, NEW body \in ChatRequests, Receive(r, body)
      PROVE  UNCHANGED registry
  BY <1>1 DEF Receive
<1>2. ASSUME NEW r \in Reqs, Chat(r) PROVE UNCHANGED registry
  BY <1>2
  DEF Chat, Resolve, Hold, PolicyNotFound, Block, AdmitInput, CallProviders,
      ProvidersRaised, CheckOutput, OutputRaised, EnterRetry,
      RetrySucceeded, RetryExhausted,
      RetryRaised, Finish
<1>3. ASSUME NEW r \in Reqs, Await(r) PROVE UNCHANGED registry
  BY <1>3 DEF Await
<1>4. CASE Reload
  BY <1>4, ReloadIsRegistryStep
<1>5. CASE UNCHANGED vars
  BY <1>5 DEF vars, registry
<1> QED
  BY <1>1, <1>2, <1>3, <1>4, <1>5 DEF Next

(***************************************************************************)
(* No request changes the registry or a published policy: whatever happens *)
(* to them is a put or a replacement of the registry (gateway.py:86-90).   *)
(***************************************************************************)
THEOREM RequestsLeaveThePoliciesAlone == Spec => RequestsLeavePoliciesAlone
<1> QED
  BY RegistryStep, Invariance, PTL DEF Spec, RequestsLeavePoliciesAlone

-----------------------------------------------------------------------------
(***************************************************************************)
(* The contract of POST /chat                                              *)
(***************************************************************************)
\* While chat works on a request, its client waits.
Working(g) == g.pc \notin {"idle", "replied"}

(***************************************************************************)
(* The answer a client sees, read from the reply.                          *)
(***************************************************************************)
LEMMA Kinds ==
    \A r \in Reqs : Inv =>
        /\ gw[r].pc = "idle" => KindOf(r) = "new"
        /\ Working(gw[r]) => KindOf(r) = "pending"
        /\ gw[r].pc = "replied" =>
              \/ KindOf(r) = "error"
              \/ KindOf(r) \in {"checked", "unchecked"} /\ Len(asked[r]) > 0
              \/ KindOf(r) = "refused" /\ Len(asked[r]) = 0
              \/ KindOf(r) = "fallback" /\ Len(asked[r]) > 1
<1> SUFFICES ASSUME NEW r \in Reqs, Inv
             PROVE  /\ gw[r].pc = "idle" => KindOf(r) = "new"
                    /\ Working(gw[r]) => KindOf(r) = "pending"
                    /\ gw[r].pc = "replied" =>
                          \/ KindOf(r) = "error"
                          \/ /\ KindOf(r) \in {"checked", "unchecked"}
                             /\ Len(asked[r]) > 0
                          \/ KindOf(r) = "refused" /\ Len(asked[r]) = 0
                          \/ KindOf(r) = "fallback" /\ Len(asked[r]) > 1
  OBVIOUS
<1>1. asked[r] \in Seq(Sendable) /\ Len(asked[r]) \in Nat
  BY Known
<1>2. CASE gw[r].pc = "idle"
  BY <1>2 DEF KindOf, Working, SentText, Replied
<1>3. CASE Working(gw[r])
  BY <1>3 DEF KindOf, Working, SentText, Replied
<1>4. CASE gw[r].pc = "replied" /\ ~IsResponse(gw[r].reply)
  BY <1>4 DEF KindOf, Working, SentText, Replied
<1>5. CASE gw[r].pc = "replied" /\ IsResponse(gw[r].reply)
  <2>1. Replied(r)
    BY <1>5 DEF Replied
  <2>2. Tells(gw[r].reply, gw[r], asked[r], answers[r], Governed(r))
        /\ gw[r].reply \in ChatResponses
    BY <2>1, ReplyTells
  <2>3. CASE SentText(r)
    <3>1. asked[r] # <<>>
      BY <2>2, <2>3 DEF Tells, SentText
    <3>2. Len(asked[r]) > 0
      BY <1>1, <3>1, EmptySeq
    <3>3. gw[r].reply.output_valid \in BOOLEAN
      BY <2>2 DEF ChatResponses
    <3>4. KindOf(r) \in {"checked", "unchecked"}
      BY <1>5, <2>1, <2>3, <3>3 DEF KindOf
    <3> QED
      BY <1>5, <3>2, <3>4 DEF Working
  <2>4. CASE ~SentText(r)
    <3>1. asked[r] = <<>> \/ Len(asked[r]) > 1
      BY <2>1, <2>2, <2>4 DEF Tells, SentText
    <3>2. CASE asked[r] = <<>>
      <4>1. KindOf(r) = "refused"
        BY <1>5, <2>1, <2>4, <3>2 DEF KindOf
      <4> QED
        BY <1>5, <3>2, <4>1 DEF Working
    <3>3. CASE asked[r] # <<>>
      <4>1. KindOf(r) = "fallback"
        BY <1>5, <2>1, <2>4, <3>3 DEF KindOf
      <4> QED
        BY <1>5, <3>1, <3>3, <4>1 DEF Working
    <3> QED
      BY <3>2, <3>3
  <2> QED
    BY <2>3, <2>4
<1> QED
  BY <1>2, <1>3, <1>4, <1>5 DEF Working

\* The same of the state after a step.
LEMMA KindsNext ==
    (\A r \in Reqs : Inv =>
        /\ gw[r].pc = "idle" => KindOf(r) = "new"
        /\ Working(gw[r]) => KindOf(r) = "pending"
        /\ gw[r].pc = "replied" =>
              \/ KindOf(r) = "error"
              \/ KindOf(r) \in {"checked", "unchecked"} /\ Len(asked[r]) > 0
              \/ KindOf(r) = "refused" /\ Len(asked[r]) = 0
              \/ KindOf(r) = "fallback" /\ Len(asked[r]) > 1)'
BY Kinds, PTL

(***************************************************************************)
(* What the steps of a request look like from outside: it is accepted, it  *)
(* is answered, a provider is asked, or nothing can be seen.               *)
(***************************************************************************)
Elsewhere(r) ==
    \A d \in Reqs : d # r => gw'[d] = gw[d] /\ asked'[d] = asked[d]

Seen(r) ==
    \/ gw[r].pc = "idle" /\ Working(gw'[r]) /\ asked' = asked
    \/ Working(gw[r]) /\ gw'[r].pc = "replied" /\ asked' = asked
    \/ Working(gw[r]) /\ Working(gw'[r])
       /\ asked' \in [Reqs -> Seq(Sendable)]
       /\ Len(asked'[r]) \in {Len(asked[r]), Len(asked[r]) + 1}

(***************************************************************************)
(* What a client sees of a step of chat, and that it is of one request.    *)
(***************************************************************************)
LEMMA ChatSeen ==
    ASSUME Inv, NEW r \in Reqs, Chat(r)
    PROVE  Seen(r) /\ Elsewhere(r)
<1>1. gw \in [Reqs -> Chats] /\ gw[r] \in Chats
      /\ asked \in [Reqs -> Seq(Sendable)] /\ Len(asked[r]) \in Nat
  BY Known
<1>2. asked' = asked
  BY DEF Chat, Resolve, Hold, PolicyNotFound, Block, AdmitInput, CallProviders,
         ProvidersRaised, CheckOutput, OutputRaised, EnterRetry,
         RetrySucceeded, RetryExhausted,
         RetryRaised, Finish, providers, Orchestrator!Execute, Engine!Run
<1>3. Working(gw[r])
  BY DEF Chat, Resolve, PolicyNotFound, Block, AdmitInput, CallProviders,
         ProvidersRaised, CheckOutput, OutputRaised, EnterRetry,
         RetrySucceeded, RetryExhausted,
         RetryRaised, Finish, Working
<1>4. \A d \in Reqs : d # r => gw'[d] = gw[d]
  BY <1>1
  DEF Chat, Resolve, Hold, PolicyNotFound, Block, AdmitInput, CallProviders,
      ProvidersRaised, CheckOutput, OutputRaised, EnterRetry,
      RetrySucceeded, RetryExhausted,
      RetryRaised, Finish, Reply
<1>5. CASE \/ PolicyNotFound(r) \/ Block(r) \/ ProvidersRaised(r)
           \/ OutputRaised(r) \/ RetryExhausted(r) \/ RetryRaised(r) \/ Finish(r)
  <2>1. \E reply : Reply(r, reply)
    BY <1>5 DEF PolicyNotFound, Block, ProvidersRaised, OutputRaised,
                RetryExhausted, RetryRaised, Finish
  <2>2. gw'[r].pc = "replied"
    BY <1>1, <2>1 DEF Reply, Chats
  <2> QED
    BY <1>2, <1>3, <1>4, <2>2 DEF Seen, Elsewhere
<1>6. CASE \/ Resolve(r) \/ AdmitInput(r) \/ CallProviders(r)
           \/ CheckOutput(r) \/ EnterRetry(r) \/ RetrySucceeded(r)
  <2>1. gw'[r].pc \in {"input", "call", "providers", "retry", "retrying",
                       "finish"}
    BY <1>1, <1>6
    DEF Resolve, Hold, AdmitInput, CallProviders, CheckOutput, EnterRetry,
        RetrySucceeded, Chats
  <2>2. Working(gw'[r])
    BY <2>1 DEF Working
  <2> QED
    BY <1>1, <1>2, <1>3, <1>4, <2>2 DEF Seen, Elsewhere
<1> QED
  BY <1>5, <1>6 DEF Chat

(***************************************************************************)
(* What a client sees of a step of what a request awaits.                  *)
(***************************************************************************)
LEMMA AwaitSeen ==
    ASSUME Inv, Inv', NEW r \in Reqs, Await(r)
    PROVE  Seen(r) /\ Elsewhere(r)
<1>1. /\ gw \in [Reqs -> Chats] /\ asked \in [Reqs -> Seq(Sendable)]
      /\ Coherent(gw[r], exec[r], retry[r], asked[r], answers[r], Governed(r))
  BY Known
<1>2. gw' = gw
  BY DEF Await
<1>3. exec[r].pc \in {"loop", "awaiting"} \/ retry[r].pc \in {"loop", "awaiting"}
  BY DEF Await, Orchestrator!Progress, Orchestrator!RejectConfig,
         Orchestrator!RejectVendor, Orchestrator!Ask, Orchestrator!Succeed,
         Orchestrator!FailOver, Orchestrator!Abort, Orchestrator!Crash,
         Orchestrator!Exhaust, Orchestrator!HasNext, Orchestrator!Answer,
         Engine!Progress, Engine!Send, Engine!Accept, Engine!Reject, Engine!Fail,
         Engine!Exhaust, Engine!Answer
<1>4. gw[r].pc \in {"providers", "retrying"}
  BY <1>1, <1>3 DEF Coherent, Quiet
<1>5. Working(gw[r]) /\ Working(gw'[r])
  BY <1>2, <1>4 DEF Working
<1>6. \/ asked' = asked
      \/ \E request : asked' = [asked EXCEPT ![r] = Append(@, request)]
  BY DEF Await, Orchestrator!Progress, Orchestrator!RejectConfig,
         Orchestrator!RejectVendor, Orchestrator!Ask, Orchestrator!Succeed,
         Orchestrator!FailOver, Orchestrator!Abort, Orchestrator!Crash,
         Orchestrator!Exhaust, Orchestrator!Answer,
         Engine!Progress, Engine!Send, Engine!Accept, Engine!Reject, Engine!Fail,
         Engine!Exhaust, Engine!Answer
<1>7. asked' \in [Reqs -> Seq(Sendable)]
  BY SameModels DEF Inv, Types, OrchestratorProofs!TypeOK
<1>8. CASE asked' = asked
  BY <1>2, <1>5, <1>7, <1>8 DEF Seen, Elsewhere
<1>9. CASE \E request : asked' = [asked EXCEPT ![r] = Append(@, request)]
  <2>1. PICK request : asked' = [asked EXCEPT ![r] = Append(asked[r], request)]
    BY <1>1, <1>9
  <2>2. /\ asked'[r] = Append(asked[r], request)
        /\ \A d \in Reqs : d # r => asked'[d] = asked[d]
    BY <1>1, <2>1
  <2>3. Len(asked'[r]) = Len(asked[r]) + 1
    BY <1>1, <2>2
  <2> QED
    BY <1>2, <1>5, <1>7, <2>2, <2>3 DEF Seen, Elsewhere
<1> QED
  BY <1>6, <1>8, <1>9

(***************************************************************************)
(* Whatever can be seen is a step of the contract.                         *)
(***************************************************************************)
LEMMA SeenIsContract ==
    ASSUME Inv, Inv', NEW r \in Reqs, Seen(r), Elsewhere(r)
    PROVE  [Contract!Next]_Contract!contractvars
<1> DEFINE state == [d \in Reqs |-> KindOf(d)]
           calls == [d \in Reqs |-> Len(asked[d])]
<1>1. ASSUME NEW d \in Reqs, d # r
      PROVE  KindOf(d)' = KindOf(d) /\ Len(asked'[d]) = Len(asked[d])
  BY <1>1 DEF Elsewhere, KindOf, SentText, Replied
<1>2. asked \in [Reqs -> Seq(Sendable)] /\ Len(asked[r]) \in Nat
  BY Known
<1>3. /\ gw[r].pc = "idle" => KindOf(r) = "new"
      /\ Working(gw[r]) => KindOf(r) = "pending"
  BY Kinds
<1>4. /\ Working(gw[r])' => KindOf(r)' = "pending"
      /\ gw'[r].pc = "replied" =>
            \/ KindOf(r)' = "error"
            \/ KindOf(r)' \in {"checked", "unchecked"} /\ Len(asked'[r]) > 0
            \/ KindOf(r)' = "refused" /\ Len(asked'[r]) = 0
            \/ KindOf(r)' = "fallback" /\ Len(asked'[r]) > 1
  BY KindsNext
<1>5. state' = [state EXCEPT ![r] = KindOf(r)']
  BY <1>1
<1>6. calls' = [calls EXCEPT ![r] = Len(asked'[r])]
  BY <1>1
<1>7. state[r] = KindOf(r) /\ calls[r] = Len(asked[r])
  OBVIOUS
<1>8. state = [state EXCEPT ![r] = KindOf(r)] /\ calls = [calls EXCEPT ![r] = Len(asked[r])]
  OBVIOUS
<1> HIDE DEF state, calls
<1>9. CASE gw[r].pc = "idle" /\ Working(gw'[r]) /\ asked' = asked
  <2>1. KindOf(r) = "new" /\ KindOf(r)' = "pending"
    BY <1>3, <1>4, <1>9 DEF Working
  <2>2. state[r] = "new" /\ state' = [state EXCEPT ![r] = "pending"]
        /\ calls' = calls
    BY <1>5, <1>6, <1>7, <1>8, <1>9, <2>1
  <2>3. Contract!Accept(r)
    BY <2>2 DEF Contract!Accept, state, calls
  <2> QED
    BY <2>3 DEF Contract!Next
<1>10. CASE Working(gw[r]) /\ gw'[r].pc = "replied" /\ asked' = asked
  <2> DEFINE kind == KindOf(r)'
  <2>1. KindOf(r) = "pending"
    BY <1>3, <1>10
  <2>2. \/ kind = "error"
        \/ kind \in {"checked", "unchecked"} /\ Len(asked[r]) > 0
        \/ kind = "refused" /\ Len(asked[r]) = 0
        \/ kind = "fallback" /\ Len(asked[r]) > 1
    BY <1>4, <1>10
  <2>3. state[r] = "pending" /\ state' = [state EXCEPT ![r] = kind]
        /\ calls' = calls /\ calls[r] = Len(asked[r])
    BY <1>5, <1>6, <1>7, <1>8, <1>10, <2>1
  <2> HIDE DEF kind
  <2>4. /\ kind \in Contract!Answers
        /\ kind = "refused" => calls[r] = 0
        /\ kind \in {"checked", "unchecked", "fallback"} => calls[r] > 0
        /\ kind = "fallback" => calls[r] > 1
    BY <1>2, <2>2, <2>3 DEF Contract!Answers
  <2>5. Contract!Answer(r, kind)
    BY <2>3, <2>4 DEF Contract!Answer, state, calls
  <2> QED
    BY <2>4, <2>5 DEF Contract!Next
<1>11. CASE Working(gw[r]) /\ Working(gw'[r])
            /\ Len(asked'[r]) \in {Len(asked[r]), Len(asked[r]) + 1}
  <2>1. KindOf(r) = "pending" /\ KindOf(r)' = "pending"
    BY <1>3, <1>4, <1>11 DEF Working
  <2>2. state[r] = "pending" /\ state' = state
    BY <1>5, <1>7, <1>8, <2>1
  <2>3. CASE Len(asked'[r]) = Len(asked[r])
    <3>1. calls' = calls
      BY <1>6, <1>8, <2>3
    <3> QED
      BY <2>2, <3>1 DEF Contract!contractvars, state, calls
  <2>4. CASE Len(asked'[r]) = Len(asked[r]) + 1
    <3>1. calls' = [calls EXCEPT ![r] = calls[r] + 1]
      BY <1>6, <1>7, <2>4
    <3>2. Contract!Call(r)
      BY <2>2, <3>1 DEF Contract!Call, state, calls
    <3> QED
      BY <3>2 DEF Contract!Next
  <2> QED
    BY <1>11, <2>3, <2>4
<1> QED
  BY <1>9, <1>10, <1>11 DEF Seen

(***************************************************************************)
(* Every step of the gateway is a step of the contract or a stutter.       *)
(***************************************************************************)
LEMMA ContractStep ==
    Inv /\ Inv' /\ [Next]_vars => [Contract!Next]_Contract!contractvars
<1> SUFFICES ASSUME Inv, Inv', [Next]_vars
             PROVE  [Contract!Next]_Contract!contractvars
  OBVIOUS
<1>1. ASSUME gw' = gw, asked' = asked
      PROVE  UNCHANGED Contract!contractvars
  BY <1>1 DEF Contract!contractvars, KindOf, SentText, Replied
<1>2. ASSUME NEW r \in Reqs, NEW body \in ChatRequests, Receive(r, body)
      PROVE  Seen(r) /\ Elsewhere(r)
  <2>1. gw \in [Reqs -> Chats] /\ gw[r] \in Chats
    BY Known
  <2>2. /\ gw[r].pc = "idle" /\ asked' = asked
        /\ gw' = [gw EXCEPT ![r].pc = "resolve", ![r].body = body]
    BY <1>2 DEF Receive, providers
  <2>3. gw'[r].pc = "resolve" /\ \A d \in Reqs : d # r => gw'[d] = gw[d]
    BY <2>1, <2>2 DEF Chats
  <2> QED
    BY <2>2, <2>3 DEF Seen, Elsewhere, Working
<1>3. CASE Reload
  BY <1>1, <1>3 DEF Reload, providers
<1>4. CASE UNCHANGED vars
  BY <1>1, <1>4 DEF vars
<1> QED
  BY <1>2, <1>3, <1>4, ChatSeen, AwaitSeen, SeenIsContract DEF Next

(***************************************************************************)
(* The initial states map to initial states of the contract.               *)
(***************************************************************************)
LEMMA ContractInit == Init => Contract!Init
<1> SUFFICES ASSUME Init PROVE Contract!Init
  OBVIOUS
<1>1. ASSUME NEW r \in Reqs PROVE KindOf(r) = "new" /\ Len(asked[r]) = 0
  <2>1. gw[r].pc = "idle" /\ asked[r] = <<>>
    BY DEF Init, NotReceived, Orchestrator!Init
  <2>2. KindOf(r) = "new"
    BY <2>1, InvInit, Kinds
  <2> QED
    BY <2>1, <2>2
<1> QED
  BY <1>1 DEF Contract!Init

(***************************************************************************)
(* The gateway implements the contract of POST /chat, for any number of    *)
(* requests and whatever is reloaded between their steps: one final answer *)
(* per request, no call for a refused prompt, none after the answer, a     *)
(* fallback message only after the first answer and a retry                *)
(* (gateway.py:66-242).                                                    *)
(***************************************************************************)
THEOREM GatewayImplementsContract == Spec => ImplementsContract
<1> QED
  BY ContractInit, ContractStep, Invariance, PTL
  DEF Spec, ImplementsContract, Contract!Spec
=============================================================================
