------------------------------ MODULE MCGateway -------------------------------
(* Instances of Gateway for model checking. *)
EXTENDS GatewayProperties, TLC

CONSTANTS r1, r2

Symmetry == Permutations({r1, r2})

MCVendors == {"openai", "gemini", "ollama", "anthropic"}
MCPrefixes == {"openai", "gemini", "ollama"}

Flag(g, code, score) == [guardrail |-> g, code |-> code, score |-> score]

Pii == Flag("pii", "pii_detected", 90)
Toxic == Flag("toxicity", "toxic_output_detected", 85)
Leak == Flag("secret_leakage", "secret_leakage_detected", 95)

MCCodes == {"pii_detected", "toxic_output_detected", "secret_leakage_detected"}

\* Two prompts, one with personal data; completions that are fine, toxic,
\* or leak a secret.
MCPromptFlags == [fine |-> {}, private |-> {Pii}]
MCOutputFlags ==
    [pc \in Prompts \X Contents |->
        CASE pc[2] = "good" -> {} [] pc[2] = "toxic" -> {Toxic}
          [] pc[2] = "leaky" -> {Leak}]

\* A conversation and a user message of the retry engine.
MCMessageLists ==
    [history : Histories,
     prompt : [text : Prompts, hints : SUBSET Codes, attempt : Nat]]

Point(name, vendor) ==
    [name |-> name, model |-> [vendor |-> vendor, base |-> "m"],
     timeout_seconds |-> 50]

Checks(all, on, action) ==
    [g \in all |-> [enabled |-> g \in on, action |-> action]]

Policy(id, provider, injection, on, attempts, message) ==
    [id |-> id, provider |-> provider,
     input_guardrails |->
        [Checks(InputGuardrails, {"prompt_injection", "pii"}, "block")
            EXCEPT !["prompt_injection"].action = injection],
     output_guardrails |-> Checks(OutputGuardrails, on, "block"),
     retry |-> [max_attempts |-> attempts, fallback_message |-> message]]

Sequential(primary, fallbacks) ==
    [primary |-> primary, fallbacks |-> fallbacks, strategy |-> "sequential"]

\* The default policy: failover to a second provider, one retry, answers
\* have to be JSON.
Default1 == Policy("default",
    Sequential(Point("openai", None), <<Point("gemini", None)>>),
    "block", {"toxicity", "json_schema"}, 1, "sorry")

\* Its next version: no failover, a model with a prefix of its own, other
\* checks, prompts only warned about, two retries.
Default2 == Policy("default", Sequential(Point("openai", "ollama"), <<>>),
    "warn", {"secret_leakage"}, 2, "sorry2")

\* A policy without retries.
NoRetry == Policy("other", Sequential(Point("ollama", None), <<>>),
    "block", {"toxicity"}, 0, "no")

\* A policy whose fallback has no provider, and one with another strategy.
BadFallback == Policy("other",
    Sequential(Point("openai", None), <<Point("anthropic", None)>>),
    "block", {"toxicity"}, 1, "no")
OtherStrategy == Policy("other",
    [Sequential(Point("openai", None), <<>>) EXCEPT !.strategy = "random"],
    "block", {"toxicity"}, 1, "no")

Body(prompt, id, model, provider) ==
    [prompt |-> prompt, policy_id |-> id, model |-> model,
     provider |-> provider, context |-> "h"]

BareModel == [vendor |-> None, base |-> "m"]
GeminiModel == [vendor |-> "gemini", base |-> "m"]

PlainBody == Body("fine", None, None, None)
PrivateBody == Body("private", None, None, None)
OtherBody == Body("fine", "other", None, None)
UnknownBody == Body("fine", "unknown", None, None)
OverrideBody == Body("fine", None, BareModel, "gemini")
PrefixBody == Body("private", "other", GeminiModel, None)

\* One request at a time, every kind of body, policy and outcome.
AllPolicies == {Default1, Default2, NoRetry, BadFallback, OtherStrategy}
AllBodies == {PlainBody, PrivateBody, OtherBody, UnknownBody, OverrideBody,
              PrefixBody}
AllDirectories == {<<Default1, NoRetry>>, <<Default2, BadFallback>>,
                   <<Default2, OtherStrategy>>, <<NoRetry>>}
AllExcTexts == {{}, {"timed out"}}
AllOutcomeSet ==
    {Completion(c) : c \in Contents} \cup
    {EmptyAnswer, Raised("RateLimitError", {}), Raised("Exception", {"timed out"}),
     Raised("AuthenticationError", {})}

\* Single policies and requests for the questions about the documentation.
Only(p) == {<<p>>}
DirDefault2 == Only(Default2)
DefaultNoRetry == [NoRetry EXCEPT !.id = "default"]
DirNoRetry == Only(DefaultNoRetry)
NoRetryPolicies == {DefaultNoRetry}
DefaultPolicies == {Default1, Default2}
PlainBodies == {PlainBody}
PrivateBodies == {PrivateBody}
=============================================================================
