------------------------------- MODULE Policies -------------------------------
(***************************************************************************)
(* A validated Policy as the services read it (app/policies/models.py):    *)
(* its provider block after _normalize_provider_shape, the enabled flag    *)
(* and the action of each guardrail, and the retry block.  Descriptions,   *)
(* versions, the compliance block (read by nobody) and the thresholds of   *)
(* single guardrails are left out; the output guardrail json_schema, which *)
(* does nothing without enforce_json, counts as enabled when both are set. *)
(***************************************************************************)
EXTENDS LLMProviders

CONSTANTS
    PolicyIds,
    Fallbacks       \* values of retry.fallback_message

InputGuardrails ==
    {"prompt_injection", "jailbreak", "pii", "secrets", "token_length",
     "language", "toxicity"}

OutputGuardrails ==
    {"json_schema", "toxicity", "prompt_leakage", "secret_leakage",
     "off_topic", "hallucination"}

GuardrailConfig == [enabled : BOOLEAN, action : {"block", "warn", "log"}]

\* A model in a policy or a request may or may not carry its own prefix.
ModelNames == [vendor : Vendors \cup {None}, base : Bases]

Endpoints == [name : Vendors, model : ModelNames, timeout_seconds : Timeouts]

ProviderConfigs ==
    [primary : Endpoints, fallbacks : Seq(Endpoints),
     strategy : {"sequential", "random", "lowest_latency", "cheapest"}]

PolicyRecords ==
    [id : PolicyIds,
     provider : ProviderConfigs,
     input_guardrails : [InputGuardrails -> GuardrailConfig],
     output_guardrails : [OutputGuardrails -> GuardrailConfig],
     retry : [max_attempts : Nat, fallback_message : Fallbacks]]

-----------------------------------------------------------------------------
\* A slash in the model wins over the endpoint's name.
\* Slip: the name is prefixed unconditionally.
Routed_AlwaysPrefixed(endpoint) ==
    [vendor |-> endpoint.name, base |-> endpoint.model.base]
Routed(endpoint) ==
    IF endpoint.model.vendor # None
    THEN [vendor |-> endpoint.model.vendor, base |-> endpoint.model.base]
    ELSE [vendor |-> endpoint.name, base |-> endpoint.model.base]

\* Policy.litellm_model
LitellmModel(policy) == Routed(policy.provider.primary)

EnabledInput(policy) ==
    {g \in InputGuardrails : policy.input_guardrails[g].enabled}

EnabledOutput(policy) ==
    {g \in OutputGuardrails : policy.output_guardrails[g].enabled}
=============================================================================
