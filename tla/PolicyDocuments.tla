--------------------------- MODULE PolicyDocuments ----------------------------
(***************************************************************************)
(* What the models of app/policies/models.py make of a policy document:    *)
(* defaults, bounds, and the forms a provider block may take.  A mapping   *)
(* of YAML is a function on the keys that are written; whatever stands     *)
(* where a mapping is expected and is none (null, a text, a list) is None. *)
(* Thresholds are percentages.  Versions, descriptions, schema_ref and the *)
(* compliance block, which no service reads, are left out.                 *)
(***************************************************************************)
EXTENDS Integers, Sequences

CONSTANT None

Has(mapping, key) == key \in DOMAIN mapping

\* mapping.get(key)
Get(mapping, key) == IF Has(mapping, key) THEN mapping[key] ELSE None

Only(mapping, keys) == [k \in DOMAIN mapping \cap keys |-> mapping[k]]

Empty == [k \in {} |-> None]

\* A mapping, completed by what is not written in it.
Filled(mapping, others) ==
    [k \in DOMAIN mapping \cup DOMAIN others |->
        IF Has(mapping, k) THEN mapping[k] ELSE others[k]]

-----------------------------------------------------------------------------
(***************************************************************************)
(* The provider block                                                      *)
(***************************************************************************)
EndpointKeys == {"name", "model", "timeout_seconds"}

\* ProviderEndpointConfig
EndpointDefaults ==
    [name |-> "openai", model |-> [vendor |-> None, base |-> "gpt-4o"],
     timeout_seconds |-> 30]

Endpoint(written) == Filled(Only(written, EndpointKeys), EndpointDefaults)

ValidEndpoint(written) == written # None /\ Endpoint(written).timeout_seconds > 0

Strategies == {"sequential", "random", "lowest_latency", "cheapest"}

\* Slip: a key of the block itself wins over that of its primary entry.
NormalizeProviderShape_FlatWins(block) ==
    LET flat == Only(block, EndpointKeys)
        primary == IF Get(block, "primary") = None THEN Empty ELSE block.primary
    IN  IF Has(block, "primary") \/ Has(block, "fallbacks")
        THEN [primary |-> Filled(flat, primary),
              fallbacks |-> IF Get(block, "fallbacks") = None THEN <<>>
                            ELSE block.fallbacks]
        ELSE IF flat # Empty THEN [primary |-> flat] ELSE block

(***************************************************************************)
(* ProviderConfig._normalize_provider_shape: a nested block keeps its      *)
(* primary entry, completed by keys of the block itself, and its fallbacks *)
(* (null counts as none); a flat one becomes the primary entry.  Of either *)
(* nothing else is kept, its strategy neither.                             *)
(***************************************************************************)
NormalizeProviderShape(block) ==
    LET flat == Only(block, EndpointKeys)
        primary == IF Get(block, "primary") = None THEN Empty ELSE block.primary
    IN  IF Has(block, "primary") \/ Has(block, "fallbacks")
        THEN [primary |-> Filled(primary, flat),
              fallbacks |-> IF Get(block, "fallbacks") = None THEN <<>>
                            ELSE block.fallbacks]
        ELSE IF flat # Empty THEN [primary |-> flat] ELSE block

ProviderDefaults ==
    [primary |-> Empty, fallbacks |-> <<>>, strategy |-> "sequential"]

Shape(block) == Filled(NormalizeProviderShape(block), ProviderDefaults)

ValidProvider(block) ==
    /\ block # None
    /\ ValidEndpoint(Shape(block).primary)
    /\ \A k \in DOMAIN Shape(block).fallbacks : ValidEndpoint(Shape(block).fallbacks[k])
    /\ Shape(block).strategy \in Strategies

ProviderConfig(block) ==
    LET shape == Shape(block)
    IN  [primary |-> Endpoint(shape.primary),
         fallbacks |-> [k \in DOMAIN shape.fallbacks |-> Endpoint(shape.fallbacks[k])],
         strategy |-> shape.strategy]

\* Policy.litellm_model, for GET /policies
RoutedModel(provider) ==
    [vendor |-> IF provider.primary.model.vendor # None
                THEN provider.primary.model.vendor ELSE provider.primary.name,
     base |-> provider.primary.model.base]

-----------------------------------------------------------------------------
(***************************************************************************)
(* The guardrail blocks                                                    *)
(***************************************************************************)
Actions == {"block", "warn", "log"}

Guardrail(enabled, action) == [enabled |-> enabled, action |-> action]

InputGuardrailsConfig ==
    LET on == Guardrail(TRUE, "block")
    IN  [prompt_injection |-> Filled(on, [threshold |-> 75]),
         jailbreak |-> Filled(on, [threshold |-> 75]),
         pii |-> Filled(on, [entities |-> {"EMAIL", "PHONE", "SSN", "CREDIT_CARD"}]),
         secrets |-> on,
         token_length |-> Filled(on, [max_tokens |-> 4096]),
         language |-> Filled(Guardrail(FALSE, "block"), [allowed |-> {"en"}]),
         toxicity |-> Filled(on, [threshold |-> 85])]

OutputGuardrailsConfig ==
    LET on == Guardrail(TRUE, "block")
    IN  [json_schema |-> Filled(Guardrail(FALSE, "block"), [enforce_json |-> FALSE]),
         toxicity |-> Filled(on, [threshold |-> 85]),
         prompt_leakage |-> on,
         secret_leakage |-> on,
         off_topic |-> Guardrail(FALSE, "warn"),
         hallucination |-> Guardrail(FALSE, "warn")]

Completed(defaults, written) ==
    [g \in DOMAIN defaults |->
        IF Has(written, g) THEN Filled(written[g], defaults[g]) ELSE defaults[g]]

ValidGuardrails(defaults, written) ==
    /\ written # None
    /\ \A g \in DOMAIN defaults \cap DOMAIN written : written[g] # None
    /\ \A g \in DOMAIN defaults :
          LET config == Completed(defaults, written)[g]
          IN  /\ config.action \in Actions
              /\ Has(config, "threshold") => config.threshold \in 0 .. 100
              /\ Has(config, "max_tokens") => config.max_tokens \in Nat \ {0}

-----------------------------------------------------------------------------
(***************************************************************************)
(* The document                                                            *)
(***************************************************************************)
RetryConfig == [max_attempts |-> 3, strategy |-> "correct_and_retry"]

\* A key that is not written takes the default of its whole block.
Block(doc, key) == IF Has(doc, key) THEN doc[key] ELSE Empty

\* Policy(**raw) does not raise.
Validates(doc) ==
    /\ ValidProvider(Block(doc, "provider"))
    /\ ValidGuardrails(InputGuardrailsConfig, Block(doc, "input_guardrails"))
    /\ ValidGuardrails(OutputGuardrailsConfig, Block(doc, "output_guardrails"))
    /\ Block(doc, "retry") # None
    /\ Filled(Block(doc, "retry"), RetryConfig).max_attempts >= 0
    /\ Filled(Block(doc, "retry"), RetryConfig).strategy
          \in {"correct_and_retry", "static_fallback"}

PolicyOf(doc) ==
    [id |-> doc.id,
     provider |-> ProviderConfig(Block(doc, "provider")),
     input_guardrails |->
        Completed(InputGuardrailsConfig, Block(doc, "input_guardrails")),
     output_guardrails |->
        Completed(OutputGuardrailsConfig, Block(doc, "output_guardrails")),
     retry |-> Filled(Block(doc, "retry"), RetryConfig)]
=============================================================================
