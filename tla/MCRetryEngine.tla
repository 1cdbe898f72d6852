---------------------------- MODULE MCRetryEngine -----------------------------
(* An instance of RetryEngine: a policy with toxicity and secret-leakage     *)
(* checks on, in four sizes of retry budget, with and without a JSON check.  *)
EXTENDS RetryEngine

MCVendors == {"openai"}
MCExcTexts == {{}, {"timed out"}}
MCOutcomes == AllOutcomes

Flag(g, code, score) == [guardrail |-> g, code |-> code, score |-> score]

Toxic == Flag("toxicity", "toxic_output_detected", 85)
Leak == Flag("secret_leakage", "secret_leakage_detected", 95)
OffTopic == Flag("off_topic", "off_topic_response", 60)

MCCodes == {"toxic_output_detected", "secret_leakage_detected",
            "off_topic_response"}

MCPromptFlags == [p \in Prompts |-> {}]

\* off_topic is a disabled guardrail, so "stray" is acceptable.
MCOutputFlags ==
    [pc \in Prompts \X Contents |->
        CASE pc[2] \in {"good", "deep"} -> {}
          [] pc[2] = "stray" -> {OffTopic}
          [] pc[2] = "toxic" -> {Toxic}
          [] pc[2] = "leaky" -> {Toxic, Leak}]

On == [enabled |-> TRUE, action |-> "block"]
Warn == [enabled |-> TRUE, action |-> "warn"]
Off == [enabled |-> FALSE, action |-> "warn"]

Budget(n, json) ==
    [id |-> "default",
     provider |-> [primary |-> [name |-> "openai",
                                model |-> [vendor |-> None, base |-> "m"],
                                timeout_seconds |-> 50],
                   fallbacks |-> <<>>, strategy |-> "sequential"],
     input_guardrails |-> [g \in InputGuardrails |-> On],
     output_guardrails |->
        [g \in OutputGuardrails |->
            CASE g = "secret_leakage" -> On [] g = "toxicity" -> Warn
              [] g = "json_schema" -> json
              [] OTHER -> Off],
     retry |-> [max_attempts |-> n, fallback_message |-> "sorry"]]

MCContexts ==
    {[prompt |-> "p", policy |-> Budget(n, json), conversation_history |-> "h"] :
        n \in 0 .. 3, json \in {On, Off}}

MCMessageLists == [history : {"h"}, prompt : UserMessages]
=============================================================================
