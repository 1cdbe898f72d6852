--------------------------- MODULE GuardrailChecks ----------------------------
(***************************************************************************)
(* What each guardrail finds in a text (app/guardrails), and the two       *)
(* chains that run them (ValidationService and OutputValidationService).   *)
(*                                                                         *)
(* A text is the record of what the checks measure in it: how many         *)
(* patterns of a registry match, which entities and secrets occur, lengths *)
(* and word counts.  Scores are percentages: 0.85 is 85.  A finding is a   *)
(* Violation without its message and severity; `detail' is the entity or   *)
(* secret type that the message names; no two findings of a text are the   *)
(* same, and their order, which decides nothing, is left out.  A score     *)
(* outside 0..100 makes the constructor of Violation raise.                *)
(***************************************************************************)
EXTENDS Integers, FiniteSetsExt

CONSTANTS
    None,
    Prompts,        \* measured prompts, the empty one included
    Texts,          \* measured completions
    Echo            \* what a completion repeats of a prompt

\* The guardrails of which the container builds the chains, by their `name'.
InputGuardrails ==
    {"PromptInjectionDetector", "JailbreakDetector", "PIIDetector",
     "SecretDetector", "TokenLengthValidator", "LanguageValidator",
     "ToxicityDetector"}

OutputGuardrails ==
    {"JSONSchemaValidator", "OutputToxicityDetector", "PromptLeakageDetector",
     "SecretLeakageDetector", "OffTopicDetector", "HallucinationGuard"}

\* The registries of utils/patterns.py that findings name.
PII == {"EMAIL", "PHONE", "SSN", "CREDIT_CARD", "IP_ADDRESS",
        "DATE_OF_BIRTH", "PASSPORT"}

SECRETS == {"OPENAI_KEY", "ANTHROPIC_KEY", "GITHUB_TOKEN", "AWS_ACCESS_KEY",
            "AWS_SECRET_KEY", "GCP_API_KEY", "PRIVATE_KEY", "BEARER_TOKEN",
            "GENERIC_SECRET"}

ASSUME TextsAssumption ==
    /\ \A p \in Prompts :
          /\ {p.injection, p.jailbreak, p.toxic, p.length, p.stripped, p.words,
              p.en_hits, p.grams, p.keywords} \subseteq Nat
          /\ p.entities \subseteq PII /\ p.secrets \subseteq SECRETS
          /\ p.scripts \subseteq {"zh", "ar", "ru", "hi"}
          /\ p.stripped <= p.length
    /\ \A t \in Texts :
          /\ {t.toxic, t.keywords} \subseteq Nat
          /\ t.secrets \subseteq SECRETS
          /\ t.json \in {"valid", "invalid", "undecodable"}
          /\ {t.conforms, t.meets, t.overconfident, t.contradiction}
                \subseteq BOOLEAN
    /\ \A p \in Prompts, t \in Texts :
          /\ Echo[p, t].opening \in BOOLEAN
          /\ Echo[p, t].grams \in 0 .. p.grams
          /\ Echo[p, t].keywords \in 0 .. p.keywords

Codes ==
    {"prompt_injection_detected", "jailbreak_detected", "pii_detected",
     "secret_detected", "token_limit_exceeded", "language_not_allowed",
     "toxic_content_detected", "toxic_output_detected", "invalid_json",
     "json_schema_violation", "prompt_leakage_detected",
     "secret_leakage_detected", "off_topic_response", "hallucination_signal",
     "contradiction_signal"}

Finding(guardrail, code, detail, score) ==
    [guardrail |-> guardrail, code |-> code, detail |-> detail, score |-> score]

\* At most one finding.
OneIf(found, finding) == IF found THEN {finding} ELSE {}

\* One finding per item of a registry that occurs.
OneFor(registry, present, guardrail, code, score) ==
    {Finding(guardrail, code, item, score) : item \in registry \cap present}

\* min(1.0, base + step * len(matches))
\* Slip: the score is not capped.
MatchScore_Uncapped(base, step, matches) == base + step * matches
MatchScore(base, step, matches) == Min({100, base + step * matches})

-----------------------------------------------------------------------------
\* PromptInjectionDetector, JailbreakDetector: the threshold is not read.
PromptInjection(p) ==
    OneIf(p.injection > 0,
          Finding("PromptInjectionDetector", "prompt_injection_detected", None,
                  MatchScore(50, 10, p.injection)))

Jailbreak(p) ==
    OneIf(p.jailbreak > 0,
          Finding("JailbreakDetector", "jailbreak_detected", None,
                  MatchScore(50, 10, p.jailbreak)))

PIIDetector(p, entities) ==
    OneFor(PII, p.entities \cap entities, "PIIDetector", "pii_detected", 90)

SecretDetector(p) ==
    OneFor(SECRETS, p.secrets, "SecretDetector", "secret_detected", 95)

\* max(1, len(text) // 4)
EstimateTokens(length) == Max({1, length \div 4})

TokenLength(p, max_tokens) ==
    LET estimated == EstimateTokens(p.length)
    IN  OneIf(estimated > max_tokens,
              Finding("TokenLengthValidator", "token_limit_exceeded", None,
                      Min({100, (100 * estimated) \div max_tokens - 50})))

\* Scripts are looked for in this order, before words are counted.
DetectLanguage(p) ==
    LET scripts == <<"zh", "ar", "ru", "hi">>
        found == {k \in DOMAIN scripts : scripts[k] \in p.scripts}
    IN  CASE p.stripped < 4 -> "en"
          [] p.stripped >= 4 /\ found # {} -> scripts[Min(found)]
          [] p.stripped >= 4 /\ found = {} ->
                IF p.words < 3 \/ 100 * p.en_hits >= 15 * p.words
                THEN "en" ELSE "unknown"

Language(p, allowed) ==
    OneIf(DetectLanguage(p) \notin allowed \cup {"unknown"},
          Finding("LanguageValidator", "language_not_allowed", None, 80))

\* ToxicityDetector and OutputToxicityDetector
\* Slip: the comparison with the threshold is turned round.
Toxicity_Inverted(matches, threshold, guardrail, code) ==
    LET score == MatchScore(40, 15, matches)
    IN  OneIf(matches > 0 /\ score <= threshold,
              Finding(guardrail, code, None, score))
Toxicity(matches, threshold, guardrail, code) ==
    LET score == MatchScore(40, 15, matches)
    IN  OneIf(matches > 0 /\ score >= threshold,
              Finding(guardrail, code, None, score))

-----------------------------------------------------------------------------
(***************************************************************************)
(* JSONSchemaValidator acts when JSON is enforced or a schema is given.    *)
(* Only JSONDecodeError and ValidationError are caught.  json.loads raises *)
(* something else on an "undecodable" text (nesting beyond the recursion   *)
(* limit, an integer of too many digits).  jsonschema.validate raises      *)
(* SchemaError on a malformed schema, whatever the text; on a schema that  *)
(* is well-formed but broken (a $ref that leads nowhere, say) it raises    *)
(* when the text meets the part that is broken.                            *)
(***************************************************************************)
JSONAsked(enforce_json, schema) == enforce_json \/ schema # None

JSONSchemaRaises(t, enforce_json, schema) ==
    /\ JSONAsked(enforce_json, schema)
    /\ \/ t.json = "undecodable"
       \/ t.json = "valid" /\ schema = "malformed"
       \/ t.json = "valid" /\ schema = "broken" /\ t.meets

\* What it finds when it does not raise.
JSONSchema(t, enforce_json, schema) ==
    OneIf(JSONAsked(enforce_json, schema) /\ t.json = "invalid",
          Finding("JSONSchemaValidator", "invalid_json", None, 90))
    \cup OneIf(/\ t.json = "valid" /\ schema \in {"required", "broken"}
               /\ ~t.conforms,
               Finding("JSONSchemaValidator", "json_schema_violation", None, 85))

\* The opening words of the prompt, or a share of its five-word sequences.
PromptLeakage(p, t) ==
    LET echo == Echo[p, t]
        verbatim == p.words >= 6 /\ echo.opening
    IN  IF p.length < 20 THEN {}
        ELSE OneIf(verbatim,
                   Finding("PromptLeakageDetector", "prompt_leakage_detected",
                           None, 90))
             \cup OneIf(~verbatim /\ p.grams > 0 /\ 100 * echo.grams >= 35 * p.grams,
                        Finding("PromptLeakageDetector", "prompt_leakage_detected", None,
                                Min({100, 50 + (100 * echo.grams) \div p.grams})))

SecretLeakage(t) ==
    OneFor(SECRETS, t.secrets, "SecretLeakageDetector",
           "secret_leakage_detected", 95)

\* Overlap below 5%: 0.5 + (0.05 - overlap) * 5, at most 0.75.
OffTopic(p, t) ==
    LET common == Echo[p, t].keywords
    IN  OneIf(/\ p.keywords > 0 /\ t.keywords > 0
              /\ 100 * common < 5 * p.keywords,
              Finding("OffTopicDetector", "off_topic_response", None,
                      75 - (500 * common) \div Max({1, p.keywords})))

\* No caller sets check_citations.
Hallucination(t) ==
    OneIf(t.overconfident,
          Finding("HallucinationGuard", "hallucination_signal", None, 60))
    \cup OneIf(t.contradiction,
               Finding("HallucinationGuard", "contradiction_signal", None, 45))

-----------------------------------------------------------------------------
\* What the guardrails read of a policy, and their own defaults.
InputDefaults ==
    [enabled |-> InputGuardrails, entities |-> {"EMAIL", "PHONE", "SSN", "CREDIT_CARD"},
     max_tokens |-> 4096, allowed |-> {"en"}, toxicity |-> 50]

OutputDefaults ==
    [enabled |-> OutputGuardrails, toxicity |-> 85, enforce_json |-> FALSE]

InputCheck(g, p, cfg) ==
    CASE g = "PromptInjectionDetector" -> PromptInjection(p)
      [] g = "JailbreakDetector"       -> Jailbreak(p)
      [] g = "PIIDetector"             -> PIIDetector(p, cfg.entities)
      [] g = "SecretDetector"          -> SecretDetector(p)
      [] g = "TokenLengthValidator"    -> TokenLength(p, cfg.max_tokens)
      [] g = "LanguageValidator"       -> Language(p, cfg.allowed)
      [] g = "ToxicityDetector"        -> Toxicity(p.toxic, cfg.toxicity, g,
                                                   "toxic_content_detected")

OutputCheck(g, p, t, cfg, schema) ==
    CASE g = "JSONSchemaValidator"    -> JSONSchema(t, cfg.enforce_json, schema)
      [] g = "OutputToxicityDetector" -> Toxicity(t.toxic, cfg.toxicity, g,
                                                  "toxic_output_detected")
      [] g = "PromptLeakageDetector"  -> PromptLeakage(p, t)
      [] g = "SecretLeakageDetector"  -> SecretLeakage(t)
      [] g = "OffTopicDetector"       -> OffTopic(p, t)
      [] g = "HallucinationGuard"     -> Hallucination(t)

Raised == [passed |-> FALSE, violations |-> {}, risk_score |-> 0,
           raised |-> TRUE]

\* ValidationResult.ok() or .fail(...): the risk is the highest score.
\* Slip: scores add up.
Result_Summed(violations) ==
    [passed |-> violations = {}, violations |-> violations,
     risk_score |-> MapThenSumSet(LAMBDA v : v.score, violations),
     raised |-> FALSE]
Result(violations) ==
    IF \E v \in violations : v.score \notin 0 .. 100
    THEN Raised
    ELSE [passed |-> violations = {}, violations |-> violations,
          risk_score |-> Max({0} \cup {v.score : v \in violations}),
          raised |-> FALSE]

\* What the enabled guardrails find, given what each of the chain finds.
\* Slip: fail_fast is on, the first guardrail that objects ends the chain.
Findings_FailFast(enabled, check) ==
    LET objecting == {g \in DOMAIN check \cap enabled : check[g] # {}}
    IN  IF objecting = {} THEN {} ELSE check[CHOOSE g \in objecting : TRUE]
Findings(enabled, check) == UNION {check[g] : g \in DOMAIN check \cap enabled}

\* validate and validate_with_policy of the two services.
ValidateInput(p, cfg) ==
    Result(Findings(cfg.enabled,
                    [g \in InputGuardrails |-> InputCheck(g, p, cfg)]))

ValidateOutput(p, t, cfg, schema) ==
    IF /\ "JSONSchemaValidator" \in cfg.enabled
       /\ JSONSchemaRaises(t, cfg.enforce_json, schema)
    THEN Raised
    ELSE Result(Findings(cfg.enabled,
                    [g \in OutputGuardrails |-> OutputCheck(g, p, t, cfg, schema)]))
=============================================================================
