---------------------------- MODULE ValidationApi -----------------------------
(***************************************************************************)
(* The endpoints that run guardrails without a provider: POST              *)
(* /validate/input and POST /validate/output (routers/validation.py), and  *)
(* GET /policies (routers/policies.py), on a registry whose policies are   *)
(* loaded from documents and replaced between calls.  `last' is the latest *)
(* call with the settings it ran under and its answer; `written' is the    *)
(* document each policy was made of.                                       *)
(***************************************************************************)
EXTENDS GuardrailChecks, Sequences

CONSTANTS
    PolicyIds,
    Documents,          \* policy documents, see PolicyDocuments
    EmptyPrompt,        \* `request.prompt or ""'
    Schemas             \* values of expected_schema

VARIABLES policies, written, last

vars == <<policies, written, last>>

Model == INSTANCE PolicyDocuments

ASSUME ApiAssumption ==
    /\ None \notin PolicyIds \cup {"empty", "required", "malformed", "broken"}
    /\ None \notin Documents
    /\ EmptyPrompt \in Prompts /\ EmptyPrompt.length = 0
    /\ Schemas \subseteq {None, "empty", "required", "malformed", "broken"}
    /\ \A doc \in Documents :
          /\ doc.id \in PolicyIds
          /\ DOMAIN Model!Block(doc, "input_guardrails")
                \subseteq DOMAIN Model!InputGuardrailsConfig
          /\ DOMAIN Model!Block(doc, "output_guardrails")
                \subseteq DOMAIN Model!OutputGuardrailsConfig
          /\ LET provider == Model!Block(doc, "provider")
                 fallbacks == Model!Get(provider, "fallbacks")
             IN  provider = None \/ fallbacks = None
                    \/ fallbacks \in Seq(Range(fallbacks))

(***************************************************************************)
(* The services' own tables: the section of a policy that controls each    *)
(* guardrail, by the guardrail's name.                                     *)
(***************************************************************************)
\* Slip: an entry does not match the name of the guardrail it is for.
INPUT_GUARDRAIL_CONFIG_KEY_Misnamed ==
    [PromptInjectionDetector |-> "prompt_injection",
     JailbreakDetector |-> "jailbreak", PIIDetector |-> "pii",
     SecretsDetector |-> "secrets", TokenLengthValidator |-> "token_length",
     LanguageValidator |-> "language", ToxicityDetector |-> "toxicity"]
INPUT_GUARDRAIL_CONFIG_KEY ==
    [PromptInjectionDetector |-> "prompt_injection",
     JailbreakDetector |-> "jailbreak", PIIDetector |-> "pii",
     SecretDetector |-> "secrets", TokenLengthValidator |-> "token_length",
     LanguageValidator |-> "language", ToxicityDetector |-> "toxicity"]

OUTPUT_GUARDRAIL_CONFIG_KEY ==
    [JSONSchemaValidator |-> "json_schema", OutputToxicityDetector |-> "toxicity",
     PromptLeakageDetector |-> "prompt_leakage",
     SecretLeakageDetector |-> "secret_leakage",
     OffTopicDetector |-> "off_topic", HallucinationGuard |-> "hallucination"]

\* The guardrails of a chain that the table knows and whose section is on.
Active(chain, table, config) ==
    {g \in chain \cap DOMAIN table : config[table[g]].enabled}

\* ctx.get(key, default) in a guardrail: its context is its section.
ReadKey(section, key, default) ==
    IF Model!Has(section, key) THEN section[key] ELSE default

\* What validate_with_policy takes from a policy.
InputSettings(policy) ==
    LET table == INPUT_GUARDRAIL_CONFIG_KEY
        Section(g) == policy.input_guardrails[table[g]]
    IN  [enabled |-> Active(InputGuardrails, table, policy.input_guardrails),
         entities |-> ReadKey(Section("PIIDetector"), "entities",
                              InputDefaults.entities),
         max_tokens |-> ReadKey(Section("TokenLengthValidator"), "max_tokens",
                                InputDefaults.max_tokens),
         allowed |-> ReadKey(Section("LanguageValidator"), "allowed",
                             InputDefaults.allowed),
         toxicity |-> ReadKey(Section("ToxicityDetector"), "threshold",
                              InputDefaults.toxicity)]

OutputSettings(policy) ==
    LET table == OUTPUT_GUARDRAIL_CONFIG_KEY
        Section(g) == policy.output_guardrails[table[g]]
    IN  [enabled |-> Active(OutputGuardrails, table, policy.output_guardrails),
         toxicity |-> ReadKey(Section("OutputToxicityDetector"), "threshold",
                              OutputDefaults.toxicity),
         enforce_json |-> ReadKey(Section("JSONSchemaValidator"), "enforce_json",
                                  OutputDefaults.enforce_json)]

NotFound == [status |-> "policy_not_found"]
Answer(result) ==
    [status |-> IF result.raised THEN "raised" ELSE "ok",
     valid |-> result.passed, violations |-> result.violations,
     risk_score |-> result.risk_score]

Nothing == [kind |-> "none"]

Init ==
    /\ policies = [i \in PolicyIds |-> None]
    /\ written = [i \in PolicyIds |-> None]
    /\ last = Nothing

-----------------------------------------------------------------------------
(***************************************************************************)
(* Publish: a document is loaded and its policy stored (see PolicyService  *)
(* for files, threads and their order).  Load refuses one that does not    *)
(* validate.                                                               *)
(***************************************************************************)
Publish(doc) ==
    /\ Model!Validates(doc)
    /\ policies' = [policies EXCEPT ![doc.id] = Model!PolicyOf(doc)]
    /\ written' = [written EXCEPT ![doc.id] = doc]
    /\ UNCHANGED last

Refuse(doc) ==
    /\ ~Model!Validates(doc)
    /\ last' = [kind |-> "load", reply |-> [status |-> "policy_invalid"]]
    /\ UNCHANGED <<policies, written>>

(***************************************************************************)
(* ListPolicies: GET /policies.                                            *)
(***************************************************************************)
\* Policy.enabled_input_guardrails, with a table of its own.
EnabledInputGuardrails(policy) ==
    LET ig == policy.input_guardrails
        table == [prompt_injection |-> ig.prompt_injection,
                  jailbreak |-> ig.jailbreak, pii |-> ig.pii,
                  secrets |-> ig.secrets, token_length |-> ig.token_length,
                  language |-> ig.language, toxicity |-> ig.toxicity]
    IN  {name \in DOMAIN table : table[name].enabled}

\* Policy.enabled_output_guardrails
EnabledOutputGuardrails(policy) ==
    LET og == policy.output_guardrails
        table == [json_schema |-> og.json_schema, toxicity |-> og.toxicity,
                  prompt_leakage |-> og.prompt_leakage,
                  secret_leakage |-> og.secret_leakage,
                  off_topic |-> og.off_topic, hallucination |-> og.hallucination]
    IN  {name \in DOMAIN table : table[name].enabled}

Summary(policy) ==
    [id |-> policy.id, provider |-> Model!RoutedModel(policy.provider),
     input_guardrails_enabled |-> EnabledInputGuardrails(policy),
     output_guardrails_enabled |-> EnabledOutputGuardrails(policy)]

Loaded == {i \in PolicyIds : policies[i] # None}

ListPolicies ==
    /\ last' = [kind |-> "list", policy_id |-> None, documents |-> written,
                reply |-> [status |-> "ok",
                           policies |-> {Summary(policies[i]) : i \in Loaded}]]
    /\ UNCHANGED <<policies, written>>

(***************************************************************************)
(* PostInput: with a policy_id the policy's guardrails run on the prompt,  *)
(* without one all guardrails do, on their own defaults.                   *)
(***************************************************************************)
PostInput(p, policy_id) ==
    LET q == policies[policy_id]
        cfg == IF policy_id = None THEN InputDefaults ELSE InputSettings(q)
        call(reply) == [kind |-> "input", prompt |-> p, policy_id |-> policy_id,
                        settings |-> cfg, reply |-> reply]
    IN  /\ last' = IF policy_id # None /\ q = None
                   THEN [kind |-> "input", policy_id |-> policy_id,
                         reply |-> NotFound]
                   ELSE call(Answer(ValidateInput(p, cfg)))
        /\ UNCHANGED <<policies, written>>

(***************************************************************************)
(* PostOutput: likewise for a completion.  The inline schema reaches the   *)
(* guardrails only without a policy_id, and only if it is not empty.       *)
(***************************************************************************)
PostOutput(t, p, policy_id, expected_schema) ==
    LET q == policies[policy_id]
        cfg == IF policy_id = None THEN OutputDefaults ELSE OutputSettings(q)
        schema == IF policy_id # None \/ expected_schema = "empty"
                  THEN None ELSE expected_schema
        call(reply) == [kind |-> "output", prompt |-> p, text |-> t,
                        policy_id |-> policy_id, expected_schema |-> expected_schema,
                        settings |-> cfg, schema |-> schema, reply |-> reply]
    IN  /\ last' = IF policy_id # None /\ q = None
                   THEN [kind |-> "output", policy_id |-> policy_id,
                         reply |-> NotFound]
                   ELSE call(Answer(ValidateOutput(p, t, cfg, schema)))
        /\ UNCHANGED <<policies, written>>

Next ==
    \/ \E doc \in Documents : Publish(doc) \/ Refuse(doc)
    \/ ListPolicies
    \/ \E p \in Prompts \ {EmptyPrompt}, i \in PolicyIds \cup {None} :
          PostInput(p, i)
    \/ \E t \in Texts, p \in Prompts, i \in PolicyIds \cup {None}, s \in Schemas :
          PostOutput(t, p, i, s)

Spec == Init /\ [][Next]_vars

-----------------------------------------------------------------------------
(***************************************************************************)
(* Properties                                                              *)
(***************************************************************************)
Ran(call) == call.kind \in {"input", "output"} /\ call.reply.status = "ok"

\* Replies have the shape of a ValidationResponse or of an error.
TypeOK ==
    /\ \A i \in Loaded :
          /\ policies[i].id = i
          /\ policies[i].provider.strategy \in Model!Strategies
          /\ InputSettings(policies[i]).max_tokens \in Nat \ {0}
          /\ {InputSettings(policies[i]).toxicity,
              OutputSettings(policies[i]).toxicity} \subseteq 0 .. 100
    /\ Ran(last) =>
          /\ last.reply.valid \in BOOLEAN
          /\ last.reply.risk_score \in 0 .. 100
          /\ last.reply.violations \subseteq
                [guardrail : InputGuardrails \cup OutputGuardrails, code : Codes,
                 detail : PII \cup SECRETS \cup {None},
                 score : 0 .. 100]

(***************************************************************************)
(* Nothing but the JSON check makes a validation raise: every score fits   *)
(* Violation's bounds (result.py:13, 21), for any text and any loadable    *)
(* policy.  And that check raises only when it is asked for, by the policy *)
(* or by an inline schema, on a text that json.loads cannot decode, or on  *)
(* one that is JSON and an inline schema that jsonschema cannot use        *)
(* (json_schema.py:33-35, 52-54).                                          *)
(***************************************************************************)
OnlyJsonChecksRaise ==
    last.kind \in {"input", "output"} =>
        (last.reply.status = "raised" <=>
            /\ last.kind = "output"
            /\ last.reply.status # "policy_not_found"
            /\ \/ /\ last.text.json = "undecodable"
                  /\ IF last.policy_id = None
                     THEN last.expected_schema \notin {None, "empty"}
                     ELSE /\ "JSONSchemaValidator" \in last.settings.enabled
                          /\ last.settings.enforce_json
               \/ /\ last.text.json = "valid"
                  /\ last.policy_id = None
                  /\ \/ last.expected_schema = "malformed"
                     \/ last.expected_schema = "broken" /\ last.text.meets)

(***************************************************************************)
(* A verdict is complete: it lists what each enabled guardrail finds when  *)
(* run alone and nothing else, and its risk is that of the worst of them   *)
(* (validation.py:83-112, output_validation.py:71-96).                     *)
(***************************************************************************)
VerdictComplete ==
    Ran(last) =>
        LET Alone(g) ==
                IF last.kind = "input"
                THEN ValidateInput(last.prompt, [last.settings EXCEPT !.enabled = {g}])
                ELSE ValidateOutput(last.prompt, last.text,
                         [last.settings EXCEPT !.enabled = {g}], last.schema)
            results == {Alone(g) : g \in last.settings.enabled}
        IN  /\ last.reply.violations
                  = UNION {r.violations : r \in results}
            /\ last.reply.valid = (\A r \in results : r.passed)
            /\ last.reply.risk_score = Max({0} \cup {r.risk_score : r \in results})

Stricter(a, b, kind) ==
    /\ a.enabled \subseteq b.enabled
    /\ b.toxicity <= a.toxicity
    /\ IF kind = "input"
       THEN /\ a.entities \subseteq b.entities
            /\ b.max_tokens <= a.max_tokens
            /\ b.allowed \subseteq a.allowed
       ELSE a.enforce_json => b.enforce_json

\* Which rules a reply says were broken; a stricter limit may raise a score.
Rules(reply) ==
    {<<v.guardrail, v.code, v.detail>> : v \in reply.violations}

(***************************************************************************)
(* README.md:238, "lower = stricter": the same text checked again under    *)
(* settings that are at least as strict breaks at least the same rules, at *)
(* a risk no lower, and is not valid if it was not before.                 *)
(***************************************************************************)
StricterCatchesMore ==
    [][(/\ Ran(last) /\ Ran(last') /\ last.kind = last'.kind
        /\ last.prompt = last'.prompt
        /\ last.kind = "output" =>
              last.text = last'.text /\ last.schema = last'.schema
        /\ Stricter(last.settings, last'.settings, last.kind))
       => /\ Rules(last.reply) \subseteq Rules(last'.reply)
          /\ last.reply.risk_score <= last'.reply.risk_score
          /\ last'.reply.valid => last.reply.valid]_vars

(***************************************************************************)
(* The policy an id names says what its document says: a key written in a  *)
(* primary entry counts, then one of the provider block itself, then the   *)
(* default; fallbacks keep their order; a guardrail key that is not        *)
(* written has that guardrail's own default (models.py:67-119, 132-161).   *)
(***************************************************************************)
DocumentAsWritten ==
    \A i \in Loaded :
        LET block == Model!Block(written[i], "provider")
            Entry(m) == IF m = None THEN Model!Empty ELSE m
            primary == Entry(Model!Get(block, "primary"))
            fallbacks == Model!Get(block, "fallbacks")
            Said(m, k, otherwise) == IF Model!Has(m, k) THEN m[k] ELSE otherwise
            Kept(defaults, section, config) ==
                \A g \in DOMAIN defaults : \A k \in DOMAIN defaults[g] :
                    config[g][k] = Said(Entry(Model!Get(section, g)), k,
                                        defaults[g][k])
        IN  /\ \A k \in Model!EndpointKeys :
                  policies[i].provider.primary[k]
                      = Said(primary, k, Said(block, k, Model!EndpointDefaults[k]))
            /\ Len(policies[i].provider.fallbacks)
                   = IF fallbacks = None THEN 0 ELSE Len(fallbacks)
            /\ \A n \in 1 .. Len(policies[i].provider.fallbacks),
                  k \in Model!EndpointKeys :
                     policies[i].provider.fallbacks[n][k]
                         = Said(fallbacks[n], k, Model!EndpointDefaults[k])
            /\ Kept(Model!InputGuardrailsConfig,
                    Model!Block(written[i], "input_guardrails"),
                    policies[i].input_guardrails)
            /\ Kept(Model!OutputGuardrailsConfig,
                    Model!Block(written[i], "output_guardrails"),
                    policies[i].output_guardrails)

\* The guardrail that a name of the listing stands for.
InputNamed ==
    [prompt_injection |-> "PromptInjectionDetector",
     jailbreak |-> "JailbreakDetector", pii |-> "PIIDetector",
     secrets |-> "SecretDetector", token_length |-> "TokenLengthValidator",
     language |-> "LanguageValidator", toxicity |-> "ToxicityDetector"]

OutputNamed ==
    [json_schema |-> "JSONSchemaValidator", toxicity |-> "OutputToxicityDetector",
     prompt_leakage |-> "PromptLeakageDetector",
     secret_leakage |-> "SecretLeakageDetector",
     off_topic |-> "OffTopicDetector", hallucination |-> "HallucinationGuard"]

\* What a policy says to the guardrails that have settings.
InputSaid(policy) ==
    LET ig == policy.input_guardrails
    IN  [entities |-> ig.pii.entities, max_tokens |-> ig.token_length.max_tokens,
         allowed |-> ig.language.allowed, toxicity |-> ig.toxicity.threshold]

OutputSaid(policy) ==
    LET og == policy.output_guardrails
    IN  [toxicity |-> og.toxicity.threshold,
         enforce_json |-> og.json_schema.enforce_json]

\* What a listed guardrail finds in the text of a call, under a policy.
Expected(call, name, policy) ==
    IF call.kind = "input"
    THEN InputCheck(InputNamed[name], call.prompt, InputSaid(policy))
    ELSE OutputCheck(OutputNamed[name], call.prompt, call.text,
                     OutputSaid(policy), None)

\* A verdict holds the findings of every guardrail listed and of no other.
Agree(listed, call, policy) ==
    LET input == call.kind = "input"
        named == IF input THEN InputNamed ELSE OutputNamed
        on == IF input THEN listed.input_guardrails_enabled
              ELSE listed.output_guardrails_enabled
    IN  \A name \in DOMAIN named :
           {v \in call.reply.violations : v.guardrail = named[name]}
              = IF name \in on THEN Expected(call, name, policy) ELSE {}

(***************************************************************************)
(* What GET /policies lists is what acts: a verdict given next, under one  *)
(* of the listed policies and before any of them is replaced, holds what   *)
(* each guardrail listed as enabled finds under its own section of the     *)
(* policy, and nothing of a guardrail that is not listed.  Three tables    *)
(* have to agree for that: those of the two services, which skip without   *)
(* a word a guardrail whose name they do not know (validation.py:8-16,     *)
(* 82-96, output_validation.py:7-14, 75-83), and that of the listing       *)
(* (models.py:242-271).                                                    *)
(***************************************************************************)
ListedGuardrailsAct ==
    [][(/\ last.kind = "list" /\ last.documents = written
        /\ Ran(last') /\ last'.policy_id # None)
        => \E listed \in last.reply.policies :
              /\ listed.id = last'.policy_id
              /\ Agree(listed, last', policies[listed.id])]_vars

-----------------------------------------------------------------------------
(***************************************************************************)
(* README.md:284, "The `provider` block now supports a `strategy` field    *)
(* plus `primary` and `fallbacks` entries": a policy selects providers by  *)
(* the strategy its document names.                                        *)
(***************************************************************************)
StrategyKept ==
    \A i \in Loaded :
        LET block == Model!Block(written[i], "provider")
        IN  Model!Has(block, "strategy") =>
                policies[i].provider.strategy = block.strategy
=============================================================================
