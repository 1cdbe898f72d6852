--------------------------- MODULE MCValidationApi ----------------------------
(* An instance of ValidationApi: each text trips a different guardrail, and  *)
(* the documents differ in shape, in what they enable and in thresholds.     *)
EXTENDS ValidationApi

Plain ==
    [injection |-> 0, jailbreak |-> 0, toxic |-> 0, length |-> 0, stripped |-> 0,
     words |-> 0, en_hits |-> 0, grams |-> 0, keywords |-> 0, entities |-> {},
     secrets |-> {}, scripts |-> {}]

English == [Plain EXCEPT !.length = 60, !.stripped = 58, !.words = 10,
                         !.en_hits = 4, !.grams = 6, !.keywords = 4]

\* More injection patterns than the score has room for; one of each kind.
Attack == [English EXCEPT !.injection = 6, !.jailbreak = 1]
Probe == [English EXCEPT !.injection = 1, !.toxic = 2]
Private == [English EXCEPT !.entities = {"EMAIL", "IP_ADDRESS"},
                           !.secrets = {"OPENAI_KEY", "BEARER_TOKEN"}]
\* Long, in two scripts; short English that is not recognised as such.
Long == [Plain EXCEPT !.length = 800, !.stripped = 800, !.words = 90,
                      !.en_hits = 40, !.scripts = {"hi", "ar"}]
Unclear == [Plain EXCEPT !.length = 19, !.stripped = 19, !.words = 3,
                         !.keywords = 1]

MCPrompts == {Plain, Attack, Probe, Private, Long, Unclear}

Reply == [toxic |-> 0, keywords |-> 3, secrets |-> {}, json |-> "invalid",
          conforms |-> FALSE, meets |-> FALSE, overconfident |-> FALSE, contradiction |-> FALSE]

\* JSON that fits the schemas, JSON that does not and reaches what is broken
\* in one of them, and JSON nested too deeply to be decoded.
Document == [Reply EXCEPT !.json = "valid", !.conforms = TRUE]
OtherDocument == [Reply EXCEPT !.json = "valid", !.meets = TRUE]
Deep == [Reply EXCEPT !.json = "undecodable"]
Rude == [Reply EXCEPT !.toxic = 2, !.overconfident = TRUE]
Leaky == [Reply EXCEPT !.secrets = {"PRIVATE_KEY", "GITHUB_TOKEN"},
                       !.toxic = 4, !.contradiction = TRUE]

MCTexts == {Reply, Document, OtherDocument, Deep, Rude, Leaky}

\* "Rude" opens like the prompt, "Leaky" repeats enough of it, "Reply" stays
\* on its topic, the documents have nothing to do with it.
MCEcho ==
    [pt \in Prompts \X Texts |->
        LET p == pt[1] t == pt[2]
        IN  [opening |-> t = Rude,
             grams |-> IF t = Leaky THEN p.grams \div 2 ELSE 0,
             keywords |-> IF t \in {Document, OtherDocument} THEN 0
                          ELSE p.keywords]]

Off == [enabled |-> FALSE]
On == [enabled |-> TRUE]
Bare == [vendor |-> None, base |-> "m"]
Prefixed == [vendor |-> "openai", base |-> "m"]

\* A nested block with keys of its own, and a strategy; guardrails with some
\* keys written, in part against their defaults.
Lax ==
    [id |-> "default",
     provider |-> [primary |-> [name |-> "gemini"], name |-> "ollama", model |-> Bare,
                   strategy |-> "random",
                   fallbacks |-> <<[name |-> "ollama", timeout_seconds |-> 5],
                                   [model |-> Prefixed]>>],
     input_guardrails |->
        [jailbreak |-> Off, secrets |-> Off,
         token_length |-> [enabled |-> FALSE, max_tokens |-> 250],
         language |-> [enabled |-> TRUE, allowed |-> {"en", "ar"}],
         pii |-> [entities |-> {"EMAIL"}], toxicity |-> [threshold |-> 80]],
     output_guardrails |->
        [json_schema |-> On, off_topic |-> On, secret_leakage |-> Off]]

\* A flat block whose strategy nobody knows; everything enabled.
Strict ==
    [id |-> "default",
     provider |-> [name |-> "gemini", model |-> Prefixed, strategy |-> "fastest"],
     input_guardrails |->
        [token_length |-> [max_tokens |-> 1], language |-> On,
         pii |-> [entities |-> PII], toxicity |-> [threshold |-> 50]],
     output_guardrails |->
        [json_schema |-> [enabled |-> TRUE, enforce_json |-> TRUE],
         toxicity |-> [threshold |-> 50], off_topic |-> On, hallucination |-> On]]

\* Nothing but two limits and a strategy; fallbacks that are null.
Narrow ==
    [id |-> "other",
     provider |-> [strategy |-> "sequential", fallbacks |-> None, timeout_seconds |-> 9],
     input_guardrails |->
        [prompt_injection |-> Off, jailbreak |-> Off, pii |-> Off,
         toxicity |-> Off, token_length |-> [max_tokens |-> 100]],
     output_guardrails |->
        [toxicity |-> Off, prompt_leakage |-> Off,
         hallucination |-> [action |-> "warn"]]]

\* Nothing at all; a strategy alone.
Minimal == [id |-> "other"]
Choosy == [id |-> "other", provider |-> [strategy |-> "cheapest"]]

\* Documents that do not validate.
Refused ==
    {[Lax EXCEPT !.input_guardrails.token_length.max_tokens = 0],
     [Lax EXCEPT !.provider.fallbacks = <<None>>],
     [id |-> "other", provider |-> None],
     [id |-> "other", provider |-> [strategy |-> "fastest"]]}

MCDocuments == {Lax, Strict, Narrow, Minimal, Choosy} \cup Refused
StrategyDocuments == {Lax, Choosy}
=============================================================================
