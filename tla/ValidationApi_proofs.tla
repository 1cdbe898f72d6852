------------------------- MODULE ValidationApi_proofs --------------------------
(***************************************************************************)
(* What the validation endpoints answer, for every text, document and      *)
(* schema: scores fit their bounds, verdicts are complete and strictness   *)
(* never hides a finding; and what the policies behind them say.           *)
(***************************************************************************)
EXTENDS ValidationApi, WellFoundedInduction, TLAPS

(***************************************************************************)
(* Some percentage of a set of percentages is the highest.                 *)
(***************************************************************************)
LEMMA HighestExists ==
    ASSUME NEW S \in SUBSET (0 .. 100), S # {}
    PROVE  \E x \in S : \A y \in S : x >= y
<1> DEFINE T == {100 - x : x \in S}
<1>1. T \subseteq Nat /\ T # {}
  <2>1. \A x \in S : x \in 0 .. 100
    OBVIOUS
  <2>2. \A x \in S : 100 - x \in Nat
    BY <2>1
  <2>3. PICK x \in S : TRUE
    OBVIOUS
  <2> QED
    BY <2>2, <2>3
<1>2. PICK t \in T : \A u \in T : ~(<<u, t>> \in OpToRel(<, Nat))
  <2> HIDE DEF T
  <2> QED
    BY <1>1, NatLessThanWellFounded, WFMin
<1>3. \A u \in T : t <= u
  <2> HIDE DEF T
  <2> SUFFICES ASSUME NEW u \in T PROVE t <= u
    OBVIOUS
  <2>1. <<u, t>> \in Nat \X Nat /\ <<u, t>>[1] = u /\ <<u, t>>[2] = t
    BY <1>1
  <2>2. ~(u < t)
    BY <1>2, <2>1 DEF OpToRel
  <2> QED
    BY <1>1, <2>2
<1>4. PICK x \in S : t = 100 - x
  OBVIOUS
<1>5. \A y \in S : 100 - x <= 100 - y
  BY <1>3, <1>4
<1> QED
  BY <1>4, <1>5

(***************************************************************************)
(* Max of it is that one.                                                  *)
(***************************************************************************)
LEMMA MaxIsHighest ==
    ASSUME NEW S \in SUBSET (0 .. 100), S # {}
    PROVE  Max(S) \in S /\ \A y \in S : Max(S) >= y
BY HighestExists DEF Max

(***************************************************************************)
(* The lower of two numbers.                                               *)
(***************************************************************************)
LEMMA MinOfTwo ==
    ASSUME NEW a \in Int, NEW b \in Int
    PROVE  /\ a <= b => Min({a, b}) = a
           /\ b <= a => Min({a, b}) = b
BY DEF Min

(***************************************************************************)
(* A capped score is a percentage.                                         *)
(***************************************************************************)
LEMMA CappedFits ==
    ASSUME NEW n \in Nat
    PROVE  Min({100, n}) \in 0 .. 100
BY DEF Min

(***************************************************************************)
(* The higher of two numbers.                                              *)
(***************************************************************************)
LEMMA MaxOfTwo ==
    ASSUME NEW a \in Int, NEW b \in Int
    PROVE  /\ a <= b => Max({a, b}) = b
           /\ b <= a => Max({a, b}) = a
BY DEF Max

(***************************************************************************)
(* A quotient of more than n divisors is at least n, and the quotient by a *)
(* smaller divisor is no smaller.                                          *)
(***************************************************************************)
LEMMA Division ==
    ASSUME NEW a \in Nat, NEW m \in Nat \ {0}
    PROVE  /\ a \div m \in Nat
           /\ m * (a \div m) <= a
           /\ a < m * (a \div m) + m
OBVIOUS

(***************************************************************************)
(* A quotient of at least n divisors is at least n.                        *)
(***************************************************************************)
LEMMA DivisionAtLeast ==
    ASSUME NEW a \in Nat, NEW m \in Nat \ {0}, NEW n \in Nat, n * m <= a
    PROVE  a \div m >= n
<1> DEFINE q == a \div m
<1>1. q \in Nat /\ m * q <= a /\ a < m * q + m
  BY Division
<1> HIDE DEF q
<1>2. SUFFICES ASSUME q + 1 <= n PROVE FALSE
  BY <1>1 DEF q
<1>3. m * (q + 1) <= m * n
  BY <1>1, <1>2
<1>4. m * (q + 1) = m * q + m /\ m * n = n * m
  BY <1>1
<1> QED
  BY <1>1, <1>3, <1>4

(***************************************************************************)
(* The quotient by a smaller divisor is no smaller.                        *)
(***************************************************************************)
LEMMA DivisionAntitone ==
    ASSUME NEW a \in Nat, NEW m \in Nat \ {0}, NEW k \in Nat \ {0}, k <= m
    PROVE  a \div m <= a \div k
<1> DEFINE q == a \div m
<1>1. q \in Nat /\ m * q <= a
  BY Division
<1> HIDE DEF q
<1>2. k * q <= m * q /\ k * q = q * k /\ q * k \in Nat
  BY <1>1
<1>3. a \div k >= q
  BY <1>1, <1>2, DivisionAtLeast
<1> QED
  BY <1>3, <1>1, Division DEF q

(***************************************************************************)
(* A quotient of at most n divisors is at most n.                          *)
(***************************************************************************)
LEMMA DivisionAtMost ==
    ASSUME NEW a \in Nat, NEW m \in Nat \ {0}, NEW n \in Nat, a <= n * m
    PROVE  a \div m <= n
<1> DEFINE q == a \div m
<1>1. q \in Nat /\ m * q <= a
  BY Division
<1> HIDE DEF q
<1>2. SUFFICES ASSUME n + 1 <= q PROVE FALSE
  BY <1>1 DEF q
<1>3. m * (n + 1) <= m * q
  BY <1>1, <1>2
<1>4. m * (n + 1) = n * m + m
  OBVIOUS
<1> QED
  BY <1>1, <1>3, <1>4

-----------------------------------------------------------------------------
(***************************************************************************)
(* Settings under which the chains run, and the findings of a guardrail.   *)
(***************************************************************************)
InputConfig(cfg) ==
    /\ cfg = [enabled |-> cfg.enabled, entities |-> cfg.entities,
              max_tokens |-> cfg.max_tokens, allowed |-> cfg.allowed,
              toxicity |-> cfg.toxicity]
    /\ cfg.enabled \subseteq InputGuardrails
    /\ cfg.max_tokens \in Nat \ {0}
    /\ cfg.toxicity \in 0 .. 100

OutputConfig(cfg) ==
    /\ cfg = [enabled |-> cfg.enabled, toxicity |-> cfg.toxicity,
              enforce_json |-> cfg.enforce_json]
    /\ cfg.enabled \subseteq OutputGuardrails
    /\ cfg.toxicity \in 0 .. 100

FindingsOf(g) ==
    [guardrail : {g}, code : Codes, detail : PII \cup SECRETS \cup {None},
     score : 0 .. 100]

(***************************************************************************)
(* What is measured in a text is a number, what it contains is registered. *)
(***************************************************************************)
LEMMA PromptType ==
    ASSUME NEW p \in Prompts
    PROVE  /\ p.injection \in Nat /\ p.jailbreak \in Nat /\ p.toxic \in Nat
           /\ p.length \in Nat /\ p.words \in Nat /\ p.grams \in Nat
           /\ p.keywords \in Nat
           /\ p.entities \subseteq PII /\ p.secrets \subseteq SECRETS
<1>1. {p.injection, p.jailbreak, p.toxic, p.length, p.stripped, p.words,
       p.en_hits, p.grams, p.keywords} \subseteq Nat
  BY TextsAssumption
<1>2. p.entities \subseteq PII /\ p.secrets \subseteq SECRETS
  BY TextsAssumption
<1> QED
  BY <1>1, <1>2, Zenon

(***************************************************************************)
(* Likewise of a completion.                                               *)
(***************************************************************************)
LEMMA TextType ==
    ASSUME NEW t \in Texts
    PROVE  t.toxic \in Nat /\ t.keywords \in Nat /\ t.secrets \subseteq SECRETS
<1>1. {t.toxic, t.keywords} \subseteq Nat /\ t.secrets \subseteq SECRETS
  BY TextsAssumption
<1> QED
  BY <1>1, Zenon

(***************************************************************************)
(* What a completion shares with the prompt is counted.                    *)
(***************************************************************************)
LEMMA EchoType ==
    ASSUME NEW p \in Prompts, NEW t \in Texts
    PROVE  Echo[p, t].grams \in Nat /\ Echo[p, t].keywords \in Nat
<1>1. Echo[p, t].grams \in 0 .. p.grams /\ Echo[p, t].keywords \in 0 .. p.keywords
  BY TextsAssumption, Zenon
<1>2. \A m : \A n \in 0 .. m : n \in Nat
  OBVIOUS
<1> QED
  BY <1>1, <1>2, Zenon

(***************************************************************************)
(* A finding is one of its guardrail's when its code is known and its      *)
(* score a percentage.                                                     *)
(***************************************************************************)
LEMMA FindingType ==
    ASSUME NEW g, NEW code \in Codes, NEW detail \in PII \cup SECRETS \cup {None},
           NEW score \in 0 .. 100
    PROVE  Finding(g, code, detail, score) \in FindingsOf(g)
BY DEF Finding, FindingsOf

(***************************************************************************)
(* So is what is found on one condition.                                   *)
(***************************************************************************)
LEMMA OneIfType ==
    ASSUME NEW found, NEW g, NEW code \in Codes, NEW score,
           found => score \in 0 .. 100
    PROVE  OneIf(found, Finding(g, code, None, score)) \subseteq FindingsOf(g)
BY FindingType DEF OneIf

(***************************************************************************)
(* And what is found for each entry of a registry of patterns.             *)
(***************************************************************************)
LEMMA OneForType ==
    ASSUME NEW registry, registry \subseteq PII \cup SECRETS, NEW present,
           NEW g, NEW code \in Codes, NEW score \in 0 .. 100
    PROVE  OneFor(registry, present, g, code, score) \subseteq FindingsOf(g)
BY FindingType DEF OneFor

(***************************************************************************)
(* However many patterns match, the score stays below its cap.             *)
(***************************************************************************)
LEMMA MatchScoreFits ==
    ASSUME NEW base \in 0 .. 100, NEW step \in Nat, NEW matches \in Nat
    PROVE  MatchScore(base, step, matches) \in 0 .. 100
<1>1. base + step * matches \in Nat
  <2>1. step * matches \in Nat
    OBVIOUS
  <2> QED
    BY <2>1
<1> QED
  BY <1>1, CappedFits, Zenon DEF MatchScore

(***************************************************************************)
(* Toxicity is found in either text with a score that fits.                *)
(***************************************************************************)
LEMMA ToxicityType ==
    ASSUME NEW matches \in Nat, NEW threshold, NEW g, NEW code \in Codes
    PROVE  Toxicity(matches, threshold, g, code) \subseteq FindingsOf(g)
<1>1. MatchScore(40, 15, matches) \in 0 .. 100
  <2>1. 40 \in 0 .. 100 /\ 15 \in Nat
    OBVIOUS
  <2> QED
    BY <2>1, MatchScoreFits, Zenon
<1> QED
  BY <1>1, OneIfType DEF Toxicity

(***************************************************************************)
(* A prompt over its limit scores from 50 up: it is at least as long as    *)
(* the limit allows.                                                       *)
(***************************************************************************)
LEMMA EstimateType ==
    ASSUME NEW length \in Nat
    PROVE  EstimateTokens(length) \in Nat \ {0}
<1>1. length \div 4 \in Nat
  BY Division
<1> QED
  BY <1>1, MaxOfTwo DEF EstimateTokens

(***************************************************************************)
(* An estimate above the limit makes a score of at least 50, at most 100.  *)
(***************************************************************************)
LEMMA OverLimit ==
    ASSUME NEW estimated \in Nat, NEW limit \in Nat \ {0}, estimated > limit
    PROVE  /\ (100 * estimated) \div limit \in Nat
           /\ (100 * estimated) \div limit - 50 >= 50
           /\ Min({100, (100 * estimated) \div limit - 50}) \in 0 .. 100
<1>1. 100 * estimated \in Nat /\ 100 * limit <= 100 * estimated
  OBVIOUS
<1>2. (100 * estimated) \div limit \in Nat /\ (100 * estimated) \div limit >= 100
  BY <1>1, Division, DivisionAtLeast
<1>3. (100 * estimated) \div limit - 50 \in Nat
  BY <1>2
<1> QED
  BY <1>2, <1>3, CappedFits

(***************************************************************************)
(* So the finding of an overlong prompt fits.                              *)
(***************************************************************************)
LEMMA TokenLengthType ==
    ASSUME NEW p \in Prompts, NEW limit \in Nat \ {0}
    PROVE  TokenLength(p, limit) \subseteq FindingsOf("TokenLengthValidator")
<1> DEFINE estimated == EstimateTokens(p.length)
           score == Min({100, (100 * estimated) \div limit - 50})
<1>1. estimated \in Nat
  BY PromptType, EstimateType
<1>2. estimated > limit => score \in 0 .. 100
  BY <1>1, OverLimit
<1>3. "token_limit_exceeded" \in Codes
  BY DEF Codes
<1> HIDE DEF score
<1>4. OneIf(estimated > limit,
            Finding("TokenLengthValidator", "token_limit_exceeded", None, score))
          \subseteq FindingsOf("TokenLengthValidator")
  BY <1>2, <1>3, OneIfType
<1> QED
  BY <1>4 DEF TokenLength, score

(***************************************************************************)
(* Every input guardrail finds something of its own, with a score that     *)
(* Violation accepts.                                                      *)
(***************************************************************************)
LEMMA InputCheckType ==
    ASSUME NEW g \in InputGuardrails, NEW p \in Prompts, NEW cfg, InputConfig(cfg)
    PROVE  InputCheck(g, p, cfg) \subseteq FindingsOf(g)
<1> USE PromptType
<1>0. 50 \in 0 .. 100 /\ 10 \in Nat
  OBVIOUS
<1>1. CASE g = "PromptInjectionDetector"
  <2>1. MatchScore(50, 10, p.injection) \in 0 .. 100
    BY <1>0, MatchScoreFits, Zenon
  <2>2. PromptInjection(p) \subseteq FindingsOf(g)
    BY <1>1, <2>1, OneIfType DEF PromptInjection, Codes
  <2> QED
    BY <1>1, <2>2 DEF InputCheck
<1>2. CASE g = "JailbreakDetector"
  <2>1. MatchScore(50, 10, p.jailbreak) \in 0 .. 100
    BY <1>0, MatchScoreFits, Zenon
  <2>2. Jailbreak(p) \subseteq FindingsOf(g)
    BY <1>2, <2>1, OneIfType DEF Jailbreak, Codes
  <2> QED
    BY <1>2, <2>2 DEF InputCheck
<1>3. CASE g = "PIIDetector"
  <2>1. PII \subseteq PII \cup SECRETS /\ "pii_detected" \in Codes /\ 90 \in 0 .. 100
    BY DEF Codes
  <2>2. PIIDetector(p, cfg.entities) \subseteq FindingsOf(g)
    BY <1>3, <2>1, OneForType, Zenon DEF PIIDetector
  <2> QED
    BY <1>3, <2>2 DEF InputCheck
<1>4. CASE g = "SecretDetector"
  <2>1. SECRETS \subseteq PII \cup SECRETS /\ "secret_detected" \in Codes /\ 95 \in 0 .. 100
    BY DEF Codes
  <2>2. SecretDetector(p) \subseteq FindingsOf(g)
    BY <1>4, <2>1, OneForType, Zenon DEF SecretDetector
  <2> QED
    BY <1>4, <2>2 DEF InputCheck
<1>5. CASE g = "TokenLengthValidator"
  <2>1. TokenLength(p, cfg.max_tokens) \subseteq FindingsOf(g)
    BY <1>5, TokenLengthType DEF InputConfig
  <2> QED
    BY <1>5, <2>1 DEF InputCheck
<1>6. CASE g = "LanguageValidator"
  <2>1. Language(p, cfg.allowed) \subseteq FindingsOf(g)
    BY <1>6, OneIfType DEF Language, Codes
  <2> QED
    BY <1>6, <2>1 DEF InputCheck
<1>7. CASE g = "ToxicityDetector"
  <2>1. Toxicity(p.toxic, cfg.toxicity, g, "toxic_content_detected") \subseteq FindingsOf(g)
    BY <1>7, ToxicityType DEF Codes
  <2> QED
    BY <1>7, <2>1 DEF InputCheck
<1> QED
  BY <1>1, <1>2, <1>3, <1>4, <1>5, <1>6, <1>7 DEF InputGuardrails

(***************************************************************************)
(* So does every output guardrail: the share of a prompt that leaks is     *)
(* capped, and the overlap that makes a reply off topic is small.          *)
(***************************************************************************)
LEMMA ShareFits ==
    ASSUME NEW n \in Nat, NEW m \in Nat \ {0}
    PROVE  Min({100, 50 + (100 * n) \div m}) \in 0 .. 100
<1>1. 100 * n \in Nat
  OBVIOUS
<1>2. (100 * n) \div m \in Nat
  BY <1>1, Division
<1> QED
  BY <1>2, CappedFits

(***************************************************************************)
(* The score of an off-topic completion lies between its bounds, since its *)
(* overlap with the prompt is below the threshold.                         *)
(***************************************************************************)
LEMMA OverlapFits ==
    ASSUME NEW n \in Nat, NEW m \in Nat \ {0}, 100 * n < 5 * m
    PROVE  75 - (500 * n) \div Max({1, m}) \in 0 .. 100
<1>1. 500 * n \in Nat /\ 500 * n <= 25 * m
  OBVIOUS
<1>2. (500 * n) \div m \in Nat /\ (500 * n) \div m <= 25
  BY <1>1, Division, DivisionAtMost
<1>3. Max({1, m}) = m
  BY MaxOfTwo
<1> QED
  BY <1>2, <1>3

(***************************************************************************)
(* A leaked prompt scores within the bounds.                               *)
(***************************************************************************)
LEMMA PromptLeakageType ==
    ASSUME NEW p \in Prompts, NEW t \in Texts
    PROVE  PromptLeakage(p, t) \subseteq FindingsOf("PromptLeakageDetector")
<1> DEFINE echo == Echo[p, t]
           verbatim == p.words >= 6 /\ echo.opening
           shared == ~verbatim /\ p.grams > 0 /\ 100 * echo.grams >= 35 * p.grams
           score == Min({100, 50 + (100 * echo.grams) \div p.grams})
<1>1. p.grams \in Nat /\ echo.grams \in Nat
  BY PromptType, EchoType, Zenon
<1>2. shared => score \in 0 .. 100
  <2>1. \A n \in Nat : n > 0 => n \in Nat \ {0}
    OBVIOUS
  <2> QED
    BY <1>1, <2>1, ShareFits, Zenon
<1>3. "prompt_leakage_detected" \in Codes /\ 90 \in 0 .. 100
  BY DEF Codes
<1> HIDE DEF score, verbatim, shared
<1>4. OneIf(verbatim, Finding("PromptLeakageDetector", "prompt_leakage_detected", None, 90))
          \subseteq FindingsOf("PromptLeakageDetector")
  BY <1>3, OneIfType
<1>5. OneIf(shared, Finding("PromptLeakageDetector", "prompt_leakage_detected", None, score))
          \subseteq FindingsOf("PromptLeakageDetector")
  BY <1>2, <1>3, OneIfType
<1> QED
  BY <1>4, <1>5 DEF PromptLeakage, score, verbatim, shared

(***************************************************************************)
(* So does a completion that is off topic.                                 *)
(***************************************************************************)
LEMMA OffTopicType ==
    ASSUME NEW p \in Prompts, NEW t \in Texts
    PROVE  OffTopic(p, t) \subseteq FindingsOf("OffTopicDetector")
<1> DEFINE common == Echo[p, t].keywords
           found == /\ p.keywords > 0 /\ t.keywords > 0
                    /\ 100 * common < 5 * p.keywords
           score == 75 - (500 * common) \div Max({1, p.keywords})
<1>1. p.keywords \in Nat /\ common \in Nat
  BY PromptType, EchoType, Zenon
<1>2. found => score \in 0 .. 100
  <2>1. \A n \in Nat : n > 0 => n \in Nat \ {0}
    OBVIOUS
  <2> QED
    BY <1>1, <2>1, OverlapFits, ZenonT(40)
<1>3. "off_topic_response" \in Codes
  BY DEF Codes
<1> HIDE DEF found, score
<1>4. OneIf(found, Finding("OffTopicDetector", "off_topic_response", None, score))
          \subseteq FindingsOf("OffTopicDetector")
  BY <1>2, <1>3, OneIfType
<1> QED
  BY <1>4 DEF OffTopic, found, score

(***************************************************************************)
(* Every output guardrail finds something of its own, with a score that    *)
(* Violation accepts.                                                      *)
(***************************************************************************)
LEMMA OutputCheckType ==
    ASSUME NEW g \in OutputGuardrails, NEW p \in Prompts, NEW t \in Texts,
           NEW cfg, NEW schema
    PROVE  OutputCheck(g, p, t, cfg, schema) \subseteq FindingsOf(g)
<1>0. 90 \in 0 .. 100 /\ 85 \in 0 .. 100 /\ 60 \in 0 .. 100 /\ 45 \in 0 .. 100
  OBVIOUS
<1>1. CASE g = "JSONSchemaValidator"
  <2> DEFINE asked == JSONAsked(cfg.enforce_json, schema)
             violated == /\ t.json = "valid" /\ schema \in {"required", "broken"}
                         /\ ~t.conforms
  <2>1. "invalid_json" \in Codes /\ "json_schema_violation" \in Codes
    BY DEF Codes
  <2>2. OneIf(asked /\ t.json = "invalid", Finding(g, "invalid_json", None, 90))
           \subseteq FindingsOf(g)
    BY <1>0, <2>1, OneIfType, Zenon
  <2>3. OneIf(violated, Finding(g, "json_schema_violation", None, 85))
           \subseteq FindingsOf(g)
    BY <1>0, <2>1, OneIfType, Zenon
  <2>4. JSONSchema(t, cfg.enforce_json, schema) \subseteq FindingsOf(g)
    BY <1>1, <2>2, <2>3 DEF JSONSchema
  <2> QED
    BY <1>1, <2>4 DEF OutputCheck
<1>2. CASE g = "OutputToxicityDetector"
  <2>1. Toxicity(t.toxic, cfg.toxicity, g, "toxic_output_detected") \subseteq FindingsOf(g)
    BY <1>2, TextType, ToxicityType DEF Codes
  <2> QED
    BY <1>2, <2>1 DEF OutputCheck
<1>3. CASE g = "PromptLeakageDetector"
  BY <1>3, PromptLeakageType DEF OutputCheck
<1>4. CASE g = "SecretLeakageDetector"
  <2>1. /\ SECRETS \subseteq PII \cup SECRETS /\ 95 \in 0 .. 100
        /\ "secret_leakage_detected" \in Codes
    BY DEF Codes
  <2>2. SecretLeakage(t) \subseteq FindingsOf(g)
    BY <1>4, <2>1, OneForType, Zenon DEF SecretLeakage
  <2> QED
    BY <1>4, <2>2 DEF OutputCheck
<1>5. CASE g = "OffTopicDetector"
  BY <1>5, OffTopicType DEF OutputCheck
<1>6. CASE g = "HallucinationGuard"
  <2>1. "hallucination_signal" \in Codes /\ "contradiction_signal" \in Codes
    BY DEF Codes
  <2>2. Hallucination(t) \subseteq FindingsOf(g)
    BY <1>0, <1>6, <2>1, OneIfType DEF Hallucination
  <2> QED
    BY <1>6, <2>2 DEF OutputCheck
<1> QED
  BY <1>1, <1>2, <1>3, <1>4, <1>5, <1>6 DEF OutputGuardrails

-----------------------------------------------------------------------------
(***************************************************************************)
(* The verdicts: what is found, and the result that reports it.            *)
(***************************************************************************)
Scored(V) == \A v \in V : v.score \in 0 .. 100

Rated(V) ==
    [passed |-> V = {}, violations |-> V,
     risk_score |-> Max({0} \cup {v.score : v \in V}), raised |-> FALSE]

FoundIn(p, cfg) == {InputCheck(g, p, cfg) : g \in cfg.enabled}

FoundOut(p, t, cfg, schema) ==
    {OutputCheck(g, p, t, cfg, schema) : g \in cfg.enabled}

(***************************************************************************)
(* The risk is a percentage, that of a finding unless there is none, and   *)
(* no finding scores higher.                                               *)
(***************************************************************************)
LEMMA RiskIsHighest ==
    ASSUME NEW V, Scored(V)
    PROVE  LET risk == Max({0} \cup {v.score : v \in V})
           IN  /\ risk \in 0 .. 100
               /\ risk \in {0} \cup {v.score : v \in V}
               /\ \A v \in V : v.score <= risk
<1> DEFINE S == {0} \cup {v.score : v \in V}
<1>1. S \in SUBSET (0 .. 100) /\ S # {}
  BY DEF Scored
<1>2. Max(S) \in S /\ \A y \in S : Max(S) >= y
  <2> HIDE DEF S
  <2> QED
    BY <1>1, MaxIsHighest
<1>3. Max(S) \in 0 .. 100
  BY <1>1, <1>2
<1>4. \A v \in V : v.score \in S /\ v.score \in 0 .. 100
  BY DEF Scored
<1>5. \A v \in V : v.score <= Max(S)
  <2> HIDE DEF S
  <2> SUFFICES ASSUME NEW v \in V PROVE v.score <= Max(S)
    OBVIOUS
  <2>1. Max(S) >= v.score
    BY <1>2, <1>4
  <2> QED
    BY <2>1
<1> QED
  BY <1>2, <1>3, <1>5, Zenon

(***************************************************************************)
(* When everything that is found fits, nothing raises.                     *)
(***************************************************************************)
LEMMA ResultIsRated ==
    ASSUME NEW V, Scored(V)
    PROVE  Result(V) = Rated(V)
BY DEF Result, Rated, Scored

(***************************************************************************)
(* What all enabled input guardrails find has scores that fit, and each    *)
(* finding has its guardrail.                                              *)
(***************************************************************************)
LEMMA FoundInType ==
    ASSUME NEW p \in Prompts, NEW cfg, InputConfig(cfg)
    PROVE  /\ \A W \in FoundIn(p, cfg) : Scored(W)
           /\ Scored(UNION FoundIn(p, cfg))
           /\ \A v \in UNION FoundIn(p, cfg) :
                 \E g \in cfg.enabled : v \in FindingsOf(g)
<1>1. \A g \in cfg.enabled : InputCheck(g, p, cfg) \subseteq FindingsOf(g)
  BY InputCheckType DEF InputConfig
<1>2. \A g : \A v \in FindingsOf(g) : v.score \in 0 .. 100
  BY DEF FindingsOf
<1> QED
  BY <1>1, <1>2, Zenon DEF FoundIn, Scored

(***************************************************************************)
(* Likewise for the output guardrails.                                     *)
(***************************************************************************)
LEMMA FoundOutType ==
    ASSUME NEW p \in Prompts, NEW t \in Texts, NEW cfg, OutputConfig(cfg),
           NEW schema
    PROVE  /\ \A W \in FoundOut(p, t, cfg, schema) : Scored(W)
           /\ Scored(UNION FoundOut(p, t, cfg, schema))
           /\ \A v \in UNION FoundOut(p, t, cfg, schema) :
                 \E g \in cfg.enabled : v \in FindingsOf(g)
<1>1. \A g \in cfg.enabled : OutputCheck(g, p, t, cfg, schema) \subseteq FindingsOf(g)
  BY OutputCheckType DEF OutputConfig
<1>2. \A g : \A v \in FindingsOf(g) : v.score \in 0 .. 100
  BY DEF FindingsOf
<1> QED
  BY <1>1, <1>2, Zenon DEF FoundOut, Scored

(***************************************************************************)
(* The input chain never raises: it reports all that is found.             *)
(***************************************************************************)
LEMMA InputVerdict ==
    ASSUME NEW p \in Prompts, NEW cfg, InputConfig(cfg)
    PROVE  ValidateInput(p, cfg) = Rated(UNION FoundIn(p, cfg))
<1> DEFINE check == [g \in InputGuardrails |-> InputCheck(g, p, cfg)]
<1>1. Findings(cfg.enabled, check) = UNION FoundIn(p, cfg)
  BY DEF Findings, FoundIn, InputConfig
<1>2. Scored(UNION FoundIn(p, cfg))
  BY FoundInType
<1> QED
  BY <1>1, <1>2, ResultIsRated DEF ValidateInput

(***************************************************************************)
(* The output chain raises when its JSON check does, and reports likewise  *)
(* when not.                                                               *)
(***************************************************************************)
LEMMA OutputVerdict ==
    ASSUME NEW p \in Prompts, NEW t \in Texts, NEW cfg, OutputConfig(cfg),
           NEW schema
    PROVE  ValidateOutput(p, t, cfg, schema) =
               IF /\ "JSONSchemaValidator" \in cfg.enabled
                  /\ JSONSchemaRaises(t, cfg.enforce_json, schema)
               THEN Raised
               ELSE Rated(UNION FoundOut(p, t, cfg, schema))
<1> DEFINE check == [g \in OutputGuardrails |-> OutputCheck(g, p, t, cfg, schema)]
<1>1. Findings(cfg.enabled, check) = UNION FoundOut(p, t, cfg, schema)
  BY DEF Findings, FoundOut, OutputConfig
<1>2. Scored(UNION FoundOut(p, t, cfg, schema))
  BY FoundOutType
<1>3. Result(Findings(cfg.enabled, check)) = Rated(UNION FoundOut(p, t, cfg, schema))
  BY <1>1, <1>2, ResultIsRated
<1> QED
  BY <1>3 DEF ValidateOutput

(***************************************************************************)
(* A result on several lists of findings is the results on each, put       *)
(* together.                                                               *)
(***************************************************************************)
LEMMA VerdictOfParts ==
    ASSUME NEW Q, \A W \in Q : Scored(W), Scored(UNION Q)
    PROVE  LET results == {Rated(W) : W \in Q}
               whole == Rated(UNION Q)
           IN  /\ whole.violations = UNION {r.violations : r \in results}
               /\ whole.passed = (\A r \in results : r.passed)
               /\ whole.risk_score = Max({0} \cup {r.risk_score : r \in results})
<1> DEFINE results == {Rated(W) : W \in Q}
           risk(V) == Max({0} \cup {v.score : v \in V})
           S == {0} \cup {risk(W) : W \in Q}
<1>0. \A W : Rated(W).risk_score = risk(W) /\ Rated(W).violations = W
  BY DEF Rated
<1>1. {r.risk_score : r \in results} = {risk(W) : W \in Q}
  <2> HIDE DEF risk
  <2> QED
    BY <1>0
<1>2. {r.violations : r \in results} = Q
  <2> HIDE DEF risk
  <2> QED
    BY <1>0
<1>3. \A W \in Q : Rated(W).passed = (W = {})
  BY DEF Rated
<1>4. (UNION Q = {}) = (\A W \in Q : W = {})
  OBVIOUS
<1>5. \A W \in Q : /\ risk(W) \in 0 .. 100
                   /\ risk(W) \in {0} \cup {v.score : v \in W}
                   /\ \A v \in W : v.score <= risk(W)
  BY RiskIsHighest, Zenon
<1>6. /\ risk(UNION Q) \in 0 .. 100
      /\ risk(UNION Q) \in {0} \cup {v.score : v \in UNION Q}
      /\ \A v \in UNION Q : v.score <= risk(UNION Q)
  BY RiskIsHighest, Zenon
<1>7. S \in SUBSET (0 .. 100) /\ S # {}
  <2> HIDE DEF risk
  <2> QED
    BY <1>5
<1>8. Max(S) \in S /\ (\A y \in S : Max(S) >= y)
  <2> HIDE DEF S
  <2> QED
    BY <1>7, MaxIsHighest
<1>9. risk(UNION Q) <= Max(S)
  <2>1. CASE risk(UNION Q) = 0
    BY <2>1, <1>8
  <2>2. CASE risk(UNION Q) # 0
    <3>1. PICK v \in UNION Q : risk(UNION Q) = v.score
      BY <1>6, <2>2
    <3>2. PICK W \in Q : v \in W
      OBVIOUS
    <3>3. v.score <= risk(W) /\ risk(W) \in S
      BY <1>5, <3>2
    <3> HIDE DEF risk, S
    <3>4. Max(S) >= risk(W)
      BY <1>8, <3>3
    <3>5. Max(S) \in 0 .. 100 /\ risk(W) \in 0 .. 100
      BY <1>5, <1>7, <1>8
    <3> QED
      BY <3>1, <3>3, <3>4, <3>5, <1>6
  <2> QED
    BY <2>1, <2>2
<1>10. Max(S) <= risk(UNION Q)
  <2>1. CASE Max(S) = 0
    BY <2>1, <1>6
  <2>2. CASE Max(S) # 0
    <3>1. PICK W \in Q : Max(S) = risk(W)
      BY <1>8, <2>2
    <3>2. PICK v \in W : risk(W) = v.score
      BY <1>5, <2>2, <3>1
    <3>3. v \in UNION Q
      BY <3>1, <3>2
    <3> QED
      BY <1>6, <3>1, <3>2, <3>3
  <2> QED
    BY <2>1, <2>2
<1>11. risk(UNION Q) = Max(S)
  <2>1. Max(S) \in 0 .. 100
    <3> HIDE DEF S
    <3> QED
      BY <1>7, <1>8
  <2>2. \A a, b \in 0 .. 100 : a <= b /\ b <= a => a = b
    OBVIOUS
  <2> QED
    BY <1>6, <1>9, <1>10, <2>1, <2>2, Zenon
<1>12. Rated(UNION Q).violations = UNION {r.violations : r \in results}
  BY <1>2 DEF Rated
<1>13. Rated(UNION Q).passed = (\A r \in results : r.passed)
  <2>1. (\A r \in results : r.passed) <=> (\A W \in Q : Rated(W).passed)
    BY Zenon
  <2>2. (\A W \in Q : Rated(W).passed) <=> UNION Q = {}
    BY <1>3, <1>4, Zenon
  <2>3. Rated(UNION Q).passed = (UNION Q = {})
    BY DEF Rated
  <2> HIDE DEF results
  <2> QED
    BY <2>1, <2>2, <2>3
<1>14. Rated(UNION Q).risk_score = Max({0} \cup {r.risk_score : r \in results})
  BY <1>1, <1>11 DEF Rated
<1> QED
  BY <1>12, <1>13, <1>14, Zenon

-----------------------------------------------------------------------------
(***************************************************************************)
(* Strictness.  W covers V when every rule broken in V is broken in W, at  *)
(* a score no lower.                                                       *)
(***************************************************************************)
Covers(W, V) ==
    \A v \in V : \E w \in W :
        /\ w.guardrail = v.guardrail /\ w.code = v.code /\ w.detail = v.detail
        /\ v.score <= w.score

(***************************************************************************)
(* More findings cover fewer.                                              *)
(***************************************************************************)
LEMMA SupersetCovers ==
    ASSUME NEW W, NEW V, V \subseteq W, Scored(V)
    PROVE  Covers(W, V)
<1>1. \A n \in 0 .. 100 : n <= n
  OBVIOUS
<1> QED
  BY <1>1, Zenon DEF Covers, Scored

(***************************************************************************)
(* A finding made whenever the other is, at a score no lower, covers it.   *)
(***************************************************************************)
LEMMA OneIfCovers ==
    ASSUME NEW strict, NEW lax, NEW g, NEW code, NEW high, NEW low,
           lax => strict /\ low <= high
    PROVE  Covers(OneIf(strict, Finding(g, code, None, high)),
                  OneIf(lax, Finding(g, code, None, low)))
<1>1. \A score : LET finding == Finding(g, code, None, score)
                 IN  /\ finding.guardrail = g /\ finding.code = code
                     /\ finding.detail = None /\ finding.score = score
  BY DEF Finding
<1>2. CASE lax
  <2>1. OneIf(strict, Finding(g, code, None, high)) = {Finding(g, code, None, high)}
    BY <1>2, Zenon DEF OneIf
  <2>2. OneIf(lax, Finding(g, code, None, low)) = {Finding(g, code, None, low)}
    BY <1>2, Zenon DEF OneIf
  <2> QED
    BY <1>1, <1>2, <2>1, <2>2, Zenon DEF Covers
<1>3. CASE ~lax
  <2>1. OneIf(lax, Finding(g, code, None, low)) = {}
    BY <1>3, Zenon DEF OneIf
  <2> QED
    BY <2>1, Zenon DEF Covers
<1> QED
  BY <1>2, <1>3

(***************************************************************************)
(* Capping keeps the order of scores.                                      *)
(***************************************************************************)
LEMMA CappedGrows ==
    ASSUME NEW m \in Int, NEW n \in Int, m <= n
    PROVE  Min({100, m}) <= Min({100, n})
BY MinOfTwo

(***************************************************************************)
(* Under a smaller limit a prompt that was too long still is, and scores   *)
(* no lower.                                                               *)
(***************************************************************************)
LEMMA SmallerLimitCovers ==
    ASSUME NEW p \in Prompts, NEW limit \in Nat \ {0}, NEW smaller \in Nat \ {0},
           smaller <= limit
    PROVE  Covers(TokenLength(p, smaller), TokenLength(p, limit))
<1> DEFINE estimated == EstimateTokens(p.length)
           score(m) == Min({100, (100 * estimated) \div m - 50})
<1>1. estimated \in Nat
  BY PromptType, EstimateType
<1>2. score(limit) <= score(smaller)
  <2> HIDE DEF estimated
  <2>1. 100 * estimated \in Nat
    BY <1>1
  <2>2. /\ (100 * estimated) \div limit \in Nat
        /\ (100 * estimated) \div smaller \in Nat
        /\ (100 * estimated) \div limit <= (100 * estimated) \div smaller
    BY <2>1, Division, DivisionAntitone
  <2>3. /\ (100 * estimated) \div limit - 50 \in Int
        /\ (100 * estimated) \div smaller - 50 \in Int
        /\ (100 * estimated) \div limit - 50 <= (100 * estimated) \div smaller - 50
    BY <2>2
  <2> QED
    BY <2>3, CappedGrows, Zenon
<1>3. estimated > limit => estimated > smaller
  <2> HIDE DEF estimated
  <2> QED
    BY <1>1
<1> HIDE DEF score
<1>4. Covers(OneIf(estimated > smaller,
                   Finding("TokenLengthValidator", "token_limit_exceeded", None, score(smaller))),
             OneIf(estimated > limit,
                   Finding("TokenLengthValidator", "token_limit_exceeded", None, score(limit))))
  BY <1>2, <1>3, OneIfCovers, Zenon
<1> QED
  BY <1>4, Zenon DEF TokenLength, score

(***************************************************************************)
(* A lower threshold lets no score through that a higher one stops.        *)
(***************************************************************************)
LEMMA LowerThresholdCovers ==
    ASSUME NEW matches \in Nat, NEW high \in 0 .. 100, NEW low \in 0 .. 100,
           low <= high, NEW g, NEW code
    PROVE  Covers(Toxicity(matches, low, g, code), Toxicity(matches, high, g, code))
<1> DEFINE score == MatchScore(40, 15, matches)
<1>1. score \in 0 .. 100
  <2>1. 40 \in 0 .. 100 /\ 15 \in Nat
    OBVIOUS
  <2> QED
    BY <2>1, MatchScoreFits, Zenon
<1> HIDE DEF score
<1>2. matches > 0 /\ score >= high => (matches > 0 /\ score >= low) /\ score <= score
  BY <1>1
<1>3. Covers(OneIf(matches > 0 /\ score >= low, Finding(g, code, None, score)),
             OneIf(matches > 0 /\ score >= high, Finding(g, code, None, score)))
  BY <1>2, OneIfCovers, Zenon
<1> QED
  BY <1>3 DEF Toxicity, score

(***************************************************************************)
(* More entity types to look for, fewer languages to allow.                *)
(***************************************************************************)
LEMMA StricterInputCheck ==
    ASSUME NEW p \in Prompts, NEW a, NEW b, InputConfig(a), InputConfig(b),
           Stricter(a, b, "input"), NEW g \in InputGuardrails
    PROVE  Covers(InputCheck(g, p, b), InputCheck(g, p, a))
<1>1. /\ b.toxicity <= a.toxicity /\ a.entities \subseteq b.entities
      /\ b.max_tokens <= a.max_tokens /\ b.allowed \subseteq a.allowed
  BY DEF Stricter
<1>2. Scored(InputCheck(g, p, a))
  BY InputCheckType DEF Scored, FindingsOf
<1>3. CASE g \in {"PromptInjectionDetector", "JailbreakDetector", "SecretDetector"}
  <2>1. InputCheck(g, p, a) = InputCheck(g, p, b)
    BY <1>3 DEF InputCheck
  <2> QED
    BY <1>2, <2>1, SupersetCovers
<1>4. CASE g = "PIIDetector"
  <2>1. PIIDetector(p, a.entities) \subseteq PIIDetector(p, b.entities)
    BY <1>1 DEF PIIDetector, OneFor
  <2>2. InputCheck(g, p, a) \subseteq InputCheck(g, p, b)
    BY <1>4, <2>1 DEF InputCheck
  <2> QED
    BY <1>2, <2>2, SupersetCovers
<1>5. CASE g = "TokenLengthValidator"
  <2>1. Covers(TokenLength(p, b.max_tokens), TokenLength(p, a.max_tokens))
    BY <1>1, SmallerLimitCovers DEF InputConfig
  <2> QED
    BY <1>5, <2>1 DEF InputCheck
<1>6. CASE g = "LanguageValidator"
  <2>1. Language(p, a.allowed) \subseteq Language(p, b.allowed)
    BY <1>1 DEF Language, OneIf
  <2>2. InputCheck(g, p, a) \subseteq InputCheck(g, p, b)
    BY <1>6, <2>1 DEF InputCheck
  <2> QED
    BY <1>2, <2>2, SupersetCovers
<1>7. CASE g = "ToxicityDetector"
  <2>1. p.toxic \in Nat /\ a.toxicity \in 0 .. 100 /\ b.toxicity \in 0 .. 100
    BY PromptType DEF InputConfig
  <2>2. Covers(Toxicity(p.toxic, b.toxicity, g, "toxic_content_detected"),
               Toxicity(p.toxic, a.toxicity, g, "toxic_content_detected"))
    BY <1>1, <2>1, LowerThresholdCovers, Zenon
  <2> QED
    BY <1>7, <2>2 DEF InputCheck
<1> QED
  BY <1>3, <1>4, <1>5, <1>6, <1>7 DEF InputGuardrails

(***************************************************************************)
(* Under stricter settings an output guardrail finds as much or more.      *)
(***************************************************************************)
LEMMA StricterOutputCheck ==
    ASSUME NEW p \in Prompts, NEW t \in Texts, NEW a, NEW b, OutputConfig(a),
           OutputConfig(b), NEW schema, Stricter(a, b, "output"),
           NEW g \in OutputGuardrails
    PROVE  Covers(OutputCheck(g, p, t, b, schema), OutputCheck(g, p, t, a, schema))
<1>1. /\ b.toxicity <= a.toxicity
      /\ a.enforce_json => b.enforce_json
  BY DEF Stricter
<1>2. Scored(OutputCheck(g, p, t, a, schema))
  BY OutputCheckType DEF Scored, FindingsOf
<1>3. CASE g \notin {"JSONSchemaValidator", "OutputToxicityDetector"}
  <2>1. OutputCheck(g, p, t, a, schema) = OutputCheck(g, p, t, b, schema)
    BY <1>3 DEF OutputCheck, OutputGuardrails
  <2> QED
    BY <1>2, <2>1, SupersetCovers
<1>4. CASE g = "JSONSchemaValidator"
  <2>1. JSONSchema(t, a.enforce_json, schema) \subseteq JSONSchema(t, b.enforce_json, schema)
    BY <1>1 DEF JSONSchema, JSONAsked, OneIf
  <2>2. OutputCheck(g, p, t, a, schema) \subseteq OutputCheck(g, p, t, b, schema)
    BY <1>4, <2>1 DEF OutputCheck
  <2> QED
    BY <1>2, <2>2, SupersetCovers
<1>5. CASE g = "OutputToxicityDetector"
  <2>1. t.toxic \in Nat /\ a.toxicity \in 0 .. 100 /\ b.toxicity \in 0 .. 100
    BY TextType DEF OutputConfig
  <2>2. Covers(Toxicity(t.toxic, b.toxicity, g, "toxic_output_detected"),
               Toxicity(t.toxic, a.toxicity, g, "toxic_output_detected"))
    BY <1>1, <2>1, LowerThresholdCovers, Zenon
  <2> QED
    BY <1>5, <2>2 DEF OutputCheck
<1> QED
  BY <1>3, <1>4, <1>5

(***************************************************************************)
(* Results of which one covers the other.                                  *)
(***************************************************************************)
LEMMA CoveringResults ==
    ASSUME NEW V, NEW W, Scored(V), Scored(W), Covers(W, V)
    PROVE  /\ Rules(Rated(V)) \subseteq Rules(Rated(W))
           /\ Rated(V).risk_score <= Rated(W).risk_score
           /\ Rated(W).passed => Rated(V).passed
<1> DEFINE risk(U) == Max({0} \cup {v.score : v \in U})
<1>1. Rules(Rated(V)) \subseteq Rules(Rated(W))
  BY DEF Rules, Rated, Covers
<1>2. /\ risk(V) \in 0 .. 100 /\ risk(W) \in 0 .. 100
      /\ risk(V) \in {0} \cup {v.score : v \in V}
      /\ \A w \in W : w.score <= risk(W)
  BY RiskIsHighest, Zenon
<1>3. risk(V) <= risk(W)
  <2> HIDE DEF risk
  <2>1. CASE risk(V) = 0
    BY <1>2, <2>1
  <2>2. CASE risk(V) # 0
    <3>1. PICK v \in V : risk(V) = v.score
      BY <1>2, <2>2
    <3>2. PICK w \in W : v.score <= w.score
      BY DEF Covers
    <3>3. w.score \in 0 .. 100 /\ v.score \in 0 .. 100 /\ w.score <= risk(W)
      BY <1>2 DEF Scored
    <3> QED
      BY <1>2, <3>1, <3>2, <3>3, SMTT(30)
  <2> QED
    BY <2>1, <2>2
<1>4. W = {} => V = {}
  BY DEF Covers
<1> QED
  BY <1>1, <1>3, <1>4 DEF Rated

-----------------------------------------------------------------------------
(***************************************************************************)
(* The models of a policy document.  A mapping that is filled up keeps     *)
(* what is written in it.                                                  *)
(***************************************************************************)
LEMMA FilledKeeps ==
    ASSUME NEW mapping, NEW others, NEW k, k \in DOMAIN mapping \cup DOMAIN others
    PROVE  /\ k \in DOMAIN Model!Filled(mapping, others)
           /\ Model!Filled(mapping, others)[k] =
                 IF k \in DOMAIN mapping THEN mapping[k] ELSE others[k]
BY DEF Model!Filled, Model!Has

(***************************************************************************)
(* The empty document has no keys.                                         *)
(***************************************************************************)
LEMMA EmptyHasNothing == DOMAIN Model!Empty = {}
BY DEF Model!Empty

(***************************************************************************)
(* Each key of a guardrail's block is the written one, or else that        *)
(* guardrail's default.                                                    *)
(***************************************************************************)
LEMMA CompletedKeeps ==
    ASSUME NEW defaults, NEW section, Model!ValidGuardrails(defaults, section),
           NEW g \in DOMAIN defaults, NEW k \in DOMAIN defaults[g]
    PROVE  LET got == Model!Get(section, g)
               entry == IF got = None THEN Model!Empty ELSE got
               config == Model!Completed(defaults, section)[g]
           IN  /\ k \in DOMAIN config
               /\ config[k] = IF Model!Has(entry, k) THEN entry[k] ELSE defaults[g][k]
<1>1. CASE Model!Has(section, g)
  <2>1. section[g] # None /\ Model!Get(section, g) = section[g]
    BY <1>1 DEF Model!ValidGuardrails, Model!Has, Model!Get
  <2>2. Model!Completed(defaults, section)[g] = Model!Filled(section[g], defaults[g])
    BY <1>1 DEF Model!Completed
  <2> QED
    BY <2>1, <2>2, FilledKeeps DEF Model!Has
<1>2. CASE ~Model!Has(section, g)
  <2>1. Model!Get(section, g) = None
    BY <1>2 DEF Model!Get
  <2>2. Model!Completed(defaults, section)[g] = defaults[g]
    BY <1>2 DEF Model!Completed
  <2> QED
    BY <2>1, <2>2, EmptyHasNothing DEF Model!Has
<1> QED
  BY <1>1, <1>2

(***************************************************************************)
(* A section that validates has usable numbers, written or by default.     *)
(***************************************************************************)
LEMMA CompletedIsValid ==
    ASSUME NEW defaults, NEW section, Model!ValidGuardrails(defaults, section),
           NEW g \in DOMAIN defaults
    PROVE  LET config == Model!Completed(defaults, section)[g]
           IN  /\ "threshold" \in DOMAIN defaults[g] => config.threshold \in 0 .. 100
               /\ "max_tokens" \in DOMAIN defaults[g] => config.max_tokens \in Nat \ {0}
<1> DEFINE config == Model!Completed(defaults, section)[g]
<1>1. /\ "threshold" \in DOMAIN config => config.threshold \in 0 .. 100
      /\ "max_tokens" \in DOMAIN config => config.max_tokens \in Nat \ {0}
  BY DEF Model!ValidGuardrails, Model!Has
<1>2. \A k \in DOMAIN defaults[g] : k \in DOMAIN config
  BY CompletedKeeps
<1> QED
  BY <1>1, <1>2

(***************************************************************************)
(* The keys that the guardrails read are there.                            *)
(***************************************************************************)
HasKeys(policy) ==
    LET ig == policy.input_guardrails
        og == policy.output_guardrails
    IN  /\ "entities" \in DOMAIN ig.pii /\ "max_tokens" \in DOMAIN ig.token_length
        /\ "allowed" \in DOMAIN ig.language /\ "threshold" \in DOMAIN ig.toxicity
        /\ "threshold" \in DOMAIN og.toxicity
        /\ "enforce_json" \in DOMAIN og.json_schema

(***************************************************************************)
(* Written or by default, a policy that is loaded has them.                *)
(***************************************************************************)
LEMMA PolicyHasKeys ==
    ASSUME NEW doc, Model!Validates(doc)
    PROVE  HasKeys(Model!PolicyOf(doc))
<1> DEFINE policy == Model!PolicyOf(doc)
           input == Model!InputGuardrailsConfig
           output == Model!OutputGuardrailsConfig
<1>1. /\ policy.input_guardrails
             = Model!Completed(input, Model!Block(doc, "input_guardrails"))
      /\ policy.output_guardrails
             = Model!Completed(output, Model!Block(doc, "output_guardrails"))
      /\ Model!ValidGuardrails(input, Model!Block(doc, "input_guardrails"))
      /\ Model!ValidGuardrails(output, Model!Block(doc, "output_guardrails"))
  BY DEF Model!PolicyOf, Model!Validates
<1>2. /\ {"pii", "token_length", "language", "toxicity"} \subseteq DOMAIN input
      /\ {"toxicity", "json_schema"} \subseteq DOMAIN output
  BY DEF Model!InputGuardrailsConfig, Model!OutputGuardrailsConfig
<1>3. /\ "entities" \in DOMAIN input["pii"]
      /\ "max_tokens" \in DOMAIN input["token_length"]
      /\ "allowed" \in DOMAIN input["language"]
      /\ "threshold" \in DOMAIN input["toxicity"]
      /\ "threshold" \in DOMAIN output["toxicity"]
      /\ "enforce_json" \in DOMAIN output["json_schema"]
  BY DEF Model!InputGuardrailsConfig, Model!OutputGuardrailsConfig, Model!Filled
<1> HIDE DEF policy, input, output
<1>4. /\ \A g \in DOMAIN input : \A k \in DOMAIN input[g] :
             k \in DOMAIN policy.input_guardrails[g]
      /\ \A g \in DOMAIN output : \A k \in DOMAIN output[g] :
             k \in DOMAIN policy.output_guardrails[g]
  BY <1>1, CompletedKeeps
<1>5. HasKeys(policy)
  BY <1>2, <1>3, <1>4 DEF HasKeys
<1> QED
  BY <1>5 DEF policy

(***************************************************************************)
(* Read through the service's table, each input guardrail has the settings *)
(* of its own section, and runs exactly when the listing names it.         *)
(***************************************************************************)
LEMMA InputTable ==
    ASSUME NEW policy, HasKeys(policy)
    PROVE  LET cfg == InputSettings(policy)
               said == InputSaid(policy)
           IN  /\ cfg = [enabled |-> cfg.enabled, entities |-> said.entities,
                         max_tokens |-> said.max_tokens, allowed |-> said.allowed,
                         toxicity |-> said.toxicity]
               /\ cfg.enabled \subseteq InputGuardrails
               /\ \A name \in DOMAIN InputNamed :
                     /\ InputNamed[name] \in InputGuardrails
                     /\ InputNamed[name] \in cfg.enabled
                           <=> name \in EnabledInputGuardrails(policy)
<1> DEFINE ig == policy.input_guardrails
           table == INPUT_GUARDRAIL_CONFIG_KEY
           cfg == InputSettings(policy)
<1>1. /\ ReadKey(ig[table["PIIDetector"]], "entities", InputDefaults.entities)
             = ig.pii.entities
      /\ ReadKey(ig[table["TokenLengthValidator"]], "max_tokens",
                 InputDefaults.max_tokens) = ig.token_length.max_tokens
      /\ ReadKey(ig[table["LanguageValidator"]], "allowed", InputDefaults.allowed)
             = ig.language.allowed
      /\ ReadKey(ig[table["ToxicityDetector"]], "threshold", InputDefaults.toxicity)
             = ig.toxicity.threshold
  BY DEF HasKeys, ReadKey, Model!Has, INPUT_GUARDRAIL_CONFIG_KEY
<1>2. cfg.enabled = Active(InputGuardrails, table, ig)
  BY DEF InputSettings
<1>3. cfg = [enabled |-> cfg.enabled, entities |-> ig.pii.entities,
             max_tokens |-> ig.token_length.max_tokens,
             allowed |-> ig.language.allowed, toxicity |-> ig.toxicity.threshold]
  BY <1>1, <1>2, Zenon DEF InputSettings
<1>4. DOMAIN table = InputGuardrails
  BY DEF INPUT_GUARDRAIL_CONFIG_KEY, InputGuardrails
<1>5. \A name \in DOMAIN InputNamed :
         /\ InputNamed[name] \in InputGuardrails /\ table[InputNamed[name]] = name
         /\ name \in EnabledInputGuardrails(policy) <=> ig[name].enabled
  BY DEF InputNamed, InputGuardrails, INPUT_GUARDRAIL_CONFIG_KEY,
         EnabledInputGuardrails
<1> HIDE DEF table, cfg
<1>6. \A name \in DOMAIN InputNamed :
         InputNamed[name] \in cfg.enabled <=> name \in EnabledInputGuardrails(policy)
  BY <1>2, <1>4, <1>5 DEF Active
<1> QED
  BY <1>2, <1>3, <1>5, <1>6 DEF Active, InputSaid, cfg

(***************************************************************************)
(* Likewise the output guardrails, by the table of their service.          *)
(***************************************************************************)
LEMMA OutputTable ==
    ASSUME NEW policy, HasKeys(policy)
    PROVE  LET cfg == OutputSettings(policy)
               said == OutputSaid(policy)
           IN  /\ cfg = [enabled |-> cfg.enabled, toxicity |-> said.toxicity,
                         enforce_json |-> said.enforce_json]
               /\ cfg.enabled \subseteq OutputGuardrails
               /\ \A name \in DOMAIN OutputNamed :
                     /\ OutputNamed[name] \in OutputGuardrails
                     /\ OutputNamed[name] \in cfg.enabled
                           <=> name \in EnabledOutputGuardrails(policy)
<1> DEFINE og == policy.output_guardrails
           table == OUTPUT_GUARDRAIL_CONFIG_KEY
           cfg == OutputSettings(policy)
<1>1. /\ ReadKey(og[table["OutputToxicityDetector"]], "threshold",
                 OutputDefaults.toxicity) = og.toxicity.threshold
      /\ ReadKey(og[table["JSONSchemaValidator"]], "enforce_json",
                 OutputDefaults.enforce_json) = og.json_schema.enforce_json
  BY DEF HasKeys, ReadKey, Model!Has, OUTPUT_GUARDRAIL_CONFIG_KEY
<1>2. cfg.enabled = Active(OutputGuardrails, table, og)
  BY DEF OutputSettings
<1>3. cfg = [enabled |-> cfg.enabled, toxicity |-> og.toxicity.threshold,
             enforce_json |-> og.json_schema.enforce_json]
  BY <1>1, <1>2, Zenon DEF OutputSettings
<1>4. DOMAIN table = OutputGuardrails
  BY DEF OUTPUT_GUARDRAIL_CONFIG_KEY, OutputGuardrails
<1>5. \A name \in DOMAIN OutputNamed :
         /\ OutputNamed[name] \in OutputGuardrails /\ table[OutputNamed[name]] = name
         /\ name \in EnabledOutputGuardrails(policy) <=> og[name].enabled
  BY DEF OutputNamed, OutputGuardrails, OUTPUT_GUARDRAIL_CONFIG_KEY,
         EnabledOutputGuardrails
<1> HIDE DEF table, cfg
<1>6. \A name \in DOMAIN OutputNamed :
         OutputNamed[name] \in cfg.enabled <=> name \in EnabledOutputGuardrails(policy)
  BY <1>2, <1>4, <1>5 DEF Active
<1> QED
  BY <1>2, <1>3, <1>5, <1>6 DEF Active, OutputSaid, cfg

(***************************************************************************)
(* So a loaded policy gives the chains settings they can run under.        *)
(***************************************************************************)
LEMMA SettingsAreSane ==
    ASSUME NEW doc, Model!Validates(doc)
    PROVE  /\ InputConfig(InputSettings(Model!PolicyOf(doc)))
           /\ OutputConfig(OutputSettings(Model!PolicyOf(doc)))
<1> DEFINE policy == Model!PolicyOf(doc)
           ig == Model!Completed(Model!InputGuardrailsConfig,
                                 Model!Block(doc, "input_guardrails"))
           og == Model!Completed(Model!OutputGuardrailsConfig,
                                 Model!Block(doc, "output_guardrails"))
<1>1. /\ policy.input_guardrails = ig /\ policy.output_guardrails = og
      /\ HasKeys(policy)
  BY PolicyHasKeys DEF Model!PolicyOf
<1>2. /\ {"token_length", "toxicity"} \subseteq DOMAIN Model!InputGuardrailsConfig
      /\ "toxicity" \in DOMAIN Model!OutputGuardrailsConfig
  BY DEF Model!InputGuardrailsConfig, Model!OutputGuardrailsConfig
<1>3. /\ "max_tokens" \in DOMAIN Model!InputGuardrailsConfig["token_length"]
      /\ "threshold" \in DOMAIN Model!InputGuardrailsConfig["toxicity"]
      /\ "threshold" \in DOMAIN Model!OutputGuardrailsConfig["toxicity"]
  BY DEF Model!InputGuardrailsConfig, Model!OutputGuardrailsConfig, Model!Filled
<1>4. /\ ig["token_length"].max_tokens \in Nat \ {0}
      /\ ig["toxicity"].threshold \in 0 .. 100
  BY <1>2, <1>3, CompletedIsValid DEF Model!Validates
<1>5. og["toxicity"].threshold \in 0 .. 100
  BY <1>2, <1>3, CompletedIsValid DEF Model!Validates
<1> HIDE DEF ig, og, policy
<1>6. InputConfig(InputSettings(policy))
  BY <1>1, <1>4, InputTable DEF InputConfig, InputSaid
<1>7. OutputConfig(OutputSettings(policy))
  BY <1>1, <1>5, OutputTable DEF OutputConfig, OutputSaid
<1> QED
  BY <1>6, <1>7 DEF policy

(***************************************************************************)
(* An endpoint's keys are the written ones, or else the defaults.          *)
(***************************************************************************)
LEMMA EndpointKeeps ==
    ASSUME NEW m, NEW k \in Model!EndpointKeys
    PROVE  /\ Model!Endpoint(m)[k] =
                 IF Model!Has(m, k) THEN m[k] ELSE Model!EndpointDefaults[k]
           /\ k \in DOMAIN Model!EndpointDefaults
<1>1. k \in DOMAIN Model!EndpointDefaults
  BY DEF Model!EndpointDefaults, Model!EndpointKeys
<1>2. /\ k \in DOMAIN Model!Only(m, Model!EndpointKeys) <=> Model!Has(m, k)
      /\ Model!Has(m, k) => Model!Only(m, Model!EndpointKeys)[k] = m[k]
  BY DEF Model!Only, Model!Has
<1> QED
  BY <1>1, <1>2, FilledKeeps DEF Model!Endpoint

(***************************************************************************)
(* Whatever its form, a block's primary entry holds what is written in     *)
(* it, and then what the block itself says; its fallbacks stay as they     *)
(* are.                                                                    *)
(***************************************************************************)
Primary(block) ==
    IF Model!Get(block, "primary") = None THEN Model!Empty
    ELSE Model!Get(block, "primary")

(***************************************************************************)
(* What the shape of a provider block keeps: a key of the primary endpoint *)
(* is the one written in the nested block, or else beside it.              *)
(***************************************************************************)
LEMMA ShapeKeeps ==
    ASSUME NEW block
    PROVE  LET shape == Model!Shape(block)
           IN  /\ \A k \in Model!EndpointKeys :
                     /\ Model!Has(shape.primary, k)
                           <=> Model!Has(Primary(block), k) \/ Model!Has(block, k)
                     /\ Model!Has(shape.primary, k) =>
                           shape.primary[k] = IF Model!Has(Primary(block), k)
                                              THEN Primary(block)[k] ELSE block[k]
               /\ shape.fallbacks = IF Model!Get(block, "fallbacks") = None THEN <<>>
                                    ELSE Model!Get(block, "fallbacks")
<1> DEFINE shape == Model!Shape(block)
           flat == Model!Only(block, Model!EndpointKeys)
           nested == Model!Has(block, "primary") \/ Model!Has(block, "fallbacks")
           normal == Model!NormalizeProviderShape(block)
<1>1. /\ "primary" \in DOMAIN Model!ProviderDefaults
      /\ "fallbacks" \in DOMAIN Model!ProviderDefaults
      /\ Model!ProviderDefaults["primary"] = Model!Empty
      /\ Model!ProviderDefaults["fallbacks"] = <<>>
  BY DEF Model!ProviderDefaults
<1>2. /\ shape.primary = IF "primary" \in DOMAIN normal THEN normal["primary"]
                         ELSE Model!Empty
      /\ shape.fallbacks = IF "fallbacks" \in DOMAIN normal THEN normal["fallbacks"]
                           ELSE <<>>
  BY <1>1, FilledKeeps DEF Model!Shape
<1>3. \A k \in Model!EndpointKeys :
         /\ k \in DOMAIN flat <=> Model!Has(block, k)
         /\ Model!Has(block, k) => flat[k] = block[k]
  BY DEF Model!Only, Model!Has
<1>4. CASE nested
  <2> DEFINE primary == Primary(block)
  <2>1. normal = [primary |-> Model!Filled(primary, flat),
                  fallbacks |-> IF Model!Get(block, "fallbacks") = None THEN <<>>
                                ELSE block.fallbacks]
    BY <1>4 DEF Model!NormalizeProviderShape, Primary, Model!Get
  <2>2. shape.primary = Model!Filled(primary, flat)
    BY <1>2, <2>1
  <2>3. shape.fallbacks = IF Model!Get(block, "fallbacks") = None THEN <<>>
                          ELSE Model!Get(block, "fallbacks")
    BY <1>2, <2>1 DEF Model!Get
  <2>4. \A k \in Model!EndpointKeys :
           /\ k \in DOMAIN Model!Filled(primary, flat)
                 <=> k \in DOMAIN primary \/ k \in DOMAIN flat
           /\ k \in DOMAIN Model!Filled(primary, flat) =>
                 Model!Filled(primary, flat)[k] = IF k \in DOMAIN primary
                                                  THEN primary[k] ELSE flat[k]
    BY DEF Model!Filled, Model!Has
  <2> QED
    BY <1>3, <2>2, <2>3, <2>4 DEF Model!Has
<1>5. CASE ~nested /\ flat # Model!Empty
  <2>1. normal = [primary |-> flat]
    BY <1>5 DEF Model!NormalizeProviderShape
  <2>2. shape.primary = flat /\ shape.fallbacks = <<>>
    BY <1>2, <2>1
  <2>3. Primary(block) = Model!Empty /\ Model!Get(block, "fallbacks") = None
    BY <1>5 DEF Primary, Model!Get
  <2> QED
    BY <1>3, <2>2, <2>3, EmptyHasNothing DEF Model!Has
<1>6. CASE ~nested /\ flat = Model!Empty
  <2>1. normal = block
    BY <1>6 DEF Model!NormalizeProviderShape
  <2>2. shape.primary = Model!Empty /\ shape.fallbacks = <<>>
    BY <1>2, <1>6, <2>1 DEF Model!Has
  <2>3. Primary(block) = Model!Empty /\ Model!Get(block, "fallbacks") = None
    BY <1>6 DEF Primary, Model!Get
  <2>4. \A k \in Model!EndpointKeys : ~Model!Has(block, k)
    BY <1>3, <1>6, EmptyHasNothing
  <2> QED
    BY <2>2, <2>3, <2>4, EmptyHasNothing DEF Model!Has
<1> QED
  BY <1>4, <1>5, <1>6

(***************************************************************************)
(* So a policy made of a document says what the document says.             *)
(***************************************************************************)
LEMMA PrimaryAsWritten ==
    ASSUME NEW block, NEW k \in Model!EndpointKeys
    PROVE  Model!ProviderConfig(block).primary[k] =
               IF Model!Has(Primary(block), k) THEN Primary(block)[k]
               ELSE IF Model!Has(block, k) THEN block[k]
               ELSE Model!EndpointDefaults[k]
<1>1. Model!ProviderConfig(block).primary = Model!Endpoint(Model!Shape(block).primary)
  BY DEF Model!ProviderConfig
<1> QED
  BY <1>1, EndpointKeeps, ShapeKeeps

(***************************************************************************)
(* Each fallback is as written, completed by the defaults, and none is     *)
(* lost.                                                                   *)
(***************************************************************************)
LEMMA FallbacksAsWritten ==
    ASSUME NEW block, NEW list,
           list = Model!Get(block, "fallbacks"),
           list = None \/ list \in Seq(Range(list))
    PROVE  LET made == Model!ProviderConfig(block).fallbacks
           IN  /\ Len(made) = IF list = None THEN 0 ELSE Len(list)
               /\ \A n \in 1 .. Len(made), k \in Model!EndpointKeys :
                     made[n][k] = IF Model!Has(list[n], k) THEN list[n][k]
                                  ELSE Model!EndpointDefaults[k]
<1> DEFINE given == IF list = None THEN <<>> ELSE list
           made == [n \in DOMAIN given |-> Model!Endpoint(given[n])]
<1>1. Model!Shape(block).fallbacks = given
  BY ShapeKeeps
<1>2. Model!ProviderConfig(block).fallbacks = made
  BY <1>1 DEF Model!ProviderConfig
<1>3. Len(given) \in Nat /\ DOMAIN given = 1 .. Len(given)
  OBVIOUS
<1>4. made \in Seq({Model!Endpoint(given[n]) : n \in DOMAIN given})
  <2> HIDE DEF given
  <2> QED
    BY <1>3
<1>5. Len(made) = Len(given) /\ DOMAIN made = DOMAIN given
  <2> HIDE DEF given
  <2> QED
    BY <1>3, <1>4
<1>6. \A n \in 1 .. Len(made), k \in Model!EndpointKeys :
         made[n][k] = IF Model!Has(given[n], k) THEN given[n][k]
                      ELSE Model!EndpointDefaults[k]
  <2> HIDE DEF given
  <2> QED
    BY <1>3, <1>5, EndpointKeeps
<1>7. CASE list = None
  BY <1>2, <1>5, <1>7
<1>8. CASE list # None
  <2>1. given = list
    BY <1>8
  <2> HIDE DEF given, made
  <2> QED
    BY <1>2, <1>5, <1>6, <1>8, <2>1
<1> QED
  BY <1>7, <1>8

-----------------------------------------------------------------------------
(***************************************************************************)
(* The invariant.  A policy is what was made of the document kept beside   *)
(* it; the latest listing is that of the documents it was taken of; and    *)
(* the latest verdict is that of the texts and settings recorded with it.  *)
(***************************************************************************)
Made(w) == IF w = None THEN None ELSE Model!PolicyOf(w)

Publications ==
    /\ DOMAIN policies = PolicyIds /\ DOMAIN written = PolicyIds
    /\ \A i \in PolicyIds :
          /\ policies[i] = Made(written[i])
          /\ written[i] # None =>
                /\ written[i] \in Documents /\ written[i].id = i
                /\ Model!Validates(written[i])

Listing(documents) ==
    {Summary(Made(documents[i])) : i \in {j \in PolicyIds : Made(documents[j]) # None}}

InputCall(call) ==
    /\ call.prompt \in Prompts /\ InputConfig(call.settings)
    /\ call.reply = Answer(ValidateInput(call.prompt, call.settings))

OutputCall(call) ==
    /\ call.prompt \in Prompts /\ call.text \in Texts /\ OutputConfig(call.settings)
    /\ call.policy_id = None => call.settings = OutputDefaults
    /\ call.expected_schema \in Schemas
    /\ call.schema = IF call.policy_id # None \/ call.expected_schema = "empty"
                     THEN None ELSE call.expected_schema
    /\ call.reply = Answer(ValidateOutput(call.prompt, call.text, call.settings,
                                          call.schema))

Recorded(call) ==
    /\ call.kind \in {"none", "load", "list", "input", "output"}
    /\ call.kind = "list" => call.reply.policies = Listing(call.documents)
    /\ call.kind = "input" => call.reply = NotFound \/ InputCall(call)
    /\ call.kind = "output" => call.reply = NotFound \/ OutputCall(call)

ApiInv == Publications /\ Recorded(last)

(***************************************************************************)
(* The settings used without a policy are usable.                          *)
(***************************************************************************)
LEMMA DefaultsAreSane == InputConfig(InputDefaults) /\ OutputConfig(OutputDefaults)
BY DEF InputConfig, OutputConfig, InputDefaults, OutputDefaults

(***************************************************************************)
(* Publishing replaces one policy, by that of its document.                *)
(***************************************************************************)
LEMMA PublishStep ==
    ASSUME Publications, NEW doc \in Documents, Publish(doc)
    PROVE  Publications'
<1>1. /\ doc.id \in PolicyIds /\ doc # None
      /\ Model!Validates(doc)
      /\ policies' = [policies EXCEPT ![doc.id] = Model!PolicyOf(doc)]
      /\ written' = [written EXCEPT ![doc.id] = doc]
  BY ApiAssumption DEF Publish
<1>2. DOMAIN policies' = PolicyIds /\ DOMAIN written' = PolicyIds
  BY <1>1 DEF Publications
<1>3. ASSUME NEW i \in PolicyIds
      PROVE  /\ policies'[i] = Made(written'[i])
             /\ written'[i] # None =>
                   /\ written'[i] \in Documents /\ written'[i].id = i
                   /\ Model!Validates(written'[i])
  <2>1. CASE i = doc.id
    <3>1. policies'[i] = Model!PolicyOf(doc) /\ written'[i] = doc
      BY <1>1, <2>1 DEF Publications
    <3> QED
      BY <1>1, <2>1, <3>1 DEF Made
  <2>2. CASE i # doc.id
    <3>1. policies'[i] = policies[i] /\ written'[i] = written[i]
      BY <1>1, <2>2 DEF Publications
    <3> QED
      BY <3>1 DEF Publications
  <2> QED
    BY <2>1, <2>2
<1> QED
  BY <1>2, <1>3 DEF Publications

(***************************************************************************)
(* The settings of a loaded policy are those of its document.              *)
(***************************************************************************)
LEMMA LoadedIsSane ==
    ASSUME Publications, NEW i \in PolicyIds, policies[i] # None
    PROVE  /\ InputConfig(InputSettings(policies[i]))
           /\ OutputConfig(OutputSettings(policies[i]))
           /\ HasKeys(policies[i])
           /\ policies[i] = Model!PolicyOf(written[i])
           /\ written[i] \in Documents /\ written[i].id = i
           /\ Model!Validates(written[i])
<1>1. written[i] # None /\ policies[i] = Model!PolicyOf(written[i])
  BY DEF Publications, Made
<1>2. /\ written[i] \in Documents /\ written[i].id = i
      /\ Model!Validates(written[i])
  BY <1>1 DEF Publications
<1> QED
  BY <1>1, <1>2, SettingsAreSane, PolicyHasKeys

(***************************************************************************)
(* The listing is recorded as it was made.                                 *)
(***************************************************************************)
LEMMA ListStep ==
    ASSUME Publications, ListPolicies
    PROVE  Recorded(last')
<1>1. /\ last'.kind = "list" /\ last'.documents = written
      /\ last'.reply.policies = {Summary(policies[i]) : i \in Loaded}
  BY DEF ListPolicies
<1>2. {Summary(policies[i]) : i \in Loaded} = Listing(written)
  BY DEF Publications, Listing, Loaded
<1> QED
  BY <1>1, <1>2 DEF Recorded

(***************************************************************************)
(* The reply of POST /validate/input is recorded with the settings used.   *)
(***************************************************************************)
LEMMA PostInputStep ==
    ASSUME Publications, NEW p \in Prompts, NEW i \in PolicyIds \cup {None},
           PostInput(p, i)
    PROVE  Recorded(last')
<1> DEFINE cfg == IF i = None THEN InputDefaults ELSE InputSettings(policies[i])
<1>1. CASE i # None /\ policies[i] = None
  <2>1. last'.kind = "input" /\ last'.reply = NotFound
    BY <1>1 DEF PostInput
  <2> QED
    BY <2>1 DEF Recorded
<1>2. CASE ~(i # None /\ policies[i] = None)
  <2>1. InputConfig(cfg)
    BY <1>2, DefaultsAreSane, LoadedIsSane
  <2>2. /\ last'.kind = "input" /\ last'.prompt = p /\ last'.settings = cfg
        /\ last'.reply = Answer(ValidateInput(p, cfg))
    BY <1>2 DEF PostInput
  <2> QED
    BY <2>1, <2>2 DEF Recorded, InputCall
<1> QED
  BY <1>1, <1>2

(***************************************************************************)
(* That of POST /validate/output likewise.                                 *)
(***************************************************************************)
LEMMA PostOutputStep ==
    ASSUME Publications, NEW t \in Texts, NEW p \in Prompts,
           NEW i \in PolicyIds \cup {None}, NEW s \in Schemas,
           PostOutput(t, p, i, s)
    PROVE  Recorded(last')
<1> DEFINE cfg == IF i = None THEN OutputDefaults ELSE OutputSettings(policies[i])
           schema == IF i # None \/ s = "empty" THEN None ELSE s
<1>1. CASE i # None /\ policies[i] = None
  <2>1. last'.kind = "output" /\ last'.reply = NotFound
    BY <1>1 DEF PostOutput
  <2> QED
    BY <2>1 DEF Recorded
<1>2. CASE ~(i # None /\ policies[i] = None)
  <2>1. OutputConfig(cfg)
    BY <1>2, DefaultsAreSane, LoadedIsSane
  <2>2. /\ last'.kind = "output" /\ last'.prompt = p /\ last'.text = t
        /\ last'.policy_id = i /\ last'.expected_schema = s
        /\ last'.settings = cfg /\ last'.schema = schema
        /\ last'.reply = Answer(ValidateOutput(p, t, cfg, schema))
    BY <1>2 DEF PostOutput
  <2> QED
    BY <2>1, <2>2 DEF Recorded, OutputCall
<1> QED
  BY <1>1, <1>2

(***************************************************************************)
(* Every policy that acts was made of a document that validates, and every *)
(* answer of the endpoints is that of the texts and settings it was given, *)
(* whatever is published in between (policies.py:16-28,                    *)
(* validation.py:32-67 of the routers).                                    *)
(***************************************************************************)
THEOREM ApiInvariance == Spec => []ApiInv
<1>1. Init => ApiInv
  <2> SUFFICES ASSUME Init PROVE ApiInv
    OBVIOUS
  <2>1. Publications
    BY DEF Init, Publications, Made
  <2>2. Recorded(last)
    BY DEF Init, Nothing, Recorded
  <2> QED
    BY <2>1, <2>2 DEF ApiInv
<1>2. ApiInv /\ [Next]_vars => ApiInv'
  <2> SUFFICES ASSUME ApiInv, [Next]_vars PROVE ApiInv'
    OBVIOUS
  <2>0. Publications /\ Recorded(last)
    BY DEF ApiInv
  <2>a. ASSUME UNCHANGED <<policies, written>> PROVE Publications'
    BY <2>0, <2>a DEF Publications
  <2>1. ASSUME NEW doc \in Documents, Publish(doc)
        PROVE  ApiInv'
    BY <2>0, <2>1, PublishStep DEF ApiInv, Publish
  <2>2. ASSUME NEW doc \in Documents, Refuse(doc)
        PROVE  ApiInv'
    <3>1. Publications'
      BY <2>2, <2>a DEF Refuse
    <3>2. Recorded(last')
      BY <2>2 DEF Refuse, Recorded
    <3> QED
      BY <3>1, <3>2 DEF ApiInv
  <2>3. CASE ListPolicies
    BY <2>0, <2>3, <2>a, ListStep DEF ApiInv, ListPolicies
  <2>4. ASSUME NEW p \in Prompts, NEW i \in PolicyIds \cup {None}, PostInput(p, i)
        PROVE  ApiInv'
    BY <2>0, <2>4, <2>a, PostInputStep DEF ApiInv, PostInput
  <2>5. ASSUME NEW t \in Texts, NEW p \in Prompts, NEW i \in PolicyIds \cup {None},
               NEW s \in Schemas, PostOutput(t, p, i, s)
        PROVE  ApiInv'
    BY <2>0, <2>5, <2>a, PostOutputStep DEF ApiInv, PostOutput
  <2>6. CASE UNCHANGED vars
    BY <2>0, <2>6, <2>a DEF vars, ApiInv
  <2> QED
    BY <2>1, <2>2, <2>3, <2>4, <2>5, <2>6 DEF Next
<1> QED
  BY <1>1, <1>2, PTL DEF Spec

-----------------------------------------------------------------------------
(***************************************************************************)
(* What the invariant says of documents.                                   *)
(***************************************************************************)
LEMMA PolicyFields ==
    ASSUME NEW doc
    PROVE  LET policy == Model!PolicyOf(doc)
           IN  /\ policy.id = doc.id
               /\ policy.provider = Model!ProviderConfig(Model!Block(doc, "provider"))
               /\ policy.input_guardrails
                      = Model!Completed(Model!InputGuardrailsConfig,
                                        Model!Block(doc, "input_guardrails"))
               /\ policy.output_guardrails
                      = Model!Completed(Model!OutputGuardrailsConfig,
                                        Model!Block(doc, "output_guardrails"))
BY DEF Model!PolicyOf

(***************************************************************************)
(* A policy completed from its document says what the document says.       *)
(***************************************************************************)
LEMMA DocumentByInv == Publications => DocumentAsWritten
<1> DEFINE Said(m, k, otherwise) == IF Model!Has(m, k) THEN m[k] ELSE otherwise
           Entry(m) == IF m = None THEN Model!Empty ELSE m
           block(i) == Model!Block(written[i], "provider")
           fallbacks(i) == Model!Get(block(i), "fallbacks")
           provider(i) == policies[i].provider
           Kept(defaults, section, config) ==
               \A g \in DOMAIN defaults : \A k \in DOMAIN defaults[g] :
                   config[g][k] = Said(Entry(Model!Get(section, g)), k, defaults[g][k])
<1> SUFFICES ASSUME Publications
             PROVE  DocumentAsWritten
  OBVIOUS
<1>1. ASSUME NEW i \in Loaded
      PROVE  /\ written[i] \in Documents /\ Model!Validates(written[i])
             /\ policies[i] = Model!PolicyOf(written[i])
  BY <1>1, LoadedIsSane DEF Loaded
<1>2. ASSUME NEW i \in Loaded
      PROVE  \A k \in Model!EndpointKeys :
                provider(i).primary[k]
                    = Said(Entry(Model!Get(block(i), "primary")), k,
                           Said(block(i), k, Model!EndpointDefaults[k]))
  <2>1. provider(i) = Model!ProviderConfig(block(i))
    BY <1>1, PolicyFields, Zenon
  <2> QED
    BY <2>1, PrimaryAsWritten DEF Primary
<1>3. ASSUME NEW i \in Loaded
      PROVE  /\ Len(provider(i).fallbacks)
                    = IF fallbacks(i) = None THEN 0 ELSE Len(fallbacks(i))
             /\ \A n \in 1 .. Len(provider(i).fallbacks), k \in Model!EndpointKeys :
                   provider(i).fallbacks[n][k]
                       = Said(fallbacks(i)[n], k, Model!EndpointDefaults[k])
  <2>1. provider(i) = Model!ProviderConfig(block(i))
    BY <1>1, PolicyFields, Zenon
  <2>2. block(i) # None
    BY <1>1 DEF Model!Validates, Model!ValidProvider
  <2>3. fallbacks(i) = None \/ fallbacks(i) \in Seq(Range(fallbacks(i)))
    BY <1>1, <2>2, ApiAssumption
  <2> QED
    BY <2>1, <2>3, FallbacksAsWritten
<1>4. ASSUME NEW i \in Loaded
      PROVE  /\ Kept(Model!InputGuardrailsConfig,
                     Model!Block(written[i], "input_guardrails"),
                     policies[i].input_guardrails)
             /\ Kept(Model!OutputGuardrailsConfig,
                     Model!Block(written[i], "output_guardrails"),
                     policies[i].output_guardrails)
  <2>1. /\ policies[i].input_guardrails
               = Model!Completed(Model!InputGuardrailsConfig,
                                 Model!Block(written[i], "input_guardrails"))
        /\ policies[i].output_guardrails
               = Model!Completed(Model!OutputGuardrailsConfig,
                                 Model!Block(written[i], "output_guardrails"))
    BY <1>1, PolicyFields, Zenon
  <2>2. /\ Model!ValidGuardrails(Model!InputGuardrailsConfig,
                                 Model!Block(written[i], "input_guardrails"))
        /\ Model!ValidGuardrails(Model!OutputGuardrailsConfig,
                                 Model!Block(written[i], "output_guardrails"))
    BY <1>1 DEF Model!Validates
  <2> QED
    BY <2>1, <2>2, CompletedKeeps
<1> QED
  BY <1>2, <1>3, <1>4, Zenon DEF DocumentAsWritten

(***************************************************************************)
(* What it says of verdicts: one that was given reports what was found.    *)
(***************************************************************************)
LEMMA AnswerFields ==
    /\ \A V : LET reply == Answer(Rated(V))
              IN  /\ reply.status = "ok" /\ reply.valid = (V = {})
                  /\ reply.violations = V
                  /\ reply.risk_score = Rated(V).risk_score
    /\ Answer(Raised).status = "raised"
    /\ NotFound.status = "policy_not_found"
BY DEF Answer, Rated, Raised, NotFound

(***************************************************************************)
(* A recorded reply of the input chain reports all that is found.          *)
(***************************************************************************)
LEMMA RanInput ==
    ASSUME NEW call, Recorded(call), Ran(call), call.kind = "input"
    PROVE  /\ InputCall(call)
           /\ call.reply = Answer(Rated(UNION FoundIn(call.prompt, call.settings)))
<1>1. InputCall(call)
  BY AnswerFields DEF Recorded, Ran
<1> QED
  BY <1>1, InputVerdict DEF InputCall

(***************************************************************************)
(* So does one of the output chain, whose JSON check did not raise.        *)
(***************************************************************************)
LEMMA RanOutput ==
    ASSUME NEW call, Recorded(call), Ran(call), call.kind = "output"
    PROVE  /\ OutputCall(call)
           /\ ~(/\ "JSONSchemaValidator" \in call.settings.enabled
                /\ JSONSchemaRaises(call.text, call.settings.enforce_json,
                                    call.schema))
           /\ call.reply = Answer(Rated(UNION FoundOut(call.prompt, call.text,
                                                       call.settings, call.schema)))
<1> DEFINE raises == /\ "JSONSchemaValidator" \in call.settings.enabled
                     /\ JSONSchemaRaises(call.text, call.settings.enforce_json,
                                         call.schema)
           found == FoundOut(call.prompt, call.text, call.settings, call.schema)
<1>1. OutputCall(call)
  BY AnswerFields DEF Recorded, Ran
<1>2. call.reply = Answer(IF raises THEN Raised ELSE Rated(UNION found))
  BY <1>1, OutputVerdict DEF OutputCall
<1> HIDE DEF raises
<1>3. ~raises
  BY <1>2, AnswerFields DEF Ran
<1> QED
  BY <1>1, <1>2, <1>3 DEF raises

(***************************************************************************)
(* Either way every finding is one of an enabled guardrail, and fits.      *)
(***************************************************************************)
LEMMA RanFindings ==
    ASSUME NEW call, Recorded(call), Ran(call)
    PROVE  \E V : /\ Scored(V) /\ call.reply = Answer(Rated(V))
                  /\ \A v \in V : \E g \in call.settings.enabled : v \in FindingsOf(g)
                  /\ call.settings.enabled \subseteq
                        IF call.kind = "input" THEN InputGuardrails
                        ELSE OutputGuardrails
<1>1. CASE call.kind = "input"
  <2> DEFINE V == UNION FoundIn(call.prompt, call.settings)
  <2>1. /\ call.prompt \in Prompts /\ InputConfig(call.settings)
        /\ call.reply = Answer(Rated(V))
    BY <1>1, RanInput DEF InputCall
  <2>2. /\ Scored(V)
        /\ \A v \in V : \E g \in call.settings.enabled : v \in FindingsOf(g)
    BY <2>1, FoundInType
  <2>3. call.settings.enabled \subseteq
           IF call.kind = "input" THEN InputGuardrails ELSE OutputGuardrails
    BY <1>1, <2>1 DEF InputConfig
  <2> HIDE DEF V
  <2> QED
    BY <2>1, <2>2, <2>3, Zenon
<1>2. CASE call.kind = "output"
  <2> DEFINE V == UNION FoundOut(call.prompt, call.text, call.settings, call.schema)
  <2>1. /\ call.prompt \in Prompts /\ call.text \in Texts
        /\ OutputConfig(call.settings) /\ call.reply = Answer(Rated(V))
    BY <1>2, RanOutput DEF OutputCall
  <2>2. /\ Scored(V)
        /\ \A v \in V : \E g \in call.settings.enabled : v \in FindingsOf(g)
    BY <2>1, FoundOutType
  <2>3. call.settings.enabled \subseteq
           IF call.kind = "input" THEN InputGuardrails ELSE OutputGuardrails
    BY <1>2, <2>1 DEF OutputConfig
  <2> HIDE DEF V
  <2> QED
    BY <2>1, <2>2, <2>3, Zenon
<1> QED
  BY <1>1, <1>2 DEF Ran

(***************************************************************************)
(* The invariant implies the types.                                        *)
(***************************************************************************)
LEMMA TypeByInv == ApiInv => TypeOK
<1> SUFFICES ASSUME ApiInv PROVE TypeOK
  OBVIOUS
<1>1. Publications /\ Recorded(last)
  BY DEF ApiInv
<1>2. ASSUME NEW i \in Loaded
      PROVE  /\ policies[i].id = i
             /\ policies[i].provider.strategy \in Model!Strategies
             /\ InputSettings(policies[i]).max_tokens \in Nat \ {0}
             /\ {InputSettings(policies[i]).toxicity,
                 OutputSettings(policies[i]).toxicity} \subseteq 0 .. 100
  <2>1. /\ policies[i] = Model!PolicyOf(written[i]) /\ written[i].id = i
        /\ Model!Validates(written[i])
        /\ InputConfig(InputSettings(policies[i]))
        /\ OutputConfig(OutputSettings(policies[i]))
    BY <1>1, <1>2, LoadedIsSane DEF Loaded
  <2>2. policies[i].id = i
    BY <2>1, PolicyFields, Zenon
  <2>3. policies[i].provider = Model!ProviderConfig(Model!Block(written[i], "provider"))
    BY <2>1, PolicyFields, Zenon
  <2>4. policies[i].provider.strategy \in Model!Strategies
    BY <2>1, <2>3 DEF Model!Validates, Model!ValidProvider, Model!ProviderConfig
  <2>5. /\ InputSettings(policies[i]).max_tokens \in Nat \ {0}
        /\ InputSettings(policies[i]).toxicity \in 0 .. 100
        /\ OutputSettings(policies[i]).toxicity \in 0 .. 100
    BY <2>1, Zenon DEF InputConfig, OutputConfig
  <2> QED
    BY <2>2, <2>4, <2>5, Zenon
<1>3. ASSUME Ran(last)
      PROVE  /\ last.reply.valid \in BOOLEAN
             /\ last.reply.risk_score \in 0 .. 100
             /\ last.reply.violations \subseteq
                   [guardrail : InputGuardrails \cup OutputGuardrails, code : Codes,
                    detail : PII \cup SECRETS \cup {None}, score : 0 .. 100]
  <2>1. PICK V : /\ Scored(V) /\ last.reply = Answer(Rated(V))
                 /\ \A v \in V : \E g \in last.settings.enabled : v \in FindingsOf(g)
                 /\ last.settings.enabled \subseteq
                       IF last.kind = "input" THEN InputGuardrails
                       ELSE OutputGuardrails
    BY <1>1, <1>3, RanFindings, Zenon
  <2>2. last.settings.enabled \subseteq InputGuardrails \cup OutputGuardrails
    BY <2>1
  <2>3. V \subseteq [guardrail : InputGuardrails \cup OutputGuardrails, code : Codes,
                     detail : PII \cup SECRETS \cup {None}, score : 0 .. 100]
    BY <2>1, <2>2 DEF FindingsOf
  <2>4. Rated(V).risk_score \in 0 .. 100
    BY <2>1, RiskIsHighest DEF Rated
  <2>5. /\ last.reply.valid = (V = {}) /\ last.reply.violations = V
        /\ last.reply.risk_score = Rated(V).risk_score
    BY <2>1, AnswerFields
  <2>6. last.reply.valid \in BOOLEAN
    BY <2>5
  <2> QED
    BY <2>3, <2>4, <2>5, <2>6
<1> QED
  BY <1>2, <1>3, Zenon DEF TypeOK

(***************************************************************************)
(* A policy asks for JSON by its own setting and brings no schema; without *)
(* a policy all guardrails run and only an inline schema asks.             *)
(***************************************************************************)
LEMMA RaisesByInv == ApiInv => OnlyJsonChecksRaise
<1> DEFINE undecodable ==
               /\ last.text.json = "undecodable"
               /\ IF last.policy_id = None
                  THEN last.expected_schema \notin {None, "empty"}
                  ELSE /\ "JSONSchemaValidator" \in last.settings.enabled
                       /\ last.settings.enforce_json
           unusable ==
               /\ last.text.json = "valid"
               /\ last.policy_id = None
               /\ \/ last.expected_schema = "malformed"
                  \/ last.expected_schema = "broken" /\ last.text.meets
<1> SUFFICES ASSUME ApiInv, last.kind \in {"input", "output"}
             PROVE  last.reply.status = "raised"
                       <=> /\ last.kind = "output"
                           /\ last.reply.status # "policy_not_found"
                           /\ undecodable \/ unusable
  BY DEF OnlyJsonChecksRaise
<1>1. Recorded(last)
  BY DEF ApiInv
<1>2. CASE last.reply = NotFound
  BY <1>2, AnswerFields
<1>3. CASE last.kind = "input" /\ last.reply # NotFound
  <2>1. last.reply = Answer(Rated(UNION FoundIn(last.prompt, last.settings)))
    BY <1>1, <1>3, InputVerdict DEF Recorded, InputCall
  <2> QED
    BY <1>3, <2>1, AnswerFields
<1>4. CASE last.kind = "output" /\ last.reply # NotFound
  <2> DEFINE raises == /\ "JSONSchemaValidator" \in last.settings.enabled
                       /\ JSONSchemaRaises(last.text, last.settings.enforce_json,
                                           last.schema)
             found == FoundOut(last.prompt, last.text, last.settings, last.schema)
  <2>1. OutputCall(last)
    BY <1>1, <1>4 DEF Recorded
  <2>2. last.reply = Answer(IF raises THEN Raised ELSE Rated(UNION found))
    BY <2>1, OutputVerdict DEF OutputCall
  <2>3. raises <=> undecodable \/ unusable
    <3>1. /\ None \notin {"malformed", "broken", "empty"}
          /\ {"malformed", "broken"} \cap {"empty"} = {}
      BY ApiAssumption
    <3>2. CASE last.policy_id = None
      <4>1. /\ "JSONSchemaValidator" \in last.settings.enabled
            /\ last.settings.enforce_json = FALSE
        BY <2>1, <3>2 DEF OutputCall, OutputDefaults, OutputGuardrails
      <4>2. last.schema = IF last.expected_schema = "empty" THEN None
                          ELSE last.expected_schema
        BY <2>1, <3>2 DEF OutputCall
      <4> QED
        BY <3>1, <3>2, <4>1, <4>2 DEF JSONSchemaRaises, JSONAsked
    <3>3. CASE last.policy_id # None
      <4>1. last.schema = None
        BY <2>1, <3>3 DEF OutputCall
      <4> QED
        BY <3>1, <3>3, <4>1 DEF JSONSchemaRaises, JSONAsked
    <3> QED
      BY <3>2, <3>3
  <2> HIDE DEF raises, found, undecodable, unusable
  <2>4. /\ last.reply.status # "policy_not_found"
        /\ last.reply.status = "raised" <=> raises
    BY <2>2, AnswerFields
  <2> QED
    BY <1>4, <2>3, <2>4
<1> QED
  BY <1>2, <1>3, <1>4

(***************************************************************************)
(* A guardrail that runs alone finds what it finds in company.             *)
(***************************************************************************)
LEMMA AloneInput ==
    ASSUME NEW p \in Prompts, NEW cfg, InputConfig(cfg), NEW g \in cfg.enabled
    PROVE  ValidateInput(p, [cfg EXCEPT !.enabled = {g}]) = Rated(InputCheck(g, p, cfg))
<1> DEFINE alone == [cfg EXCEPT !.enabled = {g}]
<1>1. /\ alone.enabled = {g} /\ alone.entities = cfg.entities
      /\ alone.max_tokens = cfg.max_tokens /\ alone.allowed = cfg.allowed
      /\ alone.toxicity = cfg.toxicity
  BY DEF InputConfig
<1>2. alone = [enabled |-> alone.enabled, entities |-> alone.entities,
               max_tokens |-> alone.max_tokens, allowed |-> alone.allowed,
               toxicity |-> alone.toxicity]
  BY DEF InputConfig
<1> HIDE DEF alone
<1>3. InputConfig(alone)
  BY <1>1, <1>2 DEF InputConfig
<1>4. InputCheck(g, p, alone) = InputCheck(g, p, cfg)
  BY <1>1 DEF InputCheck
<1>5. UNION FoundIn(p, alone) = InputCheck(g, p, cfg)
  BY <1>1, <1>4 DEF FoundIn
<1> QED
  BY <1>3, <1>5, InputVerdict DEF alone

(***************************************************************************)
(* An output guardrail run alone reports its own findings.                 *)
(***************************************************************************)
LEMMA AloneOutput ==
    ASSUME NEW p \in Prompts, NEW t \in Texts, NEW cfg, OutputConfig(cfg), NEW schema,
           ~(/\ "JSONSchemaValidator" \in cfg.enabled
             /\ JSONSchemaRaises(t, cfg.enforce_json, schema)),
           NEW g \in cfg.enabled
    PROVE  ValidateOutput(p, t, [cfg EXCEPT !.enabled = {g}], schema)
               = Rated(OutputCheck(g, p, t, cfg, schema))
<1> DEFINE alone == [cfg EXCEPT !.enabled = {g}]
<1>1. /\ alone.enabled = {g} /\ alone.enforce_json = cfg.enforce_json
      /\ alone.toxicity = cfg.toxicity
  BY DEF OutputConfig
<1>2. alone = [enabled |-> alone.enabled, toxicity |-> alone.toxicity,
               enforce_json |-> alone.enforce_json]
  BY DEF OutputConfig
<1> HIDE DEF alone
<1>3. OutputConfig(alone)
  BY <1>1, <1>2 DEF OutputConfig
<1>4. OutputCheck(g, p, t, alone, schema) = OutputCheck(g, p, t, cfg, schema)
  BY <1>1 DEF OutputCheck
<1>5. UNION FoundOut(p, t, alone, schema) = OutputCheck(g, p, t, cfg, schema)
  BY <1>1, <1>4 DEF FoundOut
<1>6. ~(/\ "JSONSchemaValidator" \in alone.enabled
        /\ JSONSchemaRaises(t, alone.enforce_json, schema))
  BY <1>1
<1> QED
  BY <1>3, <1>5, <1>6, OutputVerdict DEF alone

(***************************************************************************)
(* The verdict of a chain is that of its guardrails put together.          *)
(***************************************************************************)
LEMMA CompleteByInv == ApiInv => VerdictComplete
<1> DEFINE Alone(g) ==
               IF last.kind = "input"
               THEN ValidateInput(last.prompt, [last.settings EXCEPT !.enabled = {g}])
               ELSE ValidateOutput(last.prompt, last.text,
                        [last.settings EXCEPT !.enabled = {g}], last.schema)
           results == {Alone(g) : g \in last.settings.enabled}
<1> SUFFICES ASSUME ApiInv, Ran(last)
             PROVE  /\ last.reply.violations = UNION {r.violations : r \in results}
                    /\ last.reply.valid = (\A r \in results : r.passed)
                    /\ last.reply.risk_score = Max({0} \cup {r.risk_score : r \in results})
  BY DEF VerdictComplete
<1>1. Recorded(last)
  BY DEF ApiInv
<1>2. PICK Q : /\ \A W \in Q : Scored(W)
               /\ Scored(UNION Q)
               /\ last.reply = Answer(Rated(UNION Q))
               /\ results = {Rated(W) : W \in Q}
  <2>1. CASE last.kind = "input"
    <3> DEFINE Q == FoundIn(last.prompt, last.settings)
    <3>1. /\ last.prompt \in Prompts /\ InputConfig(last.settings)
          /\ last.reply = Answer(Rated(UNION Q))
      BY <1>1, <2>1, RanInput DEF InputCall
    <3>2. (\A W \in Q : Scored(W)) /\ Scored(UNION Q)
      BY <3>1, FoundInType
    <3>3. \A g \in last.settings.enabled :
             Alone(g) = Rated(InputCheck(g, last.prompt, last.settings))
      BY <2>1, <3>1, AloneInput
    <3>4. results = {Rated(W) : W \in Q}
      <4> HIDE DEF Alone
      <4> QED
        BY <3>3 DEF FoundIn
    <3> HIDE DEF Q, results
    <3> QED
      BY <3>1, <3>2, <3>4
  <2>2. CASE last.kind = "output"
    <3> DEFINE Q == FoundOut(last.prompt, last.text, last.settings, last.schema)
    <3>1. /\ last.prompt \in Prompts /\ last.text \in Texts
          /\ OutputConfig(last.settings)
          /\ ~(/\ "JSONSchemaValidator" \in last.settings.enabled
               /\ JSONSchemaRaises(last.text, last.settings.enforce_json,
                                   last.schema))
          /\ last.reply = Answer(Rated(UNION Q))
      BY <1>1, <2>2, RanOutput DEF OutputCall
    <3>2. (\A W \in Q : Scored(W)) /\ Scored(UNION Q)
      BY <3>1, FoundOutType
    <3>3. \A g \in last.settings.enabled :
             Alone(g) = Rated(OutputCheck(g, last.prompt, last.text, last.settings,
                                          last.schema))
      BY <2>2, <3>1, AloneOutput
    <3>4. results = {Rated(W) : W \in Q}
      <4> HIDE DEF Alone
      <4> QED
        BY <3>3 DEF FoundOut
    <3> HIDE DEF Q, results
    <3> QED
      BY <3>1, <3>2, <3>4
  <2> QED
    BY <2>1, <2>2 DEF Ran
<1> HIDE DEF results
<1>3. /\ Rated(UNION Q).violations = UNION {r.violations : r \in results}
      /\ Rated(UNION Q).passed = (\A r \in results : r.passed)
      /\ Rated(UNION Q).risk_score = Max({0} \cup {r.risk_score : r \in results})
  BY <1>2, VerdictOfParts, Zenon
<1>4. /\ last.reply.violations = Rated(UNION Q).violations
      /\ last.reply.valid = Rated(UNION Q).passed
      /\ last.reply.risk_score = Rated(UNION Q).risk_score
  BY <1>2, AnswerFields, SMTT(30) DEF Rated
<1> QED
  BY <1>3, <1>4, Zenon

(***************************************************************************)
(* What the input chain finds, sorted by guardrail.                        *)
(***************************************************************************)
LEMMA FoundInBy ==
    ASSUME NEW p \in Prompts, NEW cfg, InputConfig(cfg), NEW g \in InputGuardrails
    PROVE  {v \in UNION FoundIn(p, cfg) : v.guardrail = g}
              = IF g \in cfg.enabled THEN InputCheck(g, p, cfg) ELSE {}
<1>1. \A h \in cfg.enabled : \A v \in InputCheck(h, p, cfg) : v.guardrail = h
  BY InputCheckType DEF InputConfig, FindingsOf
<1> QED
  BY <1>1, ZenonT(40) DEF FoundIn

(***************************************************************************)
(* What the output chain finds, sorted by guardrail.                       *)
(***************************************************************************)
LEMMA FoundOutBy ==
    ASSUME NEW p \in Prompts, NEW t \in Texts, NEW cfg, OutputConfig(cfg),
           NEW schema, NEW g \in OutputGuardrails
    PROVE  {v \in UNION FoundOut(p, t, cfg, schema) : v.guardrail = g}
              = IF g \in cfg.enabled THEN OutputCheck(g, p, t, cfg, schema) ELSE {}
<1>1. \A h \in cfg.enabled : \A v \in OutputCheck(h, p, t, cfg, schema) :
         v.guardrail = h
  BY OutputCheckType DEF OutputConfig, FindingsOf
<1> QED
  BY <1>1, ZenonT(40) DEF FoundOut

(***************************************************************************)
(* What it says of two answers in a row.                                   *)
(***************************************************************************)
LEMMA StricterByInv ==
    ASSUME Recorded(last), Recorded(last'), Ran(last), Ran(last'),
           last.kind = last'.kind, last.prompt = last'.prompt,
           last.kind = "output" => last.text = last'.text /\ last.schema = last'.schema,
           Stricter(last.settings, last'.settings, last.kind)
    PROVE  /\ Rules(last.reply) \subseteq Rules(last'.reply)
           /\ last.reply.risk_score <= last'.reply.risk_score
           /\ last'.reply.valid => last.reply.valid
<1>1. PICK V, W : /\ Scored(V) /\ Scored(W) /\ Covers(W, V)
                  /\ last.reply = Answer(Rated(V)) /\ last'.reply = Answer(Rated(W))
  <2>0. last.settings.enabled \subseteq last'.settings.enabled
    BY DEF Stricter
  <2>1. CASE last.kind = "input"
    <3> DEFINE V == UNION FoundIn(last.prompt, last.settings)
               W == UNION FoundIn(last'.prompt, last'.settings)
    <3>1. /\ last.prompt \in Prompts /\ InputConfig(last.settings)
          /\ last.reply = Answer(Rated(V))
      BY <2>1, RanInput DEF InputCall
    <3>2. /\ InputConfig(last'.settings) /\ last'.reply = Answer(Rated(W))
      BY <2>1, RanInput DEF InputCall
    <3>3. Scored(V) /\ Scored(W)
      BY <3>1, <3>2, FoundInType
    <3>4. \A g \in last.settings.enabled :
             Covers(InputCheck(g, last.prompt, last'.settings),
                    InputCheck(g, last.prompt, last.settings))
      BY <2>1, <3>1, <3>2, StricterInputCheck DEF InputConfig
    <3>5. Covers(W, V)
      BY <2>0, <3>4, Zenon DEF Covers, FoundIn
    <3> HIDE DEF V, W
    <3> QED
      BY <3>1, <3>2, <3>3, <3>5
  <2>2. CASE last.kind = "output"
    <3> DEFINE V == UNION FoundOut(last.prompt, last.text, last.settings, last.schema)
               W == UNION FoundOut(last'.prompt, last'.text, last'.settings, last'.schema)
    <3>1. /\ last.prompt \in Prompts /\ last.text \in Texts
          /\ OutputConfig(last.settings) /\ last.reply = Answer(Rated(V))
      BY <2>2, RanOutput DEF OutputCall
    <3>2. OutputConfig(last'.settings) /\ last'.reply = Answer(Rated(W))
      BY <2>2, RanOutput DEF OutputCall
    <3>3. Scored(V) /\ Scored(W)
      BY <2>2, <3>1, <3>2, FoundOutType
    <3>4. \A g \in last.settings.enabled :
             Covers(OutputCheck(g, last.prompt, last.text, last'.settings, last.schema),
                    OutputCheck(g, last.prompt, last.text, last.settings, last.schema))
      BY <2>2, <3>1, <3>2, StricterOutputCheck DEF OutputConfig
    <3>5. Covers(W, V)
      BY <2>0, <2>2, <3>4, Zenon DEF Covers, FoundOut
    <3> HIDE DEF V, W
    <3> QED
      BY <3>1, <3>2, <3>3, <3>5
  <2> QED
    BY <2>1, <2>2 DEF Ran
<1>2. /\ last.reply.violations = Rated(V).violations
      /\ last.reply.valid = Rated(V).passed
      /\ last.reply.risk_score = Rated(V).risk_score
      /\ last'.reply.violations = Rated(W).violations
      /\ last'.reply.valid = Rated(W).passed
      /\ last'.reply.risk_score = Rated(W).risk_score
  <2>1. \A result : /\ Answer(result).violations = result.violations
                    /\ Answer(result).valid = result.passed
                    /\ Answer(result).risk_score = result.risk_score
    BY DEF Answer
  <2> QED
    BY <1>1, <2>1, Zenon
<1>3. Rules(last.reply) = Rules(Rated(V)) /\ Rules(last'.reply) = Rules(Rated(W))
  BY <1>2, Zenon DEF Rules
<1> QED
  BY <1>1, <1>2, <1>3, CoveringResults

-----------------------------------------------------------------------------
(***************************************************************************)
(* A policy that an id names says what its document says, whatever else    *)
(* was published (models.py:67-119, 132-161).                              *)
(***************************************************************************)
THEOREM DocumentsAreKept == Spec => []DocumentAsWritten
<1>1. ApiInv => DocumentAsWritten
  BY DocumentByInv DEF ApiInv
<1> QED
  BY <1>1, ApiInvariance, PTL

(***************************************************************************)
(* Loaded policies carry usable settings; replies have the shape of a      *)
(* ValidationResponse, with scores between 0 and 1 (result.py:13-21,       *)
(* responses.py).                                                          *)
(***************************************************************************)
THEOREM TypeCorrect == Spec => []TypeOK
<1> QED
  BY TypeByInv, ApiInvariance, PTL

(***************************************************************************)
(* No score makes a validation raise, for any text and any loadable        *)
(* policy; the JSON check does, where it is asked for, on a text that      *)
(* json.loads cannot decode and on JSON that meets an inline schema        *)
(* jsonschema cannot use (json_schema.py:33-35, 52-54).                    *)
(***************************************************************************)
THEOREM OnlyJsonChecksMakeValidationRaise == Spec => []OnlyJsonChecksRaise
<1> QED
  BY RaisesByInv, ApiInvariance, PTL

(***************************************************************************)
(* A verdict lists what each enabled guardrail finds when run alone, and   *)
(* nothing else (validation.py:83-112, output_validation.py:71-96).        *)
(***************************************************************************)
THEOREM VerdictsAreComplete == Spec => []VerdictComplete
<1> QED
  BY CompleteByInv, ApiInvariance, PTL

(***************************************************************************)
(* Of two answers in a row on the same text, the one under the stricter    *)
(* settings finds no less (README.md:238, "lower = stricter").             *)
(***************************************************************************)
THEOREM StricterIsNoWeaker == Spec => StricterCatchesMore
<1>1. ApiInv /\ ApiInv' =>
        ((/\ Ran(last) /\ Ran(last') /\ last.kind = last'.kind
          /\ last.prompt = last'.prompt
          /\ last.kind = "output" =>
                last.text = last'.text /\ last.schema = last'.schema
          /\ Stricter(last.settings, last'.settings, last.kind))
         => /\ Rules(last.reply) \subseteq Rules(last'.reply)
            /\ last.reply.risk_score <= last'.reply.risk_score
            /\ last'.reply.valid => last.reply.valid)
  BY StricterByInv DEF ApiInv
<1> QED
  BY <1>1, ApiInvariance, PTL DEF StricterCatchesMore

(***************************************************************************)
(* A verdict under a policy agrees with the policy's entry in the listing. *)
(***************************************************************************)
LEMMA VerdictAgrees ==
    ASSUME NEW call, Recorded(call), Ran(call), call.policy_id # None,
           NEW policy, HasKeys(policy),
           call.settings = IF call.kind = "input" THEN InputSettings(policy)
                           ELSE OutputSettings(policy)
    PROVE  Agree(Summary(policy), call, policy)
<1>0. /\ Summary(policy).input_guardrails_enabled = EnabledInputGuardrails(policy)
      /\ Summary(policy).output_guardrails_enabled = EnabledOutputGuardrails(policy)
  BY DEF Summary
<1>1. CASE call.kind = "input"
  <2> DEFINE V == UNION FoundIn(call.prompt, call.settings)
  <2>1. /\ call.prompt \in Prompts /\ InputConfig(call.settings)
        /\ call.reply.violations = V
    BY <1>1, RanInput, AnswerFields DEF InputCall
  <2> HIDE DEF V
  <2>2. ASSUME NEW name \in DOMAIN InputNamed
        PROVE  {v \in call.reply.violations : v.guardrail = InputNamed[name]}
                  = IF name \in EnabledInputGuardrails(policy)
                    THEN InputCheck(InputNamed[name], call.prompt, InputSaid(policy))
                    ELSE {}
    <3>1. /\ InputNamed[name] \in InputGuardrails
          /\ InputNamed[name] \in call.settings.enabled
                <=> name \in EnabledInputGuardrails(policy)
          /\ call.settings.entities = InputSaid(policy).entities
          /\ call.settings.max_tokens = InputSaid(policy).max_tokens
          /\ call.settings.allowed = InputSaid(policy).allowed
          /\ call.settings.toxicity = InputSaid(policy).toxicity
      BY <1>1, InputTable
    <3>2. InputCheck(InputNamed[name], call.prompt, call.settings)
             = InputCheck(InputNamed[name], call.prompt, InputSaid(policy))
      BY <3>1, Zenon DEF InputCheck
    <3>3. {v \in V : v.guardrail = InputNamed[name]}
             = IF InputNamed[name] \in call.settings.enabled
               THEN InputCheck(InputNamed[name], call.prompt, call.settings) ELSE {}
      BY <2>1, <3>1, FoundInBy DEF V
    <3> QED
      BY <2>1, <3>1, <3>2, <3>3
  <2> QED
    BY <1>0, <1>1, <2>2, Zenon DEF Agree, Expected
<1>2. CASE call.kind = "output"
  <2> DEFINE V == UNION FoundOut(call.prompt, call.text, call.settings, None)
  <2>1. /\ call.prompt \in Prompts /\ call.text \in Texts
        /\ OutputConfig(call.settings) /\ call.reply.violations = V
    <3>1. OutputCall(call) /\ call.schema = None
      BY <1>2, RanOutput DEF OutputCall
    <3>2. call.reply = Answer(Rated(V))
      BY <1>2, <3>1, RanOutput
    <3> HIDE DEF V
    <3> QED
      BY <3>1, <3>2, AnswerFields DEF OutputCall
  <2> HIDE DEF V
  <2>2. ASSUME NEW name \in DOMAIN OutputNamed
        PROVE  {v \in call.reply.violations : v.guardrail = OutputNamed[name]}
                  = IF name \in EnabledOutputGuardrails(policy)
                    THEN OutputCheck(OutputNamed[name], call.prompt, call.text,
                                     OutputSaid(policy), None)
                    ELSE {}
    <3>0. call.settings = OutputSettings(policy)
      BY <1>2
    <3>1. /\ OutputNamed[name] \in OutputGuardrails
          /\ OutputNamed[name] \in call.settings.enabled
                <=> name \in EnabledOutputGuardrails(policy)
          /\ call.settings.toxicity = OutputSaid(policy).toxicity
          /\ call.settings.enforce_json = OutputSaid(policy).enforce_json
      BY <3>0, OutputTable
    <3>2. OutputCheck(OutputNamed[name], call.prompt, call.text, call.settings, None)
             = OutputCheck(OutputNamed[name], call.prompt, call.text,
                           OutputSaid(policy), None)
      BY <3>1, Zenon DEF OutputCheck
    <3>3. {v \in V : v.guardrail = OutputNamed[name]}
             = IF OutputNamed[name] \in call.settings.enabled
               THEN OutputCheck(OutputNamed[name], call.prompt, call.text,
                                call.settings, None)
               ELSE {}
      <4>1. ASSUME NEW g \in OutputGuardrails
            PROVE  {v \in V : v.guardrail = g}
                      = IF g \in call.settings.enabled
                        THEN OutputCheck(g, call.prompt, call.text,
                                         call.settings, None)
                        ELSE {}
        BY <2>1, FoundOutBy DEF V
      <4> QED
        BY <3>1, <4>1
    <3> QED
      BY <2>1, <3>1, <3>2, <3>3
  <2>3. call.kind # "input"
    BY <1>2
  <2> QED
    BY <1>0, <2>2, <2>3, Zenon DEF Agree, Expected
<1> QED
  BY <1>1, <1>2 DEF Ran

(***************************************************************************)
(* What GET /policies lists is what acts: the verdict given next, under a  *)
(* policy listed and not replaced since, holds what each listed guardrail  *)
(* finds under its own section, and nothing of the others.  The tables of  *)
(* the services and that of the listing agree (validation.py:8-16, 82-96,  *)
(* output_validation.py:7-14, 75-83, models.py:242-271).                   *)
(***************************************************************************)
THEOREM ListingIsTruthful == Spec => ListedGuardrailsAct
<1>1. ASSUME ApiInv, ApiInv', [Next]_vars, last.kind = "list",
             last.documents = written, Ran(last'), last'.policy_id # None
      PROVE  \E listed \in last.reply.policies :
                /\ listed.id = last'.policy_id
                /\ Agree(listed, last', policies[listed.id])
  <2> DEFINE i == last'.policy_id
  <2>1. Publications /\ Recorded(last) /\ Recorded(last')
    BY <1>1 DEF ApiInv
  <2>2. "list" \notin {"input", "output"} /\ "load" \notin {"input", "output"}
    OBVIOUS
  <2>3. /\ i \in PolicyIds /\ policies[i] # None
        /\ last'.settings = IF last'.kind = "input" THEN InputSettings(policies[i])
                            ELSE OutputSettings(policies[i])
    <3>1. last'.kind \in {"input", "output"} /\ last'.reply.status = "ok"
      BY <1>1 DEF Ran
    <3>2. NotFound.status # "ok"
      BY DEF NotFound
    <3>3. ASSUME NEW p \in Prompts, NEW j \in PolicyIds \cup {None}, PostInput(p, j)
          PROVE  /\ i \in PolicyIds /\ policies[i] # None /\ last'.kind = "input"
                 /\ last'.settings = InputSettings(policies[i])
      <4>1. ~(j # None /\ policies[j] = None)
        BY <3>1, <3>2, <3>3 DEF PostInput
      <4>2. /\ last'.kind = "input" /\ last'.policy_id = j
            /\ last'.settings = IF j = None THEN InputDefaults
                                ELSE InputSettings(policies[j])
        BY <3>3, <4>1 DEF PostInput
      <4> QED
        BY <1>1, <4>1, <4>2
    <3>4. ASSUME NEW t \in Texts, NEW p \in Prompts, NEW j \in PolicyIds \cup {None},
                 NEW s \in Schemas, PostOutput(t, p, j, s)
          PROVE  /\ i \in PolicyIds /\ policies[i] # None /\ last'.kind = "output"
                 /\ last'.settings = OutputSettings(policies[i])
      <4>1. ~(j # None /\ policies[j] = None)
        BY <3>1, <3>2, <3>4 DEF PostOutput
      <4>2. /\ last'.kind = "output" /\ last'.policy_id = j
            /\ last'.settings = IF j = None THEN OutputDefaults
                                ELSE OutputSettings(policies[j])
        BY <3>4, <4>1 DEF PostOutput
      <4> QED
        BY <1>1, <4>1, <4>2
    <3>5. CASE UNCHANGED last
      BY <1>1, <2>2, <3>1, <3>5
    <3>6. CASE ListPolicies
      BY <2>2, <3>1, <3>6 DEF ListPolicies
    <3>7. ASSUME NEW doc \in Documents, Publish(doc) \/ Refuse(doc)
          PROVE  FALSE
      BY <1>1, <2>2, <3>1, <3>7 DEF Publish, Refuse
    <3> QED
      BY <1>1, <3>3, <3>4, <3>5, <3>6, <3>7 DEF Next, vars
  <2>4. Summary(policies[i]) \in last.reply.policies
    <3>1. last.reply.policies = Listing(written)
      BY <1>1, <2>1 DEF Recorded
    <3>2. policies[i] = Made(written[i])
      BY <2>1, <2>3 DEF Publications
    <3> QED
      BY <2>3, <3>1, <3>2 DEF Listing
  <2>5. Summary(policies[i]).id = i /\ HasKeys(policies[i])
    <3>1. /\ policies[i] = Model!PolicyOf(written[i]) /\ written[i].id = i
          /\ HasKeys(policies[i])
      BY <2>1, <2>3, LoadedIsSane
    <3>2. policies[i].id = i
      BY <3>1, PolicyFields, Zenon
    <3> QED
      BY <3>1, <3>2 DEF Summary
  <2>6. Agree(Summary(policies[i]), last', policies[i])
    BY <1>1, <2>1, <2>3, <2>5, VerdictAgrees
  <2> HIDE DEF i
  <2> QED
    BY <2>4, <2>5, <2>6, Zenon DEF i
<1>2. ApiInv /\ ApiInv' /\ [Next]_vars =>
        (last.kind = "list" /\ last.documents = written
            /\ Ran(last') /\ last'.policy_id # None
         => \E listed \in last.reply.policies :
               /\ listed.id = last'.policy_id
               /\ Agree(listed, last', policies[listed.id]))
  BY <1>1
<1> QED
  BY <1>2, ApiInvariance, PTL DEF Spec, ListedGuardrailsAct
=============================================================================
