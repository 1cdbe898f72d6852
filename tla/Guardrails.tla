------------------------------ MODULE Guardrails ------------------------------
(***************************************************************************)
(* The two guardrail chains as the gateway calls them                      *)
(* (ValidationService and OutputValidationService.validate_with_policy).   *)
(* What a single guardrail finds in a text is given: PromptFlags and       *)
(* OutputFlags list the violations of every guardrail, and the chain keeps *)
(* those of the guardrails the policy enables.  The order of violations is *)
(* left out: nothing but the reply's list shows it.                        *)
(***************************************************************************)
EXTENDS Policies

CONSTANTS
    Prompts,         \* user prompts, told apart by what guardrails say
    Codes,           \* violation codes
    PromptFlags,     \* violations in a prompt, all guardrails on
    OutputFlags,     \* violations in a completion of a prompt, all on
    Undecodable      \* completions on which json.loads raises another
                     \* exception than JSONDecodeError

Violations(guardrails) ==
    [guardrail : guardrails, code : Codes, score : 0 .. 100]   \* percent

ASSUME PromptFlagsAssumption ==
    PromptFlags \in [Prompts -> SUBSET Violations(InputGuardrails)]

ASSUME OutputFlagsAssumption ==
    OutputFlags \in [Prompts \X Contents -> SUBSET Violations(OutputGuardrails)]

ASSUME UndecodableAssumption == Undecodable \subseteq Contents

-----------------------------------------------------------------------------
\* max(v.score for v in violations), 0 when there are none
RiskScore(violations) ==
    IF violations = {} THEN 0
    ELSE LET scores == {v.score : v \in violations}
         IN  CHOOSE s \in scores : \A t \in scores : t <= s

\* ValidationResult.ok() or ValidationResult.fail(...)
Result(violations) ==
    [passed |-> violations = {}, violations |-> violations,
     risk_score |-> RiskScore(violations)]

\* ValidationService.validate_with_policy
ValidateInput(prompt, policy) ==
    Result({v \in PromptFlags[prompt] : v.guardrail \in EnabledInput(policy)})

\* OutputValidationService.validate_with_policy
\* Slip: only guardrails whose action is "block" make a response fail.
ValidateOutput_BlockOnly(content, policy, prompt) ==
    Result({v \in OutputFlags[prompt, content] :
               /\ v.guardrail \in EnabledOutput(policy)
               /\ policy.output_guardrails[v.guardrail].action = "block"})
ValidateOutput(content, policy, prompt) ==
    Result({v \in OutputFlags[prompt, content] :
               v.guardrail \in EnabledOutput(policy)})

\* The JSON check of the chain raises, and nobody on the way catches it.
OutputRaises(content, policy) ==
    content \in Undecodable /\ "json_schema" \in EnabledOutput(policy)

CodesOf(violations) == {v.code : v \in violations}
=============================================================================
