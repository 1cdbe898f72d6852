--------------------------- MODULE Guardrails_proofs ---------------------------
(***************************************************************************)
(* What the policies and the guardrail chains promise the retry engine and *)
(* the gateway, for every policy, text and list of findings.               *)
(***************************************************************************)
EXTENDS Guardrails, TLAPS

(***************************************************************************)
(* An endpoint always names a model with a vendor: its model's own prefix, *)
(* or else its name.                                                       *)
(***************************************************************************)
LEMMA RoutedType ==
    ASSUME NEW endpoint \in Endpoints
    PROVE  Routed(endpoint) \in Models
BY DEF Endpoints, ModelNames, Routed, Models

(***************************************************************************)
(* So does a policy.                                                       *)
(***************************************************************************)
LEMMA LitellmModelType ==
    ASSUME NEW policy \in PolicyRecords
    PROVE  LitellmModel(policy) \in Models
<1>1. policy.provider.primary \in Endpoints
  BY DEF PolicyRecords, ProviderConfigs
<1> QED
  BY <1>1, RoutedType DEF LitellmModel

(***************************************************************************)
(* The output chain reports what the guardrails the policy enables find in *)
(* the completion, and passes when that is nothing.                        *)
(***************************************************************************)
LEMMA OutputVerdict ==
    ASSUME NEW policy \in PolicyRecords, NEW prompt \in Prompts,
           NEW content \in Contents
    PROVE  LET result == ValidateOutput(content, policy, prompt)
               minded == {v \in OutputFlags[prompt, content] :
                             policy.output_guardrails[v.guardrail].enabled}
           IN  /\ result.violations = minded
               /\ result.passed <=> minded = {}
               /\ minded \subseteq Violations(OutputGuardrails)
<1>1. OutputFlags[prompt, content] \subseteq Violations(OutputGuardrails)
  BY OutputFlagsAssumption
<1>2. \A v \in OutputFlags[prompt, content] : v.guardrail \in OutputGuardrails
  BY <1>1 DEF Violations
<1>3. {v \in OutputFlags[prompt, content] : v.guardrail \in EnabledOutput(policy)}
       = {v \in OutputFlags[prompt, content] :
             policy.output_guardrails[v.guardrail].enabled}
  BY <1>2 DEF EnabledOutput
<1> QED
  BY <1>1, <1>3 DEF ValidateOutput, Result

(***************************************************************************)
(* The output chain raises on a completion that cannot be decoded when the *)
(* policy has its answers decoded.                                         *)
(***************************************************************************)
LEMMA OutputRaisesWhen ==
    ASSUME NEW policy, NEW content
    PROVE  OutputRaises(content, policy) <=>
               /\ content \in Undecodable
               /\ policy.output_guardrails["json_schema"].enabled
BY DEF OutputRaises, EnabledOutput, OutputGuardrails

(***************************************************************************)
(* Likewise the input chain and the prompt.                                *)
(***************************************************************************)
LEMMA InputVerdict ==
    ASSUME NEW policy \in PolicyRecords, NEW prompt \in Prompts
    PROVE  LET result == ValidateInput(prompt, policy)
               minded == {v \in PromptFlags[prompt] :
                             policy.input_guardrails[v.guardrail].enabled}
           IN  /\ result.violations = minded
               /\ result.passed <=> minded = {}
               /\ minded \subseteq Violations(InputGuardrails)
<1>1. PromptFlags[prompt] \subseteq Violations(InputGuardrails)
  BY PromptFlagsAssumption
<1>2. \A v \in PromptFlags[prompt] : v.guardrail \in InputGuardrails
  BY <1>1 DEF Violations
<1>3. {v \in PromptFlags[prompt] : v.guardrail \in EnabledInput(policy)}
       = {v \in PromptFlags[prompt] :
             policy.input_guardrails[v.guardrail].enabled}
  BY <1>2 DEF EnabledInput
<1> QED
  BY <1>1, <1>3 DEF ValidateInput, Result
=============================================================================
