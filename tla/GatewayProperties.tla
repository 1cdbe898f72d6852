--------------------------- MODULE GatewayProperties --------------------------
(***************************************************************************)
(* What must hold of the chat requests.  The properties are stated on what *)
(* the outside sees (request bodies, provider traffic, replies) and on the *)
(* policy object that was published when the request was resolved.         *)
(***************************************************************************)
EXTENDS Gateway

\* Types of the locals of chat; the registry's and the traffic's types.
TypeOK ==
    /\ \A r \in Reqs :
          /\ gw[r].pc \in {"idle", "resolve", "input", "call", "providers",
                           "retry", "retrying", "finish", "replied"}
          /\ gw[r].body \in ChatRequests \cup {None}
          /\ gw[r].ref \in 0 .. Len(heap)
          /\ gw[r].own \in PolicyRecords \cup {None}
          /\ gw[r].retries \in Nat
          /\ gw[r].violations \subseteq
                Violations(InputGuardrails \cup OutputGuardrails)
          /\ gw[r].reply.status \in
                {"none", "ok", "policy_not_found", "provider_error",
                 "index_error", "json_error"}
                \cup Orchestrator!Errors
          /\ IsResponse(gw[r].reply) =>
                gw[r].reply.provider_chain \in Seq(Vendors)
    /\ Registry!TypeOK

-----------------------------------------------------------------------------
\* The published policy a request resolved to, whatever was published since.
Governing(r) == heap[gw[r].ref]

FlagsPrompt(r, v) ==
    Governing(r).input_guardrails[v.guardrail].enabled

InputFlags(r) == {v \in PromptFlags[gw[r].body.prompt] : FlagsPrompt(r, v)}

TextFlags(r, content) ==
    {v \in OutputFlags[gw[r].body.prompt, content] :
        Governing(r).output_guardrails[v.guardrail].enabled}

\* The policy has answers decoded, which fails on this one.
Unreadable(r, content) ==
    /\ content \in Undecodable
    /\ Governing(r).output_guardrails["json_schema"].enabled

Replied(r) == gw[r].pc = "replied" /\ IsResponse(gw[r].reply)

SentText(r) == Replied(r) /\ gw[r].reply.response.kind = "completion"

\* The call that produced the first completion, or the last call so far.
FirstAnswer(r) ==
    LET completed == {k \in 1 .. Len(answers[r]) : answers[r][k].kind = "completion"}
    IN  IF completed = {} THEN Len(asked[r])
        ELSE CHOOSE k \in completed : \A j \in completed : k <= j

\* The model the policy and the override of the request name for attempt k.
Route(r, k) ==
    LET body == gw[r].body
        point == IF k = 1 THEN Governing(r).provider.primary
                 ELSE Governing(r).provider.fallbacks[k - 1]
        name == IF k = 1 /\ body.model # None /\ body.provider # None
                THEN body.provider ELSE point.name
        model == IF k = 1 /\ body.model # None THEN body.model ELSE point.model
    IN  [vendor |-> IF model.vendor = None THEN name ELSE model.vendor,
         base |-> model.base]

-----------------------------------------------------------------------------
(***************************************************************************)
(* No provider ever sees a prompt an enabled guardrail objects to, unless  *)
(* the policy the request resolved to does not block (gateway.py:93-123).  *)
(***************************************************************************)
PromptScreened ==
    \A r \in Reqs : asked[r] # <<>> =>
        \/ InputFlags(r) = {}
        \/ Governing(r).input_guardrails["prompt_injection"].action # "block"

(***************************************************************************)
(* The model text that reaches a client is the last completion made for    *)
(* that very request; output_valid says whether the policy the request     *)
(* resolved to accepts it, even when that policy has been replaced since;  *)
(* a text it rejects goes out only when the policy allows no retry, and a  *)
(* text its JSON check cannot read never does (gateway.py:155-209,         *)
(* 228-242; json_schema.py:34).                                            *)
(***************************************************************************)
OnlyCheckedTextLeaves ==
    \A r \in Reqs : SentText(r) =>
        LET text == gw[r].reply.response.text
            n == Len(answers[r])
        IN  /\ n > 0
            /\ answers[r][n] = Completion(text)
            /\ ~Unreadable(r, text)
            /\ gw[r].reply.output_valid = (TextFlags(r, text) = {})
            /\ TextFlags(r, text) # {} => Governing(r).retry.max_attempts = 0

(***************************************************************************)
(* The violations and the risk score of a reply are those of the prompt    *)
(* and of the text it carries, not of an answer that was thrown away; in a *)
(* fallback reply they are those of the prompt and of the first answer     *)
(* (gateway.py:159, 182-184, 197-201, 212-216).                            *)
(***************************************************************************)
ReplyDescribesText ==
    \A r \in Reqs : Replied(r) =>
        LET reply == gw[r].reply
            shown == IF SentText(r) THEN TextFlags(r, reply.response.text)
                     ELSE IF asked[r] = <<>> THEN {}
                     ELSE TextFlags(r, answers[r][FirstAnswer(r)].content)
        IN  /\ reply.violations = InputFlags(r) \cup shown
            /\ \A v \in reply.violations : v.score <= reply.risk_score
            /\ reply.risk_score = 0
               \/ \E v \in reply.violations : v.score = reply.risk_score

(***************************************************************************)
(* The providers asked for a request are those of the policy it resolved   *)
(* to, in its order and with the override of the request; once one has     *)
(* answered, only the primary is asked again, and at most max_attempts     *)
(* times (gateway.py:131-153, 163-181).                                    *)
(***************************************************************************)
TrafficFollowsPolicy ==
    \A r \in Reqs : asked[r] # <<>> =>
        LET m == FirstAnswer(r)
        IN  /\ m <= Len(Governing(r).provider.fallbacks) + 1
            /\ \A k \in 1 .. Len(asked[r]) :
                  asked[r][k].model = Route(r, IF k <= m THEN k ELSE 1)
            /\ Len(asked[r]) - m <= Governing(r).retry.max_attempts

(***************************************************************************)
(* retries counts the calls made after the first answer, in a reply that   *)
(* carries a text as in a fallback reply (gateway.py:180, 202).            *)
(***************************************************************************)
RetriesTruthful ==
    \A r \in Reqs : Replied(r) =>
        gw[r].reply.retries = Len(asked[r]) - FirstAnswer(r)

(***************************************************************************)
(* docs/architecture.md:163, "Hot reload only updates the registry;        *)
(* in-flight requests are unaffected", and the converse: no request, with  *)
(* or without an override, ever changes the registry or a policy in it     *)
(* (gateway.py:86-90).                                                     *)
(***************************************************************************)
RequestsLeavePoliciesAlone == [][Registry!Next]_registry

\* The kind of a client's answer, seen from the reply.
KindOf(r) ==
    CASE gw[r].pc = "idle" -> "new"
      [] gw[r].pc \notin {"idle", "replied"} -> "pending"
      [] gw[r].pc = "replied" /\ ~IsResponse(gw[r].reply) -> "error"
      [] SentText(r) /\ gw[r].reply.output_valid -> "checked"
      [] SentText(r) /\ ~gw[r].reply.output_valid -> "unchecked"
      [] Replied(r) /\ ~SentText(r) /\ asked[r] = <<>> -> "refused"
      [] Replied(r) /\ ~SentText(r) /\ asked[r] # <<>> -> "fallback"

Contract == INSTANCE ChatContract WITH
    state <- [r \in Reqs |-> KindOf(r)],
    calls <- [r \in Reqs |-> Len(asked[r])]

(***************************************************************************)
(* The gateway implements the contract of POST /chat: one final answer per *)
(* request, no call for a refused prompt, no call after the answer, and a  *)
(* fallback message only after the first answer and a retry.               *)
(***************************************************************************)
ImplementsContract == Contract!Spec

(***************************************************************************)
(* Every request the router accepts gets an answer, whatever providers do. *)
(***************************************************************************)
AllAnswered == Contract!EveryRequestAnswered

-----------------------------------------------------------------------------
(***************************************************************************)
(* tests/unit/retry/test_retry_and_gateway.py:474, "max_attempts=0 means   *)
(* retry engine is skipped; fallback returned": a reply whose output is    *)
(* not valid carries the fallback message.                                 *)
(***************************************************************************)
InvalidMeansFallback ==
    \A r \in Reqs : Replied(r) /\ ~gw[r].reply.output_valid => ~SentText(r)

(***************************************************************************)
(* PROJECT_MASTER_GUIDE.md:251, input guardrails "can block or warn based  *)
(* on policy configuration": a prompt flagged by an enabled guardrail      *)
(* whose own action is block reaches no provider.                          *)
(***************************************************************************)
EachGuardrailBlocks ==
    \A r \in Reqs : asked[r] # <<>> =>
        \A v \in InputFlags(r) :
            Governing(r).input_guardrails[v.guardrail].action # "block"
=============================================================================
