----------------------------- MODULE LLMProviders -----------------------------
(***************************************************************************)
(* What one provider call can do: ProviderFactory.get_provider resolves a  *)
(* routed model to the LiteLLM adapter, and LiteLLMProvider.complete turns *)
(* whatever LiteLLM does into a ProviderResponse, a ProviderError whose    *)
(* only content is its text, or (an answer without choices) an exception   *)
(* that is not a ProviderError.                                            *)
(*                                                                         *)
(* A routed model string "openai/gpt-4o" is the record                     *)
(* [vendor |-> "openai", base |-> "gpt-4o"].  The text of an error is the  *)
(* set of failure-marker phrases it contains: nothing else about it is     *)
(* ever inspected.  A model's own name, which the text also quotes, is     *)
(* taken to contain no marker.                                             *)
(***************************************************************************)
EXTENDS Naturals, Sequences

CONSTANTS
    Vendors,            \* prefixes of model strings, and endpoint names
    Bases,              \* model names without their prefix
    LITELLM_PREFIXES,   \* the prefixes get_provider accepts
    MessageLists,       \* conversations sent for completion
    Timeouts,           \* values of timeout_seconds
    Contents,           \* completion texts, told apart by what guardrails say
    ExcTexts,           \* what LiteLLM's own exception texts contain
    Outcomes,           \* what LiteLLM may do in answer to one call
    None                \* absence of a value

ASSUME PrefixesAssumption == LITELLM_PREFIXES \subseteq Vendors

Models == [vendor : Vendors, base : Bases]

\* What the orchestrator and the retry engine vary of a ProviderRequest.
ProviderRequests ==
    [model : Models, messages : MessageLists, timeout_seconds : Timeouts]

\* provider_orchestrator.py:32-40
RECOVERABLE_FAILURE_MARKERS ==
    {"timeout", "timed out", "rate limit", "quota", "temporar", "network",
     "connection"}

ASSUME ExcTextsAssumption ==
    ExcTexts \subseteq SUBSET RECOVERABLE_FAILURE_MARKERS

Exceptions ==
    {"AuthenticationError", "RateLimitError", "BadRequestError", "Exception"}

\* LiteLLM answers with a completion, answers without choices, or raises.
Completion(content) == [kind |-> "completion", content |-> content, text |-> {}]
EmptyAnswer == [kind |-> "no_choices", content |-> None, text |-> {}]
Raised(exc, text) == [kind |-> exc, content |-> None, text |-> text]

AllOutcomes ==
    {Completion(content) : content \in Contents}
    \cup {EmptyAnswer}
    \cup {Raised(exc, text) : exc \in Exceptions, text \in ExcTexts}

ASSUME OutcomesAssumption == Outcomes \subseteq AllOutcomes

-----------------------------------------------------------------------------
\* A model without a prefix is taken for one of openai.
Prefix(model) == IF model.vendor = None THEN "openai" ELSE model.vendor

\* ProviderFactory.get_provider raises ProviderNotFoundError for the rest.
HasProvider(model) == Prefix(model) \in LITELLM_PREFIXES

\* The words LiteLLMProvider.complete itself puts in front of the exception.
Preamble(exc) == IF exc = "RateLimitError" THEN {"rate limit"} ELSE {}

\* str(exc) of the ProviderError that complete raises for this outcome.
Reason(outcome) == Preamble(outcome.kind) \cup outcome.text

Answered(outcome) == outcome.kind = "completion"
RaisesProviderError(outcome) == outcome.kind \in Exceptions

\* An answer without choices fails on choices[0], outside complete's try.
Malformed(outcome) == outcome.kind = "no_choices"

\* ProviderOrchestrator._is_recoverable_failure
\* Slip: every failure is recoverable.
IsRecoverableFailure_Always(reason) == TRUE
IsRecoverableFailure(reason) == reason \cap RECOVERABLE_FAILURE_MARKERS # {}
=============================================================================
