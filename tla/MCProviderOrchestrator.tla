------------------------ MODULE MCProviderOrchestrator ------------------------
(* Instances of ProviderOrchestrator for model checking. *)
EXTENDS ProviderOrchestrator

CONSTANTS c1

MCVendors == {"openai", "gemini", "anthropic"}
MCPrefixes == {"openai", "gemini"}
MCExcTexts == {{}, {"timed out"}}
MCOutcomes == AllOutcomes

M(v, b) == [vendor |-> v, base |-> b]

MCRequests == {[model |-> M("openai", "m"), messages |-> "hello",
                timeout_seconds |-> 50]}

\* Every list of at most three configurations, an unregistered vendor and a
\* configuration without a model among them.
Entries == Models \cup {NoModel}
MCConfigLists == UNION {[1 .. n -> Entries] : n \in 0 .. 3}
=============================================================================
