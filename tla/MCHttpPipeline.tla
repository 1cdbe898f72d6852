---------------------------- MODULE MCHttpPipeline ----------------------------
(* Two HTTP requests side by side on the policies and outcomes of MCGateway. *)
EXTENDS HttpPipeline, MCGateway

Chatting(header, body) ==
    [endpoint |-> "chat", header |-> header, well_formed |-> TRUE, body |-> body]

Calling(endpoint, header, id) ==
    [endpoint |-> endpoint, header |-> header, well_formed |-> TRUE, policy_id |-> id]

\* One request of each kind; ids that are sent, empty and missing.
MCHttpRequests ==
    {Chatting(None, PlainBody), Chatting("id", OverrideBody),
     Chatting("", OtherBody), Chatting("id", UnknownBody),
     [Chatting(None, PlainBody) EXCEPT !.well_formed = FALSE],
     Calling("reload", "id", "default"), Calling("reload", None, None),
     Calling("validate", "", "other"), Calling("validate", "id", None),
     Calling("list", None, None), Calling("health", "id", None)}

HttpBodies == {PlainBody, OverrideBody, OtherBody, UnknownBody}
\* The next version of the default policy: its model has a prefix of its own,
\* its fallback no provider, it minds other texts and allows no retry.
Default3 ==
    [Default1 EXCEPT !.provider.primary = Point("openai", "ollama"),
                     !.provider.fallbacks = <<Point("anthropic", None)>>,
                     !.output_guardrails = Checks(OutputGuardrails,
                                               {"secret_leakage"}, "block"),
                     !.retry.max_attempts = 0]

HttpPolicies == {Default1, Default3, OtherStrategy}
HttpDirectories == {<<Default1, OtherStrategy>>, <<Default3>>}
HttpOutcomes ==
    {Completion("good"), Completion("toxic"), Completion("leaky"),
     Raised("RateLimitError", {}), EmptyAnswer}
=============================================================================
