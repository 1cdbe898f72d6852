------------------------- MODULE ProviderOrchestrator -------------------------
(***************************************************************************)
(* ProviderOrchestrator.execute: the failover loop over the providers of a *)
(* policy.  The orchestrator keeps nothing between calls; `exec' holds the *)
(* locals of every execution in flight (one asyncio task each, switched    *)
(* only at `await provider.complete').  `asked' and `answers' belong to    *)
(* the outside world: the requests the providers received on behalf of     *)
(* each call and what LiteLLM did with them.                               *)
(***************************************************************************)
EXTENDS LLMProviders

CONSTANTS
    Calls,           \* executions, one per chat request
    Requests,        \* the shared ProviderRequests
    ConfigLists,     \* lists of provider configurations
    Strategies       \* values of strategy_name, None included

VARIABLES
    exec,            \* locals of each execution
    asked,           \* what providers were sent for each call, in order
    answers          \* what LiteLLM did with each of those, in order

vars == <<exec, asked, answers>>

NoModel == [vendor |-> None, base |-> None]   \* a config without a usable model

ASSUME RequestsAssumption == Requests \subseteq ProviderRequests

ASSUME ConfigListsAssumption == ConfigLists \subseteq Seq(Models \cup {NoModel})

\* How execute can raise: ValueError and the IndexError of an answer without
\* choices are not GatewayErrors, the others are.
Errors == {"not_implemented", "value_error", "provider_not_found",
           "non_recoverable", "all_providers_failed", "no_providers",
           "index_error"}

Attempts == [provider : Vendors, status : {"success", "failed"}]

Failures == [model : Models, reason : SUBSET RECOVERABLE_FAILURE_MARKERS]

Responses == [content : Contents, provider : Vendors,
              provider_chain : Seq(Vendors), attempts : Nat,
              fallback_used : BOOLEAN, attempt_history : Seq(Attempts)]

NotStarted ==
    [pc |-> "idle", request |-> None, configs |-> <<>>, attempt |-> 0,
     attempted_providers |-> <<>>, attempt_history |-> <<>>,
     failures |-> <<>>, response |-> None, error |-> None]

Init ==
    /\ exec = [c \in Calls |-> NotStarted]
    /\ asked = [c \in Calls |-> <<>>]
    /\ answers = [c \in Calls |-> <<>>]

-----------------------------------------------------------------------------
\* ProviderSelectionStrategyFactory.build raises NotImplementedError otherwise.
IsImplemented(strategy) == strategy \in {None, "sequential"}

\* SequentialProviderSelectionStrategy.select
Select(configs) == configs

Raise(c, error) ==
    exec' = [exec EXCEPT ![c].pc = "raised", ![c].error = error]

NextModel(c) == exec[c].configs[exec[c].attempt + 1]

HasNext(c) == exec[c].pc = "loop" /\ exec[c].attempt < Len(exec[c].configs)

\* The model of the attempt whose answer is awaited.
Current(c) == exec[c].configs[exec[c].attempt]

-----------------------------------------------------------------------------
(***************************************************************************)
(* Execute: a caller enters execute; an unimplemented strategy is refused  *)
(* before any provider is tried.                                           *)
(***************************************************************************)
Execute(c, request, configs, strategy) ==
    /\ exec[c].pc = "idle"
    /\ exec' = [exec EXCEPT ![c] =
          IF IsImplemented(strategy)
          THEN [NotStarted EXCEPT !.pc = "loop", !.request = request,
                                  !.configs = Select(configs)]
          ELSE [NotStarted EXCEPT !.pc = "raised", !.error = "not_implemented"]]
    /\ UNCHANGED <<asked, answers>>

(***************************************************************************)
(* RejectConfig, RejectVendor: the next configuration has no usable model, *)
(* or one no provider is registered for.  Both raise outside the try, so   *)
(* the rest of the chain is not tried.                                     *)
(***************************************************************************)
RejectConfig(c) ==
    /\ HasNext(c)
    /\ NextModel(c) = NoModel
    /\ exec' = [exec EXCEPT ![c].pc = "raised", ![c].error = "value_error",
                            ![c].attempt = @ + 1]
    /\ UNCHANGED <<asked, answers>>

\* Slip: the loop continues without moving on from a vendor it cannot use.
RejectVendor_Spins(c) ==
    /\ HasNext(c)
    /\ NextModel(c) # NoModel
    /\ ~HasProvider(NextModel(c))
    /\ UNCHANGED <<exec, asked, answers>>
RejectVendor(c) ==
    /\ HasNext(c)
    /\ NextModel(c) # NoModel
    /\ ~HasProvider(NextModel(c))
    /\ exec' = [exec EXCEPT ![c].pc = "raised",
                            ![c].error = "provider_not_found",
                            ![c].attempt = @ + 1]
    /\ UNCHANGED <<asked, answers>>

(***************************************************************************)
(* Ask: the next provider is sent the shared request with only its model   *)
(* replaced, and its answer is awaited.                                    *)
(***************************************************************************)
Ask(c) ==
    /\ HasNext(c)
    /\ NextModel(c) # NoModel
    /\ HasProvider(NextModel(c))
    /\ exec' = [exec EXCEPT
          ![c].pc = "awaiting",
          ![c].attempt = @ + 1,
          ![c].attempted_providers = Append(@, NextModel(c).vendor)]
    /\ asked' = [asked EXCEPT ![c] =
          Append(@, [exec[c].request EXCEPT !.model = NextModel(c)])]
    /\ UNCHANGED answers

\* LiteLLM finishes the awaited call of c in this way.
Answer(c, outcome) ==
    /\ exec[c].pc = "awaiting"
    /\ answers' = [answers EXCEPT ![c] = Append(@, outcome)]
    /\ UNCHANGED asked

\* response.raw["fallback_used"] = attempt > 1
\* Slip: off by one.
FallbackUsed_OffByOne(attempt) == attempt > 2
FallbackUsed(attempt) == attempt > 1

\* The attempt_history of a response ends with its own attempt.
Succeeded(c, content) ==
    [content |-> content, provider |-> Current(c).vendor,
     provider_chain |-> exec[c].attempted_providers,
     attempts |-> exec[c].attempt,
     fallback_used |-> FallbackUsed(exec[c].attempt),
     attempt_history |-> Append(exec[c].attempt_history,
         [provider |-> Current(c).vendor, status |-> "success"])]

\* Slip: the attempt is recorded with the provider of a response that never
\* came.
Failed_NoProvider(e, model, reason, pc, error) ==
    [e EXCEPT !.pc = pc, !.error = error,
       !.failures = Append(@, [model |-> model, reason |-> reason]),
       !.attempt_history =
          Append(@, [provider |-> e.response, status |-> "failed"])]

\* A ProviderError of the attempt with this model goes on record.
Failed(e, model, reason, pc, error) ==
    [e EXCEPT !.pc = pc, !.error = error,
       !.failures = Append(@, [model |-> model, reason |-> reason]),
       !.attempt_history =
          Append(@, [provider |-> model.vendor, status |-> "failed"])]

(***************************************************************************)
(* Succeed: the first answer ends the chain and carries its metadata.      *)
(***************************************************************************)
Succeed(c) ==
    \E outcome \in Outcomes :
        /\ Answered(outcome)
        /\ Answer(c, outcome)
        /\ exec' = [exec EXCEPT ![c].pc = "returned",
                                ![c].response = Succeeded(c, outcome.content)]

(***************************************************************************)
(* FailOver: a ProviderError whose text looks transient is recorded and    *)
(* the loop goes on.                                                       *)
(***************************************************************************)
FailOver(c) ==
    \E outcome \in Outcomes :
        /\ RaisesProviderError(outcome)
        /\ IsRecoverableFailure(Reason(outcome))
        /\ Answer(c, outcome)
        /\ exec' = [exec EXCEPT ![c] =
              Failed(@, Current(c), Reason(outcome), "loop", None)]

(***************************************************************************)
(* Abort: any other ProviderError is recorded and raised at once.          *)
(***************************************************************************)
Abort(c) ==
    \E outcome \in Outcomes :
        /\ RaisesProviderError(outcome)
        /\ ~IsRecoverableFailure(Reason(outcome))
        /\ Answer(c, outcome)
        /\ exec' = [exec EXCEPT ![c] =
              Failed(@, Current(c), Reason(outcome), "raised",
                     "non_recoverable")]

\* Slip: every exception is caught, and taken for a transient failure.
Crash_CaughtAndSkipped(c) ==
    \E outcome \in Outcomes :
        /\ Malformed(outcome)
        /\ Answer(c, outcome)
        /\ exec' = [exec EXCEPT ![c] = Failed(@, Current(c), {}, "loop", None)]

(***************************************************************************)
(* Crash: the adapter fails on an answer without choices; execute catches  *)
(* ProviderError only, so nothing is recorded and no fallback is tried.    *)
(***************************************************************************)
Crash(c) ==
    \E outcome \in Outcomes :
        /\ Malformed(outcome)
        /\ Answer(c, outcome)
        /\ Raise(c, "index_error")

\* Slip: the loop stops one configuration early.
Exhaust_Early(c) ==
    /\ exec[c].pc = "loop"
    /\ exec[c].attempt + 1 >= Len(exec[c].configs)
    /\ Raise(c, IF exec[c].failures # <<>> THEN "all_providers_failed"
                                           ELSE "no_providers")
    /\ UNCHANGED <<asked, answers>>

(***************************************************************************)
(* Exhaust: the loop has run through every configuration.                  *)
(***************************************************************************)
Exhaust(c) ==
    /\ exec[c].pc = "loop"
    /\ exec[c].attempt = Len(exec[c].configs)
    /\ Raise(c, IF exec[c].failures # <<>> THEN "all_providers_failed"
                                           ELSE "no_providers")
    /\ UNCHANGED <<asked, answers>>

-----------------------------------------------------------------------------
\* The steps of an execution that has been entered.
Progress(c) ==
    \/ RejectConfig(c)
    \/ RejectVendor(c)
    \/ Ask(c)
    \/ Succeed(c)
    \/ FailOver(c)
    \/ Abort(c)
    \/ Crash(c)
    \/ Exhaust(c)

Enter(c) ==
    \E request \in Requests, configs \in ConfigLists, strategy \in Strategies :
        Execute(c, request, configs, strategy)

Next == \E c \in Calls : Enter(c) \/ Progress(c)

(***************************************************************************)
(* The event loop runs every ready task, and a provider call ends: LiteLLM *)
(* is given a timeout.                                                     *)
(***************************************************************************)
Fairness == \A c \in Calls : WF_vars(Progress(c))

Spec == Init /\ [][Next]_vars /\ Fairness

-----------------------------------------------------------------------------
(***************************************************************************)
(* Properties                                                              *)
(***************************************************************************)
ExecRecords ==
    [pc : {"idle", "loop", "awaiting", "returned", "raised"},
     request : Requests \cup {None},
     configs : Seq(Models \cup {NoModel}),
     attempt : Nat,
     attempted_providers : Seq(Vendors),
     attempt_history : Seq(Attempts),
     failures : Seq(Failures),
     response : Responses \cup {None},
     error : Errors \cup {None}]

\* Types of the locals of every execution and of the provider traffic.
TypeOK ==
    /\ exec \in [Calls -> ExecRecords]
    /\ asked \in [Calls -> Seq(ProviderRequests)]
    /\ answers \in [Calls -> Seq(AllOutcomes)]

\* What the documentation calls a recoverable failure, told from what LiteLLM
\* raised rather than from the orchestrator's own classification.
Transient(outcome) ==
    /\ outcome.kind \in Exceptions
    /\ \/ outcome.kind = "RateLimitError"
       \/ outcome.text \cap {"timeout", "timed out", "quota", "temporar",
                             "network", "connection", "rate limit"} # {}

(***************************************************************************)
(* Providers are asked in the order of the policy, none is skipped or      *)
(* asked twice, and a provider is asked only after every one before it has *)
(* failed in a way that can pass (provider_orchestrator.py:92-185).        *)
(***************************************************************************)
InOrder(c) ==
    /\ Len(asked[c]) <= Len(exec[c].configs)
    /\ \A k \in 1 .. Len(asked[c]) :
          asked[c][k] = [exec[c].request EXCEPT !.model = exec[c].configs[k]]
    /\ \A k \in 1 .. Len(asked[c]) - 1 : Transient(answers[c][k])

FailoverInOrder == \A c \in Calls : InOrder(c)

(***************************************************************************)
(* What the reply says about failover is what happened: provider_chain     *)
(* lists the vendors asked, attempts counts them, fallback_used tells      *)
(* whether there was more than one, attempt_history marks all but the last *)
(* as failed, and the content is the last provider's.                      *)
(***************************************************************************)
TruthfulMetadata(c) ==
    exec[c].pc = "returned" =>
        LET reply == exec[c].response
            n == Len(asked[c])
        IN  /\ n > 0 /\ Len(answers[c]) = n
            /\ reply.content = answers[c][n].content
            /\ answers[c][n].kind = "completion"
            /\ reply.provider = asked[c][n].model.vendor
            /\ reply.provider_chain = [k \in 1 .. n |-> asked[c][k].model.vendor]
            /\ reply.attempts = n
            /\ reply.fallback_used = (n # 1)
            /\ reply.attempt_history =
                  [k \in 1 .. n |-> [provider |-> asked[c][k].model.vendor,
                                     status |-> IF k = n THEN "success" ELSE "failed"]]

MetadataTruthful == \A c \in Calls : TruthfulMetadata(c)

(***************************************************************************)
(* "All providers failed" is raised only when every configured provider    *)
(* was asked and failed transiently, and a completion that arrived is      *)
(* never turned into an error (provider_orchestrator.py:181-185).          *)
(***************************************************************************)
TruthfulError(c) ==
    exec[c].pc = "raised" =>
        /\ exec[c].error = "all_providers_failed" =>
              /\ Len(exec[c].failures) = Len(exec[c].configs)
              /\ Len(answers[c]) = Len(exec[c].configs)
              /\ \A k \in 1 .. Len(answers[c]) : Transient(answers[c][k])
        /\ exec[c].error = "no_providers" => exec[c].configs = <<>>
        /\ \A k \in 1 .. Len(answers[c]) : answers[c][k].kind # "completion"

ErrorsTruthful == \A c \in Calls : TruthfulError(c)

(***************************************************************************)
(* What every step of an execution relies on: the attempt counter is the   *)
(* number of providers asked, an answer is missing exactly while one is    *)
(* awaited, and the execution is alive only as long as every answer so far *)
(* was a transient failure.                                                *)
(***************************************************************************)
Bookkeeping(c) ==
    LET e == exec[c]
    IN  /\ e.pc = "idle" => asked[c] = <<>> /\ answers[c] = <<>>
        /\ e.pc \in {"loop", "awaiting"} =>
              /\ e.request \in Requests
              /\ e.response = None /\ e.error = None
              /\ e.attempt = Len(asked[c])
              /\ \A k \in 1 .. Len(answers[c]) : Transient(answers[c][k])
        /\ e.pc = "loop" => Len(answers[c]) = Len(asked[c])
        /\ e.pc = "awaiting" => /\ Len(asked[c]) = Len(answers[c]) + 1
                               /\ e.configs[e.attempt] \in Models
        /\ e.pc \in {"loop", "awaiting"} => Len(e.failures) = Len(answers[c])
        /\ Len(answers[c]) <= Len(asked[c])

Consistent(c) == InOrder(c) /\ TruthfulError(c) /\ Bookkeeping(c)

Inv == \A c \in Calls : Consistent(c)

(***************************************************************************)
(* Once a call of an execution has failed for good, or has succeeded, no   *)
(* step sends that execution's request anywhere else, and what it returned *)
(* or raised is final (provider_orchestrator.py:139, 177).                 *)
(***************************************************************************)
NothingAfterTheEnd ==
    [][\A c \in Calls :
          (\E k \in 1 .. Len(answers[c]) : ~Transient(answers[c][k]))
              => /\ asked'[c] = asked[c]
                 /\ exec'[c].response = exec[c].response
                 /\ exec'[c].error = exec[c].error]_vars

(***************************************************************************)
(* Every execution that is entered returns or raises.                      *)
(***************************************************************************)
EveryExecutionEnds ==
    \A c \in Calls :
        (exec[c].pc \in {"loop", "awaiting"})
            ~> (exec[c].pc \in {"returned", "raised"})
=============================================================================
