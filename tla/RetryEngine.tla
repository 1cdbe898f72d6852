----------------------------- MODULE RetryEngine ------------------------------
(***************************************************************************)
(* RetryEngine.run: the correct-and-retry loop.  The engine is one shared  *)
(* stateless object; `retry' holds the locals of each run (one per chat    *)
(* request whose first answer failed output validation), which waits at    *)
(* `await provider.complete'.  `asked' and `answers' are the provider      *)
(* traffic of each call, as in ProviderOrchestrator.                       *)
(***************************************************************************)
EXTENDS Guardrails

CONSTANTS
    Calls,          \* runs of the engine
    Contexts        \* RetryContexts it is called with

VARIABLES retry, asked, answers

vars == <<retry, asked, answers>>

ASSUME ContextsAssumption ==
    \A ctx \in Contexts :
        /\ ctx.prompt \in Prompts
        /\ ctx.policy \in PolicyRecords

\* The user message: the original prompt below a list of repair hints, one
\* for each violation code, under a header that shows the attempt number.
Plain(prompt) == [text |-> prompt, hints |-> {}, attempt |-> 0]

UserMessages == [text : Prompts, hints : SUBSET Codes, attempt : Nat]

\* MessageLists has every conversation the engine can send.
ASSUME MessagesAssumption ==
    \A ctx \in Contexts :
        \A hints \in SUBSET Codes, n \in 0 .. ctx.policy.retry.max_attempts :
            [history |-> ctx.conversation_history,
             prompt |-> [text |-> ctx.prompt, hints |-> hints, attempt |-> n]]
                \in MessageLists

\* How a run can raise: ProviderError, IndexError, what json.loads raises,
\* MaxRetriesExceededError.
RunErrors ==
    {"provider_error", "index_error", "json_error", "max_retries_exceeded"}

ASSUME NoneAssumption == None \notin RunErrors

NotStarted ==
    [pc |-> "idle", ctx |-> None, attempt |-> 0, current_prompt |-> None,
     response |-> None, error |-> None]

Init ==
    /\ retry = [c \in Calls |-> NotStarted]
    /\ asked = [c \in Calls |-> <<>>]
    /\ answers = [c \in Calls |-> <<>>]

-----------------------------------------------------------------------------
MaxAttempts(c) == retry[c].ctx.policy.retry.max_attempts

\* PromptCorrector.build_correction
\* Slip: corrections are stacked on one another, hints piling up.
BuildCorrection_Stacked(c, violations, attempt) ==
    [text |-> retry[c].ctx.prompt,
     hints |-> retry[c].current_prompt.hints \cup CodesOf(violations),
     attempt |-> attempt]
BuildCorrection(c, violations, attempt) ==
    [text |-> retry[c].ctx.prompt, hints |-> CodesOf(violations),
     attempt |-> attempt]

RequestOf(c) ==
    [model |-> LitellmModel(retry[c].ctx.policy),
     messages |-> [history |-> retry[c].ctx.conversation_history,
                   prompt |-> retry[c].current_prompt],
     timeout_seconds |-> retry[c].ctx.policy.provider.primary.timeout_seconds]

\* Slip: the vendor is taken from the policy's model, which may have none.
Response_OwnPrefix(c, content) ==
    [content |-> content,
     provider |-> retry[c].ctx.policy.provider.primary.model.vendor]
Response(c, content) ==
    [content |-> content, provider |-> LitellmModel(retry[c].ctx.policy).vendor]

\* The output guardrails see the completion and the original prompt.
Check(c, content) == ValidateOutput(content, retry[c].ctx.policy,
                                    retry[c].ctx.prompt)

CheckRaises(c, content) == OutputRaises(content, retry[c].ctx.policy)

-----------------------------------------------------------------------------
(***************************************************************************)
(* Run: the gateway enters the loop with the original prompt.              *)
(***************************************************************************)
Run(c, ctx) ==
    /\ retry[c].pc = "idle"
    /\ retry' = [retry EXCEPT ![c] =
          [NotStarted EXCEPT !.pc = "loop", !.ctx = ctx,
                             !.current_prompt = Plain(ctx.prompt)]]
    /\ UNCHANGED <<asked, answers>>

\* range(1, max_attempts + 1)
\* Slip: range(0, max_attempts + 1).
MayAttempt_OneMore(c) == retry[c].attempt < MaxAttempts(c) + 1
MayAttempt(c) == retry[c].attempt < MaxAttempts(c)

(***************************************************************************)
(* Send: the next attempt calls the provider with the current prompt.      *)
(***************************************************************************)
Send(c) ==
    /\ retry[c].pc = "loop"
    /\ MayAttempt(c)
    /\ retry' = [retry EXCEPT ![c].pc = "awaiting", ![c].attempt = @ + 1]
    /\ asked' = [asked EXCEPT ![c] = Append(@, RequestOf(c))]
    /\ UNCHANGED answers

\* LiteLLM finishes the awaited call of c in this way.
Answer(c, outcome) ==
    /\ retry[c].pc = "awaiting"
    /\ answers' = [answers EXCEPT ![c] = Append(@, outcome)]
    /\ UNCHANGED asked

(***************************************************************************)
(* Accept: the answer passes output validation and is returned.            *)
(***************************************************************************)
Accept(c) ==
    \E outcome \in Outcomes :
        /\ Answered(outcome)
        /\ Answer(c, outcome)
        /\ ~CheckRaises(c, outcome.content)
        /\ Check(c, outcome.content).passed
        /\ retry' = [retry EXCEPT ![c].pc = "returned",
                                  ![c].response = Response(c, outcome.content)]

(***************************************************************************)
(* Reject: the answer fails, and if an attempt is left its prompt is the   *)
(* correction for the violations just found.                               *)
(***************************************************************************)
Reject(c) ==
    \E outcome \in Outcomes :
        /\ Answered(outcome)
        /\ Answer(c, outcome)
        /\ ~CheckRaises(c, outcome.content)
        /\ ~Check(c, outcome.content).passed
        /\ retry' = [retry EXCEPT
              ![c].pc = "loop",
              ![c].current_prompt =
                  IF retry[c].attempt < MaxAttempts(c)
                  THEN BuildCorrection(c, Check(c, outcome.content).violations,
                                       retry[c].attempt + 1)
                  ELSE @]

\* Slip: whatever is raised counts as one more failed attempt.
Fail_Retried(c) ==
    \E outcome \in Outcomes :
        /\ Answer(c, outcome)
        /\ ~Answered(outcome) \/ CheckRaises(c, outcome.content)
        /\ retry' = [retry EXCEPT ![c].pc = "loop"]

(***************************************************************************)
(* Fail: run has no handler, so what the provider or the check of its      *)
(* answer raises ends the loop.                                            *)
(***************************************************************************)
Fail(c) ==
    \E outcome \in Outcomes :
        /\ Answer(c, outcome)
        /\ ~Answered(outcome) \/ CheckRaises(c, outcome.content)
        /\ retry' = [retry EXCEPT
              ![c].pc = "raised",
              ![c].error = CASE RaisesProviderError(outcome) -> "provider_error"
                             [] Malformed(outcome) -> "index_error"
                             [] Answered(outcome) -> "json_error"]

\* Slip: the loop never gives up.
Exhaust_Beyond(c) ==
    /\ retry[c].pc = "loop"
    /\ retry[c].attempt > MaxAttempts(c)
    /\ retry' = [retry EXCEPT ![c].pc = "raised",
                              ![c].error = "max_retries_exceeded"]
    /\ UNCHANGED <<asked, answers>>

(***************************************************************************)
(* Exhaust: MaxRetriesExceededError after the last attempt.                *)
(***************************************************************************)
Exhaust(c) ==
    /\ retry[c].pc = "loop"
    /\ ~MayAttempt(c)
    /\ retry' = [retry EXCEPT ![c].pc = "raised",
                              ![c].error = "max_retries_exceeded"]
    /\ UNCHANGED <<asked, answers>>

-----------------------------------------------------------------------------
Progress(c) == Send(c) \/ Accept(c) \/ Reject(c) \/ Fail(c) \/ Exhaust(c)

Next == \E c \in Calls : (\E ctx \in Contexts : Run(c, ctx)) \/ Progress(c)

\* The event loop runs ready tasks and provider calls end (they time out).
Fairness == \A c \in Calls : WF_vars(Progress(c))

Spec == Init /\ [][Next]_vars /\ Fairness

-----------------------------------------------------------------------------
(***************************************************************************)
(* Properties                                                              *)
(***************************************************************************)
\* Types of the locals of every run and of the provider traffic.
TypeOK ==
    /\ retry \in [Calls ->
          [pc : {"idle", "loop", "awaiting", "returned", "raised"},
           ctx : Contexts \cup {None},
           attempt : Nat,
           current_prompt : UserMessages \cup {None},
           response : [content : Contents, provider : Vendors] \cup {None},
           error : RunErrors \cup {None}]]
    /\ asked \in [Calls -> Seq(ProviderRequests)]
    /\ answers \in [Calls -> Seq(AllOutcomes)]

\* What the run's policy minds in an answer to the user's prompt.
Minded(c, outcome) ==
    {v \in OutputFlags[retry[c].ctx.prompt, outcome.content] :
        retry[c].ctx.policy.output_guardrails[v.guardrail].enabled}

\* The policy has its answers decoded, and this one cannot be.
Undecoded(c, outcome) ==
    /\ outcome.content \in Undecodable
    /\ retry[c].ctx.policy.output_guardrails["json_schema"].enabled

\* A completion in which the policy minds nothing, and one it does mind.
Passes(c, outcome) ==
    /\ outcome.kind = "completion"
    /\ ~Undecoded(c, outcome)
    /\ Minded(c, outcome) = {}

Rejected(c, outcome) ==
    /\ outcome.kind = "completion"
    /\ ~Undecoded(c, outcome)
    /\ Minded(c, outcome) # {}

(***************************************************************************)
(* The provider is asked at most max_attempts times, and the engine gives  *)
(* up only after exactly that many completions have been rejected          *)
(* (engine.py:77, 118).                                                    *)
(***************************************************************************)
InBudget(c) ==
    retry[c].pc # "idle" =>
        /\ Len(asked[c]) <= MaxAttempts(c)
        /\ retry[c].error = "max_retries_exceeded" =>
              /\ Len(answers[c]) = MaxAttempts(c)
              /\ \A k \in 1 .. Len(answers[c]) : Rejected(c, answers[c][k])

RetryBudget == \A c \in Calls : InBudget(c)

(***************************************************************************)
(* From the second attempt on, the prompt asks for the repair of exactly   *)
(* the violations of the answer before it: neither those of older answers  *)
(* nor none, and it wraps the user's own prompt, not an earlier correction *)
(* (engine.py:112-115).  Every attempt keeps the conversation, the model   *)
(* and the timeout.                                                        *)
(***************************************************************************)
Corrected(c) ==
    \A k \in 1 .. Len(asked[c]) :
        LET request == asked[c][k]
            ctx == retry[c].ctx
        IN  /\ request.model = LitellmModel(ctx.policy)
            /\ request.timeout_seconds = ctx.policy.provider.primary.timeout_seconds
            /\ request.messages.history = ctx.conversation_history
            /\ request.messages.prompt.text = ctx.prompt
            /\ k > 1 => /\ request.messages.prompt.attempt = k
                        /\ request.messages.prompt.hints =
                              {v.code : v \in Minded(c, answers[c][k - 1])}

CorrectionsMatch == \A c \in Calls : Corrected(c)

(***************************************************************************)
(* What run returns is the last answer, it passes the run's policy, and    *)
(* the attempts reported are the calls made (engine.py:101-103).           *)
(***************************************************************************)
Delivered(c) ==
    retry[c].pc = "returned" =>
        LET n == Len(answers[c])
        IN  /\ n = retry[c].attempt /\ n = Len(asked[c]) /\ n > 0
            /\ Passes(c, answers[c][n])
            /\ retry[c].response.content = answers[c][n].content

ReturnedPasses == \A c \in Calls : Delivered(c)

(***************************************************************************)
(* An acceptable completion, a provider that raised, or a completion on    *)
(* which the check itself raised, is the end of a run: no step asks again  *)
(* for the same run afterwards (engine.py:88-103).                         *)
(***************************************************************************)
StopsOnAcceptable ==
    [][\A c \in Calls :
          (\E k \in 1 .. Len(answers[c]) : ~Rejected(c, answers[c][k]))
          => asked'[c] = asked[c] /\ retry'[c] = retry[c]]_vars

(***************************************************************************)
(* Every run that is entered returns or raises.                            *)
(***************************************************************************)
EveryRunEnds ==
    \A c \in Calls : retry[c].pc \in {"loop", "awaiting"}
                         ~> retry[c].pc \in {"returned", "raised"}
=============================================================================
