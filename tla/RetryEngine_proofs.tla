-------------------------- MODULE RetryEngine_proofs ---------------------------
(***************************************************************************)
(* Proofs about RetryEngine, for every set of runs, contexts, guardrail    *)
(* findings and outcomes, and for every retry budget.                      *)
(***************************************************************************)
EXTENDS RetryEngine, Guardrails_proofs, SequenceTheorems

Locals ==
    [pc : {"idle", "loop", "awaiting", "returned", "raised"},
     ctx : Contexts \cup {None},
     attempt : Nat,
     current_prompt : UserMessages \cup {None},
     response : [content : Contents, provider : Vendors] \cup {None},
     error : RunErrors \cup {None}]

-----------------------------------------------------------------------------
(***************************************************************************)
(* The inductive invariant                                                 *)
(***************************************************************************)
Alive(c) == retry[c].pc \in {"loop", "awaiting"}

\* The attempt counter is the number of calls made, an answer is missing
\* exactly while one is awaited, and a run goes on only as long as every
\* answer was a completion its policy rejects.
Counted(c) ==
    LET l == retry[c]
    IN  /\ l.pc = "idle" => /\ asked[c] = <<>> /\ answers[c] = <<>>
                           /\ l.error = None
        /\ l.pc # "idle" => /\ l.ctx \in Contexts
                           /\ l.attempt = Len(asked[c])
                           /\ l.attempt <= MaxAttempts(c)
        /\ l.pc = "awaiting" => Len(asked[c]) = Len(answers[c]) + 1
        /\ l.pc # "awaiting" => Len(asked[c]) = Len(answers[c])
        /\ Alive(c) => /\ l.error = None
                       /\ \A k \in 1 .. Len(answers[c]) : Rejected(c, answers[c][k])

\* Before each attempt, the prompt is the one that attempt is to send.
PromptReady(c) ==
    LET l == retry[c]
    IN  l.pc = "loop" /\ l.attempt < MaxAttempts(c) =>
          /\ l.current_prompt \in UserMessages
          /\ l.current_prompt.text = l.ctx.prompt
          /\ l.current_prompt.attempt <= MaxAttempts(c)
          /\ l.attempt > 0 =>
                /\ l.current_prompt.attempt = l.attempt + 1
                /\ l.current_prompt.hints =
                      {v.code : v \in Minded(c, answers[c][l.attempt])}

Consistent(c) ==
    /\ Counted(c) /\ PromptReady(c)
    /\ InBudget(c) /\ Corrected(c) /\ Delivered(c)

Inv == \A c \in Calls : Consistent(c)

-----------------------------------------------------------------------------
(***************************************************************************)
(* Operators                                                               *)
(***************************************************************************)
(***************************************************************************)
(* A completion carries one of the contents.                               *)
(***************************************************************************)
LEMMA CompletionContent ==
    ASSUME NEW outcome \in AllOutcomes, Answered(outcome)
    PROVE  outcome.content \in Contents
BY DEF AllOutcomes, Answered, Completion, EmptyAnswer, Raised, Exceptions

(***************************************************************************)
(* The check that decides between Accept, Reject and Fail says of a        *)
(* completion what Passes and Rejected say, and the violations it hands to *)
(* the corrector are those the policy minds.                               *)
(***************************************************************************)
LEMMA CheckDecides ==
    ASSUME NEW c \in Calls, retry[c].ctx \in Contexts,
           NEW outcome \in AllOutcomes, Answered(outcome)
    PROVE  /\ CheckRaises(c, outcome.content) <=> Undecoded(c, outcome)
           /\ ~CheckRaises(c, outcome.content) =>
                 /\ Check(c, outcome.content).passed => Passes(c, outcome)
                 /\ ~Check(c, outcome.content).passed => Rejected(c, outcome)
           /\ Check(c, outcome.content).violations = Minded(c, outcome)
           /\ CodesOf(Minded(c, outcome)) \in SUBSET Codes
<1>1. /\ retry[c].ctx.policy \in PolicyRecords
      /\ retry[c].ctx.prompt \in Prompts
  BY ContextsAssumption
<1>2. outcome.content \in Contents
  BY CompletionContent
<1>3. /\ Check(c, outcome.content).passed <=> Minded(c, outcome) = {}
      /\ Check(c, outcome.content).violations = Minded(c, outcome)
      /\ Minded(c, outcome) \subseteq Violations(OutputGuardrails)
  BY <1>1, <1>2, OutputVerdict DEF Check, Minded
<1>4. CodesOf(Minded(c, outcome)) \in SUBSET Codes
  BY <1>3 DEF CodesOf, Violations
<1>5. CheckRaises(c, outcome.content) <=> Undecoded(c, outcome)
  BY OutputRaisesWhen DEF CheckRaises, Undecoded
<1> QED
  BY <1>3, <1>4, <1>5 DEF Passes, Rejected, Answered

(***************************************************************************)
(* LiteLLM has no other outcomes than those Fail tells apart.              *)
(***************************************************************************)
LEMMA FailNames ==
    ASSUME NEW outcome \in Outcomes
    PROVE  (CASE RaisesProviderError(outcome) -> "provider_error"
              [] Malformed(outcome) -> "index_error"
              [] Answered(outcome) -> "json_error")
           \in RunErrors \ {"max_retries_exceeded"}
<1>1. \/ RaisesProviderError(outcome) \/ Malformed(outcome)
      \/ Answered(outcome)
  BY OutcomesAssumption
  DEF AllOutcomes, Completion, EmptyAnswer, Raised, Answered, Malformed,
      RaisesProviderError
<1> QED
  BY <1>1 DEF RunErrors

(***************************************************************************)
(* The request of an attempt is a request to the policy's own model, for   *)
(* the conversation and the prompt of the run.                             *)
(***************************************************************************)
LEMMA RequestType ==
    ASSUME NEW c \in Calls, retry[c].ctx \in Contexts,
           retry[c].current_prompt \in UserMessages,
           retry[c].current_prompt.text = retry[c].ctx.prompt,
           retry[c].current_prompt.attempt <= MaxAttempts(c)
    PROVE  RequestOf(c) \in ProviderRequests
<1> DEFINE ctx == retry[c].ctx
           prompt == retry[c].current_prompt
<1>1. ctx.policy \in PolicyRecords
  BY ContextsAssumption
<1>2. LitellmModel(ctx.policy) \in Models
  BY <1>1, LitellmModelType
<1>3. ctx.policy.provider.primary.timeout_seconds \in Timeouts
  BY <1>1 DEF PolicyRecords, ProviderConfigs, Endpoints
<1>4. [history |-> ctx.conversation_history, prompt |-> prompt] \in MessageLists
  <2>1. prompt = [text |-> ctx.prompt, hints |-> prompt.hints,
                  attempt |-> prompt.attempt]
    BY DEF UserMessages
  <2>2. prompt.hints \in SUBSET Codes /\ prompt.attempt \in 0 .. MaxAttempts(c)
    BY <1>1 DEF UserMessages, MaxAttempts, PolicyRecords
  <2> QED
    BY <2>1, <2>2, MessagesAssumption DEF MaxAttempts
<1> QED
  BY <1>2, <1>3, <1>4 DEF RequestOf, ProviderRequests

-----------------------------------------------------------------------------
(***************************************************************************)
(* Types                                                                   *)
(***************************************************************************)
LEMMA NotStartedType == NotStarted \in Locals
BY DEF NotStarted, Locals

(***************************************************************************)
(* The types are right at the beginning.                                   *)
(***************************************************************************)
LEMMA TypeInit == Init => TypeOK
BY NotStartedType DEF Init, TypeOK, Locals

(***************************************************************************)
(* What an answer does to the types of the traffic.                        *)
(***************************************************************************)
LEMMA AnswerType ==
    ASSUME NEW c \in Calls, NEW outcome \in Outcomes, TypeOK, Answer(c, outcome)
    PROVE  /\ asked' \in [Calls -> Seq(ProviderRequests)]
           /\ answers' \in [Calls -> Seq(AllOutcomes)]
<1>1. /\ asked \in [Calls -> Seq(ProviderRequests)]
      /\ answers \in [Calls -> Seq(AllOutcomes)]
  BY DEF TypeOK
<1>2. Append(answers[c], outcome) \in Seq(AllOutcomes)
  BY <1>1, OutcomesAssumption, AppendProperties
<1> QED
  BY <1>1, <1>2 DEF Answer

(***************************************************************************)
(* Every step preserves the types.                                         *)
(***************************************************************************)
LEMMA TypeStep == TypeOK /\ Inv /\ [Next]_vars => TypeOK'
<1> SUFFICES ASSUME TypeOK, Inv, [Next]_vars PROVE TypeOK'
  OBVIOUS
<1>0. /\ retry \in [Calls -> Locals]
      /\ asked \in [Calls -> Seq(ProviderRequests)]
      /\ answers \in [Calls -> Seq(AllOutcomes)]
  BY DEF TypeOK, Locals
<1>1. SUFFICES /\ retry' \in [Calls -> Locals]
               /\ asked' \in [Calls -> Seq(ProviderRequests)]
               /\ answers' \in [Calls -> Seq(AllOutcomes)]
  BY <1>1 DEF TypeOK, Locals
<1>2. ASSUME NEW c \in Calls, retry[c].pc # "idle"
      PROVE  /\ retry[c] \in Locals
             /\ retry[c].ctx \in Contexts
             /\ retry[c].ctx.prompt \in Prompts
             /\ retry[c].ctx.policy \in PolicyRecords
             /\ MaxAttempts(c) \in Nat
  BY <1>0, <1>2, ContextsAssumption
  DEF Inv, Consistent, Counted, MaxAttempts, PolicyRecords
<1>3. ASSUME NEW c \in Calls, NEW ctx \in Contexts, Run(c, ctx)
      PROVE  retry' \in [Calls -> Locals]
  <2>1. Plain(ctx.prompt) \in UserMessages
    BY ContextsAssumption DEF Plain, UserMessages
  <2>2. [NotStarted EXCEPT !.pc = "loop", !.ctx = ctx,
                           !.current_prompt = Plain(ctx.prompt)] \in Locals
    BY <2>1, NotStartedType DEF Locals
  <2> QED
    BY <1>0, <1>3, <2>2 DEF Run
<1>4. ASSUME NEW c \in Calls, Send(c)
      PROVE  /\ retry' \in [Calls -> Locals]
             /\ asked' \in [Calls -> Seq(ProviderRequests)]
  <2>1. [retry[c] EXCEPT !.pc = "awaiting", !.attempt = @ + 1] \in Locals
    <3>1. retry[c] \in Locals /\ retry[c].attempt + 1 \in Nat
      BY <1>0 DEF Locals
    <3> QED
      BY <3>1 DEF Locals
  <2>2. RequestOf(c) \in ProviderRequests
    BY <1>2, <1>4, RequestType DEF Send, MayAttempt, Inv, Consistent, PromptReady
  <2>3. Append(asked[c], RequestOf(c)) \in Seq(ProviderRequests)
    BY <1>0, <2>2, AppendProperties
  <2> QED
    BY <1>0, <1>4, <2>1, <2>3 DEF Send
<1>5. ASSUME NEW c \in Calls, Accept(c)
      PROVE  /\ retry' \in [Calls -> Locals]
             /\ asked' \in [Calls -> Seq(ProviderRequests)]
             /\ answers' \in [Calls -> Seq(AllOutcomes)]
  <2> PICK outcome \in Outcomes :
        /\ Answered(outcome)
        /\ Answer(c, outcome)
        /\ retry' = [retry EXCEPT ![c].pc = "returned",
                                  ![c].response = Response(c, outcome.content)]
    BY <1>5 DEF Accept
  <2>1. retry[c].pc # "idle"
    BY DEF Answer
  <2>2. Response(c, outcome.content) \in [content : Contents, provider : Vendors]
    BY <1>2, <2>1, CompletionContent, OutcomesAssumption, LitellmModelType
    DEF Response, Models
  <2>3. [retry[c] EXCEPT !.pc = "returned",
                         !.response = Response(c, outcome.content)] \in Locals
    BY <1>2, <2>1, <2>2 DEF Locals
  <2> QED
    BY <1>0, <2>3, AnswerType
<1>6. ASSUME NEW c \in Calls, Reject(c)
      PROVE  /\ retry' \in [Calls -> Locals]
             /\ asked' \in [Calls -> Seq(ProviderRequests)]
             /\ answers' \in [Calls -> Seq(AllOutcomes)]
  <2> DEFINE correction(o) == BuildCorrection(c, Check(c, o.content).violations,
                                              retry[c].attempt + 1)
             next(o) == IF retry[c].attempt < MaxAttempts(c)
                        THEN correction(o) ELSE retry[c].current_prompt
  <2> PICK outcome \in Outcomes :
        /\ Answered(outcome)
        /\ Answer(c, outcome)
        /\ retry' = [retry EXCEPT ![c].pc = "loop",
                                  ![c].current_prompt = next(outcome)]
    BY <1>0, <1>6 DEF Reject
  <2>1. retry[c].pc # "idle"
    BY DEF Answer
  <2>2. correction(outcome) \in UserMessages
    BY <1>2, <2>1, CheckDecides, OutcomesAssumption
    DEF BuildCorrection, UserMessages, Locals
  <2>3. next(outcome) \in UserMessages \cup {None}
    BY <1>2, <2>1, <2>2 DEF Locals
  <2> HIDE DEF next
  <2>4. [retry[c] EXCEPT !.pc = "loop", !.current_prompt = next(outcome)]
            \in Locals
    BY <1>2, <2>1, <2>3 DEF Locals
  <2> QED
    BY <1>0, <2>4, AnswerType
<1>7. ASSUME NEW c \in Calls, Fail(c)
      PROVE  /\ retry' \in [Calls -> Locals]
             /\ asked' \in [Calls -> Seq(ProviderRequests)]
             /\ answers' \in [Calls -> Seq(AllOutcomes)]
  <2> PICK outcome \in Outcomes, error \in RunErrors \ {"max_retries_exceeded"} :
        /\ Answer(c, outcome)
        /\ retry' = [retry EXCEPT ![c].pc = "raised", ![c].error = error]
    BY <1>7, FailNames DEF Fail
  <2>1. [retry[c] EXCEPT !.pc = "raised", !.error = error] \in Locals
    BY <1>0 DEF Locals, RunErrors
  <2> QED
    BY <1>0, <2>1, AnswerType
<1>8. ASSUME NEW c \in Calls, Exhaust(c) PROVE retry' \in [Calls -> Locals]
  <2>1. [retry[c] EXCEPT !.pc = "raised", !.error = "max_retries_exceeded"]
            \in Locals
    BY <1>0 DEF Locals, RunErrors
  <2> QED
    BY <1>0, <1>8, <2>1 DEF Exhaust
<1>9. CASE UNCHANGED vars
  BY <1>0, <1>9 DEF vars
<1> QED
  BY <1>0, <1>3, <1>4, <1>5, <1>6, <1>7, <1>8, <1>9
  DEF Next, Progress, Run, Send, Exhaust

-----------------------------------------------------------------------------
(***************************************************************************)
(* The inductive invariant is preserved                                    *)
(***************************************************************************)
LEMMA InvInit == Init => Inv
BY DEF Init, NotStarted, Inv, Consistent, Counted, PromptReady, Alive, InBudget,
       Corrected, Delivered

(***************************************************************************)
(* What a run minds in an answer depends on its context only, which no     *)
(* step but Run sets.                                                      *)
(***************************************************************************)
LEMMA SameContext ==
    ASSUME NEW c \in Calls, retry'[c].ctx = retry[c].ctx
    PROVE  /\ MaxAttempts(c)' = MaxAttempts(c)
           /\ \A o : Minded(c, o)' = Minded(c, o)
           /\ \A o : Passes(c, o)' <=> Passes(c, o)
           /\ \A o : Rejected(c, o)' <=> Rejected(c, o)
BY DEF MaxAttempts, Minded, Undecoded, Passes, Rejected

(***************************************************************************)
(* A run that no step touches stays consistent.                            *)
(***************************************************************************)
LEMMA Frame ==
    ASSUME NEW d \in Calls, Consistent(d), retry'[d] = retry[d],
           asked'[d] = asked[d], answers'[d] = answers[d]
    PROVE  Consistent(d)'
<1>1. /\ MaxAttempts(d)' = MaxAttempts(d)
      /\ \A o : Minded(d, o)' = Minded(d, o)
      /\ \A o : Passes(d, o)' <=> Passes(d, o)
      /\ \A o : Rejected(d, o)' <=> Rejected(d, o)
  BY SameContext
<1>2. Counted(d)'
  BY <1>1 DEF Consistent, Counted, Alive
<1>3. PromptReady(d)'
  BY <1>1 DEF Consistent, PromptReady
<1>4. InBudget(d)'
  BY <1>1 DEF Consistent, InBudget
<1>5. Corrected(d)'
  BY <1>1 DEF Consistent, Corrected
<1>6. Delivered(d)'
  BY <1>1 DEF Consistent, Delivered
<1> QED
  BY <1>2, <1>3, <1>4, <1>5, <1>6 DEF Consistent

(***************************************************************************)
(* What is known of a run that has been entered.                           *)
(***************************************************************************)
LEMMA EnteredTypes ==
    ASSUME NEW c \in Calls, TypeOK, Consistent(c), retry[c].pc # "idle"
    PROVE  /\ retry \in [Calls -> Locals] /\ retry[c] \in Locals
           /\ asked[c] \in Seq(ProviderRequests)
           /\ answers[c] \in Seq(AllOutcomes)
           /\ Len(asked[c]) \in Nat /\ Len(answers[c]) \in Nat
           /\ retry[c].ctx \in Contexts
           /\ MaxAttempts(c) \in Nat
           /\ retry[c].attempt = Len(asked[c])
           /\ retry[c].attempt <= MaxAttempts(c)
<1>1. /\ retry \in [Calls -> Locals]
      /\ asked[c] \in Seq(ProviderRequests)
      /\ answers[c] \in Seq(AllOutcomes)
  BY DEF TypeOK, Locals
<1>2. /\ retry[c].ctx \in Contexts
      /\ retry[c].attempt = Len(asked[c])
      /\ retry[c].attempt <= MaxAttempts(c)
  BY DEF Consistent, Counted
<1> QED
  BY <1>1, <1>2, ContextsAssumption, LenProperties
  DEF MaxAttempts, PolicyRecords

(***************************************************************************)
(* Entering: nothing has been asked, and the first prompt is the user's.   *)
(***************************************************************************)
LEMMA RunConsistent ==
    ASSUME NEW c \in Calls, NEW ctx \in Contexts, TypeOK, Consistent(c),
           Run(c, ctx)
    PROVE  Consistent(c)'
<1>1. retry \in [Calls -> Locals]
  BY DEF TypeOK, Locals
<1>2. /\ asked'[c] = <<>> /\ answers'[c] = <<>>
  BY DEF Run, Consistent, Counted
<1>3. /\ retry'[c].pc = "loop" /\ retry'[c].ctx = ctx
      /\ retry'[c].attempt = 0 /\ retry'[c].error = None
      /\ retry'[c].current_prompt = Plain(ctx.prompt)
  BY <1>1 DEF Run, NotStarted
<1>4. MaxAttempts(c)' \in Nat
  BY <1>3, ContextsAssumption DEF MaxAttempts, PolicyRecords
<1>5. /\ Plain(ctx.prompt) \in UserMessages
      /\ Plain(ctx.prompt).text = ctx.prompt
      /\ Plain(ctx.prompt).attempt = 0
  BY ContextsAssumption DEF Plain, UserMessages
<1>6. Counted(c)'
  BY <1>2, <1>3, <1>4 DEF Counted, Alive
<1>7. PromptReady(c)'
  BY <1>3, <1>4, <1>5 DEF PromptReady
<1>8. InBudget(c)' /\ Corrected(c)' /\ Delivered(c)'
  BY <1>2, <1>3, <1>4, NoneAssumption DEF RunErrors, InBudget, Corrected, Delivered
<1> QED
  BY <1>6, <1>7, <1>8 DEF Consistent

(***************************************************************************)
(* Sending: the attempt is within the budget, and what it sends is the     *)
(* prompt made ready for it.                                               *)
(***************************************************************************)
LEMMA SendConsistent ==
    ASSUME NEW c \in Calls, TypeOK, Consistent(c), Send(c)
    PROVE  Consistent(c)'
<1> DEFINE l == retry[c]
           n == Len(asked[c])
<1>1. /\ retry \in [Calls -> Locals] /\ l \in Locals
      /\ asked[c] \in Seq(ProviderRequests)
      /\ l.ctx \in Contexts
      /\ MaxAttempts(c) \in Nat
      /\ l.attempt = n
      /\ n \in Nat /\ n < MaxAttempts(c)
      /\ l.pc = "loop"
  BY EnteredTypes DEF Send, MayAttempt
<1>2. /\ l.error = None
      /\ Len(answers[c]) = n
      /\ \A k \in 1 .. Len(answers[c]) : Rejected(c, answers[c][k])
  BY <1>1 DEF Consistent, Counted, Alive
<1>3. RequestOf(c) \in ProviderRequests
  BY <1>1, RequestType DEF Consistent, PromptReady
<1>4. /\ asked'[c] = Append(asked[c], RequestOf(c))
      /\ answers' = answers
  BY DEF Send, TypeOK
<1>5. /\ Len(asked'[c]) = n + 1
      /\ \A k \in 1 .. n : asked'[c][k] = asked[c][k]
      /\ asked'[c][n + 1] = RequestOf(c)
  BY <1>1, <1>3, <1>4, AppendProperties
<1>6. /\ retry'[c].pc = "awaiting"
      /\ retry'[c].attempt = n + 1
      /\ retry'[c].ctx = l.ctx
      /\ retry'[c].error = None
  BY <1>1, <1>2 DEF Send, Locals
<1>7. Counted(c)'
  BY <1>1, <1>2, <1>4, <1>5, <1>6, SameContext DEF Counted, Alive
<1>8. PromptReady(c)' /\ Delivered(c)'
  BY <1>6 DEF PromptReady, Delivered
<1>9. InBudget(c)'
  BY <1>1, <1>5, <1>6, SameContext, NoneAssumption DEF RunErrors, InBudget
<1>10. Corrected(c)'
  <2> SUFFICES ASSUME NEW k \in 1 .. n + 1
               PROVE  LET request == asked'[c][k]
                          ctx == l.ctx
                      IN  /\ request.model = LitellmModel(ctx.policy)
                          /\ request.timeout_seconds
                               = ctx.policy.provider.primary.timeout_seconds
                          /\ request.messages.history = ctx.conversation_history
                          /\ request.messages.prompt.text = ctx.prompt
                          /\ k > 1 =>
                               /\ request.messages.prompt.attempt = k
                               /\ request.messages.prompt.hints =
                                    {v.code : v \in Minded(c, answers[c][k - 1])}
    BY <1>4, <1>5, <1>6, SameContext DEF Corrected
  <2>1. CASE k \in 1 .. n
    BY <1>5, <2>1 DEF Consistent, Corrected
  <2>2. CASE k = n + 1
    BY <1>1, <1>5, <2>2 DEF RequestOf, Consistent, PromptReady
  <2> QED
    BY <1>1, <2>1, <2>2
<1> QED
  BY <1>7, <1>8, <1>9, <1>10 DEF Consistent

(***************************************************************************)
(* What an answer changes, whichever step consumes it.                     *)
(***************************************************************************)
LEMMA Answering ==
    ASSUME NEW c \in Calls, NEW outcome \in Outcomes, TypeOK, Consistent(c),
           Answer(c, outcome)
    PROVE  /\ retry[c].pc = "awaiting" /\ Alive(c)
           /\ asked' = asked
           /\ Len(answers'[c]) = Len(asked[c])
           /\ Len(answers'[c]) = Len(answers[c]) + 1
           /\ \A k \in 1 .. Len(answers[c]) : answers'[c][k] = answers[c][k]
           /\ answers'[c][Len(answers[c]) + 1] = outcome
           /\ \A k \in 1 .. Len(answers[c]) : Rejected(c, answers[c][k])
           /\ outcome \in AllOutcomes
<1>1. answers[c] \in Seq(AllOutcomes) /\ outcome \in AllOutcomes
  BY OutcomesAssumption DEF TypeOK
<1>2. answers'[c] = Append(answers[c], outcome)
  BY DEF Answer, TypeOK
<1>3. /\ Len(asked[c]) = Len(answers[c]) + 1
      /\ \A k \in 1 .. Len(answers[c]) : Rejected(c, answers[c][k])
  BY DEF Answer, Consistent, Counted, Alive
<1> QED
  BY <1>1, <1>2, <1>3, AppendProperties DEF Answer, Alive

(***************************************************************************)
(* An answer does not change what the requests before it have to be.       *)
(***************************************************************************)
LEMMA AnswerCorrected ==
    ASSUME NEW c \in Calls, NEW outcome \in Outcomes, TypeOK, Consistent(c),
           Answer(c, outcome), retry'[c].ctx = retry[c].ctx
    PROVE  Corrected(c)'
<1>1. Len(asked[c]) = Len(answers[c]) + 1 /\ Len(answers[c]) \in Nat
  BY Answering, EnteredTypes
<1>2. \A k \in 1 .. Len(asked[c]) : k > 1 => answers'[c][k - 1] = answers[c][k - 1]
  BY <1>1, Answering
<1>3. asked'[c] = asked[c]
  BY Answering
<1> SUFFICES ASSUME NEW k \in 1 .. Len(asked[c])
             PROVE  LET request == asked[c][k]
                        ctx == retry[c].ctx
                    IN  /\ request.model = LitellmModel(ctx.policy)
                        /\ request.timeout_seconds
                             = ctx.policy.provider.primary.timeout_seconds
                        /\ request.messages.history = ctx.conversation_history
                        /\ request.messages.prompt.text = ctx.prompt
                        /\ k > 1 =>
                             /\ request.messages.prompt.attempt = k
                             /\ request.messages.prompt.hints =
                                  {v.code : v \in Minded(c, answers'[c][k - 1])}
  BY <1>3, SameContext DEF Corrected
<1> QED
  BY <1>2 DEF Consistent, Corrected

(***************************************************************************)
(* Accepting an answer ends the run with it.                               *)
(***************************************************************************)
LEMMA AcceptConsistent ==
    ASSUME NEW c \in Calls, TypeOK, Consistent(c), Accept(c)
    PROVE  Consistent(c)'
<1> PICK outcome \in Outcomes :
      /\ Answered(outcome)
      /\ Answer(c, outcome)
      /\ ~CheckRaises(c, outcome.content)
      /\ Check(c, outcome.content).passed
      /\ retry' = [retry EXCEPT ![c].pc = "returned",
                                ![c].response = Response(c, outcome.content)]
  BY DEF Accept
<1>1. /\ retry[c] \in Locals /\ retry \in [Calls -> Locals]
      /\ retry[c].ctx \in Contexts
      /\ retry[c].attempt = Len(asked[c])
      /\ retry[c].attempt <= MaxAttempts(c)
      /\ Len(asked[c]) \in Nat /\ Len(answers[c]) \in Nat
      /\ retry[c].error = None
  BY Answering, EnteredTypes DEF Consistent, Counted
<1>2. /\ retry'[c].pc = "returned"
      /\ retry'[c].ctx = retry[c].ctx
      /\ retry'[c].attempt = retry[c].attempt
      /\ retry'[c].error = None
      /\ retry'[c].response.content = outcome.content
  BY <1>1 DEF Locals, Response
<1>3. Passes(c, outcome)
  BY <1>1, Answering, CheckDecides
<1>4. Counted(c)' /\ PromptReady(c)'
  BY <1>1, <1>2, Answering, SameContext DEF Counted, PromptReady, Alive
<1>5. InBudget(c)'
  BY <1>1, <1>2, Answering, SameContext, NoneAssumption DEF InBudget, RunErrors
<1>6. Corrected(c)'
  BY <1>2, AnswerCorrected
<1>7. Delivered(c)'
  BY <1>1, <1>2, <1>3, Answering, SameContext DEF Delivered
<1> QED
  BY <1>4, <1>5, <1>6, <1>7 DEF Consistent

(***************************************************************************)
(* Rejecting an answer makes the next prompt ask for its repair, if there  *)
(* is an attempt left.                                                     *)
(***************************************************************************)
LEMMA RejectConsistent ==
    ASSUME NEW c \in Calls, TypeOK, Consistent(c), Reject(c)
    PROVE  Consistent(c)'
<1> DEFINE n == Len(asked[c])
           correction(o) == BuildCorrection(c, Check(c, o.content).violations, n + 1)
<1>1. PICK outcome \in Outcomes :
        /\ Answered(outcome)
        /\ Answer(c, outcome)
        /\ ~CheckRaises(c, outcome.content)
        /\ ~Check(c, outcome.content).passed
        /\ retry' = [retry EXCEPT ![c].pc = "loop",
              ![c].current_prompt =
                  IF retry[c].attempt < MaxAttempts(c)
                  THEN BuildCorrection(c, Check(c, outcome.content).violations,
                                       retry[c].attempt + 1)
                  ELSE @]
  BY DEF Reject
<1>2. /\ retry[c] \in Locals /\ retry \in [Calls -> Locals]
      /\ retry[c].ctx \in Contexts
      /\ retry[c].attempt = n /\ n <= MaxAttempts(c)
      /\ n \in Nat /\ Len(answers[c]) \in Nat /\ MaxAttempts(c) \in Nat
      /\ retry[c].error = None
  BY <1>1, Answering, EnteredTypes DEF Consistent, Counted
<1>3. /\ retry'[c].pc = "loop"
      /\ retry'[c].ctx = retry[c].ctx
      /\ retry'[c].attempt = n
      /\ retry'[c].error = None
      /\ n < MaxAttempts(c) => retry'[c].current_prompt = correction(outcome)
  BY <1>1, <1>2 DEF Locals
<1>4. Rejected(c, outcome)
  BY <1>1, <1>2, Answering, CheckDecides
<1>5. \A k \in 1 .. Len(answers'[c]) : Rejected(c, answers'[c][k])
  BY <1>1, <1>2, <1>4, Answering
<1>6. Counted(c)'
  BY <1>1, <1>2, <1>3, <1>5, Answering, SameContext DEF Counted, Alive
<1>7. PromptReady(c)'
  <2> SUFFICES ASSUME n < MaxAttempts(c)
               PROVE  /\ correction(outcome) \in UserMessages
                      /\ correction(outcome).text = retry[c].ctx.prompt
                      /\ correction(outcome).attempt = n + 1
                      /\ correction(outcome).hints =
                           {v.code : v \in Minded(c, answers'[c][n])}
    BY <1>1, <1>2, <1>3, Answering, SameContext DEF PromptReady
  <2>1. /\ Check(c, outcome.content).violations = Minded(c, outcome)
        /\ CodesOf(Minded(c, outcome)) \in SUBSET Codes
    BY <1>1, <1>2, Answering, CheckDecides
  <2>2. answers'[c][n] = outcome
    BY <1>1, Answering
  <2>3. correction(outcome) = [text |-> retry[c].ctx.prompt,
                               hints |-> CodesOf(Minded(c, outcome)),
                               attempt |-> n + 1]
    BY <2>1 DEF BuildCorrection
  <2>4. retry[c].ctx.prompt \in Prompts /\ n + 1 \in Nat
    BY <1>2, ContextsAssumption
  <2> QED
    BY <2>1, <2>2, <2>3, <2>4 DEF UserMessages, CodesOf
<1>8. InBudget(c)' /\ Delivered(c)'
  BY <1>1, <1>2, <1>3, Answering, SameContext, NoneAssumption
  DEF InBudget, Delivered, RunErrors
<1>9. Corrected(c)'
  BY <1>1, <1>3, AnswerCorrected
<1> QED
  BY <1>6, <1>7, <1>8, <1>9 DEF Consistent

(***************************************************************************)
(* What the provider or the check of its answer raises ends the run.       *)
(***************************************************************************)
LEMMA FailConsistent ==
    ASSUME NEW c \in Calls, TypeOK, Consistent(c), Fail(c)
    PROVE  Consistent(c)'
<1>1. PICK outcome \in Outcomes, error \in RunErrors \ {"max_retries_exceeded"} :
        /\ Answer(c, outcome)
        /\ retry' = [retry EXCEPT ![c].pc = "raised", ![c].error = error]
  BY FailNames DEF Fail
<1>2. /\ retry[c] \in Locals /\ retry \in [Calls -> Locals]
      /\ retry[c].ctx \in Contexts
      /\ retry[c].attempt = Len(asked[c])
      /\ retry[c].attempt <= MaxAttempts(c)
  BY <1>1, Answering, EnteredTypes
<1>3. /\ retry'[c].pc = "raised"
      /\ retry'[c].ctx = retry[c].ctx
      /\ retry'[c].attempt = retry[c].attempt
      /\ retry'[c].error # "max_retries_exceeded"
  BY <1>1, <1>2 DEF Locals
<1>4. Counted(c)' /\ PromptReady(c)' /\ InBudget(c)' /\ Delivered(c)'
  BY <1>1, <1>2, <1>3, Answering, SameContext
  DEF Counted, PromptReady, Alive, InBudget, Delivered
<1>5. Corrected(c)'
  BY <1>1, <1>3, AnswerCorrected
<1> QED
  BY <1>4, <1>5 DEF Consistent

(***************************************************************************)
(* Giving up: the whole budget was spent, on answers that were rejected.   *)
(***************************************************************************)
LEMMA ExhaustConsistent ==
    ASSUME NEW c \in Calls, TypeOK, Consistent(c), Exhaust(c)
    PROVE  Consistent(c)'
<1>1. /\ retry[c] \in Locals /\ retry \in [Calls -> Locals]
      /\ retry[c].pc = "loop"
      /\ retry[c].ctx \in Contexts
      /\ Len(asked[c]) \in Nat /\ MaxAttempts(c) \in Nat
      /\ retry[c].attempt = Len(asked[c])
      /\ Len(asked[c]) = MaxAttempts(c)
      /\ asked' = asked /\ answers' = answers
  BY EnteredTypes DEF Exhaust, MayAttempt
<1>2. /\ retry'[c].pc = "raised"
      /\ retry'[c].ctx = retry[c].ctx
      /\ retry'[c].attempt = retry[c].attempt
  BY <1>1 DEF Exhaust, Locals
<1>3. /\ Len(answers[c]) = Len(asked[c])
      /\ \A k \in 1 .. Len(answers[c]) : Rejected(c, answers[c][k])
  BY <1>1 DEF Consistent, Counted, Alive
<1>4. Counted(c)' /\ PromptReady(c)' /\ Delivered(c)'
  BY <1>1, <1>2, <1>3, SameContext DEF Counted, PromptReady, Alive, Delivered
<1>5. InBudget(c)'
  BY <1>1, <1>2, <1>3, SameContext DEF InBudget
<1>6. Corrected(c)'
  BY <1>1, <1>2, SameContext DEF Consistent, Corrected
<1> QED
  BY <1>4, <1>5, <1>6 DEF Consistent

(***************************************************************************)
(* A step belongs to one run and touches no other.                         *)
(***************************************************************************)
LEMMA OtherRuns ==
    ASSUME TypeOK, NEW c \in Calls,
           (\E ctx \in Contexts : Run(c, ctx)) \/ Progress(c),
           NEW d \in Calls, d # c
    PROVE  /\ retry'[d] = retry[d]
           /\ asked'[d] = asked[d]
           /\ answers'[d] = answers[d]
BY DEF TypeOK, Run, Progress, Send, Accept, Reject, Fail, Exhaust, Answer

(***************************************************************************)
(* Every step keeps the invariant of all runs.                             *)
(***************************************************************************)
LEMMA InvStep == TypeOK /\ Inv /\ [Next]_vars => Inv'
<1> SUFFICES ASSUME TypeOK, Inv, [Next]_vars, NEW d \in Calls
             PROVE  Consistent(d)'
  BY DEF Inv
<1>1. Consistent(d)
  BY DEF Inv
<1>2. ASSUME NEW c \in Calls, (\E ctx \in Contexts : Run(c, ctx)) \/ Progress(c)
      PROVE  Consistent(d)'
  <2>1. CASE c = d
    BY <1>1, <1>2, <2>1, RunConsistent, SendConsistent, AcceptConsistent,
       RejectConsistent, FailConsistent, ExhaustConsistent
    DEF Progress
  <2>2. CASE c # d
    BY <1>1, <1>2, <2>2, OtherRuns, Frame
  <2> QED
    BY <2>1, <2>2
<1>3. CASE UNCHANGED vars
  BY <1>1, <1>3, Frame DEF vars
<1> QED
  BY <1>2, <1>3 DEF Next

-----------------------------------------------------------------------------
(***************************************************************************)
(* In every reachable state the locals of each run are well typed and      *)
(* agree with what the provider was asked and answered.                    *)
(***************************************************************************)
THEOREM Invariance == Spec => [](TypeOK /\ Inv)
<1>1. Init => TypeOK /\ Inv
  BY TypeInit, InvInit
<1>2. TypeOK /\ Inv /\ [Next]_vars => (TypeOK /\ Inv)'
  BY TypeStep, InvStep
<1> QED
  BY <1>1, <1>2, PTL DEF Spec

(***************************************************************************)
(* Every local of every run has its type (engine.py:75-120).               *)
(***************************************************************************)
THEOREM TypeCorrect == Spec => []TypeOK
BY Invariance, PTL

(***************************************************************************)
(* Whatever the budget, the provider is asked no more often than that, and *)
(* the engine gives up only when all of it was spent on rejected           *)
(* completions.                                                            *)
(***************************************************************************)
THEOREM BudgetIsKept == Spec => []RetryBudget
<1>1. Inv => RetryBudget
  BY DEF Inv, Consistent, RetryBudget
<1> QED
  BY <1>1, Invariance, PTL

(***************************************************************************)
(* Every attempt after the first asks for the repair of exactly what the   *)
(* policy minded in the answer before it, in the user's own prompt.        *)
(***************************************************************************)
THEOREM CorrectionsAreFresh == Spec => []CorrectionsMatch
<1>1. Inv => CorrectionsMatch
  BY DEF Inv, Consistent, CorrectionsMatch
<1> QED
  BY <1>1, Invariance, PTL

(***************************************************************************)
(* What a run returns is its last answer, and the run's policy accepts it. *)
(***************************************************************************)
THEOREM ReturnsWhatPasses == Spec => []ReturnedPasses
<1>1. Inv => ReturnedPasses
  BY DEF Inv, Consistent, ReturnedPasses
<1> QED
  BY <1>1, Invariance, PTL

(***************************************************************************)
(* After a completion that passes, or after the provider or the check of   *)
(* an answer raised, the run asks for nothing more and its outcome is      *)
(* final.                                                                  *)
(***************************************************************************)
THEOREM AcceptableIsFinal == Spec => StopsOnAcceptable
<1> DEFINE Final ==
      \A c \in Calls :
          (\E k \in 1 .. Len(answers[c]) : ~Rejected(c, answers[c][k]))
          => asked'[c] = asked[c] /\ retry'[c] = retry[c]
<1>1. ASSUME TypeOK, Inv, [Next]_vars, NEW d \in Calls,
             NEW k \in 1 .. Len(answers[d]), ~Rejected(d, answers[d][k])
      PROVE  asked'[d] = asked[d] /\ retry'[d] = retry[d]
  <2>1. answers[d] # <<>> /\ ~Alive(d)
    BY <1>1 DEF Inv, Consistent, Counted
  <2>2. retry[d].pc \notin {"idle", "loop", "awaiting"}
    BY <1>1, <2>1 DEF Inv, Consistent, Counted, Alive
  <2>3. ~Progress(d) /\ \A ctx \in Contexts : ~Run(d, ctx)
    BY <2>2 DEF Progress, Run, Send, Accept, Reject, Fail, Exhaust, Answer
  <2>4. CASE UNCHANGED vars
    BY <2>4 DEF vars
  <2> QED
    BY <1>1, <2>3, <2>4, OtherRuns DEF Next
<1>2. TypeOK /\ Inv /\ [Next]_vars => [Final]_vars
  BY <1>1
<1> QED
  BY <1>2, Invariance, PTL DEF Spec, StopsOnAcceptable
=============================================================================
