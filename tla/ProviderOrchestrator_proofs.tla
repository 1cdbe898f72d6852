---------------------- MODULE ProviderOrchestrator_proofs ----------------------
(***************************************************************************)
(* Proofs about ProviderOrchestrator, for every set of calls, requests,    *)
(* configurations, exception texts and outcomes.                           *)
(***************************************************************************)
EXTENDS ProviderOrchestrator, SequenceTheorems, TLAPS

(***************************************************************************)
(* What the orchestrator takes for recoverable is a transient failure.     *)
(***************************************************************************)
LEMMA RecoverableIsTransient ==
    ASSUME NEW outcome \in AllOutcomes,
           RaisesProviderError(outcome),
           IsRecoverableFailure(Reason(outcome))
    PROVE  Transient(outcome)
BY DEF RaisesProviderError, IsRecoverableFailure, Reason, Preamble, Transient,
       RECOVERABLE_FAILURE_MARKERS

(***************************************************************************)
(* The reason of an outcome is a set of markers.                           *)
(***************************************************************************)
LEMMA ReasonType ==
    ASSUME NEW outcome \in AllOutcomes
    PROVE  Reason(outcome) \in SUBSET RECOVERABLE_FAILURE_MARKERS
<1>1. outcome.text \subseteq RECOVERABLE_FAILURE_MARKERS
  BY ExcTextsAssumption
  DEF AllOutcomes, Completion, EmptyAnswer, Raised
<1>2. Preamble(outcome.kind) \subseteq RECOVERABLE_FAILURE_MARKERS
  BY DEF Preamble, RECOVERABLE_FAILURE_MARKERS
<1> QED
  BY <1>1, <1>2 DEF Reason

(***************************************************************************)
(* A completion carries one of the contents.                               *)
(***************************************************************************)
LEMMA CompletionContent ==
    ASSUME NEW outcome \in AllOutcomes, Answered(outcome)
    PROVE  outcome.content \in Contents
BY DEF AllOutcomes, Answered, Completion, EmptyAnswer, Raised, Exceptions

(***************************************************************************)
(* Raising an error leaves every local well typed.                         *)
(***************************************************************************)
LEMMA RaiseType ==
    ASSUME NEW c \in Calls, NEW error \in Errors,
           exec \in [Calls -> ExecRecords], Raise(c, error)
    PROVE  exec' \in [Calls -> ExecRecords]
<1>1. [exec[c] EXCEPT !.pc = "raised", !.error = error] \in ExecRecords
  BY DEF ExecRecords
<1>2. exec' = [exec EXCEPT
                 ![c] = [exec[c] EXCEPT !.pc = "raised", !.error = error]]
  BY DEF Raise
<1> QED
  BY <1>1, <1>2

(***************************************************************************)
(* So does recording a failure, whatever the loop does next.               *)
(***************************************************************************)
LEMMA FailedType ==
    ASSUME NEW e \in ExecRecords, NEW model \in Models,
           NEW reason \in SUBSET RECOVERABLE_FAILURE_MARKERS,
           NEW pc \in {"loop", "raised"}, NEW error \in Errors \cup {None}
    PROVE  /\ Failed(e, model, reason, pc, error) \in ExecRecords
           /\ Len(Failed(e, model, reason, pc, error).failures)
                = Len(e.failures) + 1
<1>1. [model |-> model, reason |-> reason] \in Failures
  BY DEF Failures
<1>2. [provider |-> model.vendor, status |-> "failed"] \in Attempts
  BY DEF Models, Attempts
<1>3. e.failures \in Seq(Failures) /\ e.attempt_history \in Seq(Attempts)
  BY DEF ExecRecords
<1>4. /\ Append(e.failures, [model |-> model, reason |-> reason])
            \in Seq(Failures)
      /\ Len(Append(e.failures, [model |-> model, reason |-> reason]))
            = Len(e.failures) + 1
      /\ Append(e.attempt_history,
                [provider |-> model.vendor, status |-> "failed"])
            \in Seq(Attempts)
  BY <1>1, <1>2, <1>3, AppendProperties
<1> QED
  BY <1>3, <1>4 DEF Failed, ExecRecords

-----------------------------------------------------------------------------
(***************************************************************************)
(* The locals of a call that has not begun are locals.                     *)
(***************************************************************************)
LEMMA NotStartedType == NotStarted \in ExecRecords
BY DEF NotStarted, ExecRecords

(***************************************************************************)
(* The types are right at the beginning.                                   *)
(***************************************************************************)
LEMMA TypeInit == Init => TypeOK
BY NotStartedType DEF Init, TypeOK

(***************************************************************************)
(* The response made of a completion is well typed.                        *)
(***************************************************************************)
LEMMA SucceededType ==
    ASSUME NEW c \in Calls, NEW outcome \in Outcomes, TypeOK, Consistent(c),
           Answered(outcome), Answer(c, outcome)
    PROVE  Succeeded(c, outcome.content) \in Responses
<1> DEFINE last == [provider |-> Current(c).vendor, status |-> "success"]
<1>1. exec[c] \in ExecRecords /\ Current(c) \in Models
  BY DEF TypeOK, Answer, Consistent, Bookkeeping, Current
<1>2. outcome.content \in Contents
  BY CompletionContent, OutcomesAssumption
<1>3. last \in Attempts /\ Current(c).vendor \in Vendors
  BY <1>1 DEF Attempts, Models
<1>4. /\ exec[c].attempt_history \in Seq(Attempts)
      /\ exec[c].attempted_providers \in Seq(Vendors)
      /\ exec[c].attempt \in Nat
  BY <1>1 DEF ExecRecords
<1>5. Append(exec[c].attempt_history, last) \in Seq(Attempts)
  BY <1>3, <1>4, AppendProperties
<1> QED
  BY <1>2, <1>3, <1>4, <1>5 DEF Succeeded, Responses, FallbackUsed

(***************************************************************************)
(* A step of an execution that is consistent preserves the types.          *)
(***************************************************************************)
LEMMA OwnTypes ==
    ASSUME NEW c \in Calls, TypeOK, Consistent(c), Enter(c) \/ Progress(c)
    PROVE  TypeOK'
<1>0. /\ exec \in [Calls -> ExecRecords]
      /\ asked \in [Calls -> Seq(ProviderRequests)]
      /\ answers \in [Calls -> Seq(AllOutcomes)]
  BY DEF TypeOK
<1>1. ASSUME NEW request \in Requests, NEW configs \in ConfigLists, NEW strategy \in Strategies,
             Execute(c, request, configs, strategy)
      PROVE  TypeOK'
  <2>1. configs \in Seq(Models \cup {NoModel})
    BY ConfigListsAssumption
  <2>2. [NotStarted EXCEPT !.pc = "loop", !.request = request,
                           !.configs = Select(configs)] \in ExecRecords
    BY <2>1, NotStartedType DEF ExecRecords, Select
  <2>3. [NotStarted EXCEPT !.pc = "raised", !.error = "not_implemented"]
            \in ExecRecords
    BY NotStartedType DEF ExecRecords, Errors
  <2>4. exec' \in [Calls -> ExecRecords]
    BY <1>0, <1>1, <2>2, <2>3 DEF Execute
  <2> QED
    BY <1>0, <1>1, <2>4 DEF Execute, TypeOK
<1>2. ASSUME HasNext(c)
      PROVE  /\ exec[c] \in ExecRecords
             /\ exec[c].attempt + 1 \in Nat
             /\ NextModel(c) \in Models \cup {NoModel}
  <2>1. /\ exec[c].configs \in Seq(Models \cup {NoModel})
        /\ exec[c].attempt \in Nat
    BY <1>0 DEF ExecRecords
  <2> QED
    BY <1>0, <1>2, <2>1 DEF HasNext, NextModel
<1>3. ASSUME RejectConfig(c) PROVE TypeOK'
  <2>1. [exec[c] EXCEPT !.pc = "raised", !.error = "value_error",
                        !.attempt = @ + 1] \in ExecRecords
    <3>1. exec[c] \in ExecRecords /\ exec[c].attempt + 1 \in Nat
      BY <1>2, <1>3 DEF RejectConfig
    <3> QED
      BY <3>1 DEF ExecRecords, Errors
  <2>2. exec' = [exec EXCEPT ![c] =
          [exec[c] EXCEPT !.pc = "raised", !.error = "value_error",
                          !.attempt = @ + 1]]
    BY <1>0, <1>3 DEF RejectConfig
  <2> QED
    BY <1>0, <1>3, <2>1, <2>2 DEF RejectConfig, TypeOK
<1>4. ASSUME RejectVendor(c) PROVE TypeOK'
  <2>1. [exec[c] EXCEPT !.pc = "raised", !.error = "provider_not_found",
                        !.attempt = @ + 1] \in ExecRecords
    <3>1. exec[c] \in ExecRecords /\ exec[c].attempt + 1 \in Nat
      BY <1>2, <1>4 DEF RejectVendor
    <3> QED
      BY <3>1 DEF ExecRecords, Errors
  <2>2. exec' = [exec EXCEPT ![c] =
          [exec[c] EXCEPT !.pc = "raised", !.error = "provider_not_found",
                          !.attempt = @ + 1]]
    BY <1>0, <1>4 DEF RejectVendor
  <2> QED
    BY <1>0, <1>4, <2>1, <2>2 DEF RejectVendor, TypeOK
<1>5. ASSUME Ask(c) PROVE TypeOK'
  <2> DEFINE model == NextModel(c)
             sent == [exec[c].request EXCEPT !.model = model]
             new == [exec[c] EXCEPT !.pc = "awaiting", !.attempt = @ + 1,
                       !.attempted_providers = Append(@, model.vendor)]
  <2>1. /\ model \in Models
        /\ exec[c] \in ExecRecords
        /\ exec[c].attempt + 1 \in Nat
    BY <1>2, <1>5 DEF Ask
  <2>2. exec[c].request \in ProviderRequests
    BY <1>5, RequestsAssumption DEF Ask, HasNext, Consistent, Bookkeeping
  <2>3. sent \in ProviderRequests
    BY <2>1, <2>2 DEF ProviderRequests
  <2>4. Append(asked[c], sent) \in Seq(ProviderRequests)
    BY <1>0, <2>3, AppendProperties
  <2>5. Append(exec[c].attempted_providers, model.vendor) \in Seq(Vendors)
    BY <2>1, AppendProperties DEF Models, ExecRecords
  <2>6. new \in ExecRecords
    BY <2>1, <2>5 DEF ExecRecords
  <2>7. exec' = [exec EXCEPT ![c] = new]
    BY <1>0, <1>5 DEF Ask
  <2>8. asked' = [asked EXCEPT ![c] = Append(asked[c], sent)]
    BY <1>5 DEF Ask
  <2>9. answers' = answers
    BY <1>5 DEF Ask
  <2> HIDE DEF model, sent, new
  <2> QED
    BY <1>0, <2>4, <2>6, <2>7, <2>8, <2>9 DEF TypeOK
<1>6. ASSUME NEW outcome \in Outcomes, Answer(c, outcome)
      PROVE  /\ exec[c] \in ExecRecords
             /\ Current(c) \in Models
             /\ asked' \in [Calls -> Seq(ProviderRequests)]
             /\ answers' \in [Calls -> Seq(AllOutcomes)]
  <2>1. Append(answers[c], outcome) \in Seq(AllOutcomes)
    BY <1>0, OutcomesAssumption, AppendProperties
  <2>2. Current(c) \in Models
    BY <1>6 DEF Answer, Consistent, Bookkeeping, Current
  <2> QED
    BY <1>0, <1>6, <2>1, <2>2 DEF Answer
<1>7. ASSUME Succeed(c) PROVE TypeOK'
  <2> PICK outcome \in Outcomes :
        /\ Answered(outcome)
        /\ Answer(c, outcome)
        /\ exec' = [exec EXCEPT ![c].pc = "returned",
                                ![c].response = Succeeded(c, outcome.content)]
    BY <1>7 DEF Succeed
  <2> DEFINE reply == Succeeded(c, outcome.content)
  <2>5. reply \in Responses
    BY SucceededType
  <2>6. exec' = [exec EXCEPT ![c] =
                   [exec[c] EXCEPT !.pc = "returned", !.response = reply]]
    BY <1>0
  <2> HIDE DEF reply
  <2>7. [exec[c] EXCEPT !.pc = "returned", !.response = reply] \in ExecRecords
    BY <1>6, <2>5 DEF ExecRecords
  <2> QED
    BY <1>0, <1>6, <2>6, <2>7 DEF TypeOK
<1>8. ASSUME NEW outcome \in Outcomes, Answer(c, outcome),
             NEW pc \in {"loop", "raised"}, NEW error \in Errors \cup {None},
             exec' = [exec EXCEPT ![c] =
                         Failed(@, Current(c), Reason(outcome), pc, error)]
      PROVE  TypeOK'
  <2>1. Reason(outcome) \in SUBSET RECOVERABLE_FAILURE_MARKERS
    BY ReasonType, OutcomesAssumption
  <2>2. Failed(exec[c], Current(c), Reason(outcome), pc, error) \in ExecRecords
    BY <1>6, <1>8, <2>1, FailedType
  <2>3. exec' \in [Calls -> ExecRecords]
    BY <1>0, <1>8, <2>2
  <2> QED
    BY <1>6, <1>8, <2>3 DEF TypeOK
<1>9. ASSUME FailOver(c) PROVE TypeOK'
  BY <1>8, <1>9 DEF FailOver
<1>10. ASSUME Abort(c) PROVE TypeOK'
  BY <1>8, <1>10 DEF Abort, Errors
<1>11. ASSUME Crash(c) PROVE TypeOK'
  <2>1. exec' \in [Calls -> ExecRecords]
    BY <1>0, <1>11, RaiseType DEF Crash, Errors
  <2> QED
    BY <1>6, <1>11, <2>1 DEF Crash, TypeOK
<1>12. ASSUME Exhaust(c) PROVE TypeOK'
  <2>1. exec' \in [Calls -> ExecRecords]
    BY <1>0, <1>12, RaiseType DEF Exhaust, Errors
  <2> QED
    BY <1>0, <1>12, <2>1 DEF Exhaust, TypeOK
<1> QED
  BY <1>1, <1>3, <1>4, <1>5, <1>7, <1>9, <1>10, <1>11, <1>12
  DEF Enter, Progress

(***************************************************************************)
(* Every step preserves the types.                                         *)
(***************************************************************************)
LEMMA TypeStep == TypeOK /\ Inv /\ [Next]_vars => TypeOK'
<1>1. ASSUME TypeOK, UNCHANGED vars PROVE TypeOK'
  BY <1>1 DEF vars, TypeOK
<1> QED
  BY <1>1, OwnTypes DEF Next, Inv

-----------------------------------------------------------------------------
(***************************************************************************)
(* Nothing has been asked or answered at the beginning.                    *)
(***************************************************************************)
LEMMA InvInit == Init => Inv
BY DEF Init, NotStarted, Inv, Consistent, InOrder, TruthfulError, Bookkeeping

(***************************************************************************)
(* A transient failure is no completion.                                   *)
(***************************************************************************)
LEMMA TransientIsNoCompletion ==
    ASSUME NEW outcome, Transient(outcome)
    PROVE  outcome.kind # "completion"
BY DEF Transient, Exceptions

(***************************************************************************)
(* An execution that no step touches stays consistent.                     *)
(***************************************************************************)
LEMMA Frame ==
    ASSUME NEW d \in Calls, Consistent(d), exec'[d] = exec[d],
           asked'[d] = asked[d], answers'[d] = answers[d]
    PROVE  Consistent(d)'
BY DEF Consistent, InOrder, TruthfulError, Bookkeeping

(***************************************************************************)
(* Leaving the loop without a new answer, on an error that says nothing of *)
(* the other providers, keeps the execution consistent.                    *)
(***************************************************************************)
LEMMA RejectConsistent ==
    ASSUME NEW c \in Calls, TypeOK, Consistent(c), HasNext(c),
           exec'[c].pc = "raised",
           exec'[c].error \in {"value_error", "provider_not_found"},
           exec'[c].configs = exec[c].configs,
           exec'[c].request = exec[c].request,
           UNCHANGED <<asked, answers>>
    PROVE  Consistent(c)'
<1>1. exec[c].pc = "loop"
  BY DEF HasNext
<1>2. \A k \in 1 .. Len(answers[c]) : Transient(answers[c][k])
  BY <1>1 DEF Consistent, Bookkeeping
<1>3. InOrder(c)'
  BY DEF Consistent, InOrder
<1>4. TruthfulError(c)'
  BY <1>2, TransientIsNoCompletion DEF TruthfulError
<1>5. Bookkeeping(c)'
  BY DEF Consistent, Bookkeeping
<1> QED
  BY <1>3, <1>4, <1>5 DEF Consistent

(***************************************************************************)
(* What an answer changes, whichever step consumes it.                     *)
(***************************************************************************)
LEMMA Answering ==
    ASSUME NEW c \in Calls, NEW outcome \in Outcomes, TypeOK, Consistent(c),
           Answer(c, outcome)
    PROVE  /\ asked' = asked
           /\ answers'[c] = Append(answers[c], outcome)
           /\ Len(answers'[c]) = Len(answers[c]) + 1
           /\ Len(asked[c]) = Len(answers'[c])
           /\ \A k \in 1 .. Len(answers[c]) :
                  answers'[c][k] = answers[c][k] /\ Transient(answers'[c][k])
           /\ answers'[c][Len(answers[c]) + 1] = outcome
           /\ Len(answers[c]) \in Nat
<1>1. answers[c] \in Seq(AllOutcomes) /\ outcome \in AllOutcomes
  BY OutcomesAssumption DEF TypeOK
<1>2. answers' = [answers EXCEPT ![c] = Append(answers[c], outcome)]
  BY DEF Answer
<1>3. answers'[c] = Append(answers[c], outcome)
  BY <1>2 DEF TypeOK
<1>4. /\ Len(asked[c]) = Len(answers[c]) + 1
      /\ \A k \in 1 .. Len(answers[c]) : Transient(answers[c][k])
  BY DEF Answer, Consistent, Bookkeeping
<1> QED
  BY <1>1, <1>3, <1>4, AppendProperties DEF Answer

(***************************************************************************)
(* An execution stays consistent when it ends on an answer that is its     *)
(* response, or on a failure that is no transient one.                     *)
(***************************************************************************)
LEMMA EndConsistent ==
    ASSUME NEW c \in Calls, NEW outcome \in Outcomes, TypeOK, Consistent(c),
           Answer(c, outcome),
           \/ exec'[c].pc = "returned"
           \/ /\ exec'[c].pc = "raised"
              /\ exec'[c].error \in {"non_recoverable", "index_error"}
              /\ outcome.kind # "completion",
           exec'[c].configs = exec[c].configs,
           exec'[c].request = exec[c].request
    PROVE  Consistent(c)'
<1>1. InOrder(c)'
  BY Answering DEF Consistent, InOrder
<1>2. TruthfulError(c)'
  <2> SUFFICES ASSUME exec'[c].pc = "raised",
                      NEW k \in 1 .. Len(answers'[c])
               PROVE  answers'[c][k].kind # "completion"
    BY DEF TruthfulError
  <2>1. CASE k \in 1 .. Len(answers[c])
    BY <2>1, Answering, TransientIsNoCompletion
  <2>2. CASE k = Len(answers[c]) + 1
    BY <2>2, Answering
  <2> QED
    BY <2>1, <2>2, Answering
<1>3. Bookkeeping(c)'
  BY Answering DEF Bookkeeping
<1> QED
  BY <1>1, <1>2, <1>3 DEF Consistent

(***************************************************************************)
(* Sending the request to the next provider: it goes out after the others, *)
(* all of which have failed transiently.                                   *)
(***************************************************************************)
LEMMA AskConsistent ==
    ASSUME NEW c \in Calls, TypeOK, Consistent(c), Ask(c)
    PROVE  Consistent(c)'
<1> DEFINE model == NextModel(c)
           sent == [exec[c].request EXCEPT !.model = model]
<1>1. /\ exec[c] \in ExecRecords
      /\ exec[c].pc = "loop"
      /\ exec[c].attempt \in Nat
      /\ exec[c].configs \in Seq(Models \cup {NoModel})
      /\ exec[c].attempt < Len(exec[c].configs)
      /\ answers[c] \in Seq(AllOutcomes)
      /\ asked[c] \in Seq(ProviderRequests)
  BY DEF Ask, HasNext, TypeOK, ExecRecords
<1>2. /\ exec[c].attempt = Len(asked[c])
      /\ Len(answers[c]) = Len(asked[c])
      /\ Len(exec[c].failures) = Len(answers[c])
      /\ \A k \in 1 .. Len(answers[c]) : Transient(answers[c][k])
      /\ exec[c].request \in Requests
      /\ exec[c].response = None /\ exec[c].error = None
  BY <1>1 DEF Consistent, Bookkeeping
<1>3. model \in Models
  BY <1>1 DEF Ask, NextModel
<1>4. sent \in ProviderRequests
  BY <1>2, <1>3, RequestsAssumption DEF ProviderRequests
<1>5. asked'[c] = Append(asked[c], sent)
  BY DEF Ask, TypeOK
<1>6. /\ Len(asked'[c]) = Len(asked[c]) + 1
      /\ \A k \in 1 .. Len(asked[c]) : asked'[c][k] = asked[c][k]
      /\ asked'[c][Len(asked[c]) + 1] = sent
  BY <1>1, <1>4, <1>5, AppendProperties
<1>7. exec'[c] = [exec[c] EXCEPT !.pc = "awaiting", !.attempt = @ + 1,
                     !.attempted_providers = Append(@, model.vendor)]
  BY DEF Ask, TypeOK
<1>8. /\ exec'[c].pc = "awaiting"
      /\ exec'[c].attempt = exec[c].attempt + 1
      /\ exec'[c].configs = exec[c].configs
      /\ exec'[c].request = exec[c].request
      /\ exec'[c].failures = exec[c].failures
      /\ exec'[c].response = None /\ exec'[c].error = None
  BY <1>1, <1>2, <1>7 DEF ExecRecords
<1>9. answers' = answers
  BY DEF Ask
<1>10. InOrder(c)'
  <2>1. ASSUME NEW k \in 1 .. Len(asked'[c])
        PROVE  asked'[c][k]
                 = [exec'[c].request EXCEPT !.model = exec'[c].configs[k]]
    <3>1. CASE k \in 1 .. Len(asked[c])
      BY <1>6, <1>8, <3>1 DEF Consistent, InOrder
    <3>2. CASE k = Len(asked[c]) + 1
      BY <1>2, <1>6, <1>8, <3>2 DEF NextModel
    <3> QED
      BY <1>1, <1>6, <3>1, <3>2
  <2>2. Len(asked'[c]) <= Len(exec'[c].configs)
    BY <1>1, <1>2, <1>6, <1>8
  <2>3. \A k \in 1 .. Len(asked'[c]) - 1 : Transient(answers'[c][k])
    BY <1>1, <1>2, <1>6, <1>9
  <2> QED
    BY <2>1, <2>2, <2>3 DEF InOrder
<1>11. TruthfulError(c)'
  BY <1>8 DEF TruthfulError
<1>12. Bookkeeping(c)'
  BY <1>1, <1>2, <1>3, <1>6, <1>8, <1>9 DEF Bookkeeping, NextModel
<1> QED
  BY <1>10, <1>11, <1>12 DEF Consistent

(***************************************************************************)
(* Going on after a transient failure.                                     *)
(***************************************************************************)
LEMMA FailOverConsistent ==
    ASSUME NEW c \in Calls, TypeOK, Consistent(c), FailOver(c)
    PROVE  Consistent(c)'
<1> PICK outcome \in Outcomes :
      /\ RaisesProviderError(outcome)
      /\ IsRecoverableFailure(Reason(outcome))
      /\ Answer(c, outcome)
      /\ exec' = [exec EXCEPT ![c] =
            Failed(@, Current(c), Reason(outcome), "loop", None)]
  BY DEF FailOver
<1> DEFINE new == Failed(exec[c], Current(c), Reason(outcome), "loop", None)
<1>1. Transient(outcome)
  BY RecoverableIsTransient, OutcomesAssumption
<1>2. /\ exec[c] \in ExecRecords
      /\ exec[c].pc = "awaiting"
      /\ exec'[c] = new
  BY DEF Answer, TypeOK
<1>3. /\ Current(c) \in Models
      /\ exec[c].request \in Requests
      /\ exec[c].response = None
      /\ exec[c].attempt = Len(asked[c])
      /\ Len(exec[c].failures) = Len(answers[c])
  BY <1>2 DEF Consistent, Bookkeeping, Current
<1>4. Reason(outcome) \in SUBSET RECOVERABLE_FAILURE_MARKERS
  BY ReasonType, OutcomesAssumption
<1>5. Len(new.failures) = Len(exec[c].failures) + 1
  BY <1>2, <1>3, <1>4, FailedType
<1>6. /\ new.pc = "loop" /\ new.error = None /\ new.response = None
      /\ new.request = exec[c].request /\ new.configs = exec[c].configs
      /\ new.attempt = exec[c].attempt
  BY <1>2, <1>3 DEF Failed, ExecRecords
<1> HIDE DEF new
<1>7. \A k \in 1 .. Len(answers'[c]) : Transient(answers'[c][k])
  BY <1>1, Answering
<1>8. InOrder(c)'
  BY <1>2, <1>6, Answering DEF Consistent, InOrder
<1>9. TruthfulError(c)'
  BY <1>2, <1>6 DEF TruthfulError
<1>10. Bookkeeping(c)'
  BY <1>2, <1>3, <1>5, <1>6, <1>7, Answering DEF Bookkeeping
<1> QED
  BY <1>8, <1>9, <1>10 DEF Consistent

(***************************************************************************)
(* Running out of configurations: every one was asked and failed.          *)
(***************************************************************************)
LEMMA ExhaustConsistent ==
    ASSUME NEW c \in Calls, TypeOK, Consistent(c), Exhaust(c)
    PROVE  Consistent(c)'
<1>1. /\ exec[c].pc = "loop"
      /\ exec[c] \in ExecRecords
      /\ exec[c].configs \in Seq(Models \cup {NoModel})
      /\ exec[c].attempt = Len(exec[c].configs)
      /\ UNCHANGED <<asked, answers>>
  BY DEF Exhaust, TypeOK, ExecRecords
<1>2. /\ exec'[c].pc = "raised"
      /\ exec'[c].error = IF exec[c].failures # <<>>
                          THEN "all_providers_failed" ELSE "no_providers"
      /\ exec'[c].configs = exec[c].configs
      /\ exec'[c].request = exec[c].request
      /\ exec'[c].failures = exec[c].failures
  BY <1>1 DEF Exhaust, Raise, TypeOK, ExecRecords
<1>3. /\ Len(exec[c].failures) = Len(exec[c].configs)
      /\ Len(answers[c]) = Len(exec[c].configs)
      /\ \A k \in 1 .. Len(answers[c]) : Transient(answers[c][k])
  BY <1>1 DEF Consistent, Bookkeeping
<1>4. exec[c].failures = <<>> => exec[c].configs = <<>>
  BY <1>1, <1>3, EmptySeq
<1>5. InOrder(c)'
  BY <1>1, <1>2 DEF Consistent, InOrder
<1>6. TruthfulError(c)'
  BY <1>1, <1>2, <1>3, <1>4, TransientIsNoCompletion DEF TruthfulError
<1>7. Bookkeeping(c)'
  BY <1>1, <1>2 DEF Consistent, Bookkeeping
<1> QED
  BY <1>5, <1>6, <1>7 DEF Consistent

(***************************************************************************)
(* Each step keeps the execution it belongs to consistent, and touches no  *)
(* other.                                                                  *)
(***************************************************************************)
LEMMA OwnStep ==
    ASSUME NEW c \in Calls, TypeOK, Consistent(c), Enter(c) \/ Progress(c)
    PROVE  Consistent(c)'
<1>0. exec \in [Calls -> ExecRecords] /\ exec[c] \in ExecRecords
  BY DEF TypeOK
<1>1. CASE Enter(c)
  <2> PICK request \in Requests, configs \in ConfigLists,
           strategy \in Strategies : Execute(c, request, configs, strategy)
    BY <1>1 DEF Enter
  <2>1. /\ asked[c] = <<>> /\ answers[c] = <<>>
        /\ asked' = asked /\ answers' = answers
    BY DEF Execute, Consistent, Bookkeeping
  <2>2. \/ /\ exec'[c].pc = "loop" /\ exec'[c].request = request
           /\ exec'[c].response = None /\ exec'[c].error = None
           /\ exec'[c].attempt = 0 /\ exec'[c].failures = <<>>
           /\ exec'[c].configs = configs
        \/ /\ exec'[c].pc = "raised" /\ exec'[c].error = "not_implemented"
           /\ exec'[c].configs = <<>>
    BY <1>0 DEF Execute, NotStarted, Select
  <2>3. Len(exec'[c].configs) >= 0
    BY <2>2, ConfigListsAssumption, LenProperties
  <2> QED
    BY <2>1, <2>2, <2>3
    DEF Consistent, InOrder, TruthfulError, Bookkeeping
<1>2. CASE RejectConfig(c)
  <2>1. /\ exec'[c].pc = "raised" /\ exec'[c].error = "value_error"
        /\ exec'[c].configs = exec[c].configs
        /\ exec'[c].request = exec[c].request
    BY <1>0, <1>2 DEF RejectConfig, ExecRecords
  <2> QED
    BY <1>2, <2>1, RejectConsistent DEF RejectConfig
<1>3. CASE RejectVendor(c)
  <2>1. /\ exec'[c].pc = "raised" /\ exec'[c].error = "provider_not_found"
        /\ exec'[c].configs = exec[c].configs
        /\ exec'[c].request = exec[c].request
    BY <1>0, <1>3 DEF RejectVendor, ExecRecords
  <2> QED
    BY <1>3, <2>1, RejectConsistent DEF RejectVendor
<1>4. CASE Ask(c)
  BY <1>4, AskConsistent
<1>5. CASE Succeed(c)
  <2> PICK outcome \in Outcomes :
        /\ Answer(c, outcome)
        /\ exec' = [exec EXCEPT ![c].pc = "returned",
                                ![c].response = Succeeded(c, outcome.content)]
    BY <1>5 DEF Succeed
  <2>1. /\ exec'[c].pc = "returned"
        /\ exec'[c].configs = exec[c].configs
        /\ exec'[c].request = exec[c].request
    BY <1>0 DEF ExecRecords
  <2> QED
    BY <2>1, EndConsistent
<1>6. CASE FailOver(c)
  BY <1>6, FailOverConsistent
<1>7. CASE Abort(c)
  <2> PICK outcome \in Outcomes :
        /\ RaisesProviderError(outcome)
        /\ Answer(c, outcome)
        /\ exec' = [exec EXCEPT ![c] =
              Failed(@, Current(c), Reason(outcome), "raised",
                     "non_recoverable")]
    BY <1>7 DEF Abort
  <2>1. /\ exec'[c].pc = "raised" /\ exec'[c].error = "non_recoverable"
        /\ exec'[c].configs = exec[c].configs
        /\ exec'[c].request = exec[c].request
    BY <1>0 DEF ExecRecords, Failed
  <2>2. outcome.kind # "completion"
    BY DEF RaisesProviderError, Exceptions
  <2> QED
    BY <2>1, <2>2, EndConsistent
<1>8. CASE Crash(c)
  <2> PICK outcome \in Outcomes :
        Malformed(outcome) /\ Answer(c, outcome) /\ Raise(c, "index_error")
    BY <1>8 DEF Crash
  <2>1. /\ exec'[c].pc = "raised" /\ exec'[c].error = "index_error"
        /\ exec'[c].configs = exec[c].configs
        /\ exec'[c].request = exec[c].request
    BY <1>0 DEF ExecRecords, Raise
  <2>2. outcome.kind # "completion"
    BY DEF Malformed
  <2> QED
    BY <2>1, <2>2, EndConsistent
<1>9. CASE Exhaust(c)
  BY <1>9, ExhaustConsistent
<1> QED
  BY <1>1, <1>2, <1>3, <1>4, <1>5, <1>6, <1>7, <1>8, <1>9 DEF Progress

(***************************************************************************)
(* A step of one call changes nothing of another.                          *)
(***************************************************************************)
LEMMA OtherCalls ==
    ASSUME TypeOK, NEW c \in Calls, Enter(c) \/ Progress(c),
           NEW d \in Calls, d # c
    PROVE  /\ exec'[d] = exec[d]
           /\ asked'[d] = asked[d]
           /\ answers'[d] = answers[d]
BY DEF TypeOK, Enter, Progress, Execute, RejectConfig, RejectVendor, Ask, Answer,
       Succeed, FailOver, Abort, Crash, Exhaust, Raise

(***************************************************************************)
(* No step of an execution that has been entered changes its request or    *)
(* its configurations.                                                     *)
(***************************************************************************)
LEMMA CourseIsSet ==
    ASSUME NEW c \in Calls, TypeOK, Progress(c)
    PROVE  /\ exec'[c].configs = exec[c].configs
           /\ exec'[c].request = exec[c].request
           /\ exec'[c].pc # "idle"
<1>0. exec \in [Calls -> ExecRecords] /\ exec[c] \in ExecRecords
  BY DEF TypeOK
<1>1. CASE RejectConfig(c) \/ RejectVendor(c) \/ Ask(c)
  BY <1>0, <1>1 DEF RejectConfig, RejectVendor, Ask, ExecRecords
<1>2. CASE Succeed(c)
  BY <1>0, <1>2 DEF Succeed, ExecRecords
<1>3. CASE FailOver(c)
  BY <1>0, <1>3 DEF FailOver, Failed, ExecRecords
<1>4. CASE Abort(c)
  BY <1>0, <1>4 DEF Abort, Failed, ExecRecords
<1>5. CASE Crash(c) \/ Exhaust(c)
  BY <1>0, <1>5 DEF Crash, Exhaust, Raise, ExecRecords
<1> QED
  BY <1>1, <1>2, <1>3, <1>4, <1>5 DEF Progress

(***************************************************************************)
(* Every step keeps the invariant of all calls.                            *)
(***************************************************************************)
LEMMA InvStep == TypeOK /\ Inv /\ [Next]_vars => Inv'
<1> SUFFICES ASSUME TypeOK, Inv, [Next]_vars, NEW d \in Calls
             PROVE  Consistent(d)'
  BY DEF Inv
<1>1. Consistent(d)
  BY DEF Inv
<1>2. ASSUME NEW c \in Calls, Enter(c) \/ Progress(c) PROVE Consistent(d)'
  <2>1. CASE c = d
    BY <1>1, <1>2, <2>1, OwnStep
  <2>2. CASE c # d
    BY <1>1, <1>2, <2>2, OtherCalls, Frame
  <2> QED
    BY <2>1, <2>2
<1>3. CASE UNCHANGED vars
  BY <1>1, <1>3, Frame DEF vars
<1> QED
  BY <1>2, <1>3 DEF Next

-----------------------------------------------------------------------------
(***************************************************************************)
(* In every reachable state the locals of each execution are well typed    *)
(* and agree with what the providers were asked and answered.              *)
(***************************************************************************)
THEOREM Invariance == Spec => [](TypeOK /\ Inv)
<1>1. Init => TypeOK /\ Inv
  BY TypeInit, InvInit
<1>2. TypeOK /\ Inv /\ [Next]_vars => (TypeOK /\ Inv)'
  BY TypeStep, InvStep
<1> QED
  BY <1>1, <1>2, PTL DEF Spec

(***************************************************************************)
(* Every field of every execution has its type (provider_orchestrator.py:  *)
(* 59-185).                                                                *)
(***************************************************************************)
THEOREM TypeCorrect == Spec => []TypeOK
BY Invariance, PTL

(***************************************************************************)
(* Providers are asked in the order of the policy, and only after every    *)
(* earlier one failed transiently, however long the chain.                 *)
(***************************************************************************)
THEOREM FailoverIsInOrder == Spec => []FailoverInOrder
<1>1. Inv => FailoverInOrder
  BY DEF Inv, Consistent, FailoverInOrder
<1> QED
  BY <1>1, Invariance, PTL

(***************************************************************************)
(* "All providers failed" means that they all did, and no completion is    *)
(* ever lost to an error.                                                  *)
(***************************************************************************)
THEOREM ErrorsAreTruthful == Spec => []ErrorsTruthful
<1>1. Inv => ErrorsTruthful
  BY DEF Inv, Consistent, ErrorsTruthful
<1> QED
  BY <1>1, Invariance, PTL

(***************************************************************************)
(* After an answer that is no transient failure, the execution sends       *)
(* nothing more and what it returned or raised is final.                   *)
(***************************************************************************)
THEOREM NothingFollowsTheEnd == Spec => NothingAfterTheEnd
<1>1. ASSUME TypeOK, Inv, [Next]_vars, NEW d \in Calls,
             \E k \in 1 .. Len(answers[d]) : ~Transient(answers[d][k])
      PROVE  /\ asked'[d] = asked[d]
             /\ exec'[d].response = exec[d].response
             /\ exec'[d].error = exec[d].error
  <2>1. exec[d].pc \notin {"idle", "loop", "awaiting"}
    BY <1>1 DEF Inv, Consistent, Bookkeeping
  <2>2. ~Enter(d) /\ ~Progress(d)
    BY <2>1 DEF Enter, Progress, Execute, RejectConfig, RejectVendor, Ask,
                HasNext, Succeed, FailOver, Abort, Crash, Answer, Exhaust
  <2>3. CASE UNCHANGED vars
    BY <2>3 DEF vars
  <2> QED
    BY <1>1, <2>2, <2>3, OtherCalls DEF Next
<1> DEFINE Final ==
      \A c \in Calls :
          (\E k \in 1 .. Len(answers[c]) : ~Transient(answers[c][k]))
              => /\ asked'[c] = asked[c]
                 /\ exec'[c].response = exec[c].response
                 /\ exec'[c].error = exec[c].error
<1>2. TypeOK /\ Inv /\ [Next]_vars => [Final]_vars
  BY <1>1
<1> QED
  BY <1>2, Invariance, PTL DEF Spec, NothingAfterTheEnd

-----------------------------------------------------------------------------
(***************************************************************************)
(* The metadata of a reply                                                 *)
(***************************************************************************)
\* While an execution is alive, its lists mirror the traffic: a vendor for
\* each request sent, a failed attempt for each answer.  One that has
\* returned has a response, one that has raised an error.
Recorded(c) ==
    LET e == exec[c]
    IN  /\ e.pc \in {"loop", "awaiting"} =>
              /\ Len(e.attempted_providers) = Len(asked[c])
              /\ \A k \in 1 .. Len(asked[c]) :
                    e.attempted_providers[k] = asked[c][k].model.vendor
              /\ Len(e.attempt_history) = Len(answers[c])
              /\ \A k \in 1 .. Len(answers[c]) :
                    e.attempt_history[k] = [provider |-> asked[c][k].model.vendor,
                                            status |-> "failed"]
        /\ e.pc = "returned" => e.response \in Responses
        /\ e.pc = "raised" => e.error \in Errors

Metadata == \A c \in Calls : Recorded(c) /\ TruthfulMetadata(c)

(***************************************************************************)
(* What is known of an execution whose answer arrives.                     *)
(***************************************************************************)
LEMMA AwaitingFacts ==
    ASSUME NEW c \in Calls, NEW outcome \in Outcomes, TypeOK, Consistent(c),
           Recorded(c), Answer(c, outcome)
    PROVE  LET e == exec[c]
               n == Len(asked[c])
           IN  /\ exec \in [Calls -> ExecRecords] /\ e \in ExecRecords
               /\ n \in Nat /\ Len(answers[c]) \in Nat
               /\ n = Len(answers[c]) + 1
               /\ e.attempt = n
               /\ Current(c) \in Models
               /\ asked[c][n].model = Current(c)
               /\ e.attempted_providers \in Seq(Vendors)
               /\ Len(e.attempted_providers) = n
               /\ \A k \in 1 .. n :
                     e.attempted_providers[k] = asked[c][k].model.vendor
               /\ e.attempt_history \in Seq(Attempts)
               /\ Len(e.attempt_history) = Len(answers[c])
               /\ \A k \in 1 .. Len(answers[c]) :
                     e.attempt_history[k]
                        = [provider |-> asked[c][k].model.vendor,
                           status |-> "failed"]
<1> DEFINE e == exec[c]
           n == Len(asked[c])
<1>1. /\ exec \in [Calls -> ExecRecords] /\ e \in ExecRecords
      /\ asked[c] \in Seq(ProviderRequests)
      /\ answers[c] \in Seq(AllOutcomes)
  BY DEF TypeOK
<1>2. n \in Nat /\ Len(answers[c]) \in Nat
  BY <1>1, LenProperties
<1>3. /\ e.pc = "awaiting"
      /\ n = Len(answers[c]) + 1
      /\ e.attempt = n
      /\ e.request \in Requests
      /\ Current(c) \in Models
  BY DEF Answer, Consistent, Bookkeeping, Current
<1>4. asked[c][n] = [e.request EXCEPT !.model = Current(c)]
  <2>1. n \in 1 .. Len(asked[c])
    BY <1>2, <1>3
  <2>2. asked[c][n] = [e.request EXCEPT !.model = e.configs[n]]
    BY <2>1 DEF Consistent, InOrder
  <2> QED
    BY <1>3, <2>2 DEF Current
<1>5. asked[c][n].model = Current(c)
  BY <1>3, <1>4, RequestsAssumption DEF ProviderRequests
<1> QED
  BY <1>1, <1>2, <1>3, <1>5 DEF Recorded, ExecRecords

(***************************************************************************)
(* Asking adds one vendor to the list and one request to the traffic.      *)
(***************************************************************************)
LEMMA AskRecorded ==
    ASSUME NEW c \in Calls, TypeOK, Consistent(c), Recorded(c), Ask(c)
    PROVE  Recorded(c)'
<1> DEFINE e == exec[c]
           n == Len(asked[c])
           model == NextModel(c)
           sent == [e.request EXCEPT !.model = model]
<1>1. /\ exec \in [Calls -> ExecRecords] /\ e \in ExecRecords
      /\ asked[c] \in Seq(ProviderRequests)
      /\ e.pc = "loop"
      /\ e.configs \in Seq(Models \cup {NoModel})
      /\ e.attempt \in Nat /\ e.attempt < Len(e.configs)
      /\ e.attempted_providers \in Seq(Vendors)
  BY DEF Ask, HasNext, TypeOK, ExecRecords
<1>2. e.request \in ProviderRequests
  BY <1>1, RequestsAssumption DEF Consistent, Bookkeeping
<1>3. model \in Models /\ model.vendor \in Vendors
  BY <1>1 DEF Ask, NextModel, Models
<1>4. sent \in ProviderRequests /\ sent.model = model
  BY <1>2, <1>3 DEF ProviderRequests
<1>5. /\ asked'[c] = Append(asked[c], sent)
      /\ answers' = answers
      /\ Len(asked[c]) = Len(answers[c])
  BY <1>1 DEF Ask, TypeOK, Consistent, Bookkeeping
<1>6. /\ exec'[c].attempted_providers = Append(e.attempted_providers, model.vendor)
      /\ exec'[c].attempt_history = e.attempt_history
      /\ exec'[c].pc = "awaiting"
  BY <1>1 DEF Ask, ExecRecords
<1>7. /\ Len(asked'[c]) = n + 1
      /\ \A k \in 1 .. n : asked'[c][k] = asked[c][k]
      /\ asked'[c][n + 1] = sent
  BY <1>1, <1>4, <1>5, AppendProperties
<1>8. /\ Len(e.attempted_providers) = n
      /\ \A k \in 1 .. n : e.attempted_providers[k] = asked[c][k].model.vendor
      /\ Len(e.attempt_history) = Len(answers[c])
      /\ \A k \in 1 .. Len(answers[c]) :
            e.attempt_history[k] = [provider |-> asked[c][k].model.vendor,
                                    status |-> "failed"]
  BY <1>1 DEF Recorded
<1>9. /\ Len(exec'[c].attempted_providers) = n + 1
      /\ \A k \in 1 .. n :
            exec'[c].attempted_providers[k] = e.attempted_providers[k]
      /\ exec'[c].attempted_providers[n + 1] = model.vendor
  BY <1>1, <1>3, <1>6, <1>8, AppendProperties
<1>10. n \in Nat
  BY <1>1, LenProperties
<1> HIDE DEF sent, model
<1>11. \A k \in 1 .. n + 1 :
          exec'[c].attempted_providers[k] = asked'[c][k].model.vendor
  <2> SUFFICES ASSUME NEW k \in 1 .. n + 1
               PROVE  exec'[c].attempted_providers[k] = asked'[c][k].model.vendor
    OBVIOUS
  <2>1. CASE k \in 1 .. n
    BY <1>7, <1>8, <1>9, <2>1
  <2>2. CASE k = n + 1
    BY <1>4, <1>7, <1>9, <2>2
  <2> QED
    BY <1>10, <2>1, <2>2
<1> QED
  BY <1>5, <1>6, <1>7, <1>8, <1>9, <1>11 DEF Recorded

(***************************************************************************)
(* Failing over adds one failed attempt and one answer.                    *)
(***************************************************************************)
LEMMA FailOverRecorded ==
    ASSUME NEW c \in Calls, TypeOK, Consistent(c), Recorded(c), FailOver(c)
    PROVE  Recorded(c)'
<1> DEFINE e == exec[c]
           n == Len(asked[c])
           last == [provider |-> Current(c).vendor, status |-> "failed"]
<1> PICK outcome \in Outcomes :
      /\ Answer(c, outcome)
      /\ exec' = [exec EXCEPT ![c] =
            Failed(@, Current(c), Reason(outcome), "loop", None)]
  BY DEF FailOver
<1>1. /\ exec \in [Calls -> ExecRecords] /\ e \in ExecRecords
      /\ n \in Nat /\ n = Len(answers[c]) + 1 /\ Len(answers[c]) \in Nat
      /\ Current(c) \in Models /\ asked[c][n].model = Current(c)
      /\ Len(e.attempted_providers) = n
      /\ \A k \in 1 .. n : e.attempted_providers[k] = asked[c][k].model.vendor
      /\ e.attempt_history \in Seq(Attempts)
      /\ Len(e.attempt_history) = Len(answers[c])
      /\ \A k \in 1 .. Len(answers[c]) :
            e.attempt_history[k] = [provider |-> asked[c][k].model.vendor,
                                    status |-> "failed"]
  BY AwaitingFacts
<1>2. last \in Attempts
  BY <1>1 DEF Attempts, Models
<1>3. /\ exec'[c].attempt_history = Append(e.attempt_history, last)
      /\ exec'[c].attempted_providers = e.attempted_providers
      /\ exec'[c].pc = "loop"
  BY <1>1 DEF Failed, ExecRecords
<1>4. asked' = asked /\ Len(answers'[c]) = n
  BY <1>1, Answering
<1>5. /\ Len(exec'[c].attempt_history) = n
      /\ \A k \in 1 .. Len(answers[c]) :
            exec'[c].attempt_history[k] = e.attempt_history[k]
      /\ exec'[c].attempt_history[n] = last
  BY <1>1, <1>2, <1>3, AppendProperties, SMTT(30)
<1>6. \A k \in 1 .. n : exec'[c].attempt_history[k]
          = [provider |-> asked[c][k].model.vendor, status |-> "failed"]
  BY <1>1, <1>5, SMTT(30)
<1> QED
  BY <1>1, <1>3, <1>4, <1>5, <1>6 DEF Recorded

(***************************************************************************)
(* The response built from those lists says what happened.                 *)
(***************************************************************************)
LEMMA SucceedTruthful ==
    ASSUME NEW c \in Calls, TypeOK, Consistent(c), Recorded(c), Succeed(c)
    PROVE  TruthfulMetadata(c)'
<1> DEFINE e == exec[c]
           n == Len(asked[c])
           last == [provider |-> Current(c).vendor, status |-> "success"]
           history == Append(e.attempt_history, last)
           told == [k \in 1 .. n |->
                       [provider |-> asked[c][k].model.vendor,
                        status |-> IF k = n THEN "success" ELSE "failed"]]
           vendors == [k \in 1 .. n |-> asked[c][k].model.vendor]
<1> PICK outcome \in Outcomes :
      /\ Answered(outcome)
      /\ Answer(c, outcome)
      /\ exec' = [exec EXCEPT ![c].pc = "returned",
                              ![c].response = Succeeded(c, outcome.content)]
  BY DEF Succeed
<1>1. /\ exec \in [Calls -> ExecRecords] /\ e \in ExecRecords
      /\ n \in Nat /\ n = Len(answers[c]) + 1 /\ Len(answers[c]) \in Nat
      /\ e.attempt = n
      /\ Current(c) \in Models /\ asked[c][n].model = Current(c)
      /\ e.attempted_providers \in Seq(Vendors)
      /\ Len(e.attempted_providers) = n
      /\ \A k \in 1 .. n : e.attempted_providers[k] = asked[c][k].model.vendor
      /\ e.attempt_history \in Seq(Attempts)
      /\ Len(e.attempt_history) = Len(answers[c])
      /\ \A k \in 1 .. Len(answers[c]) :
            e.attempt_history[k] = [provider |-> asked[c][k].model.vendor,
                                    status |-> "failed"]
  BY AwaitingFacts
<1>2. exec'[c].response = Succeeded(c, outcome.content)
  BY <1>1 DEF ExecRecords
<1>3. /\ asked' = asked /\ Len(answers'[c]) = n
      /\ answers'[c][n] = outcome
      /\ outcome.kind = "completion"
  BY <1>1, Answering DEF Answered
<1>4. e.attempted_providers = vendors
  BY <1>1, LenProperties
<1>5. history = told
  <2>1. last \in Attempts
    BY <1>1 DEF Attempts, Models
  <2>2. /\ history \in Seq(Attempts) /\ Len(history) = n
        /\ \A k \in 1 .. Len(answers[c]) : history[k] = e.attempt_history[k]
        /\ history[n] = last
    BY <1>1, <2>1, AppendProperties
  <2> HIDE DEF history
  <2>3. \A k \in 1 .. n : history[k]
          = [provider |-> asked[c][k].model.vendor,
             status |-> IF k = n THEN "success" ELSE "failed"]
    BY <1>1, <2>2
  <2>4. history = [k \in 1 .. n |-> history[k]]
    BY <1>1, <2>2, LenProperties
  <2> QED
    BY <2>3, <2>4
<1> HIDE DEF history, told, vendors
<1>6. Succeeded(c, outcome.content) =
        [content |-> outcome.content, provider |-> Current(c).vendor,
         provider_chain |-> vendors, attempts |-> n,
         fallback_used |-> FallbackUsed(n), attempt_history |-> told]
  BY <1>1, <1>4, <1>5 DEF Succeeded, history
<1>7. FallbackUsed(n) = (n # 1) /\ n > 0
  BY <1>1 DEF FallbackUsed
<1>8. LET reply == exec'[c].response
      IN  /\ reply.content = answers'[c][n].content
          /\ reply.provider = asked[c][n].model.vendor
          /\ reply.provider_chain = vendors
          /\ reply.attempts = n
          /\ reply.fallback_used = (n # 1)
          /\ reply.attempt_history = told
  BY <1>1, <1>2, <1>3, <1>6, <1>7
<1> QED
  BY <1>3, <1>7, <1>8 DEF TruthfulMetadata, told, vendors

(***************************************************************************)
(* A step of an execution keeps its records true.                          *)
(***************************************************************************)
LEMMA OwnMetadata ==
    ASSUME NEW d \in Calls, TypeOK, Consistent(d), Recorded(d),
           TruthfulMetadata(d), Enter(d) \/ Progress(d)
    PROVE  Recorded(d)' /\ TruthfulMetadata(d)'
<1>0. exec \in [Calls -> ExecRecords] /\ exec[d] \in ExecRecords
  BY DEF TypeOK
<1>1. CASE Enter(d)
  <2>1. /\ asked'[d] = <<>> /\ answers'[d] = <<>>
    BY <1>1 DEF Enter, Execute, Consistent, Bookkeeping
  <2>2. /\ exec'[d].pc \in {"loop", "raised"}
        /\ exec'[d].attempted_providers = <<>>
        /\ exec'[d].attempt_history = <<>>
        /\ exec'[d].pc = "raised" => exec'[d].error \in Errors
    BY <1>0, <1>1, ZenonT(40) DEF Enter, Execute, NotStarted, Errors
  <2> QED
    BY <2>1, <2>2 DEF Recorded, TruthfulMetadata
<1>2. CASE Ask(d)
  <2>1. exec'[d].pc = "awaiting"
    BY <1>0, <1>2 DEF Ask, ExecRecords
  <2> QED
    BY <1>2, <2>1, AskRecorded DEF TruthfulMetadata
<1>3. CASE FailOver(d)
  <2>1. exec'[d].pc = "loop"
    BY <1>0, <1>3 DEF FailOver, Failed, ExecRecords
  <2> QED
    BY <1>3, <2>1, FailOverRecorded DEF TruthfulMetadata
<1>4. CASE Succeed(d)
  <2>1. exec'[d].pc = "returned"
    BY <1>0, <1>4 DEF Succeed, ExecRecords
  <2>2. exec'[d].response \in Responses
    <3> PICK outcome \in Outcomes :
          /\ Answered(outcome) /\ Answer(d, outcome)
          /\ exec' = [exec EXCEPT ![d].pc = "returned",
                                  ![d].response = Succeeded(d, outcome.content)]
      BY <1>4 DEF Succeed
    <3>1. exec'[d].response = Succeeded(d, outcome.content)
      BY <1>0 DEF ExecRecords
    <3> QED
      BY <3>1, SucceededType
  <2> QED
    BY <1>4, <2>1, <2>2, SucceedTruthful DEF Recorded
<1>5. ASSUME \/ RejectConfig(d) \/ RejectVendor(d)
             \/ Abort(d) \/ Crash(d) \/ Exhaust(d)
      PROVE  exec'[d].pc = "raised" /\ exec'[d].error \in Errors
  <2>1. CASE RejectConfig(d) \/ RejectVendor(d)
    BY <1>0, <2>1 DEF RejectConfig, RejectVendor, ExecRecords, Errors
  <2>2. CASE Abort(d)
    BY <1>0, <2>2 DEF Abort, Failed, ExecRecords, Errors
  <2>3. CASE Crash(d) \/ Exhaust(d)
    BY <1>0, <2>3 DEF Crash, Exhaust, Raise, ExecRecords, Errors
  <2> QED
    BY <1>5, <2>1, <2>2, <2>3
<1> QED
  BY <1>1, <1>2, <1>3, <1>4, <1>5
  DEF Progress, Recorded, TruthfulMetadata

(***************************************************************************)
(* So does a step of another one.                                          *)
(***************************************************************************)
LEMMA RecordsFrame ==
    ASSUME NEW d \in Calls, Recorded(d), TruthfulMetadata(d),
           exec'[d] = exec[d], asked'[d] = asked[d], answers'[d] = answers[d]
    PROVE  Recorded(d)' /\ TruthfulMetadata(d)'
<1>1. Recorded(d)'
  BY DEF Recorded
<1>2. TruthfulMetadata(d)'
  BY DEF TruthfulMetadata
<1> QED
  BY <1>1, <1>2

(***************************************************************************)
(* Every step keeps the records true.                                      *)
(***************************************************************************)
LEMMA MetadataStep == TypeOK /\ Inv /\ Metadata /\ [Next]_vars => Metadata'
<1> SUFFICES ASSUME TypeOK, Inv, Metadata, [Next]_vars, NEW d \in Calls
             PROVE  Recorded(d)' /\ TruthfulMetadata(d)'
  BY DEF Metadata
<1>1. Consistent(d) /\ Recorded(d) /\ TruthfulMetadata(d)
  BY DEF Inv, Metadata
<1>2. CASE UNCHANGED vars
  BY <1>1, <1>2, RecordsFrame DEF vars
<1> QED
  BY <1>1, <1>2, RecordsFrame, OwnMetadata, OtherCalls DEF Next

(***************************************************************************)
(* Whatever the length of the chain, a response tells which vendors were   *)
(* asked, how often, whether a fallback was used and which attempts failed.*)
(***************************************************************************)
THEOREM MetadataIsTruthful == Spec => []MetadataTruthful
<1>1. Init => Metadata
  BY DEF Init, NotStarted, Metadata, Recorded, TruthfulMetadata
<1>2. TypeOK /\ Inv /\ Metadata /\ [Next]_vars => Metadata'
  BY MetadataStep
<1>3. Metadata => MetadataTruthful
  BY DEF Metadata, MetadataTruthful
<1> QED
  BY <1>1, <1>2, <1>3, Invariance, PTL DEF Spec

-----------------------------------------------------------------------------
(***************************************************************************)
(* Why an execution ended with an error: what the chain still had to offer *)
(* and what the last provider asked had answered.                          *)
(***************************************************************************)
Explained(c) ==
    LET e == exec[c]
        n == Len(asked[c])
        allPassing == \A k \in 1 .. n : Transient(answers[c][k])
    IN  e.pc = "raised" =>
          /\ e.error \in Errors
          /\ Len(answers[c]) = n
          /\ e.error = "not_implemented" => n = 0 /\ e.configs = <<>>
          /\ e.error = "value_error" =>
                n < Len(e.configs) /\ e.configs[n + 1] = NoModel
          /\ e.error = "provider_not_found" =>
                /\ n < Len(e.configs) /\ allPassing
                /\ ~HasProvider(e.configs[n + 1])
          /\ e.error = "non_recoverable" =>
                /\ n > 0 /\ RaisesProviderError(answers[c][n])
                /\ ~Transient(answers[c][n])
          /\ e.error = "all_providers_failed" =>
                n > 0 /\ n = Len(e.configs) /\ allPassing
          /\ e.error = "no_providers" => e.configs = <<>>
          /\ e.error = "index_error" => n > 0 /\ answers[c][n] = EmptyAnswer

(***************************************************************************)
(* A failure the orchestrator does not recover from is no transient one.   *)
(***************************************************************************)
LEMMA FatalIsNotTransient ==
    ASSUME NEW outcome \in AllOutcomes,
           RaisesProviderError(outcome),
           ~IsRecoverableFailure(Reason(outcome))
    PROVE  ~Transient(outcome)
BY DEF RaisesProviderError, IsRecoverableFailure, Reason, Preamble, Transient,
       RECOVERABLE_FAILURE_MARKERS

(***************************************************************************)
(* A step of an execution explains the error it raises.                    *)
(***************************************************************************)
LEMMA OwnExplained ==
    ASSUME NEW c \in Calls, TypeOK, Consistent(c), Explained(c),
           Enter(c) \/ Progress(c)
    PROVE  Explained(c)'
<1>0. /\ exec \in [Calls -> ExecRecords] /\ exec[c] \in ExecRecords
      /\ answers[c] \in Seq(AllOutcomes) /\ Len(answers[c]) \in Nat
      /\ exec[c].configs \in Seq(Models \cup {NoModel})
      /\ Len(exec[c].configs) \in Nat
  BY LenProperties DEF TypeOK, ExecRecords
<1>1. CASE Enter(c)
  <2>1. asked'[c] = <<>> /\ answers'[c] = <<>>
    BY <1>1 DEF Enter, Execute, Consistent, Bookkeeping
  <2>2. \/ exec'[c].pc = "loop"
        \/ exec'[c].error = "not_implemented" /\ exec'[c].configs = <<>>
    BY <1>0, <1>1, ZenonT(40) DEF Enter, Execute, NotStarted
  <2> QED
    BY <2>1, <2>2 DEF Explained, Errors
<1>2. ASSUME HasNext(c)
      PROVE  /\ exec[c].attempt = Len(asked[c]) /\ Len(answers[c]) = Len(asked[c])
             /\ Len(asked[c]) < Len(exec[c].configs)
             /\ \A k \in 1 .. Len(asked[c]) : Transient(answers[c][k])
  BY <1>2 DEF HasNext, Consistent, Bookkeeping
<1>3. CASE RejectConfig(c)
  <2>1. /\ exec'[c].error = "value_error" /\ exec'[c].configs = exec[c].configs
        /\ asked' = asked /\ answers' = answers
    BY <1>0, <1>3 DEF RejectConfig, ExecRecords
  <2>2. exec[c].configs[Len(asked[c]) + 1] = NoModel
    BY <1>2, <1>3 DEF RejectConfig, NextModel
  <2> QED
    BY <1>2, <1>3, <2>1, <2>2 DEF RejectConfig, Explained, Errors
<1>4. CASE RejectVendor(c)
  <2>1. /\ exec'[c].error = "provider_not_found"
        /\ exec'[c].configs = exec[c].configs
        /\ asked' = asked /\ answers' = answers
    BY <1>0, <1>4 DEF RejectVendor, ExecRecords
  <2>2. ~HasProvider(exec[c].configs[Len(asked[c]) + 1])
    BY <1>2, <1>4 DEF RejectVendor, NextModel
  <2> QED
    BY <1>2, <1>4, <2>1, <2>2 DEF RejectVendor, Explained, Errors
<1>5. CASE Ask(c)
  <2>1. exec'[c].pc = "awaiting"
    BY <1>0, <1>5 DEF Ask, ExecRecords
  <2> QED
    BY <2>1 DEF Explained
<1>6. CASE Succeed(c)
  <2>1. exec'[c].pc = "returned"
    BY <1>0, <1>6 DEF Succeed, ExecRecords
  <2> QED
    BY <2>1 DEF Explained
<1>7. CASE FailOver(c)
  <2>1. exec'[c].pc = "loop"
    BY <1>0, <1>7 DEF FailOver, Failed, ExecRecords
  <2> QED
    BY <2>1 DEF Explained
<1>8. CASE Abort(c)
  <2> PICK outcome \in Outcomes :
        /\ RaisesProviderError(outcome)
        /\ ~IsRecoverableFailure(Reason(outcome))
        /\ Answer(c, outcome)
        /\ exec' = [exec EXCEPT ![c] =
              Failed(@, Current(c), Reason(outcome), "raised",
                     "non_recoverable")]
    BY <1>8 DEF Abort
  <2>1. exec'[c].error = "non_recoverable"
    BY <1>0 DEF ExecRecords, Failed
  <2>2. ~Transient(outcome)
    BY FatalIsNotTransient, OutcomesAssumption
  <2>3. /\ Len(answers'[c]) = Len(asked'[c]) /\ Len(asked'[c]) > 0
        /\ answers'[c][Len(asked'[c])] = outcome
    BY Answering
  <2> QED
    BY <2>1, <2>2, <2>3 DEF Explained, Errors
<1>9. CASE Crash(c)
  <2> PICK outcome \in Outcomes :
        Malformed(outcome) /\ Answer(c, outcome) /\ Raise(c, "index_error")
    BY <1>9 DEF Crash
  <2>1. exec'[c].error = "index_error"
    BY <1>0 DEF Raise, ExecRecords
  <2>2. outcome = EmptyAnswer
    BY OutcomesAssumption
    DEF Malformed, AllOutcomes, Completion, EmptyAnswer, Raised, Exceptions
  <2>3. /\ Len(answers'[c]) = Len(asked'[c]) /\ Len(asked'[c]) > 0
        /\ answers'[c][Len(asked'[c])] = outcome
    BY Answering
  <2> QED
    BY <2>1, <2>2, <2>3 DEF Explained, Errors
<1>10. CASE Exhaust(c)
  <2>1. /\ exec[c].pc = "loop" /\ exec[c].attempt = Len(exec[c].configs)
        /\ asked' = asked /\ answers' = answers
    BY <1>10 DEF Exhaust
  <2>2. /\ exec[c].attempt = Len(asked[c]) /\ Len(answers[c]) = Len(asked[c])
        /\ Len(exec[c].failures) = Len(asked[c])
        /\ \A k \in 1 .. Len(asked[c]) : Transient(answers[c][k])
    BY <2>1 DEF Consistent, Bookkeeping
  <2>3. /\ exec'[c].configs = exec[c].configs
        /\ exec'[c].error = IF exec[c].failures # <<>>
                            THEN "all_providers_failed" ELSE "no_providers"
    BY <1>0, <1>10 DEF Exhaust, Raise, ExecRecords
  <2>4. exec[c].failures \in Seq(Failures)
    BY <1>0 DEF ExecRecords
  <2>5. IF exec[c].failures # <<>> THEN Len(asked[c]) > 0
        ELSE exec[c].configs = <<>>
    <3>1. Len(exec[c].failures) \in Nat
      BY <2>4, LenProperties
    <3>2. exec[c].failures # <<>> => Len(exec[c].failures) # 0
      BY <2>4, EmptySeq
    <3>3. exec[c].failures = <<>> => Len(exec[c].failures) = 0
      OBVIOUS
    <3>4. Len(exec[c].configs) = 0 => exec[c].configs = <<>>
      BY <1>0, EmptySeq
    <3> QED
      BY <2>1, <2>2, <3>1, <3>2, <3>3, <3>4
  <2> QED
    BY <2>1, <2>2, <2>3, <2>5 DEF Explained, Errors
<1> QED
  BY <1>1, <1>3, <1>4, <1>5, <1>6, <1>7, <1>8, <1>9, <1>10 DEF Progress

(***************************************************************************)
(* A step of another execution leaves its explanation alone.               *)
(***************************************************************************)
LEMMA ExplainedFrame ==
    ASSUME NEW d \in Calls, Explained(d),
           exec'[d] = exec[d], asked'[d] = asked[d], answers'[d] = answers[d]
    PROVE  Explained(d)'
BY DEF Explained

(***************************************************************************)
(* Every error can be explained from the chain and the answers, for any    *)
(* chain: which one is raised, and with how many providers asked, follows  *)
(* from them (provider_orchestrator.py:92-185).                            *)
(***************************************************************************)
THEOREM ErrorsAreExplained == Spec => [](\A c \in Calls : Explained(c))
<1>1. Init => \A c \in Calls : Explained(c)
  BY DEF Init, NotStarted, Explained
<1>2. ASSUME TypeOK, Inv, \A c \in Calls : Explained(c), [Next]_vars,
             NEW d \in Calls
      PROVE  Explained(d)'
  <2>1. CASE UNCHANGED vars
    BY <1>2, <2>1, ExplainedFrame DEF vars
  <2>2. ASSUME NEW c \in Calls, Enter(c) \/ Progress(c)
        PROVE  Explained(d)'
    BY <1>2, <2>2, ExplainedFrame, OwnExplained, OtherCalls DEF Inv
  <2> QED
    BY <1>2, <2>1, <2>2 DEF Next
<1>3. TypeOK /\ Inv /\ (\A c \in Calls : Explained(c)) /\ [Next]_vars
        => (\A c \in Calls : Explained(c))'
  BY <1>2
<1> QED
  BY <1>1, <1>3, Invariance, PTL DEF Spec
=============================================================================
