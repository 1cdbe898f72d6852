# TLA+ models of the LLM guardrails gateway

The gateway takes a chat request, checks the prompt against a policy, asks one
provider after another for a completion, checks the completion, asks again
with a corrected prompt when it is rejected, and answers with a text or with
the policy's fallback message. Policies are YAML files, reloaded while requests
are in flight. This directory holds TLA+ models of that program, TLC
configurations for them, and proofs, checked by TLAPS, of every safety property
of every component.

Paths in this file and in the comments are relative to `src/`.

## 1. Inventory

| Part | Source | State it keeps | Operations | Talks to |
|---|---|---|---|---|
| Chat gateway | `app/services/gateway.py`, `app/api/routers/chat.py` | locals of `chat`, per request | `chat` (8 steps, 4 awaits) | registry, both guardrail chains, orchestrator, retry engine |
| Provider orchestrator | `app/providers/provider_orchestrator.py`, `strategies.py` | locals of `execute`, per call | `execute` | factory, adapters |
| Adapter and factory | `app/providers/litellm_provider.py`, `factory.py` | none | `complete`, `get_by_model` | LiteLLM (external) |
| Retry engine, corrector | `app/retry/engine.py`, `prompt_corrector.py` | locals of `run`, per call | `run`, `correct` | adapter, output chain |
| Policy store | `app/services/policy.py`, `app/policies/loader.py`, `hot_reload.py` | `_policies` under a lock; locals of two threads | `startup`, `shutdown`, `get`, `reload_one`, `reload_all`, `_on_file_change` | file system, watchdog (external) |
| Policy model | `app/policies/models.py` | immutable values | validation of a document, `litellm_model`, `enabled_*_guardrails` | everybody |
| Guardrail chains | `app/services/validation.py`, `output_validation.py` | none | `validate`, `validate_with_policy` | guardrails |
| Guardrails | `app/guardrails/**` | none | `validate` (13 of them) | patterns |
| Validation endpoints | `app/api/routers/validation.py` | none | `POST /validate/input`, `/validate/output` | registry, chains |
| Policy endpoints | `app/api/routers/policies.py` | none | `GET /policies`, `POST /policies/reload` | registry, loader |
| HTTP pipeline | `app/main.py`, `app/api/middleware.py`, `dependencies.py`, `routers/health.py`, `app/core/exceptions.py` | locals of each `dispatch`, per request | two middlewares, dependencies, `GET /health` | all routers |
| Container, settings, logging, text utilities, packaging | `app/core/*`, `app/utils/*` | singletons built once | construction | all |

**How they interact.** One uvicorn worker runs one event loop. Every chat
request is an asyncio task that is switched only at an `await`; the awaits that
matter are the provider calls of the orchestrator and of the retry engine. All
tasks share one gateway, orchestrator, engine and registry. A second thread,
watchdog's observer, publishes reloaded policies under the registry's lock; the
event-loop thread does the same for `POST /policies/reload`.

**What is hard.**

* The registry has two writers that read files *outside* the lock and publish
  under it, beside an editor who saves in several steps, renames or deletes.
* A request reads its policy once and uses it over several awaits while the
  registry changes; an override must not leak into the shared object.
* Failover classifies exceptions by their wording, collects metadata along the
  failing path and can stop in six ways.
* The retry loop counts attempts from 1, builds corrections below the last, and
  is entered only when `max_attempts` is positive; its result replaces part of
  what the first answer left behind.
* Exceptions that are not in the expected class (`IndexError`, `ValueError`,
  `UnicodeDecodeError`, `SchemaError`, a `RecursionError` of `json.loads`) leave
  loops that tolerate the expected one.
* A request id is read in four places, two of which make one of their own when
  the client sends none; which reply gets which depends on the order of the
  middlewares.
* A policy document may be written in several shapes that can be mixed; what is
  not written has defaults on three levels.

**What makes each part correct.**

* Orchestrator: providers asked in order, a later one only after transient
  failures of all before it; metadata and errors say what happened; a final
  answer is final; every call ends.
* Retry engine: never more calls than the budget; each correction made of the
  original prompt and of the violations of the answer just rejected; what is
  returned passes; every run ends.
* Registry: an id names a policy with that id; publications are atomic and
  objects immutable; only a reload of everything forgets; with one writer it
  settles on what the files say.
* Gateway: no provider sees a prompt the policy blocks; a text leaves only
  with the verdict of the request's own policy; the reply describes the text it
  carries; traffic follows the policy the request resolved to; requests do not
  change policies; every accepted request is answered once.
* Guardrails: only the JSON check raises, and only on a text or a schema it
  cannot use; nothing found is lost; stricter settings catch at least as much.
* Policy model: a policy says what its document says; the listing shows the
  guardrails that act.
* HTTP pipeline: every reply but a bare 500 can be found by its id, the
  client's if it sent one; the status tells what happened to the request.

## 2. Modules

```
LLMProviders ── ProviderOrchestrator ── MCProviderOrchestrator
     │                  │
  Policies              │ (INSTANCE)
     │                  │
 Guardrails ── RetryEngine ── MCRetryEngine
     │              │ (INSTANCE)
     └────────── Gateway ── GatewayProperties ── MCGateway
                    │              │    └─ HttpPipeline ── MCHttpPipeline
        (INSTANCE) PolicyRegistry  ChatContract (refined by Gateway)
                    │
              PolicyService (refines PolicyRegistry) ── MCPolicyService
                    └─ PolicyWatch ── MCPolicyWatch
GuardrailChecks ── ValidationApi ── MCValidationApi
                        │ (INSTANCE)
                   PolicyDocuments
```

The proofs about a module `M` are in `M_proofs`, which extends it:

```
ProviderOrchestrator_proofs ─┐
PolicyRegistry_proofs ───────┤ (INSTANCE)
Guardrails_proofs ────────── Gateway_proofs ── HttpPipeline_proofs
     └─ RetryEngine_proofs
PolicyRegistry_proofs ─(INSTANCE)─ PolicyService_proofs
ValidationApi_proofs
```

| Module | Models | State → code | Actions → code |
|---|---|---|---|
| `LLMProviders` | adapter, factory, models | none | outcomes of `LiteLLM.acompletion`; `Reason` is the text of the `ProviderError` as far as the orchestrator's markers can tell it apart; `Prefix` is the factory's reading of a model, `openai` without a prefix |
| `ProviderOrchestrator` | `execute` | `exec[c]`: its locals; `asked`, `answers`: provider traffic | one action per branch: `Execute` (strategy), `RejectConfig`, `RejectVendor`, `Ask` (to the await), `Succeed`, `FailOver`, `Abort`, `Crash`, `Exhaust` |
| `Policies` | a validated `Policy` | none | `Routed` is the prefix rule of `litellm_model`, which `chat` repeats for fallbacks |
| `Guardrails` | `validate_with_policy` of both chains, given what each guardrail finds | none | `ValidateInput`, `ValidateOutput`, `RiskScore`; `OutputRaises`: the JSON check raises instead of finding something |
| `RetryEngine` | `run` and `correct` | `retry[c]`: its locals | `Run`, and one action per branch of the loop; `Fail` is whatever leaves it, from the provider or from the JSON check |
| `PolicyRegistry` | the promise of the policy store | `heap`: Policy objects ever published, `cache`: `_policies` | `Put`, `Replace` |
| `PolicyService` | store, loader, reloader | `thread`: locals of the two threads, `phase`: lifecycle; `directory`, `disk`, `saving`, `events`: environment | `Startup`, `StartWatcher`, `ReloadOne`, `ReloadAll`, `OnFileChange`, `Shutdown`; the loader is split at `exists()`, `read_text()` and the lock (`Open`, `Read...`, `Commit...`) |
| `PolicyWatch` | `PolicyService` with a history variable, for what hot reload owes | `unnoticed`: files whose last change raised no event and is read by nobody | the actions of `PolicyService` |
| `Gateway` | `chat` | `gw[r]`: its locals; the rest is the state of the instances | one action per step and exit of `chat`; `Await` is a step of what it awaits; `Reload` is a step of the registry |
| `GatewayProperties` | – | – | properties, stated on bodies, traffic and replies |
| `ChatContract` | what a client of `POST /chat` may rely on | `state`, `calls` | `Accept`, `Call`, `Answer` |
| `GuardrailChecks` | the thirteen checks | none | each check on a text given as the record of what it measures in it; findings are a set, which a chain puts together; `JSONSchemaRaises` lists what `json_schema.py` does not catch |
| `PolicyDocuments` | the validators of `models.py` | none | `NormalizeProviderShape`, `Validates`, `PolicyOf`: from a document, a function on the keys that are written, to a policy |
| `ValidationApi` | both endpoints and `GET /policies` | `policies`; `written`, the document of each; `last` call | `Publish`, `Refuse`, `ListPolicies`, `PostInput`, `PostOutput`. The tables of the services (`INPUT_GUARDRAIL_CONFIG_KEY`, `OUTPUT_GUARDRAIL_CONFIG_KEY`) and those of the listing (`EnabledInputGuardrails`, `EnabledOutputGuardrails`) are separate definitions, as in the code |
| `HttpPipeline` | middlewares, dependencies and handlers around `Gateway` | `http[r]`: what each layer holds for a request (`context`: the id of the middleware, `dependency`: that of the handler) | `Arrive`, `SolveDependencies`, one action per handler (two for `chat`, which waits), `Respond` through `ThroughStack`; `Proceed` is a step of `Gateway` |

Conventions. `None` stands for Python's `None`. A model string is a vendor
prefix and a base. Scores are percentages. An operator named `X_Wrong`
with the comment "Slip" is a plausible mistake in the code behind `X`; it is
used nowhere in the specifications and shows, put in the place of `X`, that a
property notices. `Directories`, `MaxPublished`, `MaxEdits` and `MaxReloads`
bound the environment, never the program.

Abstractions worth knowing:

* One action runs from one await to the next (orchestrator, engine, gateway).
  The gateway's steps between awaits are kept apart although the event loop
  does not switch there; that only adds interleavings.
* `Reload` in `Gateway` is `PolicyRegistry`'s step. That this is all a policy
  store can do to it is `ImplementsRegistry` of `PolicyService`.
* A corrected prompt is the original prompt with the set of codes the
  correction asks to repair.
* In `Gateway` and `RetryEngine` what a guardrail finds in a text is a constant
  function, and which texts the JSON check raises on a constant set,
  `Undecodable`; `GuardrailChecks` says how that comes about. A policy there that
  enables `json_schema` is one that also sets `enforce_json`: without it, and with
  no schema, which a policy cannot supply, the check does nothing.
* The locals of a coroutine are indexed by request, call or run. That one
  request's locals cannot be another's is Python's promise, taken over and not
  shown; what requests share, the registry and the policies in it, is modelled
  as shared.
* The order in which violations are listed is left out, in `Guardrails` and in
  `GuardrailChecks`: no code decides by it and no property tells it apart.
  Likewise the order of the policies in the listing.
* A request id is who made it and for which request; two calls of `uuid4` differ.
* In `HttpPipeline` a reload is one step, because its handler does not await;
  `PolicyService` takes it apart against the watcher thread.
* A policy file in `PolicyService` is the id it declares, the number of the edit
  that wrote it and a form: whole, an accepted prefix, refused, or not UTF-8. In `ValidationApi` it is the document itself, without files.

## 3. Runs

| Run | Question | Bounds and why they are enough |
|---|---|---|
| `orchestrator` | order, honesty, finality and end of the failover loop | one call, since calls share no state; every list of up to three configurations over two registered vendors, an unregistered one and a configuration without a model; every outcome, every strategy. Three makes "first, middle, last" distinct. The proofs lift all but liveness to any size |
| `retry` | budget, corrections, result and end of the retry loop | budgets 0 to 3, so that first, middle and last attempt differ; completions that pass, that only a disabled guardrail minds, that one guardrail minds, that two mind, and one that cannot be decoded, under policies that do and do not ask for JSON |
| `policy_threads` | what the registry may hold and forget; refinement of `PolicyRegistry` | two files, two ids, each file declaring no id or `b` (so both can claim it); two edits of any kind, one half done while the other begins; one reload request beside the watcher; edits during startup too; the directory may be missing at first |
| `policy_watch` | does hot reload settle? | two files, three saves, renames or removals in any mixture, during the initial load or later; half-saved prefixes that are accepted or refused; the watcher is the only writer. Three changes make a file noticed, unnoticed and noticed again |
| `policy_race` | the same with one reload request (violation) | one save is enough |
| `policy_badfile` | does one bad file block the start? (violation) | no edits |
| `gateway_one` | everything about one request | six bodies (with and without policy, override, prefix, private data), five policies, four directories, up to three published objects, so that a policy may be replaced twice while the request runs; retry budgets 0, 1 and 2; seven outcomes of a call, among them a text that cannot be decoded, which only matters to a policy that asks for JSON |
| `http` | which id and status does a reply carry, does a reload or another request's override change what governs a chat? | two interchangeable requests (symmetry), eleven kinds: every endpoint, ids sent, empty and missing, bodies refused, with an override, of a policy with another strategy and of none; three published objects, so that the policy of a chat is replaced by one with other checks, a fallback that does not exist and no retry. Properties that read one request only (`ReplyDescribesText`, `RetriesTruthful`) stay with `gateway_one` |
| `gateway_noretry`, `gateway_blocks` | two statements of docs and tests (violations) | one request, one policy |
| `validation` | completeness, monotonicity and exceptions of the checks; does the listing show what acts? | six prompts, six completions (JSON that fits, does not fit and cannot be decoded among them), five values of the inline schema (none, empty, usable, malformed, broken in a part that some texts meet), policies made of five documents, chosen so that every guardrail fires and does not, scores hit their caps and thresholds; the settings differ in strictness. The documents have nested, flat, mixed and missing provider blocks and sections with some keys written; four more are refused |
| `policy_strategy` | does a policy keep the strategy its document names? (violation) | two documents |

Deadlock is not checked: every system modelled here may stop (requests
answered, nobody edits).

**Fairness.** Weak fairness on the steps of each execution (`Progress`, `Chat`
and `Await`): the event loop runs every ready task, and LiteLLM is called with
a timeout, so an awaited call ends. In `PolicyService` weak fairness on the
steps of both threads, on `OnFileChange`, `Startup`, `StartWatcher` and
`EndSave`: the operating system runs both threads and a save that was begun
ends. No fairness for requests, edits, reloads or shutdown.
`HotReloadSettles` assumes that the service comes to run for good.
`HttpPipeline` states no fairness: that a chat request is answered is
`AllAnswered` of `Gateway`, and no other layer waits for anything.

## 4. Proofs

Every safety invariant, action property and refinement that a run checks is a
theorem: the run shows it on a small instance, the proof for every value of the
constants that meets the named assumptions. Each inductive invariant was
checked by TLC on the instance of the run before it was proved.

**Assumptions.** They are in the modules that declare the constants, and TLC
evaluates them on every run.

* `LLMProviders`, `ProviderOrchestrator`: registered prefixes are vendors;
  outcomes, requests and configurations are of their types. Nothing is assumed
  of their number or of the length of a policy's list of fallbacks.
* `Guardrails`: what a guardrail finds in a text are violations of its own; the
  undecodable texts are texts.
* `RetryEngine`: contexts hold a policy and a prompt; `None` is no error.
* `Gateway`: requests, policies and directories are of their types; a directory
  holds each id once (`loader.load_all` builds a dict, and
  `ServiceImplementsRegistry` proves it of the store); `None` is no policy,
  vendor, error or strategy.
* `PolicyService`: file names differ and may serve as ids.
* `HttpPipeline`: requests go to the endpoints there are.
* `GuardrailChecks`: what is measured in a text is a number, what is found in it
  is registered.
* `ValidationApi`: a document uses known guardrail names and its `fallbacks` is
  a list or null (Pydantic refuses or ignores anything else). That thresholds
  and limits are usable is not assumed but proved, from `Validates`.

**`ProviderOrchestrator_proofs`**: `FailoverIsInOrder`, `ErrorsAreTruthful`,
`MetadataIsTruthful`, `ErrorsAreExplained`, `NothingFollowsTheEnd`,
`TypeCorrect`, from `Invariance`. `FailoverInOrder` is not inductive: that the
next provider is the right one needs that `attempt` counts the requests sent,
that an answer is missing exactly while one is awaited, and that all answers so
far were transient while the loop is alive (`Bookkeeping`). The metadata need
moreover that `attempted_providers` lists the vendors of the requests and
`attempt_history` marks each as failed (`Recorded`). The code classifies a
failure by its text, `Transient` by what LiteLLM raised; a lemma about `Reason`
links the two.

**`RetryEngine_proofs`**: `BudgetIsKept`, `CorrectionsAreFresh`,
`ReturnsWhatPasses`, `AcceptableIsFinal`, `TypeCorrect`. The invariant says
that the counter is the number of calls, that the loop goes on only while every
answer was a completion its policy minds and could decode (`Counted`), and that the prompt at
hand is the one the next attempt has to send (`PromptReady`).

**`PolicyRegistry_proofs`** proves the abstract registry keyed (`RegistryIsKeyed`)
and what an implementation has to show of a step that publishes.

**`PolicyService_proofs`**: `ServiceImplementsRegistry`, `CacheIsKeyed`,
`ForgetsOnlyWhole`, `UndisturbedReloadIsExact`, `TypeCorrect`. The refinement
maps the commit of one file to `Put`, that of a listing to `Replace`, and every
other step to a stutter. For `Replace` the ids collected must be distinct, so
`Working` says of each thread where it is and what it has collected. That an
undisturbed reload is exact needs an invariant of the unfinished listing
(`Collected`): of the files passed, in order, the last valid one of each id has
been kept and nothing else.

**`Gateway_proofs`**: `PromptsAreScreened`, `OnlyCheckedTextIsSent`,
`RepliesDescribeTheirText`, `TrafficKeepsToPolicy`, `RetriesAreTruthful`,
`RequestsLeaveThePoliciesAlone`, `TypeCorrect`, and the refinement
`GatewayImplementsContract`. The orchestrator's and the registry's theorems are
taken over by INSTANCE: their assumptions hold of what the gateway passes, and
their step lemmas carry over while a request awaits the orchestrator. The
engine shares its traffic variables with the orchestrator, so its own invariant
does not apply to them; `Retrying` restates it for the calls after the first
answer. `Coherent` has one conjunct for each thing known of a request as it goes
on: the policy object it resolved to and the copy its override made
(`Resolved`), what the policy finds in the prompt (`Screened`), the endpoints
handed to the orchestrator (`Entered`), that traffic follows them (`Follows`),
the answer just rejected (`Rejected`), and what replies and errors owe to the
traffic (`Finishing`, `Truthful`, `Blames`). A reload appends to the heap and
never changes an object in it, so none of this moves when the registry does.

**`HttpPipeline_proofs`**: `RepliesAreTraceable`, `StatusesTellTheCause`,
`HttpTypesAreCorrect`. `PipelineDrivesGateway` shows that every step of the
pipeline is a step of the gateway or leaves it alone, so that
`GatewayHoldsBehindHttp` has the gateway's theorems, `ImplementsContract`
included, for requests that come through the stack. `Passing` links what a
layer holds with the chat behind it; a status tells its cause because `Blames`
tells the cause of every error that leaves `chat`.

**`ValidationApi_proofs`**: `DocumentsAreKept`, `OnlyJsonChecksMakeValidationRaise`,
`VerdictsAreComplete`, `StricterIsNoWeaker`, `ListingIsTruthful`, `TypeCorrect`.
The state needs little (`ApiInv`: policies are those of the documents kept
beside them, the latest answer is that of what was recorded with it); the work
is in the operators. Scores lie between 0 and 1 for every match count, length
and limit, by lemmas about division and capping, so that the constructor of
`Violation` accepts them and no check but the JSON check raises; that one does
exactly when it is asked for and `json.loads` or `jsonschema` cannot do its
work. `ListingIsTruthful` puts the tables of the services beside those of the
listing: it needs that each service knows the name of every guardrail of its
chain, that its entry is the section the listing shows under the same name, and
that a guardrail reads its settings from that section. That the risk is that of the
worst finding needs a maximum to exist, which well-foundedness gives without
induction. Strictness goes through a relation, `Covers`: what one setting finds,
the stricter one finds at a score no lower; it is shown check by check and kept
by union. What a document says is followed through the shapes of the provider
block and the defaults on three levels.

**Only model-checked**, because the prover does not treat liveness under
fairness: `EveryExecutionEnds`, `EveryRunEnds`, `AllAnswered`,
`HotReloadSettles`. The violations of section 5 are TLC's counterexamples.


## 5. Where the code and its documents disagree

Shown by a run:

* `policy_race`: README.md:266 promises that changed files are reloaded.
  `reload_one` and `reload_all` read before they lock (`policy.py:85, 96`): a
  reload request that read before a save can publish after the watcher, and
  the old policy stays.
* `policy_badfile`: `loader.py:60-61` says that a bad file does not block the
  others. A file that is not UTF-8 raises `UnicodeDecodeError`, which is not
  skipped, and ends startup.
* `gateway_noretry`: with `max_attempts` 0, `test_retry_and_gateway.py:474`
  says "fallback returned"; the rejected completion is returned.
* `gateway_blocks`: README.md:239 gives every guardrail its own action; only
  that of `prompt_injection` is read (`gateway.py:99`).
* `policy_strategy`: README.md:284 lists `strategy` beside `primary` and
  `fallbacks`; a block with one of these loses its strategy
  (`models.py:146-149`), and a flat one too (152).

Noticed while reading; the models do what the code does:

* README.md:280 names recoverable failures; an exception is classified by its
  text (`provider_orchestrator.py:187-190`).
* docs/architecture.md (about 103) and `engine.py:3-8` describe retries with a
  corrected prompt; the first retry sends the original one (`engine.py:75`).
* The comment at `gateway.py:84` speaks of a provider override; it counts only
  together with a model (line 85).
* README.md:238 shows a threshold for prompt injection, which
  `prompt_injection.py:24` does not read; the compliance block,
  `retry.strategy`, a fallback's `timeout_seconds` and a policy's `schema_ref`
  are not read either.
* `schemas/requests.py:31` lets `expected_schema` accompany a policy;
  `routers/validation.py:58` ignores it then. README.md:222 speaks of a default
  policy; without an id the guardrails' own defaults apply
  (`routers/validation.py:44`).
* README.md:266 promises automatic reloads. A file saved between the end of the
  initial load and the start of the observer, or replaced by renaming, is
  noticed only if it is still to be read for another reason (`policy.py:44`,
  `hot_reload.py:41`), and nothing is watched when the directory is missing at
  startup. `HotReloadSettles` exempts the former and assumes a watcher.
* README.md:288 speaks of fallback messaging when validation fails after an
  answer; a provider error during the retry ends the request as an error
  (`gateway.py:185`). So does an answer that `json.loads` cannot decode for
  another reason than its grammar (`json_schema.py:34`), under a policy that
  enforces JSON: the client gets a bare 500, without retry and fallback message.
* Every provider of a chain is asked with the timeout of the primary endpoint
  (`gateway.py:146`); `FailoverInOrder` states that.
* A model without a prefix would go to openai (`factory.py:40`) and be reported
  as `unknown` (`litellm_provider.py:32`). `chat` never passes one: `litellm_model`
  and `gateway.py:135-141` put the endpoint's name in front. `Prefix` has the
  former, no instance needs the latter.
* README.md:393 promises one request id, generated if absent. Without the
  header the middleware and the dependency make two (`middleware.py:20`,
  `dependencies.py:13`), so that a `ChatResponse` and its header differ; the
  body of an error says `-` (or is empty, for an empty header); a bare 500 has
  no `X-Request-ID` at all.
* README.md:393 also promises the id in the logs; the format reads
  `extra[request_id]`, which nothing binds (`logging.py:32`).
* The reply of `POST /policies/reload` names the id asked for
  (`routers/policies.py:44`), though the file may declare another.

## 6. Not modelled, and why

* Routing, CORS, preflight requests, the documentation endpoints: the
  framework's. `ServerError`, its handler of last resort, is external.
* Settings and the rest of the container: one construction at startup, read
  once; its wiring is how `Gateway` instantiates the other modules.
* Logging, docs, packaging, regular expressions of `utils/patterns.py`: no
  state; what a pattern matches is an input of the models.
* `fallbacks` that is neither a list nor null, and values of a wrong type:
  Pydantic's; they are refused like the ones modelled, except that any falsy
  `fallbacks` counts as null. `from_legacy` is called
  by nothing.
* Latency, token usage, temperature, severity and messages of violations:
  copied, read by no decision.

## 7. Plan

Done: the whole request path from the HTTP stack to the provider call, the
policy store from documents to the registry, and the validation endpoints, as
modules with runs; every safety property of the runs proved.

Next:

1. The safety half of `HotReloadSettles`: while the watcher is the only writer
   and nothing is left to be read, every noticed whole file is served. It needs
   an invariant that each file out of date has an event, or a read that began
   after its last change. TLC first.
2. Shorter proofs: the step lemmas of `Gateway_proofs` repeat the same case
   split on the locals that stay; one lemma per conjunct of `Coherent` that
   lists what it depends on would do.
3. The reply of `POST /policies/reload`, when the store reports the id it read.
