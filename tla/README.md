# Verification of YolPol

YolPol is a multilingual export site (Next.js) with a PostgreSQL back end. What
can go wrong in it is not the rendering: it is the set of worker processes,
request handlers and host scripts that share tables, leases and external
providers (Telegram, language models, GitHub). This directory holds TLA+ models
of those parts, the TLC configurations that check them on small instances, and
TLAPS proofs of what matters most.

`PROJECT.json` lists components, runs, mutants (small bugs that each property
must notice), the source lines behind every definition, findings, hazards and
theorems. To check by hand:

    for m in NotificationOutbox AiFallback ProviderCircuit ReleaseController \
             TranslationJobs CustomerDelivery StaffOperations; do
        tlc -workers 2 -config ${m}MC.cfg ${m}MC
    done
    tlc -workers 2 -config AiFallback_messages.cfg AiFallbackMC
    tlc -config NotificationOutbox_overlap.cfg NotificationOutboxMC    # finding 1
    tlc -config AiFallback_refused.cfg AiFallbackMC                    # finding 2
    tlc -config ProviderCircuit_overlap.cfg ProviderCircuitMC          # finding 3
    tlc -config ReleaseController_deadline.cfg ReleaseControllerMC     # finding 4
    for m in NotificationOutbox AiFallback ProviderCircuit Release Translation \
             Delivery Stream Staff; do
        tlapm ${m}Proofs.tla                           # each takes minutes
    done

Every invariant, action property and refinement that a run checks is also proved,
for all values of the constants; the seven properties of liveness are only checked.

## 1. The system

Paths are relative to the repository. "Hard" names what tests seldom reach.

| component | state | operations | hard |
|---|---|---|---|
| notification outbox (`features/inquiries`: process-inquiry-notifications, postgres-inquiry-outbox, postgres-telegram-delivery-repository, telegram adapter) | `inquiry_outbox`, `telegram_inquiry_deliveries` | claim, snapshot recipients, claim due rows, send, record, summarize, mark processed, schedule retry | leases that expire under a live worker, unknown outcomes, half-failed batches, crashes |
| continuous worker runtime (`tooling/workers`) | shutdown flag, failure count | iterate, back off, stop on a signal | a failed iteration whose calls still run; shutdown between two iterations |
| inquiry submission, retention (`submit-inquiry`, `tooling/retention`) | inquiries, conversations | submit, purge after 24 months | one transaction that writes into five features; purge under running workers |
| conversation log (postgres-conversation-message-repository) | messages with positions | append, read after a position | duplicate appends, positions against concurrent appends, jobs written with the message |
| AI fallback routing (`conversation-ai-routing`) | `conversation_ai_response_jobs`, controls | schedule, claim, prepare, generate, finalize, take over, release | an answer that comes after a new message, a takeover or a disabled policy; batch leases that expire |
| AI operations policy (`ai-operations`) | one policy row with a version | save, evaluate schedule | cancelling jobs while they are being claimed and finalized |
| conversation translation (`conversation-translation`) | jobs, languages, translations | schedule, claim, translate, finish, skip, retry, confirm language | late translations against the order customers see; stuck leases |
| update streams (`stream-conversation-updates`, in-memory registries) | cursors, open streams, typing | open, poll, heartbeat, close | a cursor that passes a message not yet visible; limits of the registry |
| conversation channels (`conversation-channels`) | bindings, inbound messages, deliveries | bind, record, schedule, claim, dispatch, finalize | lease tokens, unknown outcomes, an earlier message that becomes blocking after the claim |
| AI provider gateway (`ai-provider-gateway`) | circuit per model profile with a version | acquire, succeed, fail, release | concurrent permits, a probe whose process died |
| AI provider registry | versioned configuration | save, enable, order | lost updates |
| inquiry workflow | assignment, status, history | assign, change status | concurrent edits against the history |
| Telegram webhook and replies | processed updates | parse, reply | duplicated, reordered updates |
| Telegram onboarding, notification destinations | requests, links, recipients, audit trail | request, consume, disconnect, enable, authorize group | two row locks in different orders, consume against revoke |
| staff authentication | accounts, sessions, invitations | bootstrap, invite, activate, sign in, deactivate | session creation against deactivation, the last administrator |
| release controller (`deploy/control-plane`) | ledger, journal, runtime files | begin, deploy, migrate, activate, roll back, reconcile | a crash between any two writes, a lost status post, replays |
| deployment operations, bootstrap, Windows durable write, backup | files on hosts | install, back up, receipt | interrupted writes |
| customer acquisition (`drizzle-customer-acquisition`) | companies, suppression, candidates, receipts | intake, review, suppress, replay | suppression against concurrent review; receipts replayed |
| export logistics | none | load plan | rounding at boundaries |
| products, IndexNow, health, monitoring, release contract | none of their own | render, submit, probe, validate | nothing concurrent |

How they interact. A customer's message is one transaction of the conversation
log: the message with its position, its translation job, its AI response job
and its outbox event. Four kinds of worker then compete for those rows: the
notification worker (outbox), the fallback worker (jobs), the translation worker
and the channel worker. They meet only in the database: through `for update`
row locks, `skip locked` claims, leases with a deadline, and updates guarded by
a status, an attempt number, a token or a version. Staff change the rules under
them: takeover of a conversation, the operations policy, authorized recipients,
translation remediation. Retention deletes it all by cascade.

What makes each part correct:
- outbox: at most one message per recipient, a ledger that is true and final,
  every event settled in the end;
- AI fallback: at most one automatic answer per message and none after a newer
  message, a takeover or a disabled policy; no job is lost;
- translation and streams: customers see staff messages in order and miss none;
- channels: as the outbox, and no message overtakes an untranslated earlier one;
- circuit: an open circuit lets one probe through, and never stays shut for good;
- onboarding: a token is used once, and nobody receives after disconnecting;
- staff accounts: a deactivated account has no working session, an administrator remains;
- release controller: after any crash the host runs one recorded release or asks
  for manual review, and the ledger tells which.

## 2. Plan

Done:

1. `NotificationOutbox` implements `DuplicateAverseDelivery`;
   `NotificationOutboxProofs` (section 3).
2. `AiFallback` implements `HumansFirst`; conversation log, response jobs,
   controls, policy; `AiFallbackProofs` (section 4).
3. `ProviderCircuit`; `ProviderCircuitProofs` (section 5).
4. `ReleaseController`: agent, controller, ledger and journal with crashes;
   `ReleaseProofs` (section 6).
5. `TranslationJobs` implements `TranslatedLog`; on that abstract conversation
   stand `CustomerStream` (the website) and `ChannelDelivery` (external
   channels), composed in `CustomerDelivery`; `TranslationProofs`,
   `DeliveryProofs`, and `StreamProofs`, which extends the latter (section 7).
6. `StaffAccounts`, with `StaffTelegram` and `InquiryDesk` on top of it, composed
   in `StaffOperations`; `StaffProofs` (section 8).

Left:

7. Suppression in customer acquisition against later reviews; identities of
   repeated messages (Telegram updates, inbound channel messages).
8. Proofs: that the stream and the channels keep their promises over
   `TranslationJobs` itself, by substitution of what it shows for the log.

What the provers cannot do here: liveness under fairness, and induction over data by
a theorem that takes an operator as a parameter. Where a proof needs induction (the
registration that goes through a page, the order of a finite set, a circle of
transactions), it takes a least counterexample of a well-founded relation instead.
Definitions in the models are written for that: recursive functions instead of
recursive operators, sets listed in order instead of filtered sequences.

## 3. The notification outbox

`NotificationOutbox` models any number of worker processes. Each database
statement or transaction is one step; between steps a worker may stall for any
time, crash, or have the call fail.

| variable | code |
|---|---|
| `event` | row of `inquiry_outbox`: state, attempts, available_at, locked_until |
| `delivery` | row of `telegram_inquiry_deliveries`, `NONE` before the snapshot |
| `worker` | where the process is in `processEvent`, with the event and the retry time it computed |
| `tasks` | the `processDelivery` promises that have not settled; `awaited` is false once `Promise.all` was rejected |
| `transit`, `accepted` | requests on their way to Telegram, messages Telegram created |
| `translation`, `eligible` | the staff translation an event may wait for, the recipients the snapshot query selects now |

Actions carry the names of the code: `Claim` (claimPending), `Load`
(processEvent up to the snapshot), `Snapshot`, `ClaimDue`, `Summarize`,
`MarkProcessed`, `ScheduleRetry`, and for one delivery `Send`, `Answer`
(sendMessage), `Record` (markDelivered, markRetryable, markPermanentFailure,
markUnknown through `transition`). `Reject` is a rejected promise: the worker
leaves, the other promises run on. Customers, retention, staff and the provider
are `Publish`, `Purge`, `ChangeRecipients`, `TranslationSettles`, `Accept`.

Time. The code compares timestamps with the clock and nothing else, so a
timestamp is kept as the time left until it, and `Tick` lowers them all. A
worker may take its next step before or after any number of ticks, so a lease
of one unit already runs out under a live worker at any point; a longer lease
only adds states in between.

Assumptions: the workers share one clock; the clock is read in the step of the
statement that uses it; an error status of Telegram means that no message was
created; one event has at most 100 recipients (the limit of one claim); several
due events with the same `occurred_at` are claimed in the order of their number.
Left out: message texts, the batch size and poll delay of the runtime, a staff
retry that makes a settled translation pending again, and claims that skip a row
locked by another claim in that moment.

Bounds: `AttemptCap` (an event's attempts feed only the backoff, which saturates),
`MaxFaults` (crashes and failed calls), and the constants of each cfg.

| run | instance | shows |
|---|---|---|
| outbox | 1 event, 1 recipient, 2 workers, every answer, 2 attempts, lease 2, 1 fault | `TypeOK`, `AtMostOnce`, `LedgerIsTrue`, `ProcessedMeansSettled`, `LedgerIsHistory`, `KeepsPromise`, `EveryEventSettles` |
| outbox_overlap | 2 recipients, 1 worker, 1 fault | finding 1 |

Deliveries of different events share no row and no variable but the workers, and
rows of one event are settled one by one: one event and one recipient show what
can happen to a row, two workers a lease that changes hands, two attempts a retry
and its exhaustion. A batch that fails by half needs a second recipient; the run
of finding 1 has it, and the proofs cover any number.

Fairness: each worker keeps taking steps (the supervisor restarts it and the
runtime loop goes on after a failure), each worker's open calls keep running
(the adapter aborts a request after ten seconds), and time passes. Faults are
bounded. Nothing is assumed of the provider, of translations, of staff or of
retention; `EveryEventSettles` asks that recipients are not missing for ever,
because an event without recipients is retried for as long as there are none.

`DuplicateAverseDelivery` is what docs/tasks/0026-telegram-real-integration.md
promises, without workers, leases and time: recipients are frozen once, each
gets at most one message, what the ledger says is true and final. The run checks
that the outbox implements it (`KeepsPromise`), a purge included.

### Finding

1. docs/tasks/0026-telegram-real-integration.md:48 says that iterations never
   overlap. If one ledger write of a batch fails, `Promise.all` rejects, the
   iteration ends, and the next one starts while the other sends still run.
   `AtMostOnce` holds regardless.

A remark: docs/tasks/0026-telegram-real-integration.md:26 keeps deliveries
RETRYABLE_FAILURE during a credential failure (401) and says in the same paragraph
that delivery stops after five attempts. The code does the latter: after the fifth
401 the row is PERMANENT_FAILURE, and a corrected token does not revive it.

### Proofs

`NotificationOutboxProofs` proves for every number of events, recipients,
workers, attempts and faults: `TypeOK`, `AtMostOnce`, `LedgerIsTrue`,
`ProcessedMeansSettled`, `LedgerIsHistory` and `KeepsPromise`. Assumptions: the constants are natural numbers of the
ranges in `ConstantsAssumption`.

None of the three safety properties is inductive. `IInv` adds:
- `Newest`: no call has a higher attempt number than its row;
- `Single`, `OneTask`: at most one request per event and recipient that may
  still be or has become a message, and one call per attempt;
- `Stages`: what a call knows of its request (a refused request is gone, a
  confirmed one is accepted);
- `Apart`: a row that may be sent again has no request that counts;
- `PurgedRows`, `Confirmed`: rows of a purged event are gone, and DELIVERED rows
  name an accepted attempt.

The argument: a row is leased again only from RETRYABLE_FAILURE, which only the
call holding the newest attempt writes, and only after the provider refused that
request. A lease that ran out becomes UNKNOWN and is final, so a request that
may still arrive is never followed by another.

`LedgerIsHistory` and `KeepsPromise` take a case for each action: most leave every
row alone (`Quiet`) and change what is promised in nothing. A step that writes a row
writes one (`RowsOfOne`), so one fate moves at a time, and by `Newest` the writer
holds the newest attempt. The steps that need the invariant are `Accept` (`Single`:
no message is there yet) and `MarkProcessed` (`SettledCalls`: what a worker saw
settled stays settled, so the fates it closes are final).

Only model-checked: `EveryEventSettles`.

## 4. Automatic answers

`AiFallback` models the conversation log and what answers it: customers, staff
in the panel and in Telegram, takeovers, saves of the operations policy, and any
number of fallback workers.

| variable | code |
|---|---|
| `log` | `conversation_messages` of a conversation, in the order of their positions |
| `job` | `conversation_ai_response_jobs`, by the position of the message that triggered it; `NONE` where no row is |
| `control`, `policy` | rows of `conversation_ai_controls` and `ai_operation_policy` |
| `open` | opening hour and emergency switch, which no transaction guards |
| `saving` | a policy save that has the row and has not committed |
| `request` | the customer, staff and control requests in progress |
| `worker` | where a worker is in `execute`, `prepare` or `finalize`, and the claims left of its batch |
| `clock` | the creation time a request gets |

A transaction is one step unless another one can come between its statements.
That happens at row locks, so three transactions are split there: a customer's
append (`LockConversation`, `SharePolicy`, `WriteCustomer`), the policy save
(`BeginSave`, `CommitSave`) and `finalize` (`Share`, `Judge`, `AskAgain`,
`Answer`). Who holds a lock follows from where each process is
(`ConversationFree`, `JobFree`, `PolicyShared`, `PolicyExclusive`); a crash or an
exception rolls back because nothing is written before the last step. `Submit`
is the part of a request before its transaction, where `createdAt` and the plan
are computed.

Abstractions. Time: a job becomes due and its lease runs out at any moment; a
prepared job may be older than 24 hours. ENABLED stands for FALLBACK and
SCHEDULED, HUMAN for PAUSED and HUMAN_TAKEOVER. A version conflict of a control
may happen at any time; a policy save that conflicts, and a request that is
aborted, change nothing and are left out, as is a message with a known identity.
A lease token is the number of the claim, new with each one. An answer carries
the position it answers, since its identity derives from the job's. Left out:
retention, translation jobs and outbox events of the same append (the latter is
`Publish` of `NotificationOutbox`), the generation itself (it answers or fails).

| run | instance | shows |
|---|---|---|
| aifallback | 1 conversation, 1 request, 2 workers, 2 claims, 1 human message, one creation time | `TypeOK`, `AnswersAreSingle` and `LegalTransitions` with jobs that are claimed again, `EverythingEnds`: no lock is waited for in vain |
| aifallback_messages | 2 requests, 2 workers, 1 claim, 2 human messages, 2 creation times, safety only | `ActiveJobsAreWanted`, `PutsHumansFirst` with newer messages and refused requests |
| aifallback_refused | 2 requests, 2 creation times, 1 worker | finding 2 |

Two workers and two claims suffice for a lease that changes hands and comes back
as an old token. Two requests and two human messages suffice for a message that
overtakes the answer to an older one, for a request that the table refuses because
a later-created one was faster, for a conversation that goes on with the assistant
and for an append beside a takeover or a policy save. The two runs split these
because both together take TLC several minutes; the proofs have every number of
each. In the second, requests and workers are interchangeable (`Twins`).
Conversations share only the policy and a worker's batch. A batch here is one job:
that later jobs of a batch lose lease and claim without being started is only
approximated by a lease that runs out before `Check`; the proofs have batches of
any size, but `EverythingEnds` is not among them.

`HumansFirst` is one conversation without jobs and locks: the assistant is
cleared while everything allows it, any human message, takeover or disabled
policy takes the clearance back, and it speaks only with it. The run checks that
the model implements it. Opening hour and emergency switch are asked when the
assistant is cleared; the code does not hold them until the commit.

Fairness: strong for the steps of requests and workers, because a row lock is
granted to each waiter in turn although others keep taking it; weak for the
commit of a save, for jobs that become due and for leases. A worker may crash at
any step; the claims a job has left bound how often that matters.

The protocol protects answers more than once. A job that lost its conversation
is ended at once, which the lease token in `finalize` notices before
`blockingState` is asked, and a save waits for the job as well as for the policy:
no single one of these, removed, lets a stale answer out. Even without the lock
of the conversation the token would notice: what breaks then is that nothing
happens between an answer's clearance and the answer, which `HumansFirst` asks.

### Finding

2. docs/tasks/0034-ai-human-fallback-routing.md:25: "Whichever Conversation
   transaction obtains the lock first defines the race outcome." `createdAt` is
   read before the lock. A reply, customer message or takeover that gets the
   lock after a message created later sets `terminal_at` of that message's job
   before its `created_at`; the table's CHECK constraint refuses it and the
   request fails with persistence_failed. The policy save avoids this with
   `greatest`.

### Proofs

`AiFallbackProofs` proves for every set of conversations, requests and workers,
every number of claims and every batch size: `TypeOK`, `ActiveJobsAreWanted`,
`AnswersAreSingle`, `LegalTransitions` and `PutsHumansFirst`. Assumptions:
`ConstantsAssumption`.

`IInv` adds to them:
- `PolicyHeld`: the policy an append has read is the one in force until it ends,
  or there was none to lock; while a save is under way nobody shares the row;
- `Busy`: a worker that is not idle has a claim;
- `ClaimsLeft`: a waiting job has claims left, so a claim never exceeds the limit;
- `Replies`: an answer, and nothing else, names a position, and it stands behind
  the customer's message at that position.

The argument: most steps are `Quiet`, they end jobs without success at most, and
a quiet step that keeps log, control and policy keeps everything. A step that
appends a message or takes a conversation over ends that conversation's active
jobs in the same transaction; an append adds a job only if it read ENABLED, and
by `PolicyHeld` that is still the policy; disabling ends every active job. An
answer needs its job RUNNING with its token; by `ActiveJobsAreWanted` the trigger
is then the newest message, so the answer lands right behind it and no earlier
answer to it exists.

The two others need to know who holds which lock. `LInv` adds to `IInv`:
- `Locked`: a conversation is locked by one answer in progress or by appends, and
  whoever judged a job still holds its claim, for nobody ends a locked job;
- `Placed`: every job has its message.

`PutsHumansFirst` maps a worker that is `cleared` to a clearance of its conversation.
Whatever takes a clearance back (an append of a human, a takeover, a disabled
policy) needs a lock of that conversation or of the policy, so by `Locked` nobody is
cleared there; an `Answer` comes from the one worker that is.

Only model-checked: `EverythingEnds`.

## 5. Calls to language models

`ProviderCircuit` models the calls that all processes make through
`ExecuteAiProviderRequest`, and the circuits they share. A call goes through its
candidates, the credentials of each, and at most two attempts with each
credential; a candidate with a credential is a target and has a row.

| variable | code |
|---|---|
| `health` | rows of `ai_provider_runtime_health`: state, consecutive_failures, whether open_until or half_open_lease_until has passed (`over`), version (`permit`) |
| `call` | where a call is in the loops of `execute`, its permit's `halfOpenProbe`, the result it is to record |
| `faults` | failed database calls and crashes so far |

`Acquire` is the transaction of the same name with what `execute` does when it is
refused; `Answer` is the adapter; `Record` is `recordSuccess`,
`recordQualifyingFailure` or `releaseWithoutHealthChange` with the decision that
follows (retry, next credential, next candidate, end). `AcquireThrows` and
`RecordThrows` lose the answer of the database before or after the change; a
success whose write throws is caught by the same try block as the adapter and
recorded again as an unknown failure. `Cancel` is the signal of the caller.

Abstractions. Versions are compared for equality only and each is handed to one
call, so a row names that call instead of the number (`none` after any other
write). Failures above the threshold are not counted on. Time is a boolean that
becomes true at any moment; the clock is read in the step of its statement. A
target without a row is one that is CLOSED. Categories of failure are the
classes that `ai-provider-failure-policy.ts` tells apart. Candidates without an
adapter are left out: they are skipped before any permit.

| run | instance | shows |
|---|---|---|
| circuit | 2 calls, 2 candidates, 2 attempts, threshold 3, 1 fault | `TypeOK`, `LateResultsDecideNothing`, `EveryCallEnds`, `NeverShutForGood` |
| circuit_overlap | 2 calls, 1 target | finding 3 |

Threshold and attempts are those of the code. Targets share nothing but the calls;
two candidates are what a call falls back on, two calls an old one and a probe.

Fairness: weak for the steps of each call (adapters have a timeout) and for time.
Nobody has to call: `NeverShutForGood` speaks of targets that are asked for again
and again. The run lets probes answer within their lease (`SlowProbes` false): if
every probe took longer and another call always came in between, no result would
count. The proofs have slow probes and any number of calls.

### Finding

3. docs/tasks/0033-ai-provider-gateway.md:37: "Three consecutive qualifying
   failures open a target for 30 seconds." Each permit changes the version, so a
   call loses its right to report as soon as another one acquires the target.
   Two calls that always overlap never open the circuit of a target that always
   fails.

### Proofs

`ProviderCircuitProofs` proves for every set of calls, every route, every number
of attempts and every threshold: `TypeOK`, `LateResultsDecideNothing` and
`CountMatchesState` (a circuit is closed exactly while fewer failures than the
threshold are counted). Assumption: `CircuitAssumption`.

`IInv` adds:
- `PermitsFit`: the permit of an open row is nobody's, and a call that holds the
  permit of a half-open row was told that it is the probe;
- `Answered`: a call that records has a result.

The argument: every step leaves a row alone, gives it a permit, lets time pass or
writes the result of the call that holds its permit (`Changes`). A row opens only
by a write, which takes the permit away, so no call from before can write it; it
becomes half open only with a permit for a probe, so only probes can end that.

Only model-checked: `EveryCallEnds`, `NeverShutForGood`. Only proved, because the runs have one credential
per candidate: the rotation of credentials keeps `TypeOK`.

## 6. Releases

`ReleaseController` models how a release gets onto the host. GitHub lists
deployments; the agent polls Staging and then Production and starts the root
controller for one deployment at a time under the global lock; the controller
records what it does in a ledger on disk while it replaces release files,
services and the schema. The host may crash between any two steps.

| variable | code |
|---|---|
| `request`, `published`, `fresh` | what each deployment asks for, what GitHub lists, whose intent and token have not expired |
| `seen`, `etag`, `agent` | the agent's state on disk and its poll in progress |
| `ctl` | the controller in progress: where it is, its copy of the record, whether the deadline has passed |
| `ledger`, `journal` | `deployment-ledger.json`; the previous release kept for an undo |
| `host` | of each environment the files of the release, the release each service runs, the migrations the schema has |
| `status` | the newest status of each deployment on GitHub |

`Plan` and `UndoPlan` are the transaction as lists of operations and of phases, in
the order of `execute_transaction` and of its rollback; `Phase` writes a phase,
`Check`, `KeepJournal`, `WriteFile`, `Start` and `Migrate` perform an operation.
`Fails` is the `except` clause: give up, undo, or ask for a review. `Begin` is what
happens before the transaction (an earlier record answers, a blocked environment
refuses, anything else is a new attempt), `Finish`, `Post` and `Posted` what follows
it. `Save` is a write of the ledger: the copy in memory changes first, and when
the write fails the file may have changed or not. `Publish`, `Expire`, `Poll`,
`Invoke`, `Mark` and `EndPage` are GitHub and the agent, `Reconcile` is root's
command.

Assumptions: files are replaced as a whole (`os.replace`), a service restarted
after a crash runs what it ran before, an operation that fails may have replaced
its service or applied some of its migrations. Left out: the authenticity of
intents, the limits of lists and pages, the operators' own commands, children of a
killed shell that go on, the `synchronization` field of a record (nobody reads it).

| run | instance | shows |
|---|---|---|
| release | 2 deployments: a promotion from Staging to Production, or one release asked for twice; its migration; five operations that may fail; 2 faults | `TypeOK`, `HostIsAccountedFor`, `StatusIsTrue`, `OneSuccessPerTarget`, `ProductionFollowsStaging`, `NoWayBackAfterMigration`, `EveryRequestIsAnswered` |
| release_deadline | 2 deployments, one deadline that passes | finding 4 |

Two deployments are what a second one finds of the first: its record, its success,
the block it left. The five operations cover each kind (a check before the
authority changes, a file, a check after it, the migration, a service); the others
of a kind fail alike. Two faults are a failure and another one while the first is
dealt with.

Fairness: systemd starts the agent again and again (`Agent`), the controller runs
on by itself (`Control`), intents and tokens carry an expiry time (`Expire`). That
is all `EveryRequestIsAnswered` needs: a stranded record makes its deployment
retryable until its expiry rejects it.

Met while modelling, not contradicted by any document: the replay of a deployed
release is rejected once its intent has expired, although its record says success;
a deployment of a release that succeeded earlier reports success although another
one is active meanwhile; errors of the bootstrap (`BootstrapError`) are not among
those the transaction catches, so that its record stays in progress and blocks the
environment.

### Finding

4. deploy/control-plane/README.md:43: "Before a changed migration starts, failure
   restores the previous manifest/runtime and redeploys the previous application
   services." The undo runs under the deadline of the transaction it undoes. Once
   that has passed, which is also how a stuck operation ends, the files are
   restored, every redeployment is refused, and the services stay on the failed
   release. The ledger says so (`rollback-failed`): `HostIsAccountedFor` holds.

### Proofs

`ReleaseProofs` proves for every number of deployments, releases, services, files,
failing operations and faults: `TypeOK`, `HostIsAccountedFor`, `StatusIsTrue`,
`OneSuccessPerTarget`, `ProductionFollowsStaging` and `NoWayBackAfterMigration`.
Assumption: `ReleaseAssumption`.

Much depends on the order of a plan. `Plan` is a sequence of four parts
(`Preparation`, `Switch`, `Migration`, `Rollout`); lemmas on it say which operation is
`Behind` which (every file is written before the migration begins, the authority
changes before any file, Staging's success is asked for before Production's). `IInv`
is made of
- `InOrder`, about the disk: attempts follow each other, a record that was never begun
  left nothing, a journal names a release that was proven, and the two properties
  about the host;
- `Controlled`, about the controller at each of its places: while it runs, exactly
  what its steps so far say was done (`Running`: files, services, schema, journal,
  phase of the record); while it undoes, what was restored (`Undoing`); where it
  ends, why (`Ending`); what it tells GitHub is on disk (`Telling`).

The argument: a crash keeps the disk and forgets the controller, so `InOrder` must
hold at every step, and `Controlled` says that it does. The authority of a release
changes only after its phase was written, so a host that is not as the last success
left it has a record that is in progress or asks for a review, and blocks the
environment. A write that fails may have reached the file or not: both are steps of
`Save`, and neither is ahead of the host.

Only model-checked: `EveryRequestIsAnswered`.

## 7. Translated conversations and how customers get them

`TranslatedLog` is what readers of the database may rely on: messages are only
appended; each has a language (`same` as the reader's, `other`, `unknown`), may be
skipped by staff, and has a translation that waits, is stored or has ended
without. `TranslationJobs` is how that comes about, and is checked to implement
it. `CustomerStream` and `ChannelDelivery` extend `TranslatedLog`, so what they show
holds of any translation that implements it; `CustomerDelivery` puts them
together: a conversation is read on the website or carried by a channel (`via`).

| module | variables | actions ↔ code |
|---|---|---|
| `TranslationJobs` | `message`, `job`, `queue` (jobs by age), `worker` | `Write` (message, language row and job in one transaction); `Retry`, `Request`, `Skip`, `Confirm` (remediation); `Claim`, `Lock` (advisory lock and the check behind it), `Answer`, `Finish` (fenced by the token); `Crash`, `LoseLock`, `LeaseEnds` |
| `CustomerStream` | `stream` (the poll and its registration), `wire`, `client` (what the page shows, Last-Event-ID), `drops` | `Open`, `Read` (the query behind the barrier), `Publish` (frames, forgotten positions, cursors), `Receive`, `Disconnect`, `Reload` |
| `ChannelDelivery` | `deliveries`, `dispatcher` (a worker and its batch), `sent` | `Schedule`, `ClaimDue`, `Withhold`, `Refuse`, `Preflight`, `PreflightThrows`, `Send`, `Record`, `RecordThrows`, `Crash`, `LeaseEnds` |

Two barriers look alike and are not. The stream sends later messages although an
earlier one still waits, and only holds back the cursor from which a browser would
resume; a channel withholds them. A message of unknown language holds the cursor
but does not block a channel.

Abstractions. A job has no more than one lease token that counts, so a row names
its holder. Which policy and profile apply when a message is written or confirmed
is a choice. Times are booleans (`over`): leases of one claim may end at different
moments, a backoff is a claim that comes later. The adapter's call is one step, with
stalls before and after it. A message has one job, for whoever is to read it: an
answer of the assistant may have a second one, into the language of the staff
(translation-scheduling-policy.ts:15-19; it can be requested too), which no customer
waits for, and which is left out. Actions that a version conflict refuses change nothing
and are left out. A cursor is a position. Left out: bindings of channels and inbound
messages, typing and the registry's limits.

| run | instance | shows |
|---|---|---|
| translation | 2 staff messages of unknown language, 2 workers, 2 attempts | `TranslationTypeOK`, `ImplementsLog`, `ResultsAreFenced`, `TranslationsEnd` |
| delivery | 3 messages on the website (a customer's, a staff message in another language, an answer of unknown language), pages and memory of one row, one broken connection or reload; 2 messages on a channel, 2 workers, batches of 2, 2 attempts | `TypeOK`, `NothingIsPassedBy`, `ShownIsSafe`, `SentOnce`, `NoneOvertakes`, `EveryMessageArrives` |

A message of unknown language has the longest way to a translation (confirmation,
job, retry), so it alone suffices for the jobs; two of them compete for the queue.
Pages, history and memory of one row make each full at once, which in production
takes hundreds of messages; three messages are one held, one behind it and one
behind a full page. A page that is neither full nor empty does not occur: it sets
the cursor as a full one does and starts the next scan at the resume cursor, as an
empty one does; the proofs have pages of any length. `MaxWire`, `MaxDrops` and `MaxMessages` bound the state space.

`ResultsAreFenced` names the claim, which readers do not see: a job ends with the
result of the worker whose claim is the latest and whose lease still runs, or by
staff, or when its last lease ran out; only an expired claim is taken over.

`NoneOvertakes` excuses an earlier message only if its language was unknown at the
preflight of the later one: each send in `sent` carries, as history, what was unclear
then (`unclear`). A language confirmed between claim and preflight is not excused: the
preflight looks at the earlier messages again for its sake
(docs/tasks/0038-conversation-channel-foundation.md:124). Confirmed after it, the later
message is on its way: check and send cannot be one transaction (the same file, :130).

Fairness: workers, the poll, the browser and the dispatchers go on, connections are
opened again (EventSource) and leases run out. Nobody has to confirm a language or
retry a translation: `EveryMessageArrives` is about messages that can be read and
deliveries that are scheduled. Conversations are bounded and what is awaited stays so
until it is settled, so it says that again and again nothing is outstanding; and `TranslationsEnd` excludes staff who retry for
ever.

### Proofs

`TranslationProofs` proves for every number of messages, workers and attempts
`TranslationTypeOK`, `ImplementsLog` and `ResultsAreFenced`. The invariant adds `Busy`:
who finishes has a message and a result. Every step writes at most one message and its job, and the
readers see one entry change (`Entry`); a claim that gives up exhausted leases, or a
result, is a `Translate` of the entries that waited.

`DeliveryProofs` proves `SentOnce` and `NoneOvertakes` for every number of
dispatchers, attempts and messages and every batch size, over a conversation that
goes on being written and translated. `IInv` adds to the types:
- `Waiting`: what is in a batch and unsent is in no other batch, was never sent, and
  is leased by that worker or has become UNKNOWN;
- `Knowing`: who still holds the lease records what happened;
- `Truthful`, `Counted`: the ledger does not lie, a waiting delivery has attempts left;
- `Cleared`: whatever waits for its translation, or may yet, before a message that is
  about to be sent or was, was unclear at the check before that send. It is inductive
  because no message comes to wait but one of unknown language (`May`, `LogGoesOn`).

The argument: a lease that ran out ends as UNKNOWN and is never claimed again, so a
worker that stalled behind the check is the only one that may still send.

`StreamProofs` proves `NothingIsPassedBy`, `ShownIsSafe` and `TypeOK` for every length
of a page, of a history and of the memory of a registration and for any number of
frames under way and of broken connections. `Streaming` says what each cursor
*covers*: every message up to it is on the page, on the wire before it, or excused
(skipped, or of the system). It adds
- `Covering`: the browser's cursor is covered by what is shown, a frame's by that and
  the frames up to it, the poll's two cursors by all of these; a registration remembers
  only what it sent;
- `Polled`: a page rises from the scan on, and unless the scan is ahead of the resume
  cursor, no row before a position to resume from is missing in it (`Whole`);
- `ReadableAll`: whatever is shown or under way can be read.

The argument: a query leaves out only what cannot be read, and what cannot be read and
is not held is excused, so a page up to the barrier is whole (`RowsArePage`); a page
that was read ahead is dropped when the barrier has moved (`Behind`), otherwise its
cursors are no further than the one already covered. The registration goes through the
page row by row (`FrameRegisters`, `PageRegisters`); forgetting positions only makes it
send again. Nothing that happens to the conversation takes back what could be read or
was excused (`LogKeeps`), and that alone is what the stream needs of translation.

Only model-checked: `TranslationsEnd`, `EveryMessageArrives`.

## 8. Staff

`StaffAccounts` (accounts, invitations, sessions), `StaffTelegram` (connection
requests, links, recipients, groups) and `InquiryDesk` (status and assignment of an
inquiry) share the rows of accounts and their locks; `StaffOperations` composes
them and states the properties.

A `clerk` is a database connection in a transaction. Each operation has a plan, the
rows it locks in the order of its statements (`todo`); a lock is granted when
nobody else has the row, what the code checks under it either lets the clerk go on
or ends the transaction, and the commit is one step (`Commit...`) that writes what
the code writes. `Rollback` may end a transaction at any time. What an operation
reads before it takes a lock stays in the clerk's record, however old it is by
then.

| module | variables | operations |
|---|---|---|
| `StaffAccounts` | `accounts` (role, active; the account with its team member), `invitations`, `sessions` | create, activate and revoke an invitation, change a role, switch an account, bootstrap, provision, sign in, sign out |
| `StaffTelegram` | `requests`, `groupRequests`, `links`, `recipients`, `news` (the audit event of the step) | create, consume and revoke a request, disconnect, switch a member; create, consume and revoke a group request, enable, disable and disconnect a group |
| `InquiryDesk` | `inquiry`, `assignment`, `entry` (the workflow event of the step) | assign, change the status: a snapshot, later a transaction that compares it with the row |

`agenda` says with which staff a behaviour begins and to which operations it keeps;
`dead` is history. Left out: names, passwords and the formats of tokens, reads, the
chat of an unauthorized recipient, the limiter of sign-ins, retention.

Abstractions. A row of a link is locked under the lock of its account, in the step
that writes it. Consuming also locks the link the user has, which may be another
member's, without that member's account; it then gives up. That wait is left out: a
circle through it has a consume in it, which `CirclesNeedARequest` allows. An insert that conflicts with a unique index is a wait for the row.
Expiry is judged when the row is locked. `Latest` bounds the times that clocks show;
each server's clock may show any later time. Of a session only its order against
deactivations under way counts (`after`).

| run | instance | shows |
|---|---|---|
| staff | 2 clerks, 3 accounts, 2 Telegram users, 1 group, 11 beginnings, clerks symmetric | `TypeOK`, `RecipientsAreLinked`, `CirclesNeedARequest`, `PowerIsGranted`, `NoDeadToken`, `AuditIsTheHistory` |

A beginning keeps to operations that depend on each other's rows; the eleven bring
together those whose interleaving the locks are there for. Two clerks suffice for one transaction to invalidate another; three
accounts are an actor, a target and one that is yet to be created. A viewer is
managed like a sales person and does not occur. All properties are about safety, so
no fairness is assumed and a clerk may wait for ever: `CirclesNeedARequest` says
which transactions can wait for each other. They exist: activating and revoking an
invitation and consuming a request lock the token's row before the account,
everything else the account first, and PostgreSQL then aborts one of them.

Met while modelling. Sign-in reads the account without a lock, so a session may be
inserted after a deactivation; it is refused while the account is inactive and
accepted after a reactivation within its lifetime. A deactivation dated before a
sign-in that overtook it violates the check of `staff_sessions` and fails. The
comparison of an unassigned inquiry has no time: an assignment decided before
another one came and went still succeeds, so assignments, unlike statuses, need not
form a chain when ordered by their times.

### Proofs

`StaffProofs` proves for any finite set of clerks and of accounts, any users, groups,
roles and beginnings: `TypeOK`, `RecipientsAreLinked`, `CirclesNeedARequest`,
`PowerIsGranted`, `NoDeadToken` and `AuditIsTheHistory`. Assumption:
`StaffAssumption`; the sets are finite because administrators and circles are counted.

`IInv` is `Tables` (what holds of each table, `RecipientsAreLinked` among it) and
`Transactions`:
- `Fit`: a clerk's locks, held and wanted, are the rows of its operation, in the order
  of `Before`: accounts by their ids, then what belongs to them, unless the operation
  comes with a token;
- `Exclusive`: a row has one holder;
- `Sound`: what a transaction found under its locks is still so: its token is
  outstanding, its actor may do it, its target is not the last administrator.

The argument: `Sound` speaks only of rows whose locks are held (`Judged`: of accounts
once all of them are), a commit writes only rows it holds (`OnlyThose`), so by
`Exclusive` it leaves those of every other transaction undisturbed (`Leaves`). A
commit therefore does what its operation may, which is what the three action
properties ask. A circle of transactions that wait for each other would descend for
ever in one strict order (`OneOrder`) on a finite set, unless one of them locks a
token first.

Nothing here is only model-checked.

## 9. Not modelled

- Registry of AI providers and its configuration: rows with compare-and-set, the
  form of which `InquiryDesk` and `AiFallback` already have.
- The tool loop of the conversation agent: its outcome is an input of `AiFallback`.
- Telegram webhook: a reply is an append of `AiFallback`; its parsing, and the
  identity that makes a repeated update a duplicate, are not modelled. Inbound
  messages and bindings of channels are single inserts that a conflict refuses.
- Customer acquisition: a pilot with synthetic data, in which every operation takes
  one advisory lock first, so that no two of them interleave.
- Typing, limits of the stream registry, signals and poll delays of the worker
  runtime.
- Operators' commands of the deployment, server bootstrap, backup and restore,
  durable writes on Windows: sequential scripts on one host.
- Load plan, schedule windows, release contract: pure calculations and validation.
- Rendering, catalogues, forms, formatting, monitoring, IndexNow: no behaviour that a
  model would explain.

"components" in `PROJECT.json` has the status of each part.
