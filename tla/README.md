# TLA+ models of code-narrative

code-narrative turns a GitHub repository into a short story, asynchronously: a
browser posts a URL, an API records a job and queues it, a worker fetches the
repository, asks Amazon Bedrock for the story and records the outcome, and the
browser polls until it is there. The models here are about the part of that
which tests hardly reach: queues that deliver twice, invocations that die
between two writes, answers that come late, and three clocks (function
timeout, lease, visibility timeout) that have to fit together.

    tlc -config MCDuplicates.cfg MCPipeline.tla    # check a run
    tlc -config MCPoller.cfg LocalProcesses.tla    # this run and MCLogout have no MC module
    tlapm NarrativePipelineProofs.tla              # check the proofs of a module

## The system

| Component (source) | State it keeps | Operations | Talks to | Hard part | Modelled in |
|---|---|---|---|---|---|
| Conversion API, POST (`apps/api/app`) | none; the request in progress | validate, put the record, send the message, answer 202 | job table, queue | dies or fails between put and send; a call fails after taking effect | `NarrativePipeline`, `LocalGateway` |
| Conversion API, GET and list, authentication | none | read one record, list by user, page tokens, resolve the user | job table | stale reads, order of `created_at`, paging a moving index, two layers reading one token | `NarrativeListing`, `LocalGateway`, `ResultPolling` |
| Job table (DynamoDB) | one record per job: status, updated_at, ... | conditional put, conditional claim with a lease, unconditional outcomes | - | claims racing, writes whose answer is lost | `NarrativePipeline`, `JobLifecycle` |
| Queue and DLQ (SQS) | messages, visibility, receive counts | send, receive, delete, redrive | - | duplicates, redelivery | `NarrativePipeline` |
| Event source mapping (AWS; `local/emulator/esm.py`) | the batch in hand | receive, invoke, delete what was not reported | queue, worker | partial failures, crash, timeout, odd responses | `NarrativePipeline` (AWS), `EsmPoller` (local) |
| Worker (`apps/lambda-worker`) | the batch, the job in hand, /tmp | claim, fetch, unpack, select, generate, record | GitHub, Bedrock, job table | which errors are final; the deadline; the lease | `NarrativePipeline`, `JobProcess` |
| Extraction, material (`internal/extract`) | files under /tmp | unpack with a size cap, choose material within a budget | - | arithmetic of caps, cutting UTF-8 | `MaterialBudget`, `WorkerMaterial` (how it ends: `JobProcess`) |
| Frontend polling (`apps/frontend/js/app.js`) | `activeJobId`, the result area, the form | submit, poll, select from the history | API | interleaved loops, stale answers | `ResultPolling` |
| Frontend session (`auth.js`, `pkce.js`) | tokens and PKCE values | login, callback, refresh, logout | Cognito | refresh racing logout, two logins, reloads at an await | `AuthSession` |
| Frontend draft (`preferences.js`, `app.js`) | the saved form | save, load, normalise, clear | localStorage | tabs, versions and people sharing one item | `FormDraft` |
| Statistics (`apps/lambda-stats`) | the metrics items | scan, aggregate, write | job table, Step Functions | scan of a moving table, half-written metrics | `StatsBatch` |
| Local gateway (`apigw.py`, `lambda_rie.py`) | none | route, authorize, invoke, answer, CORS | function runtime | gives up waiting while the function runs on | `LocalGateway` |
| Local servers (`http_service.py`, stubs, `frontend_server.py`) | the connection | read, answer, keep or close | - | bodies left unread on kept connections | `KeepAlive` |
| Local setup (`init_resources.py`) | none | wait, create the table, check the queues | DynamoDB, SQS | services coming up late, runs side by side | `LocalInit` |
| Rendering, validation, configuration, Terraform, CI | - | - | - | no state of their own | not modelled |

What makes it correct, component by component:

* job table and worker: one owner at a time, outcomes written once and final,
  no accepted job without either an outcome or a message that will bring it
  back (in the queue or in the DLQ);
* queue and mapping: only handled messages are deleted, everything else comes
  back a bounded number of times and then becomes visible in the DLQ;
* stages of a job: an error is recorded when it is lasting and handed back when
  it is passing, slowness is never a failure, and what an attempt holds goes with it;
* list: a walk through the pages has every job it began with, in order, and
  only the user's own;
* gateway: an answer tells the truth about the record and the message, even
  when the gateway stopped waiting;
* frontend: what is drawn belongs to the job the user chose, and every wait
  ends; a code meets its own verifier, a session has the refresh token of its own
  login and ends at the logout, and so does the draft;
* statistics: every job that had settled counted once, and a day's records of one execution;
* material: the caps refuse exactly what exceeds them and cut between characters;
* local servers and poller: requests of the usual form on one connection are never
  read together, and only handled messages are deleted;
* local setup: exit code 0 means that everything is there.

## Modules

`JobLifecycle` is the abstract promise of the job table: a record is created
once, claimed by at most one owner, abandoned or finished by its owner, and
never written again. It knows no queue, no time and no failure.

`NarrativePipeline` is the pipeline itself. Each `PutItem`, `UpdateItem`,
`SendMessage`, receive and delete is one step, so everything can happen in
between.

* `api[j]` is the request for job `j`. A request that dies between two calls
  looks to the rest of the system like one whose next call failed without
  effect; a call that fails *with* effect leaves its effect and answers 5xx.
* `status`, `age` are the record: `age` counts ticks since `updated_at` and
  stops at `Lease + 1`, since the claim's condition only asks whether
  `updated_at` is older than `now - lease` (`Claimable`).
* `queue`, `hidden`, `received`, `dups` are SQS: where a message is, ticks until
  it is visible, its receive count. `Resurface` is at-least-once delivery: a
  message in flight, or one already deleted, is handed out again.
* `pc`, `batch`, `todo`, `failures`, `cur`, `clock` are the invocations:
  `Receive` starts one, `HandleRecord` takes the next record, `MarkProcessing`
  has one disjunct per result of the claim (acquired, record missing, busy,
  failed with or without effect, masked by the SDK's own retry),
  `PrepareMaterial` and `Generate` either go on, go on to record failure, or
  return an error; `MarkCompleted`/`MarkFailed` write the outcome; `DeleteMessages`
  is what the mapping does with the response; `Kill` is a crash or the timeout.
* `Orphans` are messages naming no record (as in `local/tests/test_integration.py`),
  `Garbage` those whose body is not JSON.
* Time is relative and `Tick` is global; an invocation never outlives
  `LambdaTimeout` because `Tick` waits for the platform to stop it.

`JobProcess` opens up `PrepareMaterial` and `Generate`: one job in `Process`,
stage by stage and delivery by delivery, with the error each stage can meet,
`ghclient.IsPermanent` and `bedrock.IsPermanent`, the deadline of the context that
every call carries, and the deferred `Close` and `RemoveAll`.

* `deferred` is what Go keeps for the return: `FetchTarball` and `MkdirTemp` push on
  it, `Return` sets the answer, `RunDeferred` runs one call after the other. `dirs` are
  the directories in the /tmp of this environment, each named by its attempt; `Kill`
  runs nothing that is deferred, so the directory of a stopped attempt stays, until
  `Begin` gets a fresh environment.
* An outcome's `UpdateItem` is three steps: `WriteOutcome` sends it, unless the context
  is over, `Apply` or `Lose` is what becomes of it at the table, at any later time, and
  `WriteReturns` is what the worker is told, an error also of an update that is still
  on its way. So an update sent before the deadline may be applied after it, after the
  message went back, or after the invocation was stopped. `message` is the record's
  `error_message`, as the error it tells of.

`ResultPolling` is the page: `pollUntilDone` cut at its awaits (`Start`,
`GetNarrative`, `HandleAnswer`, `Wake`), the form that waits for its loop, the
history's clicks. `get_item` is not a consistent read, so an answer may be one
update old.

`NarrativeListing` is the list. A job is stamped (`Stamp`), stored (`Store`) and
brought to the index (`Propagate`) in separate steps, so jobs appear behind a
walk as well as ahead of it. `utcnow_iso` gives the rank a moment's text has
among all texts, which is not the moment itself: a fraction of zero is left out.
`Pages` is the query, including pages cut short by their size; `LastKeys` and
`Beyond` are the token, as the whole key; a walk's ghost fields `start` and
`earlier` keep what the properties compare with.

`LocalGateway` follows one request, of every shape, through `ApiGatewayHandler`
and the function behind it: `Preflight`, `Handle`, the function's own steps
(user, validation, record, message), and `InvokeTimesOut` beside them, after
which the function runs on. `direct` requests bypass the gateway.

`KeepAlive` is one connection to one of the emulator's four servers: what each
handler reads before it answers, and whether the connection stays open. A request of
any method may have a body, with a `Content-Length` that is right or that `read_body`
refuses, or in chunks, of which `read_body` reads nothing. `left` is the request whose
body is still on the wire.

`EsmPoller` is the loop of `esm.py`: `Check`, `Receive`, the invocation that may
answer in every form `failed_message_ids` tells apart, be cut off or outlast the
timeout, and the deletion message by message.

`LocalInit` is `init_resources.py`, run by several jobs, with services that come
up one by one or never.

`AuthSession` is one tab's session. Every `await` of `auth.js` is a step boundary,
`location.assign` takes effect later (`Unload`), the Hosted UI brings back a code of
any login or an error, and the page may be reloaded anywhere. A refresh token is
known by the login that brought it: a refreshing request holds the one it has sent
(`request`), and stores it again with the answer (`StoreRefreshed`), whatever the
storage has by then; `issued` is the one the last login brought.

`FormDraft` is the saved form: several tabs over one localStorage item, each
running the version of the page it has loaded, and people who use the browser in
turn. The item may be there from before, with fields that are missing or no text, a
prompt beyond the limit, a model of any version (`Stored`). Two ghosts: `edited`, the tab whose input was stored last, and `kept`, whether
a logout failed to remove the draft or was followed by more input.

`StatsBatch` is the state machine's three tasks over a table in which jobs and
earlier metrics share one order of keys; `count` keeps how often a scan took each
item. The scan does not ask for consistent reads: `Start` chooses which of the jobs
there are every replica has by then (the scan's ghost `start`), and a page may miss any
of the others. `MaterialBudget` is the arithmetic of `Untar`, `writeFileCapped`, `takeBudget`
and `truncateUTF8`; a text is the sequence of its bytes, of which only matters
whether they start a character.

`WorkerMaterial` composes it with `JobProcess`: between the stages `untar` and
`commits` the archive is unpacked file by file, between `select` and `generate` the
material is taken part by part, and `Follow` says for every step of `Process` what
becomes of that work. So the deadline and the kill may come between two files, a
retry begins from an empty directory, and `too large` is answered exactly when
`writeFileCapped` says so.

Four modules hold two components of one part of the system that do not act on each
other: `TableReaders` (the list and the statistics, both readers of the job table),
`LocalHttp` (a request and a connection), `LocalProcesses` (the poller and the setup)
and `BrowserStorage` (the session and the draft). There a variable `part`, chosen in
the initial state, says which component a behaviour is about, so that one run checks
both and their state spaces add up instead of multiplying; both theorems and runs
speak of these compositions. The `MC*` modules instantiate everything for TLC.
Operators introduced by a comment that starts with "Defect" are not part of the
models: each is a plausible bug in the operator that follows it, kept to show
that a property notices it (PROJECT.json, `mutants`).

## Runs

| Run | Checks | Shows |
|---|---|---|
| `MCDuplicates` | `TypeOK`, `SingleOwner`, `OwnerHoldsLease`, `ImplementsLifecycle` | With a duplicate delivery and a claim masked by its retry, a record has one owner at a time, and every step is one of `JobLifecycle`: outcomes are final |
| `MCRedelivery` | `NoLostJob`, `RedeliveryOutlivesLease`, `AcceptedJobSettles`, `OrphanReachesDlq` | Under the production timing no message is deleted before its job has an outcome, and jobs end with an outcome or in the DLQ, with no step of the worker guaranteed |
| `MCStages` | `OnlyUntarMisjudges`, `LastingErrorIsNotRetried`, `NothingHeldBetweenJobs`, `SlownessIsNoFailure`, `JobSettlesOrIsExhausted`; `TooLargeExactly`, `PartsKeepBudget` | How each error of each stage is judged; no record is failed for slowness, and no return leaves a directory; the caps are exact and cuts fall between characters |
| `MCPolling` | `OnlyActiveJobIsServed`, `FormComesBack`, `WatchedJobIsConcluded` | The page follows the user and never waits for ever |
| `MCListing` | `WalkIsComplete`, `OnlyOwnJobsShown`, `NewestFirst`; `StatisticsAreRight`, `RecordsOfOneRun` | Paging neither skips nor repeats, whatever is created on the way, and is newest first but for timestamps without a fraction; the statistics have every job that had settled once, whichever replica answers a page, and mixtures need a failure or an overlap |
| `MCGateway` | `AcceptedIsComplete`, `RefusalIsFinal`, `OwnerIsAuthorized`, `GatewayAndApiAgree`; `ConnectionStaysUsable` | 202 and 4xx tell the truth, the owner is the authorizer's user; requests of the usual form leave every connection in order, but for the Bedrock stub's refusals |
| `MCPoller` (module `LocalProcesses`) | `OnlyHandledDeleted`, `SignalStopsLoop`, `PollerReceives`; `ExitZeroMeansReady`, `RepeatedRunsSucceed`, `EveryRunEnds` | No response or failure deletes an unhandled message and a signal ends the loop; the setup's exit code is true, and repeating it is harmless |
| `MCSession` | `VerifierFitsCode`, `RefreshTokenIsTheLogins`, `FreshTokensAreKept`; `RestoredIsSubmittable`, `ReloadRestoresInput`, `LogoutLeavesNoInput` | Overlapping logins never mix their values, what a refresh stores is of the login the tab is in, and a refresh discards fresh tokens only where two race; deployments, older items and failing storage never bring up an unusable form, a reload keeps the input and a logout removes it |

For the properties below that the table does not name (`TypeOK` of the other modules,
`TerminalIsFinal`, `RecordPrecedesMessage`, `OrphansAreKept`, `RecordAdvances`,
`StepsOfLifecycle`, `PagesDescend`, `OnlyAllowedOriginsAct`) the proof stands for the
run. In `KeepAlive` and `FormDraft`, `TypeOK` is part of the invariant of a proof.

Runs that TLC finds violated, each of a statement the repository makes:

| Run | Statement | What the code does |
|---|---|---|
| `MCLoseByDuplicate` | `NoStrandedJob`: a job left processing is taken up again (worker README, "processing リース") | A duplicate skipped while the lease runs takes the only message with it; if the owner then fails, the job is processing for ever |
| `MCLoseByLongLease` | the same, with the lease "at least the visibility timeout" that `worker.go` and the README advise | The redelivery itself meets the lease, is skipped and deleted. The lease has to be *shorter* than the visibility timeout, by more than a run. Production (300 + 900 < 1800) is safe, the local setup (lease 5 s, visibility 5 s) is not |
| `MCTimeoutCovers` | `TimeoutNeverCoversOutcome` (`app.js` on `activeJobId`) | Two loops for the same job pass each other's check; the older one's timeout replaces the story |
| `MCLogout` (module `AuthSession`) | `LogoutDiscards` (`auth.js`, frontend README) | A refresh in flight stores its tokens after the logout |

### Further divergences, met while modelling

Each of these can be read off a model, but no run is kept for it: it takes a single
failure or a single overlap, and where a property comes near one, the property
says where it stops.

* `apps/lambda-worker/internal/store/store.go:81-97`, the claim, is not idempotent under the SDK's own retries. If the first `UpdateItem` is applied and
  its answer lost, the retry fails its condition against the record it has just
  written, and the message is deleted with nobody working on the job
  (`RetryMasksClaim` with `NoStrandedJob`; `NoJobIsLost` excludes it).
* `apps/lambda-worker/internal/store/store.go:85-86` also claims a record that is processing with an expired
  lease, as the worker's README describes; `README.md:82`, `docs/SPEC.md:241` and
  `apps/lambda-worker/README.md:6` say that only `queued` is claimed.
* `apps/lambda-worker/internal/worker/worker.go:189-194` records a network error while the archive is read as
  failed; `apps/lambda-worker/README.md:39` says that network errors are redelivered.
  `OnlyUntarMisjudges` shows that this is the only stage that does.
* `apps/api/app/utils/time.py:20` leaves out a fraction of zero, so a job stamped at the
  beginning of a second is listed above the later ones of that second; `time.py:16-17`
  promises the order in time. `NewestFirst` is exact about it.
* `apps/api/app/utils/pagination.py:48-50` accepts every JSON object as a token, where
  `apps/api/app/routers/narratives.py:96` says 400 for an invalid one. One that is no key
  of the user's list fails at DynamoDB and is answered 502, and one with a number that
  is no integer fails before it is sent, with an error nobody catches (500):
  `narrative_repository.py:106` and `:149` catch `ClientError` only, so that a table which
  cannot be reached is answered 500 as well, where `narratives.py:96` and `:136` say 502
  (`Failures`).
* `local/emulator/bedrock_stub.py:90` refuses a path with the body unread, on a
  connection that is kept (`http_service.py:49`): the exception in `ConnectionStaysUsable`.
* `local/emulator/http_service.py:64-66` reads nothing of a body without a
  `Content-Length`, so that one in chunks stays on a connection that is kept, where
  `local/emulator/apigw.py:310` says that bodies are always read before anything is decided.
  No server reads a body that comes with an OPTIONS, and only the gateway one that comes
  with a GET. Nothing in the repository sends such requests (`Usual`).
* `local/emulator/lambda_rie.py:96-99` does not catch a connection closed while the answer is
  awaited, and the process of `esm.py` ends, with nothing to restart it (`WorkerEnds`).
* `apps/frontend/js/auth.js:134-139` discards the PKCE values after the exchange has been
  awaited, so a reload in between sends the code again; lines 117-118 exclude it.
* `apps/frontend/js/auth.js:169` discards the tokens when a refresh fails, even if another
  request has just stored fresh ones; lines 145-147 promise that only where they cannot
  be refreshed. `FreshTokensAreKept` says that it takes two refreshes side by side.
* `apps/frontend/js/app.js:146-149` clears the draft, but the form stays wired until
  the redirect: what is typed in between is saved again (`kept`).

### Bounds, and why they are enough

* Jobs and messages interact only through batches and invocation slots, so two
  jobs, or a job with an orphan and a malformed message, in batches of two over
  two invocations show every interaction: two invocations with the same
  message, one invocation with two messages, partial failures.
* The clocks matter by comparison only. `MCDuplicates` takes the tightest case
  the proofs allow (`LambdaTimeout = Lease = 1`, `Visibility = 3`); `MCRedelivery` keeps the
  production ratios 300 : 900 : 1800 as 1 : 3 : 6, with one job and one orphan, which may
  share a batch: for any number of jobs, its safety is proved.
* `MaxReceive` is 2 or 3 (5 in production): enough for a failed attempt, a second
  one, and dead-lettering. `MaxDup = 1` bounds the deliveries beyond SQS's
  visibility promise. One duplicate is enough for each loss above; the proofs
  have no such bound.
* `MCStages` takes two deliveries, an attempt and the one after it, which is what its
  properties relate (what was left behind, applied late, or handed back); an archive of at most two files of 0, 1, 2 or 5 bytes under a cap of 3, and a budget of 5
  bytes with characters of one, three and four bytes: below, at, one beyond and far
  beyond each limit.
* `MCPolling` takes two jobs, two loops and `POLL_MAX_ATTEMPTS = 2`, so that every
  loop has a first, a later and a last attempt. A third click waits for a free
  loop.
* `MCListing` takes three jobs, pages of two and three moments of which two share a
  second and one begins it, so that ties, a second page, a short page and a text
  without a fraction all occur; two users make foreign tokens possible.
  Its statistics take three jobs, two days and two executions, with the keys of the
  metrics between and beyond those of the jobs, and a limit of one trend of two
  prompts. Moments, jobs and days are finite; time stands still once every job is
  stamped, the date once no execution is to read it, and jobs stop appearing once no
  execution can see them.
* `MCGateway` enumerates every shape of request and every server; one request, or one
  connection, has no other to interact with.
* `MCPoller` takes two messages and a configured batch of 12, beyond what SQS takes; two
  runs of the setup, a timeout of two seconds and a setting that is no number.
* `MCSession` takes two logins, the fewest that can mix their values, and two requests,
  the fewest whose refreshes race; two tabs, two people, two versions that differ in
  their default model, and prompts one longer than the limit.

Deadlock is not checked where the system really may stop: a settled job, an idle
page with nothing to select, an answered request, a poller after its signal, a
tab with no login left, two finished executions, a job with its outcome.

### Fairness

`FairSpec` of the pipeline assumes what AWS does by itself: time passes, an
invocation at its timeout is stopped, a receivable message is eventually received
while a slot is free, and the redrive policy is applied. The worker's own
steps have no fairness: it may hang anywhere and be killed. Likewise `JobProcess`
assumes only the deadline, the stop after it, the redelivery, and that an update does not
stay on its way for ever; `WorkerMaterial`
adds nothing: unpacking and selecting may hang as well. `ResultPolling`
assumes that a pending request is answered or fails (the gateway cuts it after
30 s) and that timers fire; nothing of the user, nothing of the pipeline.

`EsmPoller` assumes that its own process is
scheduled, where an invocation ends at the latest by its timeout, and that
receiving succeeds in the end if it is possible again and again (`SF` on `Receive`);
nothing of the worker. `LocalInit` assumes that time passes and that the job itself
runs, nothing of the services.

## Proofs

TLAPS proves every safety property and every action property that the passing runs
check, for all values of the constants that satisfy the modules' ASSUMEs. These say
little: names are distinct, limits are natural numbers, finite sets are finite.
`BatchAssumption` says that the table's keys have places in one order and that the
jobs and prompts scanned are finitely many; `TokensAssumption` that having no tokens
is none of the ways to have some; `DraftAssumption` that there is a version
of the page and each offers a model; `TimeoutAssumption` that the setup's timeout is
any number or no number at all; `MaterialAssumption` that texts are whole UTF-8
characters. Only the theorems on timing have hypotheses beside, named below.

`NarrativePipelineProofs` (`LambdaTimeout <= Lease` for all but the first and
where another condition is named):

* `TypeCorrect`. `TypeInv` adds to `TypeOK` what each phase has in hand (`HandInv`).
* `MutualExclusion`, `LeaseCoversOwner`, `TerminalStatusIsFinal`. `SingleOwner`
  alone is not inductive: a second claim is excluded only because the owner's
  record is processing with a lease younger than the owner's own running time.
  `OwnerHoldsLease` says that, and the two are preserved together: the claim sets
  the age to 0, `Tick` advances age and clock together, the clock stays below
  `LambdaTimeout`, so the age never exceeds the lease while the owner lives. An
  unconditional outcome write is harmless for the same reason.
* `PipelineImplementsLifecycle`, the refinement that `MCDuplicates` checks, with
  `owner` mapped to the invocation that is past its claim. A claim that is applied
  but not learnt of maps to `Claim(j, None)`.
* `RecordsAdvance`: a record goes from queued to processing to an outcome, one step at
  a time. This is what `ResultPolling` takes for granted in `Work` and in a stale
  read, and it needs `OwnerInv`: an outcome is written without a condition.
* `MessagesFollowRecords` and `OrphansNeverDeleted` hold without timing assumptions.
* `NoJobIsLost` and `RedeliveryFindsLeaseExpired` assume `Undisturbed`: no delivery
  beyond the visibility promise, no masked claim, and
  `LambdaTimeout + Lease < Visibility`. The invariant relates the three clocks of
  a message: an invocation that holds it has run for what is gone of its
  visibility timeout, so by the time it is received again the run and the lease
  it may have left are over. The two runs that lose a job, and the claim masked by its
  retry, each drop one of these conditions.

`JobProcessProofs`:

* `FailuresAreJudged`, `RetriesAreWorthwhile` (both from `DecisionInv`, which follows
  the cause of an attempt from the stage that met it to the answer), `TypeCorrect`.
* `SlowJobsAreRetried`. `SlowInv` says that a cause is only the deadline's when the
  deadline has passed, so that the update recording it was never sent: what is on
  its way or applied tells of another error, whatever the order of the deadline, the
  table and the stop.
* `NothingIsLeaked`. `HeldInv` says what is deferred at each stage, and that a directory
  is either the running attempt's, its `RemoveAll` deferred, or a stopped one's.
* `ProcessKeepsLifecycle`: every step is one of `JobLifecycle`, which the pipeline
  implements too, so that the two views of `Process` keep one promise.
* `ArchiveCapIsExact`. `UnpackInv` says that while the archive is accepted, what was
  written is the sum of the sizes met, and that it is one byte beyond the cap once it
  is refused.
* `BudgetIsKept`. `PartInv` adds to the property that at most three bytes of the budget
  are left once a part was cut. That is where the assumption on texts comes in: among
  any five bytes of a text, one of the last four starts a character (`ScrapIsSmall`).
  `BlocksKeepBudget` shows that the blocks of files, each cut to what those before
  it left, are within the budget together, by induction over the blocks.
* `MaterialTypeCorrect`, with the lengths and the order of the parts (`Shape`).
* `DetailKeepsPromises`: `WorkingSpec` implements `Spec`, so unpacking and
  selecting in detail take nothing from the above.

`ResultPollingProofs`: `DisplacedLoopsAreSilent`, `TypeCorrect`. A loop that runs has a
job (`BusyInv`), for its answer to be typed.

`NarrativeListingProofs`:

* `WalksAreComplete`, `WalksDescend`, `ListsArePrivate`, `ListIsNewestFirst`,
  `TypeCorrect`; `ReadersKeepPromises` carries them over to `TableReaders`.
  `WalkIsComplete` speaks of finished walks only; the invariant
  (`WalkOK`) says of a walk on its way that its token is the last job listed and that
  what it began with is listed or still ahead of the token. It is preserved because
  the order of the index is transitive and the jobs a walk has met are in the index
  and never restamped. `ListIsNewestFirst` adds, by `RankInversion`, what
  `utcnow_iso` can do to the order: only a stamp at the beginning of a second overtakes.
  The order is kept as a set of pairs (`Order`), so that it can be primed as a whole.
* `StatisticsAreExact`. `ScanOK` says of a scan on its way that nothing beyond its key
  was counted and that what had settled when it began is counted or beyond the key. With counts of zero and one, the sums of `Aggregate` are cardinalities
  (`SumIsCount`), and the sum of the trends is at most the total because the prompts
  divide the jobs (`SumOfParts`); `promptTrends` keeps the top ones because "more
  often, or as often and first by name" is a strict order (`FirstAreFull`).
* `RecordsAgree`. `WritesOK` says that an execution which nothing has blurred is the only
  active one and that the records it has come past are its own.
* `BatchTypeCorrect`.

`LocalGatewayProofs`:

* `AcceptanceIsComplete`, `RefusalLeavesNothing`, `OwnershipIsAuthorized`,
  `GatewayAgreesWithApi`, `ForeignPagesCreateNothing`, `TypeCorrect`; together, of
  `LocalHttp`, in `EmulatorKeepsPromises`. The invariant ties what the function has
  done to how far it is (`FunctionInv`) and the client's answer to what the function
  ended with (`AnswerInv`); after a timeout the gateway has answered by itself, never
  with a 2xx or 4xx.
* `ConnectionsStayUsable`: a body is left on a connection only by the Bedrock stub or of a
  request that is not of the usual form (`LeftInv`).

`EsmPollerProofs`:

* `DeletionsAreHandled` (while messages are deleted, those the response does not report
  are handled), `TypeCorrect`; `EmulatorDeletesHandled` is the same of `LocalProcesses`.
* `ExitZeroIsReady`, `RepetitionIsHarmless`, `SetupTypeCorrect`. A run verifies the
  queues only when table and index are active (`ActiveInv`), and nobody undoes that:
  to create the table is to find it absent.

`AuthSessionProofs`:

* `CodesMeetTheirVerifier` (verifier and state are always of the same login),
  `TypeCorrect`; `BrowserKeepsPromises` of `BrowserStorage`.
* `RefreshesStayWithTheirLogin`. `RefreshInv` says the same of the requests in flight:
  what they have sent is the refresh token of the login the tab is in, because every
  page load ends them and a login ends in one.
* `LoneRefreshesKeepTokens`. `RaceInv`: while tokens are fresh and a refresh is under way,
  some other request has been answered a token.
* `RestoredFormIsValid`, `ReloadKeepsInput`, `LogoutDropsInput`. The item is what the
  version of the tab last edited made of that tab's form (`ItemInv`); to normalise
  what another version has normalised is to normalise once (`NormalizedTwice`); and unless a
  logout failed to, what is stored is the present person's (`PersonInv`).

`SumTheorems` has what the statistics and the material need of sums over finite sets:
that the fold of the community modules does not depend on its order, and what one
more element adds. The library's induction theorems take an operator, which the
installed provers cannot instantiate, so every induction there is by a least
counterexample (`LeastNatural`, `LeastSubset`).

Model-checked only: liveness under fairness (`AcceptedJobSettles`,
`OrphanReachesDlq`, `JobSettlesOrIsExhausted`, `FormComesBack`,
`WatchedJobIsConcluded`, `SignalStopsLoop`,
`PollerReceives`, `EveryRunEnds`), which is out of the prover's reach.

## Left out, and why

* Message retention: the models keep a message until it is deleted or
  dead-lettered.
* The content of stories, URLs, prompts and error messages; `repo_url` and
  `model_id` are either accepted or not.
* A queued job whose message was never sent is reachable and stays so: nothing in
  the code or its documents promises a repair. `AcceptedIsComplete` says that the
  client is told.
* How full /tmp is: the directories of stopped attempts are there (`dirs`), but the
  disk may fail in `MkdirTemp` and `Untar` at any time. `RemoveAll`, whose error the
  worker ignores, is taken to succeed, all it removes being of the worker's own making.
* An update still on its way when the next attempt claims the job: a claim needs the
  lease to have run out (`Begin`). In `NarrativePipeline` a write is applied at once or
  not at all, its answer lost or not.
* An empty list of jobs, which `ScanJobs` keeps apart from a missing one in JSON.
* A GitHub rate limit (403, 429) is a 4xx and thus final, as the code and its
  README have it.
* The history's refresh at page load, which is the initial state of `ResultPolling`.
* Of the material, which files are chosen and in which order (scores and name
  rules), and `safeJoin`'s check of paths: rules about texts with no state, covered
  by their unit tests.
* Of the statistics, the sums of `model_usage` and `token_usage`, which are counted
  like the trends but have no limit to cut at; the 256 KB limit of Step Functions,
  to which nothing in the code reacts.
* Of the local servers, what they serve: the stub's archive, commits and texts, and
  `config.js`.
* Rendering (`ui.js`), `validation.js`, `config.js`, Terraform and CI: no state of their
  own. The timeouts, lease and receive count Terraform sets are the constants of
  `NarrativePipeline`.

## Plan

1. The phases of one attempt as an abstract specification between `JobLifecycle` and
   the two views of `Process`, with what is answered to SQS.
2. The pipeline seen by `ResultPolling` as an instance of `JobLifecycle` instead of
   its own `Work`; `RecordsAdvance` is the proof that it may stand for it.
3. The chain of waits behind `AcceptedJobSettles` as safety lemmas: what each step of the
   platform's fairness brings nearer.
