# ValPago backend: verification project

TLA+ models of the ValPago payment-validation backend (Go, echo, MongoDB, Redis
Streams), checked with TLC; what TLC checks of their safety on small instances is
proved with TLAPS for every value of the constants.
Source references are to `src/` of the repository.

## 1. The system

A WhatsApp bot registers payments. Reviewers see the pending ones in a browser,
take one under review (the payment proof is then downloaded from Meta), and
approve or reject it. The merchant is told through a webhook.

| Component | State | Operations | Talks to |
|---|---|---|---|
| Transaction endpoints, `internal/routes/transactions.go` | Mongo documents; the Redis key `tx:<id>:status` | create, list, review, approve, reject, status override | MongoDB, Redis (script and XADD), Graph API, webhook |
| Payment proof, same file 218-340 | `support_url` of the document | download, fallback to a sample | Graph API, image server, disk |
| Worker, `internal/worker/worker.go` 1-126 | consumer group: last delivered id and pending list | read, notify, acknowledge | stream `valpago:transactions` to stream `valpago:notifications` |
| SSE, `internal/sse/sse.go` | per browser: last id, a channel of ten | read, push or skip, write | `valpago:notifications` to the browser |
| Users and login, `users.go`, `auth.go` | Mongo `users` | create, update, list, get, login | MongoDB |
| Merchants, `merchants.go` | Mongo `merchants` | create, update, list pages, get, delete | MongoDB |
| Boot, `main.go`, `config.go`, `db/*.go` | the global clients | connect, start worker, serve | all |
| Rust and C++ predecessors, `src/src`, `src/include` | | | |

A status lives in two places that share no transaction. Redis arbitrates with a
compare-and-set script; MongoDB is updated afterwards; an event is then appended
to the first stream, which the worker turns into a notification on the second,
which one goroutine per browser reads. Each arrow of this chain can fail,
be retried by the driver, be cut by the browser's disconnection (every call
runs under the request's context) or be overtaken by another request.

What is hard here, by component:

* **Transactions**: racing verdicts; code that acts on what the script answered
  seconds ago; three stores updated one after the other; dropped errors; the
  driver's resends; crashes between any two calls; a status override that
  bypasses the key. *Correct* means: the key goes through its lifecycle once,
  no handler's write puts MongoDB ahead of it (only a client's own text may, at the
  creation or by an override), no event or answer contradicts it, the merchant
  is told at most once, and without failures everything follows.
* **Payment proof**: an image is stored as proof only if Meta served it whole.
* **Worker**: crashes with a delivered batch, lost replies, two processes in one
  group. *Correct* means: nothing is processed twice, order is kept, and what is
  not notified is accounted for.
* **SSE**: `$`, a full channel, goroutines that must end. *Correct* means: in
  order, at most once, only overflow skips, nothing leaks.
* **Users**: check-then-insert; tokens that must be the owner's.
* **Merchants**: pages, requested one by one while merchants are written, that
  partition the collection or at least hide nothing.
* **The process**: endpoints and worker die together; Redis may be away at boot, later,
  or both; handlers, worker and streams share one global client and one configuration.
  *Correct* means: no outage ends or blocks the process; browsers are shown nothing out
  of the blue; when no call fails, only a death loses what was answered on its way to
  them, and no more than the batch the worker held.

`PROJECT.json` lists the hazards one by one, with their lines.

## 2. Modules

| Module | Models | Checked through |
|---|---|---|
| `Transactions` | the six transaction endpoints as concurrent requests | `MCTransactions` |
| `StatusMachine` | the abstract promise of one transaction | `Transactions!SM` |
| `SupportImage` | the proof download inside a review | itself |
| `Worker` | the consumer-group worker | `MCWorker` |
| `Relay` | the abstract promise about an entry of the stream | `Worker!R` |
| `Backend` | endpoints and worker composed in one mortal process | itself |
| `Boot` | `main`, configuration, connections, outages and relaunches | itself |
| `Sse` | goroutine, channel and handler of one stream of events | itself |
| `Feed` | the abstract promise to a browser | `Sse!F` |
| `Users` | users and login | `MCUsers` |
| `Merchants` | merchants and a browser that walks the list | `MCMerchants` |
| `X_proofs` | inductive invariant, lemmas and theorems of `X`, for `Transactions`, `Worker`, `Backend`, `Sse`, `SupportImage`, `Users`, `Merchants`, `Boot` | tlapm |

**How code becomes actions.** A handler is cut at its external calls: one action
performs one call and the local code up to the next one. An early return that
changes nothing is a stuttering step. A call whose error is returned fails by
`HandlerError`; one whose error is dropped has a failing disjunct in its own
action (`TryPublish`, `CreateKey`, `Process`, `Ack`). A call that fails after
taking effect is its successful step followed by the error. A definition that
begins with "Mutant" is not part of any specification: it is a plausible bug that
a property is known to detect when it replaces the definition that follows it.

`Transactions`: `doc` is MongoDB's status field, `key` the Redis key, `stream`
the events, `notes` what the override adds to the notifications, `posted` what
the webhook was sent, `acked` which operations were answered 200/201; `at` and
`job` are the program counter and local variables of each request. `typed` is a history
variable: the statuses clients have stored in each document themselves. A creation and
an override store any text (`transactions.go:76` names four, and nothing checks it), the
handlers' own statuses included, so a document is judged by `Grounded`: what it shows, a
client typed there or the key has reached. Names of the
actions are handler and call: `ReviewCas`, `ReviewLoad` (FindOne), `ReviewWrite`
(UpdateOne, after the download), `ReviewPublish` (XADD). Approve and reject are
the same code with another word and share `DecideCas` ... `DecideNotify`. Amounts,
accounts and the other fields are abstracted: no property tells them apart.

`Worker`: stream entries are positions; `delivered` and `pel` are what Redis keeps
for the group; `batch` is what a process holds. `dropped` and the field `by` of a
notification record, for the properties only, which XADD failed and who wrote.

`Sse`: `lastID`, `chan` and `reader` are the goroutine's variable, `messageChan`
and its place in the loop; `from` is what Redis resolved `$` to; `dropped`,
`opened` and `since` only record.

`SupportImage`: `url` is `uploadedURL`; `refused` and `gone` record why a call failed.

`Relay`: an entry is waiting, announced or lost; the last two are final. `Worker!Fate`
is the mapping: lost is an XADD that failed, or an entry in the pending list that no
process holds.

`Backend` extends `Transactions` and instantiates `Worker` (`W!...`) over the same
`stream`: a step is one of a request (`Serve`), one of the worker (`Work`) or the death
of both (`ProcessDies`: requests and batch are gone, the stores and the group stay). The
worker's view of an entry is `Fields`: its type and its document. Its notifications are
`sent`; the overrides' are `notes`, as in `Transactions`. `Shown` is what `sse.go:67-77`
makes of both for a browser; their relative order is not kept, because no property needs
it. An entry is `Lost` when it was delivered, is in the pending list, and neither the
worker holds it nor a notification tells it: the next process has another consumer name
(`worker.go:27`) and asks for `>` only (`worker.go:40`), so it is never read again.

`Boot`: `at` is main's place, `env` what the launch finds, `notify` the loaded name of
the notification stream, `rdb` the global client. `ConnectRedis` sets it if the URL
parses, before and regardless of the ping. `notify` is what worker and browsers use; the
override's name is a literal (section 3), so nothing is claimed of their agreement. Handlers are reduced to the Redis calls they make.

`Users`, `Merchants`: documents keep the fields that decide something. A password
is what bcrypt accepts for the stored hash; a merchant is its name.

## 3. Runs

| Run | Question | Instance |
|---|---|---|
| `TransactionsRace` | Do races, failures, resends, overrides and crashes break the lifecycle? No: type, `RequestsFollowKey`, `KeyIsAccounted`, `MongoNeverAhead`, `EventsFollowKey`, `AckedDecisionHolds`, `AckedCreateIsPublished`, and the refinement of `StatusMachine` | 1 transaction, 3 requests, 1 override, clients type `pending` or `approved` |
| `BackendVerdicts` | What reaches the browsers, from the request to the notification stream? Even if the process dies: only what was typed or reached (`FeedIsGrounded`); an answered operation's event is lost only by a death (`OnlyDeathLosesEvents`), which costs a batch at most (`DeathCostsOneBatch`). Without a death: `QueueTellsTruth`, `VerdictsCarryReviews`, `TransitionIsNotified` (a review whose own download hangs is not due) | 1 transaction, 2 requests, 1 override, clients type `pending` or `approved`, batches of 2, 1 death, no failing calls |
| `TransactionsLateReview` | Is a verdict final in MongoDB? **No** | 2 requests, no failures |
| `TransactionsLostWrite` | Does a decision survive a failing update? **No** | 1 request, failures |
| `WorkerFailures` | What can happen to an entry? `ProcessedOnce`, `HeldByOne`, `MissingIsStranded`, `InOrder`, `EntrySettles`, and the refinement of `Relay` | 2 workers, 3 entries of 2 shapes, batches of 2 |
| `SseClients` | What does a browser get? `ImplementsFeed`, `OnlyOverflowSkips`, `ReaderKeepsUp`, `EverythingStops` | channel of 2, batches of 3, 6 notifications |
| `SseGap` | Is every new message read? **No** | 3 notifications |
| `SupportImages` | Is the stored proof Meta's? `PhotoIsComplete`, `SampleMeansRefused` | 2 reviews |
| `UsersShared` | Are tokens and documents their owner's, even with shared emails? `TokenIsOwners`, `UserStays` | 2 users, 2 emails, 2 passwords, 2 requests |
| `UsersRace` | Are emails unique? **No** | 2 requests, no failures |
| `MerchantsPages` | Do the pages partition the collection, and what do creations during the walk do? `PagesPartition`, `CreationsHideNothing` | 5 merchants, pages of 2 |
| `BootOutages` | What can an outage of Redis or an environment do to the process? `RedisIsOptional`, `PanicNeedsBadURL`, `WorkerOutlivesOutages` | 3 launches, 2 entries, 2 stream names |

**Bounds.** Three requests are the largest conflict the code has: a review whose
download is slow, and both verdicts; a creation uses a slot that is free again.
Transactions share nothing but the streams, so one is enough for races. The
theorems of section 5 hold for every number of both. `BackendVerdicts` has two requests
(a slow review and a verdict; creations and overrides before, between and after them):
what a third adds is `TransactionsRace`'s question. One death (`DeathBound`) is enough
to strand a batch and to cut any request at any call; what a worker does after several
is in `WorkerFailures`. In `Boot` three launches give a group made before, during or
after the launch that needs it; `LogBound` 2 lets entries be appended on both sides. `StreamBound` and
`NotesBound` bound only what a resend or an override may add: 1 lets the driver resend the
first event (into an empty stream), and write either the one override or its resend, which
is what the state space allows; the theorems hold for any number. Of the texts a client may
type, `pending` puts a transaction in the queue, and `approved` is a verdict that no reviewer
has given; `rejected` is symmetric to it, and a typed `review` meets the same guards. `LogBound` and
`TailBound` bound the streams, and are chosen to exceed a batch (and, for `Sse`,
channel plus batch), so that partial batches and overflow happen. Five merchants
in pages of two give two full pages and a partial one; names are distinct
(`DistinctNames`) and merchants are renamed only before the walk (`RenamesInWalk`): with
equal names, or with renames during the walk, the model reaches a merchant that no page
shows. The code has no unique names (`merchants.go:37` inserts any), so the comment at
`merchants.go:92`, "obtiene todos los comercios", holds under these hypotheses only; the
cause is a sort without a tie-break, no interleaving, so this is not made a run.

`CHECK_DEADLOCK FALSE` is set where an instance runs out of ids, entries or
connections, not where the code could stop.

**Findings.** The four runs answered "No" above find behaviours of the code against
its own documents:

* *Late review* (`transactions.go:464` against `README.md:160`): the review writes
  `review` unconditionally after a download without a timeout, over the verdict of
  a decision that overtook it. `MongoNeverAhead` still holds: the document lags.
* *Lost write* (`transactions.go:614` against the comment at 578): after the script
  nothing is repaired, and a retry is answered 409.
* *SSE gap* (`sse.go:49` against 38): until something was read every XREAD asks for
  `$` again.
* *Duplicate emails* (`users.go:54` against 52): two calls, no unique index.

Seen while modelling and not made a run, because no interleaving is involved: GET and
DELETE of a merchant filter by `id`, a field no document has (`merchants.go:162` and 177
against 154), so they answer 404 for every merchant and `Delete` deletes nothing; the
`validate` tags are never enforced, so the override stores any text (`transactions.go:76`);
the worker types every notification `transaction.pending` (`worker.go:84`, against the
comments at 73 and 96) and `sse.go` sends the document alone, so a browser learns of a
verdict only by the document's status, which a late review may have replaced; an
override's notification has no `data`, and reaches browsers as a status without an id
(`sse.go:74`), so an override to `approved` is shown while the key is at `pending`
(`FeedIsGrounded` then says that a client typed it); no `id:` line is sent, so a browser that reconnects starts from `$` again;
the override's stream name is a literal (`transactions.go:399`), while worker and browsers
use the configured one: after a renaming no browser hears it; a batch that a dead worker
held is announced by no later one, although `README.md:159` says the worker "Procesa mensajes
y envía notificaciones SSE" (`Relay` calls its entries lost, `DeathCostsOneBatch` counts them); the API key header is configurable (`config.go`) but `create` reads the
literal `x-api-key`; a `REDIS_URL` that does not parse is survived only until the first
browser connects (`sse.go:48` against "continuing without Redis", `main.go:36`); the group
is created once per launch (`worker.go:30`); `createUser` takes a failed lookup for a free
email (`users.go:55`); login does not look at `isActive` (`auth.go:43`); CORS does not
allow DELETE (`main.go:51`), which a route uses.

## 4. Fairness

* `Transactions!FairSpec`: a request that waits for MongoDB or Redis goes on, as
  their drivers have timeouts. Nothing is assumed of `ReviewWrite`, which waits for
  a download through `http.DefaultClient`, nor of `DecideNotify`, which waits for
  the webhook: both clients have no timeout. The liveness properties hold anyway.
* `Backend!BSpec`: the same for its requests, and weak fairness of the worker's steps:
  deaths are bounded, and the process is started again. `TransitionIsNotified` excepts a
  process that has died: its requests are not resumed, which is what
  `TransactionsLostWrite` shows.
* `Boot!Spec`: the steps of `main` return (the connections have timeouts of ten seconds)
  and the worker's goroutine goes on. Nothing is assumed of launches or of Redis:
  `WorkerOutlivesOutages` has the hypothesis that process and Redis are in the end there
  to stay.
* `Worker!FairSpec`: the loop never returns and a dead process is started again
  (weak fairness of `Step`); a process does not for ever die, or lose the reply, before
  it has read (strong fairness of `ReadGroup`). Nothing is assumed of Redis accepting
  the group: `EntrySettles` speaks of a group that exists.
* `Sse!FairSpec`: the goroutine goes on (XREAD blocks five seconds, the push never);
  reads do not fail for ever (strong fairness of `Answer`); a write returns once the
  connection is gone. No fairness for writes to a connected browser.

## 5. Proofs

Every safety property of section 3 that holds, every type invariant, the action property
and the three refinements are theorems: for every value of the constants that satisfies the
module's assumption, with any number of transactions, requests, processes, clients,
merchants or launches. Each proof has the same shape: an inductive invariant (TLC-checked
first), one lemma per action or group of actions, and a temporal step.

**`Transactions_proofs`**. Theorems `TypeCorrect`, `RequestsFollowTheKey`,
`KeysAreAccounted`, `MongoStaysBehind`, `EventsAreReached`, `AckedDecisionsHold`,
`AckedCreatesArePublished`, and `Refinement`: `Spec => ImplementsStatusMachine`; with
`~Faults` also `AckedOperationsArePublished`, `QueueIsTrue`, `VerdictsAreReviewed`.
`MongoNeverAhead` alone is not inductive: that `ReviewWrite` and `DecideWrite` keep it
depends on why the request is there. It says of every document, whatever a client may type,
that its status was typed there or reached by the key; for a status that nobody typed it is
the claim that Redis has taken it first. `RequestsFollowKey` records exactly that: a request past
its script finds the key at `review` or beyond, and a decision in flight finds its own
verdict in the key, is alone on its transaction, and has not told the merchant.
`KeyIsAccounted` ties the key to a stored document and to what the merchant was told. With
types, events and answers they are `IInv`. The refinement follows step by step: creating the
key is `Register`, the two scripts are `Review` and `Decide`, `DecideNotify` is `Tell`,
everything else stutters; `Tell`'s guard is the last conjunct of `RequestsFollowKey`. What
needs that no call fails rests on two more invariants: what was published before it was
answered (`NotifyIsPublished`), and `NoFailureInv`: an answered creation has its key
(`CreatedHasKey`), a reviewed key shows in the document, is about to, or was overridden
(`ReviewShows`), and so a decision reads back its own verdict or a late review
(`DecisionReadsReview`).

**`Backend_proofs`**. Endpoints, worker and deaths together. `FeedsAreGrounded`: whichever
producer wrote it, a browser is shown only what a client typed for that transaction or its key
has reached, with failing calls and any number of deaths, and however far the worker lags.
`BInv` adds to the endpoints' invariants that the documents in events, those about to be
published and the overrides' notifications are grounded (`DocumentsAreGrounded`: what is
grounded stays so, because keys go forward and what was typed was typed); that the worker
holds an interval of delivered positions no longer than a batch (`WorkerHoldsRest`); that a
notification carries the document of its event (`NotificationsCarryDocuments`: the stream is
only appended to); and, without failing calls, that a delivered entry is pending until it is
notified (`NothingIsDropped`) and that `DeathCostsOneBatch`. The last is inductive: a worker
that lives loses nothing (`WorkLosesNothing`), and a death adds at most what it held
(`DeathLosesBatch`, `BatchCostsBatch`). From it, with `~Faults`, `DeathsCostBatches` and
`OnlyDeathsLose` for any number of deaths, and until the first death `QueueIsTold` and
`VerdictsAreCarried`. `DeathsContradictNothing` and `DeathsKeepLifecycle` carry the endpoints'
results and the refinement of `StatusMachine` over to the whole process.

**`Worker_proofs`**. `EntriesAreHeldByOne`, `EntriesAreProcessedOnce`, `LostEntriesAreStranded`,
`NotificationsAreInOrder`, and `Refinement`: `Spec => ImplementsRelay`. A busy process holds the
rest of a batch, an interval (`BatchesAreRests`); nothing was notified before it was delivered
(`NothingIsEarly`); what is about to be processed has at most the driver's own first attempt
(`ProcessingIsFirst`); what a process has notified is not past what it holds
(`NotesLeadBatch`). In the refinement a step may change the fate of one entry (its
notification or failed XADD), of a whole delivered batch (a lost reply) or of the rest of a
batch (a crash); `NothingIsEarly` and `ProcessingIsFirst` show that none of these was settled
before.

**`Sse_proofs`**. `SkipsAreOverflows` and `Refinement`: `Spec => ImplementsFeed`. Client by client:
a read starts where the last one ended or at the connection (`ReaderOK`), a batch has no gaps
(`BatchOK`), the goroutine is never behind the browser (`PositionsOK`), the channel is in
order and new (`ChanOK`). Receiving the channel's head is `Feed!Receive`.

**`Merchants_proofs`**. `CreationsAreHarmless` and `PagesCover`, for any page size, under
`DistinctNames` and without `RenamesInWalk` (section 3 says why). Where a merchant is listed is
the number of those before it. Creations only raise that number, so one not shown yet stays
on a later page (`UnseenAreFar`); in a walk without writes each is shown in its place
(`SeenAreInPlace`); and `TotalPages` pages hold all that were counted (`PagesSuffice`).

**`SupportImage_proofs`** (`PhotosAreComplete`, `SamplesMeanRefusals`: what a review knows at
each of its calls, `ReviewFollowsDownload`), **`Users_proofs`** (`TokensAreOwners`, `UsersStay`:
an insertion takes an id nobody has, an update keeps the password) and **`Boot_proofs`**
(`PanicsNeedBadURLs`: from `ConnectRedis` on there is a client exactly if
the URL parses, `ClientFollowsURL`).

**Assumptions.** Beyond sizes and flags they say that the marks of absence are no data:
`None`, `Unset` and `Dollar` are not statuses, documents, users, page contents or positions
(`BackendAssumption`: a document is a present field of an entry). `Merchants` also assumes a
finite set of ids and names that are compared as numbers; `Limit` is what `ListMerchants`
lets through. TLC evaluates every assumption in the runs.

**Only model-checked**: liveness (`TransitionIsNotified`, `EntrySettles`,
`EverythingStops`, `ReaderKeepsUp`, `RedisIsOptional`, `WorkerOutlivesOutages`), which is
beyond the prover's reach. The four expected violations are counterexamples and have
nothing to prove.

## 6. Not modelled

* Handlers under a nil Redis client, call by call: `Transactions` assumes a client. Without
  one, create and override stop after their Mongo call and the transitions answer 503
  (`Boot` keeps what follows for worker and streams).
* A browser's own behaviour: when it lists, when it reconnects, what it does with a
  notification.
* Pure reads that no property needs: lists and lookups of users, `GetMerchant`.
* Data lost by Redis or MongoDB themselves; Mongo reads from secondaries.
* Parsing of amounts, token expiry and signatures, hashing, headers, CORS.
* The Rust and C++ predecessors: neither can be built from this repository (no
  Cargo.toml; CMakeLists.txt names sources that are not there) and the running
  program is the Go server.
* `worker.go` 128-391, which is commented out.

## 7. Plan

1. *Done*: `Transactions` with its proofs, `SupportImage`, `Worker`, `Sse`, `Users`,
   `Merchants`, the abstract `StatusMachine`, `Feed` and `Relay`, the composition `Backend`,
   and `Boot`.
2. *Done*: the proofs of section 5.
3. Open: a theorem that the composition implements `Worker` as it stands alone (its bound on
   the log would have to go first), and what orders the two producers of the notification
   stream.
