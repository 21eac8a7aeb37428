# A TLA+ verification of the multi-tenant control plane

This directory specifies the parts of the system whose correctness depends on
interleaving, failure and time, model-checks them with TLC on small instances,
and proves most of the safety properties with TLAPS for every instance.
References such as `gateway.go:67` are to the repository, without `src/` and with
the directory left out where the file name is unique.

## 1. The system

Each tenant (a shop) has API pods, worker pods, a Postgres schema and a KEDA
scaler of its own; Redis, Postgres and the model provider are shared.

    client -> API pod: admission -> obs -> handlers
      POST /ask      handleAsk -> gateway.Ask -> grounding -> model client -> provider
                                  | budget, cache (Redis)      | token, stub
      POST /reindex  handleReindex -> LPUSH q:<tenant> (Redis) -> 202
      GET /products  handleProducts -> Postgres
    KEDA polls LLEN q:<tenant> -> starts and stops workers
    worker: BRPOP q:<tenant> -> AllProducts -> Reindex -> ReplaceRelated -> RecordReindex

### Inventory

| Component | State | Operations | What is hard | What makes it correct |
|---|---|---|---|---|
| Model gateway (`controlplane/gateway`) | counter `budget:<t>:<month>` and list `cache:<t>` in Redis; a singleflight map per pod | `Ask`: check, lookup, coalesce, call, record, store | check-then-act over shared counters; one caller's context decides for others; failure between buying and recording; month's end; cap | one flight per prompt, tenant isolation, answers match questions, exact ledger, bounded overshoot, nobody stranded |
| Model clients (`controlplane/model`) | Gloo's token and its mutex; the fallback latch; the stub's generator | `accessToken`, `Ask` (Gloo, Gemini, Fallback, Stub) | a mutex held over the network and given in no order; expiry in flight; a token whose lifetime is not reported; cancelled callers | no token expires in flight that the client could know of, one fetcher, bounded waiting |
| Job queue (`controlplane/queue`) | list `q:<t>` | `Enqueue`, `Dequeue`, `Depth` | lost replies; the job is only in the worker's memory after BRPOP | FIFO, conservation, 202 means queued |
| Worker (`workload/worker`) | loop position, job in hand, SIGTERM context | `drain`, `runReindex` | SIGTERM during a blocking read or a job; kills | stops reading |
| KEDA scaler (chart) | depth last read, replicas | poll, scale up, scale down | stale depth, jobs in hand not counted, zero | no job waits for ever, and idle tenants cost nothing |
| Tenant store (`workload/store`), `prepare` (`api/main.go`) | tables, advisory lock, rows of `related_products`, `reindex_runs` | `EnsureSchema`, `SeedIfEmpty`, `AllProducts`, `ReplaceRelated`, `RecordReindex`, `Search`, `Stats` | many pods at once, the provisioning hook after the pods, READ COMMITTED, lost answers to commits | seeded once, ready means seeded, whole graphs only, no deadlock |
| Re-index algorithm (`workload/catalogue`) | none | `Reindex` | map iteration order, sums of floats, ties, words everybody uses | reproducible, the nearest kept, related by distinctive words only |
| Embedding (`embed.go`), `normalise` | none | `Embed`, `Cosine`, `tokenise` | what it cannot tell apart: words of one letter, repeated words, one number among many words | spellings have one vector, another number is another question |
| Grounding (`workload/grounding`) | none | `Ask`, `BuildPrompt`, `Keywords` | a failed or cancelled search is answered without products, and the answer kept | no answer from a search cut short by its client |
| Admission, obs | counters | `Middleware` | - | - |
| API wiring (`api/main.go`) | none | routes, `handleProducts`, shutdown | - | - |

`controlplane/costmeter` and `controlplane/scaler` are empty directories.

## 2. Modules

| Module | What it is |
|---|---|
| `Gateway` | `Gateway.Ask` for any number of requests, tenants and pods |
| `GatewayProps` | its properties, and three statements of comments the code does not meet |
| `MeteredService` | what tenants are promised, abstractly: who is answered with whose purchase, what is charged and when, when a request is refused; `Gateway` implements it |
| `Embedding` | `tokenise`, `Embed`, `Cosine`, `normalise` on texts of words |
| `GatewayQuestions` | `GatewayProps` with `Embedding`: the tables the gateway compares questions by are those of real texts |
| `Answering` | `Gateway` with what is inside its upstream call: grounding, the provider's client, the fallback; it implements `Gateway` |
| `GatewayProofs`, `GatewayMoneyProofs`, `GatewayAnswerProofs`, `AnsweringProofs` | theorems about these, each module over those before it: flights and tenants; the ledger and the budget; answers, caches, what the embedding tells apart, and the metered service; the whole |
| `Fifo` | what a queue promises, abstractly |
| `JobQueue`, `JobQueueProps`, `JobQueueProofs` | the deferred path: handler, list, worker loop, KEDA; it implements `Fifo` |
| `Catalogue`, `CatalogueProps`, `CatalogueProofs` | the tenant's schema: preparation by API pods, rewrites by runs |
| `Reindexing`, `ReindexingProofs` | `catalogue.Reindex`: the similarity graph of a catalogue |
| `ModelClient`, `ModelClientProofs` | Gloo behind the fallback, with explicit time |
| `MC*` | instances for TLC |

A definition whose comment begins with "Variant" is not part of the
specification: it is a plausible mistake, put in the place of the definition
below it to see that a property notices.

### Gateway

`req[r]` is the call that request `r` makes and `pc[r]` the next step of its
goroutine. Every Redis command, every passage of singleflight's lock and every
crossing of the network is a step.

| Action | Code |
|---|---|
| `Admit`, `Reject`, `FailOpen` | `Budget.Check` (`budget.go:53-66`), the 429 of `handleAsk` |
| `LookupHit`, `LookupMiss` | `Cache.Lookup` (`cache.go:60-86`): best entry, newest of equals, threshold |
| `Lead`, `Join`, `Land` | `group.Do` (`gateway.go:67`), one map per pod, key tenant and normalised prompt |
| `Generate`, `Receive`, `CallFails` | `inner.Ask` on the leader's context: tokens are charged when the provider generates, and are known to the gateway when the answer is received |
| `Record`, `RecordFails` | `Budget.Record` on a context without cancellation, so that only Redis makes it fail (`WriteError`), errors discarded |
| `StoreAnswer` | `Cache.Store`: LPUSH, LTRIM, EXPIRE in one MULTI |
| `Return` | `gateway.go:88-98` and the end of `handleAsk`: 200, 502, or nothing for `context.Canceled` |
| `Disconnect`, `PodCrash`, `CacheExpires`, `NextMonth` | the environment |

A cached answer is represented by the request that bought it; normalised forms and
scores are the constants `Norm` and `Score`, tied by `EmbeddingAssumption`
(questions that normalise alike score alike, because `Embed` lower-cases
and splits on white space too; `ScoresRespectSpelling` proves it of `Embedding`). The month is read at `Check` and again at
`Record`, as in the code; the key made of it and the Redis command that uses the key are one step, so
a month that ends between the two (`budget.go:75-81`, `budget.go:91`) is, in the model, one that ends after the command. A MULTI whose reply is lost is not sent again by the
Redis client: it was either applied, which is `Record`, or not, which is
`RecordFails`.

To its tenants this is a `MeteredService` (the mapping is in `GatewayProps`). A request is open until its
reply; a sale is `Generate`, a charge `Record`, `StoreAnswer` makes a purchase one that may be handed out, and a
request is answered with one by `LookupHit` or `Return`, refused by `Reject`, closed by an error or a crash.
Everything else (the check that passes, the cache's misses and expiries, joining, leading, landing) is
invisible. So each request ends once and for good; what answers it was bought by a request of the same tenant, its
own if it bought one; a purchase is charged at most once, in one month, at the price of the sale and before
anybody has the answer; no bill moves otherwise; and 429 is given only while the bill of the month stands at the
limit. `MeteredService` leaves open what the code does not promise: that every purchase is charged
(`cancel_unbilled`), how far a bill passes its limit (`OvershootIsConcurrent` says that), and how often
the same question is bought.

### Embedding

A text is a sequence of words, each with how it was typed: in capitals or not, the
mark after it, the white space after that. `normalise` forgets case and the amount of
white space and keeps the marks; `tokenise` drops the marks too, and words of one byte
that are not digits (`OnlyKept`; `OneByte` and `Number` are the words of one byte and the numbers). A vector counts the buckets of words and of neighbouring pairs;
`Cosine` is exact, in hundredths rounded down, which compares with a threshold
in hundredths as the quotient would. The hash is a parameter, `Bucket`: the instance
gives each word and pair a bucket of its own, and with the buckets FNV really gives
the words of the instance the comparisons come out on the same side of the threshold.

`GatewayQuestions` gives each question a text and states (`TextAssumption`, which TLC
evaluates) that `Norm` and `Score` are those of the texts. How far a number tells
two questions apart follows from the vector: of two texts of `n` different words, one of them
not shared, the cosine is at most (2n-3)/(2n-1), reached when that word is at the end. That is
0.89 for ten words and 0.905 for eleven, on the two sides of the threshold of 0.90.
`ShortNumbersTellApart` states the first, for two questions of equally many words among which the hash has no
collision, and is proved for every hash; the run `numbers_answered` shows the second.

### Answering

Everything of `Gateway` is taken over, but the step "call" is several: `phase[r]` says
how far the call that `r` leads has come.

| Action | Code |
|---|---|
| `LeadCall` | `Lead`, and the call enters grounding |
| `Ground` | `grounding.go:50-58`: products found, none found (or the search failed, or the catalogue is not seeded), or the search cut by the client's leaving |
| `Send` | the request of `gemini.go:84-93` and `gloo.go:158-166` leaves, which it does only on a live context |
| `ProviderFails` | any of their error returns, or the client leaves meanwhile |
| `ProviderAnswers` | tokens as reported, or estimated where the provider reports none; the latch is released |
| `GiveUp`, `FallBack` | `fallback.go:45-55`: whether the leader's own context is dead decides |
| `StubAnswers`, `StubCanceled` | `model.go:61-85`, and the provider's error returned if the stub's wait is cut |

`Gateway`'s `Generate` and `CallFails` are the last steps of these, and `Gateway` leaves open
what precedes them, so its theorems hold of the whole: `AnsweringImplementsGateway` proves it, and the run `answering`
checks it with fairness. In the whole, `CallFails` gives only errors of a leader that
left, which is `NoBadGateway`. The provider may be charged for an answer that does not
arrive; here "sold" is what `inner.Ask` returned, and in `Gateway` what was generated,
so that `cancel_unbilled` can be stated.

### JobQueue

One tenant: others share nothing with it. `queue` is the Redis list, head first;
`at[w]` is where worker `w`'s loop is; `term` are the workers whose context
SIGTERM has cancelled. A job popped is in `cur[w]` only. `Load`, `Replace` and
`RecordRun` need a live context; `StoreFails` is every error of the database, after
which nothing puts the job back. A BRPOP already waiting does not notice the
context, and may still return a job (`Pop` with `w` in `term`); one not yet issued, and the
pause after an error, end with the context, and `drain` with them (`ReadCanceled`).
`EnqueueUnsure` is LPUSH applied, its reply lost, and sent again by the client
library. KEDA's `Poll` reads the depth, `ScaleUp` and `ScaleDown` act on the depth
read last; the cooldown is the time between them. `Fifo` is implemented by reading
the list from its tail: `pending <- Reverse(queue)`.

### Catalogue

Sessions of Postgres at READ COMMITTED. A statement works on the rows committed
when it began (`BeginDelete` takes the snapshot), waits for the row locks of
other transactions (`Delete`, `Copy`), and a COPY fails on a committed duplicate
key (`Conflict`, `Rollback`). A row is an edge and the run that inserted it,
because a DELETE that waited skips rows that were deleted meanwhile and does not
see those inserted in their place. A statement takes its row locks at once: a
deadlock inside a pair of statements would be resolved by Postgres with an error,
which `Rollback` is. `SeedIfEmpty`'s advisory lock is `seedLock`; an error, a
time-out or a restart anywhere is `PrepareAgain`, and a commit may be applied and
its answer lost. The similarity graph `Reindex` computes is the constant `Graph`;
`TopKAssumption` says what it owes to the algorithm (edges are a prefix of a total
order, so a smaller `top_k` gives a subset). `NearestKept` and `SmallerTopKIsPart` of `ReindexingProofs`
establish it, but for graphs being non-empty, which is a property of the seeded
catalogues: a shop whose products share no distinctive word has no edges.

Seeding is taken to insert something: `CATALOGUE_SIZE` is above 0 (400 by default), and with a seed of no
products `ReadyIsSeeded` would be false. A run that loads the catalogue before it is seeded computes an empty
graph (`Load`). If it commits, that is the whole graph of a run, which is all `GraphIsWhole` asks, and it may replace a better
one until the next run. `RecordReindex` is a statement of its own after the commit: `reindex_runs` may lack
a run whose graph stands, and nothing in the code promises otherwise.

### Reindexing

One step per vector and per row of the comparison. Words are numbers in
alphabetical order; `Within[f]` are the words inside `f`, since `tfidfVector`
counts documents with `strings.Contains` and so finds `hat` in `that`, a stop
word. Go's iteration over the map of term frequencies is a choice of any
permutation (`iteration`). A sort is `Sorted`, the list in which every element comes before those it
precedes; that there is one, and one only, is proved (`OrderedList`, `OneOrderedList`). The logarithm is `Idf`, any strictly decreasing table of
whole numbers that ends in 0, so cosines are compared exactly (squared, multiplied
out). Rounding itself is not modelled; what the code does about it is: `Merge`
returns the terms of the dot product in the order of their addition, and
`SumsAreReproducible` says that order is the same in all runs. The division by
the text's length changes no cosine and is left out.

### ModelClient

`now` is the clock. `Tick` does not pass a deadline (`due`) or a step that takes
no time. The provider makes a token at `Mint`, its lifetime runs from there; the
client learns it at `TokenArrives` and uses it until `expires`. The response may leave `expires_in` out
(reported as 0): the client then goes by an hour (`DefaultTTL`, `gloo.go:104-106`), whatever the
provider granted. `blind` are the callers that hold such a token with less than that to live, kept by
whoever reuses it. Theirs is the one call that may carry a token past its end,
and `NoTokenExpiresInFlight` excepts them and nobody else: without the exception TLC finds a token of 3
taken for one of 4 and used when dead.

`sync.Mutex` keeps no order. Whoever waits may take it when it is free (`Acquires`), and a caller that comes
later may do so before the waiter an unlock has woken. Such a waiter, having
waited for longer than a millisecond, then turns on the mutex's starvation mode, and the next unlock hands it
the mutex. `overtaken[c]` counts the fetches that went ahead of `c` by callers who came after it, and `Overtakes` is how many may:
1, by the above; more would take comers that spin on the mutex at the very moment of
another unlock, before the woken waiter runs, and the theorem holds for every number. Only fetches count, since a reuse holds the
mutex for no time. Without a bound a caller could be overtaken for ever, and nothing could be said of
how long it waits. With it the bound of `ReturnsInTime` is one time limit for each caller's fetch, for each
overtaking and for the call, and the stub's delay; it is reached.

`MarginAssumption` states what the numbers of the code have to do with one
another: `MODEL_TIMEOUT`, 30 s by default, is at most half of the minute's margin,
and tokens live longer than a fetch and a call, reported or not. A `MODEL_TIMEOUT` above 30 s breaks
the assumption, and with it the property.

## 3. Runs

| Run | Instance | Shows |
|---|---|---|
| `gateway_safety` | 3 requests, each any of 3 calls (two questions that differ in a number, of one tenant on two pods, and the first, spelt otherwise, of another tenant; calls may repeat), limit 2, answers of 2 tokens, cap 1, one upset | all safety properties of the gateway, on scores computed by `Embedding` |
| `gateway_live` | 2 requests, each a prompt, another spelling of it, or a paraphrase with the same vector asked of another pod, 2 months, two upsets, fairness | every request ends; the ledger across a month's end; `Gateway` implements `MeteredService` |
| `answering` | 2 requests, each a prompt or a paraphrase of it on one pod, prompts and answers of one token, usage reported or not, 2 months, one upset, the provider failing at will, fairness | the whole implements `Gateway`; what is served and counted while the provider or the catalogue is away |
| `job_queue` | 2 jobs, 2 workers, `listLength` 2, one upset, fairness | conservation, FIFO, SIGTERM, no job waits for ever, scale to zero |
| `catalogue` | 2 API pods, 3 runs with two graphs, one upset, fairness | seeding, readiness, whole graphs, no deadlock |
| `model_client` | 2 callers, reused from call to call, time limit 1, margin 2, lifetimes 3 and 4, reported or not, 4 taken for granted, one overtaking, clock to 8 | tokens, mutex, waiting |
| `reindexing` | every catalogue of up to 4 products with 6 texts of 5 words, `topK` 1 to 3, every iteration order | the algorithm against its reference definitions |
| five violation runs | as small | section 5 |

An *upset* is a disconnect, an error, an expiry, a lost reply, a kill or a crash;
`MaxUpsets` bounds how many happen in all. Why the bounds are enough: with three
requests a leader, a follower and a late comer meet, and with a limit of one answer
two of them overshoot; a cap of 1 with three answers evicts; one upset can hit any
step, and `gateway_live` has pairs of them. The questions are "do you sell a tent for 2?",
the same in capitals (one normalised form), the same without its "a" and its mark (one
vector), and the same for 4 (0.81 similar, below the threshold of 0.90). Failures of the provider and of the search
are no upsets: in `answering` every call may fail. Two jobs suffice for order and two workers for a
surplus; `listLength` 2 separates rounding up from rounding down. Three runs are the
least for a wait that passes from one to a second while a third starts: with two,
every conflict is between the same pair. Two callers are enough for one to
fetch, come back and overtake the other, which reaches the longest wait allowed (5); the clock goes to 8, so that the
wait may begin after others; for more callers there is `AllReturnInTime`. Four products with
`topK` from 1 to 3 have cuts that bite, ties at the cut and cuts that do not bite; the
texts have a repeated word, a word inside another, one inside a stop word, and no
word at all.
Requests and callers are interchangeable: the safety runs use symmetry, the
liveness runs do not. Deadlock is checked everywhere: where the system may stop the module has an
action that says so (`Done`, `Idle`, `Finished`). In `model_client` an idle caller
can always ask, also at the last tick.

Fairness. `gateway_live`: weak, per request: goroutines are scheduled, Redis
commands have time-outs, and so has the HTTP client of the model. `answering`: the same, with the
search (its query has the request's context) and the stub (its delay is fixed). `job_queue`: weak,
per handler, per worker, per scaling decision and for KEDA's poll; BRPOP returns
after 5 s at the latest. `catalogue`: weak, per pod and run, and the hook succeeds in the
end. Nothing is assumed about failures: they may or may not happen.

Every property of a passing run has a variant of the code that breaks it
(`mutants` in `PROJECT.json`).

### The properties worth reading first

- `OvershootIsConcurrent`: what the before-the-fact check does guarantee. Take
  away the calls that were past their check and not yet recorded when some billed call passed its own, and the
  rest is below the limit. Exceptions: a check that failed open, and one made in
  another month.
- `UnbilledOnlyByRedis`: answers received and not billed number no more than the upsets that are not
  departures, so each is a write to Redis that failed: leaving after the answer is there spares nobody its price. (Leaving
  before does: `cancel_unbilled`.)
- `NoStrandedFollower`: whoever waits, waits for a call in the map whose leader
  still has to land it.
- `GraphIsWhole`: the committed graph is the whole graph of one run, and nobody
  reads an empty table while another run rebuilds it, though
  `ReplaceRelated` takes no lock on the table: two overlapping rewrites are kept apart by
  the primary key alone, since every graph has an edge in common with every other.
- `JobsConserved`: every copy of a job is on the list, with one worker, or has left.
- `ImplementsGateway`, `NoBadGateway`, `NoAnswerFromACutSearch`: the fallback decides by the
  leader's context, so what a follower gets hangs on another client's leaving between two steps;
  a prompt that lost its products to a cancelled search must not feed the cache.
- `NoFreeAnswer`: no usage reported, an empty answer, or both: an answer of 0 tokens would
  not be recorded at all. (The run has no empty answers; the theorem covers them.)
- `ImplementsMetered`: the whole of the above as a tenant sees it. A counter that outlived its month, a
  charge after the answer is out or a second end of a request would break it.
- `ShortNumbersTellApart`: what does hold of "numbers are kept", up to ten words.
- `CatalogueGetsReady`: wherever the hook runs among the pods' starts.
- `RelatedByARareWord`: a consequence of the logarithm few would guess: the only two
  products of a shop are never related, however alike.
- `NoTokenExpiresInFlight` and `ReturnsInTime`: the two promises of the token code, the one but for a
  short token of unreported lifetime, the other though the mutex keeps no order.

## 4. Proofs

| Theorem | For all | Argument |
|---|---|---|
| `TypeCorrect` | requests, tenants, pods, questions, limits, caps | inductive as it stands; lists by `TrimPrefix` and `PushTrim` |
| `OneCallAtATime` | same | only `Lead` adds a flight (`FlightsGrowByLead`), and only if none has its key |
| `TenantsIsolated` | same | an answer comes from a flight of the same key, which holds the tenant, or from the tenant's list, whose entries are its own: the two halves of the invariant need each other |
| `FollowersNotStranded` | same | the map is exactly the leaders between `Lead` and `Land`; a crash takes a pod's leaders and followers together because a key holds the pod |
| `AnswersBought` | same | `CallInv` ties where a request stands to what its flight has returned: one past its call has been sold, and has a result from landing on. Every cache entry was there before or has just been pushed by such a leader (`EntryOrigin`), with whose push the result "ok" stands (`Stored`), which nothing takes back (`OkStays`) |
| `UnbilledAreRedisErrors` | same | `OwedToRedis`: with the leaders between a failed `Record` and their `Store` counted as unpaid already, departures and unpaid answers together stay within the upsets, since each upset adds to one of them at most (`UnpaidChanges`) |
| `AnswersMatch` | same | a request's source is set once, by a hit or by joining a flight of its key, and neither question changes afterwards |
| `CacheStaysBounded` | same, and every cap | `Trim` cuts to the cap; what is pushed is not in the list yet, because entries have landed (`Stored`) and the leader that pushes has not |
| `AnsweringImplementsGateway` | also every table of token estimates and reports | step simulation on `PhaseInv` (a call is in a phase only while the gateway waits for it): `CallRefines` maps each step inside the call to `Generate`, `CallFails` or a stutter. So all theorems above hold of `AnsweringSpec` |
| `NoBadGatewayWhileLed` | same | a flight's result is "failed" only if its leader has left (`FailedMeansGone`), which is kept because nobody comes back |
| `NothingIsFree` | same | no prompt is empty, and `Counted` replaces 0 by the estimate |
| `CutSearchesNotServed` | same | a prompt that was cut is never sent nor answered by the stub, so its request is never sold; with `AnswersBought`, it is neither served nor kept |
| `SpellingsEmbedAlike`, `ScoresRespectSpelling` | texts, words, hashes | `normalise` keeps the words in order, and `tokenise` sees nothing else; the second is the assumption `EmbeddingAssumption` of `Gateway`, derived from `TextAssumption` |
| `QueueTypeCorrect` | jobs, workers, `listLength` | inductive together with `BusyHasJob`: a worker has a job exactly while it works on one |
| `TerminatingStopReading` | same | only `CheckContext` starts a read, and it looks at the context first |
| `ConservesJobs` | same | `Accounts` balances pushes against copies in the list, hands and departures; a push and a pop change a count by one (`CountPush`, `CountPop`), as do taking and settling (`CountTake`, `CountSettle`) |
| `ListIsFifo` | same | read from the tail, LPUSH appends (`ReverseOfPush`) and BRPOP takes the head (`ReverseOfPop`) |
| `SeedsOnce`, `LockReleased`, `ReadyMeansSeeded` | pods, runs, failures | `PrepInv`: the lock is held exactly in the transaction, so a pod past its count still knows the table to be empty (`StillEmpty`) |
| `CatalogueTypeCorrect` | same, and graphs | inductive as it stands |
| `GraphStaysWhole` | same | `GraphInv`: a snapshot is the whole graph of a run or nothing (`SnapIsWhole`), a transaction has deleted the whole live graph or nothing (`DeletesAll`), no committed row is in the way of the rows it has inserted (`NoneInTheWay`), and no two open transactions have inserted rows of one key (`InsertsDisjoint`). Two graphs of a catalogue share an edge (`TopKAssumption`), so a commit leaves one whole graph (`CommitReplaces`) |
| `LedgerCorrect` | requests, tenants, pods, prices, limits, months; the set of requests may be infinite | `MoneyInv`: a leader is billed once, after its sale, with the price fixed at the sale (`PriceFixed`); so `Record` adds one summand (`BilledChanges`) and nothing else moves the counter or the set |
| `RejectionsEarned` | same | a tenant's counter of a month is the sum over a part of what it was sold (`SumOfPart`), and 429 follows a counter at the limit |
| `OvershootOnlyConcurrent` | same | `InOrder`: the billed calls of a tenant and month that passed a check of that month can be ranked by their admission, and each saw, below the limit, the sum over those ranked before it but for the ones under way (`peers`). The last admitted is the witness (`LastAdmittedWitnesses`). The rank is in no variable: the invariant says that one exists and each step extends it (`OrderStep`) |
| `ShortNumbersAreToldApart` | same, and texts, words, hashes, thresholds of 0.90 and above | a text of `n <= 10` different words without collision has each of its `2n - 1 <= 19` features once (`EachFeatureOnce`, `FewFeatures`), so squares of lengths and dot products are numbers of features (`DotOfOnes`). If the numbers differ, some word of one text is not in the other, and by counting the converse too (`OtherWordsBothWays`); with it go a word and a pair on each side (`UnsharedWord`), which leaves at most 17 of 19: below 0.90 (`NineInTen`), so no hit |
| `GatewayIsMetered` | same as `TypeCorrect` | step simulation, one lemma for each visible action (`RejectRefuses` to `CrashCloses`), on `ServiceInv`: `CallInv` for what a request at a step has and has not done (open, sold, no result yet), `MoneyInv` for its not being charged, `Stored` and `TenantIsolation` for hits, and `OwnPurchase` (who was sold an answer waits for itself) for the buyer's getting its own |
| `ReindexingTypeCorrect` | catalogues, texts, vocabularies, `topK`, ids, tables that meet `IdfAssumption` | `ReindexingInv`: the vectors made are those of their products, the rows compared have their nearest and the others nothing. A row's edges are new because no other row has its id (`EdgesTellApart`) and `Kept` has no repetition |
| `SumsReproducible` | same | `MergeIsCommon`: the single pass over two ascending vectors yields their common words, ascending, with the products of the weights. By the distance it has to go (`PassMoves`), with one lemma for each branch (`CommonTake`, `CommonSkipLeft`, `CommonSkipRight`) |
| `VectorsDetermined` | same | two ascending lists of the same words and weights agree: at the first place where two lists in one strict order differed, each element would have to come before the other (`OneOrderedList`). With `SmallerTopKIsPart`, the graph is a function of the catalogue and `topK` |
| `NearestKept` | same | cosines compared by multiplying across are transitive (`AcrossTransitive`) as nobody similar has length 0, so `Before` is a strict total order (`BeforeIsAnOrder`), a finite set can be listed in it (`OrderedList`), and the first `topK` of that list are nearer than the rest (`KeptAreNearest`) |
| `RareWordsRelate` | same | a weight is positive exactly if some text lacks the word (`WeightOfAWord`), a sum exactly if a term is (`TotalPositive`), hence `DotOfProducts`; with `topK >= n - 1` nobody is left out, by counting |
| `SmallerTopKIsPart` | same, any two sizes | if `j` were kept by the smaller alone, all that the larger keeps would be before `j`, so kept by the smaller too, which has fewer places |
| `NoneExpiresInFlight`, `OneFetches`, `ClientTypeCorrect` | callers, time limits, margins, default lifetimes, lifetimes that meet `MarginAssumption` | `IInv`: deadlines are not passed (`OnTime`), a fetch is at most one time limit old, so a token that lasts at least what the client believes arrives with `MarginKept` and, with `2 * Timeout <= Margin`, outlives a call started before `expires`; any other is on the list of the blind with all that carry it (`BlindHold`) |
| `AllReturnInTime` | same, and the numbers of callers and of overtakings | `Timely`: for who waits (`Turn`), the time left covers the holder's fetch, one for each caller that came no later (`Share`) and one for each overtaking it may still suffer (`Most`); a fetch by a later comer uses up one of these, any other one of those. Who runs is inside its own share (`Progress`) |

The proofs use the assumptions named in the modules, which TLC evaluates on every
instance. `GatewayProofs` covers the specification without bounds on months or
upsets other than that they are numbers.

Sums over sets (`CostOf`), sums over lists (`Total`), the words of a text that are kept (`OnlyKept`) and the merge of two vectors are recursive functions, and
what they compute for every argument is proved by induction in the form the provers can use: the set of
sizes at which the claim fails is a set of numbers without a least element (`LeastNumber`, from the well-foundedness of `<`), so it is
empty. The same argument gives that the functions exist (`AddsExists`, `KeepsExists`, `AddsUpExists`, `MergesExists`): the library and a LET
define them by CHOOSE, and until one is shown to exist nothing follows about it. `ReindexingInv` was also checked
by TLC, on the instance of the run `reindexing`.

Only model-checked:

- every liveness property, and the fairness in `ImplementsGateway` (fairness and ENABLED are beyond the prover).

Every invariant and every action property of a passing run is a theorem. `ShortNumbersAreToldApart` has a
hypothesis on a constant, `Threshold >= 90`: the code's default is 0.90 (`api/main.go:73`), and a lower setting
does confuse short questions (ten words reach 0.894). The property itself is about pairs of questions without a collision of buckets
among their own words; with one, two different numbers may well have one vector.

## 5. Where the code and its comments disagree

| Run | The comment | What the run shows |
|---|---|---|
| `overshoot` | "Overshooting by at most one response" (`budget.go:23`) | concurrent requests pass the same check; the overshoot is the sum of their answers |
| `cancel_unbilled` | "the tokens were still bought and must still be billed" (`gateway.go:76`) | `inner.Ask` runs on the leader's context; cancelled after generation, nothing is recorded |
| `silent_follower` | "A cancelled request is the client's decision" (`api/main.go:324`) | a follower is dropped because its leader's client left |
| `numbers_answered` | "Numbers are kept: "18%" versus "50%" is a different question" (`embed.go:88`) | two questions of eleven words that differ in the price alone have cosine 19/21, above 0.90: the cache answers the one with the answer to the other. `experiments/raw/README.md:89` calls 0.90 "safe but limited" |
| `job_promise` | "/reindex returns 202, which is a promise" (`redis.yaml:17`) | KEDA stops a worker that has popped the last job; nothing puts it back |

Seen while reading, and not runs:

- `gateway.go:93-94` counts the tokens of a shared answer as avoided for every caller
  that sees `shared`, which singleflight reports to the leader too: the tokens it bought
  are counted as bought and as avoided.
- `gateway.go:25` collapses what is in flight at the same moment; a request that missed the cache before
  a flight landed and reaches `Do` after it buys the answer again, as the cache is not
  looked up a second time.
- `fallback.go:19` says only transport and availability failures fall through; the code falls
  through on every error of the primary, a rejected request included.
- `api/main.go:85-88` speaks of finishing requests in flight; the window is 15 s
  (`api/main.go:103`), a provider's call may take 30 s.
- `db-provision-job.yaml:10` says the hook "runs before the tenant's pods start", its annotation says
  `post-install` (`api/main.go:173` knows).
- `demo/c1-idle.sh` reads `queue:$T` where the list is `q:$T`.

## 6. Not modelled

- Admission copies a header into the context, and the seed catalogue is a table: neither has a state
  or a choice. Metrics are written and never read.
- `handleProducts`, `Search` and `Stats` only read. Which products `Keywords` and `Search` find
  is left open in `Ground`: their effect on the gateway is the prompt's kind and size.
- The page, the installation and the experiment scripts are outside the program; of charts and manifests
  the scaler, the worker's deployment and the hook are modelled, the rest Kubernetes enforces.
- The graceful shutdown of an API pod ends its requests, which `PodCrash` does at any
  moment; that most are finished first is not stated.
- Redis does not restart. With `appendfsync everysec` it may lose a second of jobs, spending
  and answers; the manifest chose that, and no code notices it.
- The stub's generator and its mutex (`model.go:64-66`): a lock around one arithmetic step.

## 7. Plan

Written, in this order: `Gateway` (the core), `JobQueue` over `Fifo`, `Catalogue`,
`ModelClient`, `Reindexing`, `Embedding` with `GatewayQuestions`, `Answering`, the proofs of
each, and `MeteredService` over `Gateway`. Left, in the order of what they would add:

1. A restart of Redis that loses the last second, in `JobQueue` and `Gateway`: the properties
   become statements about what was written a second before.
2. `Keywords` and `Search`: which questions find which products.
3. The shutdown window against the time limits of calls, in `ModelClient`.
