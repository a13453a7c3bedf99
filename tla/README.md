# A verification development of the Enterprise Command Center

TLA+ models of the Enterprise Command Center (a Spring Boot and Apache Camel
application and the pipeline that builds, audits and governs it), the TLC
configurations that check them on small instances, and TLAPS proofs of the
properties that matter most for every instance. Paths are relative to `src/`;
`WorkOrderService.java`, `AggregatorRoute.java` and so on are under
`src/main/java/com/camel/aggregator/`. `PROJECT.json` maps each definition to the
lines it translates.

    tlc -workers 2 -config AdrGovernance.cfg MCAdrGovernance.tla
    tlapm WorkOrderServiceProofs.tla

## 1. Inventory

### The application

| Component | State | Operations | What makes it hard |
|---|---|---|---|
| Work-order pipeline (`WorkOrderService`, `AutomatedOrderProcessorService`, `WorkOrderRoute`, `Order`) | a `ConcurrentHashMap` of orders, the counter `completedCount` | create, bill, ship (HTTP); bill and ship the first pending order (scheduler); summary (HTTP) | every operation runs beside every other; a summary is four traversals and two reads of a map that changes under them |
| Data generator (`DataGeneratorService`) | none of its own | changes the backend data, sends a refresh, creates an order | one thread shared with the scheduled billing and shipping; the refresh may throw half-way |
| Aggregation API (`AggregatorRoute`, `MapAggregationStrategy`) | none of its own; circuit breakers of the library | look up the cache, ask the backends in parallel, fall back, merge, store, answer | timeouts racing late answers; overlapping requests writing the cache in any order; partial failure |
| Backend data (`ExternalApiService`) | four unsynchronised fields | read a backend's keys, modify a field | reads and writes interleave key by key |
| Response cache (`CacheService`) | one Redis entry with an expiry | get, put | Redis may be unreachable for any call; an entry outlives the data |
| Service health monitor (`ServiceHealthMonitor`) | status per service | flip or restore a status every ten seconds, list | shown by pages that poll |
| Boards (`billing.html`, `shipping.html`) | the cards and their buttons, the calls on their way | list every three seconds, click, answer, failure | listings overlap and answer in any order; cards are drawn anew under a call; calls and answers are lost |
| Other pages (`dashboard.js`, `queue.html`, `status.html`, `entry.html`) | what the page shows | fetch, timers, WebSocket messages, reconnect | answers come in any order and messages are missed |
| Post-quantum cryptography service (`PostQuantumCryptoService`, `PqcRoute`) | none | make a key pair, encapsulate, decapsulate | what a provider computes |
| Users, login, database set-up | the user table | check and insert an admin at start-up | two instances starting together |

### The pipeline around it

| Component | State | Operations | What makes it hard |
|---|---|---|---|
| Jobs that push to `main` (`auto-bump-version.yml`, `sbom-cbom.yml`, `nightly-dependency-update.yml`) | the branch, and each job's clone | commit, `git pull --rebase`, `git push`, retry | several jobs race for one branch, each from an old checkout |
| Crypto scan and reconciliation (`scripts/scan_crypto_ast.py`) | the CBOM on disk | scan lines, match sites with components, write | killed runs, repeated runs, order of components, comments and strings across lines |
| CBOM analysis and the audit job (`scripts/analyze_cbom.py`, `scripts/test_boms.sh`, `sbom-cbom.yml`) | the report | generate, scan, reconcile, verify, rate, publish | the generator may fail; counts that mix names and versions |
| BOM generation and distribution (`generate_boms.sh`, `fetch_oci_cbom.py`, `attach_oci_bom.sh`) | the files of a directory, the registry's tags and referrers | generate, attach, fetch with fallbacks | leftovers of earlier runs, tags that move, tools that fail half-way |
| ADR governance (`scripts/adr_gatekeeper.py`, `adr-gatekeeper.yml`) and pull request automation (`auto-manage-prs.yml`) | the records and their index in the tree, the verdict of a check | verify the records, rate the change, reindex, merge | checks run on a merge ref that `main` leaves behind; every branch carries an index of its own |
| Security agent (`security_agent/`) | the findings, the content it is about to write | scan, fix, scan again, report | others edit the files meanwhile; matches overlap, and a fix changes what the next one looks for |
| Release, image publication, security testing, NVD cache | external | actions of the platform | a race for the tag `latest` |

### How they interact

HTTP threads and the single scheduler thread share the map of orders. The
generator runs on that same scheduler thread, writes the backend data, then runs
the aggregation route synchronously (the refresh) and, if that did not throw,
creates an order. Requests read the backend data through the same route, behind
the cache. A merge into `main` starts the bump and the audit; each pushes to the
branch the other is pushing to, and the nightly job joins them. The audit job
chains generator, scanner, verification, analysis and publication through files.
A pull request is checked against the `main` of one moment and merged into the
`main` of another. The boards list the orders and move them on through the same
service as the scheduler, without hearing of what it does. Hosts exchange BOMs
through a registry whose tags move under them.

### What makes each component correct

* **Work orders**: a transition happens from the right status, once, and is
  counted once; a creation is not lost under a transition; a summary misses no
  order and its numbers agree up to the shipments counted twice; every order is
  shipped in the end.
* **Aggregation**: every request is answered; neither old values nor an outage are
  served for longer than the cache allows; the refresh carries what the generator
  has just written; a failed backend degrades the response only.
* **Boards**: "success" is said only of an order that has moved on; no button stays
  on "Processing"; the page comes to show what there is to do.
* **Jobs on main**: no version is skipped or taken back; up to its first conflict a
  job loses attempts only to the network and to other commits, and only other
  commits bring a conflict about; the published report is the latest code's.
* **Scan and audit**: every call is reported that a scanner which looks at the start
  of a line can be held to, and nothing but calls and the mentions it is known to take
  for calls; repeated and killed runs do no harm; a HIGH rating is earned.
* **ADR gate**: a significant pull request touches `docs/adr` itself; records on
  `main` verify, and the entries and the total of the index there are theirs.
* **BOM distribution**: what is reported as the fetched CBOM was attached to the image.
* **Security agent**: what it can fix is gone; what it has no fix for is lost only with
  a secret around it, to a racing edit or to a failed write; the report is about what is
  in the files now.

## 2. Modules

| Module | Models | Used by |
|---|---|---|
| `OrderPipeline` | what the work-order pipeline promises: atomic transitions and creations | `WorkOrderService` (refinement) |
| `WorkOrderService` | the order map as threads use it | `MCWorkOrderService`, `WorkOrderServiceProofs` |
| `Aggregator` | aggregation, cache, backend data and generator | `MCAggregator`, `AggregatorProofs` |
| `Boards` | the billing and shipping pages, over the orders of `OrderPipeline` | `MCBoards`, `BoardsProofs` |
| `MainBranch` | the jobs that push to `main`, with git | `MCMainBranch`, `MainBranchProofs` |
| `CbomReconcile` | scan runs against the CBOM on disk | `MCCbomReconcile`, `CbomReconcileProofs`, `AuditPipeline` |
| `SourceScan` | the line scanner beside the language's lexical structure | `AuditPipeline` |
| `CbomAnalysis` | classes, profiles, rating and tables, as operators | `AuditPipeline` |
| `AuditPipeline` | the audit job: composes the three above | `MCAuditPipeline`, `AuditPipelineProofs` |
| `AdrGovernance` | the gate, the index, pull requests and merges | `MCAdrGovernance`, `AdrGovernanceProofs` |
| `BomDistribution` | BOMs of images made, attached and fetched | `MCBomDistribution`, `CbomReconcileProofs` |
| `SecurityAgent` | the agent over files that others edit | `MCSecurityAgent`, `SecurityAgentProofs` |

Definitions whose comment begins with *Faulty* are mutations of the definition
that follows: each property is broken by at least one of them (the list
"mutants" of `PROJECT.json`), which shows that the property depends on that
piece of the code. They are not part of any specification.

### WorkOrderService

Ids are the numbers `1..N` in the order in which a traversal of the map visits
their bins. `computeIfPresent` and `put` hold the lock of the key's bin, so
`Enter` takes `lock[id]`, `SetStatus` changes the order and `CountShipment`
increments the counter before the lock is released; `CreateOrder` is one step
under the lock. Two ids in one bin would only exclude each other more. Traversals take
no lock: `Visit` reads one bin, `EndPass` goes to the next traversal, in the
order PENDING, BILLED, SHIPPED, counter, REVENUE, size of `getQueueSummary`. Reads
of `Order.status` are taken to be atomic and to see the last write. The status
`"OTHER"` stands for any string outside the pipeline, which `createOrder` accepts.
A drawn id is eight hexadecimal digits of a UUID and may be one in use.
Threads that write and threads that summarise are disjoint sets: a request thread
keeps nothing from one request to the next, so splitting its requests between two threads changes
nothing. `due` is a history variable: the orders a summary must account for,
from which a replaced order is removed. `QueueSummary` has the numbers of the answer
as the code computes them, with the shipments counted added to the orders found
SHIPPED; `TotalsCoverStages` compares them while a summary stands before its `Reply`.

The listings of the scheduled tasks read the whole map and use the first match:
`Scan` stops at the first match, since what the rest of the listing finds is not used.

`ImplementsPipeline` is the refinement: under the mapping `Settled`, in which a
shipment takes effect when it is counted, each step is a step of `OrderPipeline`
or a stutter.

### Aggregator

A value is the number of the generator run that wrote it. `ReadKey` reads one key
of one backend's answer (`getUserData` reads the name twice), so answers can mix
runs. `FallBack` may preempt a backend at any time before it has answered: a
timeout, an error and an open breaker look alike. `Lookup` and `Store` may find
Redis unreachable. `Aggregate` is the strategy: the first recipient's answer is
the map into which the others are put, and a fallback's map is immutable, so the
merge throws if the first recipient fell back (`MergeFails`). `Tick` is time;
`MaxRun` says how long a request takes at most, and `cache` expires with it. `stored`
and `outage`, the time of the
last fallback, are history variables.

Not modelled: the Kafka listener, which enters the same route as the mock bridge;
the WebSocket broadcast beyond the body it carries; the constant answer of
`/api/health` (UP whatever the breakers say).

### Boards

The server is `OrderPipeline`: a listing is taken as one step, since it is built in one
traversal and a page relates only single orders to it, and so are a transition and a
creation (`WorkOrderService` implements them). A page's requests for listings and its POSTs have the
numbers `Fetches` and `Calls`; a number is taken when a request leaves and free
again when it is answered or lost, so any order of answers is possible. `Render` draws all cards anew: a
POST whose button was there goes on without one (`shown`). `billOrder` and `shipOrder`
are answered with success whether or not they found the order in the status
(`Process`). A refused call (`Refuse`) leaves the button on "Processing", since the page
looks at `res.ok` only; an exception of `fetch` (`Fail`) makes it clickable again, whether the POST
was lost, was processed or will be. A listing that is answered with an error in JSON is
drawn as an empty one (`Misread`): `res.ok` is not looked at, and the list is cleared
before `forEach` throws. `left` and `seen` are history: how often an order
has left a status, and how often it had when it was listed.

### MainBranch

The tree is a function from four parts to contents; the version and the
dependencies are different lines of `pom.xml`, which git merges separately.
Git is external: a rebase applies, drops or conflicts (`Applies`, `Upstreamed`,
`Conflict`), a push is refused when the branch has moved. A conflict leaves the
clone in the middle of a rebase: the loop goes on, every later pull fails before it has
fetched anything (`PullAgain`), and the attempts that are left are spent on it, which
`stuck` counts. The loops of the bump and the audit end green even so (`"lost"`).
A merge whose message says `[skip ci]` starts no workflow on the platform, and line 38
of the bump asks for the same once more (`MaySkipCi`); pushes made with `GITHUB_TOKEN`
start none either. Not modelled:
the pull request the nightly job opens when a personal access token is configured.

### CbomReconcile

Names are related by `Base`, `Within` and `Sha3`, which stand for the string tests
of the matching. `FindMatchingComp` is the dictionary of components by name:
the first key that matches, the last component with that key. The file is
absent, broken or whole; opening it for writing truncates it (`BeginWrite`), and
`Kill` may come at any point. The code may be edited between runs. In the runs
`Kinds = {TRUE}`: whether a component is a cryptographic asset plays no part in matching,
and the proofs hold for both.

### SourceScan, CbomAnalysis, AuditPipeline

A line is a short sequence of tokens. The scanner's view (`delim`) is updated by
`Scan`, the language's own (`mode`) by `Lex`, over the same line: `found` is what the
scanner reports and `calls` what the file contains. No line is left out: `Layouts` may have
any sequence of tokens, and the run has those where scanner and language part. What
the scanner can be held to is in history variables, defined by the language alone and
by how a line starts. `due` are the calls on lines that begin in code and are not
passed over (`Passed`: what starts with a mark of a comment, a call that prints, and what
`NON_CALL_PATTERNS` match anywhere on a line); `excused` are the mentions behind
code on the same line, in a string literal or a docstring of one line. A line
`Misleads` the scanner if it opens a string or comment of several lines anywhere but at
its start, or starts like one that its language does not have; after it (`astray`) nothing
is due and every mention excused. So calls after `*/` and after a triple quote that
closes an earlier line's string are missed in the model as they are in the code (section 5).
Lines 129-133 of the scanner, a second treatment of the
inside of a block comment, are never reached: lines 117-121 come first. `CbomAnalysis` computes the report: the
first profile that covers a dependency, upstream CBOMs after the built-in
catalogue, distinct names counted where there are assets and every version where
there are none, the score rounded to a tenth, a rating of its own for code without
dependencies, and the first `MaxListed` unassimilated ones listed, the others counted
(15 in the code). `AuditPipeline` runs the steps in the
job's order; the generator may fail and leave no CBOM or part of one, which the
scanner then starts from nothing, or rejects. `Verify` is the harness: it checks one of
the two SBOM files, which may be another than the one that `Analyse` assesses, and asks for a
CBOM that is JSON of the format CycloneDX. An SBOM that is not JSON has no dependencies for
the analyser.

### AdrGovernance

Trees map parts to contents; a part is what git merges apart from the others. Records and
templates are files of `docs/adr`: the rules of the verification read the records only
(line 239), the gate takes a change of either for a record touched (line 139). Files of
code weigh by their patterns, each on its own; a keyword rule counts once for
the whole change. `lifted` stands for what the diff's lines of the index match of the rules.
The index is two files. `tools/adr_index.json` has a block for each record, `total_records`
and `last_updated`; `docs/adr/README.md` has a row for each record, which shows less.
`Reindex` writes all of them for the records of the branch, with the day's date.

An author opens a pull request with a commit and goes on pushing (`Commit`, `Reindex`), the removal
of what was committed before included; `Reopen` and `UpdateBranch` are the other events. Each of
them makes a merge ref with the `main` of that moment and asks for a check of it, or for none while
it conflicts (`Trigger`). `Check` verifies the records of the merge ref and rates the
diff against its own base; `Merge` merges into `main` as it is then. That a merge
needs a passed check is `auto-manage-prs.yml` line 39; branch protection is
external. A conflict in the index is resolved by reindexing, one in the records is not resolved.

Nothing compares the index with the records, so a branch may bring records without it. Two history variables say
when it is wrong for a reason other than a race: `unindexed`, since a merge brought the entries of a
branch that was not reindexed or was made from a `main` that was not; `miscounted`, since that was so of the
total, or since a merged branch had made a change of a record or of the total that `main` already had. `main` may start with an
index that is wrong, as the committed one does: `adr_index.json` lacks record 0021. Pull
requests that edit the gatekeeper or its configuration, a failing git, an index that cannot be
written, the staged-files mode and the check of `main` on a push are not modelled.

### BomDistribution

A host runs `generate_boms.sh` for the image that `tag` names, or
`attach_oci_bom.sh`, in a directory that keeps the files of earlier runs. Every call of
`syft`, `cdxgen`, ORAS and regctl may fail, and the redirection of `syft` and the
`open(..., "wb")` before regctl empty their file first (`Empty`, `Part`). `FetchViaOras` takes the
first referrer of the type, of which SBOM and CBOM share one, and then what stands in
`cbom.json`, or else any other JSON file of the directory (`Accepted`). ORAS writes a file under
the path it was attached by: `"here"` or `"below"`, as with
`oss/cbom.json` of the usage example. `named` is history: the images the tag
named while the script ran.

### SecurityAgent

A file is a sequence of places, each of the kind the patterns tell apart. A `"wrapped"`
generator stands in the string of a secret and matches two patterns; were it
fixed as a generator first, it would leave a `"masked"` secret, which the text
recorded for the secret no longer finds. Each fix takes the first occurrence of the matched text
(`str.replace(..., 1)`), if one is left; `n` fixes of one text therefore take the first `n` places
that hold it, and the fixes of one pattern do not get in each other's way. `Patch` is all fixes of
a pattern in that sense, and `Fixed` applies the patterns in the order of the findings. A `"quoted"`
query stands in a secret's string and goes with it when the secret is fixed; a `"query"` stands
by itself and has no fix. A file can be scanned (as UTF-8), read (in the encoding of the locale)
and written, each on its own (`access`). A file that cannot be read is left as it is, or is read into
other characters, in which the matches of some secrets are not found (`garbled`). `WriteFile` empties
the file and writes; a write that fails leaves what was written of it (`torn`). Others may edit a file or
change what can be done with it at any time (`Edit`); an edit between `ReadFile` and `WriteFile` is
overwritten (`overrun`). `placed` and `queries` are history: the places a file had at first and others have
added, and the queries by themselves that others have left in it.

## 3. Runs

All runs are exhaustive.

| Run | Checks | Instance | Why it is enough |
|---|---|---|---|
| `order_pipeline` | `TypeOK`, `TransitionsExclusive`, `ImplementsPipeline`, `QueueDrains` | 2 ids (one BILLED, one PENDING), 2 writers, 4 requests, 1 generator run (123 k states) | two requests and the scheduler can be on one order at once, and a creation can replace it under them; the proofs cover the safety part for all sizes |
| `order_summary` | `SummaryMissesNoOrder`, `TotalsCoverStages` | 3 ids, 1 writer, 1 reader, 2 requests, 1 generator run (7.9 M states) | an order can move behind and ahead of the cursor and a new one appear; the scheduler moves orders without bound |
| `aggregator` | `TypeOK`, `BoundedStaleness`, `OutagesForgotten`, `RefreshCarriesUpdate`, `RequestsAnswered` | 1 client, 2 backends, TTL and MaxRun 1, time 3, 1 change of the data (1.0 M states) | old values and an outage can be stored late, be served at the end of the entry's life and be gone after it; every combination of fallbacks, the first recipient's included; the proofs cover the safety part for all sizes |
| `main_branch_race` | `TypeOK`, `AttemptsAccountedFor`, `VersionsConsecutive` | 3 merges that may say [skip ci], 1 nightly run, loops of 3, 1 network fault per job (1.5 M states) | three bumps of one version conflict, drop and retry; loops run out, on an unfinished rebase as well |
| `cbom_reconcile` | `TypeOK`, `SitesCovered`, `RepeatChangesNothing` | 4 names in two families, 2 locations, up to 2 generated components and 2 sites (1 M states) | duplicates, substrings and the SHA-3 exception all occur; runs repeat and die |
| `audit_pipeline` | `TypeOK`, `CallsReported`, `NothingInvented`, `RatingEarned` | all files of up to 3 lines out of 33, in two families of languages, up to 1 generated component, 20 SBOMs of up to 3 dependencies of which 1 is listed, 3 upstream CBOMs (1.6 M states) | an opening, a middle and a closing line, and lines that mislead the scanner before and after them; ratings above and below 80 %, the rounding at it is left to the proof |
| `adr_governance` | `TypeOK`, `GateHolds`, `MainVerifies`, `IndexCurrent`, `TotalCurrent` | 2 interchangeable pull requests, 3 record files of which two claim one number, 1 template, 2 code files of which one needs a record, 2 days; main indexed, or lacking a block as the committed one does (371 k states) | two pull requests that are fine alone and not together; stale merge refs and pushes after a check; a template in the place of a record; indices written in two branches on one day or on two |
| `boards` | `TypeOK`, `SuccessMeansMoved`, `ButtonsFreed`, `ShowsListing` | one billing page, 1 order, 2 POSTs and 2 listings on their way, 2 creations, 2 faults (266 k states) | listings overtake each other and are drawn under a POST, errors among them; the order moves, is replaced under the same id and is clicked again. Orders meet nowhere in the model, and another page acts on this one as the scheduler does |
| `security_agent` | `TypeOK`, `FixablesGone`, `OthersKept`, `ReportCurrent` | 2 interchangeable files, each with one of 7 texts of up to 2 places, of which at first one of the three uses at most is missing, 1 edit by others (1.7 M states) | overlapping and repeated matches, an edit at each point of the run, files that cannot be scanned, read or written, writes that fail at each place |

Three more runs check what a document says and the code does not do; TLC finds each
violated:

| Run | Statement | What happens |
|---|---|---|
| `fallback_isolated` | timeouts are isolated (`README.md:21`) | when the first recipient falls back the merge throws and the whole aggregation fails (`MapAggregationStrategy.java:25`) |
| `audit_current` | `main` has the latest audit (`README.md:126`, `README.md:174`) | two audits end out of order and the older report stays, or conflict and publish nothing (`sbom-cbom.yml:133`) |
| `bom_fetched` | what is reported as the retrieved CBOM was attached to the image (`generate_boms.sh:167`) | a file of another run, or the SBOM renamed, is accepted as the file just pulled (`fetch_oci_cbom.py:110`) |

`FetchedIfCbomsOnly` is what holds instead of the last one, where nothing but CBOMs was attached,
and those from within their directory; it is proved.

Deadlock is checked in `cbom_reconcile`, `audit_pipeline` and `bom_fetched`;
elsewhere the bounds on requests, jobs, faults or time let a run end, or the
program itself does.

### Bounds

`MaxRequests`, `MaxGenerated`, `MaxRun`, `MaxVersion`, `MaxTime`, `MaxMerges`,
`MaxNightly`, `MaxCode`, `MaxFaults`, `MaxSites`, `MaxLines`, `MaxChanges`, `MaxCreates`,
`Calls`, `Fetches`, `MaxImage` and `MaxEdits` are constants that appear in guards. They bound
what the environment does, never what the code does in answer, with three exceptions that
are the code's own: `LoopAttempts` (5 in the workflows), `MaxListed` (15) and `TTL`; and with the exception of
`Fetches`, for a page asks for a listing however many are on their way.
The bound on creations is needed for `QueueDrains`: each run of a task takes the first order of
its listing, so new orders that keep arriving before an old one could hold it up forever.
`ShowsListing` speaks of orders that have stopped changing, which the bounds see to.

### Fairness

* `WorkOrderService`: a running thread keeps running (weak fairness of `Move`,
  `Summarise`, `Scan`). The two scheduled tasks are fixed-rate tasks of one
  thread; its executor orders tasks by due time, so a task that has run goes
  behind those that are due and none is passed over forever (strong fairness of
  `StartTask`, which is disabled while the thread is busy). Nothing is assumed of requests or the generator.
* `Aggregator`: request threads keep running (`Serve`, `Aggregate`), and a call
  that does not answer falls back, which the 2 s timeout of the circuit breakers
  guarantees. Nothing is assumed of backends, Redis or time.
* `Boards`: the timers of a page go on (`Poll`), a listing that was asked for is
  drawn unless it is lost (`Render`), and a POST is processed and answered unless it
  is lost (`Process`, `Succeed`); each is weakly fair. Faults are bounded: a
  network that loses every listing would leave a page as it is. Nothing is assumed of users,
  of the scheduler or of other pages.
* The other modules state safety only.

## 4. Proofs

The proofs hold for every value of the constants under the named assumptions of
the modules, all of which TLC evaluates in the runs.

**`WorkOrderServiceProofs`** (assumptions: the counts are naturals, the threads are
disjoint, `Absent`, `Free` and `BadId` are none of what they are not, the seed is
a map).

* `TypeCorrect`: `TypeOK` is inductive.
* `Exclusive`: `TransitionsExclusive` is inductive with `TypeOK`; one step per action,
  since every action but `Move` leaves locks and the threads that hold them alone.
* `SummaryComplete` and `TotalsCover` follow from `SummaryInv`. An order can escape
  the traversals only by moving past the stage being counted. `Uncounted` says that
  an order not counted yet is in a stage beyond those that have passed its bin; ranks
  only grow, there is no stage beyond the third, so at the end none is left. The
  seed of the argument is the order of the traversals: counting the stages
  backwards breaks it. `RevenueCovers` and `CountedPresent` rest on orders never being removed,
  and that SHIPPED exceeds `TOTAL_COUNT` by the shipments counted at most on the counter never
  going back (`CounterPast`).
* `Refinement`: `Spec => ImplementsPipeline`, from `TypeOK` and
  `TransitionsExclusive`: at most one thread is counting an order, and it holds its lock.

**`MainBranchProofs`** (any set of workflows on push, any bounds, at least one
attempt).

* `TypeCorrect`, `AttemptsPaid` and `Consecutive` follow from the invariant `IInv`.
  `AttemptsAccountedFor` is not inductive: a refused push must be paid for by a
  commit that came after the job's fetch, which `FetchPaid` (the attempts so far were
  paid for by commits before it) and `PastCommits` give. A conflict needs a commit that came after
  the job's checkout, since a job works on the tip as long as there is none (`MovedOn`), and no attempt
  is spent on an unfinished rebase before that (`StuckOnce`). Versions are consecutive
  because an accepted push has the tip it was rebased to (`PulledFromTip`) and a
  bump that survives its rebases still adds at most one to it (`BumpsByOne`).

**`CbomReconcileProofs`** (any names, any relation between them, any number of
sites and components).

* `Covered` and `Idempotent` follow from `ReconcileInv`, which replaces "some
  component covers the site" by "the component a lookup finds has it" (`Held`). The
  lemma `RecordKeeps` shows that recording a site makes it held, keeps every held
  site held, although a new component may come before the one a lookup found, and changes
  nothing for a held site. It needs only that a name matches itself.

**`AggregatorProofs`** (any clients, any recipients, any `TTL` and `MaxRun`).

* `StalenessBounded` bounds the age of what is served by what two parties add to it: what a request
  collects was current when the request began (`CollectedFresh`), and an entry is
  written by a request that began at most `MaxRun` earlier and lives `TTL`
  (`CacheFresh`). `FieldsFresh` says that the fields are never behind what was stored,
  `Timely` that no request is older than `MaxRun`.
* `OutagesPass` follows the same path for missing keys: what a request lacks is not
  older than the request, what the cache lacks not older than the entry.
* `RefreshCurrent` holds because only the generator's own thread changes the fields
  (`Refreshing`). `TypeCorrect` comes with the invariant; it says that an entry expires `TTL` from
  now at the latest.

**`AdrGovernanceProofs`** (any pull requests, records, templates, weights, rules and days; main
starts with records that verify and any index).

* `Gated`: a passed verdict is about the merge ref and `base`, the merge about `head` and `fork`.
  `DiffIsChanged` says that whatever is in the diff the branch has changed, and that of the code all it has
  changed is there, because a change of code is signed by its pull request (`CodeOwned`, `Unmerged`). `PassedChecks` keeps what the check found.
* `Verified`: a merge whose base is still `main` merges exactly the merge ref,
  and what it verified then becomes `main`; the verification reads nothing but records
  (`VerifyReadsRecords`).
* `Indexed`: where a branch and its fork are both reindexed, the merge takes a record, its
  block and its row from the same side. Nothing is assumed of the index `main` starts with.
* `Counted`: where no change is made twice, the merge adds to the records of `main` and takes from them
  what the branch did to its fork's (`CountMoves`). If that leaves their number as it is, the total of
  `main` stands; if not, the branch has another total than its fork, and `main` has the fork's still.

**`CbomReconcileProofs`**, last part (`BomDistribution`: any hosts and paths, at least one image,
`Absent` is no document).
`FetchSound` is inductive with `TypeOK` and `TagSeen`: the image from which a script
fetches is one the tag named while it ran.

**`BoardsProofs`** (any pages, orders, calls and faults). `SuccessSound`: a card is no
newer than its order's history (`CardsPast`, `ListingsPast`), so a POST that was processed while
its button is displayed finds or makes the order gone from the status the card saw
(`AnswersTrue`); what is drawn, a listing or an error taken for an empty one, leaves all POSTs
without a button (`DrawKeeps`); a button belongs to one POST at most (`ShownPosts`), and `left` only grows.
`LeftBounded` ties `left` to the creations.

**`AuditPipelineProofs`** (`LayoutsAssumption`: lines are sequences of tokens, any of them;
`ClassesAssumption`: names that match are of one class; an SBOM is a sequence).

* `LineInStep` is the heart of it: over any line, of any length, the scanner
  and the language stay in step (`InStep`). Until a line misleads it the scanner waits for a delimiter
  exactly where a string or a block comment is open: `FollowsInside` and `FollowsCode` follow it
  through a line from within one and from code, and `EndsInCode` says that a line that does not
  mislead and is out of them somewhere leaves none open. It has found what is due, and
  nothing but calls and what is excused, misled or not. How the tokens
  of a line change the mode is a recursion; `ModesExist` shows that it has a solution for
  every line and `ModeStays` that a mode no token changes stays, each by a least counterexample.
* `RecordEffect` says all that recording a site does. From it, `Phase` follows the job: while it
  reconciles, the sites that are done are covered (`Shown`), and every occurrence is that of
  a site its component matches (`Backed`); the report lists what the CBOM holds (`Reporting`).
* `Reported` needs that the generator writes cryptographic assets only (`FALSE \notin Kinds`, as in
  the run): a library takes the sites that match its name, and the table of symmetric assets leaves it
  out. `QuantumReported` is what holds without that. `NoneInvented` needs nothing of the kind.
* `Rated` counts places of the SBOM: a name with assets is counted once however many places
  have it (`NamesCounted`), and places with assets, inert and unassimilated ones are different
  places (`PlacesCounted`). The bound is 20.05 % and not 20 %: see section 5.

**`SecurityAgentProofs`** (any files of any length, whatever can be done with them, any number of
edits; at least one text a file may hold).

* The lemmas count places. `Ranks`: the rank of a place among others numbers them from 1 on, so
  that all but `n` of them have a rank above `n` (`Beyond`), and what is picked at some places has
  as many of each kind as stand there (`Picked`). `CountJoin`, `CountInsert` and `CountRemove` follow
  the counts through joining, adding and taking away. None needs an induction: each is a one-to-one
  map between sets.
* `FindingsCounted`: the findings of a pattern in a file whose match is one of some are as many as the places
  of that kind in what was last read of it, and none while it still waits for its scan. From it
  `ReportIsOfLastScan`, since sorting by severity loses none (`SortedCounted`).
* `FixesComplete` needs `FixedBut`, which says what edits have added at each turn of the agent:
  before a file is fixed, what fixing it would leave (`Ahead`) is at most two findings per edit, afterwards
  what is in it (`Total`). `FixedCounted` shows that fixing turns the one into the other; it uses
  that the secrets come first, whose fixes take the wrapped generators away. `EditAdds` bounds
  what one edit adds to either by two: a generator in a secret matches two patterns.
  A failed write does not bring back what can be fixed: a beginning of the fixed content has no more
  of it than the whole (`CutCounted`, `Written`).
* `NothingElseTaken` adds that the content about to be written has the file's queries that stand by
  themselves unless it was edited since it was read, or an earlier write of it failed (`QueriesKept`).
* `TypeCorrect`: what a file holds, what was read of it and what is about to be written to it have no more places
  than that file had at first and others have added (`placed`, `Bounded`), because fixing keeps the
  length and a failed write does not add to it.

**Only model-checked.** The liveness properties `QueueDrains`, `RequestsAnswered`,
`ButtonsFreed` and `ShowsListing`: fairness and `ENABLED` are out of the prover's
reach. Every safety invariant and action property that a passing run checks is a theorem.

## 5. Not modelled, and other disagreements met

Not modelled: the post-quantum service (what a provider computes), login and
database set-up (framework configuration and one check-then-insert, which a unique
constraint guards), release, image publication, security testing and the NVD cache (external
actions; two publications race for the tag `latest`, as two audits race for
`main`), documentation and styles. The health monitor's statuses are drawn at
random and only shown. The dashboard, status, queue and entry pages show what they fetch;
the dashboard's first fetch can be drawn over a newer WebSocket message, and a
reconnected page shows what it had until the next message. Of BOM distribution, directories and hosts as
targets and the options for names and formats are left out; of the agent, which
directories it walks.

Disagreements between documents and code that no run shows:

* ADR 0015 line 62 has the verification check minimum thresholds; `test_boms.sh`
  line 77 only warns of a CBOM without components.
* `DEVELOPER_GUIDE.md:52` and ADR 0009 line 23 describe supersession both ways;
  `adr_gatekeeper.py` lines 374-382 check only the record that says it
  supersedes. ADR 0002 and ADR 0010 are a pair of which only one end is linked.
  The patterns of lines 288 and 293 do not match `**Supersedes:**`.
* Two records may claim one number. The removal of a record counts as touching an ADR, and so does a
  change of a template: line 139 of `adr_gatekeeper.py` takes any Markdown file below `docs/adr/`
  but a `README.md`, while lines 239-240 read the records of that directory only. A significant change that edits
  `docs/adr/templates/` passes without a record; `GateHolds` says no more than that.
* A failing git and an unreadable configuration make the change count as empty
  or default (`adr_gatekeeper.py` 83-100); reindexing ignores that the index could not be written (329)
  and reports success, and nothing compares the index with the records: the committed
  `tools/adr_index.json` lacks record 0021. The number
  `total_records` (325) is one line of the index, which two additions reindexed on one day change in the same way:
  merged without a conflict, it is one short, and `TotalCurrent` says that nothing else makes it wrong but a branch
  whose index was. On different days `last_updated` conflicts.
* `completedCount` is added to the orders that are SHIPPED, so each shipment counts
  twice and the third stage can exceed the total (`WorkOrderService.java:95`, against
  `README.md:55`, "3-stage visual order counters"). `QueueSummary` has the sum as the code computes it, and
  `TotalsCoverStages` says by how much it can exceed the total.
* A POST with the id of an existing order replaces it and sets it back to PENDING
  (`WorkOrderService.java:42`), where ADR 0003 line 81 has orders move forward only.
* The line that closes a triple-quoted string opened at the end of an earlier line is
  taken for an opening one and the calls after it are skipped
  (`scan_crypto_ast.py:107`, against "100% cryptographic visibility", line 8); so are a call after
  `*/` or after a docstring's end on its line, and one on a line that prints. A call that a trailing comment, a
  string literal or a one-line docstring mentions is reported. `CallsReported` and `NothingInvented`
  say exactly where these limits are (section 2).
* `generate_boms.sh` makes `sbom.spdx.json` by default (lines 23 and 114) where
  `attach_oci_bom.sh` looks for `sbom.cyclonedx.json` (23). Both kinds are attached
  with one artifact type (84, 97). `split(':')[0]` cuts a registry's port off with the tag
  (`fetch_oci_cbom.py` 105, 144); `resolve_image_ref` (29) is never called.
* The security agent takes a match it has no fix for from a file if it stands in a secret's string
  (`vulnerability_patterns.py` 8 and 26); it scans files as UTF-8 and reads and writes them in the
  encoding of the locale (`security_agent.py` 14, 88, 109); and a write that fails has emptied the file
  before (109), so that the rest of it is lost. `OthersKept` excepts the first and the last.
* The boards take an error answered as JSON for a listing (`billing.html` 61-72): the page says "All
  Invoices Reconciled" until the next listing.
* The security agent leaves out every directory whose path contains `.git` or
  `target` (`security_agent.py:38`), `.github` among them; a file it
  cannot read is named on the console and not in the report (32).
* A call of LMS or XMSS is named `Stateful-Hash-Signature`
  (`scan_crypto_ast.py:25`), which no pattern of the analysis recognises as
  post-quantum. A component of the generator that is a library takes the sites
  that match its name, and the table of symmetric assets leaves it out.
* A score is rounded before it is rated: of 403 dependencies with 81 unverified, 323 of 404
  is 79.95 %, which becomes 80.0 % and HIGH (`analyze_cbom.py` 214-215). `RatingEarned`
  therefore says 20.05 %: the proof of the rounder statement fails for SBOMs of that size.
* A profile covers every dependency whose name contains the profile's
  (`analyze_cbom.py:175`).

## 6. Plan

Done: the core (order pipeline and its proofs), the aggregator and its proofs, the
jobs on main and their proofs, reconciliation and its proofs, the audit job and its
proofs, the ADR gate with its index and their proofs, BOM distribution with its proof, the boards with
theirs, the security agent with its own.

Left, most important first:

1. **The dashboard**: its fetch and WebSocket messages against the generator's
   broadcasts (`dashboard.js` 1-24 and 89-131); what it shows is not older than what
   it showed before, but for the first fetch.
2. **SBOM formats** in `CbomAnalysis` (`analyze_cbom.py` 102-149): which
   dependencies are read from which format, and duplicates between files.
3. **The staged-files mode** of the gate beside the mode of pull requests.

New modules share runs with those they compose with where the questions are
related, so that each run keeps answering one question.
