# Verification of the POS microservices

TLA+ models of the Odoo POS microservice backend, checked with TLC and proved
about with TLAPS. Each definition is a translation of the source it is mapped to
in `PROJECT.json`; paths below are relative to the repository, with

- `catalog/` = `services/product-catalog-service/src/`
- `member/` = `services/customer-member-service/src/`
- `app/` = `packages/pos-python-runtime/app/`

## 1. The system

A Flutter POS client talks to a gateway; behind it are four services, each with
its own store, and Odoo, which owns the data. Catalog and member services copy
Odoo's lists into MongoDB in the background, so that the client never waits for
Odoo; the Python services keep devices, tokens and POS sessions in PostgreSQL.

```
client -> gateway -> auth-service      -> PostgreSQL, Odoo (login)
                  -> pos-service       -> PostgreSQL, auth-service, Odoo (close)
                  -> product-service   -> MongoDB, Redis; worker -> Odoo
                  -> member-service    -> MongoDB, Redis; worker -> Odoo
```

### Inventory

| Component | State | Operations | Interacts with |
|---|---|---|---|
| Catalog synchronisation (`catalog/sync-worker.ts`, `catalog/catalog/repository.ts`) | per POS config: a Redis lock, `product_snapshots` tagged by snapshot id, one `sync_state` document | tick, syncOnce, syncConfig (begin, write page, commit, discard, fail, prune), lock renewal and release | Odoo (pages), Redis, MongoDB; readers; bootstrap |
| Catalog reading (`catalog/catalog/service.ts`, `repository.ts:246-434`) | none of its own; Redis barcode cache | products, product, barcode, image, bootstrap, sync status | sync state, snapshots, legacy collection |
| Catalog images (`catalog/sync-worker.ts:327-499`) | image job flags, image documents, image progress in the sync state | schedule, sync, retry, follow up | Odoo, MongoDB, the synchronisation's active snapshot |
| Member synchronisation (`member/sync-worker.ts`, `member/member/repository.ts`) | per company: lock, member snapshots, tiers, sync state | as the catalog, without the unchanged check | Odoo, Redis, MongoDB |
| Member reading (`member/member/service.ts`) | none | list, search, detail, loyalty, tiers, bootstrap | member state and snapshots |
| Auth (`app/services/auth_service.py`) | users, devices, refresh tokens | login, offline login, refresh, logout, heartbeat, current user/device | PostgreSQL, Odoo |
| POS sessions (`app/pos/service.py`, `repositories.py`) | configs, sessions, cash, idempotency keys, device presence | open, current, detail, opening cash, closing control, close, heartbeat | PostgreSQL, auth service, Odoo |
| POS sync worker (`app/pos/sync_worker.py`) | its next delay | sync_once: configs, employees, methods, sessions | Odoo, the same tables |
| Gateway (`app/gateway/router.py`) | none | route by prefix, proxy with a timeout | all services |

### What is hard, and what makes each part correct

- **Catalog synchronisation.** Every await lets another run, a prune, a crash or
  a change in Odoo in between. Correct: runs exclude each other; what readers are
  given is always one whole, validated snapshot, replaced at once; a failed or
  dead run harms nothing that is published; the catalog catches up with Odoo.
- **Catalog reading.** A client pages through one snapshot while others are
  published and pruned. Correct: all pages of one pinned listing come from one
  snapshot, each product once, and the total and `has_more` agree with it.
- **Images.** A job for one snapshot meets the next one. Correct: single flight,
  no lost follow-up, progress reported only of the active snapshot.
- **Members.** As the catalog, plus side collections replaced outside the
  snapshot and an answer assembled from two reads.
- **Auth.** Concurrent requests of one device and crashes between two commits.
  Correct: what was exchanged or logged out with opens nothing later; nothing gets
  through a logout; a token is only revoked for a reason.
- **POS sessions.** One database transaction around a remote call that has its
  own effect, and a worker that writes old answers of Odoo. Correct: a repeated
  request is answered as the first, the cache calls nothing closed that is open,
  a pass makes the open session the current one.
- **Gateway.** A pure function from path to service; nothing to interleave.

`PROJECT.json` lists every hazard at its line, with the properties that cover it
or the reason why none does.

## 2. Modules

| Module | What it is |
|---|---|
| `CatalogPublication` | Abstract specification: there is one published catalog, and it only ever changes by a newer complete one replacing it. |
| `CatalogSync` | The synchronisation of one POS config, call by call. |
| `CatalogRead` | Listings and barcode scans, composed with `CatalogSync`: its steps and theirs interleave call by call. |
| `CatalogImages` | The worker's passes over several configs and the image jobs they leave running. |
| `MemberSync` | The members of one company: runs, tiers, bootstrap and listings, call by call. It implements `CatalogPublication` too. |
| `AuthSession` | One user's logins, refreshes, logouts and access checks on one device. |
| `PosSession` | Closes and opening cash of one POS config's sessions, beside the worker's passes. |
| `MC...` | Small instances for TLC: lists, model values, symmetry. |
| `CatalogSyncProofs`, `CatalogStateProofs`, `CatalogReadProofs`, `CatalogImagesProofs`, `MemberSyncProofs`, `AuthSessionProofs`, `PosSessionProofs` | Theorems about them and their proofs. |
| `SortedLists` | What a sorted query of MongoDB answers: the listings and the image jobs read documents by `write_date` and id. |
| `ListLemmas` | Lemmas about lists, sorted ones and pages of them, that the proofs share. |

`CatalogRead` extends `CatalogSync`; `CatalogSync` and `MemberSync` instantiate
`CatalogPublication`; the others stand alone, because their components share no
state: the services meet only in Odoo and in the client. `CatalogRead`, `CatalogImages`
and `MemberSync` take the sort from `SortedLists`.

### CatalogSync and the code

A run is one call of `syncConfig` that got the lock. Its number is its
`snapshot_id`: ids start with an ISO time stamp, so sorting ids is sorting runs.
`pc[r]` names the awaited call run `r` is about to make:

| `pc` | Next call | Action | Source |
|---|---|---|---|
| idle | `SET lock NX PX` | `Start` | `sync-worker.ts:189-197` |
| read | `syncState` | `ReadState` | `:199` |
| begin | `beginSnapshot` | `Begin` | `repository.ts:29-44` |
| page | fetch and write one page | `CopyPage`, `TotalMoved` | `sync-worker.ts:210-244` |
| count | first half of `commitSnapshot` | `Count` | `repository.ts:105-111` |
| publish | second half of `commitSnapshot` | `Publish` | `repository.ts:113-149` |
| dropDocs, dropMark | `discardUnchangedSnapshot` | `DropDocs`, `DropMark` | `:161-183` |
| failMark, failDocs | `markSnapshotFailed` | `FailMark`, `FailDocs` | `:152-159` |
| unlockGet, unlockDel | `finally`: get, then del | `UnlockGet`, `UnlockDel` | `sync-worker.ts:298-303` |

`prune[r]` is the promise `void pruneSnapshots` left running: `PruneFind`, then
`PruneDelete`. `Throw` is a failing call at any of these points, with the control
flow of `try`/`catch`/`finally`; `Crash` ends a process with its runs and prunes
and leaves its lock. `Bootstrap` is a client's `/catalog/bootstrap`: it writes rows to
the legacy collection (`BootstrapRows`), counts that, and writes the number it counted
to the state at some later time (`BootstrapState`).

The state keeps what the properties tell apart: a row of Odoo's list is a product
and its `write_date`; the fingerprint is the sequence of rows it hashes (no
collisions); a document set is the set of rows tagged with a run's id. Steps merged
because nothing can tell them apart: the deletion `beginSnapshot` starts with (the
id is new), a fetch with the write that follows (the fetch touches nothing), the
last read of `commitSnapshot` with its update (the fields it carries over are not
modelled). A `deleteMany` goes document by document (`BeingDeleted`, `DeleteOne`), in
any order, beside everything else, until its own step (`DropDocs`, `FailDocs`,
`PruneDelete`) ends it, or until it fails or its process dies and leaves it half done.
A bulk write is one step; a half-written page is covered by a run that stops between
two pages.

`Env`, a constant, says which faults can happen, so that a property is checked in
the widest environment in which the code guarantees it:

| Member of `Env` | Meaning |
|---|---|
| withdraw | products leave Odoo's list |
| bootstrap | clients call `/catalog/bootstrap` |
| crash | a worker process dies |
| storeError | a call to MongoDB, Redis or Odoo throws; a prune's rejection ends the process, since nothing handles it |
| ackLoss | the publishing update is applied but reported as failed |
| lockLoss | a live run's lock expires because its renewals fail |
| slowPrune | a prune is still at work when a later run starts |

Always possible: products are added and updated between any two calls, a dead
run's lock expires, several workers compete. One worker can have two runs of a
config, because the internal route `/catalog/sync/ensure` calls `syncOnce` beside
the tick (`routes.ts:48-51`); both write the same worker id into the lock.

### CatalogRead and the code

`listing.step` and `scan.step` name the next awaited call of a request:

| Step | Next call | Action | Source (`catalog/catalog/`) |
|---|---|---|---|
| service | `syncState` in the service | `ListService` | `service.ts:66-87` |
| repository | `syncState` in the repository | `ListRepository` | `repository.ts:246-278` |
| query | `find` and, when the total is not in the state, `countDocuments`, in either order | `ListFind`, `ListCount` | `:276-288` |
| query, both answered | the answer, and the client's next request | `ListAnswer` | `:290-303` |
| idle, done | `syncState` for the cache key | `ScanService` | `service.ts:123-130` |
| get | `redis.get` | `ScanCache` | `:131-134` |
| repository | `syncState` in `findByBarcode` | `ScanRepository` | `repository.ts:401-404` |
| find | `findOne` | `ScanFind` | `:404-414` |
| set | `redis.set` | `ScanSet` | `service.ts:136-141` |

The mobile client is not in this repository. As the comment at `repository.ts:272`
has it, it sends the `snapshot_id` of the first answer with each later request; it
goes on while `has_more` says so, by offset or by `next_cursor`. A behaviour has
either a listing or scans (`role`): they share nothing but the catalog, so a joint
run would only multiply the states. A document has one warehouse, the config's; while
the state names none (`located`), the driver turns the undefined filter into null,
and no document matches.

### CatalogImages and the code

Here the run of a config is one step, whose outcome is what `CatalogSync` says it
can be: `ConfigPublished`, `ConfigUnchanged`, `ConfigLocked` or `PassThrows`. A pass
logs in or keeps its session (`PassBegins`), takes the configs in Odoo's order
(`AtConfig`), and ends (`PassEnds`) or throws, which gives up the session and the
configs still to come (`sync-worker.ts:113-172`). Whenever a config's run succeeds
it chains an image job to that config's (`Schedule`, `:327-375`). `job[c].step`
names the next awaited call of the job config `c` is executing:

| Step | Next call | Action | Source (`catalog/`) |
|---|---|---|---|
| none, queue not empty | the next job of the config's chain begins, whichever snapshot is active by then | `JobBegins` | `sync-worker.ts:332-341` |
| start | `countSnapshotProductsForImages`, `markImageSyncStarted` | `JobStart` | `catalog/repository.ts:328-357` |
| list | the next batch of rows that have an image in Odoo | `JobList` | `sync-worker.ts:377-416` |
| link, linkRows | images stored already; the rows marked with them | `JobLink`, `JobLinkRows` | `repository.ts:462-523` |
| need | which images are missing or of another date | `JobNeed` | `:434-460` |
| fetch | Odoo's answer for each | `JobFetch` | `sync-worker.ts:440-499` |
| store | documents and rows of the images Odoo gave, in parallel | `JobStore` | `repository.ts:525-583` |
| remove | documents and rows of those it gave none for, in parallel | `JobRemove` | `:585-669` |
| complete | `markImageSyncCompleted` | `JobComplete` | `:359-382` |

The last two and `markImageSyncFailed` update the state only while it names the job's
snapshot as the active one (`Report`). `JobThrows` ends a job at any of these steps. A
write that throws, and the one sent off beside it, may have reached any of their
documents and rows (`Writing`, `Targets`). `markImageSyncFailed` is not awaited
(`late`, `MarkFailed`). `Restart` ends the process. An image is known by the date it
got, so "the wrong image" is an older date. `shown` is what a snapshot's row is
marked with, `docs` the documents, which all snapshots and configs share.

### MemberSync and the code

The protocol is the catalog's with fewer branches (no unchanged check) and one more
hazard: tiers and loyalty programs are replaced outside the snapshot.

| `pc` | Next call | Action | Source (`member/`) |
|---|---|---|---|
| idle | `SET lock NX PX` | `Start` | `sync-worker.ts:139-149` |
| begin | `beginSnapshot` | `Begin` | `member/repository.ts:31-46` |
| page | fetch and write one page | `CopyPage`, `TotalMoved` | `sync-worker.ts:159-180` |
| clear, fill | `replaceAuxiliaryData`: delete, then write | `ClearTiers`, `FillTiers` | `repository.ts:80-107` |
| count, publish | `commitSnapshot` | `Count`, `Publish` | `:109-144` |
| failMark, failDocs | `markSnapshotFailed` | `FailMark`, `FailDocs` | `:146-153` |
| unlock | `finally` | `Unlock` | `sync-worker.ts:203-208` |

`/members/bootstrap` is `BootFetch`, `BootWrite`, `BootCount`, `BootState` for each
page it fetches (`service.ts:135-195`). A listing is assembled from reads sent off
together (`service.ts:95-133`): `ListState`, then `ListFind` and `ListCount`, and
beside them `ListLabel`, whose answer becomes the `snapshot_id` the client sends
next. A behaviour has a listing or a bootstrap (`role`). What is upserted there, or by a
run, joins what is stored or replaces it, key by key (`AuxWith`). One process runs the
worker: what several do, and a lock lost under a live run, is the same code as the
catalog's and is checked there.

`Env` has the catalog's members withdraw, crash, storeError, ackLoss and slowPrune, with
the same meaning. `syncOnce` has no check that an earlier run's prune is over; without
"slowPrune" the model assumes that it is (`Start`), and `QuietEnv` names this
assumption and that no publication's answer is lost.

### AuthSession and the code

One user, one device code, and a number of requests of any kind side by side. A
request is the code between two of its awaited calls; it keeps what it loaded over
its commits (`expire_on_commit=False`), reads what is committed (PostgreSQL's READ
COMMITTED), and a commit writes the columns that differ from the loaded row.

| Request | Steps | Source (`app/services/auth_service.py`) |
|---|---|---|
| login | `LogIn`, `LoginOdoo`, `LoginUser` or `OfflineUser`, `LoginDevice`, `LoginCommit` or `LoginConflict`, `IssueTokens` | `:57-75`, `:117-244` |
| refresh | `WithToken`, `CheckToken`, `CheckUser`, `CheckDevice`, `RefreshRevoke`, `IssueTokens` | `:77-90` |
| logout | `WithToken`, `CheckToken`, `LogoutDevice`, `LogoutOdoo`, `LogoutRevoke`, `LogoutCommit` | `:92-115` |
| any other | `WithAccess`, `CheckUser`, `CheckDevice`, `ContextAnswer` | `api/dependencies.py:30-45` |

`Aborts` ends a request anywhere: an exception, a timeout or a crash; whatever it
committed stays. `left` and `spent` are history: the devices a logout was carried
out for and the refresh tokens exchanged or logged out with. A logout whose token is
no longer live gets the same answer and does nothing (`auth_service.py:96`); it does
not count as one. Merged: repeated reads of one row by one request. A login takes the
active row that was created last; `created_at` is the time at which the inserting
transaction began, which says nothing about the order of two commits, so where two
rows are active either may be taken. Row locks are left out; they only remove
interleavings.

### PosSession and the code

`txn[a].step` names the next awaited call of a request or of the worker's pass; the
transaction is the request's database session, one from its first query to its
commit. Without an idempotency key a close begins at "call".

| Step | Next call | Action | Source (`app/pos/`) |
|---|---|---|---|
| lookup | the idempotency key | `Lookup` | `service.py:172-175` |
| call | Odoo closes, or sets the opening cash | `CallClose`, `CallCash` | `:129-136`, `:177-184` |
| list | Odoo's configs | `ListConfigs` | `:225-230` |
| idle (worker) | login and list of open sessions | `PassBegins` | `sync_worker.py:81-93` |
| begin (worker) | the transaction's first query | `PassQueries` | `:97-101` |
| hydrate (worker) | the listed session once more | `Hydrate` | `:154-183` |
| row | the session row | `LoadRow` | `:118-130` |
| store | the key's row | `LoadKey` | `:248-249` |
| commit | the commit, or an `IntegrityError` | `Commit`, `CommitConflicts` | `service.py:184-215` |

`Fails` rolls a transaction back anywhere; Odoo keeps what it was told. Locks are left
out. Each transaction replaces the config's payment links (`repositories.py:67-99`);
where there are some, its `DELETE` waits for another transaction's, and its `INSERT` may
then fail: a delay, or one of the failures the model has at every step. A config without
payment methods has no such rows, so the interleavings of the model are the program's.

`updated_at` is `func.now()` (`models.py:132`), in PostgreSQL the time at which the
transaction began. `order` is the order of these times: the sessions, each at the
time last written to it, and amid them each transaction under way, at its beginning
(`Begins`). A commit puts its session in the place of its transaction (`Stamped`),
which is not the last one if others have begun since. `current_for_config` takes the
last open session (`Current`). Folded: the separate `session_detail` call with the
answer it completes, the config's own columns and the payment methods' data, which
nothing here depends on.

## 3. Runs

The catalog's runs (`catalog_*`, `read_*`) use two rows at the start unless said, two
or three possible products, pages of one row, one worker process and three runs.

| Run | Environment and bounds | Shows |
|---|---|---|
| `catalog_main` | withdraw, crash, storeError; 2 changes; fairness | `SyncInv`, mutual exclusion, the active snapshot's size and fingerprint, no catch block on active documents, the refinement of `CatalogPublication`, and that the catalog catches up |
| `read_calm` | no faults; 2 changes; pages of one row for readers too | steady rows are published, the previous snapshot is kept, snapshots do not pile up, the status is truthful; a listing is whole, its totals agree, it ends; a scan is never older than it asked for, and true |
| `catalog_hostile` | everything; 2 workers, 2 runs, 1 change, 1 row | an active snapshot is exactly what its fingerprint was made of or visibly short of its total, whatever overlaps and whichever deletion stops half-way |
| `read_bootstrap` | bootstrap; 2 runs | violation: a listing is told a total that is not its snapshot's, and ends after one page |
| `catalog_slow_prune` | slowPrune; 1 change | violation: a late prune deletes the active snapshot |
| `catalog_orphan` | crash; 2 changes | violation: a dead run's documents displace the previous snapshot |
| `member_main` | withdraw, crash, storeError; three possible members, two at the start; 3 runs, 1 change; pages of one for worker and client | runs exclude each other, the members are published whole (refinement of `CatalogPublication`), a listing is whole, a run left alone publishes what Odoo has |
| `member_hostile` | every member of `Env`; 2 runs, 1 change, else as above | the tiers fit what was published; a listing may lose members of a snapshot that is being deleted, and gets none twice or out of order |
| `images_main` | 2 configs with the same product; 1 change, html answers, no faults, 1 job waiting | no row shows an older image than its record asks for, totals are of the active snapshot |
| `images_live` | 2 configs with the same product; no change, 1 fault, 1 job waiting; fairness | both configs come to show and serve Odoo's image and their image status to be complete, which it is only with every image of the active snapshot stored, though a fault stops one of them or a job, and their jobs store between each other's steps |
| `auth_main` | 2 requests at a time, 2 device rows, 3 refresh tokens | nothing gets through a logout, spent tokens are refused, none is revoked without a reason, a logged-out row stays so |
| `pos_main` | 2 requests and the worker; 2 sessions, requests about the first; 1 body | one row for each session, nothing is called closed that is open, a pass makes the open session current unless a later transaction wrote one, a repeated close is answered from the store |

**Why the bounds are enough.** Three runs are a published snapshot, a run that
fails, dies or finds nothing new, and one that follows it; pages of one row with
two rows put a change between two pages of a run; two changes put one in each of
two runs, or two between the pages of one. Two workers matter only when runs can
overlap, which takes a lost lock. For a reader, three runs are the snapshot it
pinned, the one that makes it the previous one and the one that prunes it; the two
initial rows have the same write date, so a cursor has a tie to break, and the
barcode scanned is of a product that comes into the catalog later. Deadlock
checking is off, because the model stops after `MaxRuns` runs, where the program
goes on.

For the members, three runs and one change, of a member or of the tiers, leave a
failed or dead run between two others with a list and tiers that moved; three
possible members with two listed let one enter. For images, two configs that sell
one product meet in its document, one batch holds it and one change gives two
snapshots; batches beyond the first, eager one are left to the proofs, which hold for
any number of products. Two requests of a
device show every order of two kinds of request, three tokens an exchange and what
is issued beside it, two device rows a login after a logout. For POS, two requests
and a pass are three transactions, the second session is the one that must become
current while the first is still written to, and a body is sent again before and after
it was answered. Closes without a key, and keys used for another body, are left to the
proofs; in the run an opening cash is the request without one. Requests are alike, as
are the catalog's workers, so they are symmetry sets where no property is a liveness
property. Deadlock checking is off there too: the bounds on
changes, rows and tokens end behaviours.

**Bounds in the guards.** `MaxRuns` and `MaxChanges` bound the behaviours. Changes
in Odoo, failing calls, crashes and lost locks stop once the last run has started
(`RunsRemain`). This is the finite form of "eventually quiet" for the liveness
property, and makes the last run one that can finish.

**Fairness.** `FairSpec` lets a worker keep ticking (`schedule` after success and
failure alike, `sync-worker.ts:123,133`), each awaited call or prune be answered
(fetches have a timeout, `odoo-client.ts:21`), and Redis expire keys. `FairReadSpec`
adds that the calls of a listing are answered and that a client told of more asks
for it. Nothing is required of Odoo or faults, nor that a client starts anything.
In `CatalogImages`, `FairSpec` asks that the timer fires and a pass goes on
(`PassStep`; again `sync-worker.ts:123,133`) and that a job's calls and the unawaited
marking of a failure are answered; a pass of which Odoo refuses the session fails
and gives up the token, which the next one replaces. Nothing is required of faults,
of which there is a bounded number, nor of changes.
That a dead process is replaced is an assumption about the deployment:
`docker-compose.yml` sets no restart policy, so it stands for an orchestrator or
for a second instance of the service.

### What the runs taught

- Validation compares a *number* of documents. With products withdrawn and others
  added between two pages of one run the published snapshot can mix two states of
  Odoo, and miss a row that never changed: offset paging skips the row that moved
  up. `PublishedHoldsSteadyRows` therefore needs an environment without "withdraw".
  The next runs repair it, which is `CatalogCatchesUp`.
- If the publishing update is applied but reported as failed, the catch block
  deletes the documents it made active. While Odoo's list does not change, each
  later run then compares equal to the fingerprint in the state, discards its copy
  and reports "complete": the catalog stays empty. The theorems assume "ackLoss"
  away, as the code does.
- A listing that outlives its snapshot (two publications after the one it pinned)
  gets an empty page with a total of 0, which reads as the end of the list.
  `ListingWhole` therefore speaks of the active snapshot and the one before.
- A request that meets the very first publication between its two reads of the
  state answers no items, a total and `has_more`, and no `snapshot_id`: the service
  had no warehouse yet. The client's next request gets the list from its start.
- Members: the label of an answer and its items come from two reads of the state
  (`member/service.ts:95`). A publication in between labels the first page of one
  snapshot with the next one's id, and the client goes on there. `MemberListingWhole`
  leaves such listings out (`loose`).
- Members: a run that fails between clearing the tiers and writing them leaves none
  until the next run that gets there; a bootstrap can put back the tiers it fetched
  before a run replaced them. `TiersFitMembers` says what is left of the promise.
  Bootstrap's `member_count` is as wrong for a snapshot as the catalog's.
- Images: which images can be linked and which are needed are two queries. When a job
  of another config stores one in between, it is neither linked nor fetched: the job
  ends "complete" without it, and the row is marked by the next pass. The same holds
  after a failure of one of the two parallel writes. `images_live` shows that the
  mark comes. An html answer leaves a marker that is never fetched again, so `ImagesCatchUp` is checked without "html".
- Auth: two refreshes that both pass the check before either commits both get tokens;
  a crash between the revocation and the issue leaves the client with none; two
  first logins create two active rows for one device, of which a logout ends one;
  what Odoo said of a user can be overwritten by an older answer. None of this is
  excluded by the code, and the properties are stated beside it.
- POS: a late transaction can replace a stored successful answer by one that says the
  close did not succeed; a stale list reopens a session in the cache that is closed.
  Both come right with a later close or pass, or, but for the exception below, are not
  read as the current session once a pass has stored another one that is open.
- POS: that the time written is the transaction's beginning matters. If a request
  begins after the pass's transaction, with an earlier session that it still takes for
  open, and commits before it, its row has the later time, and stays the current one
  when the pass commits. `PassMakesCurrent` says that this is the only exception.
- A deletion takes documents one by one. Where it concerns the active snapshot (a slow
  prune, a lost answer, two runs at once) readers get fewer documents than the total
  says, until a later publication; they never get others (`ActiveWholeOrShort`).
- The three violations are recorded as findings with the lines they contradict.

## 4. Proofs

For every set of products, number of workers, runs and changes, page size and
initial list (`CatalogSyncProofs`, `CatalogStateProofs`, `CatalogReadProofs`):

| Theorem | Statement |
|---|---|
| `TypeCorrect` | `Spec => []TypeOK`, in every environment |
| `SyncInvariant` | `QuietEnv => (Spec => []SyncInv)` |
| `RunsExclusive`, `ActiveFull` | its two conjuncts that matter to a reader |
| `CatchSparing` | without ackLoss, `[]CatchSparesActive`, overlapping runs included |
| `ImplementsPublication` | `QuietEnv => (Spec => PublishesAtomically)`, the refinement |
| `WholeOrShort` | `Spec => []ActiveWholeOrShort`, in every environment |
| `StatusIsTrue` | `QuietEnv => (Spec => []StatusTruthful)` |
| `PrintOfActive` | `QuietEnv => (Spec => []PrintDescribesActive)` |
| `CountingSuffices` | without withdrawals too, `[]PublishedHoldsSteadyRows` |
| `PreviousKept` | `CalmEnv => (Spec => []PreviousSnapshotKept)` |
| `OldOnesPruned` | `CalmEnv => (Spec => []SnapshotsBounded)` |
| `ReadersHarmless` | `ReadSpec => Spec`: the theorems above hold beside readers |
| `ScansNeverOlder` | `QuietEnv => (ReadSpec => []ScanNotOlder)` |
| `ReadTypeCorrect` | `ReadSpec => []ReadTypeOK`, in every environment |
| `ScansTrue` | `CalmEnv => (ReadSpec => []ScanTrue)` |
| `ListingsWhole` | `CountedEnv => (ReadSpec => []ListingWhole)` |
| `TotalsTrue` | `CountedEnv => (ReadSpec => []TotalsAgree)` |

For every list of configs, set of products, size of the images fetched at once,
and bounds on changes and faults (`CatalogImagesProofs`):

| Theorem | Statement |
|---|---|
| `ImagesInvariant` | `Spec => []ImagesInv`, the inductive invariant |
| `NeverStale` | `Spec => []NoStaleImage` |
| `TotalsDescribeActive` | `Spec => []TotalDescribesActive` |
| `ImagesTypeCorrect` | `Spec => []ImagesTypeOK` |
| `CompleteStored` | `Spec => []CompleteStoredAll` |

For every set of members, list, page size, number of runs and changes
(`MemberSyncProofs`; `QuietEnv` is that of `MemberSync`):

| Theorem | Statement |
|---|---|
| `RunsApart` | `Spec => []MemberRunsExclusive`, in every environment |
| `MembersImplementPublication` | `QuietEnv => (Spec => MembersPublishedWhole)`, the refinement |
| `TiersFit` | `Spec => []TiersFitMembers`, in every environment |
| `QuietRunsPublish` | `QuietEnv => (Spec => []QuietRunPublishes)` |
| `MemberTypeCorrect` | `Spec => []MemberTypeOK`, in every environment |
| `MemberListingsWhole` | `QuietEnv => (Spec => []MemberListingWhole)` |

For every number of requests, device rows and tokens (`AuthSessionProofs`), and of
requests, sessions and bodies (`PosSessionProofs`):

| Theorem | Statement |
|---|---|
| `AuthTypeCorrect` | `Spec => []AuthTypeOK` |
| `LogoutCloses` | `Spec => []NothingAfterLogout` |
| `SpentTokensRefused` | `Spec => []ReuseRefused` |
| `RevocationsJustified` | `Spec => []RevokedForAReason` |
| `LogoutFinal` | `Spec => LoggedOutIsFinal`, an action property |
| `ClosesTruthful` | `Spec => []ClosedTruthful` |
| `ReplaysAnswered` | `Spec => ReplayAnswered`, an action property |
| `PosTypeCorrect` | `Spec => []PosTypeOK` |
| `PassesMakeCurrent` | `Spec => PassMakesCurrent`, an action property |

**Assumptions.** The catalog's `QuietEnv` excludes ackLoss, lockLoss and slowPrune, that
of the members ackLoss and slowPrune; crashes, failing calls, deletions that stop
half-way, withdrawals and bootstraps are allowed. These are assumptions about the
deployment that the code does not enforce: `catalog_slow_prune`
shows what it does without them. `CalmEnv` allows withdrawals and
bootstraps, `CountedEnv` withdrawals only; in all of them products are added and
updated between any two calls, and clients go on while runs publish and prune. Those on
constants are in the modules: bounds are natural numbers, sets of products and members
are finite, an initial list is a sequence of rows with one row for each product or
member (as a search in Odoo answers), the configs of a pass are a sequence, `Env` is a
subset of the events, no body is the number that stands for none.

**The catalog's argument.** That the active snapshot is full is not inductive by
itself. One needs that the run holding the lock is the only live one
(`LockCoversRun`) and the newest (`StartedInOrder`), so no other run can touch what
it counted; that what a run stages, drops or fails is not active
(`UnpublishedNotActive`); that the count still holds when it publishes
(`CountHolds`); and that a prune belongs to the active snapshot and has no other run
beside it (`PruneAlone`), so what it deletes is never the active snapshot nor one
being built. Each kind of step has a lemma that shows `SyncInv'` and `KeepsActive`
(the active documents and their total stay, or a newer snapshot is published), and
the refinement follows from `KeepsActive`.

`CatalogStateProofs` says what the active snapshot is of. `WholeInv` assumes nothing of
the environment: what a run has staged are rows it fetched, and an active snapshot's run
fetches no more, so its documents may become fewer, one by one as a deletion takes them,
but what is left is of the published list (`WholeOrShort`). `CopyInv` keeps that what
a run has staged is among the rows it fetched, and that it ends with as many rows as
its total; so when the count equals the total no row was fetched twice and the
fingerprint is of exactly the staged documents (`PrintOfActive`). `RowInv` keeps that
a run stages one document for a product, whose row Odoo still has or has rewritten
since the run began. Then as many documents as Odoo has products leave none out
(`CountCovers`), and a row unchanged since is staged as it is: counting is enough
unless products are withdrawn (`CountingSuffices`; section 3 tells what happens when
they are).

**The previous snapshot.** A prune spares the newest other snapshot that has
documents, published or not. So one needs that a run which does not publish leaves no
documents, which is where `CalmEnv` comes from (`catalog_orphan` is what happens when a
worker dies). `KeptInv` says that documents are of the active snapshot, of those before
it, or of a run not yet done with them (`Holders`); that a run's `prior` is still the
state when it publishes (`StateIsRead`), so that what it displaces is the older
snapshot (`BeforeIsOlder`); that what a prune has chosen to keep is the newest
(`NewestSpared`), hence that older snapshot; and that after it only two snapshots have
documents (`TwoLeft`), which bounds them between runs.

**Readers.** That a scan is never older needs what the cache holds: an entry is from a snapshot
not older than its key (`ScanInv`), which stays true because the active snapshot
only grows (`ActiveGrows`, from the lemmas above). That it is true needs `AnswerInv`: what
is cached or about to be is a row of the snapshot it is said to be from for as long as
a client can count on that one, because the active snapshot and the one before it are
kept (`PreviousKept`). For listings `ListInv` says that a listing searches in the
snapshot it names, and that this is not newer than the active one (`Pinned`); that
while the snapshot can be counted on the client has its first rows in order, the cursor
being the last of them (`Walked`); and that what a request has found so far is the page
behind those rows and the number of all (`Answered`). The number is right because the
count in the state is the one the active snapshot was validated with (`StateKnown`): a
bootstrap overwrites it, so `CountedEnv` excludes it (`read_bootstrap` is what happens).

**Sorting.** Sorting is stated without recursion, so that it can be reasoned about: the
k-th element of a set is the one that k - 1 others come before (`SortedBy`). From this
`ListLemmas` proves for any total order that the list has each element once and in
order (`SortedProperties`), that the elements behind one of it, in their order, are the
rest of the list (`SortedRest`, which is a cursor's page) and that a page taken
behind a prefix makes a longer prefix (`PageFollows`).

**Images.** `ImagesInv` says that Odoo's dates only grow (`Records`), so that an image
fetched for a job is at least as new as what any snapshot taken before asks for; that
only such images reach a job's hands or a row's mark (`Jobs`, `Marks`); that queued
jobs are of snapshots already taken (`Queues`); and that the total a job counted is
that of the active snapshot for as long as the job's is the active one (`Jobs`,
`Reports`). Type correctness needs a bound: every snapshot is of a change or of the
first pass (`Numbered`). What "complete" means follows from `CoverInv`: a job of the
active snapshot to which no request failed has a document for every product that it has
listed and does not have in hand, step by step (`CoveredBy`, `InHand`), and documents
once stored are overwritten, never deleted (`NextStored`), whichever config's job does it.

**The members' argument** is in three layers, each resting on those before.
`Protocol` is the catalog's invariant for this protocol. `TierInv` orders the tiers:
what a run got is not older than what earlier runs got nor newer than Odoo's
(`Ascending`, `Known`), and from a run's fill until it has published the collection
holds that run's tiers (`RunFits`), so publishing it makes them fit. `LastRun` follows
the run that is left alone: Odoo lists a partner once (`OneRowEach`), so after each
page the run has staged exactly the first rows of the list (`Copying`), which at the
end is the whole list; its number is then the total, so that validation cannot fail.

Of these only `Order`, the first part of `Protocol`, and `TierInv` hold in every
environment. The rest needs that a prune ends before a later run starts and that no
write is applied whose answer is lost, which is `QuietEnv`: `catalog_slow_prune` is
the same code without it.

Listings rest on `Protocol`, hence on `QuietEnv` too. `KeepInv` says what the unawaited
prune spares, while it is pending before any later run starts. Failing calls and crashes
need no assumption here: `Readable` leaves out the snapshot before the active one when a
run in between left documents, which a prune may spare in its place. `ListInv` is the
catalog's with one more part: a page's items, total and label come from different reads,
which name the same snapshot once it is pinned (`Agreeing`) or else the listing is
loose. Its count is the validated one where no bootstrap is requested (`CountKept`), as
it is in a behaviour with a listing.

**Auth.** `AuthInv` says what each request may still hold: what it loaded exists
(`Loaded`), a request that has been let through came before any logout it contradicts
(`Admitted`), one whose token was spent before it began gets no further (`Fresh`), and
a logout's pending revocations are of its device (`Leaving`). That a login cannot
bring a logged-out row back rests on what its commit writes (`LoginRow`).

**POS.** `PosInv` says that nothing stored and nothing a transaction holds is ahead of
Odoo (`Stored`, `Behind`): a session that a transaction believes closed is closed in
Odoo, and closed sessions stay closed there (`OdooMoves`). `Answered` ties the key's
stored answer to the last one given. `CacheInv` says that each row of the cache is once
in the order of updates (`Listed`), and in it each transaction under way, at the place
where it began (`Placed`); and that rows are never deleted, so that one a transaction
has loaded is still there when it commits (`There`). A commit puts its row in its
transaction's place and leaves the others as they were. So whatever open row is behind
the one a pass has written was behind the pass itself: its transaction began after the
pass's and committed before (`WrittenLater`). The current session is Odoo's or such a
one (`PassesMakeCurrent`).

**Only model-checked:** liveness under fairness (`CatalogCatchesUp`, `ListingEnds`,
`ImagesCatchUp`), which is beyond the prover, and `MemberListingNoRepeats`, which
`member_hostile` checks where `MemberListingsWhole` does not apply. Every other invariant
and action property that a passing run checks is also a theorem: of its whole
specification, or in the environments the table names, which contain those of the runs.

## 5. Not modelled

- **Gateway.** A pure function from path to service and a proxy without state: nothing
  to interleave.
- **Odoo clients.** Stateless functions; each model folds the client it uses into the
  action that calls it.
- **Runtime, configuration, schema, scripts.** Start-up wiring and settings. Indexes
  that matter (unique logins, keys and links) are in the actions they make fail.
- **Catalog.** Normalisation of product fields, except dates, image and barcode; the
  side collections, upserted by key; `updated_after` listings; the delays of the
  back-off, of which only "a tick follows" is kept; bytes and formats of images;
  `PruneFind`'s delay beside an image job (`CatalogImages` prunes in one step). A row
  enters Odoo's list with a new date, never with an old one; Odoo answers for all images
  of a batch at one instant (both external). A deletion stops, at any document, when its
  client fails or dies: MongoDB does not go on with it after that. Likewise no image
  write of a failed job is applied once the failure has been handled.
- **Members.** The same of dates and deletions; a member by id, search and filters, `updated_after`, status; the tick,
  which is the catalog's without configs; several worker processes.
- **Auth.** Several users of one device, expiry (a check may fail at any time
  instead), hashing, the user and device listings, which only read. A logout with a
  spent token ends without effect, as in the code; that it is answered as a success
  (`auth_service.py:96`) is a hazard on the list, and `NothingAfterLogout` speaks of
  logouts that were carried out.
- **POS.** Reads from the cache alone, config data and methods' data, several configs
  in a pass (one failing item rolls the whole pass back), opening a session, which
  goes the way of the opening cash, and one key used for two sessions' closes.

What would add most next: `PosSession` with several configs in a pass.
