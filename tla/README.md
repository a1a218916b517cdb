# ZK Object Fabric: a TLA+ verification project

ZK Object Fabric is an S3-compatible gateway that stores encrypted objects as *pieces* on storage
backends, keeps a *manifest* per object version, deduplicates by content hash, and moves objects
between backends in the background. Its stores (pieces on a backend, manifests, the content index,
bucket configuration, migration jobs) share no transaction. What this project is about is whether
the handlers and the workers keep those stores consistent when they interleave, fail half-way, are
repeated, or stop.

* [The system and its parts](#the-system-and-its-parts)
* [Modules](#modules)
* [Runs](#runs)
* [Bounds](#bounds)
* [Fairness](#fairness)
* [Proofs](#proofs)
* [Where code and comments disagree](#where-code-and-comments-disagree)
* [Limits, and what is not modelled](#limits-and-what-is-not-modelled)
* [Plan](#plan)

To check a run: `tlc -config <cfg> <module>` in this directory. To check the proofs:
`tlapm DedupStoreProofs.tla`. `PROJECT.json` lists the runs, the mutants (the changed definition
each property must reject), the source lines of each definition, the findings and the hazards.

## The system and its parts

| Part | State | Operations | What is hard about it |
|---|---|---|---|
| S3 object handlers (`api/s3compat/handler.go`, `dedup.go`, `copy.go`) | none of their own; a local manifest per request | PUT, COPY, DELETE, GET, each a sequence of store calls | a request may stop after any call; two requests meet on one content hash |
| Content index (`metadata/content_index`) | (tenant, hash) -> piece, reference count | Lookup, Register, IncrementRef, DecrementRef, conditional Delete | the count must cover every manifest and every request between its calls |
| Orphan GC (`metadata/content_index/orphan_gc.go`) | a snapshot of the rows | Sweep: probe, delete piece, decrement, delete row | runs beside the requests on a snapshot |
| Manifest store (`metadata/manifest_store`) | versions of each key, the latest one | Put, UpdateManifest, Get, List, Delete, ScanManifests | no compare-and-swap: last writer wins |
| Tagging, retention, legal hold (`tagging_handler.go`, `object_lock_handler.go`) | manifest fields | load, change a field, store the whole manifest | lost updates against every other writer |
| Object Lock, versioning (`metadata/object_lock`, `versioning_handler.go`, `internal/auth/legal_response.go`) | bucket settings, lock fields, console holds, the clock | configuration, PUT, amendments, DELETE | a check and the write it guards are two calls |
| Background rebalancer, lazy read repair (`migration/background_rebalancer`, `migration/lazy_read_repair`) | the migration phase and the piece locations in a manifest | copy pieces, store, advance the phase | holds a manifest over slow copies |
| AAD migrator (`api/s3compat/aad_migrator.go`) | a page of manifests | read, re-seal, new piece, switch, reclaim | deletes a piece another writer may bring back |
| Fleet orchestrator, job stores (`migration/fleet_orchestrator.go`, `jobstore.go`, `pg_lock.go`) | job rows with claims | RunOnce, heartbeat, release | crashes, lapsed claims, old snapshots |
| Multipart upload (`multipart_handler.go`, `multipart/`) | uploads and parts | create, upload part, complete, abort | complete against abort |
| Hot object cache (`cache/hot_object_cache`) | cached pieces, sizes | get, fill, evict, promote | stale entries, the size limit |
| Erasure coding (`erasure_coding.go`, `metadata/erasure_coding`) | shards of a piece | encode, partial put, degraded read | roll back of a partial put |
| Cross-cell replication, dual write (`migration/cross_cell`, `migration/dual_write`) | pieces on two cells | copy, verify | one of two writes fails |
| Lifecycle evaluator (`lifecycle/evaluator`) | rules | expire versions | against Object Lock and versioning |
| Repair queue, notifications (`internal/repair`, `internal/notifications`) | bounded queues | enqueue, work, retry, shut down | full queues, retries, loss at shutdown |
| Authentication, rate limits, console sessions (`internal/auth`, `api/console`) | buckets, budgets, tokens | allow, refresh, rotate | refill arithmetic, rotation races |
| Billing, health, cell operations, compliance | buffered events, node states | flush, transition | partial flushes |
| Providers, encryption, binaries | external | adapters, cryptography, wiring | outside a state machine's reach |

## Modules

Every handler is cut where it calls a store: one action is one store call with the local code up to
the next call. Requests therefore interleave exactly between the calls, which is where the program's
processes do. Data is reduced to what the properties tell apart: a piece is named by the request that
minted it, a body by its content hash, a manifest by its key, version, hash and piece.

**`DedupStore`** is the core: PUT (plain and deduplicated), COPY (refcount-only and by bytes) and
DELETE of one tenant over `pieces`, `index` and `manifests`; `pc` and `man` are the position and
local manifest of each request. `PutLookup` to `WriteManifest` follow `dedup.go` and `Handler.Put`:
a hit increments, a miss uploads and registers, and the loser of a Register race increments, drops
its copy and takes over the winner's piece. `Rollback` and `UndoPiece` are the error paths, `CopyGet`,
`CopyIncrement`, `CopyPiece` are `copy.go`, and `DeleteGet` to `DeletePieces` the order of
`Handler.Delete`: manifest, count, row, piece. `regime` says what this gateway lives with. Under
`"faults"` any store call may fail and any request may be abandoned (`Abandon`: the client's context
ends, or the process stops); under `"retries"` two DELETEs of one version may overlap; under `"strict"`
the backend answers an error for the deletion of a missing piece, as `local_fs_dev` does.

**`OrphanGC`** extends it with the sweep: `SweepScan` (ScanAll), `SweepProbe`, `SweepPiece`,
`SweepDecrement`, `SweepRow`. `GCNext` interleaves it with the requests. On a strict backend
`SweepPiece` fails when the piece has gone, and the sweep passes on to the next row.

**`FleetOrchestrator`** is the migration job queue. Each node works through the pending jobs of a
snapshot (`RunOnceList`, `RunOnceTry`), a claimed job gets a goroutine (`WorkerGet`, `RunnerReturn`,
`WorkerRelease`) and a heartbeat loop. `Lapse` is the passing of `claimed_until`; `Crash` and
`Restart` lose and restore a node. `regime` says which mishaps this fleet lives with: claims of live
nodes running out, crashes, failing store calls (which may have been applied all the same).

**`ManifestWriters`** is everything that stores a manifest of one key: client PUT, delete marker,
DELETE, amendments, the read repair of a GET, the rebalancer and the AAD migrator. `body` is the
manifest table, `order` its versions by `updated_at` (the latest is the last), `pieces` the pairs of
piece and backend: the rebalancer's source and primary, and a third one its loop passes over. Writers
hold a private copy (`reb`, `mig`, `held`) and store it back whole, with `Put` or `UpdateManifest` as
the code does. `ops` is the mix of operations the gateway serves. `overwritten` is a history variable:
the versions that were stored from a copy whose row had been changed or deleted since it was read.

**`ObjectLock`** is Object Lock on one object: versioning state, lock configuration, lock fields per
version, the console's legal holds and the clock, under the configuration handlers, single-piece PUT,
COPY, the retention, legal-hold and tagging amendments, and DELETE. Nothing keeps them apart. A PUT
stores a version of its own; a refcount-only COPY stores under the ID of the piece it shares
(`Shared`). What a handler saw when it read its version or the configuration stays with it (`held`,
`setting`), and `late` records the DELETEs that had passed the hold check when a console hold was
issued, so that the properties can tell a handler that was overtaken from one that was not.

**`DedupStoreProofs`** holds the theorems about `DedupStore`. The `MC*` modules define the values the
`.cfg` files use.

Between the modules: `OrphanGC` composes with `DedupStore` over the same variables. `ManifestWriters`
and `ObjectLock` look at the manifest store from two other sides (piece locations and phases; lock
fields) and leave the reference counts to `DedupStore`.

## Runs

| Run | What it checks | States | Time |
|---|---|---|---|
| `dedup_safe` | `RowPieceStored`: the index never names a removed piece. `PlainManifestStored`: an object outside the index has its piece. With one DELETE per version at a time, `RefsCoverReferences`: a count covers its manifests and the requests that hold a unit; and when nothing fails either, `NoStrandedRow`: no row stays behind with a zero count | 890,893 | 1.5 min |
| `gc_sweep` | `SweepSparesPlainObjects`: the sweep takes no piece of an object outside the index. `LeakedRowsDrain`: on a backend that is not strict, counts left too high are drained by repeated sweeps | 618,277 | 4 min |
| `fleet_jobs` | `TerminalIsFinal`: a finished job is not touched again. `OneRunner`: with heartbeats in time, one worker per job. `NodeWithinLimit`: no node exceeds a cell's limit. `RunningHasWorker`: without crashes and failed calls, a running job has its claimant's goroutine | 681,779 | 0.7 min |
| `writers_readable` | `ReadableUnlessOverwritten`: only a version stored from an outdated copy can name missing pieces. `AdvancedMeansLocal`: a phase past DualWrite means that all pieces moved | 2,879,317 | 3 min |
| `writers_progress` | `MigrationCompletes`: a migrating version that stays the latest reaches LocalOnly. `FleetConvergesOnV1`: every eligible legacy version is re-sealed | 41,458 | 0.3 min |
| `lock_writers` | `CurrentWritersKeepCompliance`, `CurrentWritersKeepGovernance`, `CurrentWritersKeepHolds`: only a handler that was overtaken, or a COPY onto a shared version, removes or weakens a protected version. `ConsoleHoldKept`: only a DELETE past its check removes an object under a console hold. `LockNeedsVersioning`: Object Lock without versioning takes two configuration requests that cross | 859,508 | 1.5 min |
| `dedup_aba`, `gc_inflight`, `fleet_recovery`, `writers_zombie`, `lock_compliance`, `lock_copy` | each violates one sentence of a comment or test, see below | | a minute at most |

Several of these properties name the one way in which the code breaks the unconditional statement, and
say that it is the only one; the violation runs and the list below show that way. The interleavings
themselves are not restricted.

Each module also has one type invariant, which carries the facts about shape that the rest relies on
(counts never below zero, `order` holding each stored version exactly once, a retention with a mode
having a date). Deadlock is checked for the sweep and the fleet, which never stop; the other models
stop when every request is done.

## Bounds

* `dedup_safe`: five requests, one key and one hash, under no mishap, failures, overlapping DELETEs, and
  both. A request runs once, so five are two uploads, a copy and two deletes, or any other choice; a
  race on a row needs an uploader, a deleter and a third who registers again. Five are needed: with
  four, `NoStrandedRow` also holds under overlapping DELETEs, with five it does not (below). A second
  hash or key only adds independent rows.
* `gc_sweep`: three requests and a sweep that repeats without bound, with failures and overlapping DELETEs
  on an S3 backend, and with overlapping DELETEs on a strict one.
* `fleet_jobs`: three nodes, two jobs of one cell whose limit is one, so that a node meets a full cell;
  crashes, restarts and lapses are unbounded.
* `writers_readable`: three requests and two legacy versions; the older has one piece on the source, the
  newer one piece there, two there, or one there and one on a third backend. `MaxReseals = 2` bounds the
  pieces the AAD migrator writes: one for each legacy version, or two for one of them, after a failed
  switch or after the old manifest came back. `writers_progress`: two requests, `MaxReseals = 3`.
* `lock_writers`: three requests, `MaxTime = 1`, `MaxDays = 1`: a retention can be active, expire
  between a check and its write, and be extended.

Symmetry over the requests or the nodes is used only in runs without liveness properties, where no
action singles one of them out. The mixes of `writers_readable` (`EveryPair`) let every two operations
meet; all of them at once are out of TLC's reach. `writers_progress` has two mixes, the rebalancer with
PUTs and amendments and the AAD migrator with PUTs and DELETEs: a DELETE or a migrator beside the
rebalancer can undo its work for good. It is without failures, so read repair, which answers a failed
read, and failed passes of the migrator play no part in it.

## Fairness

* A handler that has started takes its next step (`WF` on each request's steps): a goroutine is
  scheduled and store calls return. `Abandon`, failures and new requests are never forced.
* The sweep, the rebalancer and the AAD migrator are ticker loops of the gateway (`WF`).
* `gc_sweep` has failing calls in the sweep. That a call which can succeed and is repeated in sweep after
  sweep succeeds in the end (`SF` on the successful forms of the sweep's steps) is an assumption about
  the stores; nothing in the code guarantees it.
* RunOnce of the fleet orchestrator is *not* called by the gateway: `cmd/gateway/main.go:1471` leaves the
  ticker to a later change, and only tests call it. No progress of the job queue is therefore claimed.
  `fleet_recovery` assumes a ticker all the same, restarts and an advancing clock (`FairSpec`), to show
  that not even then is a lapsed claim recovered.

## Proofs

`DedupStoreProofs` proves, for every set of requests, keys and hashes, and in every regime (failures,
overlapping DELETEs):

* `TypeCorrect`: `Spec => []TypeOK`; no DecrementRef takes a count below zero;
* `IndexNamesStoredPieces`: `Spec => []RowPieceStored`;
* `PlainObjectsKeepTheirPieces`: `Spec => []PlainManifestStored`.

They rest on `ConstantsAssumption` (the null values are not hashes or rows; there is a key; the
requests are finite; a regime is a set of the three conditions). None of the three is inductive. A DELETE at its last call removes a piece, and
only the past of the request says that no row names it. `StorageInv` adds that past:

* `OwnPiece`: which requests still hold their own piece, and which work under a hash;
* `PrivateUntilPublished`: a piece is named by a row, a manifest or another request only after its
  own request has registered it or stored its manifest, and then that request only finishes;
* `HashOfPiece`: whoever names a piece works under the hash it was uploaded with, so that the rows of
  two hashes never share a piece;
* `PlainPieceUnshared`: the piece of a plain object belongs to one manifest;
* `DoomedPieces`: when DELETE reaches the piece, no row names it any more.

`StorageStep` shows that each action preserves each conjunct (one case per action, one step per
conjunct), `StorageInductive` closes the induction, and the theorems follow. TLC was used first to
check `StorageInv` as an invariant.

Only model-checked: the counts (`RefsCoverReferences` and `NoStrandedRow`, which need cardinalities of
sets of requests and manifests), all liveness (out of the prover's reach), and the other modules.

## Where code and comments disagree

Six runs hold a sentence of the repository against the model and find it violated; the traces are a
few steps long, and `PROJECT.json` quotes the sentences with their lines.

* `dedup_aba`: a dedup hit looks a row up, and increments whatever row the hash has by then. If the row
  was removed and registered again in between, the manifest names the piece of the first row, which
  is gone.
* `gc_inflight`: an upload between Register and Manifests.Put has no manifest, so the sweep's probe takes
  it for an orphan; nothing is checked again before DeletePiece.
* `fleet_recovery`: RunOnce claims pending jobs only, and a crash leaves its jobs in state `running`.
* `writers_zombie`: advancePhase stores its copy with Put, which inserts: a version deleted during the pass
  comes back without its pieces.
* `lock_compliance`: two retention requests load the same version, and the second write replaces the
  COMPLIANCE retention set by the first.
* `lock_copy`: a refcount-only COPY repeated onto one key stores under the version ID of the first, and the
  COMPLIANCE retention put on that version in between is gone. The requests run one after the other; in an
  Enabled bucket the pre-flight check takes every write for a new version.

Seen in the same way, and left out of the runs because they have the same root as one above or concern
a comment only:

* two overlapping DELETEs of one version both decrement (`handler.go:2741` tolerates ErrNotFound), so the
  count falls below the number of manifests. A fifth request then strands a row although no call fails:
  the loser of a Register race takes its unit, the two DELETEs drop the row, the loser finds no row any
  more (`dedup.go:466`), another upload registers the hash again, and the loser's rollback takes that
  upload's unit and leaves the row with count zero. This is why `RefsCoverReferences` and `NoStrandedRow`
  are stated for one DELETE per version at a time;
* a repeated refcount-only COPY onto one key replaces its manifest and counts it twice (`copy.go:809`): the
  count is an upper bound on the manifests, not equal to them;
* the remainder the sweep leaves is explained by an uploader (`orphan_gc.go:207`), and a count leaked twice
  leaves it too; on a strict backend such a row is never drained, because the second sweep fails on the
  piece the first one deleted (`orphan_gc.go:155`, `local_fs_dev/local.go:238`);
* pieces whose DeletePiece failed have no row, and the sweep does not see them (`handler.go:2862`);
* the cell limit is per node and not fleet-wide (`fleet_orchestrator.go:58`): two nodes count before either
  claims;
* a lost claim ends the heartbeat and not the runner (`jobstore.go:31`);
* besides DELETE and the rebalancer (`writers_zombie`), four more pairs of writers leave a manifest without its
  pieces: DELETE and a read repair (`repair.go:177` stores the deleted version again), and the AAD migrator
  with an amendment, with the rebalancer or with a read repair, each of which may store the old manifest back
  before or after its piece is reclaimed (`aad_migrator.go:404`). In all other pairs every manifest stays readable;
* the AAD migrator stores a re-sealed old version with Put, which makes it the latest (`aad_migrator.go:382`);
* LocalOnly is reached while the source backend still holds its copy of every piece: nothing drains it
  (`rebalancer.go:319`);
* an amendment loaded before a legal hold was set writes it back as off (`object_lock_handler.go:267`), and
  suspending versioning races enabling Object Lock (`object_lock_handler.go:165`);
* a console hold issued between DELETE's check of the hold store and the removal of the manifest does not stop
  the DELETE (`handler.go:2692`).

## Limits, and what is not modelled

* A failed store call of `DedupStore` has not been applied. A commit that is applied although it reports
  an error is modelled for the job store only.
* One tenant and, in `ManifestWriters` and `ObjectLock`, one key: no operation reads or writes two keys,
  except COPY, which is in `DedupStore`.
* `ObjectLock` covers single-piece PUT, COPY, the amendments, the configuration handlers and DELETE. The same
  checks in CompleteMultipartUpload (`multipart_handler.go:457`, `752`), in erasure-coded PUT
  (`erasure_coding.go:251`) and in the lifecycle evaluator (`evaluator.go:543`) are not modelled.
* The runner of a migration job is one step: what it moves is `ManifestWriters`' subject.
* The cut-over of a manifest to DualWrite (`BeginMigration`) is external: nothing in the repository does it.
* Encryption, the Reed-Solomon arithmetic, signatures, XML and JSON, the providers' SDKs and the binaries'
  wiring are left out: they are pure computation or I/O. The wiring is reflected in which workers run.
* Parts without a module yet are listed in `PROJECT.json` with status `not_modelled`, and their known hazards
  with a note.

## Plan

Most important behaviour first; each step adds a module, its run and its mutants.

1. `Multipart`: create, upload part, complete, abort and the registration of the assembled object, beside
   `DedupStore`'s index. Property: an upload ends once, and no part of a completed object is removed.
2. `HotCache`: fill, eviction, promotion and the read path against DELETE. Properties: the size limit, and no
   answer from a piece of a deleted object once its invalidation is over.
3. `ErasureCoding`: shard placement, the roll back of a partial put, degraded reads; the field arithmetic is
   abstracted to "any k of n".
4. `Lifecycle` over `ObjectLock`: expiration never removes a protected version.
5. `Notifications` and `RepairQueue`: bounded queues, retries, shutdown, at-least-once delivery where the code
   promises it.
6. `RateLimit` (token buckets as integer arithmetic), refresh-token rotation and MFA challenges.
7. `CrossCell`, billing buffers, health and provisioning.
8. An abstract specification of the object store (a map from keys to bodies) that `DedupStore` implements where
   its assumptions hold.
9. Theorems: `RefsCoverReferences` for one DELETE per version at a time (strengthened by the uniqueness of
   versions and the finiteness of `manifests`); `OneRunner`, `TerminalIsFinal` and `RunningHasWorker` of
   `FleetOrchestrator`; `ReadableUnlessOverwritten` and `AdvancedMeansLocal` of `ManifestWriters`;
   `SweepSparesPlainObjects` of `OrphanGC`, whose invariant extends `StorageInv`;
   `CurrentWritersKeepCompliance` of `ObjectLock`.

Each new run takes the place of a run above whose question a theorem or a larger run answers.
