# Verification of Stratumind's exact search, its storage and its replicas

Stratumind is a fork of Qdrant that adds *exact* retrieval: the fused Top-K it
returns is the one an exhaustive evaluation of every channel would give, although
it stops reading the channels early. That promise rests on three things.

* **Ranking.** Every layer, from the vectors of one Segment to the fused answer,
  hands out an exact order lazily and must know when enough has been read.
* **Storage.** Updates, optimizers, flushes and crashes go on around a request. The
  request must read one frozen generation of each Shard, the generation must have
  one authoritative value per point, and a restart must bring it back.
* **Replication.** A replica that answers must hold every update the clients were
  told of, also after it was away.

This directory holds TLA+ models of all three, the TLC runs that check them on small
instances, and TLAPS proofs for instances of any size. Paths below are relative to
`src/`.

## 1. The system and its parts

    API (actix, tonic)                                               not modelled
      | exact RRF request
    ExactRrfService        collection/.../exact_rrf/service.rs       ExactRequestLocks
      | pins one generation per Shard, reserves slots
    DynamicRrfSession      segment/.../reciprocal_rank_fusion/       DynamicRrfSession
      | pulls ranks from one stream per channel                      DynamicRrf, RrfScoring
    KWayExactScoreStream   segment/src/index/exact_rank_stream.rs    KWayExactScore
      | one stream per Shard
    ExactShardMergeState   shard/src/exact_shard_stream.rs           ExactShardMerge
      | one source per Segment
    Segment read view      segment/src/segment/read_view/search.rs   SegmentDelivery
      | dense: DenseRankState     segment/src/index/dense_rank_state DenseSegmentRank
      | sparse: PostingBlockMax   sparse/src/index/posting_block_max SparseSegmentRank

    replica set, clocks, transfers      collection/src/shards        ReplicaRecovery, ClockMap
      | an update per replica
    LocalShard: log, queue, workers     local_shard, update_workers  UpdateQueue
      | one operation after the other
    SegmentHolder, proxies, optimizer   shard/src/{segment_holder,   SegmentLifecycle
      |                                 proxy_segment,optimize.rs}
    flush, acknowledgement, replay      segment_holder/flush.rs,     FlushRecovery
      |                                 wal.rs, local_shard
    log files                           wal, shard/src/wal.rs        WalFiles, SerdeWal
    files of a Segment                  segment, id_tracker          SegmentFiles
    payload storage                     gridstore                    Gridstore
    consensus log and state             storage/src/content_manager  ConsensusLog

`PROJECT.json` lists every component with its sources and status, and maps each
definition to the lines it stands for. Not modelled, with the reason:

| part | why |
|---|---|
| resharding | driven by consensus operations stage by stage; `ReplicaRecovery` has one replica set and one hash ring |
| snapshots | archive I/O around the proxies that `SegmentLifecycle` models |
| sequence lock | its correctness is a matter of the memory order, which an interleaving model does not show |
| budget, rate limiter | counters behind one lock |
| HNSW, payload indexes, quantization, GPU kernels | sequential numeric code; approximate search promises no order to state. Certified bounds enter `DenseSegmentRank` as arbitrary intervals |
| query planning, API, access control, audit, edge, tokenizers | no concurrent or persistent state of their own |

## 2. Modules

### Ranking

| module | models | state and actions |
|---|---|---|
| `RrfScoring` | `scoring.rs` | `PositionScore`, `RrfOrder`, `GuaranteedBefore` and the exhaustive reference `IsExactTopK`. No state. |
| `DynamicRrf` | `state.rs` | The fusion state: `next_positions`, `exhausted`, `contributions`. Actions `ObserveBatch` (with its validation `IsValidBatch`), `Certify` (`fixed_top_k`), `ExtendTopK`, `ReplaceSource`. The schedule is open. |
| `DynamicRrfSession` | `session.rs` | The pull loop over `DynamicRrf`'s state: check schedule, pause targets, drain policy, fairness window, source selection, failing streams, rejected batches, the kept complete order. |
| `ExactOrder`, `ExactStream` | contract | The order by score and identity, and the abstract stream every layer promises: exact prefixes, an end only after the last point, a failure that is final and never looks like an end. |
| `ExactCall`, `MergeSources` | shared | What every stream keeps of a consumer's call; what the two merges keep of their sources. |
| `ExactShardMerge` | `exact_shard_stream.rs` | Merge of the Segments of a Shard: source buffers, heads, duplicates, versions, validation, sticky errors, cancellation. |
| `KWayExactScore` | `exact_rank_stream.rs` | Merge of the Shards of a channel: refills, short and empty replies, duplicates, errors. |
| `SegmentDelivery` | `read_view/search.rs` | Tie groups, lookahead and the translation of offsets to identities, shared by both kinds of Segment. |
| `DenseSegmentRank` | `dense_rank_state/core.rs` | Heaps of bounds and exact scores, lazy refinement, the exact scan. |
| `SparseSegmentRank` | `posting_block_max/` | Offset ranges with block maxima, expansion order, reader failures, cancellation. |
| `ExactStreams` | composition | The four concrete streams side by side: `layer` says which of them runs. |

The four concrete streams each instantiate `ExactStream` with a refinement mapping
(`universe` is the set of points they rank, `sound` says whether the material below
them keeps its contract) and `ImplementsExactStream` says that each implements it.
`ExactStream` is stacked: what `ExactShardMerge` and `KWayExactScore` assume of their
sources is what the layer below is shown to provide, or is caught violating.
`DynamicRrfSession` extends `DynamicRrf` and implements it, so that what is proved of
`DynamicRrf` holds of the session.

Scores are f32 in the code. The fusion needs two facts about f32 only: a
contribution does not grow with the rank, and summation is monotone. `Quotient`
and `Fuse` are constant operators with exactly these assumptions, so rounding and
the ties it causes are covered. In the streams a score is an integer or
`NonFinite`.

### Shard

| module | models | state and actions |
|---|---|---|
| `SegmentLifecycle` | `segment_holder/mod.rs`, `proxy_segment/`, `optimize.rs`, `update.rs` | The holder as a function from ids to Segments and proxies; `Upsert` (with copy-on-write), `Insert`, `Delete`; an optimizer from `StartOptimization` over `Merge`, `ReadDeletes`, `ApplyDeletes`, `NoteRemoved` to `FinishOptimization`, `Rollback` or `RollbackFails`; `Pin` and `Unpin` of an exact session. |
| `ExactRequestLocks` | `service.rs`, `locked.rs`, `adaptive_handle.rs`, `collection_updater.rs`, lock order of `optimize.rs` | Three locks per Shard with their real disciplines (tokio FIFO; parking_lot writer bit and drain; upgradable mode), the reservation slots, one control point per thread. |
| `UpdateQueue` | `update_workers/`, `local_shard/`, `update_tracker` | Clients, the queue with its RAM buffer, the worker's steps, `applied_seq`, the flush worker, failed updates and their recovery, load with partial replay, truncation of unapplied updates, crash and power loss. |
| `FlushRecovery` | `flush.rs`, `toposort.rs`, `flush_workers.rs`, `wal.rs`, `Segment::flusher`, `LocalShard::load`, `load_from_wal` | Segments in memory and on disk, the flush topology, captured flushers, the acknowledged index, one optimization as the disk sees it, `Crash`, `Replay`, `ForceFlush`. |

### Disk

| module | models | state and actions |
|---|---|---|
| `DiskFile` | the operating system (external) | A file of units written in place: what it shows, and what a power loss may leave. |
| `WalFiles`, `SerdeWal` | `wal/src/{lib,segment}.rs`, `shard/src/wal.rs` | The files of the log with their cached and their flushed contents; append, roll-over, the thread that creates the next file, truncation from both ends, acknowledgement, flush, kill, power loss, reopening. |
| `Gridstore` | `gridstore/src` | Blocks, regions and gaps, pages, the tracker's pending pointers, the four steps of a flush against concurrent puts and deletes, kill, power loss, open. |
| `SegmentFiles` | `segment/src/segment`, `id_tracker/mutable_id_tracker` | The files of one appendable Segment: mappings log, vectors, versions, state; the order of `Segment::flusher`, a failing flush, load and repair. |
| `ConsensusLog` | `consensus_manager.rs`, `consensus_ops`, `consensus_wal.rs`, `persistent.rs`, `consensus.rs` | The Raft log, the state file and the applied entries, through `process_ready` and `process_light_ready`, with a crash between any two steps. The raft library and the other peers are external. |
| `PeerStorage` | composition | `FlushRecovery`, `SerdeWal`, `ConsensusLog`, `Gridstore` and `SegmentFiles` side by side: `layer` says which of them runs. |

### Replicas

| module | models | state and actions |
|---|---|---|
| `ClockMap` | `clock_map.rs`, `wal_delta.rs` | Ticks, tokens, recovery points and `resolve_wal_delta`. No state. |
| `ReplicaRecovery` | `replica_set/`, `transfer/`, `queue_proxy_shard.rs`, `forward_proxy_shard.rs` | A coordinator's fan-out with clock tags and retries, deactivation through consensus, the WAL delta transfer with its proxies and stages, lost requests, answers and reports, restarts. |

Granularity. An update of the holder runs under the exclusive generation guard and
is one step. An optimizer reads the deletes of its proxies without the guard, one
proxy at a time and several times, and takes one step per proxy. A flush takes one
step per file, because a crash in between is what the recovery exists for. Threads in
`ExactRequestLocks` take one step per lock operation. The update worker and the
clients of `UpdateQueue` take one step per lock or channel operation.

What the modules leave out:

* `SegmentLifecycle`: payload index and vector name changes, an update that fails
  half-way, snapshots. A copy is its version.
* `FlushRecovery`: failing flushes, `failed_operation`, `keep_from`, deferred points,
  more than one optimizer, the extra copy-on-write Segment, `append_only_mutations`.
  The queue and `failed_operation` are in `UpdateQueue`, the log's files in `SerdeWal`.
* `UpdateQueue`: each point has an appendable Segment of its own; clock rejections, a
  full disk, the wait for deferred points, `keep_from`, plunger signals. A replay that a
  service error aborts leaves the disk as it was and is no step.
* `SerdeWal`: records have one size and differ from each other, directory changes
  persist in the order of the calls, I/O errors are not injected, the queue of files to
  create has one place, the first-index file is replaced atomically; the Windows paths
  and `copy_to_path` are left out.
* `Gridstore`: compression, read-only and live-reload readers, iteration, growth of
  the tracker file, a crash during `clear`. Flushes do not overlap: the holder's
  `lock_flushing` excludes it.
* `SegmentFiles`: one Segment; an upsert includes its payload call; the payload storage
  keeps the contract of `Gridstore`; deferred points, UUIDs, the immutable trackers, an
  operation that fails, a failure while loading, and a tail of zeros after a power loss.
* `ConsensusLog`: terms and votes, proposals, membership, the message broker; the state
  file is replaced atomically.
* `ReplicaRecovery`: one clock per coordinator, updates that wait, saved clocks only
  at state changes, clock advance and log write in one step, no truncation of the log,
  no forwarding to a leader, no streaming or snapshot transfer (a failed delta transfer
  is aborted and requested again), reads. The wait for consensus may give up at any
  moment, and requests may arrive at any later moment, also after they were given up.

### Composition

`SegmentLifecycle`, `ExactRequestLocks` and `FlushRecovery` look at one optimizer
from three sides: what it does to the points, which locks it holds while it does
it, and what is on disk. They meet at named assumptions: `SegmentLifecycle` takes
updates and publications as atomic under the generation guard, and
`ExactRequestLocks` shows that who works under the guard shares it with no session
(`PinExcludesChange`). `FlushRecovery` takes the publication as atomic for the same
reason. `FlushRecovery` and `UpdateQueue` take the log as a sequence of which a prefix
is acknowledged; `SerdeWal` shows how far its files provide that. `SegmentFiles` uses
of the payload storage what `Gridstore` shows.


## 3. Runs

TLC explores each passing run completely. State counts are distinct states.

| run | states | what is asked | bounds, and why they are enough |
|---|---|---|---|
| `session` | 120 thousand | Every answer is the exhaustive Top-K (`AnswersAreExact`), longer answers extend shorter ones (`AnswersAreNested`), the session implements `DynamicRrf` (`ImplementsDynamicRrf`), the `expect` of the source selection never fires (`SomeSourceToAdvance`), no source starves (`BoundedWait`), every call returns (`CallsReturn`). | Three sources, the fewest for which two can become overdue together while a third is served. Scores are rounded down, so ranks tie and identity decides. Two calls, a pause target, a drain budget and a fairness window that are all reached. |
| `exact_streams` | 2.8 million | Each of the four streams implements `ExactStream` (`ImplementsExactStream`); the bound of an offset range covers its documents (`EnvelopeIsAdmissible`). | Three vectors or documents per Segment with all scores and all intervals (also ones that miss the score), two terms, one with negative stored weights; two Segments with up to two points: agreeing and conflicting copies, wrong order, non-finite scores; two Shards with up to two of three points. Results are asked for one or two at a time, so that a call ends inside a tie. |
| `lifecycle` | 1.3 million | No write is lost or revived (`LastWriteIsKept`), reads never go back (`ReadsNeverGoBack`), a pinned generation is fixed (`PinnedGenerationIsFixed`), no Segment has two optimizers (`ProxiesAreOwned`), updates always find a Segment (`AlwaysAppendable`), one value per point without deferral (`OneVersionUnlessDeferred`). | One point, because updates of different points do not interact; another that is never written (`Others`) fills the Segments, because offsets decide what is deferred. Two optimizers, three operations, five Segments, a session; thresholds 1 (everything but the first offset is deferred) and 9 (nothing is). |
| `locks` | 89 thousand | Threads wait in a circle only for one of two named reasons (`CirclesHaveACause`), nothing changes under a pin (`PinExcludesChange`), no slot is lost (`SlotsAreConserved`), every request and every update ends unless a circle stays (`RequestsEnd`, `UpdatesEnd`). | Two requests over two Shards in opposite orders, so that the circle happens; an update worker per Shard, one optimizer on the second, one slot per runtime, so that each request can be refused. |
| `queue` | 905 thousand | The queue keeps the order of the log (`QueueInLogOrder`), what was reported as completed is kept (`CompletedIsKept`), no update disappears (`EveryUpdateIsAccountedFor`), a failed update stays in the log (`FailedIsRetained`); loading ends (`LoadEnds`) and clients are answered (`AnswersCome`). | Two clients and two points; a new log that takes two updates, or a log of five records of which two are applied, so that part of it is replayed and part queued; a queue of two with one place in RAM; one fault: crash, power loss, failing update or truncation. |
| `recovery` | 2.5 million | A replica that is active holds every confirmed update (`ActiveReplicasAreComplete`); a recovery point claims no confirmed update that is missing (`RecoveryPointsAreBacked`); both with the exceptions below. | A coordinator and two replicas, three updates (one that takes a replica out, one that the replica misses, one that moves its clock past it), five proposals, a lost message, a restart that leaves at most one record to the queue (`QueuedTail`). |
| `recovery_liveness` | 390 thousand | Every update is settled (`UpdatesAreSettled`); a dead replica becomes active (`DeadReplicasRecover`). | Two replicas, one of them the coordinator, two updates with up to three attempts, six proposals (enough for a recovery after one that fails), a lost message, a lost report, a restart. When the proposals are used up nothing more is claimed. |
| `flush` | 2.5 million | Ten properties of five storage layers, see below. | Each layer has its own bounds, see below. |
| `authority_deferred` | | violated: `OneAuthoritativeValue` | one optimizer, threshold 1 |
| `locks_optimizers` | | violated: `NoCircularWait` | two optimizers on one Shard |
| `flush_publish` | | violated: `MovedPointStaysOnDisk` | one point, one optimization |
| `recovery_gap` | | violated: `ClaimedIsHeld` | three updates, two lost messages |

The layers of `flush`:

| layer | properties | bounds |
|---|---|---|
| `FlushRecovery` | `UpdatesSurviveCrashes` | two points in an indexed Segment beside an empty appendable one, three operations (the first is on disk), one optimization, two crashes, five events |
| `SerdeWal` | `LogShowsWhatWasWritten`, `StorageStaysUsable` | files of two records, so that three records roll over; an acknowledgement, a truncation, a kill, a power loss; a new log, one restored from a snapshot, one with a full file |
| `ConsensusLog` | `ConsensusLogIsTrue`, `EntriesAreAppliedInOrder`, `StorageStaysUsable` | four indices, batches of two, compaction after one entry; a crash between any two steps |
| `Gridstore` | `LatestValueIsRead`, `FlushedValuesSurvive`, `BlocksAreAccountedFor`, `StorageStaysUsable` | two offsets, values of one and three blocks, pages of two blocks, three puts, one fault; a power loss takes any part of the growth of the four files that was not synced |
| `SegmentFiles` | `LoadedSegmentIsWhole`, `IdTrackerIsConsistent` | two flushed points, four changes, two faults |

Larger instances were explored once, without a violation: `SegmentLifecycle` with
four operations 4.0 million states; `FlushRecovery` with four operations 4.7 million,
one point and five operations 3.1 million;
`ReplicaRecovery` with a lost report beside the restart 5.0 million, with fairness, a
lost report and a record left to the queue 735 thousand; `UpdateQueue` with two faults 4.8 million, with three faults
13.8 million;
`SerdeWal` with five records 415 thousand; `ConsensusLog` with five indices
2.3 million; `SegmentFiles` with five changes 868 thousand.

Deadlock is checked in `session` and `exact_streams`, where a closed stream or a
finished session stutters explicitly. The other systems may really stop, when the
bounds are used up, and are run with `CHECK_DEADLOCK FALSE`; what must not stop there
is stated as `CirclesHaveACause` and as the liveness properties.

Symmetry is used in `lifecycle`, `authority_deferred`, `flush` and `recovery`, for points,
optimizers, sessions and replicas, which these modules only compare for equality. Those runs
check no liveness. Point identities of the ranking modules are ordered, so no
symmetry is used there.

Each module has a type invariant. Those that a proof needs are proved, or are part of
the invariant of a proof; none is listed among the properties of a run.

### Fairness

* `DynamicRrfSession`: weak fairness of the loop's steps. The caller's thread runs a
  call to its end; nobody has to make another call.
* `ExactRequestLocks`: strong fairness of each thread's steps once it wants a lock.
  The tokio lock is first come first served; parking_lot hands a contended lock over
  fairly from time to time. No fairness for starting work, timing out or dropping a
  request.
* `UpdateQueue`: weak fairness of the load, of a client that has begun, of the update
  worker, the flush worker, the recovery of failed updates and a truncation that has
  begun. None for new updates and none for faults.
* `ReplicaRecovery`: weak fairness of applying the consensus log, of a coordinator
  with an update in hand, of the delivery of messages that are not lost, of the tasks
  that report failures, request transfers and drive them, and of the end of a transfer
  for which no delta can be found. The wait for consensus ends because it has a
  timeout. None for new updates, losses or restarts.

### What the violated runs show

* `authority_deferred`. An update of a deferred point whose Segment is under
  optimization can leave the older visible copy beside a new visible one, so a frozen
  generation has two values for one identity, against
  `docs/spectra/plan/exact-shard-merge-v1.md`. `OneVersionUnlessDeferred` of `lifecycle`
  says that nothing but deferral causes this.
* `locks_optimizers`. A publication takes the holder's upgradable lock and then the
  generation barrier, a roll-back takes the barrier and then the holder's write lock.
  Two optimizer tasks of one Shard can block each other.
* `flush_publish`. The flush dependency of a move names the Segment the point came
  from. An optimizer that replaces this Segment removes its files without waiting for
  the target of the move to be flushed, and its output has no dependency. A point
  moved out of it shortly before or during the optimization can be on disk nowhere; if
  the process dies then, the replayed payload operation does not find it. Shortest
  trace: `Update` (set payload), `StartOptimization`, `Build`, `Publish`, `DropData`.
* `recovery_gap`. A coordinator that still sees a recovered replica as Partial loses its
  request to it. It disables the replica, but does not wait for its deactivation,
  because a Partial replica is no source of truth, and answers the client. When it then
  applies the end of the transfer it enables the replica again, and its next update
  moves the replica's clock past the tick that is missing. The recovery point then
  claims it, against the comment of `ClockMap::to_recovery_point`.
  The updates that the end of a transfer outran (see below) are left out of the
  property, so that the trace shows this cause and not that one.

### Exceptions

Where the code keeps no promise in a named situation, the property excepts exactly
that situation, through a history variable. The traces are TLC's.

`ReadsNeverGoBack`: an optimizer builds an appendable output when the vectors of its
inputs, in bytes, are below the indexing threshold and no input has deferred points. The
offset from which points are deferred is the same threshold divided by an assumed size of
a vector, so an output with many small multivectors has more points than that, and those
behind the offset are deferred, which no input was, when it is published.

`ImplementsExactStream`: for sparse Segments the promise (`Promised`) is limited to
documents with a positive score. `plan_batches` drops a range whose bound is zero, and
documents with a negative or zero score may or may not come after the others.

`ActiveReplicasAreComplete` and `RecoveryPointsAreBacked`:

| name | what happens |
|---|---|
| `doubted` | the replica failed an update while it was in transfer (`recovery_gap`), or a coordinator restarted and forgot which replicas it had doubts about |
| `outrun` | `await_consensus_sync` of `shards/mod.rs` logs a failure or a timeout and goes on, and waits for peers, not for their requests. A request on its way to the source that the receiver has refused, or that a late peer sends to the source alone, can arrive when the forward proxy is gone. The client is answered, the receiver is active and has not got it, and its next update moves its clock past it. The comment of `transfer_shard` (`driver.rs`) says "A lagging peer must not still have the target shard in dead/recovery state. Only then can we destruct the forward proxy." |
| `unclocked` | `load_from_wal` advances the clocks for the records it replays and not for those it leaves to the queue. Until the next update of that clock the source is behind its own log, `resolve_wal_delta` finds nothing to send, and the receiver becomes active without those records |

`UpdatesSurviveCrashes`, the points in `uncovered`: the situation of `flush_publish`;
a circular flush topology (it needs two optimizations: `Points = {p1}`, `MaxOp = 3`,
`MaxId = 4`); a crash while replaced Segments or a cancelled output are still to be
removed from disk (a comment in `optimize.rs` says of the cancelled output that its
removal is not crash safe).

`LogShowsWhatWasWritten`, `flaws` and `inherited`:

| name | what happens | trace |
|---|---|---|
| `torn` | a truncation or retirement is interrupted between two deletions | `Write`, `Write`, `CreateNext`, `Write`, `Kill`, `Reopen` |
| `unforced` | the power is lost before a closed file is forced to disk | `Write`, `Write`, `CreateNext`, `Write`, `Proceed`, `PowerLoss`, `Reopen` |
| `revived` | the zeros of a truncation are lost, the record is back | `Write`, `FlushLog`, `LogIsForced`, `DropFrom`, `Proceed`, `PowerLoss`, `Reopen` |
| `ahead` | the log is acknowledged beyond what was flushed of it | `Write`, `Write`, `AckLog`, `PowerLoss`, `Reopen`, `Write` |
| `restarted` | a truncation takes all closed files, numbers begin at 0 | `DropFrom`, `Proceed`, `Proceed`, `Write` |
| `inherited` | records left by a kill are covered by no later flush | `Write`, `Kill`, `Reopen`, `Write`, `FlushLog`, `LogIsForced`, `PowerLoss`, `Reopen` |

`LoadedSegmentIsWhole`, the points in `forgotten`: `load_mappings` reads a tail that was
never forced to disk, and nothing forces it later. After a kill, an acknowledgement and
a power loss a deleted point comes back. `append_only_mutations`, which only debug
builds set, is not modelled: there `read_mappings` leaves the old slot of a point
that is inserted again.

`StorageStaysUsable` and `BlocksAreAccountedFor`, for `Gridstore`: after a crash right
after a new page file was made, `open` fails (`PutValue`, `CreatePage`, `Kill`, `Open`).
`create_and_ensure_length` syncs nothing: a power loss before the next flush can take the
growth of the bitmask or the gaps and leave the page, or the other way round; `open` then
fails, or a put reads the mask out of its range (`shrunk`). After a crash between the
bitmask and the gaps the `expect("New page has just been created")` can fire. Blocks leak
(`leaked`) after a crash, after a failed flush, and, without either, when a flushed value
is replaced and then deleted before the next flush.

`CompletedIsKept`: records whose number a truncation or a power loss had freed (`cut`).
`EveryUpdateIsAccountedFor`: updates that failed at least once (`troubled`), because the
retry counts as done although points with a newer version keep missing it. The Segment of
a failing update is one point's: a write that reaches one of several Segments of an
update and not another is not in the instance.

`CompletedIsKept`, `EveryUpdateIsAccountedFor` and `FailedIsRetained`, `outrun`: at a
start `op_num_upper_bound` of `applied_seq.rs` decides how much of the log is replayed at
once and how much is queued. The file it comes from counts neither replayed nor declined
nor failed updates, and its interval begins again at each start, so after several stops it
can be behind by more than one interval. Records that were applied, and are on disk, are
then queued again. A flush before the queue is drained confirms the newest version of the
Segments, the log is acknowledged past records that are still queued, and the next crash
loses them. `outrun` records the first start that queues an applied record; from there on
only `QueueInLogOrder` is claimed.

`ConsensusLogIsTrue` and `StorageStaysUsable`, `uncleared`: `ConsensusManager::new` clears
the log only if its last entry is before the snapshot. A crash in `apply_snapshot` between
the saved state and the cleared log can leave a log that reaches the snapshot. The peer
starts with it; entries below the snapshot may be those of a deposed leader, and an error
of the storage is not excluded. Entries may be applied again after a crash, which the
collections must tolerate.

## 4. Proofs

TLAPS checks the following for every value of the constants that satisfies the named
assumptions of the modules.

| theorem | states | module |
|---|---|---|
| `TypeCorrect` | `Spec => []TypeOK` | `DynamicRrf_proofs` |
| `ObservationSoundness` | `Spec => []ObservationsAreTruthful` | |
| `CertificationSoundness` | `Spec => []AnswersAreExact` | |
| `PrefixConsistency` | `Spec => []AnswersAreNested` | |
| `SessionImplementsDynamicRrf` | `SessionSpec => ImplementsDynamicRrf` | |
| `SessionAnswersAreExact` | `SessionSpec => []AnswersAreExact` | |
| `SelectionIsDefined` | `SessionSpec => []SomeSourceToAdvance` | |
| `SegmentsAreOwned` | `Spec => [](TypeOK /\ ProxiesAreOwned /\ AlwaysAppendable)` | `SegmentStructure_proofs` |
| `PinnedGenerationsAreFixed` | `Spec => []PinnedGenerationIsFixed` | |
| `NoWriteIsLost` | `Spec => []LastWriteIsKept` | `SegmentLifecycle_proofs` |
| `PinsExcludeChanges` | `Spec => [](TypeOK /\ PinExcludesChange)` | `ExactRequestLocks_proofs` |
| `SlotsAddUp` | `Spec => []SlotsAreConserved` | |
| `NobodyWaitsInACircleWithoutCause` | `Spec => []CirclesHaveACause` | |
| `WorkerFollowsLog` | `Spec => []QueueInLogOrder` | `UpdateQueue_proofs` |
| `CompletedUpdatesAreKept` | `Spec => []CompletedIsKept` | |
| `UpdatesAreAccountedFor` | `Spec => []EveryUpdateIsAccountedFor` | |
| `FailedUpdatesAreRetained` | `Spec => []FailedIsRetained` | |
| `ConsensusLogStaysTrue` | `RaftSpec => []ConsensusLogIsTrue` | `ConsensusLog_proofs` |
| `EntriesStayInOrder` | `RaftSpec => []EntriesAreAppliedInOrder` | |
| `ConsensusNeverFails` | `RaftSpec => []ConsensusGoesOn` | |

`LockSteps_proofs` and `UpdateQueueSteps_proofs` hold the invariants and the lemmas of
the modules that extend them. A leaf names the prover that finds it where that is Zenon:
most steps need no arithmetic, and Zenon is much faster there than the SMT translation.

### Fusion

The assumptions are those of `RrfScoring`: what a rank contributes does not grow with
the rank, and `Fuse` is monotone. `AnswersAreExact` is not inductive. It speaks of the
full rankings of the sources, while a step only sees the bounds, and `ReplaceSource`
changes the part of a ranking that has not been read. The inductive invariant is

    IInv == TypeOK /\ ObservationsAreTruthful /\ AnswersAreGuaranteed

where an answer is `Guaranteed` if its points have been observed, every place of it
is safe against every later place, every observed other point and the unseen points,
by lower and upper bounds, and an answer shorter than asked comes from exhausted
sources. The argument:

1. `ContributionBounds`, `BoundFacts`: what a point finally gets from a source lies
   between its two bounds, and `Fuse` keeps this order.
2. `GuaranteedIsExact`: truthful observations and a guaranteed answer imply the
   exhaustive Top-K.
3. `FixedIsGuaranteed`: what `fixed_top_k` and the complete order return is guaranteed
   in the state they are computed in.
4. `ObserveEffect`, `ObserveMonotone`: an accepted batch raises lower bounds and lowers
   upper bounds, so a guaranteed answer stays guaranteed.
5. `GuaranteedUnchanged`, `ReplaceIInv`: the guarantee does not look at what has not
   been read, so it survives the replacement of a source that replays its prefix.
6. `ExactIsNested`: two exact prefixes of one order agree.

For the session the invariant adds `KeptOrdersAreComplete`: a kept order is complete
and all sources are exhausted. With it `KeptIsCertified` shows that an answer from the
kept order is a certification of `DynamicRrf`; every other step of the session is
literally a step of `DynamicRrf` or a stutter. `SelectionIsDefined` needs `LoopInv` (in
the loop some source is eligible) and that the preference of the scheduler is a total
order on fractions that are compared by cross products (`PreferredIsTotalOrder`).

### Life cycle of Segments

For any finite set of points, any optimizers, sessions, thresholds and number of
operations. `StructureInv` strengthens the ownership properties by what a running task
has: inputs exactly while it runs, an output that is no proxy, and versions that do not
exceed the last operation. `PinnedGenerationIsFixed` follows with `PinInv`: the handles
of an open session are still in the holder, those that were proxies still are, and
they show what they showed.

`LastWriteIsKept` needs `DataInv`, which speaks of one point at a time:

* `CopyOK`: no copy is newer than the last write, and a proxy's record of a deletion is
  not older than the copy it hides;
* some Segment shows the last write, or none shows the point if it is deleted;
* `JobOK`: while an input of a task shows the last write, no input has a record that
  would delete it, and the output, once built, has it.

The publication is the hard step (`PublishedPoint`, `FinishKeepsData`): the deletions
that the task has read may be older than those recorded since, and the union over all
inputs decides.

### Locks

For any Shards, requests, workers and slots. `LocksInv` ties every lock to the control
point of its owner (`WorkerLocks`, `RequestLocks`, `RequestPins`), says where a writer
has seen the readers leave (`BarrierIsDrained`), and that exactly the waiting threads
stand in a queue, once each (`QueueInv`). `PinExcludesChange` follows. `SlotsAddUp`
adds where a request has no slot yet and counts the pairs of requests and slots.

`NobodyWaitsInACircleWithoutCause` has no hypothesis beyond the types of the constants
(`LocksAssumption`). A set of threads that wait for each other contains requests whose
clients list the Shards in contradicting orders (`~InOneOrder`; `select_shards` keeps the
order of the shard keys), or two optimizer tasks of one Shard of which one publishes and
one rolls back (`PublishMeetsRollback`). Both happen, in `locks` and in `locks_optimizers`.

The argument gives every thread that does not wait for an update lock a `Height`, and
`BlockersDescend` shows that who blocks it is lower unless the two optimizers meet, so the
lowest thread of a set is blocked by none of them. If all threads of the set wait for
update locks, `FirstOfLastShard` takes the last Shard in the common order that one of them
waits at, and there the first in the queue.

### Update queue

For any clients, points, queue size, log found at the start, and any number of crashes,
power losses, failing updates and truncations. The invariant is

    QueueInv == Frame /\ Bounded /\ (~outrun => Kept)

`Frame` holds at every moment: types; who holds the log's lock and what then rests
(`Locks`); ids are given out once (`Ids`); the worker's record and the queue are in the
order of the log (`Order`), and each number in them is that of a record or the one after
the last (`Queued`); numbers in Segments, flush and log are those of records in the log or
cut off it (`Numbers`); the disk is not newer than what the flush thread captured, and
that not newer than the memory (`Ages`). `WorkerFollowsLog` needs only this part.
`Bounded` says that the versions of the points have a bound, so that a largest one exists
for any set of points.

`Kept` is what makes the other three inductive:

* `Contents`: a copy in memory, captured or on disk has every record of its point up to
  its version, except one that failed and that nobody was told is completed;
* `Confirmed`: what is acknowledged, or about to be, is on disk, and a failed record
  is behind neither;
* `InTurn`: below every version in the Segments, below `overwrite` and below each failed
  record everything is applied or has failed; each record is applied, failed, queued, to
  be loaded, or just written;
* `Answered`: what was answered as completed is on disk in the log, is in the Segments,
  and everything queued is after it.

The step that a queue in order is not enough for is `FlushSegments`: it confirms the
largest version on disk and needs that nothing below is still queued, which is `InTurn`.
After a crash `InTurn` of the memory is gone, and `LoadStep` rebuilds it: what is not
replayed must not be older than a version on disk, which is what `outrun` excepts. That
the applied part of the log and the queued part meet is `ReplayToFacts` and `ReplayFacts`.
Lemmas like `AppliesKept` and `Shortened` say once what several actions do.

### Consensus log

For any number of entries, size of batches and compaction threshold. `ConsensusInv` is
the type invariant with

* `StateFits`: snapshot, applied, queued and committed index of the state file are in this
  order, and what is recorded as applied is in the collections;
* `LogFits`: the log begins at most one after what is applied, has everything that is
  committed and, flushed, everything that was acknowledged to the leader, and nothing
  else at those indices, except those of the snapshot once a log was left `uncleared`; or
  the log is `LeftOver`, a log from before the snapshot that the next start recognizes and
  clears, or `Uncleared`, one that reaches the snapshot and that the peer goes on with;
* `ReadyFits`: for each step of `process_ready` and `process_light_ready`, what of the
  batch is still to be stored and that it fits the log and the state file as they are.

A crash between any two steps leaves `StateFits` and `LogFits \/ LeftOver \/ Uncleared`,
whatever `ReadyFits` said. `ConsensusGoesOn` (part of `StorageStaysUsable`) follows because
every error of `append_entries`, `compact_wal` and the start contradicts one of the three
unless a log was left uncleared.

## 5. What is only model-checked

* Liveness under fairness (`CallsReturn`, `RequestsEnd`, `UpdatesEnd`, `LoadEnds`,
  `AnswersCome`, `UpdatesAreSettled`, `DeadReplicasRecover`): outside the prover.
* `ImplementsExactStream`, `EnvelopeIsAdmissible`: no proof
  yet, small instances only. For sparse Segments the sum of a score over the terms is
  recursive, and what it computes for every input needs induction over an operator,
  which the installed provers cannot do.
* `BoundedWait`, `OneVersionUnlessDeferred`, `ReadsNeverGoBack`, the properties of
  `recovery`, and those of `FlushRecovery`, `SerdeWal`, `Gridstore` and `SegmentFiles` in
  `flush`: no proof yet, small instances only.

## 6. Running

    tlc -workers 2 -config DynamicRrfSession.cfg MCDynamicRrfSession
    tlapm ConsensusLog_proofs.tla

The configuration and the module of every run are in `PROJECT.json`. The longest runs,
`session`, `queue` and `flush`, take about three minutes with two workers, the others
less. A module of proofs takes between two and six minutes.
