---------------------------- MODULE PeerStorage ----------------------------
(***************************************************************************)
(* What a peer keeps on disk, in five layers: the Segments of a Shard with *)
(* the log they are recovered from, the files of that log, the files of    *)
(* one Segment, the storage of its payloads, and the log and state of the  *)
(* Raft consensus.  Each builds on what another promises of its files: the *)
(* Shard on its log and its Segments, a Segment on its payload storage,    *)
(* the consensus on a log of the same kind.  A behaviour is a behaviour of *)
(* one layer; what belongs to the others stays at NoValue.                 *)
(***************************************************************************)
EXTENDS FlushRecovery, SerdeWal, ConsensusLog, Gridstore, SegmentFiles

CONSTANT NoValue

VARIABLE layer      \* "segments", "log", "raft", "grid" or "files"

storage_vars == <<layer, vars, log_vars, raft_vars, grid_vars, segment_vars>>

NoSegments ==
    /\ appendable = NoValue /\ wal = NoValue /\ first_index = NoValue
    /\ applied = NoValue /\ mem = NoValue /\ proxies = NoValue /\ disk = NoValue
    /\ flush_dependency = NoValue /\ flush = NoValue /\ overwrite = NoValue
    /\ job = NoValue /\ next_id = NoValue /\ phase = NoValue /\ crashes = NoValue
    /\ uncovered = NoValue

NoLog ==
    /\ files = NoValue /\ journal = NoValue /\ handle = NoValue /\ steps = NoValue
    /\ retired = NoValue /\ log_phase = NoValue /\ first = NoValue
    /\ ack_index = NoValue /\ syncing = NoValue /\ told = NoValue
    /\ dropped = NoValue /\ loose = NoValue /\ acked = NoValue
    /\ promised = NoValue /\ inherited = NoValue /\ at_risk = NoValue
    /\ flaws = NoValue /\ count = NoValue

NoRaft ==
    /\ peer = NoValue /\ stage = NoValue /\ ready = NoValue /\ raft_log = NoValue
    /\ compacted = NoValue /\ persistent = NoValue /\ raft_applied = NoValue
    /\ toc = NoValue /\ fresh = NoValue /\ sent = NoValue /\ uncleared = NoValue

NoGrid ==
    /\ store = NoValue /\ pages = NoValue /\ bits = NoValue /\ gaps = NoValue
    /\ blocks = NoValue /\ tracker = NoValue /\ synced = NoValue
    /\ pending = NoValue /\ put = NoValue
    /\ flusher = NoValue /\ value = NoValue /\ recent = NoValue
    /\ possible = NoValue /\ leaked = NoValue /\ damage = NoValue
    /\ puts = NoValue /\ faults = NoValue

NoFiles ==
    /\ segment = NoValue /\ mappings = NoValue /\ versions = NoValue
    /\ pending_mappings = NoValue /\ pending_versions = NoValue
    /\ mappings_file = NoValue /\ mappings_synced = NoValue
    /\ mappings_len = NoValue /\ versions_file = NoValue
    /\ versions_synced = NoValue /\ vectors = NoValue /\ payload = NoValue
    /\ pending_payload = NoValue /\ version = NoValue /\ saved = NoValue
    /\ segment_flusher = NoValue /\ ops = NoValue /\ next_op = NoValue
    /\ acked_to = NoValue /\ forgotten = NoValue /\ breaks = NoValue

StorageInit ==
    \/ layer = "segments" /\ Init /\ NoLog /\ NoRaft /\ NoGrid /\ NoFiles
    \/ layer = "log" /\ LogInit /\ NoSegments /\ NoRaft /\ NoGrid /\ NoFiles
    \/ layer = "raft" /\ RaftInit /\ NoSegments /\ NoLog /\ NoGrid /\ NoFiles
    \/ layer = "grid" /\ GridInit /\ NoSegments /\ NoLog /\ NoRaft /\ NoFiles
    \/ layer = "files" /\ SegmentInit /\ NoSegments /\ NoLog /\ NoRaft /\ NoGrid

StorageNext ==
    \/ /\ layer = "segments" /\ Next
       /\ UNCHANGED <<layer, log_vars, raft_vars, grid_vars, segment_vars>>
    \/ /\ layer = "log" /\ LogNext
       /\ UNCHANGED <<layer, vars, raft_vars, grid_vars, segment_vars>>
    \/ /\ layer = "raft" /\ RaftNext
       /\ UNCHANGED <<layer, vars, log_vars, grid_vars, segment_vars>>
    \/ /\ layer = "grid" /\ GridNext
       /\ UNCHANGED <<layer, vars, log_vars, raft_vars, segment_vars>>
    \/ /\ layer = "files" /\ SegmentNext
       /\ UNCHANGED <<layer, vars, log_vars, raft_vars, grid_vars>>

StorageSpec == StorageInit /\ [][StorageNext]_storage_vars

-----------------------------------------------------------------------------
\* Type invariant of whichever layer runs.
StorageTypeOK ==
    /\ layer = "segments" => TypeOK
    /\ layer = "log" => LogTypeOK
    /\ layer = "raft" => RaftTypeOK
    /\ layer = "grid" => GridTypeOK
    /\ layer = "files" => SegmentTypeOK

(* Whenever every logged operation is applied, at the latest after
   load_from_wal, the Shard shows of each point exactly what the operations
   made of it, in one Segment, whatever was flushed, acknowledged, built or
   half written when a crash came (UpdatesSurvive, with its exceptions). *)
UpdatesSurviveCrashes == layer = "segments" => UpdatesSurvive

(* A crash or a fault leaves a storage that can be used again:
   Wal::with_options can open the files of the log; the consensus thread never
   ends in an error of its storage (append_entries rejects no entry,
   apply_entries reads every committed one, compact_wal misses no unapplied
   one, the state file fits the log at a start); Gridstore::open finds the pages
   that the bitmask covers, and a put finds room after it made new pages.  The
   code does not keep this after: a crash within a truncation that deletes
   several files of the log, and a power loss that takes a file of it which no
   flush had covered (flaws); a crash in apply_snapshot between the saved state
   and the cleared log, when the log reaches the index of the snapshot
   (uncleared); a crash right after the file of a page was made, a power loss
   that takes the growth of one Gridstore file and not of another, and one that
   leaves gaps which do not fit the bitmask (damage).  These are excepted, each
   by what was happening when the crash came. *)
StorageStaysUsable ==
    /\ layer = "log" => LogOpens
    /\ layer = "raft" => ConsensusGoesOn
    /\ layer = "grid" => StorageOpens /\ PutFindsRoom

(* SerdeWal::read, from first_index, returns every record that is not
   acknowledged under the number write gave it (after a kill all of them, after
   a power loss all that the flush worker had flushed), and nothing else: no
   record that truncate_unapplied_wal dropped, none under another number. *)
LogShowsWhatWasWritten == layer = "log" => UnackedIsRead /\ ReadIsTold

(* Gridstore::get_value answers the last value put, or nothing after a delete,
   whatever the flusher has written, drained or freed meanwhile. *)
LatestValueIsRead == layer = "grid" => LatestIsRead

(* After a kill or a power loss at any point of a put or a flush, each offset
   has a whole value, which is the one of the last finished flush or a later
   one. *)
FlushedValuesSurvive == [][layer = "grid" => FlushedIsKept]_storage_vars

(* The blocks of every value that can be read now, or after a power loss, are
   marked as used, so that no put takes them: "the worst that should happen is
   that we mark more cells as used than they actually are" (put_value).  When
   all is flushed no others are, but those known to be leaked: by a crash, by a
   failed flush, or by write_pending, which does not return the pointer of a
   value that was replaced and then deleted. *)
BlocksAreAccountedFor == layer = "grid" => ValuesAreMarked /\ SpaceIsReclaimed

(* A Segment that was loaded after a crash at any point of an update, a flush, a
   repair or an earlier load shows of each point what the operations made of it
   (SegmentRecovers, with its exception). *)
LoadedSegmentIsWhole == layer = "files" => SegmentRecovers

(* Whatever part of a flush was lost, a scan over internal ids and a lookup by
   external id see the same points, MutableIdTracker::open finds no "more
   versions than internal point mappings", and "presence of version indicates
   that all other data is up-to-date" (Segment::flusher). *)
IdTrackerIsConsistent ==
    layer = "files" => OneSlotPerPoint /\ VersionsHaveMappings /\ VersionMeansFlushed
=============================================================================
