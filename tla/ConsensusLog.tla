---------------------------- MODULE ConsensusLog ----------------------------
(***************************************************************************)
(* What a peer keeps of the Raft consensus: the log (ConsensusOpWal), the  *)
(* state file (Persistent) and the collections metadata the entries are    *)
(* applied to, driven by the Ready records of the raft library             *)
(* (process_ready, process_light_ready), with a crash between any two      *)
(* steps.                                                                  *)
(*                                                                         *)
(* The library and the other peers are external: a Ready carries any       *)
(* snapshot, entries and commit index that Raft allows.  An entry is what  *)
(* the cluster will have committed at its index, or a stray one of a       *)
(* deposed leader.  Terms and votes are left to the library.  The log      *)
(* behaves as SerdeWal shows of its files outside of the flaws named       *)
(* there.                                                                  *)
(***************************************************************************)
EXTENDS Integers, Sequences, FiniteSetsExt

CONSTANTS MaxIndex,        \* bound: Raft indices
          MaxBatch,        \* bound: entries in one Ready
          CompactEntries   \* compact_wal_entries

ASSUME RaftAssumption == {MaxIndex, MaxBatch, CompactEntries} \subseteq Nat

VARIABLES peer,        \* "up", "stopped", "down", or "failed": it cannot go on
          stage,       \* where on_ready is
          ready,       \* the Ready in work: what is left of it
          raft_log,    \* Wal: its first index, its entries, how many are flushed
          compacted,   \* compacted_until_raft_index
          persistent,  \* the state file: commit, snapshot index, apply queue
          raft_applied,\* raft: entries up to here were handed out for applying
          toc,         \* the collections metadata shows the entries up to here
          fresh,       \* no Ready was processed since the start
          sent,        \* history: index -> entry, as acknowledged to the leader
          uncleared    \* history: a crash left a log that reaches the
                       \* snapshot it should have been cleared for

raft_vars == <<peer, stage, ready, raft_log, compacted, persistent, raft_applied,
               toc, fresh, sent, uncleared>>

RaftIndices == 1 .. MaxIndex
Entry(i, stray) == [index |-> i, stray |-> stray]
Entries == [index : RaftIndices, stray : BOOLEAN]

EmptyLog == [first |-> 0, entries |-> <<>>, flushed |-> 0]
NoOffset == -1
NoReady == [snapshot |-> 0, entries |-> <<>>, offset |-> NoOffset, commit |-> 0,
            apply_to |-> 0, part |-> "none"]

-----------------------------------------------------------------------------
(* ConsensusOpWal.  Wal indices begin at 0 again whenever the log is       *)
(* emptied; entries carry their Raft index.                                *)

\* index_offset_impl, for a log that is not empty
Offset == Head(raft_log.entries).index - raft_log.first
WalLastIndex == raft_log.first + Max({Len(raft_log.entries) - 1, 0})

\* Wal::entry, as a sequence of at most one entry
WalEntry(w) ==
    LET n == w - raft_log.first + 1
    IN  IF n \in DOMAIN raft_log.entries THEN <<raft_log.entries[n]>> ELSE <<>>

\* entry
EntryOf(i) ==
    IF i < 1 \/ i < compacted \/ raft_log.entries = <<>> THEN <<>>
    ELSE IF i < Offset THEN <<>> ELSE WalEntry(i - Offset)

FirstEntry ==
    LET head == WalEntry(raft_log.first)
    IN  IF head = <<>> \/ head[1].index >= compacted THEN head
        ELSE IF compacted < Offset THEN <<>> ELSE WalEntry(compacted - Offset)

LastEntry ==
    LET last == WalEntry(WalLastIndex)
    IN  IF last # <<>> /\ last[1].index < compacted THEN <<>> ELSE last

\* Wal::truncate
CutLog(log, w) ==
    LET n == Max({w - log.first, 0})
    IN  IF n = 0 THEN EmptyLog
        ELSE [log EXCEPT !.entries = SubSeq(@, 1, n), !.flushed = Min({@, n})]

\* Wal::prefix_truncate removes whole files, so any part of the prefix.
CutPrefix(log, w) ==
    {[first |-> log.first + n, entries |-> SubSeq(log.entries, n + 1, Len(log.entries)),
      flushed |-> Max({log.flushed - n, 0})] : n \in 0 .. w - log.first}

-----------------------------------------------------------------------------
(* ConsensusManager as the library's Storage, and the apply queue.         *)

StorageFirst == IF FirstEntry # <<>> THEN FirstEntry[1].index
                ELSE persistent.snapshot + 1
StorageLast == IF LastEntry # <<>> THEN LastEntry[1].index ELSE persistent.snapshot

\* EntryApplyProgressQueue: empty, or the next and the last entry to apply.
LastApplied == IF persistent.queue = <<>> THEN 0 ELSE persistent.queue[1] - 1
Unapplied == persistent.queue # <<>> /\ persistent.queue[1] <= persistent.queue[2]

-----------------------------------------------------------------------------
\* A peer that is about to join: nothing logged, nothing applied.
RaftInit ==
    /\ peer = "up" /\ stage = "idle" /\ ready = NoReady
    /\ raft_log = EmptyLog /\ compacted = 0
    /\ persistent = [commit |-> 0, snapshot |-> 0, queue |-> <<>>]
    /\ raft_applied = 0 /\ toc = 0 /\ fresh = TRUE
    /\ sent = <<>> /\ uncleared = FALSE

At(where) == peer = "up" /\ stage = where

\* The log as the library sees it with new entries in front of it.
With(entries, i) ==
    IF entries # <<>> /\ i >= entries[1].index
    THEN entries[i - entries[1].index + 1]
    ELSE EntryOf(i)[1]

\* How far the cluster may have committed what this peer has.
Committable(commit, last, entries) ==
    {c \in commit .. last : \A i \in commit + 1 .. c : ~With(entries, i).stray}

\* RawNode::ready.  Entries begin after what is committed and at most one past
\* the end; an entry the cluster commits is only accepted after such a one.
\* Committed entries are handed out for applying once they are persisted.
Ready ==
    /\ At("idle")
    /\ \E snapshot \in {0} \cup Max({persistent.commit, 1}) .. MaxIndex :
         LET commit == Max({persistent.commit, snapshot})
             end == IF snapshot > 0 THEN snapshot ELSE StorageLast
         IN  \E from \in commit + 1 .. end + 1, size \in 0 .. MaxBatch,
                good \in 0 .. MaxBatch :
               LET entries == [k \in 1 .. size |-> Entry(from + k - 1, k > good)]
                   last == IF size > 0 THEN from + size - 1 ELSE end
               IN  /\ good <= size /\ last <= MaxIndex
                   /\ size = 0 => from = commit + 1
                   /\ good > 0 /\ from > commit + 1 => ~EntryOf(from - 1)[1].stray
                   /\ \E c \in Committable(commit, last, entries) :
                        ready' = [NoReady EXCEPT
                            !.snapshot = snapshot, !.entries = entries,
                            !.commit = c, !.part = "ready",
                            !.apply_to = IF snapshot > 0 THEN 0
                                         ELSE IF size > 0 THEN Min({c, from - 1})
                                         ELSE c]
                   /\ sent' = Restrict(sent, {i \in DOMAIN sent :
                                  snapshot = 0 /\ (size > 0 => i < from)})
    /\ stage' = "snapshot"
    /\ UNCHANGED <<peer, raft_log, compacted, persistent, raft_applied, toc, fresh,
                   uncleared>>

-----------------------------------------------------------------------------
(* process_ready: the snapshot.                                            *)

ApplySnapshot ==
    /\ At("snapshot")
    /\ \/ /\ ready.snapshot = 0
          /\ stage' = "append"
          /\ UNCHANGED toc
       \/ /\ ready.snapshot > 0
          /\ toc' = ready.snapshot
          /\ stage' = "save"
    /\ UNCHANGED <<peer, ready, raft_log, compacted, persistent, raft_applied, fresh,
                   sent, uncleared>>

\* update_from_snapshot
SaveSnapshot ==
    /\ At("save")
    /\ persistent' = [commit |-> ready.snapshot, snapshot |-> ready.snapshot,
                      queue |-> <<ready.snapshot + 1, ready.snapshot>>]
    /\ raft_applied' = ready.snapshot
    /\ stage' = "clear"
    /\ UNCHANGED <<peer, ready, raft_log, compacted, toc, fresh, sent, uncleared>>

\* Mutant: entries older than the snapshot stay in the log.
KeepLog ==
    /\ At("clear")
    /\ stage' = "append"
    /\ UNCHANGED <<peer, ready, raft_log, compacted, persistent, raft_applied, toc,
                   fresh, sent, uncleared>>

ClearLog ==
    /\ At("clear")
    /\ raft_log' = EmptyLog
    /\ stage' = "append"
    /\ UNCHANGED <<peer, ready, compacted, persistent, raft_applied, toc, fresh, sent,
                   uncleared>>

-----------------------------------------------------------------------------
(* process_ready: the entries.  The offset is taken once for all of them.  *)

BatchOffset == IF ready.offset # NoOffset THEN ready.offset
               ELSE IF raft_log.entries = <<>> THEN NoOffset ELSE Offset
NewEntry == Head(ready.entries)
NewWalIndex == NewEntry.index - BatchOffset

Rejected ==
    \/ NewEntry.index < compacted
    \/ /\ BatchOffset # NoOffset
       /\ NewWalIndex < 0 \/ NewWalIndex > WalLastIndex + 1

StoreEntry ==
    /\ raft_log' = [raft_log EXCEPT !.entries = Append(@, NewEntry)]
    /\ ready' = [ready EXCEPT
          !.entries = Tail(@),
          !.offset = IF BatchOffset # NoOffset THEN BatchOffset
                     ELSE NewEntry.index - raft_log.first]
    /\ stage' = "append"

AppendEntry ==
    /\ At("append") /\ ready.entries # <<>>
    /\ \/ /\ Rejected
          /\ peer' = "failed"
          /\ UNCHANGED <<raft_log, ready, stage>>
       \/ /\ ~Rejected
          /\ BatchOffset # NoOffset /\ NewWalIndex <= WalLastIndex
          /\ raft_log' = CutLog(raft_log, NewWalIndex)
          /\ ready' = [ready EXCEPT !.offset = BatchOffset]
          /\ stage' = "cut"
          /\ UNCHANGED peer
       \/ /\ ~Rejected
          /\ BatchOffset = NoOffset \/ NewWalIndex = WalLastIndex + 1
          /\ StoreEntry
          /\ UNCHANGED peer
    /\ UNCHANGED <<compacted, persistent, raft_applied, toc, fresh, sent, uncleared>>

AppendAfterCut ==
    /\ At("cut")
    /\ StoreEntry
    /\ UNCHANGED <<peer, compacted, persistent, raft_applied, toc, fresh, sent,
                   uncleared>>

\* Mutant: entries are not flushed before they are acknowledged.
SkipFlush ==
    /\ At("append") /\ ready.entries = <<>>
    /\ stage' = "hard_state"
    /\ UNCHANGED <<peer, ready, raft_log, compacted, persistent, raft_applied, toc,
                   fresh, sent, uncleared>>

FlushEntries ==
    /\ At("append") /\ ready.entries = <<>>
    /\ raft_log' = [raft_log EXCEPT !.flushed = Len(raft_log.entries)]
    /\ stage' = "hard_state"
    /\ UNCHANGED <<peer, ready, compacted, persistent, raft_applied, toc, fresh, sent,
                   uncleared>>

SetHardState ==
    /\ At("hard_state")
    /\ persistent' = [persistent EXCEPT !.commit = ready.commit]
    /\ stage' = "committed"
    /\ UNCHANGED <<peer, ready, raft_log, compacted, raft_applied, toc, fresh, sent,
                   uncleared>>

-----------------------------------------------------------------------------
(* Committed entries.  What waited for the entries to be persisted is sent *)
(* first.                                                                  *)

\* Mutant: entries committed by LightReady are not applied.
HandleReadyEntriesOnly ==
    /\ At("committed")
    /\ LET from == Max({raft_applied + 1, StorageFirst})
       IN  IF from <= ready.apply_to
           THEN /\ persistent' = [persistent EXCEPT !.queue = <<from, ready.apply_to>>]
                /\ raft_applied' = ready.apply_to
           ELSE UNCHANGED <<persistent, raft_applied>>
    /\ sent' = [i \in Max({persistent.snapshot + 1, StorageFirst}) .. StorageLast |->
                   IF i \in DOMAIN sent THEN sent[i] ELSE EntryOf(i)[1]]
    /\ stage' = "apply"
    /\ UNCHANGED <<peer, ready, raft_log, compacted, toc, fresh, uncleared>>

HandleCommittedEntries ==
    /\ At("committed")
    /\ LET from == Max({raft_applied + 1, StorageFirst})
           to == IF ready.part = "ready" THEN ready.apply_to ELSE ready.commit
       IN  IF from <= to
           THEN /\ persistent' = [persistent EXCEPT !.queue = <<from, to>>]
                /\ raft_applied' = to
           ELSE UNCHANGED <<persistent, raft_applied>>
    /\ sent' = [i \in Max({persistent.snapshot + 1, StorageFirst}) .. StorageLast |->
                   IF i \in DOMAIN sent THEN sent[i] ELSE EntryOf(i)[1]]
    /\ stage' = "apply"
    /\ UNCHANGED <<peer, ready, raft_log, compacted, toc, fresh, uncleared>>

\* apply_entries, one entry.  An error of the user counts as applied; after a
\* service error consensus stops.  An entry that removes this peer is not counted
\* as applied: consensus stops too, but at the start that answer is ignored.
ApplyEntry ==
    /\ At("apply") /\ Unapplied
    /\ LET i == persistent.queue[1]
           found == EntryOf(i) # <<>>
       IN  \/ /\ ~found
              /\ peer' = "failed"
              /\ UNCHANGED <<toc, stage>>
           \/ /\ found
              /\ toc' = Max({toc, i})
              /\ stage' = "applied"
              /\ UNCHANGED peer
           \/ /\ found
              /\ toc' \in {toc, Max({toc, i})}
              /\ peer' = "stopped"
              /\ UNCHANGED stage
           \/ /\ found /\ ready.part = "startup"
              /\ toc' = Max({toc, i})
              /\ stage' = "compact"
              /\ UNCHANGED peer
    /\ UNCHANGED <<ready, raft_log, compacted, persistent, raft_applied, fresh, sent,
                   uncleared>>

EntryApplied ==
    /\ At("applied")
    /\ persistent' = [persistent EXCEPT !.queue[1] = @ + 1]
    /\ stage' = "apply"
    /\ UNCHANGED <<peer, ready, raft_log, compacted, raft_applied, toc, fresh, sent,
                   uncleared>>

\* RawNode::advance and process_light_ready: persisted entries may now be
\* committed too.
LightReady ==
    /\ At("apply") /\ ~Unapplied /\ ready.part = "ready"
    /\ \E c \in Committable(ready.commit, StorageLast, <<>>) :
         /\ persistent' = [persistent EXCEPT !.commit = c]
         /\ ready' = [ready EXCEPT !.commit = c, !.part = "light"]
    /\ stage' = "committed"
    /\ UNCHANGED <<peer, raft_log, compacted, raft_applied, toc, fresh, sent,
                   uncleared>>

\* ConsensusOpWal::compact
Compact(until) ==
    \/ /\ until <= compacted
       /\ UNCHANGED <<raft_log, compacted>>
    \/ /\ until > compacted /\ until < Offset
       /\ compacted' = until
       /\ UNCHANGED raft_log
    \/ /\ until > compacted /\ until >= Offset
       /\ LET w == Min({until - Offset, WalLastIndex})
          IN  compacted' = w + Offset /\ raft_log' \in CutPrefix(raft_log, w)

\* compact_wal, at the end of on_ready and of the start.
CompactLog ==
    /\ At("compact") \/ (At("apply") /\ ~Unapplied /\ ready.part # "ready")
    /\ LET known == FirstEntry # <<>> /\ persistent.queue # <<>>
       IN  /\ IF known /\ LastApplied - FirstEntry[1].index >= CompactEntries
              THEN Compact(LastApplied) ELSE UNCHANGED <<raft_log, compacted>>
           /\ peer' = IF known /\ FirstEntry[1].index > LastApplied + 1
                      THEN "failed" ELSE peer
    /\ stage' = "idle" /\ ready' = NoReady
    /\ fresh' = (fresh /\ ready.part = "startup")
    /\ UNCHANGED <<persistent, raft_applied, toc, sent, uncleared>>

-----------------------------------------------------------------------------
(* Crash and restart.                                                      *)

\* What is left of the log: everything flushed and a part of the rest.  While
\* it is cleared, files go from both ends.
Surviving ==
    LET e == raft_log.entries
        part(a, b) == [first |-> raft_log.first + a - 1,
                       entries |-> SubSeq(e, a, b), flushed |-> b - a + 1]
    IN  IF stage = "clear"
        THEN {EmptyLog} \cup UNION {{part(a, b) : b \in a .. Len(e)} : a \in DOMAIN e}
        ELSE {part(1, n) : n \in raft_log.flushed .. Len(e)}

CrashPeer ==
    /\ peer \in {"up", "stopped"}
    /\ raft_log' \in Surviving
    /\ peer' = "down" /\ stage' = "idle" /\ ready' = NoReady /\ compacted' = 0
    /\ uncleared' = (\/ uncleared
                     \/ /\ stage = "clear" /\ raft_log'.entries # <<>>
                        /\ raft_log'.entries[Len(raft_log'.entries)].index >= persistent.snapshot)
    /\ UNCHANGED <<persistent, raft_applied, toc, fresh, sent>>

\* Mutant: a log left by a crash is used.
NeverNotCleared == FALSE

\* ConsensusManager::new: a log older than the snapshot was left by a crash.
NotCleared ==
    /\ persistent.commit = persistent.snapshot
    /\ LastEntry # <<>> /\ LastEntry[1].index < persistent.snapshot

\* Node::new panics on a state that does not fit the log.
NodeStarts ==
    /\ persistent.commit \in StorageFirst - 1 .. StorageLast
    /\ LastApplied > 0 => LastApplied \in StorageFirst - 1 .. persistent.commit

\* Mutant: the library is told that everything committed was applied.
RestartAtCommit ==
    /\ peer = "down"
    /\ raft_log' = IF NotCleared THEN EmptyLog ELSE raft_log
    /\ UNCHANGED <<compacted, persistent, toc, sent, uncleared>>
    /\ peer' = IF NodeStarts' THEN "up" ELSE "failed"
    /\ stage' = "apply"
    /\ ready' = [NoReady EXCEPT !.part = "startup"]
    /\ raft_applied' = persistent.commit
    /\ fresh' = TRUE

RestartPeer ==
    /\ peer = "down"
    /\ raft_log' = IF NotCleared THEN EmptyLog ELSE raft_log
    /\ UNCHANGED <<compacted, persistent, toc, sent, uncleared>>
    /\ peer' = IF NodeStarts' THEN "up" ELSE "failed"
    /\ stage' = "apply"
    /\ ready' = [NoReady EXCEPT !.part = "startup"]
    /\ raft_applied' = LastApplied
    /\ fresh' = TRUE

RaftNext ==
    \/ Ready
    \/ ApplySnapshot
    \/ SaveSnapshot
    \/ ClearLog
    \/ AppendEntry
    \/ AppendAfterCut
    \/ FlushEntries
    \/ SetHardState
    \/ HandleCommittedEntries
    \/ ApplyEntry
    \/ EntryApplied
    \/ LightReady
    \/ CompactLog
    \/ CrashPeer
    \/ RestartPeer

RaftSpec == RaftInit /\ [][RaftNext]_raft_vars

-----------------------------------------------------------------------------
(* Properties.                                                             *)

PeerStates == {"up", "stopped", "down", "failed"}

\* Types of ConsensusOpWal, Persistent and the Ready in work; what is flushed
\* is part of the log.
RaftTypeOK ==
    /\ peer \in PeerStates
    /\ raft_log.entries \in Seq(Entries) /\ raft_log.first \in 0 .. MaxIndex
    /\ raft_log.flushed \in 0 .. Len(raft_log.entries)
    /\ ready.entries \in Seq(Entries) /\ ready.commit \in 0 .. MaxIndex
    /\ {compacted, raft_applied, toc, persistent.commit, persistent.snapshot}
          \subseteq 0 .. MaxIndex
    /\ DOMAIN sent \subseteq RaftIndices
    /\ {fresh, uncleared} \subseteq BOOLEAN

\* The messages of take_persisted_messages promise the leader that entries are
\* on disk.  Every entry so acknowledged, and not overwritten or covered by a
\* snapshot since, is read from the log under its index, whatever was
\* truncated, compacted or lost in a crash meanwhile.
SentEntriesAreKept ==
    peer = "up" /\ stage # "clear" =>
        \A i \in DOMAIN sent : i >= StorageFirst => EntryOf(i) = <<sent[i]>>

\* What the log answers at a committed index is the entry the cluster
\* committed there: a peer that becomes leader after apply_snapshot, a
\* conflict truncation or a restart sends no stray entry as committed.  Excepted
\* are the indices a snapshot covers once a crash came before its log was cleared
\* and the log reached its index: ConsensusManager::new clears only a shorter one.
CommittedEntriesAreRead ==
    peer = "up" /\ stage # "clear" =>
        \A i \in StorageFirst .. persistent.commit :
            \/ EntryOf(i) = <<Entry(i, FALSE)>>
            \/ uncleared /\ i <= persistent.snapshot

\* The errors of append_entries ("all entries have to be sequential", "already
\* compacted"), a committed entry that cannot be read, the assertion of
\* compact_wal ("Raft WAL is missing unapplied entries") and a state file that
\* does not fit the log at the start never happen, unless a crash in
\* apply_snapshot left a log that reaches the index of the snapshot.
ConsensusGoesOn == peer = "failed" => uncleared

\* No committed entry is skipped: each is applied on a state that shows all
\* before it, and one counted as applied was applied ("so that applied index is
\* never bigger than commit" in process_ready).
AppliedInOrder ==
    /\ peer \in PeerStates => LastApplied <= toc /\ LastApplied <= persistent.commit
    /\ At("apply") /\ Unapplied => persistent.queue[1] <= toc + 1

\* Storage::snapshot names the commit index and carries the collections as they
\* are: whenever the library may ask for one, between two calls of on_ready,
\* everything committed is applied.
SnapshotIsWhole ==
    At("idle") /\ ~fresh => LastApplied = persistent.commit /\ toc >= persistent.commit

(* An entry that take_persisted_messages acknowledged to the leader, and that
   was not overwritten or covered by a snapshot since, is read from
   ConsensusOpWal under its index; and what it answers at a committed index is
   what the cluster committed there, so that a peer that becomes leader hands on
   no entry of a deposed one.  After a crash in apply_snapshot that left a log
   which reaches the index of the snapshot, only the latter is not claimed, and
   only of the indices the snapshot covers. *)
ConsensusLogIsTrue == SentEntriesAreKept /\ CommittedEntriesAreRead

(* No committed entry is skipped: each is applied to collections that show all
   before it, and one recorded by entry_applied was applied, "so that `applied`
   index is never bigger than `commit`" (process_ready).  Whenever a leader may
   be asked for Storage::snapshot, everything committed is applied. *)
EntriesAreAppliedInOrder == AppliedInOrder /\ SnapshotIsWhole
=============================================================================
