------------------------------ MODULE SerdeWal ------------------------------
(***************************************************************************)
(* The update log of a Shard (SerdeWal) over its files: writes, the flush  *)
(* worker, acknowledgements, truncation of unapplied updates, and what a   *)
(* kill or a power loss at any point leaves of them.                       *)
(*                                                                         *)
(* Every record is written once and differs from all others.  Five         *)
(* situations in which the code keeps no promise are named in flaws;       *)
(* nothing is claimed, and nothing further is done, once one has happened: *)
(*   torn       a truncation is interrupted, or undone by a power loss,    *)
(*              between two of its deletions; or the first file of a log   *)
(*              restored from a snapshot is retired, and the crash comes   *)
(*              after the file that holds the start number is deleted      *)
(*   unforced   the power is lost before a file that is no longer the last *)
(*              was forced to the disk: nobody waits for the thread that   *)
(*              does, and after a kill nobody does it                      *)
(*   revived    the power is lost while a truncated record can still be    *)
(*              read from the disk: truncation zeroes it in the cache, and *)
(*              no flush covers the zeros                                  *)
(*   ahead      the power is lost when Segments were already flushed, and  *)
(*              the log acknowledged, beyond what was flushed of the log   *)
(*   restarted  a truncation takes every closed file away, and numbers     *)
(*              begin again at 0                                           *)
(***************************************************************************)
EXTENDS WalFiles, Functions

CONSTANTS Beginnings,      \* how the log may be found: its first number, and
                           \* whether it holds a file of records
          RetainClosed,    \* wal_retain_closed
          MaxRecords,      \* bound: records written
          MaxAcks,         \* bound: acknowledgements
          MaxDrops,        \* bound: truncations
          MaxKills,        \* bound: kills of the process
          MaxPowerLosses   \* bound: power losses

VARIABLES log_phase,   \* "up", "killed", "off", or "failed" when it did not open
          first,       \* first_index: the logical begin of the log, or None
          ack_index,   \* the first-index file, or None
          syncing,     \* the flush worker waits for this range to be forced
          told,        \* history: number -> record, as writers were told
          dropped,     \* history: records truncated
          loose,       \* history: those of them that a crash may bring back
          acked,       \* history: greatest number acknowledged
          promised,    \* history: records below it were flushed
          inherited,   \* history: a kill left records no flush will cover
          at_risk,     \* history: names changed in a way a crash may tear
          flaws,       \* history: see above
          count        \* history: how often each of the bounded things happened

serde_own == <<log_phase, first, ack_index, syncing, told, dropped, loose, acked,
               promised, inherited, at_risk, flaws, count>>
log_vars == <<wal_vars, serde_own>>

None == -1
Gone == 0         \* a record of before the beginning
NoSync == [ino |-> 0, from |-> 0, to |-> 0, end |-> 0]
IncreasedRetention == 10 * RetainClosed      \* INCREASED_RETENTION_FACTOR

\* Numbers never get beyond these.
Indices == 0 .. Max({b.start : b \in Beginnings}) + SegmentSize + MaxRecords

LogInit ==
    /\ \E b \in Beginnings :
         LET records == IF b.full THEN [k \in Places |-> k] ELSE <<>>
         IN  /\ WalInit(b.start, records)
             /\ told = [i \in 0 .. b.start + Len(records) - 1 |->
                           IF i < b.start THEN Gone ELSE i - b.start + 1]
             /\ promised = b.start + Len(records)
             /\ acked = b.start - 1
    /\ log_phase = "up" /\ first = None /\ ack_index = None /\ syncing = NoSync
    /\ dropped = {} /\ loose = {}
    /\ inherited = FALSE /\ at_risk = FALSE /\ flaws = {}
    /\ count = [records |-> 0, acks |-> 0, drops |-> 0, kills |-> 0, losses |-> 0]

\* Calls hold the log's lock: one at a time, each to its end.
Idle == log_phase = "up" /\ steps = <<>> /\ flaws = {}

Counted(what) == count' = [count EXCEPT ![what] = @ + 1]

-----------------------------------------------------------------------------
FirstIndex == IF first = None THEN WalFirst ELSE first
NumEntries == WalEnd - WalFirst

\* len(false) and the range of read(first_index())
Unacknowledged == Max({NumEntries - Max({FirstIndex - WalFirst, 0}), 0})
ReadRange == FirstIndex .. FirstIndex + Unacknowledged - 1

\* Records found at the start have the numbers below.
NewRecord == SegmentSize + count.records + 1

\* write
Write ==
    /\ Idle /\ count.records < MaxRecords
    /\ AppendRecord(NewRecord)
    /\ told' = [i \in DOMAIN told \cup {WalEnd} |->
                   IF i = WalEnd THEN NewRecord ELSE told[i]]
    /\ at_risk' = (at_risk \/ (handle' # handle /\ LastClosedIsEmpty))
    /\ Counted("records")
    /\ UNCHANGED <<log_phase, first, ack_index, syncing, dropped, loose, acked,
                   promised, inherited, flaws>>

\* The flush worker: flush_async under the lock, the wait for it without.
FlushLog ==
    /\ Idle /\ syncing = NoSync
    /\ LET i == handle.open
           size == Len(files[i].log)
       IN  /\ files[i].flushed # size
           /\ syncing' = [ino |-> i, from |-> files[i].flushed, to |-> size,
                          end |-> WalEnd]
           /\ files' = [files EXCEPT ![i].flushed = size]
    /\ UNCHANGED <<journal, handle, steps, retired, log_phase, first, ack_index,
                   told, dropped, loose, acked, promised, inherited, at_risk, flaws,
                   count>>

LogIsForced ==
    /\ log_phase = "up" /\ syncing # NoSync
    /\ files' = [files EXCEPT ![syncing.ino].disk =
                    Forced(files[syncing.ino], syncing.from, syncing.to)]
    /\ promised' = IF ~inherited THEN Max({promised, syncing.end}) ELSE promised
    /\ syncing' = NoSync
    /\ UNCHANGED <<journal, handle, steps, retired, log_phase, first, ack_index,
                   told, dropped, loose, acked, inherited, at_risk, flaws, count>>

\* ack, called by the flush worker when the Segments are flushed.  The file
\* first-index is written after the deletions.  set_extended_retention and
\* set_normal_retention may have been called at any time before.
AckLog(until, retain) ==
    /\ Idle /\ syncing = NoSync /\ count.acks < MaxAcks
    /\ until \in WalFirst .. WalLast
    /\ LET n == PrefixCount(until, retain)
           low == IF first # None THEN first
                  ELSE IF n = 0 THEN WalFirst ELSE handle.closed[n + 1].start
           new == Min({Max({until, low}), WalLast})
           save == IF first = new THEN <<>> ELSE <<[do |-> "save", index |-> new]>>
       IN  /\ PrefixTruncate(n)
           /\ first' = new
           /\ Perform(files, Deletes(SubSeq(handle.closed, 1, n)) \o save)
           /\ ack_index' = IF n = 0 /\ first # new THEN new ELSE ack_index
    /\ acked' = Max({acked, until})
    /\ Counted("acks")
    /\ UNCHANGED <<retired, log_phase, syncing, told, dropped, loose, promised,
                   inherited, at_risk, flaws>>

\* truncate_unapplied_wal: drop_from and flush.  The flush worker is stopped.
DropFrom(from) ==
    /\ Idle /\ syncing = NoSync /\ count.drops < MaxDrops
    /\ from \in FirstIndex .. WalLast /\ from < WalEnd
    /\ LET plan == TruncatePlan(from)
       IN  /\ handle' = [handle EXCEPT !.closed = plan.closed]
           /\ Perform(files, plan.steps \o <<Flush(handle.open)>>)
           /\ at_risk' = (at_risk \/ plan.closed # handle.closed)
           /\ flaws' = IF plan.closed = <<>> /\ from > 0 /\ handle.closed # <<>>
                       THEN {"restarted"} ELSE {}
    /\ dropped' = dropped \cup {told[i] : i \in {j \in DOMAIN told : j >= from}}
    /\ told' = Restrict(told, {i \in DOMAIN told : i < from})
    /\ promised' = Min({promised, from})
    /\ Counted("drops")
    /\ UNCHANGED <<retired, log_phase, first, ack_index, syncing, loose,
                   acked, inherited>>

\* The rest of the call in progress.
Proceed ==
    /\ log_phase = "up" /\ steps # <<>>
    /\ Perform(files, steps)
    /\ ack_index' = IF Head(steps).do = "save" THEN Head(steps).index ELSE ack_index
    /\ UNCHANGED <<handle, retired, log_phase, first, syncing, told, dropped,
                   loose, acked, promised, inherited, at_risk, flaws, count>>

CreateNext ==
    /\ log_phase = "up" /\ flaws = {}
    /\ CreateSegment({retired.ino, syncing.ino})
    /\ at_risk' = (at_risk /\ steps # <<>>)
    /\ UNCHANGED <<log_phase, first, ack_index, syncing, told, dropped, loose, acked,
                   promised, inherited, flaws, count>>

ForceRetired ==
    log_phase = "up" /\ RetiredIsForced /\ UNCHANGED serde_own

-----------------------------------------------------------------------------
(* Crashes.  The record of a write that did not return was not told.       *)

\* A truncation ends with the flush of the open file.
Truncating == steps # <<>> /\ Last(steps).do = "flush"
Tearing ==
    \/ Truncating /\ \E k \in DOMAIN steps : steps[k].do = "delete"
    \/ steps # <<>> /\ Head(steps).do = "rename" /\ Last(steps).do = "append"

Unwritten == {steps[k].record : k \in {k \in DOMAIN steps : steps[k].do = "append"}}
Returned == Restrict(told, {i \in DOMAIN told : told[i] \notin Unwritten})

GoDown ==
    /\ steps' = <<>> /\ retired' = NoThread
    /\ syncing' = NoSync
    /\ loose' = IF Truncating THEN dropped ELSE loose
    /\ UNCHANGED <<handle, first, ack_index, dropped, acked>>

\* The process ends; the page cache stays.
Kill ==
    /\ log_phase = "up" /\ flaws = {} /\ count.kills < MaxKills
    /\ GoDown
    /\ log_phase' = "killed"
    /\ told' = Returned
    /\ flaws' = IF Tearing THEN {"torn"} ELSE {}
    /\ inherited' = (inherited \/ \E i \in Inodes : files[i].name # NoName
                                                   /\ ~IsForced(files[i]))
    /\ Counted("kills")
    /\ UNCHANGED <<files, journal, promised, at_risk>>

\* The directories a power loss may leave, and the files in them.
OldNames == Range(journal) \cup {Names(files)}
OnDisk == {i \in Inodes : \E names \in OldNames : names[i] # NoName}

\* Some file other than the one with the newest record is not on disk.
Unforced ==
    \E i, j \in OnDisk :
        /\ ~IsForced(files[i]) /\ files[j].log # <<>>
        /\ Last(files[j].log) > Last(files[i].log)

Revivable ==
    \E i \in OnDisk : \E log \in Remains(files[i]) : ~IsPrefix(log, files[i].log)

\* The cache is lost, and so may be the last changes of names.
PowerLoss ==
    /\ log_phase \in {"up", "killed"} /\ flaws = {} /\ count.losses < MaxPowerLosses
    /\ GoDown
    /\ log_phase' = "off"
    /\ flaws' = (IF at_risk THEN {"torn"} ELSE {})
                \cup (IF Unforced THEN {"unforced"} ELSE {})
                \cup (IF Revivable THEN {"revived"} ELSE {})
                \cup (IF \E i \in DOMAIN told : i \in promised .. acked
                      THEN {"ahead"} ELSE {})
    /\ journal' = <<>> /\ at_risk' = FALSE /\ inherited' = FALSE
    /\ told' = Returned
    /\ Counted("losses")
    /\ UNCHANGED promised
    /\ LET unsure == {i \in Inodes : Remains(files[i]) # {files[i].log}}
       IN  \E names \in OldNames,
              written \in [unsure -> SUBSET Places] :
             files' = [i \in Inodes |->
                LET log == IF i \in unsure THEN Left(files[i], written[i])
                           ELSE files[i].log
                IN  IF names[i] = NoName THEN Blank
                    ELSE [name |-> names[i], log |-> log,
                          disk |-> Chains(log), flushed |-> 0]]

\* SerdeWal::new.  What a power loss took without having been flushed is not
\* expected back.
Reopen ==
    /\ log_phase \in {"killed", "off"}
    /\ OpenDirectory
    /\ log_phase' = "up"
    /\ first' = IF ack_index = None THEN None
                ELSE Min({Max({ack_index, WalFirst'}), WalLast'})
    /\ told' = Restrict(told, {i \in DOMAIN told :
                   \/ log_phase = "killed" \/ i < promised \/ i < acked
                   \/ EntryAt(i)' = <<told[i]>>})
    /\ UNCHANGED <<ack_index, syncing, dropped, loose, acked, promised, inherited,
                   at_risk, flaws, count>>

ReopenFails ==
    /\ log_phase \in {"killed", "off"}
    /\ ~Contiguous(files, InNameOrder(files, "closed"))
    /\ log_phase' = "failed"
    /\ UNCHANGED <<wal_vars, first, ack_index, syncing, told, dropped, loose, acked,
                   promised, inherited, at_risk, flaws, count>>

LogNext ==
    \/ Write
    \/ FlushLog
    \/ LogIsForced
    \/ \E until \in Indices, retain \in {RetainClosed, IncreasedRetention} :
          AckLog(until, retain)
    \/ \E from \in Indices : DropFrom(from)
    \/ Proceed
    \/ CreateNext
    \/ ForceRetired
    \/ Kill
    \/ PowerLoss
    \/ Reopen
    \/ ReopenFails

LogSpec == LogInit /\ [][LogNext]_log_vars

-----------------------------------------------------------------------------
(* Properties.                                                             *)

\* Types of Wal, its files and SerdeWal; a flush offset within the file.
LogTypeOK ==
    /\ \A i \in Inodes : /\ files[i].log \in Seq(1 .. SegmentSize + MaxRecords)
                         /\ Len(files[i].log) <= SegmentSize
                         /\ files[i].flushed \in 0 .. Len(files[i].log)
    /\ handle.open \in Inodes /\ ToSet(handle.pending) \subseteq Inodes
    /\ log_phase \in {"up", "killed", "off", "failed"}
    /\ {first, ack_index, acked} \subseteq Indices \cup {None}
    /\ DOMAIN told \subseteq Indices /\ promised \in Indices

\* Wal::with_options: the closed files a crash leaves follow on each other, and
\* the log can be opened, unless one of the flaws came before.
LogOpens == log_phase = "failed" => flaws # {}

\* SerdeWal::read, from first_index: every record that is not acknowledged, and
\* was flushed before a power loss, is read under the number write returned.
UnackedIsRead ==
    Idle => \A i \in DOMAIN told : i > acked =>
                i \in ReadRange /\ EntryAt(i) = <<told[i]>>

\* SerdeWal::read shows nothing else: no record that was dropped or overwritten,
\* none under another number, except records of a truncation that a crash
\* interrupted.
ReadIsTold ==
    Idle => \A i \in ReadRange :
                \/ i \in DOMAIN told /\ EntryAt(i) = <<told[i]>>
                \/ ToSet(EntryAt(i)) \subseteq loose
=============================================================================
