----------------------------- MODULE UpdateQueue -----------------------------
(***************************************************************************)
(* The way of an update through a local Shard.  A client reserves a place  *)
(* in the update queue, writes its record to the write-ahead log and sends *)
(* the record's number to the update worker while it holds the log's lock. *)
(* The worker applies the records in turn, notes how far it came           *)
(* (AppliedSeqHandler) and answers.  A flush worker syncs the log, has the *)
(* Segments written in the background and acknowledges the log.  What      *)
(* failed for a passing reason is applied again by the optimization        *)
(* worker (try_recover).  After a crash the log is partly replayed, partly *)
(* queued again (load_from_wal); what waits in the queue can be cut off    *)
(* the log (truncate_unapplied_wal).                                       *)
(*                                                                         *)
(* Every point is in an appendable Segment of its own, so that one update  *)
(* can succeed in one Segment and fail in another.  A copy is the version  *)
(* of the point and the updates it shows.  Record numbers start at 1.      *)
(***************************************************************************)
EXTENDS Integers, Sequences, FiniteSetsExt

CONSTANTS Clients, NoClient,
          Points,
          Targets,      \* sets of points an update may touch; {} is refused, or a
                        \* filter no point matches
          QueueSize,    \* update_queue_size
          RamBuffer,    \* DEFAULT_UPDATE_QUEUE_RAM_BUFFER
          Interval,     \* APPLIED_SEQ_SAVE_INTERVAL
          Found,        \* logs to start from: how many records, how many of them
                        \* applied, and the bound on the updates that follow
          Faults,       \* among "crash", "power", "failure" and "truncate"
          MaxFaults     \* bound: how many of them

ASSUME QueueAssumption ==
    /\ NoClient \notin Clients /\ Clients \cap {"free", "load", "recover"} = {}
    /\ Targets \subseteq SUBSET Points
    /\ {QueueSize, RamBuffer, Interval, MaxFaults} \subseteq Nat
    /\ QueueSize > 0 /\ Interval > 0
    /\ \A f \in Found : f[1] \in Nat /\ f[2] \in 0 .. f[1] /\ f[3] \in Nat
    /\ Faults \subseteq {"crash", "power", "failure", "truncate"}

VARIABLES log,          \* every record written and not cut off
          first,        \* SerdeWal::first_index
          synced,       \* records known to be on disk
          wal_lock,     \* who holds the log's lock across steps
          queue,        \* the update channel
          client,
          worker,       \* the update worker
          mem, disk,    \* the Segments: in memory, and as a restart loads them
          capture,      \* the flush thread: what it still has to write
          overwrite,    \* max_persisted_segment_version_overwrite
          flusher,      \* the flush worker
          failed,       \* failed_operation
          error_status, \* per Segment: the record that failed, or 0
          recover,      \* try_recover: the record it is at
          applied_seq,
          mode,         \* "down", "loading" or "running"
          load_next,    \* load_from_wal: the next number to queue
          truncating,
          faults,
          left,         \* how many updates may still be written
          completed,    \* history: those a client was told are completed
          cut,          \* history: numbers of records cut off the log
          troubled,     \* history: those that failed at least once
          outrun        \* history: whether a start ever queued a record again that
                        \* was applied before (see Load)

vars == <<log, first, synced, wal_lock, queue, client, worker, mem, disk,
          capture, overwrite, flusher, failed, error_status, recover,
          applied_seq, mode, load_next, truncating, faults, left, completed,
          cut, troubled, outrun>>

logvars == <<log, first, synced>>
segvars == <<mem, disk, capture, overwrite, failed, error_status>>
history == <<left, completed, cut, troubled, outrun>>

Idle == [phase |-> "idle", ram |-> FALSE, id |-> 0]
NoItem == [num |-> 0, ram |-> FALSE, client |-> NoClient]
Resting == [stage |-> "idle", item |-> NoItem]
AtRest == [stage |-> "idle", confirmed |-> 0]
NoCapture == <<>>
NoErrors == [p \in Points |-> 0]
NoFile == 0

\* The number of the last record; that of an empty log is that of its first.
LastIndex(l) == Max({1, Len(l)})

-----------------------------------------------------------------------------
(* Applying one record.                                                    *)

\* An update is passed over where the point has its version or a higher one.
Ignores(G, n, p) == G[p].version >= n

\* One more fault of a kind.
Strike(kind) ==
    kind \in Faults /\ faults < MaxFaults /\ faults' = faults + 1

\* The Segments after the update touched some of its points.
Touch(G, n, id, done) ==
    [p \in Points |-> IF p \notin done \/ Ignores(G, n, p) THEN G[p]
                      ELSE [version |-> n, ops |-> G[p].ops \cup {id}]]

\* A Segment that failed refuses everything newer than what it failed on.
Blocked(n, p) == error_status[p] # 0 /\ error_status[p] < n

Written(n) == {p \in log[n].on : ~Ignores(mem, n, p)}

\* CollectionUpdater::update succeeds: the failures of the record are over.  What
\* hits no point raises the version that a flush may confirm.
Succeed(n) ==
    /\ \A p \in Written(n) : ~Blocked(n, p)
    /\ mem' = Touch(mem, n, log[n].id, log[n].on)
    /\ overwrite' = IF log[n].on = {} THEN Max({overwrite, n}) ELSE overwrite
    /\ failed' = failed \ {n}
    /\ error_status' = [p \in Points |-> IF p \in Written(n) THEN 0
                                         ELSE error_status[p]]

\* It fails at one Segment, having written some of the others.
Fail(n) ==
    \E bad \in Written(n) :
        /\ \/ /\ Blocked(n, bad)
              /\ UNCHANGED <<error_status, faults>>
           \/ /\ ~Blocked(n, bad) /\ Strike("failure")
              /\ error_status' = [error_status EXCEPT ![bad] = n]
        /\ \E done \in SUBSET {p \in Written(n) \ {bad} : ~Blocked(n, p)} :
              mem' = Touch(mem, n, log[n].id, done)
        /\ failed' = failed \cup {n}
        /\ troubled' = troubled \cup {log[n].id}
        /\ UNCHANGED overwrite

-----------------------------------------------------------------------------
(* A Shard found on disk.                                                  *)

\* Records 1 .. n, the first d of them in the Segments on disk and answered,
\* the applied_seq file missing or at most Interval behind.  How the Shard came
\* to stop with records in its log counts as a fault.
Init ==
    /\ \E f \in Found : LET n == f[1]  d == f[2] IN
        /\ log = [i \in 1 .. n |-> [id |-> -i, on |-> Points]]
        /\ disk = [p \in Points |-> [version |-> d, ops |-> -d .. -1]]
        /\ completed = -d .. -1
        /\ left = f[3] /\ synced = n
        /\ faults = IF n = 0 THEN 0 ELSE 1
        /\ \E s \in {NoFile} \cup {i \in 1 .. d : d <= i + Interval} :
              applied_seq = [mem |-> 0, file |-> s, count |-> 0]
    /\ first = 1 /\ mem = disk
    /\ wal_lock = "free" /\ queue = <<>>
    /\ client = [c \in Clients |-> Idle]
    /\ worker = Resting /\ flusher = AtRest /\ capture = NoCapture
    /\ overwrite = 0
    /\ failed = {} /\ error_status = NoErrors /\ recover = 0
    /\ mode = "down" /\ load_next = 0 /\ truncating = FALSE
    /\ cut = {} /\ troubled = {} /\ outrun = FALSE

\* Mutant: the last record before those that are queued is left out.
ReplayExclusive(G, from, to) ==
    LET new(p) == {n \in from .. to - 2 : p \in log[n].on /\ ~Ignores(G, n, p)}
    IN  [p \in Points |->
            IF new(p) = {} THEN G[p]
            ELSE [version |-> Max(new(p)),
                  ops |-> G[p].ops \cup {log[n].id : n \in new(p)}]]

\* Replaying records in their order on Segments that never failed: each point
\* takes those that touch it and are newer than what it has.
Replay(G, from, to) ==
    LET new(p) == {n \in from .. to - 1 : p \in log[n].on /\ ~Ignores(G, n, p)}
    IN  [p \in Points |->
            IF new(p) = {} THEN G[p]
            ELSE [version |-> Max(new(p)),
                  ops |-> G[p].ops \cup {log[n].id : n \in new(p)}]]

\* AppliedSeqHandler::load_or_init
LoadedSeq == IF applied_seq.file = NoFile THEN LastIndex(log)
             ELSE applied_seq.file

\* Mutant: everything that is not surely applied is queued.
ReplayToBound == Min({LoadedSeq + Interval + 1, Len(log) + 1})

\* Records from here on are queued, those before are replayed.
ReplayTo ==
    LET last == Len(log) + 1
        op_num_upper_bound == LoadedSeq + Interval + 1
    IN  Min({Max({op_num_upper_bound, last - (QueueSize - 1)}), last})

\* What is queued again although a client was told that it is completed, or a
\* Segment on disk is past it.
QueuedAgain ==
    {i \in ReplayTo .. Len(log) :
        \/ log[i].id \in completed
        \/ i \notin cut /\ \E p \in Points : disk[p].version > i}

\* LocalShard::load: the workers start, then the log is replayed and the
\* Segments are flushed under the log's lock.  A replay that a service error or a
\* lack of memory ends before that flush leaves the Shard down and its disk as it
\* was, which is no step; the next start replays from the same record.
Load ==
    /\ mode = "down"
    /\ mem' = Replay(disk, first, ReplayTo)
    /\ disk' = mem'
    /\ overwrite' \in {0} \cup {i \in first .. ReplayTo - 1 : log[i].on = {}}
    /\ outrun' = (outrun \/ QueuedAgain # {})
    /\ applied_seq' = [applied_seq EXCEPT !.mem = LoadedSeq, !.count = 0]
    /\ IF ReplayTo <= Len(log)
       THEN mode' = "loading" /\ load_next' = ReplayTo /\ wal_lock' = "load"
       ELSE mode' = "running" /\ UNCHANGED <<load_next, wal_lock>>
    /\ UNCHANGED <<log, first, synced, queue, client, worker, capture, flusher,
                   failed, error_status, recover, truncating, faults, left,
                   completed, cut, troubled>>

Reserved == {c \in Clients : client[c].phase \in {"reserved", "locked"}}
Pending == Len(queue) + Cardinality(Reserved)

\* load_from_wal queues one number after the other, and one past the last.
LoadPending ==
    /\ mode = "loading" /\ Pending < QueueSize
    /\ queue' = Append(queue, [num |-> load_next, ram |-> FALSE, client |-> NoClient])
    /\ IF load_next > Len(log)
       THEN mode' = "running" /\ load_next' = 0 /\ wal_lock' = "free"
       ELSE load_next' = load_next + 1 /\ UNCHANGED <<mode, wal_lock>>
    /\ UNCHANGED <<logvars, client, worker, segvars, flusher, recover,
                   applied_seq, truncating, faults, history>>

-----------------------------------------------------------------------------
(* Clients: submit_update and await_update_result.                         *)

\* The place in the queue.  The count that decides whether the operation stays
\* in memory is taken before a wait for the place.
Reserve(c) ==
    /\ mode = "running" /\ ~truncating /\ client[c].phase = "idle"
    /\ Pending < QueueSize
    /\ \E ram \in BOOLEAN :
          /\ ram => Pending < RamBuffer
          /\ client' = [client EXCEPT ![c] =
                          [phase |-> "reserved", ram |-> ram, id |-> 0]]
    /\ UNCHANGED <<logvars, wal_lock, queue, worker, segvars, flusher, recover,
                   applied_seq, mode, load_next, truncating, faults, history>>

\* Mutant: the lock is released before the number is sent.
WriteRecordUnlocked(c) ==
    /\ client[c].phase = "reserved" /\ wal_lock = "free"
    /\ left > 0 /\ left' = left - 1
    /\ \E on \in Targets : log' = Append(log, [id |-> left, on |-> on])
    /\ client' = [client EXCEPT ![c] = [phase |-> "locked", ram |-> @.ram, id |-> left]]
    /\ UNCHANGED <<first, synced, wal_lock, queue, worker, segvars, flusher,
                   recover, applied_seq, mode, load_next, truncating, faults,
                   completed, cut, troubled, outrun>>

\* lock_and_write returns with the lock held.
WriteRecord(c) ==
    /\ client[c].phase = "reserved" /\ wal_lock = "free"
    /\ left > 0 /\ left' = left - 1
    /\ \E on \in Targets : log' = Append(log, [id |-> left, on |-> on])
    /\ client' = [client EXCEPT ![c] = [phase |-> "locked", ram |-> @.ram, id |-> left]]
    /\ wal_lock' = c
    /\ UNCHANGED <<first, synced, queue, worker, segvars, flusher, recover,
                   applied_seq, mode, load_next, truncating, faults, completed,
                   cut, troubled, outrun>>

NumOf(id) == CHOOSE i \in DOMAIN log : log[i].id = id

\* The number goes to the worker before the lock is released.  A client that
\* asked for no answer is done.
SendSignal(c) ==
    /\ client[c].phase = "locked"
    /\ \E wait \in BOOLEAN :
          /\ queue' = Append(queue, [num |-> NumOf(client[c].id),
                ram |-> client[c].ram, client |-> IF wait THEN c ELSE NoClient])
          /\ client' = [client EXCEPT ![c] =
                IF wait THEN [@ EXCEPT !.phase = "waiting", !.ram = FALSE]
                ELSE Idle]
    /\ wal_lock' = IF wal_lock = c THEN "free" ELSE wal_lock
    /\ UNCHANGED <<logvars, worker, segvars, flusher, recover, applied_seq,
                   mode, load_next, truncating, faults, history>>

\* The client gives up waiting (WaitTimeout); its update goes on.
Timeout(c) ==
    /\ client[c].phase = "waiting"
    /\ client' = [client EXCEPT ![c] = Idle]
    /\ UNCHANGED <<logvars, wal_lock, queue, worker, segvars, flusher, recover,
                   applied_seq, mode, load_next, truncating, faults, history>>

-----------------------------------------------------------------------------
(* The update worker.                                                      *)

Item == worker.item

\* It stops before the next number once it is cancelled.
Take ==
    /\ mode # "down" /\ ~truncating
    /\ worker.stage = "idle" /\ queue # <<>>
    /\ worker' = [stage |-> "fetch", item |-> Head(queue)]
    /\ queue' = Tail(queue)
    /\ UNCHANGED <<logvars, wal_lock, client, segvars, flusher, recover,
                   applied_seq, mode, load_next, truncating, faults, history>>

\* send_feedback, if the client of the item still waits for it.
Feedback(done) ==
    LET c == Item.client
        awaited == /\ c # NoClient
                   /\ client[c].phase = "waiting"
                   /\ Item.num <= Len(log) /\ client[c].id = log[Item.num].id
    IN  /\ client' = IF awaited THEN [client EXCEPT ![c] = Idle] ELSE client
        /\ completed' = IF awaited /\ done THEN completed \cup {client[c].id}
                        ELSE completed
        /\ UNCHANGED <<left, cut, outrun>>

\* What was not kept in memory is read from the log.  A record that is not
\* there is passed over.
Fetch ==
    /\ worker.stage = "fetch"
    /\ Item.ram \/ wal_lock = "free"
    /\ IF Item.ram \/ Item.num <= Len(log)
       THEN /\ worker' = [worker EXCEPT !.stage =
                  IF Item.client = NoClient THEN "apply" ELSE "sync"]
            /\ UNCHANGED <<client, history>>
       ELSE worker' = Resting /\ Feedback(FALSE) /\ UNCHANGED troubled
    /\ UNCHANGED <<logvars, wal_lock, queue, segvars, flusher, recover,
                   applied_seq, mode, load_next, truncating, faults>>

\* The log is synced before an update somebody waits for is applied.
SyncLog ==
    /\ worker.stage = "sync" /\ wal_lock = "free"
    /\ synced' = Len(log)
    /\ worker' = [worker EXCEPT !.stage = "apply"]
    /\ UNCHANGED <<log, first, wal_lock, queue, client, segvars, flusher,
                   recover, applied_seq, mode, load_next, truncating, faults,
                   history>>

Apply ==
    /\ worker.stage = "apply"
    /\ Succeed(Item.num)
    /\ worker' = [worker EXCEPT !.stage = "applied"]
    /\ UNCHANGED <<logvars, wal_lock, queue, client, disk, capture, flusher,
                   recover, applied_seq, mode, load_next, truncating, faults,
                   history>>

\* An update fails for a passing reason and is remembered as failed.
ApplyFails ==
    /\ worker.stage = "apply"
    /\ Fail(Item.num)
    /\ worker' = Resting /\ Feedback(FALSE)
    /\ UNCHANGED <<logvars, wal_lock, queue, disk, capture, flusher, recover,
                   applied_seq, mode, load_next, truncating>>

\* An update is declined for good.
Decline ==
    /\ worker.stage = "apply" /\ log[Item.num].on = {}
    /\ worker' = Resting /\ Feedback(FALSE)
    /\ UNCHANGED <<logvars, wal_lock, queue, segvars, flusher, recover,
                   applied_seq, mode, load_next, truncating, faults, troubled>>

\* AppliedSeqHandler::update: the file follows every Interval updates, and not
\* at the first one.
NoteApplied(n) ==
    [mem |-> n, count |-> applied_seq.count + 1,
     file |-> IF applied_seq.count > 0 /\ applied_seq.count % Interval = 0
              THEN n ELSE applied_seq.file]

Complete ==
    /\ worker.stage = "applied"
    /\ applied_seq' = NoteApplied(Item.num)
    /\ worker' = Resting /\ Feedback(TRUE)
    /\ UNCHANGED <<logvars, wal_lock, queue, segvars, flusher, recover, mode,
                   load_next, truncating, faults, troubled>>

-----------------------------------------------------------------------------
(* The flush worker and its background thread.                             *)

FlushWal ==
    /\ mode = "running" /\ ~truncating
    /\ flusher.stage = "idle" /\ wal_lock = "free"
    /\ synced' = Len(log)
    /\ flusher' = [flusher EXCEPT !.stage = "segments"]
    /\ UNCHANGED <<log, first, wal_lock, queue, client, worker, segvars,
                   recover, applied_seq, mode, load_next, truncating, faults,
                   history>>

Unsaved == {p \in Points : mem[p].version > disk[p].version}

\* Mutant: what is being written counts as written.
MaxCapturedVersion == Max({mem[p].version : p \in Points})

\* get_max_persisted_version
MaxPersistedVersion ==
    IF Unsaved # {} THEN Min({disk[p].version : p \in Unsaved})
    ELSE Max({overwrite} \cup {disk[p].version : p \in Points})

\* Mutant: failed updates do not hold the confirmation back.
FlushSegmentsPastFailed ==
    /\ flusher.stage = "segments"
    /\ flusher' = [stage |-> "ack", confirmed |-> MaxPersistedVersion]
    /\ capture' = IF capture = NoCapture THEN [p \in Unsaved |-> mem[p]]
                  ELSE capture
    /\ UNCHANGED <<logvars, wal_lock, queue, client, worker, mem, disk, overwrite,
                   failed, error_status, recover, applied_seq, mode, load_next,
                   truncating, faults, history>>

\* flush_segments: nothing from the first failed update on is confirmed.
FlushSegments ==
    /\ flusher.stage = "segments"
    /\ flusher' = [stage |-> "ack",
                   confirmed |-> Min(failed \cup {MaxPersistedVersion})]
    /\ capture' = IF capture = NoCapture THEN [p \in Unsaved |-> mem[p]]
                  ELSE capture
    /\ UNCHANGED <<logvars, wal_lock, queue, client, worker, mem, disk, overwrite,
                   failed, error_status, recover, applied_seq, mode, load_next,
                   truncating, faults, history>>

\* The background thread writes one Segment.
Persist(p) ==
    /\ p \in DOMAIN capture
    /\ disk' = [disk EXCEPT ![p] = capture[p]]
    /\ capture' = Restrict(capture, DOMAIN capture \ {p})
    /\ UNCHANGED <<logvars, wal_lock, queue, client, worker, mem, overwrite, flusher,
                   failed, error_status, recover, applied_seq, mode, load_next,
                   truncating, faults, history>>

\* SerdeWal::ack
Ack ==
    /\ flusher.stage = "ack" /\ wal_lock = "free"
    /\ first' = Min({Max({flusher.confirmed, first}), LastIndex(log)})
    /\ flusher' = AtRest
    /\ UNCHANGED <<log, synced, wal_lock, queue, client, worker, segvars,
                   recover, applied_seq, mode, load_next, truncating, faults,
                   history>>

-----------------------------------------------------------------------------
(* try_recover, under the log's lock: everything from the first failed     *)
(* update on is applied again, up to an update that fails or is declined.  *)

RecoverStart ==
    /\ mode = "running" /\ failed # {} /\ wal_lock = "free"
    /\ recover' = Min(failed) /\ wal_lock' = "recover"
    /\ UNCHANGED <<logvars, queue, client, worker, segvars, flusher,
                   applied_seq, mode, load_next, truncating, faults, history>>

RecoverStep ==
    /\ wal_lock = "recover" /\ recover <= Len(log)
    /\ \/ /\ Succeed(recover)
          /\ recover' = recover + 1
          /\ UNCHANGED <<wal_lock, faults, troubled>>
       \/ /\ Fail(recover)
          /\ recover' = 0 /\ wal_lock' = "free"
       \/ /\ log[recover].on = {}
          /\ recover' = 0 /\ wal_lock' = "free"
          /\ UNCHANGED <<mem, overwrite, failed, error_status, faults, troubled>>
    /\ UNCHANGED <<logvars, queue, client, worker, disk, capture, flusher,
                   applied_seq, mode, load_next, truncating, left,
                   completed, cut, outrun>>

RecoverEnd ==
    /\ wal_lock = "recover" /\ recover > Len(log)
    /\ recover' = 0 /\ wal_lock' = "free"
    /\ UNCHANGED <<logvars, queue, client, worker, segvars, flusher,
                   applied_seq, mode, load_next, truncating, faults, history>>

-----------------------------------------------------------------------------
(* truncate_unapplied_wal: with the queue closed to new updates the        *)
(* workers come to rest, then the log is cut at the first number that      *)
(* still waits, and nobody answers the clients of those cut off.           *)

Truncate ==
    /\ mode = "running" /\ ~truncating /\ Reserved = {}
    /\ Strike("truncate")
    /\ truncating' = TRUE
    /\ UNCHANGED <<logvars, wal_lock, queue, client, worker, segvars, flusher,
                   recover, applied_seq, mode, load_next, history>>

CutFrom == IF queue = <<>> THEN Len(log) + 1 ELSE Head(queue).num

\* Mutant: the clients of what is cut off are left waiting.
DropFromSilently ==
    /\ truncating /\ wal_lock = "free"
    /\ worker.stage = "idle" /\ flusher.stage = "idle"
    /\ log' = SubSeq(log, 1, CutFrom - 1)
    /\ synced' = IF queue = <<>> THEN synced ELSE Len(log')
    /\ cut' = cut \cup CutFrom .. Len(log)
    /\ queue' = <<>>
    /\ truncating' = FALSE
    /\ UNCHANGED <<first, wal_lock, client, worker, segvars, flusher, recover,
                   applied_seq, mode, load_next, faults, left, completed,
                   troubled, outrun>>

DropFrom ==
    /\ truncating /\ wal_lock = "free"
    /\ worker.stage = "idle" /\ flusher.stage = "idle"
    /\ log' = SubSeq(log, 1, CutFrom - 1)
    /\ synced' = IF queue = <<>> THEN synced ELSE Len(log')
    /\ cut' = cut \cup CutFrom .. Len(log)
    /\ queue' = <<>>
    /\ client' = [c \in Clients |-> Idle]
    /\ truncating' = FALSE
    /\ UNCHANGED <<first, wal_lock, worker, segvars, flusher, recover,
                   applied_seq, mode, load_next, faults, left, completed,
                   troubled, outrun>>

-----------------------------------------------------------------------------
\* The process dies; with the power goes what is not synced of the log.
Crash ==
    /\ mode # "down"
    /\ \E n \in synced .. Len(log) :
          /\ Strike(IF n = Len(log) THEN "crash" ELSE "power")
          /\ log' = SubSeq(log, 1, n)
          /\ synced' = n
          /\ first' = Min({first, LastIndex(log')})
          /\ cut' = cut \cup (n + 1) .. Len(log)
    /\ mode' = "down" /\ load_next' = 0 /\ truncating' = FALSE
    /\ wal_lock' = "free" /\ queue' = <<>> /\ recover' = 0
    /\ client' = [c \in Clients |-> Idle]
    /\ worker' = Resting /\ flusher' = AtRest /\ capture' = NoCapture
    /\ overwrite' = 0
    /\ mem' = disk /\ failed' = {} /\ error_status' = NoErrors
    /\ applied_seq' = [applied_seq EXCEPT !.mem = 0, !.count = 0]
    /\ UNCHANGED <<disk, left, completed, troubled, outrun>>

Worker == Take \/ Fetch \/ SyncLog \/ Apply \/ ApplyFails \/ Decline \/ Complete
Flusher == FlushWal \/ FlushSegments \/ Ack

Next ==
    \/ Load \/ LoadPending
    \/ \E c \in Clients : \/ Reserve(c) \/ WriteRecord(c)
                          \/ SendSignal(c) \/ Timeout(c)
    \/ Worker
    \/ Flusher
    \/ \E p \in Points : Persist(p)
    \/ RecoverStart \/ RecoverStep \/ RecoverEnd
    \/ Truncate \/ DropFrom
    \/ Crash

Spec == Init /\ [][Next]_vars

\* The workers, the loader and the flush thread go on while there is work for
\* them; a client that has its place in the queue goes on to send.
Fairness ==
    /\ WF_vars(LoadPending)
    /\ \A c \in Clients : WF_vars(WriteRecord(c)) /\ WF_vars(SendSignal(c))
    /\ WF_vars(Worker) /\ WF_vars(Flusher)
    /\ WF_vars(RecoverStep \/ RecoverEnd)
    /\ WF_vars(DropFrom)

FairSpec == Spec /\ Fairness

-----------------------------------------------------------------------------
Held(G, o) == \A p \in o.on : o.id \in G[p].ops

\* Every variable has its type: the queue and the places reserved in it never
\* exceed update_queue_size, no more is known to be on disk than the log has,
\* and the flush thread holds no copy newer than the Segment in memory.
TypeOK ==
    /\ \A i \in DOMAIN log : log[i].on \in Targets \cup {Points}
    /\ first \in Nat \ {0} /\ synced \in 0 .. Len(log)
    /\ Pending <= QueueSize
    /\ \A i \in DOMAIN queue : queue[i].num \in Nat \ {0}
    /\ \A c \in Clients :
          client[c].phase \in {"idle", "reserved", "locked", "waiting"}
    /\ worker.stage \in {"idle", "fetch", "sync", "apply", "applied"}
    /\ flusher.stage \in {"idle", "segments", "ack"}
    /\ \A p \in DOMAIN capture : capture[p].version <= mem[p].version
    /\ \A p \in Points : disk[p].version <= mem[p].version
    /\ mode \in {"down", "loading", "running"}

\* The update worker gets the records in the order of the log, however the
\* clients interleave: a number is sent before the log's lock is released
\* (submit_update), and what load_from_wal queues comes before anything new.
\* The number queued past the last record may come twice.
QueueInLogOrder ==
    LET items == IF worker = Resting THEN queue ELSE <<Item>> \o queue
    IN  \A i, j \in DOMAIN items : i < j => items[i].num <= items[j].num

\* "Completed - Request is completed, changes are actual": an update that was
\* answered so is in the Segments while the Shard runs, and after a crash it is
\* on disk or in the part of the log that will be replayed.  Left out are the
\* updates written under a number that a truncation or a power loss had freed
\* (the Segments may have seen the number already and pass over the update), and
\* everything from a start on that queued again what was applied before
\* (op_num_upper_bound is none then).
CompletedIsKept ==
    ~outrun =>
        \A id \in completed : \E i \in DOMAIN log :
            /\ log[i].id = id
            /\ \/ i \in cut
               \/ IF mode = "down" THEN i >= first \/ Held(disk, log[i])
                  ELSE Held(mem, log[i])

Ahead(i) == \/ worker # Resting /\ Item.num = i
            \/ \E k \in DOMAIN queue : queue[k].num = i

\* No record falls between the replay of the log and the queue, or between the
\* flush and the acknowledged log: while the Shard runs, each is in the
\* Segments, still to come, or has failed once (and is retried by try_recover).
EveryUpdateIsAccountedFor ==
    mode = "running" /\ wal_lock = "free" /\ ~outrun =>
        \A i \in DOMAIN log : \/ Held(mem, log[i])
                              \/ Ahead(i)
                              \/ log[i].id \in troubled
                              \/ i \in cut

\* An update that failed for a passing reason stays in the log until it is
\* applied, or cut off with what was not applied yet: no flush confirms a version
\* from it on (failed_operation in flush_segments), so a restart would still find
\* it.
FailedIsRetained == ~outrun => failed \ cut \subseteq first .. Len(log)

\* Loading ends: the records that load_from_wal queues under the log's lock
\* never fill the queue, which nobody could then empty.
LoadEnds == mode = "loading" ~> mode # "loading"

\* A client that waits for its update gets an answer without its timeout: from
\* the worker, whether the update succeeds, fails or is declined, or because a
\* truncation dropped it.
AnswersCome == \A c \in Clients :
    client[c].phase = "waiting" ~> client[c].phase # "waiting"
=============================================================================
