--------------------------- MODULE FlushRecovery ---------------------------
(***************************************************************************)
(* What of a local Shard survives a crash.  Updates go to the write-ahead  *)
(* log and to Segments in memory; a background thread writes the Segments  *)
(* to disk one after the other, in an order that respects the moves of     *)
(* points between them; the log is acknowledged up to what is on disk; an  *)
(* optimizer replaces Segments meanwhile.  After a crash the Segments are  *)
(* loaded, deduplicated, and the rest of the log is replayed on them.      *)
(*                                                                         *)
(* The content of a copy is the set of operations whose effect it shows.   *)
(* An upsert replaces the content, a payload operation adds to it and      *)
(* needs an existing copy: that is why a lost copy is not always repaired  *)
(* by replaying the log.  An operation waiting in the update queue touches *)
(* no Segment, so it is not told apart from one that is not yet issued.    *)
(***************************************************************************)
EXTENDS Integers, Sequences, FiniteSets, FiniteSetsExt, Functions, TLC

CONSTANTS Points,       \* external point identities
          Layouts,      \* which of the Segments 1 and 2 are appendable: cases
          Seats,        \* where the points may be at the start
          MaxOp,        \* bound: operations logged
          MaxId,        \* bound: segment ids handed out
          MaxCrashes,   \* bound: crashes
          MaxEvents     \* bound: operations and crashes together

ASSUME FlushAssumption ==
    /\ IsFiniteSet(Points) /\ Points # {}
    /\ Layouts \subseteq SUBSET {1, 2} \ {{}}
    /\ Seats \subseteq [Points -> {1, 2}]
    /\ {MaxOp, MaxId, MaxCrashes, MaxEvents} \subseteq Nat

VARIABLES appendable,   \* ids of the appendable Segments
          wal,          \* every operation ever logged; op_num is its index
          first_index,  \* the first operation the log still has to keep
          applied,      \* the last operation applied to the Segments
          mem,          \* the holder: segment id -> Segment in memory
          proxies,      \* the proxies in front of some of them
          disk,         \* segment id -> Segment as a restart would load it
          flush_dependency,  \* <<source, target>> -> operation of the last move
          flush,        \* the flush thread: flushers left to run
          overwrite,    \* max_persisted_segment_version_overwrite
          job,          \* the optimizer
          next_id,
          phase,        \* "running", "replaying", or "saving" at the end of it
          crashes,
          uncovered     \* history: points the flush order does not protect

vars == <<appendable, wal, first_index, applied, mem, proxies, disk,
          flush_dependency, flush, overwrite, job, next_id, phase, crashes,
          uncovered>>

Ids == 1 .. MaxId
Ops == 0 .. MaxOp
Kinds == {"upsert", "payload", "delete"}
NoMatch == [kind |-> "no_match"]     \* a filter that selects nothing
Operations == [kind : Kinds, point : Points] \cup {NoMatch}

Absent == [version |-> -1, content |-> {}, born |-> 0]

\* born tells internal offsets apart: a point inserted anew gets a new one.
Copy == [version : Ops, content : SUBSET Ops, born : Ops] \cup {Absent}
Segment == [version : Ops, at : [Points -> Copy]]

NoDeletes == [p \in Points |-> -1]
Proxy == [version : Ops, deleted_points : [Points -> Ops \cup {-1}]]

NoFlush == [queue |-> <<>>, half |-> FALSE, max_applied_version |-> 0]
NoJob == [phase |-> "idle", sources |-> {}, out |-> 0]

Without(f, S) == Restrict(f, DOMAIN f \ S)
Empty == <<>>

-----------------------------------------------------------------------------
(* Segments and the holder.                                                *)

IsAppendable(s) == s \in appendable

HasPoint(s, p) ==
    /\ mem[s].at[p] # Absent
    /\ s \in DOMAIN proxies => proxies[s].deleted_points[p] = -1

Holding(p) == {s \in DOMAIN mem : HasPoint(s, p)}

Writable == {s \in DOMAIN mem : IsAppendable(s) /\ s \notin DOMAIN proxies}

\* version() of a proxy counts the deletes it recorded; persistent_version()
\* is that of the wrapped Segment.
Version(s) == IF s \in DOMAIN proxies
              THEN Max({mem[s].version, proxies[s].version})
              ELSE mem[s].version
PersistentVersion(s) == disk[s].version

Put(g, n, p, copy) == [version |-> Max({g.version, n}),
                       at |-> [g.at EXCEPT ![p] = copy]]

\* delete_point ignores an operation older than the copy.
DeletePoint(g, n, p) ==
    IF g.at[p] = Absent \/ g.at[p].version > n THEN g ELSE Put(g, n, p, Absent)

\* A proxy records the delete of a point of the Segment it wraps, over any
\* earlier record; its version grows in any case.
ProxyDelete(s, n, p) ==
    [version |-> Max({proxies[s].version, n}),
     deleted_points |-> IF mem[s].at[p] = Absent THEN proxies[s].deleted_points
                        ELSE [proxies[s].deleted_points EXCEPT ![p] = n]]

-----------------------------------------------------------------------------
(* One operation, live or replayed.                                        *)

NewContent(kind, n, old) == IF kind = "upsert" THEN {n} ELSE old \cup {n}

\* Mutant: the move is not remembered.
ForgetDependency(s, t, n) == UNCHANGED flush_dependency

\* The target of a move has to be persisted before its source.
AddDependency(s, t, n) ==
    flush_dependency' = (<<s, t>> :> n) @@ flush_dependency

\* apply_points_with_conditional_move on the Segment that shows the point.
RewritePoint(n, kind, p, s) ==
    LET old == mem[s].at[p]
        content == NewContent(kind, n, old.content)
    IN  \/ /\ old.version >= n
           /\ UNCHANGED <<mem, proxies, flush_dependency>>
        \/ /\ old.version < n /\ s \in Writable
           /\ mem' = [mem EXCEPT ![s] = Put(@, n, p,
                [version |-> n, content |-> content, born |-> old.born])]
           /\ UNCHANGED <<proxies, flush_dependency>>
        \/ /\ old.version < n /\ s \notin Writable
           /\ \E t \in Writable :
                LET copy == [version |-> n, content |-> content, born |-> n]
                    M == [mem EXCEPT ![t] = Put(@, n, p, copy)]
                IN  /\ AddDependency(s, t, n)
                    /\ IF s \in DOMAIN proxies
                       THEN /\ mem' = M
                            /\ proxies' = [proxies EXCEPT
                                             ![s] = ProxyDelete(s, n, p)]
                       ELSE /\ mem' = [M EXCEPT ![s] = DeletePoint(@, n, p)]
                            /\ UNCHANGED proxies

\* upsert_points, set_payload and their like.  A point that no Segment shows is
\* inserted by an upsert and not found by anything else.
ApplyWrite(n, kind, p) ==
    /\ \/ /\ Holding(p) = {} /\ kind = "upsert"
          /\ \E t \in Writable :
               mem' = [mem EXCEPT ![t] = Put(@, n, p,
                  [version |-> n, content |-> {n}, born |-> n])]
          /\ UNCHANGED <<proxies, flush_dependency>>
       \/ /\ Holding(p) = {} /\ kind = "payload"
          /\ UNCHANGED <<mem, proxies, flush_dependency>>
       \/ \E s \in Holding(p) : RewritePoint(n, kind, p, s)
    /\ UNCHANGED overwrite

\* delete_points, on every Segment.
ApplyDelete(n, p) ==
    /\ mem' = [s \in DOMAIN mem |-> IF s \in DOMAIN proxies THEN mem[s]
                                    ELSE DeletePoint(mem[s], n, p)]
    /\ proxies' = [s \in DOMAIN proxies |-> ProxyDelete(s, n, p)]
    /\ UNCHANGED <<flush_dependency, overwrite>>

\* An operation whose filter selects no point is suggested to the flush worker
\* as persisted.
ApplyNoMatch(n) ==
    /\ overwrite' = Max({overwrite, n})
    /\ UNCHANGED <<mem, proxies, flush_dependency>>

Apply(n, o) == CASE o.kind = "delete" -> ApplyDelete(n, o.point)
                 [] o.kind = "no_match" -> ApplyNoMatch(n)
                 [] OTHER -> ApplyWrite(n, o.kind, o.point)

-----------------------------------------------------------------------------
\* Everything up to operation 1 is on disk and acknowledged.  Operation 1, the
\* last one acknowledged, is still in the log.
Init ==
    \E seat \in Seats, p \in Points :
        LET at(s) == [q \in Points |->
                IF seat[q] # s THEN Absent
                ELSE IF q # p THEN [version |-> 0, content |-> {0}, born |-> 0]
                ELSE [version |-> 1, content |-> {0, 1}, born |-> 0]]
        IN  /\ wal = <<[kind |-> "payload", point |-> p]>>
            /\ mem = [s \in {1, 2} |->
                  [version |-> IF seat[p] = s THEN 1 ELSE 0, at |-> at(s)]]
            /\ disk = mem
            /\ appendable \in Layouts
            /\ first_index = 1 /\ applied = 1
            /\ proxies = Empty /\ flush_dependency = Empty
            /\ flush = NoFlush /\ overwrite = 0
            /\ job = NoJob /\ next_id = 3
            /\ phase = "running" /\ crashes = 0
            /\ uncovered = {}

\* An update is logged, then applied by the update worker.
Update(o) ==
    /\ phase = "running"
    /\ Len(wal) < MaxOp /\ Len(wal) + crashes < MaxEvents
    /\ wal' = Append(wal, o)
    /\ applied' = applied + 1
    /\ Apply(applied + 1, o)
    /\ UNCHANGED <<appendable, first_index, disk, flush, job, next_id, phase,
                   crashes, uncovered>>

-----------------------------------------------------------------------------
(* Flushing.                                                               *)

Dependencies(s) == {t \in DOMAIN mem : <<s, t>> \in DOMAIN flush_dependency}

\* What topological sorting never finds ready: Segments that wait for each
\* other, and those that wait for them.
Circular == UNION {C \in SUBSET DOMAIN mem :
                      \A s \in C : Dependencies(s) \cap C # {}}

\* sort_segment_ids_by_flush_dependency: first the Segments that wait for none,
\* the non-appendable ones before the appendable ones, then each after those
\* it waits for, then the circular ones in any order.
FlushOrders ==
    LET n == Cardinality(DOMAIN mem)
        circular == Circular
        before(s, t) ==
            /\ s \in circular => t \in circular
            /\ s \notin circular => t \notin Dependencies(s)
            /\ Dependencies(t) = {} =>
                 /\ Dependencies(s) = {}
                 /\ IsAppendable(s) => IsAppendable(t)
    IN  {q \in Bijection(1 .. n, DOMAIN mem) :
            \A i, j \in 1 .. n : i < j => before(q[i], q[j])}

\* flusher(force): what the Segment has now, unless that is on disk.
Flushers(q, force) ==
    LET needed(s) == force \/ mem[s].version # PersistentVersion(s)
        kept == SelectSeq(q, needed)
    IN  [i \in DOMAIN kept |-> [id |-> kept[i], snapshot |-> mem[kept[i]]]]

Retain(version) ==
    flush_dependency' = Restrict(flush_dependency,
        {e \in DOMAIN flush_dependency : flush_dependency[e] > version})

\* flush_all captures every flusher before it runs the first one.
Capture(force) ==
    \E q \in FlushOrders :
        LET flushers == Flushers(q, force)
            version == Max({Version(s) : s \in DOMAIN mem})
        IN  /\ uncovered' = uncovered \cup
                  {p \in Points : \E s \in Circular : mem[s].at[p] # Absent}
            /\ IF flushers = <<>>
               THEN Retain(version) /\ UNCHANGED flush
               ELSE /\ flush' = [queue |-> flushers, half |-> FALSE,
                                 max_applied_version |-> version]
                    /\ UNCHANGED flush_dependency

\* get_max_persisted_version
MaxPersistedVersion ==
    LET unsaved == {s \in DOMAIN mem : Version(s) > PersistentVersion(s)}
    IN  IF unsaved # {} THEN Min({PersistentVersion(s) : s \in unsaved})
        ELSE Max({overwrite} \cup {PersistentVersion(s) : s \in DOMAIN mem})

\* SerdeWal::ack: the first index never decreases nor passes the last one.
Ack(until) == Min({Max({until, first_index}), Len(wal)})

\* flush_worker_internal.  While the flush thread is busy, nothing is captured.
FlushWorker ==
    /\ phase = "running"
    /\ IF flush.queue = <<>> THEN Capture(FALSE)
       ELSE UNCHANGED <<flush, flush_dependency, uncovered>>
    /\ first_index' = Ack(MaxPersistedVersion)
    /\ UNCHANGED <<appendable, wal, applied, mem, proxies, disk, overwrite,
                   job, next_id, phase, crashes>>

\* What a restart would find after the mapping, the vectors and the payloads
\* are written and the versions are not: a point whose offset has no version
\* is removed on load.
DataWritten(old, new) ==
    [old EXCEPT !.at = [p \in Points |->
        IF /\ old.at[p] # Absent /\ new.at[p] # Absent
           /\ old.at[p].born = new.at[p].born
        THEN [new.at[p] EXCEPT !.version = old.at[p].version] ELSE Absent]]

Flusher == Head(flush.queue)

\* The flush thread writes the data of the next Segment.
FlushData ==
    /\ flush.queue # <<>> /\ ~flush.half
    /\ Flusher.id \in DOMAIN disk
    /\ disk' = [disk EXCEPT ![Flusher.id] = DataWritten(@, Flusher.snapshot)]
    /\ flush' = [flush EXCEPT !.half = TRUE]
    /\ UNCHANGED <<appendable, wal, first_index, applied, mem, proxies,
                   flush_dependency, overwrite, job, next_id, phase, crashes,
                   uncovered>>

\* The versions and the state file follow.  A Segment dropped meanwhile is
\* skipped.  After the last one the dependencies are released; the flush at
\* the end of recovery lets updates in.
FlushVersions ==
    /\ flush.queue # <<>>
    /\ \/ /\ flush.half
          /\ disk' = [disk EXCEPT ![Flusher.id] = Flusher.snapshot]
       \/ /\ ~flush.half /\ Flusher.id \notin DOMAIN disk
          /\ UNCHANGED disk
    /\ IF Len(flush.queue) = 1
       THEN /\ flush' = NoFlush
            /\ Retain(flush.max_applied_version)
            /\ phase' = "running"
       ELSE /\ flush' = [flush EXCEPT !.queue = Tail(@), !.half = FALSE]
            /\ UNCHANGED <<flush_dependency, phase>>
    /\ UNCHANGED <<appendable, wal, first_index, applied, mem, proxies,
                   overwrite, job, next_id, crashes, uncovered>>

-----------------------------------------------------------------------------
(* Optimization, as far as the disk is concerned.                          *)

\* Proxies in front of the sources; another Segment stays writable.
StartOptimization ==
    /\ phase = "running" /\ job.phase = "idle" /\ next_id <= MaxId
    /\ \E sources \in (SUBSET DOMAIN mem) \ {{}} :
          /\ Writable \ sources # {}
          /\ job' = [phase |-> "proxied", sources |-> sources, out |-> next_id]
          /\ proxies' = [s \in sources |->
                [version |-> mem[s].version, deleted_points |-> NoDeletes]]
    /\ next_id' = next_id + 1
    /\ UNCHANGED <<appendable, wal, first_index, applied, mem, disk,
                   flush_dependency, flush, overwrite, phase, crashes,
                   uncovered>>

Newest(G, p) ==
    LET copies == {G[s].at[p] : s \in DOMAIN G}
    IN  CHOOSE c \in copies : \A d \in copies : d.version <= c.version

\* SegmentBuilder::build leaves a complete Segment among those a restart loads,
\* indexed or, if it is small, still appendable.
Build ==
    /\ job.phase = "proxied"
    /\ disk' = (job.out :>
          [version |-> Max({mem[s].version : s \in job.sources}),
           at |-> [p \in Points |-> Newest(Restrict(mem, job.sources), p)]])
          @@ disk
    /\ appendable' \in {appendable, appendable \cup {job.out}}
    /\ job' = [job EXCEPT !.phase = "built"]
    /\ UNCHANGED <<wal, first_index, applied, mem, proxies, flush_dependency,
                   flush, overwrite, next_id, phase, crashes, uncovered>>

\* Every recorded delete applied to a Segment, each with its operation number.
WithDeletes(g, D) ==
    LET gone == {p \in Points : g.at[p] # Absent /\ D[p] >= g.at[p].version}
    IN  [version |-> Max({g.version} \cup {D[p] : p \in gone}),
         at |-> [p \in Points |-> IF p \in gone THEN Absent ELSE g.at[p]]]

Recorded == [p \in Points |->
                Max({proxies[s].deleted_points[p] : s \in job.sources})]

\* Points that moved out of the sources to a Segment which does not have them
\* on disk yet: no dependency speaks of the output or of the source files.
Unprotected ==
    {p \in Points :
        /\ \E s \in job.sources \cup {job.out} : disk[s].at[p] # Absent
        /\ \E t \in Holding(p) \ job.sources :
              mem[t].at[p].version > disk[t].at[p].version}

\* finish_optimization: deletes that reached the proxies are applied to the
\* output in memory, which takes the place of the proxies under a new id.
Publish ==
    /\ job.phase = "built"
    /\ mem' = (job.out :> WithDeletes(disk[job.out], Recorded))
                 @@ Without(mem, job.sources)
    /\ proxies' = Empty
    /\ job' = [job EXCEPT !.phase = "dropping"]
    /\ uncovered' = uncovered \cup Unprotected
    /\ UNCHANGED <<appendable, wal, first_index, applied, disk,
                   flush_dependency, flush, overwrite, next_id, phase,
                   crashes>>

\* A cancelled optimization gives the deletes to the wrapped Segments, which
\* take their place in the holder again under the ids of the proxies.  An
\* output that was already built is an orphan to be removed.
Cancel ==
    /\ job.phase \in {"proxied", "built"}
    /\ mem' = [s \in DOMAIN mem |->
                  IF s \in job.sources
                  THEN WithDeletes(mem[s], proxies[s].deleted_points)
                  ELSE mem[s]]
    /\ proxies' = Empty
    /\ job' = IF job.phase = "proxied" THEN NoJob
              ELSE [job EXCEPT !.phase = "dropping", !.sources = {job.out}]
    /\ UNCHANGED <<appendable, wal, first_index, applied, disk,
                   flush_dependency, flush, overwrite, next_id, phase, crashes,
                   uncovered>>

\* The files of a Segment the holder no longer has go once nobody reads it, and
\* not while it is being flushed.
DropData(s) ==
    /\ job.phase = "dropping" /\ s \in job.sources
    /\ ~(flush.half /\ Flusher.id = s)
    /\ disk' = Without(disk, {s})
    /\ job' = IF job.sources = {s} THEN NoJob
              ELSE [job EXCEPT !.sources = @ \ {s}]
    /\ UNCHANGED <<appendable, wal, first_index, applied, mem, proxies,
                   flush_dependency, flush, overwrite, next_id, phase, crashes,
                   uncovered>>

-----------------------------------------------------------------------------
(* Crash and recovery.                                                     *)

\* deduplicate_points keeps one copy with the highest version.
Deduplicated(keep) ==
    [s \in DOMAIN disk |-> [disk[s] EXCEPT !.at = [p \in Points |->
        IF keep[p] = s THEN disk[s].at[p] ELSE Absent]]]

\* The process dies, at any moment.  LocalShard::load finds every Segment on
\* disk: also an output that was not published yet, and what was about to be
\* dropped.
Crash ==
    /\ crashes < MaxCrashes /\ Len(wal) + crashes < MaxEvents
    /\ crashes' = crashes + 1
    /\ \E keep \in [Points -> DOMAIN disk] :
          /\ \A p \in Points : disk[keep[p]].at[p] = Newest(disk, p)
          /\ mem' = Deduplicated(keep)
    /\ proxies' = Empty /\ flush_dependency' = Empty
    /\ flush' = NoFlush /\ overwrite' = 0 /\ job' = NoJob
    /\ applied' = first_index - 1
    /\ phase' = "replaying"
    /\ uncovered' = uncovered \cup
          {p \in Points : /\ job.phase = "dropping"
                          /\ \E s \in job.sources : disk[s].at[p] # Absent}
    /\ UNCHANGED <<appendable, wal, first_index, disk, next_id>>

\* load_from_wal applies what the log kept; an operation that does not find
\* its point is passed over.
Replay ==
    /\ phase = "replaying" /\ applied < Len(wal)
    /\ applied' = applied + 1
    /\ Apply(applied + 1, wal[applied + 1])
    /\ UNCHANGED <<appendable, wal, first_index, disk, flush, job, next_id,
                   phase, crashes, uncovered>>

\* Everything is flushed, needed or not, before updates are let in.
ForceFlush ==
    /\ phase = "replaying" /\ applied = Len(wal)
    /\ Capture(TRUE)
    /\ phase' = "saving"
    /\ UNCHANGED <<appendable, wal, first_index, applied, mem, proxies, disk,
                   overwrite, job, next_id, crashes>>

-----------------------------------------------------------------------------
Next ==
    \/ \E o \in Operations : Update(o)
    \/ FlushWorker
    \/ FlushData
    \/ FlushVersions
    \/ StartOptimization
    \/ Build
    \/ Publish
    \/ \E s \in Ids : DropData(s)
    \/ Cancel
    \/ Crash
    \/ Replay
    \/ ForceFlush

Spec == Init /\ [][Next]_vars

-----------------------------------------------------------------------------
(* Properties.                                                             *)

\* The state of flush.rs, wal.rs and the holder: the types, the acknowledged
\* index within the log, and every Segment of the holder on disk.
TypeOK ==
    /\ appendable \subseteq Ids
    /\ wal \in Seq(Operations) /\ Len(wal) \in 1 .. MaxOp
    /\ first_index \in 1 .. Len(wal)
    /\ applied \in first_index - 1 .. Len(wal)
    /\ DOMAIN mem \subseteq DOMAIN disk /\ DOMAIN disk \subseteq Ids
    /\ Range(mem) \subseteq Segment /\ Range(disk) \subseteq Segment
    /\ DOMAIN proxies \subseteq DOMAIN mem /\ Range(proxies) \subseteq Proxy
    /\ \A e \in DOMAIN flush_dependency : flush_dependency[e] \in 1 .. applied
    /\ \A i \in DOMAIN flush.queue : flush.queue[i].snapshot \in Segment
    /\ overwrite \in Ops /\ uncovered \subseteq Points
    /\ next_id \in 3 .. MaxId + 1 /\ crashes \in 0 .. MaxCrashes
    /\ phase \in {"running", "replaying", "saving"}
    /\ job.phase \in {"idle", "proxied", "built", "dropping"}

\* What the operations logged so far make of a point.
Expected(p) ==
    LET mine == {i \in DOMAIN wal : wal[i] # NoMatch /\ wal[i].point = p}
        replaced == {i \in mine : wal[i].kind # "payload"}
        from == IF replaced = {} THEN 0 ELSE Max(replaced)
    IN  IF from # 0 /\ wal[from].kind = "delete" THEN {}
        ELSE {{from} \cup {i \in mine : i > from}}

\* Contents of the copies of p that are shown.
Shown(p) == {mem[s].at[p].content : s \in Holding(p)}

\* Whenever every logged operation is applied, at the latest after
\* load_from_wal, the Shard shows of each point exactly what the operations
\* made of it, in one Segment, whatever was flushed, acknowledged, built or
\* half written when a crash came.  Three situations the code leaves open are
\* excepted: a move out of Segments that are replaced before its target is
\* flushed, a circular flush topology, and a crash while Segments that the
\* holder no longer has are still on disk.
UpdatesSurvive ==
    applied = Len(wal) =>
        \A p \in Points \ uncovered :
            Shown(p) = Expected(p) /\ Cardinality(Holding(p)) <= 1

\* A point that exists is on disk somewhere, or the log can insert it again:
\* what the flush dependency of apply_points_with_conditional_move is for.
MovedPointStaysOnDisk ==
    \A p \in Points : Expected(p) # {} =>
        \/ \E s \in DOMAIN disk : disk[s].at[p] # Absent
        \/ \E i \in first_index .. Len(wal) :
              wal[i] = [kind |-> "upsert", point |-> p]
=============================================================================
