------------------------------ MODULE WalFiles ------------------------------
(***************************************************************************)
(* The files of a write-ahead log (Wal and its Segment files, which share  *)
(* the name with, and are not, the Segments of a Shard).  Records are      *)
(* appended to one open file; a full one is retired: renamed to closed-n,  *)
(* n the number of its first record.  Numbers are not stored in the file:  *)
(* a record has the number its place gives it.  Closed files are removed   *)
(* from the front by an acknowledgement and from the back by a truncation. *)
(*                                                                         *)
(* What a file shows to the process (log) is in the page cache and         *)
(* survives a kill.  A power loss leaves of each place either what was     *)
(* forced to the disk there or what the cache held; every record carries   *)
(* a checksum chained over all records before it, so that a file is read   *)
(* up to the first place that does not continue the chain.  A place holds  *)
(* the chain it closes: the sequence of records up to it.                  *)
(*                                                                         *)
(* Names change by single system calls, in the order of the calls; they    *)
(* are durable once the directory is synced, which only the creation of a  *)
(* file does.                                                              *)
(***************************************************************************)
EXTENDS Integers, Sequences, FiniteSets, SequencesExt, FiniteSetsExt

CONSTANTS SegmentSize,    \* records that fit in a file
          MaxFiles        \* bound: files at one time

VARIABLES files,      \* inode -> file
          journal,    \* the names before each change since the last sync
          handle,     \* Wal: which files are closed, open and pending
          steps,      \* what the call in progress has still to do to files
          retired     \* the thread that forces the file retired last

wal_vars == <<files, journal, handle, steps, retired>>

Inodes == 1 .. MaxFiles
NoName == [kind |-> "none", num |-> 0]
OpenName(id) == [kind |-> "open", num |-> id]
ClosedName(start) == [kind |-> "closed", num |-> start]

\* flushed is flush_offset, counted in records.
Blank == [name |-> NoName, log |-> <<>>, disk |-> {}, flushed |-> 0]
Named(fs, kind) == {i \in Inodes : fs[i].name.kind = kind}
Names(fs) == [i \in Inodes |-> fs[i].name]

NoThread == [ino |-> 0, from |-> 0, to |-> 0]

-----------------------------------------------------------------------------
(* One Segment file.                                                       *)

Chains(log) == Prefixes(log) \ {<<>>}

\* The places from + 1 .. to are forced to the disk.
Forced(f, from, to) ==
    LET here(c) == Len(c) \in from + 1 .. to
    IN  {c \in f.disk : ~here(c)} \cup {c \in Chains(f.log) : here(c)}

\* Segment::truncate, with the places zeroed in the cache only.
TruncateFile(f, n) ==
    IF n >= Len(f.log) THEN f
    ELSE [f EXCEPT !.log = SubSeq(@, 1, n), !.flushed = Min({@, n})]

\* Segment::flush: only what was appended since the last flush.
FlushFile(f) ==
    LET size == Len(f.log)
    IN  [f EXCEPT !.flushed = size,
                  !.disk = IF f.flushed < size THEN Forced(f, f.flushed, size)
                           ELSE IF f.flushed = size THEN @
                           ELSE Chains(f.log)]

\* Segment::open reads up to the first place that breaks the chain.
Readable(places) ==
    LET whole == {c \in places : Chains(c) \subseteq places} \cup {<<>>}
    IN  CHOOSE c \in whole : \A d \in whole : Len(d) <= Len(c)

\* What a power loss leaves of a file when the cache was written back at some
\* of its places.
Left(f, written) ==
    LET back(c) == Len(c) \in written
    IN  Readable({c \in f.disk : ~back(c)} \cup {c \in Chains(f.log) : back(c)})

Places == 1 .. SegmentSize
Remains(f) == {Left(f, written) : written \in SUBSET Places}

IsForced(f) == Chains(f.log) \subseteq f.disk

-----------------------------------------------------------------------------
(* The handle: which file holds which numbers.                             *)

CountOf(h, k) == Len(files[h.closed[k].ino].log)

OpenStart(h) == IF h.closed = <<>> THEN 0
                ELSE Last(h.closed).start + CountOf(h, Len(h.closed))
WalFirst == IF handle.closed = <<>> THEN 0 ELSE handle.closed[1].start
WalEnd == OpenStart(handle) + Len(files[handle.open].log)
WalLast == WalFirst + Max({WalEnd - WalFirst - 1, 0})

\* find_closed_segment
Containing(index) ==
    {k \in DOMAIN handle.closed :
        index \in handle.closed[k].start
                  .. handle.closed[k].start + CountOf(handle, k) - 1}

\* Wal::entry, as a sequence of at most one record.
EntryAt(index) ==
    LET from == OpenStart(handle)
        k == Min(Containing(index))
        nth(i, n) == IF n \in DOMAIN files[i].log THEN <<files[i].log[n]>> ELSE <<>>
    IN  IF index >= from THEN nth(handle.open, index - from + 1)
        ELSE IF Containing(index) = {} THEN <<>>
        ELSE nth(handle.closed[k].ino, index - handle.closed[k].start + 1)

-----------------------------------------------------------------------------
(* Calls change files one system call or one store at a time; a crash may  *)
(* come between any two of them.                                           *)

Delete(name) == [do |-> "delete", name |-> name]
Rename(i, name) == [do |-> "rename", ino |-> i, name |-> name]
Store(i, record) == [do |-> "append", ino |-> i, record |-> record]
Cut(i, n) == [do |-> "truncate", ino |-> i, to |-> n]
Flush(i) == [do |-> "flush", ino |-> i]

Effect(fs, step) ==
    CASE step.do = "delete" ->
           [i \in Inodes |-> IF fs[i].name = step.name
                             THEN [fs[i] EXCEPT !.name = NoName] ELSE fs[i]]
      [] step.do = "rename" ->
           [i \in Inodes |->
               IF i = step.ino THEN [fs[i] EXCEPT !.name = step.name]
               ELSE IF fs[i].name = step.name
               THEN [fs[i] EXCEPT !.name = NoName] ELSE fs[i]]
      [] step.do = "append" -> [fs EXCEPT ![step.ino].log = Append(@, step.record)]
      [] step.do = "truncate" -> [fs EXCEPT ![step.ino] = TruncateFile(@, step.to)]
      [] step.do = "flush" -> [fs EXCEPT ![step.ino] = FlushFile(@)]
      [] OTHER -> fs

\* Takes the first of the planned steps.
Perform(fs, plan) ==
    IF plan = <<>> THEN files' = fs /\ steps' = <<>> /\ UNCHANGED journal
    ELSE /\ files' = Effect(fs, Head(plan))
         /\ steps' = Tail(plan)
         /\ journal' = IF Head(plan).do \in {"delete", "rename"}
                       THEN Append(journal, Names(fs)) ELSE journal

Deletes(closed) == [k \in DOMAIN closed |-> Delete(ClosedName(closed[k].start))]

\* An empty closed file marks where a log restored from a snapshot begins.
LastClosedIsEmpty ==
    handle.closed # <<>> /\ CountOf(handle, Len(handle.closed)) = 0

\* retire_open_segment waits for the next file and for the thread that forces
\* the file retired before.
RetireAndStore(record) ==
    LET old == handle.open
        new == Head(handle.pending)
        start == OpenStart(handle)
        size == Len(files[old].log)
        kept == IF LastClosedIsEmpty THEN Front(handle.closed) ELSE handle.closed
        gone == IF LastClosedIsEmpty THEN <<Last(handle.closed)>> ELSE <<>>
    IN  /\ handle.pending # <<>> /\ retired = NoThread
        /\ handle' = [handle EXCEPT
                !.open = new, !.pending = Tail(@),
                !.closed = Append(kept, [start |-> start, ino |-> old])]
        /\ retired' = IF files[old].flushed = size THEN NoThread
                      ELSE [ino |-> old, from |-> files[old].flushed, to |-> size]
        /\ Perform([files EXCEPT ![old].flushed = size],
                   Deletes(gone) \o <<Rename(old, ClosedName(start)),
                                      Store(new, record)>>)

\* Wal::append
AppendRecord(record) ==
    IF Len(files[handle.open].log) < SegmentSize
    THEN Perform(files, <<Store(handle.open, record)>>) /\ UNCHANGED <<handle, retired>>
    ELSE RetireAndStore(record)

\* Mutant: the open file is not truncated with the closed ones.
TruncateClosedOnly(from) ==
    LET k == Min(Containing(from))
        whole == Containing(from) # {} /\ from = handle.closed[k].start
        kept == IF Containing(from) = {} THEN 0 ELSE IF whole THEN k - 1 ELSE k
        cut == IF Containing(from) = {} \/ whole THEN <<>>
               ELSE <<Cut(handle.closed[k].ino, from - handle.closed[k].start)>>
    IN  IF from >= OpenStart(handle)
        THEN [closed |-> handle.closed,
              steps |-> <<Cut(handle.open, from - OpenStart(handle))>>]
        ELSE [closed |-> SubSeq(handle.closed, 1, kept),
              steps |-> cut \o Deletes(SubSeq(handle.closed, kept + 1,
                                             Len(handle.closed)))]

\* Wal::truncate: the files it leaves closed, and its steps.
TruncatePlan(from) ==
    LET closed == handle.closed
        k == Min(Containing(from))
        n == from - closed[k].start
        all == [closed |-> <<>>, steps |-> Deletes(closed)]
        back == [closed |-> SubSeq(closed, 1, k),
                 steps |-> <<Cut(closed[k].ino, n), Flush(closed[k].ino)>>
                           \o Deletes(SubSeq(closed, k + 1, Len(closed)))]
        whole == [closed |-> SubSeq(closed, 1, k - 1),
                  steps |-> Deletes(SubSeq(closed, k, Len(closed)))]
        rest == IF Containing(from) = {} THEN all ELSE IF n = 0 THEN whole ELSE back
    IN  IF from >= OpenStart(handle)
        THEN [closed |-> closed,
              steps |-> <<Cut(handle.open, from - OpenStart(handle))>>]
        ELSE [rest EXCEPT !.steps = <<Cut(handle.open, 0)>> \o @]

\* Wal::prefix_truncate: how many closed files go when the last
\* retain ones stay in any case.
PrefixCount(until, retain) ==
    LET spare == Max({Len(handle.closed) - retain, 0})
    IN  IF until <= WalFirst THEN 0
        ELSE IF until >= OpenStart(handle) THEN spare
        ELSE Min({Min(Containing(until)) - 1, spare})

PrefixTruncate(n) ==
    handle' = [handle EXCEPT !.closed = SubSeq(@, n + 1, Len(@))]

-----------------------------------------------------------------------------
(* Threads.                                                                *)

\* create_segments: the next file, ready before it is needed.  The sync at the
\* end makes every earlier change of names durable.
CreateSegment(busy) ==
    /\ handle.pending = <<>>
    /\ LET free == {i \in Inodes \ busy : files[i].name = NoName}
           i == Min(free)
       IN  /\ free # {}
           /\ files' = [j \in Inodes |->
                  IF j = i THEN [Blank EXCEPT !.name = OpenName(handle.next_id)]
                  ELSE IF files[j].name = NoName /\ j \notin busy THEN Blank
                  ELSE files[j]]
           /\ handle' = [handle EXCEPT !.pending = <<i>>, !.next_id = @ + 1]
    /\ journal' = <<>>
    /\ UNCHANGED <<steps, retired>>

\* The thread of flush_async on the retired file.
RetiredIsForced ==
    /\ retired # NoThread
    /\ files' = [files EXCEPT ![retired.ino].disk =
                    Forced(files[retired.ino], retired.from, retired.to)]
    /\ retired' = NoThread
    /\ UNCHANGED <<journal, handle, steps>>

-----------------------------------------------------------------------------
(* Opening the directory.                                                  *)

InNameOrder(fs, kind) ==
    LET before(i) == {j \in Named(fs, kind) : fs[j].name.num < fs[i].name.num}
    IN  [k \in 1 .. Cardinality(Named(fs, kind)) |->
            CHOOSE i \in Named(fs, kind) : Cardinality(before(i)) = k - 1]

\* Mutant: an earlier open file with records is left out.
TakeNewest(fs, found, i) ==
    IF fs[i].log = <<>> /\ found.open # 0 THEN [found EXCEPT !.unused = Append(@, i)]
    ELSE [found EXCEPT !.open = i]

\* with_options takes the open files by id: the last one with records is the
\* open file, an earlier one is closed at the next number, since its rename was
\* lost.
TakeOpen(fs, found, i) ==
    IF fs[i].log = <<>>
    THEN IF found.open = 0 THEN [found EXCEPT !.open = i]
         ELSE [found EXCEPT !.unused = Append(@, i)]
    ELSE IF found.open = 0 THEN [found EXCEPT !.open = i]
    ELSE [found EXCEPT
            !.open = i,
            !.closed = Append(@, [start |-> found.next, ino |-> found.open]),
            !.next = @ + Len(fs[found.open].log),
            !.steps = Append(@, Rename(found.open, ClosedName(found.next)))]

\* Mutant: every closed file but the last has to be full.
ContiguousIfFull(fs, closed) ==
    \A k \in 2 .. Len(closed) :
        fs[closed[k]].name.num = fs[closed[k - 1]].name.num + SegmentSize

\* Closed files have to follow on each other.  Less is unimplemented!() and
\* Greater an error.
Contiguous(fs, closed) ==
    \A k \in 2 .. Len(closed) :
        fs[closed[k]].name.num = fs[closed[k - 1]].name.num
                                 + Len(fs[closed[k - 1]].log)

Found(fs) ==
    LET closed == InNameOrder(fs, "closed")
        next == IF closed = <<>> THEN 0
                ELSE fs[Last(closed)].name.num + Len(fs[Last(closed)].log)
        none == [open |-> 0, unused |-> <<>>, next |-> next, steps |-> <<>>,
                 closed |-> [k \in DOMAIN closed |->
                    [start |-> fs[closed[k]].name.num, ino |-> closed[k]]]]
    IN  FoldLeft(LAMBDA found, i : TakeOpen(fs, found, i), none,
                 InNameOrder(fs, "open"))

\* Segment::open takes whatever it reads for flushed.
OpenDirectory ==
    LET fs == [i \in Inodes |->
                 [files[i] EXCEPT !.flushed = Len(files[i].log)]]
        found == Found(fs)
        newest == IF found.unused = <<>> THEN found.open ELSE Last(found.unused)
    IN  /\ Contiguous(fs, InNameOrder(fs, "closed"))
        /\ handle' = [closed |-> found.closed, open |-> found.open,
                      pending |-> found.unused,
                      next_id |-> fs[newest].name.num + 1]
        /\ Perform(fs, found.steps)
        /\ UNCHANGED retired

\* A directory with an open file and, unless the log begins at 0, a closed one
\* that holds the given records.  Without records it is what
\* generate_empty_wal_starting_at_index makes for a snapshot.
InitialFiles(start, records) ==
    [i \in Inodes |->
        CASE i = 1 -> [Blank EXCEPT !.name = OpenName(1)]
          [] i = 2 /\ start > 0 ->
               [name |-> ClosedName(start), log |-> records,
                disk |-> Chains(records), flushed |-> Len(records)]
          [] OTHER -> Blank]

WalInit(start, records) ==
    /\ files = InitialFiles(start, records)
    /\ journal = <<>> /\ steps = <<>> /\ retired = NoThread
    /\ handle = [closed |-> IF start > 0 THEN <<[start |-> start, ino |-> 2]>>
                            ELSE <<>>,
                 open |-> 1, pending |-> <<>>, next_id |-> 2]
=============================================================================
