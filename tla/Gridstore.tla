----------------------------- MODULE Gridstore -----------------------------
(***************************************************************************)
(* The storage of payloads and sparse vectors (Gridstore): values in       *)
(* blocks of page files, a bitmask of the blocks in use with a summary of  *)
(* the gaps in each region, and a tracker that maps an offset to the       *)
(* blocks of its value.  One writer, a flusher in the background, and      *)
(* crashes at any point of either.                                         *)
(*                                                                         *)
(* All files are memory maps.  What a process wrote stays when it is       *)
(* killed; after a power loss each unit of a file holds any of the values  *)
(* it had since it was last flushed.  A unit is a region of the bitmask,   *)
(* its summary, a block, or an entry of the tracker.  A value is the       *)
(* number of the put that wrote it, stored in each of its blocks.          *)
(*                                                                         *)
(* create_and_ensure_length syncs neither the file nor its directory: a    *)
(* file that was made or made longer may be missing or short after a power *)
(* loss, each on its own, until it is flushed.  That a directory removed   *)
(* by clear stays removed is assumed.                                      *)
(***************************************************************************)
EXTENDS Integers, Sequences, FiniteSets, FiniteSetsExt, DiskFile

CONSTANTS Cells,            \* offsets of values
          ValueSizes,       \* blocks a value may need
          RegionBlocks,     \* blocks of a region
          PageBlocks,       \* blocks of a page, a multiple of the above
          MaxPages,         \* bound: pages
          MaxPuts,          \* bound: puts
          MaxStoreFaults    \* bound: crashes and failed flushes

VARIABLES store,       \* "up", "down", "failed" to open, or "panicked"
          pages,       \* number of page files
          bits,        \* bitmask.dat: region -> its blocks in use
          gaps,        \* gaps.dat: region -> summary of its free blocks
          blocks,      \* the pages: block -> value
          tracker,     \* tracker.dat: offset -> pointer
          synced,      \* what of each file is certain to exist after a power loss
          pending,     \* pending_updates
          put,         \* the put in progress
          flusher,     \* the flusher in progress
          value,       \* history: the last value of each offset, 0 for none
          recent,      \* history: values since the flusher was made
          possible,    \* history: values since the last finished flush
          leaked,      \* history: blocks that no pointer names and no flush frees
          damage,      \* history: what crashes and failures have left behind
          puts,        \* history: number of puts
          faults       \* history: number of crashes and failed flushes

grid_vars == <<store, pages, bits, gaps, blocks, tracker, synced, pending, put,
               flusher, value, recent, possible, leaked, damage, puts, faults>>
grid_files == <<pages, bits, gaps, blocks, tracker, synced>>
history == <<value, recent, possible, leaked, damage, puts, faults>>

-----------------------------------------------------------------------------
(* Bitmask and BitmaskGaps.                                                *)

Regions(n) == 0 .. (n * PageBlocks) \div RegionBlocks - 1
Region(r) == r * RegionBlocks .. (r + 1) * RegionBlocks - 1
PageRange(n) == 0 .. n * PageBlocks - 1
RegionsOf(bs) == {b \div RegionBlocks : b \in bs}
Used == UNION Range(bits.now)

NoGaps == [max |-> 0, leading |-> 0, trailing |-> 0]
AllFree == [max |-> RegionBlocks, leading |-> RegionBlocks, trailing |-> RegionBlocks]

CalculateGaps(r, used) ==
    LET free == Region(r) \ used
        runs == {n \in 1 .. RegionBlocks : \E b \in Region(r) : b .. b + n - 1 \subseteq free}
    IN  [max |-> Max({0} \cup runs),
         leading |-> Cardinality({b \in free : Min(Region(r)) .. b \subseteq free}),
         trailing |-> Cardinality({b \in free : b .. Max(Region(r)) \subseteq free})]

GapCount == Cardinality(DOMAIN gaps.now)
DivCeil(a, b) == (a + b - 1) \div b

\* The windows of w regions that hold n free blocks, by their first region.
FindMergedGap(w, n) ==
    {s \in 0 .. GapCount - w :
        IF w = 1 THEN gaps.now[s].max >= n
        ELSE /\ \A r \in s + 1 .. s + w - 2 : gaps.now[r].max = RegionBlocks
             /\ gaps.now[s].trailing + gaps.now[s + w - 1].leading
                + (w - 2) * RegionBlocks >= n}

\* find_fitting_gap: the blocks of the first window that fits, tried with as
\* few regions as possible and then with one more.
FindFittingGap(n) ==
    LET needed == DivCeil(n, RegionBlocks)
        of(w) == LET s == Min(FindMergedGap(w, n))
                 IN  s * RegionBlocks .. (s + w) * RegionBlocks - 1
    IN  IF FindMergedGap(needed, n) # {} THEN of(needed)
        ELSE IF FindMergedGap(needed + 1, n) # {} THEN of(needed + 1)
        ELSE {}

\* find_available_blocks: where n free blocks begin, or NoBlock.
NoBlock == -1
FindAvailableBlocks(n) ==
    LET free == FindFittingGap(n) \ Used
        starts == {b \in free : b .. b + n - 1 \subseteq free}
    IN  IF starts = {} THEN NoBlock ELSE Min(starts)

\* The slice of the bitmask that find_available_blocks searches exists.
ReadsMask(n) == RegionsOf(FindFittingGap(n)) \subseteq DOMAIN bits.now

TrailingFreeBlocks ==
    LET free == {r \in DOMAIN gaps.now :
                    \A q \in r .. GapCount - 1 : gaps.now[q].trailing = RegionBlocks}
        next == GapCount - 1 - Cardinality(free)
    IN  Cardinality(free) * RegionBlocks
        + (IF next < 0 THEN 0 ELSE gaps.now[next].trailing)

\* Mutant: rounded down.
FewPages(n) == Max({n - TrailingFreeBlocks, 0}) \div PageBlocks

PagesMissing(n) == DivCeil(Max({n - TrailingFreeBlocks, 0}), PageBlocks)

\* mark_blocks_batch, before and after update_region_gaps.
Marked(bs, used) ==
    [r \in RegionsOf(bs) |->
        IF used THEN bits.now[r] \cup (bs \cap Region(r)) ELSE bits.now[r] \ bs]
UpdatedGaps(bs) == [r \in RegionsOf(bs) \cap DOMAIN gaps.now |->
                       CalculateGaps(r, bits.now[r])]

-----------------------------------------------------------------------------
(* Tracker and PointerUpdates.                                             *)

NoPointer == [start |-> 0, size |-> 0]
Pointers == [start : PageRange(MaxPages), size : ValueSizes]
BlocksOf(ptr) == ptr.start .. ptr.start + ptr.size - 1
NoUpdates == [current |-> NoPointer, to_free |-> {}]

SetPointer(u, ptr) ==
    [current |-> ptr, to_free |-> u.to_free \cup ({u.current} \ {NoPointer})]
UnsetPointer(u, ptr) ==
    [current |-> NoPointer,
     to_free |-> u.to_free \cup ({u.current} \ {NoPointer}) \cup {ptr}]

\* Mutant: everything that is pending for the offset is dropped.
DrainAll(u, persisted) == NoUpdates

DrainPersisted(u, persisted) ==
    IF u = persisted THEN NoUpdates
    ELSE [current |-> IF u.current = persisted.current THEN NoPointer ELSE u.current,
          to_free |-> u.to_free \ persisted.to_free]

\* Tracker::get
PointerOf(c) == IF pending[c] = NoUpdates THEN tracker.now[c] ELSE pending[c].current

\* get_value: one put's number in all blocks, or a mixture.
Torn == -1
ValueAt(ptr) ==
    LET found == {blocks.now[b] : b \in BlocksOf(ptr)}
    IN  IF ptr = NoPointer THEN 0
        ELSE IF Cardinality(found) = 1 THEN Max(found) ELSE Torn
GetValue(c) == ValueAt(PointerOf(c))

-----------------------------------------------------------------------------
NoPut == [stage |-> "none"]
NoFlusher == [stage |-> "none", snapshot |-> [c \in Cells |-> NoUpdates], old |-> {}]

NothingSynced == [pages |-> 0, bits |-> {}, gaps |-> {}, tracker |-> {}]

\* Gridstore::new: one empty page, and nothing flushed.
GridInit ==
    /\ store = "up" /\ put = NoPut /\ flusher = NoFlusher
    /\ pages = 1
    /\ bits = File(Regions(1), {})
    /\ gaps = Stored(File(Regions(1), NoGaps), [r \in Regions(1) |-> AllFree])
    /\ blocks = File(PageRange(1), 0)
    /\ tracker = File(Cells, NoPointer)
    /\ synced = NothingSynced
    /\ pending = [c \in Cells |-> NoUpdates]
    /\ value = [c \in Cells |-> 0]
    /\ recent = [c \in Cells |-> {0}] /\ possible = [c \in Cells |-> {0}]
    /\ leaked = {} /\ damage = {} /\ puts = 0 /\ faults = 0

Writing(at) == store = "up" /\ put.stage = at
Flushing(at) == store = "up" /\ flusher.stage = at

\* The write lock of the bitmask, over both of its files.
MaskIsFree == put.stage \notin {"extend", "gaps"} /\ flusher.stage # "free_gaps"

-----------------------------------------------------------------------------
(* put_value, under the Segment's write lock.  A search that changes       *)
(* nothing is taken together with the write it leads to.                   *)

WriteIntoPages(c, n, at) ==
    LET ptr == [start |-> at, size |-> n]
    IN  /\ blocks' = Stored(blocks, [b \in BlocksOf(ptr) |-> puts'])
        /\ put' = [stage |-> "mark", cell |-> c, pointer |-> ptr]

PutValue(c, n) ==
    /\ Writing("none") /\ MaskIsFree /\ puts < MaxPuts
    /\ puts' = puts + 1
    /\ LET at == FindAvailableBlocks(n)
           grow == PagesMissing(n)
       IN  \/ /\ ReadsMask(n) /\ at # NoBlock
              /\ WriteIntoPages(c, n, at)
              /\ UNCHANGED store
           \/ /\ ReadsMask(n) /\ at = NoBlock /\ pages + grow <= MaxPages
              /\ put' = [stage |-> IF grow > 0 THEN "page" ELSE "find",
                         cell |-> c, size |-> n, grow |-> grow]
              /\ UNCHANGED <<store, blocks>>
           \/ /\ ~ReadsMask(n)
              /\ store' = "panicked"
              /\ UNCHANGED <<put, blocks>>
    /\ UNCHANGED <<pages, bits, gaps, tracker, synced, pending, flusher, value, recent,
                   possible, leaked, damage, faults>>

\* create_new_page: the file of the page, then the bitmask, then the gaps.
CreatePage ==
    /\ Writing("page")
    /\ pages' = pages + 1
    /\ blocks' = Grown(blocks, PageRange(pages + 1), 0)
    /\ put' = [put EXCEPT !.stage = "cover", !.grow = @ - 1]
    /\ UNCHANGED <<store, bits, gaps, tracker, synced, pending, flusher, history>>

\* Mutant: the bitmask is flushed and not extended.
CoverWithoutGrowing ==
    /\ Writing("cover") /\ MaskIsFree
    /\ bits' = Flushed(bits) /\ synced' = [synced EXCEPT !.bits = DOMAIN bits.now]
    /\ put' = [put EXCEPT !.stage = "extend"]
    /\ UNCHANGED <<store, pages, gaps, blocks, tracker, pending, flusher, history>>

CoverNewPage ==
    /\ Writing("cover") /\ MaskIsFree
    /\ bits' = Grown(Flushed(bits), Regions(pages), {})
    /\ synced' = [synced EXCEPT !.bits = DOMAIN bits.now]
    /\ put' = [put EXCEPT !.stage = "extend"]
    /\ UNCHANGED <<store, pages, gaps, blocks, tracker, pending, flusher, history>>

ExtendGaps ==
    /\ Writing("extend")
    /\ LET new == DOMAIN bits.now \ DOMAIN gaps.now
       IN  IF new = {} THEN UNCHANGED <<gaps, synced>>
           ELSE /\ gaps' = Stored(Grown(Flushed(gaps), DOMAIN bits.now, NoGaps),
                                  [r \in new |-> AllFree])
                /\ synced' = [synced EXCEPT !.gaps = DOMAIN gaps.now]
    /\ put' = [put EXCEPT !.stage = IF put.grow > 0 THEN "page" ELSE "find"]
    /\ UNCHANGED <<store, pages, bits, blocks, tracker, pending, flusher, history>>

\* "New page has just been created"
FindAgain ==
    /\ Writing("find") /\ MaskIsFree
    /\ LET at == FindAvailableBlocks(put.size)
       IN  \/ /\ ReadsMask(put.size) /\ at # NoBlock
              /\ UNCHANGED <<store, history>>
              /\ WriteIntoPages(put.cell, put.size, at)
           \/ /\ ReadsMask(put.size) => at = NoBlock
              /\ store' = "panicked"
              /\ UNCHANGED <<put, blocks, history>>
    /\ UNCHANGED <<pages, bits, gaps, tracker, synced, pending, flusher>>

MarkUsed ==
    /\ Writing("mark") /\ MaskIsFree
    /\ bits' = Stored(bits, Marked(BlocksOf(put.pointer), TRUE))
    /\ put' = [put EXCEPT !.stage = "gaps"]
    /\ UNCHANGED <<store, pages, gaps, blocks, tracker, synced, pending, flusher, history>>

\* The value of an offset changes.
Valued(c, v) ==
    /\ value' = [value EXCEPT ![c] = v]
    /\ recent' = [recent EXCEPT ![c] = @ \cup {v}]
    /\ possible' = [possible EXCEPT ![c] = @ \cup {v}]

\* update_region_gaps, and Tracker::set, which changes memory only.
TrackerSet ==
    /\ Writing("gaps")
    /\ gaps' = Stored(gaps, UpdatedGaps(BlocksOf(put.pointer)))
    /\ pending' = [pending EXCEPT ![put.cell] = SetPointer(@, put.pointer)]
    /\ put' = NoPut
    /\ Valued(put.cell, puts)
    /\ UNCHANGED <<store, pages, bits, blocks, tracker, synced, flusher, leaked, damage,
                   puts, faults>>

DeleteValue(c) ==
    /\ Writing("none") /\ PointerOf(c) # NoPointer
    /\ pending' = [pending EXCEPT ![c] = UnsetPointer(@, PointerOf(c))]
    /\ Valued(c, 0)
    /\ UNCHANGED <<store, grid_files, put, flusher, leaked, damage, puts, faults>>

\* clear waits for a flusher that runs; one that was made earlier is cancelled.
ClearStorage ==
    /\ Writing("none") /\ flusher.stage \in {"none", "made"}
    /\ pages' = 1
    /\ bits' = File(Regions(1), {})
    /\ gaps' = Stored(File(Regions(1), NoGaps), [r \in Regions(1) |-> AllFree])
    /\ blocks' = File(PageRange(1), 0)
    /\ tracker' = File(Cells, NoPointer)
    /\ synced' = NothingSynced
    /\ pending' = [c \in Cells |-> NoUpdates]
    /\ flusher' = NoFlusher
    /\ value' = [c \in Cells |-> 0]
    /\ recent' = [c \in Cells |-> {0}] /\ possible' = [c \in Cells |-> {0}]
    /\ leaked' = {} /\ damage' = {}
    /\ UNCHANGED <<store, put, puts, faults>>

-----------------------------------------------------------------------------
(* flusher: what is pending is captured first, between two updates, and    *)
(* written by the flush thread.  There is one flusher at a time            *)
(* (SegmentHolder::lock_flushing).                                         *)

MakeFlusher ==
    /\ Flushing("none") /\ put = NoPut
    /\ flusher' = [stage |-> "made", snapshot |-> pending, old |-> {}]
    /\ recent' = [c \in Cells |-> {value[c]}]
    /\ UNCHANGED <<store, grid_files, pending, put, value, possible, leaked, damage,
                   puts, faults>>

\* Mutant: the bitmask and the gaps are not flushed.
SkipMask(from, to) ==
    /\ Flushing(from)
    /\ flusher' = to
    /\ UNCHANGED <<store, grid_files, pending, put, history>>

\* Bitmask::flusher, for both files.
FlushMask(from, to) ==
    /\ Flushing(from)
    /\ bits' = Flushed(bits) /\ gaps' = Flushed(gaps)
    /\ synced' = [synced EXCEPT !.bits = DOMAIN bits.now, !.gaps = DOMAIN gaps.now]
    /\ flusher' = to
    /\ UNCHANGED <<store, pages, blocks, tracker, pending, put, history>>

\* Mutant: the pages are not flushed.
SkipPages ==
    /\ Flushing("pages")
    /\ flusher' = [flusher EXCEPT !.stage = "write"]
    /\ UNCHANGED <<store, grid_files, pending, put, history>>

FlushPages ==
    /\ Flushing("pages")
    /\ blocks' = Flushed(blocks) /\ synced' = [synced EXCEPT !.pages = pages]
    /\ flusher' = [flusher EXCEPT !.stage = "write"]
    /\ UNCHANGED <<store, pages, bits, gaps, tracker, pending, put, history>>

Written == {c \in Cells : flusher.snapshot[c] # NoUpdates}

\* Mutant: the pointer that is overwritten is not returned.
OldPointersPending == UNION {flusher.snapshot[c].to_free : c \in Written}

\* The pointers write_pending returns: what it overwrites with a new pointer,
\* and what was replaced or unset while it was pending.
OldPointers ==
    LET replaced == {c \in Written : flusher.snapshot[c].current # NoPointer}
    IN  ({tracker.now[c] : c \in replaced} \ {NoPointer})
        \cup UNION {flusher.snapshot[c].to_free : c \in Written}

\* A pointer overwritten by None is only returned if it is in to_free.
Lost ==
    {c \in Written : /\ flusher.snapshot[c].current = NoPointer
                     /\ tracker.now[c] # NoPointer
                     /\ tracker.now[c] \notin flusher.snapshot[c].to_free}

WritePending ==
    /\ Flushing("write")
    /\ tracker' = Stored(tracker, [c \in Written |-> flusher.snapshot[c].current])
    /\ pending' = [c \in Cells |->
          IF c \in Written /\ pending[c] # NoUpdates
          THEN DrainPersisted(pending[c], flusher.snapshot[c]) ELSE pending[c]]
    /\ flusher' = [flusher EXCEPT !.stage = "tracker", !.old = OldPointers]
    /\ leaked' = leaked \cup UNION {BlocksOf(tracker.now[c]) : c \in Lost}
    /\ UNCHANGED <<store, pages, bits, gaps, blocks, synced, put, value, recent,
                   possible, damage, puts, faults>>

FlushTracker ==
    /\ Flushing("tracker")
    /\ tracker' = Flushed(tracker) /\ synced' = [synced EXCEPT !.tracker = Cells]
    /\ flusher' = IF flusher.old = {} THEN NoFlusher
                  ELSE [flusher EXCEPT !.stage = "free"]
    /\ possible' = recent
    /\ UNCHANGED <<store, pages, bits, gaps, blocks, pending, put, value, recent,
                   leaked, damage, puts, faults>>

Freed == UNION {BlocksOf(ptr) : ptr \in flusher.old}

FreeBlocks ==
    /\ Flushing("free") /\ MaskIsFree
    /\ bits' = Stored(bits, Marked(Freed, FALSE))
    /\ flusher' = [flusher EXCEPT !.stage = "free_gaps"]
    /\ UNCHANGED <<store, pages, gaps, blocks, tracker, synced, pending, put, history>>

FreeBlocksGaps ==
    /\ Flushing("free_gaps")
    /\ gaps' = Stored(gaps, UpdatedGaps(Freed))
    /\ flusher' = [flusher EXCEPT !.stage = "freed"]
    /\ UNCHANGED <<store, pages, bits, blocks, tracker, synced, pending, put, history>>

\* Any flush may fail, which ends the flusher; so does its drop.
FlushFails ==
    /\ store = "up" /\ faults < MaxStoreFaults
    /\ flusher.stage \notin {"none", "free", "free_gaps"}
    /\ flusher' = NoFlusher
    /\ leaked' = leaked \cup IF flusher.stage = "tracker" THEN Freed ELSE {}
    /\ faults' = faults + 1
    /\ UNCHANGED <<store, grid_files, pending, put, value, recent, possible, damage,
                   puts>>

-----------------------------------------------------------------------------
(* Crashes.                                                                *)

\* How long the files are.
Lengths == [pages |-> pages, bits |-> DOMAIN bits.now, gaps |-> DOMAIN gaps.now,
            tracker |-> DOMAIN tracker.now]

\* open: the tracker, the bitmask and the gaps are found, and as many pages as
\* the bitmask covers.
Opens(len) ==
    /\ len.tracker = Cells /\ len.gaps # {}
    /\ len.pages > 0 /\ len.bits = Regions(len.pages)

\* A file is missing or short, and another is not: they do not fit.
Shrunk == Lengths' # Lengths /\ (~Opens(Lengths') \/ Lengths'.gaps # Lengths'.bits)

\* Blocks that are marked and named by no pointer on disk stay marked.
GoesDown ==
    /\ store' = "down"
    /\ pending' = [c \in Cells |-> NoUpdates]
    /\ put' = NoPut /\ flusher' = NoFlusher
    /\ faults' = faults + 1
    /\ damage' = (damage \cap {"shrunk"})
                 \cup (IF put.stage = "cover" THEN {"uncovered"} ELSE {})
                 \cup (IF Shrunk THEN {"shrunk"} ELSE {})
                 \cup (IF \E r \in DOMAIN gaps'.now \cap DOMAIN bits'.now :
                             gaps'.now[r] # CalculateGaps(r, bits'.now[r])
                       THEN {"summary"} ELSE {})
    /\ leaked' = UNION Range(bits'.now)
                 \ UNION {BlocksOf(ptr) : ptr \in Range(tracker'.now)}
    /\ UNCHANGED <<value, recent, possible, puts>>

StoreIsKilled ==
    /\ store = "up" /\ faults < MaxStoreFaults
    /\ UNCHANGED grid_files
    /\ GoesDown

Shortened(f, units) == [now |-> Restrict(f.now, units), left |-> Restrict(f.left, units)]

\* A file that was made or grown and not flushed since may have lost that.  The
\* content of files that will not be opened does not matter.
StoreLosesPower ==
    /\ store = "up" /\ faults < MaxStoreFaults
    /\ \E len \in [pages : synced.pages .. pages, bits : {synced.bits, DOMAIN bits.now},
                   gaps : {synced.gaps, DOMAIN gaps.now}, tracker : {synced.tracker, Cells}] :
          LET leavings(f, units) ==
                  IF Opens(len) THEN Leavings(Shortened(f, units)) ELSE {Shortened(f, units)}
          IN  /\ pages' = len.pages /\ synced' = len
              /\ bits' \in leavings(bits, len.bits)
              /\ gaps' \in leavings(gaps, len.gaps)
              /\ blocks' \in leavings(blocks, PageRange(len.pages))
              /\ tracker' \in leavings(tracker, len.tracker)
    /\ GoesDown

OpenStorage ==
    /\ store = "down"
    /\ \/ /\ Opens(Lengths)
          /\ store' = "up"
          /\ value' = [c \in Cells |-> GetValue(c)]
          /\ recent' = [c \in Cells |-> {GetValue(c)}]
          /\ possible' = recent'
       \/ ~Opens(Lengths) /\ store' = "failed" /\ UNCHANGED <<value, recent, possible>>
    /\ UNCHANGED <<grid_files, pending, put, flusher, leaked, damage, puts, faults>>

GridNext ==
    \/ \E c \in Cells, n \in ValueSizes : PutValue(c, n)
    \/ CreatePage
    \/ CoverNewPage
    \/ ExtendGaps
    \/ FindAgain
    \/ MarkUsed
    \/ TrackerSet
    \/ \E c \in Cells : DeleteValue(c)
    \/ ClearStorage
    \/ MakeFlusher
    \/ FlushMask("made", [flusher EXCEPT !.stage = "pages"])
    \/ FlushPages
    \/ WritePending
    \/ FlushTracker
    \/ FreeBlocks
    \/ FreeBlocksGaps
    \/ FlushMask("freed", NoFlusher)
    \/ FlushFails
    \/ StoreIsKilled
    \/ StoreLosesPower
    \/ OpenStorage

GridSpec == GridInit /\ [][GridNext]_grid_vars

-----------------------------------------------------------------------------
(* Properties.                                                             *)

\* Types of the files and of what the tracker has pending.
GridTypeOK ==
    /\ store \in {"up", "down", "failed", "panicked"}
    /\ pages \in 0 .. MaxPages
    /\ \A r \in DOMAIN bits.now : bits.now[r] \subseteq Region(r)
    /\ synced.bits \subseteq DOMAIN bits.now /\ synced.gaps \subseteq DOMAIN gaps.now
    /\ blocks.now \in [PageRange(pages) -> 0 .. MaxPuts]
    /\ tracker.now \in [DOMAIN tracker.now -> Pointers \cup {NoPointer}]
    /\ \A c \in Cells : /\ pending[c].current \in Pointers \cup {NoPointer}
                        /\ pending[c].to_free \subseteq Pointers

\* get_value answers the last value put, or nothing after a delete, whatever
\* the flusher has written, drained or freed meanwhile.
LatestIsRead == store = "up" => \A c \in Cells : GetValue(c) = value[c]

\* After a crash each offset has a whole value, and one it had at the end of
\* the last finished flush or since.
FlushedIsKept ==
    store = "down" /\ store' = "up" => \A c \in Cells : value'[c] \in possible[c]

\* The blocks of every value that can be read, or may be after a power loss, are
\* marked, so that no put will take them: "the worst that should happen is that we
\* mark more cells as used than they actually are".
ValuesAreMarked ==
    store = "up" =>
        \A c \in Cells : BlocksOf(PointerOf(c)) \cup BlocksOf(tracker.now[c]) \subseteq Used

\* open finds its files, and as many pages as the bitmask covers, unless the
\* crash came right after the file of a new page was made, or a power loss took
\* one file's growth, which create_and_ensure_length does not sync, and left
\* another's.
StorageOpens == store = "failed" => damage \cap {"uncovered", "shrunk"} # {}

\* After new pages were made there is room ("New page has just been
\* created"), and the gaps name no region the bitmask lacks, unless a crash left
\* gaps that do not fit the bitmask, in content or in length.
PutFindsRoom == store = "panicked" => damage \cap {"summary", "shrunk"} # {}

\* When nothing is pending and no flush is running, the marked blocks are those
\* of the values, and those known to be lost.
SpaceIsReclaimed ==
    /\ store = "up" /\ put = NoPut /\ flusher = NoFlusher
    /\ \A c \in Cells : pending[c] = NoUpdates
    => Used \ leaked = UNION {BlocksOf(tracker.now[c]) : c \in Cells}
=============================================================================
