------------------------ MODULE ConsensusLog_proofs -------------------------
(***************************************************************************)
(* However many entries the consensus commits, and wherever a peer crashes *)
(* while it takes over entries, a snapshot or a compaction: the log, the   *)
(* state file and the apply queue fit each other.                          *)
(***************************************************************************)
EXTENDS ConsensusLog, TLAPS

-----------------------------------------------------------------------------
(* The inductive invariant.                                                *)

LogEntries == [index : Nat \ {0}, stray : BOOLEAN]

Stages == {"idle", "snapshot", "save", "clear", "append", "cut", "hard_state",
           "committed", "apply", "applied", "compact"}

Consecutive(e) == \A k \in 1 .. Len(e) : e[k].index = e[1].index + k - 1

ConsensusTypes ==
    /\ stage \in Stages
    /\ ready \in [snapshot : Nat, entries : Seq(LogEntries), offset : Int, commit : Nat,
                  apply_to : Nat, part : {"none", "ready", "light", "startup"}]
    /\ raft_log \in [first : Nat, entries : Seq(LogEntries), flushed : Nat]
    /\ persistent \in [commit : Nat, snapshot : Nat, queue : {<<>>} \cup (Nat \X Nat)]
    /\ compacted \in Nat /\ raft_applied \in Nat /\ toc \in Nat
    /\ fresh \in BOOLEAN /\ uncleared \in BOOLEAN /\ DOMAIN sent \subseteq Nat
    /\ Consecutive(raft_log.entries) /\ Consecutive(ready.entries)
    /\ raft_log.flushed <= Len(raft_log.entries)

\* The indices at both ends of the log, and the last entry queued for applying.
LogFirst == raft_log.entries[1].index
LogEnd == IF raft_log.entries = <<>> THEN persistent.snapshot
          ELSE LogFirst + Len(raft_log.entries) - 1
QueueEnd == IF persistent.queue = <<>> THEN 0 ELSE persistent.queue[2]

\* The state file: snapshot, applied, queued and committed, in this order.
StateFits ==
    /\ persistent.snapshot <= raft_applied /\ raft_applied <= QueueEnd
    /\ QueueEnd <= persistent.commit
    /\ persistent.snapshot <= LastApplied /\ LastApplied <= QueueEnd
    /\ persistent.queue # <<>> => persistent.queue[1] >= 1
    /\ LastApplied <= toc
    /\ compacted <= LastApplied + 1 /\ compacted <= persistent.commit

\* An index that is covered by a snapshot whose log a crash left uncleared.
Old(i) == uncleared /\ i <= persistent.snapshot

\* The log begins at most one after what is applied, has all that is committed
\* and all that was acknowledged on disk, and nothing else at those indices.
LogFits ==
    /\ raft_log.entries = <<>> =>
          /\ persistent.commit = persistent.snapshot /\ raft_log.first = 0
          /\ \A i \in DOMAIN sent : i <= persistent.snapshot
    /\ raft_log.entries # <<>> =>
          /\ raft_log.first < LogFirst /\ LogFirst <= LastApplied + 1
          /\ LogFirst > persistent.commit =>
                persistent.snapshot = persistent.commit /\ (raft_log.first = 0 \/ uncleared)
          /\ raft_log.flushed = 0 => raft_log.first = 0
          /\ persistent.commit <= LogFirst + raft_log.flushed - 1
          /\ \A k \in 1 .. Len(raft_log.entries) :
                LogFirst + k - 1 <= persistent.commit =>
                    ~raft_log.entries[k].stray \/ Old(LogFirst + k - 1)
          /\ \A i \in DOMAIN sent : i >= LogFirst =>
                /\ i - LogFirst + 1 <= raft_log.flushed
                /\ raft_log.entries[i - LogFirst + 1] = sent[i]

\* A log that a crash in ClearLog left and that the start will recognize.
LeftOver ==
    /\ peer = "down" /\ raft_log.entries # <<>> /\ LogEnd < persistent.snapshot
    /\ persistent.commit = persistent.snapshot /\ DOMAIN sent = {}

\* One that reaches the snapshot, which the start takes for the log to go on with.
Uncleared ==
    /\ peer = "down" /\ uncleared
    /\ raft_log.entries # <<>> /\ LogEnd >= persistent.snapshot
    /\ raft_log.first < LogFirst
    /\ persistent.commit = persistent.snapshot /\ DOMAIN sent = {}

\* The entries of a Ready that are still to be stored.
ReadyFirst == ready.entries[1].index
ReadyLast == ReadyFirst + Len(ready.entries) - 1

\* The offset taken for all entries, against the one of the log.
OffsetFits(offset, of_log) == offset <= of_log /\ (offset = of_log \/ uncleared)

NewAreGood ==
    \A k \in 1 .. Len(ready.entries) :
        ReadyFirst + k - 1 <= ready.commit => ~ready.entries[k].stray

\* With a snapshot they begin after it, ...
SnapshotFits ==
    /\ ready.snapshot > 0 /\ persistent.commit <= ready.snapshot /\ DOMAIN sent = {}
    /\ ready.snapshot <= ready.commit /\ ready.offset = NoOffset
    /\ ready.entries = <<>> => ready.commit = ready.snapshot
    /\ ready.entries # <<>> => ReadyFirst = ready.snapshot + 1 /\ ready.commit <= ReadyLast

\* ... without one after what is committed, and where the log ends or before.
\* The log with the new entries in front of it has what will be committed.
EntriesFit ==
    /\ ready.entries = <<>> => ready.commit <= LogEnd
    /\ ready.entries # <<>> =>
          /\ persistent.commit < ReadyFirst /\ ReadyFirst <= LogEnd + 1
          /\ ready.commit <= ReadyLast
          /\ \A i \in DOMAIN sent : i < ReadyFirst
    /\ \A k \in 1 .. Len(raft_log.entries) :
          /\ LogFirst + k - 1 <= ready.commit
          /\ ready.entries # <<>> => LogFirst + k - 1 < ReadyFirst
          => ~raft_log.entries[k].stray \/ Old(LogFirst + k - 1)
    /\ ready.offset # NoOffset =>
          /\ ready.entries # <<>> => ReadyFirst = LogEnd + 1
          /\ raft_log.entries # <<>> => OffsetFits(ready.offset, LogFirst - raft_log.first)
          /\ raft_log.entries = <<>> => OffsetFits(ready.offset, ReadyFirst)

\* What the start left unapplied is handed out again.
QueueIsDone == ~Unapplied \/ (fresh /\ raft_applied <= LastApplied)

Storing == {"snapshot", "save", "clear", "append", "cut", "hard_state"}

\* Where on_ready stands, and what that says of the Ready.
ReadyFits ==
    /\ stage \in Storing =>
          /\ ready.part = "ready" /\ ready.apply_to <= ready.commit
          /\ persistent.commit <= ready.commit /\ NewAreGood
    /\ stage = "snapshot" => ready.offset = NoOffset
    /\ stage = "snapshot" /\ ready.snapshot = 0 => EntriesFit
    /\ stage = "snapshot" /\ ready.snapshot > 0 => SnapshotFits
    /\ stage \in {"save", "clear"} => SnapshotFits
    /\ stage = "save" => toc = ready.snapshot
    /\ stage = "clear" => /\ persistent.snapshot = ready.snapshot
                          /\ raft_log.entries # <<>> => raft_log.first < LogFirst
    /\ stage \in {"append", "cut", "hard_state"} => EntriesFit
    /\ stage = "cut" => /\ ready.entries # <<>> /\ ReadyFirst = LogEnd + 1
                        /\ ready.offset # NoOffset
    /\ stage \in {"append", "hard_state"} /\ raft_log.entries = <<>> => ready.offset = NoOffset
    /\ stage = "hard_state" => ready.entries = <<>>
    /\ stage = "committed" => /\ ready.part \in {"ready", "light"}
                              /\ ready.commit = persistent.commit
                              /\ ready.part = "ready" => ready.apply_to <= persistent.commit
    /\ stage \in {"apply", "applied", "compact"} =>
          /\ ready.part # "none"
          /\ ready.part = "ready" => ready.commit = persistent.commit
          /\ ready.part = "light" => QueueEnd = persistent.commit
          /\ ready.part = "startup" => fresh /\ raft_applied <= LastApplied
    /\ stage = "compact" => ready.part = "startup"
    /\ stage = "applied" => Unapplied /\ persistent.queue[1] <= toc
    /\ peer # "down" /\ stage \notin {"apply", "applied", "compact"} => QueueIsDone
    /\ peer # "down" /\ stage = "idle" /\ ~fresh => QueueEnd = persistent.commit
    /\ peer = "down" => stage = "idle" /\ compacted = 0
    /\ stage \notin {"append", "cut"} => raft_log.flushed = Len(raft_log.entries)

ConsensusInv ==
    /\ ConsensusTypes /\ StateFits /\ ReadyFits
    /\ peer \in PeerStates /\ (peer = "failed" => uncleared)
    /\ peer # "failed" /\ stage # "clear" => LogFits \/ LeftOver \/ Uncleared

-----------------------------------------------------------------------------
(* What ConsensusOpWal answers.                                            *)

LEMMA Larger ==
    ASSUME NEW a \in Int, NEW b \in Int
    PROVE  /\ Max({a, b}) = IF a >= b THEN a ELSE b
           /\ Min({a, b}) = IF a <= b THEN a ELSE b
<1>1. \A x \in {a, b} : (\A y \in {a, b} : x >= y) <=> x = IF a >= b THEN a ELSE b
  OBVIOUS
<1>2. \A x \in {a, b} : (\A y \in {a, b} : x =< y) <=> x = IF a <= b THEN a ELSE b
  OBVIOUS
<1>3. (IF a >= b THEN a ELSE b) \in {a, b} /\ (IF a <= b THEN a ELSE b) \in {a, b}
  BY Zenon
<1>4. Max({a, b}) = IF a >= b THEN a ELSE b
  BY Zenon, <1>1, <1>3 DEF Max
<1>5. Min({a, b}) = IF a <= b THEN a ELSE b
  BY Zenon, <1>2, <1>3 DEF Min
<1> QED
  BY Zenon, <1>4, <1>5

NumberTypes ==
    /\ raft_log.first \in Nat /\ raft_log.flushed \in Nat /\ compacted \in Nat
    /\ Len(raft_log.entries) \in Nat /\ Len(ready.entries) \in Nat
    /\ ready.snapshot \in Nat /\ ready.commit \in Nat /\ ready.apply_to \in Nat
    /\ ready.offset \in Int /\ raft_applied \in Nat /\ toc \in Nat
    /\ persistent.commit \in Nat /\ persistent.snapshot \in Nat
    /\ LogEnd \in Nat /\ QueueEnd \in Nat /\ LastApplied \in Int
    /\ raft_log.flushed <= Len(raft_log.entries)

EndTypes ==
    /\ raft_log.entries # <<>> =>
          /\ Len(raft_log.entries) > 0 /\ LogFirst \in Nat \ {0}
          /\ LogEnd = LogFirst + Len(raft_log.entries) - 1
    /\ ready.entries # <<>> => Len(ready.entries) > 0 /\ ReadyFirst \in Nat \ {0}
    /\ raft_log.entries = <<>> => /\ Len(raft_log.entries) = 0
                                  /\ LogEnd = persistent.snapshot
    /\ ready.entries = <<>> => Len(ready.entries) = 0

QueueTypes ==
    /\ persistent.queue # <<>> => /\ persistent.queue \in Nat \X Nat
                                  /\ LastApplied = persistent.queue[1] - 1
                                  /\ QueueEnd = persistent.queue[2]
    /\ persistent.queue = <<>> => LastApplied = 0 /\ QueueEnd = 0

LEMMA TypeFacts == ConsensusTypes => NumberTypes /\ EndTypes /\ QueueTypes
<1> SUFFICES ASSUME ConsensusTypes PROVE NumberTypes /\ EndTypes /\ QueueTypes
  BY Zenon
<1>1. /\ raft_log.first \in Nat /\ raft_log.flushed \in Nat
      /\ raft_log.entries \in Seq(LogEntries) /\ ready.entries \in Seq(LogEntries)
      /\ ready.snapshot \in Nat /\ ready.commit \in Nat /\ ready.apply_to \in Nat
      /\ ready.offset \in Int /\ raft_applied \in Nat /\ toc \in Nat /\ compacted \in Nat
      /\ persistent.commit \in Nat /\ persistent.snapshot \in Nat
      /\ persistent.queue \in {<<>>} \cup (Nat \X Nat)
      /\ raft_log.flushed <= Len(raft_log.entries)
  BY Zenon DEF ConsensusTypes
<1>2. ASSUME NEW e \in Seq(LogEntries)
      PROVE  /\ Len(e) \in Nat /\ (e # <<>> <=> Len(e) > 0)
             /\ e # <<>> => e[1].index \in Nat \ {0}
  <2>1. Len(e) \in Nat /\ (e # <<>> <=> Len(e) > 0)
    OBVIOUS
  <2>2. ASSUME e # <<>> PROVE e[1].index \in Nat \ {0}
    <3>1. e[1] \in LogEntries
      BY <2>1, <2>2
    <3> QED
      BY Zenon, <3>1 DEF LogEntries
  <2> QED
    BY Zenon, <2>1, <2>2
<1>3. EndTypes /\ LogEnd \in Nat
  <2>1. /\ raft_log.entries # <<>> => Len(raft_log.entries) > 0 /\ LogFirst \in Nat \ {0}
        /\ ready.entries # <<>> => Len(ready.entries) > 0 /\ ReadyFirst \in Nat \ {0}
    BY Zenon, <1>1, <1>2 DEF LogFirst, ReadyFirst
  <2>2. /\ Len(raft_log.entries) \in Nat
        /\ raft_log.entries = <<>> => Len(raft_log.entries) = 0
        /\ ready.entries = <<>> => Len(ready.entries) = 0
    BY <1>1, <1>2
  <2>3. LogEnd \in Nat
    BY <1>1, <2>1, <2>2 DEF LogEnd
  <2>4. EndTypes
    BY Zenon, <2>1, <2>2 DEF EndTypes, LogEnd
  <2> QED
    BY Zenon, <2>3, <2>4
<1>4. QueueTypes /\ LastApplied \in Int /\ QueueEnd \in Nat
  BY <1>1, SMTT(20) DEF LastApplied, QueueEnd, QueueTypes
<1>5. Len(raft_log.entries) \in Nat /\ Len(ready.entries) \in Nat
  BY Zenon, <1>1, <1>2
<1> QED
  BY Zenon, <1>1, <1>3, <1>4, <1>5 DEF NumberTypes

LEMMA EmptyLogView ==
    ConsensusTypes /\ raft_log.entries = <<>> =>
        /\ FirstEntry = <<>> /\ LastEntry = <<>>
        /\ StorageFirst = persistent.snapshot + 1 /\ StorageLast = persistent.snapshot
        /\ LogEnd = persistent.snapshot
<1> SUFFICES ASSUME ConsensusTypes, raft_log.entries = <<>>
             PROVE  /\ FirstEntry = <<>> /\ LastEntry = <<>>
                    /\ StorageFirst = persistent.snapshot + 1
                    /\ StorageLast = persistent.snapshot
                    /\ LogEnd = persistent.snapshot
  BY Zenon
<1>1. DOMAIN raft_log.entries = {}
  OBVIOUS
<1>2. \A w : WalEntry(w) = <<>>
  BY Zenon, <1>1 DEF WalEntry
<1>3. FirstEntry = <<>> /\ LastEntry = <<>>
  BY Zenon, <1>2 DEF FirstEntry, LastEntry
<1> QED
  BY Zenon, <1>3 DEF StorageFirst, StorageLast, LogEnd

LEMMA LogView ==
    ConsensusTypes /\ raft_log.entries # <<>> /\ compacted <= LogEnd =>
        /\ Offset = LogFirst - raft_log.first
        /\ WalLastIndex = raft_log.first + Len(raft_log.entries) - 1
        /\ FirstEntry # <<>> /\ FirstEntry[1].index = StorageFirst
        /\ LastEntry # <<>> /\ LastEntry[1].index = StorageLast
        /\ StorageFirst = IF compacted > LogFirst THEN compacted ELSE LogFirst
        /\ StorageLast = LogEnd
        /\ \A i \in Nat : i >= StorageFirst /\ i <= LogEnd =>
              EntryOf(i) = <<raft_log.entries[i - LogFirst + 1]>>
<1> SUFFICES ASSUME ConsensusTypes, raft_log.entries # <<>>, compacted <= LogEnd
             PROVE  /\ Offset = LogFirst - raft_log.first
                    /\ WalLastIndex = raft_log.first + Len(raft_log.entries) - 1
                    /\ FirstEntry # <<>> /\ FirstEntry[1].index = StorageFirst
                    /\ LastEntry # <<>> /\ LastEntry[1].index = StorageLast
                    /\ StorageFirst = IF compacted > LogFirst THEN compacted ELSE LogFirst
                    /\ StorageLast = LogEnd
                    /\ \A i \in Nat : i >= StorageFirst /\ i <= LogEnd =>
                          EntryOf(i) = <<raft_log.entries[i - LogFirst + 1]>>
  BY Zenon
<1> DEFINE e == raft_log.entries
<1>1. /\ Len(e) \in Nat \ {0} /\ raft_log.first \in Nat /\ compacted \in Nat
      /\ LogFirst \in Nat \ {0} /\ LogEnd = LogFirst + Len(e) - 1
  BY TypeFacts DEF NumberTypes, EndTypes
<1>a. /\ e \in Seq(LogEntries) /\ DOMAIN e = 1 .. Len(e)
      /\ \A k \in 1 .. Len(e) : e[k].index = LogFirst + k - 1
  BY DEF ConsensusTypes, Consecutive, LogFirst
<1>2. Offset = LogFirst - raft_log.first /\ Offset \in Int
  <2>1. Head(e) = e[1]
    BY <1>1, <1>a
  <2> QED
    BY <1>1, <2>1 DEF Offset, LogFirst
<1>3. WalLastIndex = raft_log.first + Len(e) - 1
  <2>1. Len(e) - 1 \in Int /\ Len(e) - 1 >= 0
    BY <1>1
  <2>2. Max({Len(e) - 1, 0}) = Len(e) - 1
    BY <2>1, Larger
  <2> QED
    BY Zenon, <2>2, <1>1 DEF WalLastIndex
<1>4. \A w \in Int : w >= raft_log.first /\ w <= raft_log.first + Len(e) - 1 =>
         WalEntry(w) = <<e[w - raft_log.first + 1]>>
  BY <1>1, <1>a DEF WalEntry
<1>5. WalEntry(raft_log.first) = <<e[1]>> /\ WalEntry(WalLastIndex) = <<e[Len(e)]>>
  <2>1. raft_log.first - raft_log.first + 1 = 1
    BY <1>1
  <2>2. raft_log.first + Len(e) - 1 - raft_log.first + 1 = Len(e)
    BY <1>1
  <2>3. /\ raft_log.first \in Int /\ WalLastIndex \in Int
        /\ raft_log.first <= raft_log.first + Len(e) - 1
        /\ WalLastIndex - raft_log.first + 1 = Len(e)
        /\ raft_log.first <= WalLastIndex /\ WalLastIndex <= raft_log.first + Len(e) - 1
    BY <1>1, <1>3
  <2>4. WalEntry(raft_log.first) = <<e[1]>>
    BY <1>1, <1>a, <2>1 DEF WalEntry
  <2>5. WalEntry(WalLastIndex) = <<e[Len(e)]>>
    BY Zenon, <1>4, <2>3
  <2> QED
    BY Zenon, <2>4, <2>5
<1>6. e[1].index = LogFirst /\ e[Len(e)].index = LogEnd
  BY <1>1, <1>a
<1>7. LastEntry = <<e[Len(e)]>>
  BY <1>1, <1>5, <1>6 DEF LastEntry
<1>8. FirstEntry # <<>> /\ FirstEntry[1].index = IF compacted > LogFirst THEN compacted
                                                 ELSE LogFirst
  <2>1. CASE LogFirst >= compacted
    BY <1>1, <1>5, <1>6, <2>1 DEF FirstEntry
  <2>2. CASE LogFirst < compacted
    <3>1. compacted >= Offset
      BY <1>1, <1>2, <2>2
    <3>2. FirstEntry = WalEntry(compacted - Offset)
      BY <1>1, <1>2, <1>5, <1>6, <2>2, <3>1 DEF FirstEntry
    <3>a. /\ compacted - Offset = compacted - LogFirst + raft_log.first
          /\ compacted - Offset \in Int
      BY <1>1, <1>2
    <3>b. compacted <= LogFirst + Len(e) - 1
      BY Zenon, <1>1
    <3>3. /\ compacted - Offset - raft_log.first + 1 = compacted - LogFirst + 1
          /\ compacted - Offset \in Int /\ compacted - LogFirst + 1 \in 1 .. Len(e)
          /\ raft_log.first <= compacted - Offset
          /\ compacted - Offset <= raft_log.first + Len(e) - 1
      BY <1>1, <2>2, <3>a, <3>b, SMTT(20)
    <3>4. WalEntry(compacted - Offset) = <<e[compacted - LogFirst + 1]>>
      BY Zenon, <1>4, <3>3
    <3>5. e[compacted - LogFirst + 1].index = compacted
      BY <1>1, <1>a, <3>3
    <3> QED
      BY <2>2, <3>2, <3>4, <3>5, <1>1
  <2> QED
    BY <1>1, <2>1, <2>2
<1>9. /\ StorageFirst = IF compacted > LogFirst THEN compacted ELSE LogFirst
      /\ FirstEntry[1].index = StorageFirst
  BY Zenon, <1>8 DEF StorageFirst
<1>10. StorageLast = LogEnd /\ LastEntry # <<>> /\ LastEntry[1].index = StorageLast
  BY Zenon, <1>6, <1>7 DEF StorageLast
<1>11. ASSUME NEW i \in Nat, i >= StorageFirst, i <= LogEnd
       PROVE  EntryOf(i) = <<e[i - LogFirst + 1]>>
  <2>1. i >= 1 /\ i >= compacted /\ i >= LogFirst
    BY <1>1, <1>9, <1>11
  <2>2. i >= Offset
    BY <1>1, <1>2, <2>1
  <2>3. EntryOf(i) = WalEntry(i - Offset)
    BY <1>1, <1>2, <2>1, <2>2 DEF EntryOf
  <2>a. i - Offset = i - LogFirst + raft_log.first /\ i - Offset \in Int
    BY <1>1, <1>2
  <2>b. i <= LogFirst + Len(e) - 1
    BY Zenon, <1>1, <1>11
  <2>4. /\ i - Offset - raft_log.first + 1 = i - LogFirst + 1 /\ i - Offset \in Int
        /\ raft_log.first <= i - Offset /\ i - Offset <= raft_log.first + Len(e) - 1
    BY <1>1, <2>1, <2>a, <2>b, SMTT(20)
  <2> QED
    BY Zenon, <1>4, <2>3, <2>4
<1> QED
  BY Zenon, <1>2, <1>3, <1>8, <1>9, <1>10, <1>11

StorageEnds ==
    /\ StorageFirst \in Nat \ {0} /\ StorageFirst <= LastApplied + 1
    /\ StorageLast = LogEnd /\ persistent.commit <= LogEnd
    /\ raft_log.entries = <<>> => StorageFirst = persistent.snapshot + 1
    /\ raft_log.entries # <<>> =>
          /\ LogFirst <= StorageFirst /\ compacted <= StorageFirst
          /\ LogEnd = LogFirst + Len(raft_log.entries) - 1

StorageEntries ==
    raft_log.entries # <<>> =>
        \A i \in Nat : i >= StorageFirst /\ i <= LogEnd =>
            EntryOf(i) = <<raft_log.entries[i - LogFirst + 1]>>

LEMMA StorageView == ConsensusTypes /\ StateFits /\ LogFits => StorageEnds /\ StorageEntries
<1> SUFFICES ASSUME ConsensusTypes, StateFits, LogFits PROVE StorageEnds /\ StorageEntries
  BY Zenon
<1>1. NumberTypes /\ EndTypes
  BY Zenon, TypeFacts
<1>2. CASE raft_log.entries = <<>>
  <2>1. /\ StorageFirst = persistent.snapshot + 1 /\ StorageLast = persistent.snapshot
        /\ LogEnd = persistent.snapshot
    BY Zenon, <1>2, EmptyLogView
  <2>2. persistent.commit = persistent.snapshot /\ persistent.snapshot <= LastApplied
    BY Zenon, <1>2 DEF LogFits, StateFits
  <2> QED
    BY <1>1, <1>2, <2>1, <2>2 DEF StorageEnds, StorageEntries, NumberTypes, EndTypes
<1>3. CASE raft_log.entries # <<>>
  <2>1. LogEnd = LogFirst + Len(raft_log.entries) - 1
    BY Zenon, <1>3 DEF LogEnd
  <2>2. /\ LogFirst <= LastApplied + 1
        /\ persistent.commit <= LogFirst + raft_log.flushed - 1
        /\ compacted <= LastApplied + 1 /\ compacted <= persistent.commit
        /\ raft_log.flushed <= Len(raft_log.entries) /\ compacted \in Nat
    BY Zenon, <1>3 DEF LogFits, StateFits, ConsensusTypes
  <2>3. persistent.commit <= LogEnd /\ compacted <= LogEnd
    BY <1>1, <1>3, <2>1, <2>2, SMTT(20) DEF NumberTypes, EndTypes
  <2>4. /\ StorageFirst = IF compacted > LogFirst THEN compacted ELSE LogFirst
        /\ StorageLast = LogEnd
    BY Zenon, <1>3, <2>3, LogView
  <2>6. \A i \in Nat : i >= StorageFirst /\ i <= LogEnd =>
           EntryOf(i) = <<raft_log.entries[i - LogFirst + 1]>>
    BY Zenon, <1>3, <2>3, LogView
  <2>5. /\ StorageFirst \in Nat \ {0} /\ StorageFirst <= LastApplied + 1
        /\ LogFirst <= StorageFirst /\ compacted <= StorageFirst
    <3>1. LogFirst \in Nat \ {0}
      BY Zenon, <1>1, <1>3 DEF EndTypes
    <3>2. CASE compacted > LogFirst
      BY <2>2, <2>4, <3>1, <3>2
    <3>3. CASE ~(compacted > LogFirst)
      BY <2>2, <2>4, <3>1, <3>3
    <3> QED
      BY Zenon, <3>2, <3>3
  <2> QED
    BY Zenon, <1>3, <2>1, <2>3, <2>4, <2>5, <2>6 DEF StorageEnds, StorageEntries
<1> QED
  BY Zenon, <1>2, <1>3

-----------------------------------------------------------------------------
(* What the invariant says of the properties.                              *)

LEMMA InvariantSuffices ==
    ConsensusInv => ConsensusLogIsTrue /\ EntriesAreAppliedInOrder /\ ConsensusGoesOn
<1> SUFFICES ASSUME ConsensusInv
             PROVE  ConsensusLogIsTrue /\ EntriesAreAppliedInOrder /\ ConsensusGoesOn
  BY Zenon
<1>1. /\ ConsensusTypes /\ StateFits /\ ReadyFits
      /\ NumberTypes /\ EndTypes /\ QueueTypes
  BY Zenon, TypeFacts DEF ConsensusInv
<1>2. ASSUME peer = "up", stage # "clear"
      PROVE  LogFits /\ StorageEnds /\ StorageEntries
  <2>1. LogFits
    BY Zenon, <1>2 DEF ConsensusInv, LeftOver, Uncleared
  <2> QED
    BY Zenon, <1>1, <2>1, StorageView
<1>3. ASSUME peer = "up", stage # "clear", NEW i \in DOMAIN sent, i >= StorageFirst
      PROVE  EntryOf(i) = <<sent[i]>>
  <2>1. i \in Nat /\ LogFits /\ StorageEnds /\ StorageEntries
    BY Zenon, <1>1, <1>2, <1>3 DEF ConsensusTypes
  <2>2. raft_log.entries # <<>>
    <3>1. raft_log.entries = <<>> => i <= persistent.snapshot
      BY Zenon, <2>1 DEF LogFits
    <3> QED
      BY <1>1, <1>3, <2>1, <3>1 DEF StorageEnds, NumberTypes
  <2>3. i >= LogFirst
    BY <1>1, <1>3, <2>1, <2>2 DEF StorageEnds, EndTypes
  <2>4. /\ i - LogFirst + 1 <= raft_log.flushed
        /\ raft_log.entries[i - LogFirst + 1] = sent[i]
    BY Zenon, <2>1, <2>2, <2>3 DEF LogFits
  <2>5. i <= LogEnd
    BY <1>1, <2>1, <2>2, <2>4 DEF NumberTypes, EndTypes
  <2> QED
    BY Zenon, <1>3, <2>1, <2>2, <2>4, <2>5 DEF StorageEntries
<1>4. ASSUME peer = "up", stage # "clear", NEW i \in StorageFirst .. persistent.commit,
             ~(uncleared /\ i <= persistent.snapshot)
      PROVE  EntryOf(i) = <<Entry(i, FALSE)>>
  <2>1. LogFits /\ StorageEnds /\ StorageEntries
    BY Zenon, <1>2, <1>4
  <2>2. i \in Nat /\ i >= StorageFirst /\ i <= persistent.commit /\ i <= LogEnd
    BY <1>1, <2>1 DEF StorageEnds, NumberTypes
  <2>3. raft_log.entries # <<>>
    <3>1. raft_log.entries = <<>> => persistent.commit = persistent.snapshot
      BY Zenon, <2>1 DEF LogFits
    <3> QED
      BY <1>1, <2>1, <2>2, <3>1 DEF StorageEnds, NumberTypes
  <2> DEFINE k == i - LogFirst + 1
  <2>4. k \in 1 .. Len(raft_log.entries) /\ LogFirst + k - 1 = i
    <3>1. /\ LogFirst \in Nat /\ Len(raft_log.entries) \in Nat /\ LogFirst <= i
          /\ i <= LogFirst + Len(raft_log.entries) - 1
      BY <1>1, <2>1, <2>2, <2>3 DEF StorageEnds, NumberTypes, EndTypes
    <3> QED
      BY <2>2, <3>1
  <2>5. EntryOf(i) = <<raft_log.entries[k]>>
    BY Zenon, <2>1, <2>2, <2>3 DEF StorageEntries
  <2> HIDE DEF k
  <2>6. ~raft_log.entries[k].stray
    BY Zenon, <1>4, <2>1, <2>2, <2>3, <2>4 DEF LogFits, Old
  <2>7. raft_log.entries[k].index = i
    BY Zenon, <1>1, <2>4 DEF ConsensusTypes, Consecutive, LogFirst
  <2>8. raft_log.entries[k] \in LogEntries
    BY <1>1, <2>4 DEF ConsensusTypes
  <2>9. raft_log.entries[k] = Entry(i, FALSE)
    BY <2>6, <2>7, <2>8, Zenon DEF LogEntries, Entry
  <2> QED
    BY Zenon, <2>5, <2>9
<1>5. ConsensusLogIsTrue
  BY <1>3, <1>4, Zenon DEF ConsensusLogIsTrue, SentEntriesAreKept, CommittedEntriesAreRead
<1>6. AppliedInOrder
  <2>1. LastApplied <= toc /\ LastApplied <= persistent.commit
    BY <1>1 DEF StateFits, NumberTypes, EndTypes
  <2>2. Unapplied => persistent.queue[1] <= toc + 1
    BY <1>1, <2>1 DEF Unapplied, NumberTypes, QueueTypes, ConsensusTypes
  <2> QED
    BY Zenon, <2>1, <2>2 DEF AppliedInOrder
<1>7. SnapshotIsWhole
  <2> SUFFICES ASSUME At("idle"), ~fresh
               PROVE  LastApplied = persistent.commit /\ toc >= persistent.commit
    BY Zenon DEF SnapshotIsWhole
  <2>1. ~Unapplied /\ QueueEnd = persistent.commit
    BY Zenon, <1>1 DEF At, ReadyFits, QueueIsDone
  <2>2. LastApplied = QueueEnd
    BY <1>1, <2>1 DEF Unapplied, NumberTypes, QueueTypes, StateFits
  <2> QED
    BY Zenon, <1>1, <2>1, <2>2 DEF StateFits, NumberTypes, EndTypes, ConsensusTypes
<1>8. ConsensusGoesOn
  BY Zenon DEF ConsensusInv, ConsensusGoesOn
<1> QED
  BY Zenon, <1>5, <1>6, <1>7, <1>8 DEF EntriesAreAppliedInOrder

-----------------------------------------------------------------------------
(* Steps.                                                                  *)

\* What the invariant says where the log is not being cleared.
LEMMA InvariantFacts ==
    ASSUME ConsensusInv
    PROVE  /\ ConsensusTypes /\ StateFits /\ ReadyFits
           /\ NumberTypes /\ EndTypes /\ QueueTypes
           /\ peer \in {"up", "stopped"} /\ stage # "clear" =>
                 LogFits /\ StorageEnds /\ StorageEntries
<1>1. /\ ConsensusTypes /\ StateFits /\ ReadyFits
      /\ NumberTypes /\ EndTypes /\ QueueTypes
  BY Zenon, TypeFacts DEF ConsensusInv
<1>2. ASSUME peer \in {"up", "stopped"}, stage # "clear" PROVE LogFits
  BY Zenon, <1>2 DEF ConsensusInv, LeftOver, Uncleared
<1> QED
  BY Zenon, <1>1, <1>2, StorageView

\* A step that leaves the log, the entries in work and the state file alone.
LEMMA LogUntouched ==
    ASSUME UNCHANGED <<raft_log, sent, persistent, ready, uncleared>>
    PROVE  /\ LogFits' = LogFits /\ EntriesFit' = EntriesFit
           /\ SnapshotFits' = SnapshotFits /\ NewAreGood' = NewAreGood
           /\ Unapplied' = Unapplied /\ QueueEnd' = QueueEnd /\ LogEnd' = LogEnd
           /\ LastApplied' = LastApplied /\ ReadyFirst' = ReadyFirst
<1>1. LastApplied' = LastApplied /\ LogFirst' = LogFirst
  BY Zenon DEF LastApplied, LogFirst
<1>2. LogEnd' = LogEnd /\ ReadyFirst' = ReadyFirst /\ ReadyLast' = ReadyLast
  BY Zenon, <1>1 DEF LogEnd, ReadyFirst, ReadyLast
<1>3. LogFits' = LogFits
  BY Zenon, <1>1 DEF LogFits, Old
<1>4. EntriesFit' = EntriesFit
  BY Zenon, <1>1, <1>2 DEF EntriesFit, Old, OffsetFits
<1>5. SnapshotFits' = SnapshotFits /\ NewAreGood' = NewAreGood
  BY Zenon, <1>2 DEF SnapshotFits, NewAreGood
<1>6. Unapplied' = Unapplied /\ QueueEnd' = QueueEnd
  BY Zenon DEF Unapplied, QueueEnd
<1> QED
  BY Zenon, <1>1, <1>2, <1>3, <1>4, <1>5, <1>6

LEMMA ApplySnapshotStep ==
    ASSUME ConsensusInv, ApplySnapshot
    PROVE  ConsensusInv'
<1>1. /\ ConsensusTypes /\ StateFits /\ ReadyFits /\ NumberTypes
      /\ peer = "up" /\ stage = "snapshot" /\ LogFits
  BY Zenon, InvariantFacts DEF ApplySnapshot, At
<1>2. UNCHANGED <<peer, ready, raft_log, compacted, persistent, raft_applied, fresh,
                  sent, uncleared>>
  BY Zenon DEF ApplySnapshot
<1>3. /\ LogFits' /\ EntriesFit' = EntriesFit
      /\ SnapshotFits' = SnapshotFits /\ NewAreGood' = NewAreGood
      /\ Unapplied' = Unapplied /\ QueueEnd' = QueueEnd /\ LastApplied' = LastApplied
  BY Zenon, <1>1, <1>2, LogUntouched
<1>4. \/ stage' = "append" /\ toc' = toc /\ EntriesFit
      \/ stage' = "save" /\ toc' = ready.snapshot /\ SnapshotFits
  BY Zenon, <1>1 DEF ApplySnapshot, ReadyFits
<1>5. LastApplied <= toc' /\ toc' \in Nat
  BY <1>1, <1>4, SMTT(20) DEF StateFits, NumberTypes, SnapshotFits
<1>6. ConsensusTypes'
  BY Zenon, <1>1, <1>2, <1>4, <1>5 DEF ConsensusTypes, Stages, Consecutive
<1>7. StateFits'
  BY Zenon, <1>1, <1>2, <1>3, <1>5 DEF StateFits
<1>8. QueueIsDone /\ QueueIsDone' = QueueIsDone
  BY Zenon, <1>1, <1>2, <1>3 DEF ReadyFits, QueueIsDone
<1>9. ready.offset = NoOffset
  BY Zenon, <1>1 DEF ReadyFits
<1>10. ReadyFits'
  BY Zenon, <1>1, <1>2, <1>3, <1>4, <1>8, <1>9 DEF ReadyFits, Storing
<1> QED
  BY Zenon, <1>1, <1>2, <1>3, <1>6, <1>7, <1>10 DEF ConsensusInv

LEMMA SaveSnapshotStep ==
    ASSUME ConsensusInv, SaveSnapshot
    PROVE  ConsensusInv'
<1>1. /\ ConsensusTypes /\ StateFits /\ ReadyFits /\ NumberTypes
      /\ peer = "up" /\ stage = "save" /\ SnapshotFits /\ LogFits
      /\ toc = ready.snapshot /\ NewAreGood
  BY Zenon, InvariantFacts DEF SaveSnapshot, At, ReadyFits, Storing
<1>2. /\ UNCHANGED <<peer, ready, raft_log, compacted, toc, fresh, sent, uncleared>>
      /\ stage' = "clear" /\ raft_applied' = ready.snapshot
      /\ persistent' = [commit |-> ready.snapshot, snapshot |-> ready.snapshot,
                        queue |-> <<ready.snapshot + 1, ready.snapshot>>]
  BY Zenon DEF SaveSnapshot
<1>3. /\ persistent'.commit = ready.snapshot /\ persistent'.snapshot = ready.snapshot
      /\ persistent'.queue = <<ready.snapshot + 1, ready.snapshot>>
      /\ persistent'.queue # <<>> /\ persistent'.queue \in Nat \X Nat
  BY <1>1, <1>2 DEF NumberTypes
<1>4. LastApplied' = ready.snapshot /\ QueueEnd' = ready.snapshot /\ ~Unapplied'
  BY <1>1, <1>3 DEF NumberTypes, LastApplied, QueueEnd, Unapplied
<1>5. ConsensusTypes'
  BY Zenon, <1>1, <1>2, <1>3 DEF ConsensusTypes, NumberTypes, Stages, Consecutive
<1>6. StateFits'
  BY <1>1, <1>2, <1>3, <1>4, SMTT(20) DEF StateFits, SnapshotFits, NumberTypes
<1>7. SnapshotFits' /\ NewAreGood'
  BY <1>1, <1>2, <1>3 DEF SnapshotFits, NewAreGood, ReadyFirst, ReadyLast, NumberTypes
<1>8. /\ LogFirst' = LogFirst
      /\ raft_log.entries # <<>> => raft_log.first < LogFirst
  BY Zenon, <1>1, <1>2 DEF LogFirst, LogFits
<1>9. ReadyFits'
  BY Zenon, <1>1, <1>2, <1>3, <1>4, <1>7, <1>8 DEF ReadyFits, Storing, SnapshotFits, QueueIsDone
<1> QED
  BY Zenon, <1>1, <1>2, <1>5, <1>6, <1>9 DEF ConsensusInv

LEMMA ClearLogStep ==
    ASSUME ConsensusInv, ClearLog
    PROVE  ConsensusInv'
<1>1. /\ ConsensusTypes /\ StateFits /\ ReadyFits /\ NumberTypes
      /\ peer = "up" /\ stage = "clear" /\ SnapshotFits
      /\ persistent.snapshot = ready.snapshot /\ NewAreGood
  BY Zenon, InvariantFacts DEF ClearLog, At, ReadyFits, Storing
<1>2. /\ UNCHANGED <<peer, ready, compacted, persistent, raft_applied, toc, fresh, sent,
                     uncleared>>
      /\ stage' = "append" /\ raft_log' = EmptyLog
  BY Zenon DEF ClearLog
<1>3. /\ raft_log'.entries = <<>> /\ raft_log'.first = 0 /\ raft_log'.flushed = 0
      /\ Len(raft_log'.entries) = 0
      /\ raft_log' \in [first : Nat, entries : Seq(LogEntries), flushed : Nat]
  BY <1>2 DEF EmptyLog
<1>4. /\ LastApplied' = LastApplied /\ QueueEnd' = QueueEnd /\ Unapplied' = Unapplied
      /\ LogEnd' = persistent.snapshot /\ NewAreGood' = NewAreGood
      /\ ReadyFirst' = ReadyFirst /\ ReadyLast' = ReadyLast
  BY Zenon, <1>2, <1>3 DEF LastApplied, QueueEnd, Unapplied, LogEnd, NewAreGood, ReadyFirst,
                    ReadyLast
<1>5. ConsensusTypes'
  BY <1>1, <1>2, <1>3 DEF ConsensusTypes, Stages, Consecutive
<1>6. StateFits'
  BY Zenon, <1>1, <1>2, <1>4 DEF StateFits
<1>7. persistent.commit = persistent.snapshot
  BY <1>1 DEF SnapshotFits, StateFits, NumberTypes
<1>8. LogFits'
  BY Zenon, <1>1, <1>2, <1>3, <1>7 DEF LogFits, SnapshotFits
<1>9. EntriesFit'
  BY <1>1, <1>2, <1>3, <1>4, <1>7 DEF EntriesFit, SnapshotFits, NumberTypes
<1>10. QueueIsDone /\ QueueIsDone' = QueueIsDone
  BY Zenon, <1>1, <1>2, <1>4 DEF ReadyFits, QueueIsDone
<1>11. ready.offset = NoOffset
  BY Zenon, <1>1 DEF SnapshotFits
<1>12. ReadyFits'
  BY Zenon, <1>1, <1>2, <1>3, <1>4, <1>9, <1>10, <1>11 DEF ReadyFits, Storing
<1> QED
  BY Zenon, <1>1, <1>2, <1>5, <1>6, <1>8, <1>12 DEF ConsensusInv

LEMMA FlushEntriesStep ==
    ASSUME ConsensusInv, FlushEntries
    PROVE  ConsensusInv'
<1>1. /\ ConsensusTypes /\ StateFits /\ ReadyFits /\ NumberTypes
      /\ peer = "up" /\ stage = "append" /\ LogFits /\ EntriesFit
      /\ ready.entries = <<>>
  BY Zenon, InvariantFacts DEF FlushEntries, At, ReadyFits
<1>2. /\ UNCHANGED <<peer, ready, compacted, persistent, raft_applied, toc, fresh, sent,
                     uncleared>>
      /\ stage' = "hard_state"
      /\ raft_log' = [raft_log EXCEPT !.flushed = Len(raft_log.entries)]
  BY Zenon DEF FlushEntries
<1>3. /\ raft_log'.entries = raft_log.entries /\ raft_log'.first = raft_log.first
      /\ raft_log'.flushed = Len(raft_log.entries)
      /\ raft_log' \in [first : Nat, entries : Seq(LogEntries), flushed : Nat]
  BY <1>1, <1>2, SMTT(20) DEF ConsensusTypes, NumberTypes
<1>4. /\ LastApplied' = LastApplied /\ QueueEnd' = QueueEnd /\ Unapplied' = Unapplied
      /\ LogFirst' = LogFirst /\ LogEnd' = LogEnd /\ NewAreGood' = NewAreGood
      /\ ReadyFirst' = ReadyFirst /\ ReadyLast' = ReadyLast
  BY Zenon, <1>2, <1>3 DEF LastApplied, QueueEnd, Unapplied, LogFirst, LogEnd, NewAreGood,
                    ReadyFirst, ReadyLast
<1>5. ConsensusTypes'
  BY <1>1, <1>2, <1>3, SMTT(20) DEF ConsensusTypes, NumberTypes, Stages, Consecutive
<1>6. StateFits'
  BY Zenon, <1>1, <1>2, <1>4 DEF StateFits
<1>7. LogFits'
  <2>1. CASE raft_log.entries = <<>>
    BY Zenon, <1>1, <1>2, <1>3, <2>1 DEF LogFits
  <2>2. CASE raft_log.entries # <<>>
    <3>1. LogFirst \in Nat /\ raft_log.flushed <= Len(raft_log.entries)
      BY Zenon, <1>1, <2>2, InvariantFacts DEF EndTypes, NumberTypes
    <3>2. persistent.commit <= LogFirst + raft_log'.flushed - 1 /\ raft_log'.flushed # 0
      BY <1>1, <1>3, <2>2, <3>1, InvariantFacts DEF LogFits, NumberTypes, EndTypes
    <3>3. ASSUME NEW i \in DOMAIN sent, i >= LogFirst
          PROVE  /\ i - LogFirst + 1 <= raft_log'.flushed
                 /\ raft_log.entries[i - LogFirst + 1] = sent[i]
      <4>1. i \in Nat
        BY Zenon, <1>1 DEF ConsensusTypes
      <4>2. /\ i - LogFirst + 1 <= raft_log.flushed
            /\ raft_log.entries[i - LogFirst + 1] = sent[i]
        BY Zenon, <1>1, <2>2, <3>3 DEF LogFits
      <4> QED
        BY <1>1, <1>3, <3>1, <4>1, <4>2 DEF NumberTypes
    <3> QED
      BY Zenon, <1>1, <1>2, <1>3, <1>4, <2>2, <3>2, <3>3 DEF LogFits, Old
  <2> QED
    BY Zenon, <2>1, <2>2
<1>8. EntriesFit'
  BY Zenon, <1>1, <1>2, <1>3, <1>4 DEF EntriesFit, Old, OffsetFits
<1>9. QueueIsDone /\ QueueIsDone' = QueueIsDone
  BY Zenon, <1>1, <1>2, <1>4 DEF ReadyFits, QueueIsDone
<1>10. ReadyFits'
  BY Zenon, <1>1, <1>2, <1>3, <1>4, <1>8, <1>9 DEF ReadyFits, Storing
<1> QED
  BY Zenon, <1>1, <1>2, <1>5, <1>6, <1>7, <1>10 DEF ConsensusInv

\* The commit index moves over entries that are flushed and not stray.
LEMMA CommitMoves ==
    ASSUME ConsensusInv, LogFits, raft_log.flushed = Len(raft_log.entries),
           NEW c \in Nat, persistent.commit <= c, c <= LogEnd,
           \A k \in 1 .. Len(raft_log.entries) :
               LogFirst + k - 1 <= c => ~raft_log.entries[k].stray \/ Old(LogFirst + k - 1),
           persistent' = [persistent EXCEPT !.commit = c],
           UNCHANGED <<raft_log, compacted, raft_applied, toc, sent, uncleared>>
    PROVE  /\ LogFits' /\ StateFits'
           /\ persistent' \in [commit : Nat, snapshot : Nat, queue : {<<>>} \cup (Nat \X Nat)]
           /\ persistent'.commit = c /\ persistent'.snapshot = persistent.snapshot
           /\ persistent'.queue = persistent.queue
           /\ LastApplied' = LastApplied /\ QueueEnd' = QueueEnd /\ Unapplied' = Unapplied
           /\ LogFirst' = LogFirst /\ LogEnd' = LogEnd
<1>1. ConsensusTypes /\ StateFits /\ NumberTypes /\ EndTypes
  BY Zenon, InvariantFacts
<1>2. /\ persistent'.commit = c /\ persistent'.snapshot = persistent.snapshot
      /\ persistent'.queue = persistent.queue
      /\ persistent' \in [commit : Nat, snapshot : Nat, queue : {<<>>} \cup (Nat \X Nat)]
  BY Zenon, <1>1 DEF ConsensusTypes
<1>3. /\ LastApplied' = LastApplied /\ QueueEnd' = QueueEnd /\ Unapplied' = Unapplied
      /\ LogFirst' = LogFirst /\ LogEnd' = LogEnd
  BY Zenon, <1>2 DEF LastApplied, QueueEnd, Unapplied, LogFirst, LogEnd
<1>4. StateFits'
  <2>1. QueueEnd <= persistent.commit /\ compacted <= persistent.commit
    BY Zenon, <1>1 DEF StateFits
  <2>2. QueueEnd <= c /\ compacted <= c
    BY <1>1, <2>1 DEF NumberTypes
  <2> QED
    BY Zenon, <1>1, <1>2, <1>3, <2>2 DEF StateFits
<1>5. LogFits'
  <2>1. CASE raft_log.entries = <<>>
    <3>1. c = persistent.snapshot
      BY <1>1, <2>1 DEF LogFits, EndTypes, NumberTypes
    <3> QED
      BY Zenon, <1>2, <2>1, <3>1 DEF LogFits
  <2>2. CASE raft_log.entries # <<>>
    <3>1. /\ LogFirst \in Nat /\ LogFirst <= LastApplied + 1
          /\ LastApplied <= persistent.commit
          /\ LogEnd = LogFirst + raft_log.flushed - 1
          /\ LogFirst > persistent.commit =>
                persistent.snapshot = persistent.commit /\ (raft_log.first = 0 \/ uncleared)
      BY <1>1, <2>2 DEF LogFits, StateFits, EndTypes, NumberTypes
    <3>2. LogFirst > c => persistent.snapshot = c /\ (raft_log.first = 0 \/ uncleared)
      BY <1>1, <3>1, SMTT(20) DEF NumberTypes
    <3>3. c <= LogFirst + raft_log.flushed - 1
      BY Zenon, <3>1
    <3> QED
      BY Zenon, <1>2, <1>3, <2>2, <3>2, <3>3 DEF LogFits, Old
  <2> QED
    BY Zenon, <2>1, <2>2
<1> QED
  BY Zenon, <1>2, <1>3, <1>4, <1>5

LEMMA SetHardStateStep ==
    ASSUME ConsensusInv, SetHardState
    PROVE  ConsensusInv'
<1>1. /\ ConsensusTypes /\ StateFits /\ ReadyFits /\ NumberTypes
      /\ peer = "up" /\ stage = "hard_state" /\ LogFits /\ EntriesFit
      /\ ready.entries = <<>> /\ raft_log.flushed = Len(raft_log.entries)
      /\ ready.part = "ready" /\ ready.apply_to <= ready.commit
      /\ persistent.commit <= ready.commit /\ QueueIsDone
  BY Zenon, InvariantFacts DEF SetHardState, At, ReadyFits, Storing
<1>2. /\ UNCHANGED <<peer, ready, raft_log, compacted, raft_applied, toc, fresh, sent,
                     uncleared>>
      /\ stage' = "committed"
      /\ persistent' = [persistent EXCEPT !.commit = ready.commit]
  BY Zenon DEF SetHardState
<1>3. /\ ready.commit \in Nat /\ ready.commit <= LogEnd
      /\ \A k \in 1 .. Len(raft_log.entries) :
            LogFirst + k - 1 <= ready.commit =>
                ~raft_log.entries[k].stray \/ Old(LogFirst + k - 1)
  BY Zenon, <1>1 DEF EntriesFit, NumberTypes
<1>4. /\ LogFits' /\ StateFits'
      /\ persistent' \in [commit : Nat, snapshot : Nat, queue : {<<>>} \cup (Nat \X Nat)]
      /\ persistent'.commit = ready.commit
      /\ Unapplied' = Unapplied /\ LastApplied' = LastApplied
  BY Zenon, <1>1, <1>2, <1>3, CommitMoves
<1>5. ConsensusTypes'
  BY Zenon, <1>1, <1>2, <1>4 DEF ConsensusTypes, Stages, Consecutive
<1>6. ReadyFits'
  BY Zenon, <1>1, <1>2, <1>4 DEF ReadyFits, Storing, QueueIsDone
<1> QED
  BY Zenon, <1>1, <1>2, <1>4, <1>5, <1>6 DEF ConsensusInv

LEMMA LightReadyStep ==
    ASSUME ConsensusInv, LightReady
    PROVE  ConsensusInv'
<1>1. /\ ConsensusTypes /\ StateFits /\ ReadyFits /\ NumberTypes /\ EndTypes
      /\ peer = "up" /\ stage = "apply" /\ LogFits
      /\ StorageEnds /\ StorageEntries /\ ~Unapplied
      /\ raft_log.flushed = Len(raft_log.entries) /\ ready.commit = persistent.commit
  BY InvariantFacts, SMTT(20) DEF LightReady, At, ReadyFits
<1>2. PICK c \in Committable(ready.commit, StorageLast, <<>>) :
         /\ persistent' = [persistent EXCEPT !.commit = c]
         /\ ready' = [ready EXCEPT !.commit = c, !.part = "light"]
  BY Zenon DEF LightReady
<1>3. /\ UNCHANGED <<peer, raft_log, compacted, raft_applied, toc, fresh, sent, uncleared>>
      /\ stage' = "committed"
  BY Zenon DEF LightReady
<1>4. /\ c \in persistent.commit .. LogEnd
      /\ \A i \in persistent.commit + 1 .. c : ~EntryOf(i)[1].stray
  BY Zenon, <1>1, <1>2 DEF Committable, With, StorageEnds
<1>5. c \in Nat /\ persistent.commit <= c /\ c <= LogEnd
  BY <1>1, <1>4 DEF NumberTypes
<1>6. ASSUME NEW k \in 1 .. Len(raft_log.entries), LogFirst + k - 1 <= c
      PROVE  ~raft_log.entries[k].stray \/ Old(LogFirst + k - 1)
  <2>1. raft_log.entries # <<>> /\ LogFirst \in Nat
    BY <1>1 DEF EndTypes
  <2>2. CASE LogFirst + k - 1 <= persistent.commit
    BY Zenon, <1>1, <2>1, <2>2 DEF LogFits
  <2>3. CASE LogFirst + k - 1 > persistent.commit
    <3> DEFINE i == LogFirst + k - 1
    <3>1. /\ i \in Nat /\ i \in persistent.commit + 1 .. c /\ i <= LogEnd
          /\ i - LogFirst + 1 = k
      BY <1>1, <1>5, <1>6, <2>1, <2>3 DEF NumberTypes
    <3>2. i >= StorageFirst
      <4>1. StorageFirst \in Nat /\ StorageFirst <= persistent.commit + 1
        BY <1>1 DEF StorageEnds, StateFits, NumberTypes
      <4> QED
        BY <1>1, <3>1, <4>1 DEF NumberTypes
    <3>3. EntryOf(i) = <<raft_log.entries[k]>>
      BY Zenon, <1>1, <2>1, <3>1, <3>2 DEF StorageEntries
    <3> HIDE DEF i
    <3> QED
      BY <1>4, <3>1, <3>3
  <2> QED
    BY <1>1, <2>1, <2>2, <2>3 DEF NumberTypes
<1>7. /\ LogFits' /\ StateFits'
      /\ persistent' \in [commit : Nat, snapshot : Nat, queue : {<<>>} \cup (Nat \X Nat)]
      /\ persistent'.commit = c /\ Unapplied' = Unapplied
  BY Zenon, <1>1, <1>2, <1>3, <1>5, <1>6, CommitMoves
<1>8. /\ ready'.commit = c /\ ready'.part = "light" /\ ready'.entries = ready.entries
      /\ ready'.apply_to = ready.apply_to
      /\ ready' \in [snapshot : Nat, entries : Seq(LogEntries), offset : Int, commit : Nat,
                     apply_to : Nat, part : {"none", "ready", "light", "startup"}]
  BY <1>1, <1>2, <1>5, Zenon DEF ConsensusTypes
<1>9. ConsensusTypes'
  BY <1>1, <1>3, <1>7, <1>8, SMTT(20) DEF ConsensusTypes, Stages, Consecutive
<1>10. ReadyFits'
  BY Zenon, <1>1, <1>3, <1>7, <1>8 DEF ReadyFits, Storing, QueueIsDone
<1> QED
  BY Zenon, <1>1, <1>3, <1>7, <1>9, <1>10 DEF ConsensusInv

\* A step that only queues entries, or counts one as applied.
LEMMA QueueMoves ==
    ASSUME ConsensusInv, LogFits, raft_log.entries # <<>>,
           NEW a \in Nat, NEW b \in Nat, a >= 1, a <= b + 1, b <= persistent.commit,
           persistent.snapshot <= a - 1, a - 1 <= toc, raft_applied' <= b,
           persistent.snapshot <= raft_applied', raft_applied' \in Nat,
           LogFirst <= a, compacted <= a,
           persistent' = [persistent EXCEPT !.queue = <<a, b>>],
           UNCHANGED <<raft_log, compacted, toc>>
    PROVE  /\ StateFits'
           /\ persistent' \in [commit : Nat, snapshot : Nat, queue : {<<>>} \cup (Nat \X Nat)]
           /\ persistent'.commit = persistent.commit
           /\ persistent'.snapshot = persistent.snapshot
           /\ LastApplied' = a - 1 /\ QueueEnd' = b
           /\ LogFirst' = LogFirst /\ LogEnd' = LogEnd
<1>1. ConsensusTypes /\ StateFits /\ NumberTypes /\ EndTypes
  BY Zenon, InvariantFacts
<1>2. /\ persistent'.commit = persistent.commit
      /\ persistent'.snapshot = persistent.snapshot
      /\ persistent'.queue = <<a, b>>
      /\ persistent' \in [commit : Nat, snapshot : Nat, queue : {<<>>} \cup (Nat \X Nat)]
  BY <1>1, Zenon DEF ConsensusTypes
<1>3. LastApplied' = a - 1 /\ QueueEnd' = b /\ persistent'.queue[1] = a
  BY Zenon, <1>2 DEF LastApplied, QueueEnd
<1>4. LogFirst' = LogFirst /\ LogEnd' = LogEnd
  BY Zenon, <1>2 DEF LogFirst, LogEnd
<1>5. StateFits'
  <2>1. compacted <= persistent.commit
    BY Zenon, <1>1 DEF StateFits
  <2>2. a - 1 <= b /\ compacted <= a - 1 + 1
    BY <1>1, SMTT(20) DEF NumberTypes
  <2> QED
    BY Zenon, <1>2, <1>3, <2>1, <2>2 DEF StateFits
<1> QED
  BY Zenon, <1>2, <1>3, <1>4, <1>5

LEMMA EntryAppliedStep ==
    ASSUME ConsensusInv, EntryApplied
    PROVE  ConsensusInv'
<1>1. /\ ConsensusTypes /\ StateFits /\ ReadyFits /\ NumberTypes /\ EndTypes /\ QueueTypes
      /\ peer = "up" /\ stage = "applied" /\ LogFits
      /\ Unapplied /\ persistent.queue[1] <= toc
  BY Zenon, InvariantFacts DEF EntryApplied, At, ReadyFits
<1>2. /\ UNCHANGED <<peer, ready, raft_log, compacted, raft_applied, toc, fresh, sent,
                     uncleared>>
      /\ stage' = "apply"
      /\ persistent' = [persistent EXCEPT !.queue[1] = @ + 1]
  BY Zenon DEF EntryApplied
<1> DEFINE q == persistent.queue
<1>3. /\ q \in Nat \X Nat /\ q[1] \in Nat /\ q[2] \in Nat /\ q[1] <= q[2]
      /\ LastApplied = q[1] - 1 /\ QueueEnd = q[2]
  BY Zenon, <1>1 DEF Unapplied, QueueTypes
<1>4. [q EXCEPT ![1] = @ + 1] = <<q[1] + 1, q[2]>>
  BY <1>3
<1>5. persistent' = [persistent EXCEPT !.queue = <<q[1] + 1, q[2]>>]
  BY <1>1, <1>2, <1>4, Zenon DEF ConsensusTypes
<1>6. /\ q[2] <= persistent.commit /\ persistent.snapshot <= q[1] - 1
      /\ raft_applied <= q[2] /\ persistent.snapshot <= raft_applied
      /\ compacted <= q[1]
  BY <1>1, <1>3 DEF StateFits, NumberTypes
<1>7. raft_log.entries # <<>> /\ LogFirst <= q[1]
  <2>1. raft_log.entries = <<>> => persistent.commit = persistent.snapshot
    BY Zenon, <1>1 DEF LogFits
  <2>2. raft_log.entries # <<>>
    BY <1>1, <1>3, <1>6, <2>1 DEF NumberTypes
  <2>3. LogFirst \in Nat /\ LogFirst <= LastApplied + 1
    BY Zenon, <1>1, <2>2 DEF LogFits, EndTypes
  <2> QED
    BY <1>3, <2>2, <2>3
<1>8. /\ StateFits'
      /\ persistent' \in [commit : Nat, snapshot : Nat, queue : {<<>>} \cup (Nat \X Nat)]
      /\ persistent'.commit = persistent.commit
      /\ persistent'.snapshot = persistent.snapshot
      /\ LastApplied' = q[1] /\ QueueEnd' = QueueEnd
      /\ LogFirst' = LogFirst /\ LogEnd' = LogEnd
  <2>1. /\ q[1] + 1 \in Nat /\ q[1] + 1 >= 1 /\ q[1] + 1 <= q[2] + 1
        /\ persistent.snapshot <= q[1] + 1 - 1 /\ q[1] + 1 - 1 <= toc
        /\ LogFirst <= q[1] + 1 /\ compacted <= q[1] + 1 /\ q[1] + 1 - 1 = q[1]
    <3>1. /\ LogFirst \in Nat /\ q[1] \in Nat /\ q[2] \in Nat /\ q[1] <= q[2]
          /\ persistent.snapshot \in Nat /\ toc \in Nat /\ compacted \in Nat
          /\ persistent.snapshot <= q[1] - 1 /\ q[1] <= toc
          /\ LogFirst <= q[1] /\ compacted <= q[1]
      BY Zenon, <1>1, <1>3, <1>6, <1>7 DEF EndTypes, NumberTypes
    <3> HIDE DEF q
    <3> QED
      BY <3>1
  <2>2. raft_applied' \in Nat /\ raft_applied' <= q[2] /\ persistent.snapshot <= raft_applied'
    BY Zenon, <1>1, <1>2, <1>6 DEF NumberTypes
  <2>3. UNCHANGED <<raft_log, compacted, toc>>
    BY Zenon, <1>2
  <2> HIDE DEF q
  <2> QED
    BY <1>1, <1>3, <1>5, <1>6, <1>7, <2>1, <2>2, <2>3, QueueMoves, SMTT(20)
<1>9. ConsensusTypes'
  BY Zenon, <1>1, <1>2, <1>8 DEF ConsensusTypes, Stages, Consecutive
<1>10. LogFits'
  <2>1. LogFirst <= LastApplied' + 1
    <3>1. LogFirst \in Nat
      BY Zenon, <1>1, <1>7 DEF EndTypes
    <3> QED
      BY <1>3, <1>7, <1>8, <3>1
  <2> QED
    BY Zenon, <1>1, <1>2, <1>7, <1>8, <2>1 DEF LogFits, Old
<1>11. raft_applied <= LastApplied => raft_applied <= LastApplied'
  <2> HIDE DEF q
  <2> QED
    BY <1>1, <1>3, <1>8 DEF NumberTypes
<1>12. ReadyFits'
  BY Zenon, <1>1, <1>2, <1>8, <1>11 DEF ReadyFits, Storing
<1> QED
  BY Zenon, <1>1, <1>2, <1>8, <1>9, <1>10, <1>12 DEF ConsensusInv

LEMMA ApplyEntryStep ==
    ASSUME ConsensusInv, ApplyEntry
    PROVE  ConsensusInv'
<1>1. /\ ConsensusTypes /\ StateFits /\ ReadyFits /\ NumberTypes /\ EndTypes /\ QueueTypes
      /\ peer = "up" /\ stage = "apply" /\ LogFits
      /\ Unapplied /\ StorageEnds /\ StorageEntries
  BY Zenon, InvariantFacts DEF ApplyEntry, At
<1>2. UNCHANGED <<ready, raft_log, compacted, persistent, raft_applied, fresh, sent, uncleared>>
  BY Zenon DEF ApplyEntry
<1> DEFINE i == persistent.queue[1]
<1>3. /\ i \in Nat /\ persistent.queue[2] \in Nat /\ i <= persistent.queue[2]
      /\ LastApplied = i - 1 /\ QueueEnd = persistent.queue[2]
  BY Zenon, <1>1 DEF Unapplied, QueueTypes
<1>4. i <= persistent.commit /\ persistent.snapshot < i
  <2>1. /\ QueueEnd <= persistent.commit /\ persistent.snapshot <= LastApplied
        /\ persistent.snapshot \in Nat /\ persistent.commit \in Nat
    BY Zenon, <1>1 DEF StateFits, NumberTypes
  <2> HIDE DEF i
  <2> QED
    BY <1>3, <2>1
<1>5. EntryOf(i) # <<>>
  <2>1. raft_log.entries = <<>> => persistent.commit = persistent.snapshot
    BY Zenon, <1>1 DEF LogFits
  <2>2. raft_log.entries # <<>>
    BY <1>1, <1>3, <1>4, <2>1 DEF NumberTypes
  <2>3. i >= StorageFirst /\ i <= LogEnd
    BY <1>1, <1>3, <1>4 DEF StorageEnds, NumberTypes
  <2> HIDE DEF i
  <2>4. EntryOf(i) = <<raft_log.entries[i - LogFirst + 1]>>
    BY Zenon, <1>1, <1>3, <2>2, <2>3 DEF StorageEntries
  <2> QED
    BY <2>4
<1>6. /\ toc' \in {toc, Max({toc, i})}
      /\ \/ peer' = "up" /\ stage' = "applied" /\ toc' = Max({toc, i})
         \/ peer' = "stopped" /\ stage' = "apply"
         \/ peer' = "up" /\ stage' = "compact" /\ ready.part = "startup"
  BY Zenon, <1>1, <1>5 DEF ApplyEntry
<1>7. toc' \in Nat /\ toc <= toc' /\ (stage' = "applied" => i <= toc')
  <2> HIDE DEF i
  <2>0. toc \in Int /\ i \in Int
    BY <1>1, <1>3 DEF NumberTypes
  <2>1. Max({toc, i}) = IF toc >= i THEN toc ELSE i
    BY Zenon, <2>0, Larger
  <2> QED
    BY <1>1, <1>3, <1>6, <2>1 DEF NumberTypes
<1>8. /\ LastApplied' = LastApplied /\ QueueEnd' = QueueEnd /\ Unapplied' = Unapplied
      /\ LogFirst' = LogFirst /\ LogEnd' = LogEnd
  BY Zenon, <1>2 DEF LastApplied, QueueEnd, Unapplied, LogFirst, LogEnd
<1>9. ConsensusTypes'
  BY Zenon, <1>1, <1>2, <1>6, <1>7 DEF ConsensusTypes, Stages, Consecutive
<1>10. StateFits'
  <2>1. LastApplied <= toc'
    BY <1>1, <1>7 DEF StateFits, NumberTypes
  <2> QED
    BY Zenon, <1>1, <1>2, <1>8, <2>1 DEF StateFits
<1>11. LogFits'
  BY Zenon, <1>1, <1>2, <1>8 DEF LogFits, Old
<1>12. ReadyFits'
  BY Zenon, <1>1, <1>2, <1>6, <1>7, <1>8 DEF ReadyFits, Storing
<1> QED
  BY Zenon, <1>1, <1>2, <1>6, <1>9, <1>10, <1>11, <1>12 DEF ConsensusInv, PeerStates

\* What is acknowledged once the log is flushed.
LEMMA EntriesAreSent ==
    ASSUME ConsensusInv, LogFits, StorageEnds, StorageEntries,
           raft_log.flushed = Len(raft_log.entries),
           sent' = [i \in Max({persistent.snapshot + 1, StorageFirst}) .. StorageLast |->
                       IF i \in DOMAIN sent THEN sent[i] ELSE EntryOf(i)[1]]
    PROVE  /\ DOMAIN sent' \subseteq Nat
           /\ raft_log.entries = <<>> => \A i \in DOMAIN sent' : i <= persistent.snapshot
           /\ raft_log.entries # <<>> => \A i \in DOMAIN sent' : i >= LogFirst =>
                 /\ i - LogFirst + 1 <= raft_log.flushed
                 /\ raft_log.entries[i - LogFirst + 1] = sent'[i]
<1>1. ConsensusTypes /\ NumberTypes /\ EndTypes
  BY Zenon, InvariantFacts
<1> DEFINE low == Max({persistent.snapshot + 1, StorageFirst})
<1>2. /\ persistent.snapshot \in Nat /\ StorageFirst \in Nat /\ LogEnd \in Nat
      /\ StorageLast = LogEnd
  BY Zenon, <1>1 DEF NumberTypes, StorageEnds
<1>3. low \in Nat /\ persistent.snapshot + 1 <= low /\ StorageFirst <= low
  <2>1. persistent.snapshot + 1 \in Int /\ StorageFirst \in Int
    BY <1>2
  <2>2. low = IF persistent.snapshot + 1 >= StorageFirst THEN persistent.snapshot + 1
              ELSE StorageFirst
    BY Zenon, <2>1, Larger
  <2> HIDE DEF low
  <2> QED
    BY <1>2, <2>2
<1>4. sent' = [i \in low .. LogEnd |-> IF i \in DOMAIN sent THEN sent[i] ELSE EntryOf(i)[1]]
  BY Zenon, <1>2
<1> HIDE DEF low
<1>5. DOMAIN sent' = low .. LogEnd
  BY Zenon, <1>4
<1>6. ASSUME NEW i \in DOMAIN sent'
      PROVE  /\ i \in Nat /\ i >= StorageFirst /\ i > persistent.snapshot /\ i <= LogEnd
             /\ sent'[i] = IF i \in DOMAIN sent THEN sent[i] ELSE EntryOf(i)[1]
  <2>1. i \in low .. LogEnd
    BY <1>5, Zenon
  <2>2. i \in Nat /\ i >= StorageFirst /\ i > persistent.snapshot /\ i <= LogEnd
    BY <1>2, <1>3, <2>1
  <2>3. sent'[i] = IF i \in DOMAIN sent THEN sent[i] ELSE EntryOf(i)[1]
    BY Zenon, <1>4, <2>1
  <2> QED
    BY Zenon, <2>2, <2>3
<1>7. ASSUME raft_log.entries = <<>>, NEW i \in DOMAIN sent' PROVE i <= persistent.snapshot
  BY <1>1, <1>6, <1>7, Zenon DEF EndTypes
<1>8. ASSUME raft_log.entries # <<>>, NEW i \in DOMAIN sent', i >= LogFirst
      PROVE  /\ i - LogFirst + 1 <= raft_log.flushed
             /\ raft_log.entries[i - LogFirst + 1] = sent'[i]
  <2>1. i \in Nat /\ i >= StorageFirst /\ i <= LogEnd
    BY <1>6, <1>8, Zenon
  <2>2. LogFirst \in Nat /\ LogEnd = LogFirst + raft_log.flushed - 1 /\ raft_log.flushed \in Nat
    BY Zenon, <1>1, <1>8 DEF EndTypes, NumberTypes
  <2>3. i - LogFirst + 1 <= raft_log.flushed
    BY <2>1, <2>2
  <2>4. EntryOf(i) = <<raft_log.entries[i - LogFirst + 1]>>
    BY Zenon, <1>8, <2>1 DEF StorageEntries
  <2>5. CASE i \in DOMAIN sent
    <3>1. raft_log.entries[i - LogFirst + 1] = sent[i]
      BY Zenon, <1>8, <2>5 DEF LogFits
    <3> QED
      BY Zenon, <1>6, <2>3, <2>5, <3>1
  <2>6. CASE i \notin DOMAIN sent
    BY <1>6, <2>3, <2>4, <2>6
  <2> QED
    BY Zenon, <2>5, <2>6
<1> QED
  BY <1>6, <1>7, <1>8, Zenon

LEMMA HandleCommittedEntriesStep ==
    ASSUME ConsensusInv, HandleCommittedEntries
    PROVE  ConsensusInv'
<1>1. /\ ConsensusTypes /\ StateFits /\ ReadyFits /\ NumberTypes /\ EndTypes /\ QueueTypes
      /\ peer = "up" /\ stage = "committed" /\ LogFits /\ QueueIsDone
      /\ StorageEnds /\ StorageEntries /\ raft_log.flushed = Len(raft_log.entries)
      /\ ready.part \in {"ready", "light"} /\ ready.commit = persistent.commit
      /\ ready.part = "ready" => ready.apply_to <= persistent.commit
  BY Zenon, InvariantFacts DEF HandleCommittedEntries, At, ReadyFits
<1> DEFINE from == Max({raft_applied + 1, StorageFirst})
           to == IF ready.part = "ready" THEN ready.apply_to ELSE ready.commit
<1>2. /\ UNCHANGED <<peer, ready, raft_log, compacted, toc, fresh, uncleared>>
      /\ stage' = "apply"
      /\ sent' = [i \in Max({persistent.snapshot + 1, StorageFirst}) .. StorageLast |->
                     IF i \in DOMAIN sent THEN sent[i] ELSE EntryOf(i)[1]]
      /\ IF from <= to
         THEN /\ persistent' = [persistent EXCEPT !.queue = <<from, to>>]
              /\ raft_applied' = to
         ELSE UNCHANGED <<persistent, raft_applied>>
  BY Zenon DEF HandleCommittedEntries
<1>3. /\ DOMAIN sent' \subseteq Nat
      /\ raft_log.entries = <<>> => \A i \in DOMAIN sent' : i <= persistent.snapshot
      /\ raft_log.entries # <<>> => \A i \in DOMAIN sent' : i >= LogFirst =>
            /\ i - LogFirst + 1 <= raft_log.flushed
            /\ raft_log.entries[i - LogFirst + 1] = sent'[i]
  BY <1>1, <1>2, EntriesAreSent, Zenon
<1>4. /\ raft_applied \in Nat /\ StorageFirst \in Nat /\ StorageFirst >= 1
      /\ StorageFirst <= LastApplied + 1 /\ LastApplied \in Int
      /\ persistent.commit \in Nat /\ persistent.snapshot \in Nat
      /\ QueueEnd \in Nat /\ QueueEnd <= persistent.commit
      /\ raft_applied <= QueueEnd /\ persistent.snapshot <= raft_applied
      /\ LastApplied <= QueueEnd /\ LastApplied <= toc /\ toc \in Nat
  BY <1>1 DEF NumberTypes, StorageEnds, StateFits
<1>5. raft_applied <= LastApplied
  <2>1. CASE persistent.queue = <<>>
    BY Zenon, <1>1, <1>4, <2>1 DEF QueueTypes
  <2>2. CASE persistent.queue # <<>> /\ ~Unapplied
    <3>1. persistent.queue[1] \in Nat /\ persistent.queue[2] \in Nat
          /\ ~(persistent.queue[1] <= persistent.queue[2])
          /\ LastApplied = persistent.queue[1] - 1 /\ QueueEnd = persistent.queue[2]
      BY Zenon, <1>1, <2>2 DEF QueueTypes, Unapplied
    <3> QED
      BY <1>4, <3>1
  <2> QED
    BY Zenon, <1>1, <2>1, <2>2 DEF QueueIsDone
<1>6. /\ from \in Nat /\ raft_applied + 1 <= from /\ StorageFirst <= from
      /\ from <= LastApplied + 1
  <2>1. raft_applied + 1 \in Int /\ StorageFirst \in Int
    BY <1>4
  <2>2. from = IF raft_applied + 1 >= StorageFirst THEN raft_applied + 1 ELSE StorageFirst
    BY Zenon, <2>1, Larger
  <2> HIDE DEF from
  <2> QED
    BY <1>4, <1>5, <2>2
<1>7. /\ to \in Nat /\ to <= persistent.commit
      /\ ready.part = "light" => to = persistent.commit
  BY <1>1 DEF NumberTypes
<1> HIDE DEF from, to
<1>8. /\ StateFits' /\ raft_applied' \in Nat
      /\ persistent' \in [commit : Nat, snapshot : Nat, queue : {<<>>} \cup (Nat \X Nat)]
      /\ persistent'.commit = persistent.commit
      /\ persistent'.snapshot = persistent.snapshot
      /\ LogFirst' = LogFirst /\ LogEnd' = LogEnd
      /\ raft_log.entries # <<>> => LogFirst <= LastApplied' + 1
      /\ ready.part = "light" => QueueEnd' = persistent.commit
  <2>1. CASE from <= to
    <3>1. raft_log.entries # <<>>
      <4>1. raft_log.entries = <<>> => /\ persistent.commit = persistent.snapshot
                                       /\ StorageFirst = persistent.snapshot + 1
        BY Zenon, <1>1 DEF LogFits, StorageEnds
      <4> QED
        BY <1>4, <1>6, <1>7, <2>1, <4>1
    <3>2. /\ LogFirst \in Nat /\ compacted \in Nat
          /\ LogFirst <= StorageFirst /\ compacted <= StorageFirst
      BY Zenon, <1>1, <3>1 DEF StorageEnds, EndTypes, NumberTypes
    <3>3. /\ from >= 1 /\ from <= to + 1 /\ persistent.snapshot <= from - 1
          /\ from - 1 <= toc /\ persistent.snapshot <= to
          /\ LogFirst <= from /\ compacted <= from /\ from - 1 + 1 = from
      BY <1>4, <1>6, <1>7, <2>1, <3>2
    <3>4. /\ persistent' = [persistent EXCEPT !.queue = <<from, to>>]
          /\ raft_applied' = to /\ raft_applied' <= to /\ raft_applied' \in Nat
          /\ persistent.snapshot <= raft_applied'
          /\ UNCHANGED <<raft_log, compacted, toc>>
      BY <1>2, <1>7, <2>1, <3>3
    <3>5. /\ StateFits'
          /\ persistent' \in [commit : Nat, snapshot : Nat, queue : {<<>>} \cup (Nat \X Nat)]
          /\ persistent'.commit = persistent.commit
          /\ persistent'.snapshot = persistent.snapshot
          /\ LastApplied' = from - 1 /\ QueueEnd' = to
          /\ LogFirst' = LogFirst /\ LogEnd' = LogEnd
      BY Zenon, <1>1, <1>6, <1>7, <3>1, <3>3, <3>4, QueueMoves
    <3> QED
      BY Zenon, <1>7, <3>3, <3>4, <3>5
  <2>2. CASE ~(from <= to)
    <3>1. UNCHANGED <<persistent, raft_applied>>
      BY Zenon, <1>2, <2>2
    <3>2. LastApplied' = LastApplied /\ QueueEnd' = QueueEnd /\ LogFirst' = LogFirst
          /\ LogEnd' = LogEnd
      BY Zenon, <1>2, <3>1 DEF LastApplied, QueueEnd, LogFirst, LogEnd
    <3>3. StateFits'
      BY Zenon, <1>1, <1>2, <3>1, <3>2 DEF StateFits
    <3>4. ready.part = "light" => QueueEnd = persistent.commit
      BY <1>4, <1>5, <1>6, <1>7, <2>2
    <3>5. raft_log.entries # <<>> => LogFirst <= LastApplied + 1
      BY Zenon, <1>1 DEF LogFits
    <3>6. persistent \in [commit : Nat, snapshot : Nat, queue : {<<>>} \cup (Nat \X Nat)]
      BY Zenon, <1>1 DEF ConsensusTypes
    <3> QED
      BY Zenon, <1>4, <3>1, <3>2, <3>3, <3>4, <3>5, <3>6
  <2> QED
    BY Zenon, <2>1, <2>2
<1>9. ConsensusTypes'
  BY <1>1, <1>2, <1>3, <1>8, Zenon DEF ConsensusTypes, Stages, Consecutive
<1>10. LogFits'
  BY <1>1, <1>2, <1>3, <1>8, Zenon DEF LogFits, Old
<1>11. ReadyFits'
  BY Zenon, <1>1, <1>2, <1>8 DEF ReadyFits, Storing
<1> QED
  BY Zenon, <1>1, <1>2, <1>8, <1>9, <1>10, <1>11 DEF ConsensusInv

-----------------------------------------------------------------------------
(* Entries are appended, or replace those of a deposed leader.             *)

LEMMA EmptyFacts == \A e \in Seq(LogEntries) : e = <<>> <=> Len(e) = 0
  OBVIOUS

LEMMA AppendFacts ==
    ASSUME NEW e \in Seq(LogEntries), NEW x \in LogEntries
    PROVE  /\ Append(e, x) \in Seq(LogEntries) /\ Append(e, x) # <<>>
           /\ Len(Append(e, x)) = Len(e) + 1
           /\ \A k \in 1 .. Len(e) : Append(e, x)[k] = e[k]
           /\ Append(e, x)[Len(e) + 1] = x
  OBVIOUS

LEMMA TailFacts ==
    ASSUME NEW e \in Seq(LogEntries), e # <<>>
    PROVE  /\ Head(e) = e[1] /\ e[1] \in LogEntries
           /\ Tail(e) \in Seq(LogEntries) /\ Len(Tail(e)) = Len(e) - 1
           /\ \A k \in 1 .. Len(e) - 1 : Tail(e)[k] = e[k + 1]
           /\ Tail(e) = <<>> <=> Len(e) = 1
<1>1. Len(e) \in Nat \ {0}
  OBVIOUS
<1>2. Head(e) = e[1] /\ e[1] \in LogEntries
  BY <1>1
<1>3. Tail(e) \in Seq(LogEntries) /\ Len(Tail(e)) = Len(e) - 1
  BY <1>1
<1>4. \A k \in 1 .. Len(e) - 1 : Tail(e)[k] = e[k + 1]
  BY <1>1
<1>5. Tail(e) = <<>> <=> Len(Tail(e)) = 0
  BY <1>3, EmptyFacts, Zenon
<1> QED
  BY <1>1, <1>2, <1>3, <1>4, <1>5

LEMMA SubSeqFacts ==
    ASSUME NEW e \in Seq(LogEntries), NEW a \in 1 .. Len(e) + 1, NEW b \in a - 1 .. Len(e)
    PROVE  /\ SubSeq(e, a, b) \in Seq(LogEntries) /\ Len(SubSeq(e, a, b)) = b - a + 1
           /\ \A k \in 1 .. b - a + 1 : SubSeq(e, a, b)[k] = e[a + k - 1]
           /\ SubSeq(e, a, b) = <<>> <=> b = a - 1
<1>1. Len(e) \in Nat /\ a \in Nat /\ b \in Nat /\ 1 <= a /\ b <= Len(e) /\ a <= b + 1
  OBVIOUS
<1>2. b - a + 1 \in Nat
  BY <1>1
<1>3. SubSeq(e, a, b) = [k \in 1 .. b - a + 1 |-> e[k + a - 1]]
  BY <1>1
<1>4. \A k \in 1 .. b - a + 1 : e[k + a - 1] \in LogEntries /\ k + a - 1 = a + k - 1
  BY <1>1
<1>5. SubSeq(e, a, b) \in Seq(LogEntries) /\ Len(SubSeq(e, a, b)) = b - a + 1
  BY <1>2, <1>3, <1>4
<1>6. \A k \in 1 .. b - a + 1 : SubSeq(e, a, b)[k] = e[a + k - 1]
  BY Zenon, <1>3, <1>4
<1>7. SubSeq(e, a, b) = <<>> <=> Len(SubSeq(e, a, b)) = 0
  BY <1>5
<1> QED
  BY <1>1, <1>5, <1>6, <1>7

\* The offset that append_entries takes once for all entries.
LEMMA BatchView ==
    ASSUME ConsensusInv, LogFits, EntriesFit, StorageEnds, ready.entries # <<>>
    PROVE  /\ NewEntry = ready.entries[1] /\ NewEntry \in LogEntries
           /\ NewEntry.index = ReadyFirst
           /\ raft_log.entries = <<>> =>
                 /\ BatchOffset = ready.offset /\ raft_log.first = 0
                 /\ ready.offset # NoOffset => OffsetFits(ready.offset, ReadyFirst)
                 /\ ReadyFirst = LogEnd + 1
           /\ raft_log.entries # <<>> =>
                 /\ OffsetFits(BatchOffset, LogFirst - raft_log.first)
                 /\ BatchOffset # NoOffset /\ BatchOffset \in Int
                 /\ ready.offset = NoOffset => BatchOffset = LogFirst - raft_log.first
                 /\ ready.offset # NoOffset => ReadyFirst = LogEnd + 1
                 /\ NewWalIndex = ReadyFirst - BatchOffset
                 /\ WalLastIndex = raft_log.first + Len(raft_log.entries) - 1
                 /\ LogFirst <= ReadyFirst /\ ReadyFirst <= LogEnd + 1
           /\ compacted <= ReadyFirst
<1>1. ConsensusTypes /\ StateFits /\ NumberTypes /\ EndTypes
  BY Zenon, InvariantFacts
<1>2. /\ NewEntry = ready.entries[1] /\ NewEntry \in LogEntries
      /\ NewEntry.index = ReadyFirst
  <2>1. ready.entries \in Seq(LogEntries)
    BY Zenon, <1>1 DEF ConsensusTypes
  <2> QED
    BY Zenon, <2>1, TailFacts DEF NewEntry, ReadyFirst
<1>3. /\ ReadyFirst \in Nat /\ persistent.commit \in Nat /\ compacted \in Nat
      /\ persistent.commit < ReadyFirst /\ compacted <= persistent.commit
      /\ ReadyFirst <= LogEnd + 1 /\ LastApplied <= QueueEnd /\ QueueEnd <= persistent.commit
      /\ LastApplied \in Int /\ QueueEnd \in Nat /\ LogEnd \in Nat
  BY <1>1, SMTT(20) DEF EntriesFit, StateFits, NumberTypes, EndTypes
<1>4. compacted <= ReadyFirst
  BY <1>3
<1>5. ASSUME raft_log.entries = <<>>
      PROVE  /\ BatchOffset = ready.offset /\ raft_log.first = 0
             /\ ready.offset # NoOffset => OffsetFits(ready.offset, ReadyFirst)
             /\ ReadyFirst = LogEnd + 1
  <2>1. ready.offset # NoOffset => OffsetFits(ready.offset, ReadyFirst)
    BY Zenon, <1>5 DEF EntriesFit
  <2>2. /\ persistent.commit = persistent.snapshot /\ raft_log.first = 0
        /\ LogEnd = persistent.snapshot
    BY Zenon, <1>1, <1>5 DEF LogFits, EndTypes
  <2> QED
    BY <1>3, <1>5, <2>1, <2>2 DEF BatchOffset
<1>6. ASSUME raft_log.entries # <<>>
      PROVE  /\ OffsetFits(BatchOffset, LogFirst - raft_log.first)
             /\ BatchOffset # NoOffset /\ BatchOffset \in Int
             /\ ready.offset = NoOffset => BatchOffset = LogFirst - raft_log.first
             /\ ready.offset # NoOffset => ReadyFirst = LogEnd + 1
             /\ NewWalIndex = ReadyFirst - BatchOffset
             /\ WalLastIndex = raft_log.first + Len(raft_log.entries) - 1
             /\ LogFirst <= ReadyFirst /\ ReadyFirst <= LogEnd + 1
  <2>1. compacted <= LogEnd
    BY <1>3 DEF StorageEnds
  <2>2. /\ Offset = LogFirst - raft_log.first
        /\ WalLastIndex = raft_log.first + Len(raft_log.entries) - 1
    BY Zenon, <1>1, <1>6, <2>1, LogView
  <2>3. /\ LogFirst \in Nat /\ raft_log.first \in Nat /\ raft_log.first < LogFirst
        /\ LogFirst <= LastApplied + 1
    BY Zenon, <1>1, <1>6 DEF LogFits, EndTypes, NumberTypes
  <2>4. /\ LogFirst - raft_log.first # NoOffset /\ LogFirst <= ReadyFirst
        /\ LogFirst - raft_log.first \in Int
        /\ LogFirst - raft_log.first <= LogFirst - raft_log.first
    BY <1>3, <2>3 DEF NoOffset
  <2>5. /\ ready.offset = NoOffset => BatchOffset = LogFirst - raft_log.first
        /\ ready.offset # NoOffset =>
              /\ BatchOffset = ready.offset /\ ReadyFirst = LogEnd + 1
              /\ OffsetFits(ready.offset, LogFirst - raft_log.first)
    BY Zenon, <1>6, <2>2 DEF BatchOffset, EntriesFit
  <2>6. OffsetFits(BatchOffset, LogFirst - raft_log.first)
    BY Zenon, <2>4, <2>5 DEF OffsetFits
  <2>7. BatchOffset # NoOffset /\ BatchOffset \in Int
    BY Zenon, <1>1, <2>4, <2>5 DEF NumberTypes
  <2>8. NewWalIndex = ReadyFirst - BatchOffset
    BY Zenon, <1>2 DEF NewWalIndex
  <2> QED
    BY Zenon, <1>3, <2>2, <2>4, <2>5, <2>6, <2>7, <2>8
<1> QED
  BY Zenon, <1>2, <1>4, <1>5, <1>6

\* A new entry goes to the end of the log.
LEMMA StoreEntryKeeps ==
    ASSUME ConsensusInv, peer = "up", stage \in {"append", "cut"}, ready.entries # <<>>,
           raft_log.entries # <<>> => ReadyFirst = LogEnd + 1, StoreEntry,
           UNCHANGED <<peer, compacted, persistent, raft_applied, toc, fresh, sent, uncleared>>
    PROVE  ConsensusInv'
<1>1. /\ ConsensusTypes /\ StateFits /\ ReadyFits /\ NumberTypes /\ EndTypes
      /\ LogFits /\ EntriesFit /\ StorageEnds /\ NewAreGood
      /\ ready.part = "ready" /\ ready.apply_to <= ready.commit
      /\ persistent.commit <= ready.commit /\ QueueIsDone
  BY Zenon, InvariantFacts DEF ReadyFits, Storing
<1> DEFINE e == raft_log.entries
           r == ready.entries
<1>2. /\ NewEntry = r[1] /\ r[1] \in LogEntries /\ r[1].index = ReadyFirst
      /\ ReadyFirst = LogEnd + 1
      /\ e = <<>> => /\ BatchOffset = ready.offset /\ raft_log.first = 0
                     /\ ready.offset # NoOffset => OffsetFits(ready.offset, ReadyFirst)
      /\ e # <<>> => /\ OffsetFits(BatchOffset, LogFirst - raft_log.first)
                     /\ BatchOffset # NoOffset /\ BatchOffset \in Int
  BY Zenon, <1>1, BatchView
<1>3. /\ raft_log' = [raft_log EXCEPT !.entries = Append(e, r[1])]
      /\ stage' = "append"
      /\ ready' = [ready EXCEPT
             !.entries = Tail(r),
             !.offset = IF BatchOffset # NoOffset THEN BatchOffset
                        ELSE r[1].index - raft_log.first]
  BY Zenon, <1>2 DEF StoreEntry
<1>4. /\ e \in Seq(LogEntries) /\ r \in Seq(LogEntries)
      /\ Len(e) \in Nat /\ Len(r) \in Nat /\ Len(r) > 0 /\ ReadyFirst \in Nat \ {0}
  BY Zenon, <1>1 DEF ConsensusTypes, NumberTypes, EndTypes
<1>5. /\ raft_log'.entries \in Seq(LogEntries) /\ raft_log'.entries # <<>>
      /\ Len(raft_log'.entries) = Len(e) + 1
      /\ \A k \in 1 .. Len(e) : raft_log'.entries[k] = e[k]
      /\ raft_log'.entries[Len(e) + 1] = r[1]
      /\ raft_log'.first = raft_log.first /\ raft_log'.flushed = raft_log.flushed
      /\ raft_log' \in [first : Nat, entries : Seq(LogEntries), flushed : Nat]
  <2>1. /\ raft_log'.entries = Append(e, r[1])
        /\ raft_log'.first = raft_log.first /\ raft_log'.flushed = raft_log.flushed
    BY Zenon, <1>1, <1>3 DEF ConsensusTypes
  <2>2. /\ Append(e, r[1]) \in Seq(LogEntries) /\ Append(e, r[1]) # <<>>
        /\ Len(Append(e, r[1])) = Len(e) + 1
        /\ \A k \in 1 .. Len(e) : Append(e, r[1])[k] = e[k]
        /\ Append(e, r[1])[Len(e) + 1] = r[1]
    BY Zenon, <1>2, <1>4, AppendFacts
  <2>3. raft_log' \in [first : Nat, entries : Seq(LogEntries), flushed : Nat]
    BY <1>1, <1>3, <2>2, Zenon DEF ConsensusTypes
  <2> QED
    BY Zenon, <2>1, <2>2, <2>3
<1>6. /\ ready'.entries \in Seq(LogEntries) /\ Len(ready'.entries) = Len(r) - 1
      /\ \A k \in 1 .. Len(r) - 1 : ready'.entries[k] = r[k + 1]
      /\ ready'.entries = <<>> <=> Len(r) = 1
      /\ ready'.commit = ready.commit /\ ready'.apply_to = ready.apply_to
      /\ ready'.part = ready.part
  <2>1. /\ ready'.entries = Tail(r) /\ ready'.commit = ready.commit
        /\ ready'.apply_to = ready.apply_to /\ ready'.part = ready.part
    BY Zenon, <1>1, <1>3 DEF ConsensusTypes
  <2> QED
    BY Zenon, <1>4, <2>1, TailFacts
<1>7. /\ LogFirst' = IF e = <<>> THEN ReadyFirst ELSE LogFirst
      /\ LogFirst' \in Nat /\ LogFirst' + Len(e) = ReadyFirst
      /\ LogEnd' = ReadyFirst
  <2>1. CASE e = <<>>
    <3>1. Len(e) = 0 /\ LogFirst' = ReadyFirst
      BY <1>1, <1>2, <1>5, <2>1 DEF EndTypes, LogFirst
    <3> QED
      BY <1>4, <1>5, <2>1, <3>1 DEF LogEnd
  <2>2. CASE e # <<>>
    <3>1. /\ Len(e) > 0 /\ LogFirst \in Nat /\ LogEnd = LogFirst + Len(e) - 1
      BY Zenon, <1>1, <2>2 DEF EndTypes
    <3>2. LogFirst' = LogFirst
      BY <1>4, <1>5, <3>1, SMTT(20) DEF LogFirst
    <3>3. LogFirst' + Len(e) = ReadyFirst
      BY <1>2, <1>4, <3>1, <3>2
    <3>4. LogEnd' = LogFirst' + (Len(e) + 1) - 1
      BY Zenon, <1>5 DEF LogEnd
    <3> QED
      BY <1>4, <2>2, <3>1, <3>2, <3>3, <3>4
  <2> QED
    BY Zenon, <2>1, <2>2
<1>8. /\ ready'.entries # <<>> => ReadyFirst' = ReadyFirst + 1 /\ ReadyLast' = ReadyLast
      /\ ready'.entries = <<>> => ReadyLast = ReadyFirst
  <2>1. ASSUME ready'.entries # <<>> PROVE ReadyFirst' = ReadyFirst + 1
    <3>1. Len(r) # 1 /\ 1 \in 1 .. Len(r) - 1 /\ 2 \in 1 .. Len(r)
      BY <1>4, <1>6, <2>1
    <3>2. ready'.entries[1] = r[2]
      BY <1>6, <3>1
    <3>3. r[2].index = ReadyFirst + 2 - 1
      BY Zenon, <1>1, <3>1 DEF ConsensusTypes, Consecutive, ReadyFirst
    <3> QED
      BY <1>4, <3>2, <3>3 DEF ReadyFirst
  <2> QED
    BY <1>4, <1>6, <2>1 DEF ReadyLast
<1>9. LastApplied' = LastApplied /\ QueueEnd' = QueueEnd /\ Unapplied' = Unapplied
  BY Zenon DEF LastApplied, QueueEnd, Unapplied
<1>10. OffsetFits(ready'.offset, LogFirst' - raft_log.first) /\ ready'.offset \in Int
  <2>1. ready'.offset = IF BatchOffset # NoOffset THEN BatchOffset
                        ELSE ReadyFirst - raft_log.first
    BY Zenon, <1>1, <1>2, <1>3 DEF ConsensusTypes
  <2>2. /\ ReadyFirst - raft_log.first \in Int
        /\ ReadyFirst - raft_log.first <= ReadyFirst - raft_log.first
        /\ raft_log.first = 0 => ReadyFirst - raft_log.first = ReadyFirst
    BY <1>1, <1>4 DEF NumberTypes
  <2>3. CASE e = <<>>
    BY Zenon, <1>1, <1>2, <1>7, <2>1, <2>2, <2>3 DEF OffsetFits, NumberTypes
  <2>4. CASE e # <<>>
    BY Zenon, <1>2, <1>7, <2>1, <2>4
  <2> QED
    BY Zenon, <2>3, <2>4
<1>11. Consecutive(raft_log'.entries)
  <2> SUFFICES ASSUME NEW k \in 1 .. Len(raft_log'.entries)
               PROVE  raft_log'.entries[k].index = LogFirst' + k - 1
    BY Zenon DEF Consecutive, LogFirst
  <2>1. CASE k = Len(e) + 1
    BY <1>2, <1>4, <1>5, <1>7, <2>1
  <2>2. CASE k # Len(e) + 1
    <3>1. k \in 1 .. Len(e) /\ Len(e) > 0
      BY <1>4, <1>5, <2>2
    <3>2. e # <<>>
      BY <1>1, <1>4, <3>1 DEF EndTypes
    <3>3. e[k].index = LogFirst + k - 1
      BY Zenon, <1>1, <3>1 DEF ConsensusTypes, Consecutive, LogFirst
    <3> QED
      BY Zenon, <1>5, <1>7, <3>1, <3>2, <3>3
  <2> QED
    BY Zenon, <2>1, <2>2
<1>12. Consecutive(ready'.entries)
  <2> SUFFICES ASSUME NEW k \in 1 .. Len(ready'.entries)
               PROVE  ready'.entries[k].index = ReadyFirst' + k - 1
    BY Zenon DEF Consecutive, ReadyFirst
  <2>1. /\ k \in 1 .. Len(r) - 1 /\ k + 1 \in 1 .. Len(r) /\ Len(r) # 1
        /\ ReadyFirst + (k + 1) - 1 = (ReadyFirst + 1) + k - 1
    BY <1>4, <1>6
  <2>2. r[k + 1].index = ReadyFirst + (k + 1) - 1
    BY Zenon, <1>1, <2>1 DEF ConsensusTypes, Consecutive, ReadyFirst
  <2> QED
    BY Zenon, <1>6, <1>8, <2>1, <2>2
<1>13. ConsensusTypes'
  <2>1. ready' \in [snapshot : Nat, entries : Seq(LogEntries), offset : Int, commit : Nat,
                    apply_to : Nat, part : {"none", "ready", "light", "startup"}]
    <3>1. Tail(r) \in Seq(LogEntries)
      BY Zenon, <1>4, TailFacts
    <3>2. (IF BatchOffset # NoOffset THEN BatchOffset ELSE r[1].index - raft_log.first) \in Int
      BY Zenon, <1>1, <1>3, <1>10 DEF ConsensusTypes
    <3> QED
      BY <1>1, <1>3, <3>1, <3>2, Zenon DEF ConsensusTypes
  <2>2. raft_log'.flushed <= Len(raft_log'.entries)
    BY <1>1, <1>4, <1>5 DEF NumberTypes
  <2> QED
    BY Zenon, <1>1, <1>3, <1>5, <1>11, <1>12, <2>1, <2>2 DEF ConsensusTypes, Stages
<1>14. StateFits'
  BY Zenon, <1>1, <1>9 DEF StateFits
<1>15. LogFits'
  <2>1. CASE e = <<>>
    <3>1. /\ persistent.commit = persistent.snapshot /\ raft_log.first = 0
          /\ \A i \in DOMAIN sent : i <= persistent.snapshot
          /\ LogEnd = persistent.snapshot /\ Len(e) = 0 /\ raft_log.flushed = 0
      BY <1>1, <2>1 DEF LogFits, EndTypes, NumberTypes
    <3>2. /\ LogFirst' = persistent.snapshot + 1 /\ persistent.snapshot \in Nat
          /\ persistent.snapshot <= LastApplied /\ LastApplied \in Int
      BY Zenon, <1>1, <1>2, <1>7, <2>1, <3>1 DEF StateFits, NumberTypes
    <3>3. /\ raft_log.first < LogFirst' /\ LogFirst' <= LastApplied + 1
          /\ persistent.commit <= LogFirst' + raft_log.flushed - 1
      BY <3>1, <3>2
    <3>4. ASSUME NEW k \in 1 .. Len(e) + 1 PROVE ~(LogFirst' + k - 1 <= persistent.commit)
      BY <3>1, <3>2
    <3>5. ASSUME NEW i \in DOMAIN sent PROVE ~(i >= LogFirst')
      <4>1. i \in Nat /\ i <= persistent.snapshot
        BY <1>1, <3>1, SMTT(20) DEF ConsensusTypes
      <4> QED
        BY <3>2, <4>1
    <3> QED
      BY Zenon, <1>5, <1>9, <3>1, <3>3, <3>4, <3>5 DEF LogFits
  <2>2. CASE e # <<>>
    <3>1. /\ LogFirst' = LogFirst /\ LogFirst \in Nat /\ LogFirst + Len(e) = ReadyFirst
          /\ persistent.commit < ReadyFirst
      BY Zenon, <1>1, <1>7, <2>2 DEF EndTypes, EntriesFit
    <3>2. ASSUME NEW k \in 1 .. Len(e) + 1, LogFirst + k - 1 <= persistent.commit
          PROVE  ~raft_log'.entries[k].stray \/ Old(LogFirst + k - 1)
      <4>1. k \in 1 .. Len(e)
        BY <1>1, <1>4, <3>1, <3>2 DEF NumberTypes
      <4> QED
        BY Zenon, <1>1, <1>5, <2>2, <3>2, <4>1 DEF LogFits
    <3>3. ASSUME NEW i \in DOMAIN sent, i >= LogFirst
          PROVE  /\ i - LogFirst + 1 <= raft_log.flushed
                 /\ raft_log'.entries[i - LogFirst + 1] = sent[i]
      <4>1. /\ i \in Nat /\ i - LogFirst + 1 <= raft_log.flushed
            /\ e[i - LogFirst + 1] = sent[i]
        BY Zenon, <1>1, <2>2, <3>3 DEF LogFits, ConsensusTypes
      <4>2. i - LogFirst + 1 \in 1 .. Len(e)
        BY <1>1, <1>4, <3>1, <3>3, <4>1, SMTT(20) DEF NumberTypes
      <4> QED
        BY Zenon, <1>5, <4>1, <4>2
    <3>4. /\ raft_log.first < LogFirst /\ LogFirst <= LastApplied + 1
          /\ LogFirst > persistent.commit =>
                persistent.snapshot = persistent.commit /\ (raft_log.first = 0 \/ uncleared)
          /\ raft_log.flushed = 0 => raft_log.first = 0
          /\ persistent.commit <= LogFirst + raft_log.flushed - 1
      BY Zenon, <1>1, <2>2 DEF LogFits
    <3> QED
      BY Zenon, <1>5, <1>9, <3>1, <3>2, <3>3, <3>4 DEF LogFits, Old
  <2> QED
    BY Zenon, <2>1, <2>2
<1>16. NewAreGood'
  <2> SUFFICES ASSUME NEW k \in 1 .. Len(ready'.entries), ReadyFirst' + k - 1 <= ready.commit
               PROVE  ~ready'.entries[k].stray
    BY Zenon, <1>6 DEF NewAreGood
  <2>1. /\ k \in 1 .. Len(r) - 1 /\ k + 1 \in 1 .. Len(r) /\ Len(r) # 1
        /\ ReadyFirst + (k + 1) - 1 = (ReadyFirst + 1) + k - 1
    BY <1>4, <1>6
  <2>2. ReadyFirst + (k + 1) - 1 <= ready.commit
    BY Zenon, <1>6, <1>8, <2>1
  <2> QED
    BY Zenon, <1>1, <1>6, <2>1, <2>2 DEF NewAreGood
<1>17. EntriesFit'
  <2>1. ready.commit <= ReadyLast /\ persistent.commit < ReadyFirst
        /\ \A i \in DOMAIN sent : i < ReadyFirst
    BY Zenon, <1>1 DEF EntriesFit
  <2>2. ready'.entries = <<>> => ready.commit <= LogEnd'
    BY Zenon, <1>7, <1>8, <2>1
  <2>3. ASSUME ready'.entries # <<>>
        PROVE  /\ persistent.commit < ReadyFirst' /\ ReadyFirst' = LogEnd' + 1
               /\ ReadyFirst' <= LogEnd' + 1
               /\ ready.commit <= ReadyLast'
               /\ \A i \in DOMAIN sent : i < ReadyFirst'
    <3>1. ReadyFirst' = ReadyFirst + 1 /\ ReadyLast' = ReadyLast
      BY Zenon, <1>8, <2>3
    <3>2. \A i \in DOMAIN sent : i \in Nat /\ i < ReadyFirst + 1
      BY <1>1, <1>4, <2>1 DEF ConsensusTypes
    <3>3. persistent.commit < ReadyFirst + 1 /\ ReadyFirst + 1 <= ReadyFirst + 1
      BY <1>1, <1>4, <2>1 DEF NumberTypes
    <3> QED
      BY Zenon, <1>7, <2>1, <3>1, <3>2, <3>3
  <2>4. ASSUME NEW k \in 1 .. Len(e) + 1, LogFirst' + k - 1 <= ready.commit
        PROVE  ~raft_log'.entries[k].stray \/ Old(LogFirst' + k - 1)
    <3>1. CASE k = Len(e) + 1
      <4>1. 1 \in 1 .. Len(r) /\ ReadyFirst + 1 - 1 <= ready.commit
        BY <1>4, <1>7, <2>4, <3>1
      <4>2. ~r[1].stray
        BY Zenon, <1>1, <4>1 DEF NewAreGood
      <4> QED
        BY Zenon, <1>5, <3>1, <4>2
    <3>2. CASE k # Len(e) + 1
      <4>1. k \in 1 .. Len(e) /\ Len(e) > 0
        BY <1>4, <3>2
      <4>2. e # <<>>
        BY <1>1, <1>4, <4>1 DEF EndTypes
      <4>3. LogFirst + k - 1 <= ready.commit /\ LogFirst + k - 1 < ReadyFirst
        BY <1>4, <1>7, <2>4, <4>1, <4>2
      <4>4. ~e[k].stray \/ Old(LogFirst + k - 1)
        BY Zenon, <1>1, <4>1, <4>3 DEF EntriesFit
      <4> QED
        BY Zenon, <1>5, <1>7, <4>1, <4>2, <4>4
    <3> QED
      BY Zenon, <3>1, <3>2
  <2> QED
    BY Zenon, <1>5, <1>6, <1>10, <2>2, <2>3, <2>4 DEF EntriesFit, Old, OffsetFits
<1>18. ReadyFits'
  BY Zenon, <1>1, <1>3, <1>5, <1>6, <1>9, <1>16, <1>17 DEF ReadyFits, Storing, QueueIsDone
<1> QED
  BY Zenon, <1>1, <1>3, <1>13, <1>14, <1>15, <1>18 DEF ConsensusInv

LEMMA AppendAfterCutStep ==
    ASSUME ConsensusInv, AppendAfterCut
    PROVE  ConsensusInv'
<1>1. peer = "up" /\ stage = "cut" /\ ready.entries # <<>> /\ ReadyFirst = LogEnd + 1
  BY Zenon, InvariantFacts DEF AppendAfterCut, At, ReadyFits
<1>2. /\ StoreEntry
      /\ UNCHANGED <<peer, compacted, persistent, raft_applied, toc, fresh, sent, uncleared>>
  BY Zenon DEF AppendAfterCut
<1> QED
  BY Zenon, <1>1, <1>2, StoreEntryKeeps

\* append_entries cuts the log where a new entry replaces another.
LEMMA CutKeeps ==
    ASSUME ConsensusInv, peer = "up", stage = "append", ready.entries # <<>>,
           raft_log.entries # <<>>, ReadyFirst <= LogEnd,
           raft_log' = CutLog(raft_log, NewWalIndex), stage' = "cut",
           ready' = [ready EXCEPT !.offset = BatchOffset],
           UNCHANGED <<peer, compacted, persistent, raft_applied, toc, fresh, sent,
                       uncleared>>
    PROVE  ConsensusInv'
<1>1. /\ ConsensusTypes /\ StateFits /\ ReadyFits /\ NumberTypes /\ EndTypes
      /\ LogFits /\ EntriesFit /\ StorageEnds /\ NewAreGood
      /\ ready.part = "ready" /\ ready.apply_to <= ready.commit
      /\ persistent.commit <= ready.commit /\ QueueIsDone
  BY Zenon, InvariantFacts DEF ReadyFits, Storing
<1> DEFINE e == raft_log.entries
           n == ReadyFirst - LogFirst
<1>2. /\ ready.offset # NoOffset => ReadyFirst = LogEnd + 1
      /\ ready.offset = NoOffset => BatchOffset = LogFirst - raft_log.first
      /\ NewWalIndex = ReadyFirst - BatchOffset
      /\ BatchOffset # NoOffset /\ BatchOffset \in Int /\ LogFirst <= ReadyFirst
  BY Zenon, <1>1, BatchView
<1>3. /\ LogFirst \in Nat \ {0} /\ ReadyFirst \in Nat /\ Len(e) \in Nat
      /\ raft_log.first \in Nat /\ LogEnd = LogFirst + Len(e) - 1 /\ LogEnd \in Nat
      /\ persistent.commit < ReadyFirst /\ persistent.commit \in Nat
  BY Zenon, <1>1 DEF EndTypes, NumberTypes, EntriesFit
<1>4. BatchOffset = LogFirst - raft_log.first
  <2>1. ReadyFirst # LogEnd + 1
    BY <1>3
  <2> QED
    BY Zenon, <1>2, <2>1
<1>5. /\ n \in Nat /\ n <= Len(e) /\ NewWalIndex - raft_log.first = n
      /\ LogFirst + n = ReadyFirst
  <2>1. \A a, b, c \in Int : a <= b /\ b <= a + c - 1 =>
            b - a \in Nat /\ b - a <= c /\ a + (b - a) = b
    OBVIOUS
  <2>2. ReadyFirst <= LogFirst + Len(e) - 1
    BY Zenon, <1>3
  <2>3. LogFirst \in Int /\ ReadyFirst \in Int /\ Len(e) \in Int /\ raft_log.first \in Int
    BY <1>3
  <2>4. n \in Nat /\ n <= Len(e) /\ LogFirst + n = ReadyFirst
    BY Zenon, <1>2, <2>1, <2>2, <2>3
  <2>5. ReadyFirst - (LogFirst - raft_log.first) - raft_log.first = n
    BY <2>3
  <2> QED
    BY Zenon, <1>2, <1>4, <2>4, <2>5
<1>6. raft_log' = IF n = 0 THEN EmptyLog
                  ELSE [raft_log EXCEPT !.entries = SubSeq(@, 1, n), !.flushed = Min({@, n})]
  <2>1. Max({n, 0}) = n
    BY <1>5, Larger
  <2> QED
    BY <1>5, <2>1, Zenon DEF CutLog
<1>7. /\ LastApplied' = LastApplied /\ QueueEnd' = QueueEnd /\ Unapplied' = Unapplied
      /\ ReadyFirst' = ReadyFirst /\ ReadyLast' = ReadyLast /\ NewAreGood' = NewAreGood
      /\ QueueIsDone' = QueueIsDone
      /\ ready'.entries = ready.entries /\ ready'.commit = ready.commit
      /\ ready'.apply_to = ready.apply_to /\ ready'.part = ready.part
      /\ ready'.offset = BatchOffset
      /\ ready' \in [snapshot : Nat, entries : Seq(LogEntries), offset : Int, commit : Nat,
                      apply_to : Nat, part : {"none", "ready", "light", "startup"}]
  <2>1. /\ ready'.entries = ready.entries /\ ready'.commit = ready.commit
        /\ ready'.apply_to = ready.apply_to /\ ready'.part = ready.part
        /\ ready'.offset = BatchOffset
        /\ ready' \in [snapshot : Nat, entries : Seq(LogEntries), offset : Int, commit : Nat,
                        apply_to : Nat, part : {"none", "ready", "light", "startup"}]
    BY Zenon, <1>1, <1>2 DEF ConsensusTypes
  <2> QED
    BY Zenon, <2>1 DEF LastApplied, QueueEnd, Unapplied, ReadyFirst, ReadyLast, NewAreGood,
                       QueueIsDone
<1>8. StateFits'
  BY Zenon, <1>1, <1>7 DEF StateFits
<1>9. \A i \in DOMAIN sent : i \in Nat /\ i < ReadyFirst
  BY Zenon, <1>1 DEF EntriesFit, ConsensusTypes
<1>10. ready.commit <= ReadyLast
  BY Zenon, <1>1 DEF EntriesFit
<1> SUFFICES /\ raft_log' \in [first : Nat, entries : Seq(LogEntries), flushed : Nat]
             /\ Consecutive(raft_log'.entries) /\ raft_log'.flushed <= Len(raft_log'.entries)
             /\ LogFits' /\ ReadyFirst = LogEnd' + 1
             /\ \A k \in 1 .. Len(raft_log'.entries) :
                   LogFirst' + k - 1 <= ready.commit =>
                       ~raft_log'.entries[k].stray \/ Old(LogFirst' + k - 1)
             /\ raft_log'.entries # <<>> =>
                   OffsetFits(BatchOffset, LogFirst' - raft_log'.first)
             /\ raft_log'.entries = <<>> => OffsetFits(BatchOffset, ReadyFirst)
  <2>1. ConsensusTypes'
    BY Zenon, <1>1, <1>7 DEF ConsensusTypes, Stages, Consecutive
  <2>2. ReadyFirst <= ReadyFirst
    BY <1>3
  <2>3. EntriesFit'
    BY Zenon, <1>3, <1>7, <1>9, <1>10, <2>2 DEF EntriesFit, Old, OffsetFits
  <2>4. ReadyFits'
    BY Zenon, <1>1, <1>2, <1>7, <2>3 DEF ReadyFits, Storing
  <2> QED
    BY Zenon, <1>1, <1>8, <2>1, <2>4 DEF ConsensusInv
<1>11. CASE n = 0
  <2>0. LogFirst = ReadyFirst /\ LogFirst \in Nat
    <3>1. LogFirst + n = ReadyFirst /\ LogFirst \in Nat
      BY Zenon, <1>3, <1>5
    <3> HIDE DEF n
    <3> QED
      BY <1>11, <3>1
  <2>1. raft_log'.entries = <<>> /\ raft_log'.first = 0 /\ raft_log'.flushed = 0
    BY <1>6, <1>11 DEF EmptyLog
  <2>2. raft_log' \in [first : Nat, entries : Seq(LogEntries), flushed : Nat]
    BY <1>6, <1>11 DEF EmptyLog
  <2>3. /\ persistent.commit = persistent.snapshot /\ persistent.snapshot \in Nat
        /\ LogFirst = persistent.commit + 1 /\ (raft_log.first = 0 \/ uncleared)
    <3>1. /\ LogFirst <= LastApplied + 1 /\ LastApplied <= QueueEnd
          /\ QueueEnd <= persistent.commit
          /\ LogFirst > persistent.commit =>
                persistent.snapshot = persistent.commit /\ (raft_log.first = 0 \/ uncleared)
      BY Zenon, <1>1 DEF LogFits, StateFits
    <3>2. LogFirst = persistent.commit + 1
      <4>1. LogFirst \in Nat /\ persistent.commit \in Nat /\ LastApplied \in Int
            /\ QueueEnd \in Nat /\ persistent.commit < LogFirst
        BY Zenon, <1>1, <1>3, <2>0 DEF NumberTypes
      <4> QED
        BY <3>1, <4>1
    <3> QED
      BY <1>3, <3>1, <3>2
  <2>4. LogEnd' = persistent.snapshot /\ ReadyFirst = LogEnd' + 1
    BY <1>3, <1>5, <1>11, <2>1, <2>3 DEF LogEnd
  <2>5. \A i \in DOMAIN sent : i <= persistent.snapshot
    BY <1>3, <1>5, <1>9, <1>11, <2>3
  <2>6. LogFits'
    BY Zenon, <2>1, <2>3, <2>5 DEF LogFits
  <2>7. Len(raft_log'.entries) = 0
    BY Zenon, <2>1
  <2>8. OffsetFits(BatchOffset, ReadyFirst)
    <3>1. /\ LogFirst - raft_log.first <= LogFirst
          /\ raft_log.first = 0 => LogFirst - raft_log.first = LogFirst
      BY <1>3
    <3> QED
      BY Zenon, <1>4, <2>0, <2>3, <3>1 DEF OffsetFits
  <2> QED
    BY <2>1, <2>2, <2>4, <2>6, <2>7, <2>8 DEF Consecutive
<1>12. CASE n # 0
  <2> DEFINE f == Min({raft_log.flushed, n})
  <2>0. raft_log.flushed \in Int /\ n \in Int
    BY <1>1, <1>5 DEF NumberTypes
  <2>1. f = IF raft_log.flushed <= n THEN raft_log.flushed ELSE n
    <3> HIDE DEF n
    <3> QED
      BY <2>0, Larger, Zenon
  <2> HIDE DEF f
  <2>2. f \in Nat /\ f <= n /\ f <= raft_log.flushed
    BY <1>1, <1>5, <2>1 DEF NumberTypes
  <2>3. raft_log' = [raft_log EXCEPT !.entries = SubSeq(e, 1, n), !.flushed = f]
    BY Zenon, <1>6, <1>12 DEF f
  <2>4. /\ SubSeq(e, 1, n) \in Seq(LogEntries) /\ Len(SubSeq(e, 1, n)) = n
        /\ SubSeq(e, 1, n) # <<>>
        /\ \A k \in 1 .. n : SubSeq(e, 1, n)[k] = e[k]
    <3>1. e \in Seq(LogEntries) /\ 1 \in 1 .. Len(e) + 1 /\ n \in 1 - 1 .. Len(e)
      BY <1>1, <1>3, <1>5 DEF ConsensusTypes
    <3> HIDE DEF n, e
    <3>2. /\ SubSeq(e, 1, n) \in Seq(LogEntries) /\ Len(SubSeq(e, 1, n)) = n - 1 + 1
          /\ \A k \in 1 .. n - 1 + 1 : SubSeq(e, 1, n)[k] = e[1 + k - 1]
          /\ SubSeq(e, 1, n) = <<>> <=> n = 1 - 1
      BY Zenon, <3>1, SubSeqFacts
    <3>3. n - 1 + 1 = n /\ \A k \in 1 .. n : 1 + k - 1 = k
      BY <1>5
    <3> QED
      BY Zenon, <1>12, <3>2, <3>3
  <2>5. /\ raft_log'.entries = SubSeq(e, 1, n) /\ raft_log'.flushed = f
        /\ raft_log'.first = raft_log.first
        /\ raft_log' \in [first : Nat, entries : Seq(LogEntries), flushed : Nat]
    BY <1>1, <2>2, <2>3, <2>4, Zenon DEF ConsensusTypes
  <2>6. /\ raft_log'.entries # <<>> /\ Len(raft_log'.entries) = n
        /\ \A k \in 1 .. n : raft_log'.entries[k] = e[k]
    BY Zenon, <2>4, <2>5
  <2> HIDE DEF n
  <2>7. 1 \in 1 .. n /\ LogFirst' = LogFirst /\ \A k \in 1 .. n : k \in 1 .. Len(e)
    BY <1>3, <1>5, <1>12, <2>6 DEF LogFirst
  <2>8. LogEnd' = LogFirst + n - 1 /\ ReadyFirst = LogEnd' + 1
    BY <1>3, <1>5, <2>6, <2>7 DEF LogEnd
  <2>9. Consecutive(raft_log'.entries)
    <3>1. \A k \in 1 .. Len(e) : e[k].index = e[1].index + k - 1
      BY Zenon, <1>1 DEF ConsensusTypes, Consecutive
    <3> QED
      BY Zenon, <2>6, <2>7, <3>1 DEF Consecutive
  <2>10. LogFits'
    <3>1. /\ raft_log.first < LogFirst /\ LogFirst <= LastApplied + 1
          /\ LogFirst > persistent.commit =>
                persistent.snapshot = persistent.commit /\ (raft_log.first = 0 \/ uncleared)
          /\ raft_log.flushed = 0 => raft_log.first = 0
          /\ persistent.commit <= LogFirst + raft_log.flushed - 1
      BY Zenon, <1>1 DEF LogFits
    <3>2. persistent.commit <= LogFirst + f - 1 /\ (f = 0 => raft_log.flushed = 0)
      <4>1. /\ persistent.commit \in Nat /\ LogFirst \in Nat /\ raft_log.flushed \in Nat
            /\ n \in Nat /\ n # 0 /\ LogFirst + n = ReadyFirst
            /\ persistent.commit < ReadyFirst
            /\ persistent.commit <= LogFirst + raft_log.flushed - 1
        BY Zenon, <1>1, <1>3, <1>5, <1>12, <3>1 DEF NumberTypes
      <4> QED
        BY <2>1, <4>1
    <3>3. ASSUME NEW k \in 1 .. n, LogFirst + k - 1 <= persistent.commit
          PROVE  ~raft_log'.entries[k].stray \/ Old(LogFirst + k - 1)
      BY Zenon, <1>1, <2>6, <2>7, <3>3 DEF LogFits
    <3>4. ASSUME NEW i \in DOMAIN sent, i >= LogFirst
          PROVE  /\ i - LogFirst + 1 <= f
                 /\ raft_log'.entries[i - LogFirst + 1] = sent[i]
      <4>1. /\ i \in Nat /\ i < ReadyFirst /\ i - LogFirst + 1 <= raft_log.flushed
            /\ e[i - LogFirst + 1] = sent[i]
        BY Zenon, <1>1, <1>9, <3>4 DEF LogFits
      <4>2. i - LogFirst + 1 \in 1 .. n
        BY <1>3, <1>5, <3>4, <4>1
      <4>3. i - LogFirst + 1 <= f
        BY <2>1, <4>1, <4>2
      <4> QED
        BY Zenon, <2>6, <4>1, <4>2, <4>3
    <3> QED
      BY <1>7, <2>5, <2>6, <2>7, <3>1, <3>2, <3>3, <3>4, Zenon DEF LogFits, Old
  <2>11. ASSUME NEW k \in 1 .. n, LogFirst + k - 1 <= ready.commit
         PROVE  ~raft_log'.entries[k].stray \/ Old(LogFirst + k - 1)
    <3>1. k \in 1 .. Len(e) /\ LogFirst + k - 1 < ReadyFirst
      BY <1>3, <1>5, <2>7
    <3>2. ~e[k].stray \/ Old(LogFirst + k - 1)
      BY Zenon, <1>1, <2>11, <3>1 DEF EntriesFit
    <3> QED
      BY Zenon, <2>6, <3>2
  <2>12. OffsetFits(BatchOffset, LogFirst' - raft_log'.first)
    <3>1. LogFirst - raft_log.first <= LogFirst - raft_log.first
      BY <1>3
    <3> QED
      BY Zenon, <1>4, <2>5, <2>7, <3>1 DEF OffsetFits
  <2> QED
    BY <2>2, <2>5, <2>6, <2>7, <2>8, <2>9, <2>10, <2>11, <2>12, Zenon
<1> QED
  BY Zenon, <1>11, <1>12

LEMMA AppendEntryStep ==
    ASSUME ConsensusInv, AppendEntry
    PROVE  ConsensusInv'
<1>1. /\ ConsensusTypes /\ StateFits /\ ReadyFits /\ NumberTypes /\ EndTypes
      /\ peer = "up" /\ stage = "append" /\ ready.entries # <<>>
      /\ LogFits /\ EntriesFit /\ StorageEnds
  BY Zenon, InvariantFacts DEF AppendEntry, At, ReadyFits
<1>2. /\ UNCHANGED <<compacted, persistent, raft_applied, toc, fresh, sent, uncleared>>
  BY Zenon DEF AppendEntry
<1>3. /\ NewEntry.index = ReadyFirst /\ compacted <= ReadyFirst
      /\ raft_log.entries = <<>> => BatchOffset = NoOffset
      /\ raft_log.entries # <<>> =>
            /\ OffsetFits(BatchOffset, LogFirst - raft_log.first)
            /\ BatchOffset # NoOffset /\ BatchOffset \in Int
            /\ ready.offset = NoOffset => BatchOffset = LogFirst - raft_log.first
            /\ ready.offset # NoOffset => ReadyFirst = LogEnd + 1
            /\ NewWalIndex = ReadyFirst - BatchOffset
            /\ WalLastIndex = raft_log.first + Len(raft_log.entries) - 1
            /\ LogFirst <= ReadyFirst /\ ReadyFirst <= LogEnd + 1
  BY Zenon, <1>1, BatchView DEF ReadyFits
<1>4. /\ ReadyFirst \in Nat /\ compacted \in Nat /\ raft_log.first \in Nat
      /\ Len(raft_log.entries) \in Nat
      /\ raft_log.entries # <<>> =>
            LogFirst \in Nat /\ LogEnd = LogFirst + Len(raft_log.entries) - 1
  BY Zenon, <1>1 DEF NumberTypes, EndTypes
<1>5. ASSUME Rejected PROVE uncleared
  <2>1. ~(NewEntry.index < compacted)
    BY <1>3, <1>4
  <2>2. PICK x \in {NewWalIndex} : BatchOffset # NoOffset /\ (x < 0 \/ x > WalLastIndex + 1)
    BY Zenon, <1>5, <2>1 DEF Rejected
  <2>3. raft_log.entries # <<>>
    BY Zenon, <1>3, <2>2
  <2>4. BatchOffset # LogFirst - raft_log.first
    BY <1>3, <1>4, <2>2, <2>3
  <2> QED
    BY Zenon, <1>3, <2>3, <2>4 DEF OffsetFits
<1>6. CASE Rejected /\ peer' = "failed" /\ UNCHANGED <<raft_log, ready, stage>>
  <2>1. /\ LogFits' = LogFits /\ EntriesFit' = EntriesFit
        /\ SnapshotFits' = SnapshotFits /\ NewAreGood' = NewAreGood
        /\ Unapplied' = Unapplied /\ QueueEnd' = QueueEnd /\ LogEnd' = LogEnd
        /\ LastApplied' = LastApplied /\ ReadyFirst' = ReadyFirst
    BY Zenon, <1>2, <1>6, LogUntouched
  <2>2. ConsensusTypes' /\ StateFits'
    BY Zenon, <1>1, <1>2, <1>6, <2>1 DEF ConsensusTypes, StateFits, Consecutive
  <2>3. ReadyFits'
    BY Zenon, <1>1, <1>2, <1>6, <2>1 DEF ReadyFits, QueueIsDone, Storing
  <2> QED
    BY Zenon, <1>2, <1>5, <1>6, <2>2, <2>3 DEF ConsensusInv, PeerStates
<1>7. CASE /\ BatchOffset # NoOffset /\ NewWalIndex <= WalLastIndex
           /\ raft_log' = CutLog(raft_log, NewWalIndex)
           /\ ready' = [ready EXCEPT !.offset = BatchOffset]
           /\ stage' = "cut" /\ UNCHANGED peer
  <2>1. raft_log.entries # <<>>
    BY Zenon, <1>3, <1>7
  <2>2. BatchOffset <= LogFirst - raft_log.first
    BY Zenon, <1>3, <2>1 DEF OffsetFits
  <2>3. ReadyFirst <= LogEnd
    BY <1>3, <1>4, <1>7, <2>1, <2>2
  <2> QED
    BY Zenon, <1>1, <1>2, <1>7, <2>1, <2>3, CutKeeps
<1>8. CASE /\ BatchOffset = NoOffset \/ NewWalIndex = WalLastIndex + 1
           /\ StoreEntry /\ UNCHANGED peer
  <2>1. raft_log.entries # <<>> => ReadyFirst = LogEnd + 1
    <3> SUFFICES ASSUME raft_log.entries # <<>> PROVE ReadyFirst = LogEnd + 1
      BY Zenon
    <3>1. CASE ready.offset # NoOffset
      BY Zenon, <1>3, <3>1
    <3>2. CASE ready.offset = NoOffset
      <4>1. ReadyFirst - (LogFirst - raft_log.first)
              = raft_log.first + Len(raft_log.entries) - 1 + 1
        BY Zenon, <1>3, <1>8, <3>2
      <4>2. /\ ReadyFirst \in Nat /\ raft_log.first \in Nat /\ Len(raft_log.entries) \in Nat
            /\ LogFirst \in Nat /\ LogEnd = LogFirst + Len(raft_log.entries) - 1
        BY Zenon, <1>4
      <4> QED
        BY <4>1, <4>2
    <3> QED
      BY Zenon, <3>1, <3>2
  <2> QED
    BY Zenon, <1>1, <1>2, <1>8, <2>1, StoreEntryKeeps
<1> QED
  BY Zenon, <1>6, <1>7, <1>8 DEF AppendEntry

-----------------------------------------------------------------------------
(* Compaction, crash and restart leave a part of the log.                  *)

LEMMA PartOfLog ==
    ASSUME ConsensusTypes, NEW a \in 1 .. Len(raft_log.entries),
           NEW b \in a .. Len(raft_log.entries),
           raft_log'.entries = SubSeq(raft_log.entries, a, b)
    PROVE  /\ raft_log'.entries \in Seq(LogEntries) /\ raft_log'.entries # <<>>
           /\ Len(raft_log'.entries) = b - a + 1
           /\ \A k \in 1 .. b - a + 1 : raft_log'.entries[k] = raft_log.entries[a + k - 1]
           /\ LogFirst' = LogFirst + a - 1 /\ LogEnd' = LogFirst + b - 1
           /\ Consecutive(raft_log'.entries)
<1> DEFINE e == raft_log.entries
<1>1. /\ e \in Seq(LogEntries) /\ Len(e) \in Nat /\ a \in Nat /\ b \in Nat
      /\ 1 <= a /\ a <= b /\ b <= Len(e) /\ e # <<>>
      /\ a \in 1 .. Len(e) + 1 /\ b \in a - 1 .. Len(e)
  BY DEF ConsensusTypes
<1>2. LogFirst \in Nat /\ \A k \in 1 .. Len(e) : e[k].index = LogFirst + k - 1
  BY <1>1, TypeFacts, SMTT(20) DEF ConsensusTypes, Consecutive, LogFirst, EndTypes
<1> HIDE DEF e
<1>3. /\ raft_log'.entries \in Seq(LogEntries) /\ Len(raft_log'.entries) = b - a + 1
      /\ \A k \in 1 .. b - a + 1 : raft_log'.entries[k] = e[a + k - 1]
      /\ raft_log'.entries = <<>> <=> b = a - 1
  BY <1>1, SubSeqFacts, Zenon DEF e
<1>4. raft_log'.entries # <<>>
  BY <1>1, <1>3
<1>5. \A k \in 1 .. b - a + 1 : /\ a + k - 1 \in 1 .. Len(e)
                                /\ LogFirst + (a + k - 1) - 1 = (LogFirst + a - 1) + k - 1
  BY <1>1, <1>2
<1>6. \A k \in 1 .. b - a + 1 : raft_log'.entries[k].index = (LogFirst + a - 1) + k - 1
  BY <1>2, <1>3, <1>5, Zenon
<1>7. LogFirst' = LogFirst + a - 1
  <2>1. 1 \in 1 .. b - a + 1 /\ (LogFirst + a - 1) + 1 - 1 = LogFirst + a - 1
    BY <1>1, <1>2
  <2> QED
    BY <1>6, <2>1, Zenon DEF LogFirst
<1>8. LogEnd' = LogFirst + b - 1
  BY <1>1, <1>2, <1>3, <1>4, <1>7 DEF LogEnd
<1>9. Consecutive(raft_log'.entries)
  BY Zenon, <1>3, <1>6, <1>7 DEF Consecutive, LogFirst
<1> QED
  BY <1>3, <1>4, <1>7, <1>8, <1>9, Zenon DEF e

LEMMA CompactKeeps ==
    ASSUME ConsensusInv, LogFits, StorageEnds, raft_log.entries # <<>>, Compact(LastApplied),
           LastApplied \in Nat, raft_log.flushed = Len(raft_log.entries),
           UNCHANGED <<persistent, raft_applied, toc, sent, uncleared>>
    PROVE  /\ raft_log' \in [first : Nat, entries : Seq(LogEntries), flushed : Nat]
           /\ Consecutive(raft_log'.entries) /\ raft_log'.flushed = Len(raft_log'.entries)
           /\ compacted' \in Nat /\ StateFits' /\ LogFits'
<1>1. /\ ConsensusTypes /\ StateFits /\ NumberTypes /\ EndTypes
  BY Zenon, InvariantFacts
<1> DEFINE e == raft_log.entries
           A == LastApplied
<1>2. /\ LastApplied' = LastApplied /\ QueueEnd' = QueueEnd
  BY Zenon DEF LastApplied, QueueEnd
<1>3. /\ A \in Nat /\ LogFirst \in Nat \ {0} /\ Len(e) \in Nat /\ raft_log.first \in Nat
      /\ raft_log.flushed = Len(e) /\ persistent.commit \in Nat /\ compacted \in Nat
      /\ LogEnd = LogFirst + Len(e) - 1 /\ persistent.commit <= LogEnd
      /\ A <= persistent.commit /\ compacted <= persistent.commit
  <2>1. LastApplied <= QueueEnd /\ QueueEnd <= persistent.commit
        /\ compacted <= persistent.commit /\ persistent.commit <= LogEnd
    BY Zenon, <1>1 DEF StateFits, StorageEnds
  <2> QED
    BY <1>1, <2>1 DEF NumberTypes, EndTypes
<1>4. ASSUME compacted' \in Nat, compacted' <= A \/ compacted' = compacted
      PROVE  StateFits'
  <2>1. compacted <= LastApplied + 1
    BY Zenon, <1>1 DEF StateFits
  <2>2. compacted' <= LastApplied + 1 /\ compacted' <= persistent.commit
    BY <1>3, <1>4, <2>1
  <2> QED
    BY Zenon, <1>1, <1>2, <2>2 DEF StateFits
<1>5. ASSUME UNCHANGED raft_log PROVE LogFits'
  <2>1. LogFirst' = LogFirst
    BY Zenon, <1>5 DEF LogFirst
  <2> QED
    BY Zenon, <1>2, <1>5, <2>1 DEF LogFits, Old
<1>6. raft_log \in [first : Nat, entries : Seq(LogEntries), flushed : Nat]
      /\ Consecutive(e)
  BY Zenon, <1>1 DEF ConsensusTypes
<1>7. CASE A <= compacted /\ UNCHANGED <<raft_log, compacted>>
  BY Zenon, <1>3, <1>4, <1>5, <1>6, <1>7
<1>8. CASE compacted' = A /\ UNCHANGED raft_log
  BY <1>3, <1>4, <1>5, <1>6, <1>8
<1>9. CASE /\ A > compacted /\ A >= Offset
           /\ LET w == Min({A - Offset, WalLastIndex})
              IN  compacted' = w + Offset /\ raft_log' \in CutPrefix(raft_log, w)
  <2>1. /\ Offset = LogFirst - raft_log.first
        /\ WalLastIndex = raft_log.first + Len(e) - 1
    <3>1. compacted <= LogEnd
      BY <1>1, <1>3 DEF NumberTypes
    <3> QED
      BY Zenon, <1>1, <3>1, LogView
  <2>2. /\ Offset \in Int /\ WalLastIndex \in Int /\ A - Offset \in Int
        /\ A - Offset <= WalLastIndex /\ A - Offset + Offset = A
        /\ A - Offset - raft_log.first = A - LogFirst
    <3> HIDE DEF A, e
    <3>1. Offset \in Int /\ WalLastIndex \in Int
      BY <1>3, <2>1, SMTT(20)
    <3>2. A <= LogFirst + Len(e) - 1
      BY <1>3
    <3>3. A - Offset = A - LogFirst + raft_log.first
      BY <1>3, <2>1
    <3>4. A - LogFirst + raft_log.first <= raft_log.first + Len(e) - 1
      BY <1>3, <3>2
    <3>5. A - Offset <= WalLastIndex
      BY Zenon, <2>1, <3>3, <3>4
    <3>6. A - Offset \in Int /\ A - Offset + Offset = A
      BY <1>3, <3>1
    <3>7. A - Offset - raft_log.first = A - LogFirst
      BY <1>3, <3>3
    <3> QED
      BY Zenon, <3>1, <3>5, <3>6, <3>7
  <2>3. Min({A - Offset, WalLastIndex}) = A - Offset
    <3> HIDE DEF A
    <3> QED
      BY <2>2, Larger, Zenon
  <2>4. compacted' = A /\ raft_log' \in CutPrefix(raft_log, A - Offset)
    BY Zenon, <1>9, <2>2, <2>3
  <2>5. PICK n \in 0 .. A - LogFirst :
           raft_log' = [first |-> raft_log.first + n, entries |-> SubSeq(e, n + 1, Len(e)),
                        flushed |-> Max({raft_log.flushed - n, 0})]
    BY <2>2, <2>4, Zenon DEF CutPrefix
  <2>6. /\ n \in Nat /\ LogFirst + n <= A /\ n < Len(e)
        /\ n + 1 \in 1 .. Len(e) /\ Len(e) \in n + 1 .. Len(e)
        /\ raft_log.flushed - n = Len(e) - n /\ Len(e) - n \in Int /\ Len(e) - n >= 0
        /\ Len(e) - (n + 1) + 1 = Len(e) - n /\ LogFirst + (n + 1) - 1 = LogFirst + n
    BY <1>3, <2>5
  <2>7. Max({raft_log.flushed - n, 0}) = Len(e) - n
    BY <2>6, Larger, SMTT(20)
  <2>8. /\ raft_log'.entries = SubSeq(e, n + 1, Len(e)) /\ raft_log'.first = raft_log.first + n
        /\ raft_log'.flushed = Len(e) - n
    BY <2>5, <2>7, SMTT(20)
  <2>9. /\ raft_log'.entries \in Seq(LogEntries) /\ raft_log'.entries # <<>>
        /\ Len(raft_log'.entries) = Len(e) - n
        /\ \A k \in 1 .. Len(e) - n : raft_log'.entries[k] = e[(n + 1) + k - 1]
        /\ LogFirst' = LogFirst + n /\ Consecutive(raft_log'.entries)
    BY <1>1, <2>6, <2>8, PartOfLog, Zenon
  <2>10. raft_log' \in [first : Nat, entries : Seq(LogEntries), flushed : Nat]
    <3>1. raft_log.first + n \in Nat /\ Max({raft_log.flushed - n, 0}) \in Nat
      BY <1>3, <2>6, <2>7, SMTT(20)
    <3> QED
      BY Zenon, <2>5, <2>8, <2>9, <3>1
  <2>11. LogFits'
    <3>1. raft_log.first < LogFirst
      BY Zenon, <1>1 DEF LogFits
    <3>2. /\ raft_log.first + n < LogFirst + n /\ LogFirst + n <= A + 1
          /\ ~(LogFirst + n > persistent.commit)
          /\ persistent.commit <= LogFirst + n + (Len(e) - n) - 1
      <4>1. raft_log.first + n < LogFirst + n
        BY <1>3, <2>6, <3>1
      <4>2. LogFirst + n <= A + 1 /\ ~(LogFirst + n > persistent.commit)
        <5>1. A \in Nat /\ LogFirst \in Nat /\ persistent.commit \in Nat /\ n \in Nat
              /\ A <= persistent.commit /\ LogFirst + n <= A
          BY Zenon, <1>3, <2>6
        <5> HIDE DEF A
        <5> QED
          BY <5>1
      <4>3. LogFirst + n + (Len(e) - n) - 1 = LogEnd
        <5>1. LogFirst \in Nat /\ n \in Nat /\ Len(e) \in Nat
              /\ LogEnd = LogFirst + Len(e) - 1
          BY Zenon, <1>3, <2>6
        <5> HIDE DEF e
        <5> QED
          BY <5>1
      <4> QED
        BY <1>3, <4>1, <4>2, <4>3, Zenon
    <3>3. ASSUME NEW k \in 1 .. Len(e) - n, (LogFirst + n) + k - 1 <= persistent.commit
          PROVE  ~raft_log'.entries[k].stray \/ Old((LogFirst + n) + k - 1)
      <4>1. /\ (n + 1) + k - 1 \in 1 .. Len(e)
            /\ LogFirst + ((n + 1) + k - 1) - 1 = (LogFirst + n) + k - 1
        BY <1>3, <2>6
      <4> QED
        BY <2>9, <3>3, <4>1, Zenon DEF LogFits
    <3>4. ASSUME NEW i \in DOMAIN sent, i >= LogFirst + n
          PROVE  /\ i - (LogFirst + n) + 1 <= Len(e) - n
                 /\ raft_log'.entries[i - (LogFirst + n) + 1] = sent[i]
      <4>1. i \in Nat /\ i >= LogFirst
        BY <1>1, <1>3, <2>6, <3>4, SMTT(20) DEF ConsensusTypes
      <4>2. i - LogFirst + 1 <= Len(e) /\ e[i - LogFirst + 1] = sent[i]
        BY Zenon, <4>1 DEF LogFits
      <4>3. /\ i - (LogFirst + n) + 1 \in 1 .. Len(e) - n
            /\ i - (LogFirst + n) + 1 <= Len(e) - n
            /\ (n + 1) + (i - (LogFirst + n) + 1) - 1 = i - LogFirst + 1
        <5> HIDE DEF e
        <5>1. LogFirst \in Nat /\ Len(e) \in Nat /\ n \in Nat /\ i \in Nat
          BY Zenon, <1>3, <2>6, <4>1
        <5>2. i >= LogFirst + n /\ i - LogFirst + 1 <= Len(e)
          BY Zenon, <3>4, <4>2
        <5> QED
          BY <5>1, <5>2, SMTT(20)
      <4> QED
        BY <2>9, <4>2, <4>3, SMTT(20)
    <3>5. Len(e) - n # 0
      BY <1>3, <2>6
    <3> QED
      BY <1>2, <2>8, <2>9, <3>2, <3>3, <3>4, <3>5, Zenon DEF LogFits, Old
  <2>12. StateFits'
    BY <1>3, <1>4, <2>4
  <2> QED
    BY Zenon, <1>3, <2>4, <2>8, <2>9, <2>10, <2>11, <2>12
<1> QED
  BY Zenon, <1>7, <1>8, <1>9 DEF Compact

LEMMA CompactLogStep ==
    ASSUME ConsensusInv, CompactLog
    PROVE  ConsensusInv'
<1>1. /\ ConsensusTypes /\ StateFits /\ ReadyFits /\ NumberTypes /\ EndTypes /\ QueueTypes
      /\ peer = "up" /\ stage \in {"apply", "compact"} /\ LogFits
      /\ StorageEnds /\ raft_log.flushed = Len(raft_log.entries)
      /\ ready.part \notin {"none", "ready"}
      /\ ready.part = "light" => QueueEnd = persistent.commit /\ ~Unapplied
      /\ ready.part = "startup" => fresh /\ raft_applied <= LastApplied
  BY Zenon, InvariantFacts DEF CompactLog, At, ReadyFits
<1>2. /\ UNCHANGED <<persistent, raft_applied, toc, sent, uncleared>>
      /\ stage' = "idle" /\ ready' = NoReady /\ fresh' = (fresh /\ ready.part = "startup")
  BY Zenon DEF CompactLog
<1>3. LastApplied \in Nat
  BY <1>1 DEF StateFits, NumberTypes
<1>4. LastApplied' = LastApplied /\ QueueEnd' = QueueEnd /\ Unapplied' = Unapplied
  BY Zenon, <1>2 DEF LastApplied, QueueEnd, Unapplied
<1> DEFINE known == FirstEntry # <<>> /\ persistent.queue # <<>>
<1>5. peer' = "up"
  <2>1. FirstEntry # <<>> => FirstEntry[1].index = StorageFirst
    BY Zenon DEF StorageFirst
  <2>2. ~(StorageFirst > LastApplied + 1)
    BY <1>1, <1>3 DEF StorageEnds
  <2>3. peer' = IF known /\ FirstEntry[1].index > LastApplied + 1 THEN "failed" ELSE peer
    BY Zenon DEF CompactLog
  <2> QED
    BY Zenon, <1>1, <2>1, <2>2, <2>3
<1>6. \/ raft_log.entries # <<>> /\ Compact(LastApplied)
      \/ UNCHANGED <<raft_log, compacted>>
  <2>1. raft_log.entries = <<>> => FirstEntry = <<>>
    BY Zenon, <1>1, EmptyLogView
  <2>2. IF known /\ LastApplied - FirstEntry[1].index >= CompactEntries
        THEN Compact(LastApplied) ELSE UNCHANGED <<raft_log, compacted>>
    BY Zenon DEF CompactLog
  <2> QED
    BY Zenon, <2>1, <2>2
<1>7. /\ raft_log' \in [first : Nat, entries : Seq(LogEntries), flushed : Nat]
      /\ Consecutive(raft_log'.entries) /\ raft_log'.flushed = Len(raft_log'.entries)
      /\ compacted' \in Nat /\ StateFits' /\ LogFits'
  <2>1. CASE raft_log.entries # <<>> /\ Compact(LastApplied)
    BY Zenon, <1>1, <1>2, <1>3, <2>1, CompactKeeps
  <2>2. CASE UNCHANGED <<raft_log, compacted>>
    <3>1. LogFirst' = LogFirst
      BY Zenon, <2>2 DEF LogFirst
    <3>2. LogFits'
      BY Zenon, <1>1, <1>2, <1>4, <2>2, <3>1 DEF LogFits, Old
    <3>3. StateFits'
      BY Zenon, <1>1, <1>2, <1>4, <2>2 DEF StateFits
    <3> QED
      BY Zenon, <1>1, <2>2, <3>2, <3>3 DEF ConsensusTypes
  <2> QED
    BY Zenon, <1>6, <2>1, <2>2
<1>8. ConsensusTypes'
  <2>1. /\ ready' \in [snapshot : Nat, entries : Seq(LogEntries), offset : Int, commit : Nat,
                       apply_to : Nat, part : {"none", "ready", "light", "startup"}]
        /\ Consecutive(ready'.entries)
    BY <1>2 DEF NoReady, NoOffset, Consecutive
  <2>2. Len(raft_log'.entries) \in Nat
    BY Zenon, <1>7
  <2>3. raft_log'.flushed <= Len(raft_log'.entries)
    BY <1>7, <2>2
  <2> QED
    BY <1>1, <1>2, <1>5, <1>7, <2>1, <2>3, SMTT(20) DEF ConsensusTypes, Stages
<1>9. ready.part \in {"light", "startup"}
  <2>1. ready.part \in {"none", "ready", "light", "startup"}
    BY Zenon, <1>1 DEF ConsensusTypes
  <2> QED
    BY Zenon, <1>1, <2>1
<1>10. (~fresh' => QueueEnd' = persistent'.commit) /\ QueueIsDone'
  BY <1>1, <1>2, <1>4, <1>9, Zenon DEF QueueIsDone
<1>11. ReadyFits'
  BY Zenon, <1>1, <1>2, <1>4, <1>5, <1>7, <1>10 DEF ReadyFits, Storing
<1> QED
  BY <1>1, <1>2, <1>5, <1>7, <1>8, <1>11, SMTT(20) DEF ConsensusInv

\* A crash keeps what is flushed; while the log is cleared, any part of it.
LEMMA CrashPeerStep ==
    ASSUME ConsensusInv, CrashPeer
    PROVE  ConsensusInv'
<1>1. /\ ConsensusTypes /\ StateFits /\ ReadyFits /\ NumberTypes /\ EndTypes
      /\ peer \in {"up", "stopped"}
      /\ stage # "clear" => LogFits
  BY Zenon, InvariantFacts DEF CrashPeer
<1> DEFINE e == raft_log.entries
           part(a, b) == [first |-> raft_log.first + a - 1,
                          entries |-> SubSeq(e, a, b), flushed |-> b - a + 1]
<1>2. /\ UNCHANGED <<persistent, raft_applied, toc, fresh, sent>>
      /\ peer' = "down" /\ stage' = "idle" /\ ready' = NoReady /\ compacted' = 0
      /\ uncleared' = (\/ uncleared
                       \/ /\ stage = "clear" /\ raft_log'.entries # <<>>
                          /\ raft_log'.entries[Len(raft_log'.entries)].index
                                >= persistent.snapshot)
  BY Zenon DEF CrashPeer
<1>3. raft_log' \in
         IF stage = "clear"
         THEN {EmptyLog} \cup UNION {{part(a, b) : b \in a .. Len(e)} : a \in DOMAIN e}
         ELSE {part(1, n) : n \in raft_log.flushed .. Len(e)}
  BY Zenon DEF CrashPeer, Surviving
<1>4. LastApplied' = LastApplied /\ QueueEnd' = QueueEnd /\ Unapplied' = Unapplied
  BY Zenon, <1>2 DEF LastApplied, QueueEnd, Unapplied
<1>5. StateFits'
  <2>1. 0 <= LastApplied + 1 /\ 0 <= persistent.commit
    BY <1>1 DEF StateFits, NumberTypes
  <2> QED
    BY Zenon, <1>1, <1>2, <1>4, <2>1 DEF StateFits
<1>6. /\ e \in Seq(LogEntries) /\ DOMAIN e = 1 .. Len(e) /\ Len(e) \in Nat
      /\ raft_log.first \in Nat /\ raft_log.flushed \in Nat /\ raft_log.flushed <= Len(e)
      /\ persistent.snapshot \in Nat /\ persistent.commit \in Nat
  BY <1>1 DEF ConsensusTypes, NumberTypes
<1> SUFFICES /\ raft_log' \in [first : Nat, entries : Seq(LogEntries), flushed : Nat]
             /\ Consecutive(raft_log'.entries) /\ raft_log'.flushed = Len(raft_log'.entries)
             /\ LogFits' \/ LeftOver' \/ Uncleared'
  <2>1. /\ ready' \in [snapshot : Nat, entries : Seq(LogEntries), offset : Int, commit : Nat,
                       apply_to : Nat, part : {"none", "ready", "light", "startup"}]
        /\ Consecutive(ready'.entries)
    BY <1>2 DEF NoReady, NoOffset, Consecutive
  <2>2. Len(raft_log'.entries) \in Nat
    BY Zenon
  <2>3. raft_log'.flushed <= Len(raft_log'.entries)
    BY <2>2
  <2>4. uncleared' \in BOOLEAN /\ 0 \in Nat
    BY Zenon, <1>1, <1>2 DEF ConsensusTypes
  <2>5. ConsensusTypes'
    BY <1>1, <1>2, <2>1, <2>3, <2>4, SMTT(20) DEF ConsensusTypes, Stages
  <2>6. ReadyFits'
    BY <1>2, SMTT(20) DEF ReadyFits, Storing
  <2> QED
    BY Zenon, <1>2, <1>5, <2>5, <2>6 DEF ConsensusInv, PeerStates
<1>7. ASSUME raft_log' = EmptyLog,
             persistent.commit = persistent.snapshot,
             \A i \in DOMAIN sent : i <= persistent.snapshot
      PROVE  /\ raft_log' \in [first : Nat, entries : Seq(LogEntries), flushed : Nat]
             /\ Consecutive(raft_log'.entries) /\ raft_log'.flushed = Len(raft_log'.entries)
             /\ LogFits'
  <2>1. raft_log'.entries = <<>> /\ raft_log'.first = 0 /\ raft_log'.flushed = 0
    BY <1>7, SMTT(20) DEF EmptyLog
  <2>2. LogFits'
    BY Zenon, <1>2, <1>7, <2>1 DEF LogFits
  <2> QED
    BY <1>7, <2>2 DEF EmptyLog, Consecutive
<1>8. ASSUME NEW a \in 1 .. Len(e), NEW b \in a .. Len(e), raft_log' = part(a, b)
      PROVE  /\ raft_log' \in [first : Nat, entries : Seq(LogEntries), flushed : Nat]
             /\ Consecutive(raft_log'.entries)
             /\ raft_log'.flushed = Len(raft_log'.entries) /\ raft_log'.entries # <<>>
             /\ Len(raft_log'.entries) = b - a + 1 /\ raft_log'.first = raft_log.first + a - 1
             /\ \A k \in 1 .. b - a + 1 : raft_log'.entries[k] = e[a + k - 1]
             /\ LogFirst' = LogFirst + a - 1 /\ LogEnd' = LogFirst + b - 1
  <2>1. /\ raft_log'.entries = SubSeq(e, a, b) /\ raft_log'.flushed = b - a + 1
        /\ raft_log'.first = raft_log.first + a - 1
    BY Zenon, <1>8
  <2>2. /\ raft_log'.entries \in Seq(LogEntries) /\ raft_log'.entries # <<>>
        /\ Len(raft_log'.entries) = b - a + 1
        /\ \A k \in 1 .. b - a + 1 : raft_log'.entries[k] = e[a + k - 1]
        /\ LogFirst' = LogFirst + a - 1 /\ LogEnd' = LogFirst + b - 1
        /\ Consecutive(raft_log'.entries)
    BY <1>1, <2>1, PartOfLog, Zenon
  <2>3. raft_log.first + a - 1 \in Nat /\ b - a + 1 \in Nat
    BY <1>6
  <2>4. raft_log' \in [first : Nat, entries : Seq(LogEntries), flushed : Nat]
    BY Zenon, <1>8, <2>1, <2>2, <2>3
  <2> QED
    BY Zenon, <2>1, <2>2, <2>4
<1>9. CASE stage = "clear"
  <2>1. persistent.commit = persistent.snapshot /\ DOMAIN sent = {}
    <3>1. /\ persistent.snapshot = ready.snapshot /\ persistent.commit <= ready.snapshot
          /\ DOMAIN sent = {}
      BY Zenon, <1>1, <1>9 DEF ReadyFits, SnapshotFits
    <3>2. /\ persistent.snapshot <= raft_applied /\ raft_applied <= QueueEnd
          /\ QueueEnd <= persistent.commit /\ raft_applied \in Nat /\ QueueEnd \in Nat
      BY Zenon, <1>1 DEF StateFits, NumberTypes
    <3> QED
      BY <1>6, <3>1, <3>2
  <2>2. CASE raft_log' = EmptyLog
    BY Zenon, <1>7, <2>1, <2>2
  <2>3. CASE raft_log' \in UNION {{part(a, b) : b \in a .. Len(e)} : a \in DOMAIN e}
    <3>0. PICK a \in DOMAIN e : raft_log' \in {part(a, b) : b \in a .. Len(e)}
      BY Zenon, <2>3
    <3>1. PICK b \in a .. Len(e) : raft_log' = part(a, b)
      BY Zenon, <3>0
    <3>2. a \in 1 .. Len(e)
      BY Zenon, <1>6
    <3>3. /\ raft_log' \in [first : Nat, entries : Seq(LogEntries), flushed : Nat]
          /\ Consecutive(raft_log'.entries)
          /\ raft_log'.flushed = Len(raft_log'.entries) /\ raft_log'.entries # <<>>
          /\ LogEnd' = LogFirst + b - 1 /\ LogFirst' = LogFirst + a - 1
          /\ raft_log'.first = raft_log.first + a - 1
      BY <1>8, <3>1, <3>2, Zenon
    <3>4. raft_log'.entries[Len(raft_log'.entries)].index = LogEnd' /\ LogEnd' \in Nat
      <4>1. Len(raft_log'.entries) \in 1 .. Len(raft_log'.entries)
            /\ Len(raft_log'.entries) \in Nat
        BY <3>3
      <4>2. raft_log'.entries[Len(raft_log'.entries)].index
              = LogFirst' + Len(raft_log'.entries) - 1
        BY Zenon, <3>3, <4>1 DEF Consecutive, LogFirst
      <4>3. LogEnd' = LogFirst' + Len(raft_log'.entries) - 1
        BY Zenon, <3>3 DEF LogEnd
      <4>4. LogFirst \in Nat /\ b \in Nat /\ b >= 1
        BY <1>1, <1>6, <3>2 DEF EndTypes
      <4> QED
        BY <3>3, <4>2, <4>3, <4>4
    <3>5. raft_log'.first < LogFirst'
      <4>1. e # <<>> /\ a \in Nat
        BY <1>6, <3>2
      <4>2. raft_log.first < LogFirst /\ LogFirst \in Nat
        BY Zenon, <1>1, <1>9, <4>1 DEF ReadyFits, EndTypes
      <4> QED
        BY <1>6, <3>3, <4>1, <4>2
    <3>6. LogEnd' < persistent.snapshot \/ LogEnd' >= persistent.snapshot
      BY <1>6, <3>4
    <3>7. LeftOver' \/ Uncleared'
      BY Zenon, <1>2, <1>9, <2>1, <3>3, <3>4, <3>5, <3>6 DEF LeftOver, Uncleared
    <3> QED
      BY Zenon, <3>3, <3>7
  <2> QED
    BY Zenon, <1>3, <1>9, <2>2, <2>3
<1>10. CASE stage # "clear"
  <2>1. PICK n \in raft_log.flushed .. Len(e) : raft_log' = part(1, n)
    BY Zenon, <1>3, <1>10
  <2>2. LogFits
    BY Zenon, <1>1, <1>10
  <2>3. CASE n = 0
    <3>1. raft_log.flushed = 0
      BY <1>6, <2>1, <2>3
    <3>2. /\ persistent.commit = persistent.snapshot /\ raft_log.first = 0
          /\ \A i \in DOMAIN sent : i <= persistent.snapshot
      <4>1. CASE e = <<>>
        BY Zenon, <2>2, <4>1 DEF LogFits
      <4>2. CASE e # <<>>
        <5>1. /\ LogFirst \in Nat /\ LogFirst <= LastApplied + 1
              /\ persistent.commit <= LogFirst + 0 - 1
              /\ LogFirst > persistent.commit => persistent.snapshot = persistent.commit
              /\ raft_log.first = 0
              /\ LastApplied <= QueueEnd /\ QueueEnd <= persistent.commit
              /\ LastApplied \in Int /\ QueueEnd \in Nat
          BY Zenon, <1>1, <2>2, <3>1, <4>2 DEF LogFits, StateFits, EndTypes, NumberTypes
        <5>2. LogFirst = persistent.commit + 1
          BY <1>6, <5>1
        <5>3. ASSUME NEW i \in DOMAIN sent PROVE i <= persistent.commit
          <6>1. i \in Nat /\ (i >= LogFirst => i - LogFirst + 1 <= 0)
            BY Zenon, <1>1, <2>2, <3>1, <4>2 DEF LogFits, ConsensusTypes
          <6> QED
            BY <1>6, <5>1, <5>2, <6>1
        <5> QED
          BY <1>6, <5>1, <5>2, <5>3, SMTT(20)
      <4> QED
        BY Zenon, <4>1, <4>2
    <3>3. SubSeq(e, 1, 0) = <<>>
      BY <1>6
    <3>4. raft_log' = EmptyLog
      BY <2>1, <2>3, <3>2, <3>3 DEF EmptyLog
    <3> QED
      BY Zenon, <1>7, <3>2, <3>4
  <2>4. CASE n # 0
    <3>1. /\ n \in Nat /\ raft_log.flushed <= n /\ n <= Len(e) /\ 1 \in 1 .. Len(e)
          /\ n \in 1 .. Len(e) /\ n - 1 + 1 = n
      BY <1>6, <2>1, <2>4
    <3>2. e # <<>>
      BY <1>1, <3>1 DEF EndTypes
    <3>3. LogFirst \in Nat
      BY Zenon, <1>1, <3>2 DEF EndTypes
    <3>4. /\ raft_log' \in [first : Nat, entries : Seq(LogEntries), flushed : Nat]
          /\ Consecutive(raft_log'.entries)
          /\ raft_log'.flushed = Len(raft_log'.entries) /\ raft_log'.entries # <<>>
          /\ Len(raft_log'.entries) = n /\ raft_log'.first = raft_log.first + 1 - 1
          /\ \A k \in 1 .. n : raft_log'.entries[k] = e[1 + k - 1]
          /\ LogFirst' = LogFirst + 1 - 1
      BY <1>8, <2>1, <3>1, Zenon
    <3>5. /\ raft_log'.first = raft_log.first /\ LogFirst' = LogFirst
          /\ \A k \in 1 .. n : raft_log'.entries[k] = e[k] /\ k \in 1 .. Len(e)
      <4>1. \A k \in 1 .. n : 1 + k - 1 = k /\ k \in 1 .. Len(e)
        BY <1>6, <3>1
      <4> QED
        BY <1>6, <3>3, <3>4, <4>1
    <3>6. LogFits'
      <4>1. /\ raft_log.first < LogFirst /\ LogFirst <= LastApplied + 1
            /\ LogFirst > persistent.commit =>
                  persistent.snapshot = persistent.commit /\ (raft_log.first = 0 \/ uncleared)
            /\ persistent.commit <= LogFirst + raft_log.flushed - 1
        BY Zenon, <2>2, <3>2 DEF LogFits
      <4>2. persistent.commit <= LogFirst + n - 1
        BY <1>6, <3>1, <3>3, <4>1
      <4>3. ASSUME NEW k \in 1 .. n, LogFirst + k - 1 <= persistent.commit
            PROVE  ~raft_log'.entries[k].stray \/ Old(LogFirst + k - 1)
        BY Zenon, <2>2, <3>2, <3>5, <4>3 DEF LogFits
      <4>4. ASSUME NEW i \in DOMAIN sent, i >= LogFirst
            PROVE  /\ i - LogFirst + 1 <= n
                   /\ raft_log'.entries[i - LogFirst + 1] = sent[i]
        <5>1. /\ i \in Nat /\ i - LogFirst + 1 <= raft_log.flushed
              /\ e[i - LogFirst + 1] = sent[i]
          BY Zenon, <1>1, <2>2, <3>2, <4>4 DEF LogFits, ConsensusTypes
        <5>2. i - LogFirst + 1 \in 1 .. n /\ i - LogFirst + 1 <= n
          BY <1>6, <3>1, <3>3, <4>4, <5>1
        <5> QED
          BY Zenon, <3>5, <5>1, <5>2
      <4> QED
        BY Zenon, <1>2, <1>4, <2>4, <3>2, <3>4, <3>5, <4>1, <4>2, <4>3, <4>4 DEF LogFits, Old
    <3> QED
      BY Zenon, <3>4, <3>6
  <2> QED
    BY Zenon, <2>3, <2>4
<1> QED
  BY Zenon, <1>9, <1>10

LEMMA LogFitsStarts ==
    ConsensusTypes /\ StateFits /\ LogFits => NodeStarts
<1> SUFFICES ASSUME ConsensusTypes, StateFits, LogFits PROVE NodeStarts
  BY Zenon
<1>1. StorageEnds /\ NumberTypes
  BY Zenon, StorageView, TypeFacts
<1>2. /\ StorageFirst \in Nat /\ StorageFirst <= LastApplied + 1 /\ StorageLast = LogEnd
      /\ persistent.commit <= LogEnd /\ LastApplied \in Int /\ persistent.commit \in Nat
      /\ LogEnd \in Nat /\ LastApplied <= QueueEnd /\ QueueEnd <= persistent.commit
      /\ QueueEnd \in Nat
  BY Zenon, <1>1 DEF StorageEnds, NumberTypes, StateFits
<1>3. persistent.commit \in StorageFirst - 1 .. LogEnd
  BY <1>2
<1>4. LastApplied \in StorageFirst - 1 .. persistent.commit
  BY <1>2
<1> QED
  BY Zenon, <1>2, <1>3, <1>4 DEF NodeStarts

LEMMA RestartPeerStep ==
    ASSUME ConsensusInv, RestartPeer
    PROVE  ConsensusInv'
<1>1. /\ ConsensusTypes /\ StateFits /\ ReadyFits /\ NumberTypes /\ EndTypes
      /\ peer = "down" /\ stage = "idle" /\ compacted = 0
      /\ LogFits \/ LeftOver \/ Uncleared
      /\ raft_log.flushed = Len(raft_log.entries)
  BY Zenon, InvariantFacts DEF RestartPeer, ConsensusInv, ReadyFits
<1>2. /\ UNCHANGED <<compacted, persistent, toc, sent, uncleared>>
      /\ raft_log' = IF NotCleared THEN EmptyLog ELSE raft_log
      /\ peer' = IF NodeStarts' THEN "up" ELSE "failed"
      /\ stage' = "apply" /\ ready' = [NoReady EXCEPT !.part = "startup"]
      /\ raft_applied' = LastApplied /\ fresh' = TRUE
  BY Zenon DEF RestartPeer
<1>3. LastApplied' = LastApplied /\ QueueEnd' = QueueEnd
  BY Zenon, <1>2 DEF LastApplied, QueueEnd
<1>4. /\ raft_log' \in [first : Nat, entries : Seq(LogEntries), flushed : Nat]
      /\ Consecutive(raft_log'.entries) /\ raft_log'.flushed = Len(raft_log'.entries)
      /\ LogFits' \/ (uncleared /\ (NodeStarts' => LogFits'))
  <2>1. CASE LogFits
    <3>1. ~NotCleared
      <4>1. CASE raft_log.entries = <<>>
        BY Zenon, <1>1, <4>1, EmptyLogView DEF NotCleared
      <4>2. CASE raft_log.entries # <<>>
        <5>1. /\ persistent.commit <= LogEnd /\ persistent.snapshot <= raft_applied
              /\ raft_applied <= QueueEnd /\ QueueEnd <= persistent.commit
              /\ StorageLast = LogEnd
          BY Zenon, <1>1, <2>1, StorageView DEF StorageEnds, StateFits
        <5>2. compacted <= LogEnd /\ ~(LogEnd < persistent.snapshot)
          BY <1>1, <5>1 DEF NumberTypes
        <5>3. LastEntry[1].index = LogEnd
          BY Zenon, <1>1, <4>2, <5>1, <5>2, LogView
        <5> QED
          BY Zenon, <5>2, <5>3 DEF NotCleared
      <4> QED
        BY Zenon, <4>1, <4>2
    <3>2. raft_log' = raft_log
      BY Zenon, <1>2, <3>1
    <3>3. LogFirst' = LogFirst
      BY Zenon, <3>2 DEF LogFirst
    <3>4. LogFits'
      BY Zenon, <1>2, <1>3, <2>1, <3>2, <3>3 DEF LogFits, Old
    <3> QED
      BY Zenon, <1>1, <3>2, <3>4 DEF ConsensusTypes
  <2>2. CASE LeftOver
    <3>1. /\ raft_log.entries # <<>> /\ LogEnd < persistent.snapshot
          /\ persistent.commit = persistent.snapshot /\ DOMAIN sent = {}
      BY Zenon, <2>2 DEF LeftOver
    <3>2. compacted <= LogEnd
      BY <1>1 DEF NumberTypes
    <3>3. LastEntry # <<>> /\ LastEntry[1].index = LogEnd
      BY Zenon, <1>1, <3>1, <3>2, LogView
    <3>4. raft_log' = EmptyLog
      BY Zenon, <1>2, <3>1, <3>3 DEF NotCleared
    <3>5. raft_log'.entries = <<>> /\ raft_log'.first = 0 /\ raft_log'.flushed = 0
      BY Zenon, <3>4 DEF EmptyLog
    <3>6. LogFits'
      BY Zenon, <1>2, <3>1, <3>5 DEF LogFits
    <3> QED
      BY <3>4, <3>6 DEF EmptyLog, Consecutive
  <2>3. CASE Uncleared
    <3>1. /\ raft_log.entries # <<>> /\ LogEnd >= persistent.snapshot /\ uncleared
          /\ raft_log.first < LogFirst
          /\ persistent.commit = persistent.snapshot /\ DOMAIN sent = {}
      BY Zenon, <2>3 DEF Uncleared
    <3>2. compacted <= LogEnd /\ ~(LogEnd < persistent.snapshot)
      BY <1>1, <3>1 DEF NumberTypes
    <3>3. /\ LastEntry[1].index = LogEnd
          /\ StorageFirst = IF compacted > LogFirst THEN compacted ELSE LogFirst
      BY Zenon, <1>1, <3>1, <3>2, LogView
    <3>4. raft_log' = raft_log
      BY Zenon, <1>2, <3>2, <3>3 DEF NotCleared
    <3>5. LogFirst' = LogFirst /\ StorageFirst' = StorageFirst
      BY Zenon, <1>2, <3>4 DEF LogFirst, StorageFirst, FirstEntry, WalEntry, Offset
    <3>6. /\ LogFirst \in Nat \ {0} /\ LogEnd = LogFirst + Len(raft_log.entries) - 1
          /\ Len(raft_log.entries) > 0 /\ Len(raft_log.entries) \in Nat
      BY Zenon, <1>1, <3>1 DEF EndTypes, NumberTypes
    <3>7. StorageFirst = LogFirst
      BY <1>1, <3>3, <3>6
    <3>8. ASSUME NodeStarts' PROVE LogFits'
      <4>1. persistent.commit \in LogFirst - 1 .. StorageLast'
        BY Zenon, <1>2, <3>5, <3>7, <3>8 DEF NodeStarts
      <4>2. LogFirst - 1 <= persistent.snapshot
        BY <3>1, <3>6, <4>1
      <4>3. /\ LogFirst <= LastApplied + 1 /\ persistent.commit <= LogFirst + raft_log.flushed - 1
            /\ raft_log.flushed # 0
        <5>1. persistent.snapshot <= LastApplied
          BY Zenon, <1>1 DEF StateFits
        <5> QED
          BY <1>1, <3>1, <3>6, <4>2, <5>1 DEF NumberTypes
      <4>4. \A k : LogFirst + k - 1 <= persistent.commit => Old(LogFirst + k - 1)
        BY Zenon, <3>1 DEF Old
      <4> QED
        BY Zenon, <1>2, <1>3, <3>1, <3>4, <3>5, <4>3, <4>4 DEF LogFits, Old
    <3> QED
      BY Zenon, <1>1, <3>1, <3>4, <3>8 DEF ConsensusTypes
  <2> QED
    BY Zenon, <1>1, <2>1, <2>2, <2>3
<1>5. LastApplied \in Nat
  BY <1>1 DEF StateFits, NumberTypes
<1>6. StateFits'
  <2>1. LastApplied <= LastApplied
    BY <1>5
  <2> QED
    BY Zenon, <1>1, <1>2, <1>3, <2>1 DEF StateFits
<1>7. (ConsensusTypes /\ StateFits /\ LogFits => NodeStarts)'
  BY LogFitsStarts, PTL
<1>8. /\ ready' \in [snapshot : Nat, entries : Seq(LogEntries), offset : Int, commit : Nat,
                     apply_to : Nat, part : {"none", "ready", "light", "startup"}]
      /\ Consecutive(ready'.entries) /\ ready'.part = "startup"
  <2>1. ready' = [snapshot |-> 0, entries |-> <<>>, offset |-> -1, commit |-> 0,
                  apply_to |-> 0, part |-> "startup"]
    BY Zenon, <1>2 DEF NoReady, NoOffset
  <2>2. Len(<<>>) = 0
    BY Zenon
  <2> QED
    BY <2>1, <2>2 DEF Consecutive
<1>9. raft_log'.flushed <= Len(raft_log'.entries)
  <2>1. Len(raft_log'.entries) \in Nat
    BY Zenon, <1>4
  <2> QED
    BY <1>4, <2>1
<1>10. ConsensusTypes'
  BY <1>1, <1>2, <1>4, <1>5, <1>8, <1>9, SMTT(20) DEF ConsensusTypes, Stages
<1>11. \/ peer' = "up" /\ LogFits'
       \/ peer' = "failed" /\ uncleared'
  BY Zenon, <1>2, <1>4, <1>6, <1>7, <1>10
<1>12. ReadyFits'
  <2>1. raft_applied' <= LastApplied'
    BY <1>2, <1>3, <1>5
  <2> QED
    BY Zenon, <1>2, <1>4, <1>8, <1>11, <2>1 DEF ReadyFits, Storing
<1> QED
  BY Zenon, <1>2, <1>6, <1>10, <1>11, <1>12 DEF ConsensusInv, PeerStates

-----------------------------------------------------------------------------
(* What the library may hand out.                                          *)

LEMMA ReadyStep ==
    ASSUME ConsensusInv, Ready
    PROVE  ConsensusInv'
<1>1. /\ ConsensusTypes /\ StateFits /\ ReadyFits /\ NumberTypes /\ EndTypes
      /\ peer = "up" /\ stage = "idle" /\ LogFits /\ StorageEnds
      /\ StorageEntries /\ QueueIsDone /\ raft_log.flushed = Len(raft_log.entries)
      /\ ~fresh => QueueEnd = persistent.commit
  BY Zenon, InvariantFacts DEF Ready, At, ReadyFits
<1>2. /\ stage' = "snapshot"
      /\ UNCHANGED <<peer, raft_log, compacted, persistent, raft_applied, toc, fresh, uncleared>>
  BY Zenon DEF Ready
<1> DEFINE commit(snapshot) == Max({persistent.commit, snapshot})
           end(snapshot) == IF snapshot > 0 THEN snapshot ELSE StorageLast
           new(from, size, good) == [k \in 1 .. size |-> Entry(from + k - 1, k > good)]
           last(snapshot, from, size) == IF size > 0 THEN from + size - 1 ELSE end(snapshot)
<1>3. PICK snapshot \in {0} \cup Max({persistent.commit, 1}) .. MaxIndex :
         \E from \in commit(snapshot) + 1 .. end(snapshot) + 1, size \in 0 .. MaxBatch,
            good \in 0 .. MaxBatch :
           /\ good <= size /\ last(snapshot, from, size) <= MaxIndex
           /\ size = 0 => from = commit(snapshot) + 1
           /\ good > 0 /\ from > commit(snapshot) + 1 => ~EntryOf(from - 1)[1].stray
           /\ \E c \in Committable(commit(snapshot), last(snapshot, from, size),
                                   new(from, size, good)) :
                ready' = [NoReady EXCEPT
                    !.snapshot = snapshot, !.entries = new(from, size, good),
                    !.commit = c, !.part = "ready",
                    !.apply_to = IF snapshot > 0 THEN 0
                                 ELSE IF size > 0 THEN Min({c, from - 1}) ELSE c]
           /\ sent' = Restrict(sent, {i \in DOMAIN sent :
                          snapshot = 0 /\ (size > 0 => i < from)})
  BY Zenon DEF Ready
<1> DEFINE C == persistent.commit
<1>4. /\ C \in Nat /\ persistent.snapshot \in Nat /\ LogEnd \in Nat /\ StorageLast = LogEnd
      /\ C <= LogEnd /\ MaxIndex \in Nat /\ MaxBatch \in Nat
  BY Zenon, <1>1, RaftAssumption DEF NumberTypes, StorageEnds
<1>5. snapshot \in Nat /\ (snapshot > 0 => C <= snapshot)
  <2>1. Max({C, 1}) = IF C >= 1 THEN C ELSE 1
    BY <1>4, Larger
  <2> HIDE DEF C
  <2> QED
    BY <1>3, <1>4, <2>1 DEF C
<1>6. commit(snapshot) = IF snapshot > 0 THEN snapshot ELSE C
  <2>1. Max({C, snapshot}) = IF C >= snapshot THEN C ELSE snapshot
    BY <1>4, <1>5, Larger
  <2> QED
    BY <1>4, <1>5, <2>1
<1> DEFINE m == commit(snapshot)
<1> HIDE DEF commit
<1>7. m \in Nat /\ C <= m /\ end(snapshot) \in Nat
  BY <1>4, <1>5, <1>6, SMTT(20)
<1>8. PICK from \in m + 1 .. end(snapshot) + 1, size \in 0 .. MaxBatch,
           good \in 0 .. MaxBatch :
        /\ size = 0 => from = m + 1
        /\ \E c \in Committable(m, last(snapshot, from, size), new(from, size, good)) :
             ready' = [NoReady EXCEPT
                 !.snapshot = snapshot, !.entries = new(from, size, good),
                 !.commit = c, !.part = "ready",
                 !.apply_to = IF snapshot > 0 THEN 0
                              ELSE IF size > 0 THEN Min({c, from - 1}) ELSE c]
        /\ sent' = Restrict(sent, {i \in DOMAIN sent :
                       snapshot = 0 /\ (size > 0 => i < from)})
  BY <1>3, Zenon
<1> DEFINE n == new(from, size, good)
           l == last(snapshot, from, size)
<1>9. PICK c \in Committable(m, l, n) :
        ready' = [NoReady EXCEPT
            !.snapshot = snapshot, !.entries = n, !.commit = c, !.part = "ready",
            !.apply_to = IF snapshot > 0 THEN 0
                         ELSE IF size > 0 THEN Min({c, from - 1}) ELSE c]
  BY <1>8, Zenon
<1>10. /\ from \in Nat /\ from >= 1 /\ m < from /\ from <= end(snapshot) + 1
       /\ size \in Nat /\ l \in Nat
  <2>1. from \in Nat /\ from >= 1 /\ m < from /\ from <= end(snapshot) + 1 /\ size \in Nat
    <3> HIDE DEF m, end
    <3> QED
      BY <1>4, <1>7
  <2> HIDE DEF m, end
  <2> QED
    BY <1>7, <2>1
<1>11. /\ c \in Nat /\ m <= c /\ c <= l
       /\ \A i \in m + 1 .. c : ~With(n, i).stray
  <2> HIDE DEF m, l, n
  <2> QED
    BY <1>7, <1>9, <1>10 DEF Committable
<1>12. /\ n \in Seq(LogEntries) /\ Len(n) = size
       /\ \A k \in 1 .. size : n[k].index = from + k - 1
       /\ n = <<>> <=> size = 0
  <2>1. \A k \in 1 .. size : /\ Entry(from + k - 1, k > good) \in LogEntries
                             /\ Entry(from + k - 1, k > good).index = from + k - 1
    BY <1>10 DEF Entry, LogEntries
  <2>a. n \in [1 .. size -> LogEntries]
    BY <2>1, Zenon
  <2>b. \A f \in [1 .. size -> LogEntries] : f \in Seq(LogEntries) /\ Len(f) = size
    BY <1>10
  <2>2. n \in Seq(LogEntries) /\ Len(n) = size
    BY <2>a, <2>b, Zenon
  <2> QED
    BY <2>1, <2>2, EmptyFacts, Zenon
<1> HIDE DEF m, n
<1>13. size > 0 => n[1].index = from
  BY <1>10, <1>12
<1>14. ASSUME NEW i \in Nat, size > 0, i >= from PROVE With(n, i) = n[i - from + 1]
  <2>1. n # <<>> /\ n[1].index = from
    BY <1>10, <1>12, <1>13, <1>14
  <2> QED
    BY Zenon, <1>14, <2>1 DEF With
<1>15. ASSUME NEW i \in Nat, size > 0 => i < from PROVE With(n, i) = EntryOf(i)[1]
  <2>1. size = 0 \/ size > 0
    BY <1>10
  <2> QED
    BY <1>10, <1>12, <1>13, <1>15, <2>1 DEF With
<1>16. /\ ready'.snapshot = snapshot /\ ready'.entries = n /\ ready'.commit = c
       /\ ready'.part = "ready" /\ ready'.offset = NoOffset
       /\ ready'.apply_to = IF snapshot > 0 THEN 0
                            ELSE IF size > 0 THEN Min({c, from - 1}) ELSE c
       /\ ready' = [snapshot |-> snapshot, entries |-> n, offset |-> NoOffset, commit |-> c,
                    apply_to |-> ready'.apply_to, part |-> "ready"]
  BY <1>9, Zenon DEF NoReady
<1>17. ready'.apply_to \in Nat /\ ready'.apply_to <= c
  <2>1. c \in Int /\ from - 1 \in Int
    BY <1>10, <1>11
  <2>2. Min({c, from - 1}) = IF c <= from - 1 THEN c ELSE from - 1
    BY <2>1, Larger, Zenon
  <2> QED
    BY <1>10, <1>11, <1>16, <2>2
<1>18. /\ DOMAIN sent' \subseteq DOMAIN sent
       /\ \A i \in DOMAIN sent' : /\ sent'[i] = sent[i] /\ snapshot = 0
                                  /\ size > 0 => i < from
  BY Zenon, <1>8 DEF Restrict
<1>19. /\ ReadyFirst' = n[1].index /\ ReadyLast' = n[1].index + size - 1
  BY Zenon, <1>12, <1>16 DEF ReadyFirst, ReadyLast
<1>20. /\ LastApplied' = LastApplied /\ QueueEnd' = QueueEnd /\ Unapplied' = Unapplied
       /\ LogFirst' = LogFirst /\ LogEnd' = LogEnd
  BY Zenon, <1>2 DEF LastApplied, QueueEnd, Unapplied, LogFirst, LogEnd
<1>21. ConsensusTypes'
  <2>1. Consecutive(n)
    <3>1. size = 0 \/ size > 0
      BY <1>10
    <3> QED
      BY <1>10, <1>12, <1>13, <3>1 DEF Consecutive
  <2>2. ready' \in [snapshot : Nat, entries : Seq(LogEntries), offset : Int, commit : Nat,
                    apply_to : Nat, part : {"none", "ready", "light", "startup"}]
    BY <1>5, <1>11, <1>12, <1>16, <1>17 DEF NoOffset
  <2>3. DOMAIN sent' \subseteq Nat
    BY Zenon, <1>1, <1>18 DEF ConsensusTypes
  <2> QED
    BY <1>1, <1>2, <1>16, <2>1, <2>2, <2>3, Zenon DEF ConsensusTypes, Stages, Consecutive
<1>22. StateFits'
  BY <1>1, <1>2, <1>20, SMTT(20) DEF StateFits
<1>23. LogFits'
  BY Zenon, <1>1, <1>2, <1>18, <1>20 DEF LogFits, Old
<1>24. NewAreGood'
  <2> SUFFICES ASSUME NEW k \in 1 .. size, n[1].index + k - 1 <= c PROVE ~n[k].stray
    BY <1>12, <1>16, <1>19, SMTT(20) DEF NewAreGood
  <2> DEFINE i == from + k - 1
  <2>1. /\ size > 0 /\ n[1].index = from /\ i \in Nat /\ i >= from
        /\ i - from + 1 = k
    BY <1>10, <1>13, SMTT(20)
  <2>2. i \in m + 1 .. c
    BY <1>7, <1>10, <1>11, <2>1, SMTT(20)
  <2> HIDE DEF i
  <2> QED
    BY Zenon, <1>11, <1>14, <2>1, <2>2
<1>25. ASSUME snapshot > 0 PROVE SnapshotFits'
  <2>1. /\ m = snapshot /\ end(snapshot) = snapshot /\ from = snapshot + 1
        /\ C <= snapshot /\ DOMAIN sent' = {}
    <3>1. m = snapshot /\ end(snapshot) = snapshot
      BY Zenon, <1>6, <1>25 DEF m
    <3>2. from = snapshot + 1
      BY <1>5, <1>10, <3>1
    <3>3. DOMAIN sent' = {}
      <4>1. snapshot # 0
        BY <1>5, <1>25
      <4> QED
        BY <1>18, <4>1, Zenon
    <3> QED
      BY Zenon, <1>5, <1>25, <3>1, <3>2, <3>3
  <2>2. size = 0 => c = snapshot
    BY <1>5, <1>11, <2>1
  <2>3. size > 0 => /\ n[1].index = snapshot + 1 /\ c <= n[1].index + size - 1
    BY Zenon, <1>10, <1>11, <1>13, <2>1
  <2>4. n # <<>> => size > 0
    BY <1>10, <1>12
  <2> QED
    BY Zenon, <1>2, <1>11, <1>12, <1>16, <1>19, <1>25, <2>1, <2>2, <2>3, <2>4 DEF SnapshotFits
<1>26. ASSUME snapshot = 0 PROVE EntriesFit'
  <2>1. m = C /\ end(snapshot) = LogEnd
    BY <1>4, <1>6, <1>26 DEF m
  <2>2. size = 0 => c <= LogEnd
    BY <1>11, <2>1, SMTT(20)
  <2>3. n # <<>> => size > 0
    BY <1>10, <1>12
  <2>4. size > 0 => /\ n[1].index = from /\ C < from /\ from <= LogEnd + 1
                    /\ c <= from + size - 1
                    /\ \A i \in DOMAIN sent' : i < from
    BY Zenon, <1>10, <1>11, <1>13, <1>18, <2>1
  <2>5. ASSUME NEW k \in 1 .. Len(raft_log.entries), LogFirst + k - 1 <= c,
               size > 0 => LogFirst + k - 1 < from
        PROVE  ~raft_log.entries[k].stray \/ Old(LogFirst + k - 1)
    <3>1. raft_log.entries # <<>> /\ LogFirst \in Nat
      BY <1>1 DEF EndTypes
    <3>2. CASE LogFirst + k - 1 <= C
      BY Zenon, <1>1, <3>1, <3>2 DEF LogFits
    <3>3. CASE LogFirst + k - 1 > C
      <4> DEFINE i == LogFirst + k - 1
      <4>1. /\ i \in Nat /\ i \in m + 1 .. c /\ i - LogFirst + 1 = k
        BY <1>4, <1>11, <2>1, <2>5, <3>1, <3>3
      <4>2. i <= LogEnd
        <5>1. LogEnd = LogFirst + Len(raft_log.entries) - 1 /\ Len(raft_log.entries) \in Nat
          BY Zenon, <1>1, <3>1 DEF EndTypes, NumberTypes
        <5> QED
          BY <3>1, <5>1
      <4>3. i >= StorageFirst
        <5>1. /\ StorageFirst \in Nat /\ StorageFirst <= LastApplied + 1
              /\ LastApplied <= QueueEnd /\ QueueEnd <= C
              /\ LastApplied \in Int /\ QueueEnd \in Nat
          BY Zenon, <1>1 DEF StorageEnds, StateFits, NumberTypes
        <5> QED
          BY <1>4, <3>1, <3>3, <5>1
      <4>4. size > 0 => i < from
        BY Zenon, <2>5
      <4> HIDE DEF i
      <4>5. EntryOf(i) = <<raft_log.entries[k]>>
        BY Zenon, <1>1, <3>1, <4>1, <4>2, <4>3 DEF StorageEntries
      <4>6. With(n, i) = EntryOf(i)[1]
        BY Zenon, <1>15, <4>1, <4>4
      <4> QED
        BY <1>11, <4>1, <4>5, <4>6
    <3> QED
      BY <1>4, <3>1, <3>2, <3>3
  <2>6. n = <<>> <=> size = 0
    BY Zenon, <1>12
  <2> QED
    BY <1>2, <1>16, <1>19, <1>20, <2>2, <2>3, <2>4, <2>5, <2>6 DEF EntriesFit, Old
<1>27. C <= c
  BY <1>4, <1>7, <1>11, SMTT(20)
<1>28. ReadyFits'
  BY Zenon, <1>1, <1>2, <1>16, <1>17, <1>20, <1>24, <1>25, <1>26, <1>27 DEF ReadyFits, Storing,
                                                                             QueueIsDone
<1> QED
  BY Zenon, <1>1, <1>2, <1>21, <1>22, <1>23, <1>28 DEF ConsensusInv

-----------------------------------------------------------------------------
(* The invariant holds from the start, and in every step.                  *)

LEMMA ConsensusInit == RaftInit => ConsensusInv
<1> SUFFICES ASSUME RaftInit PROVE ConsensusInv
  BY Zenon
<1>1. /\ peer = "up" /\ stage = "idle" /\ ready = NoReady /\ raft_log = EmptyLog
      /\ compacted = 0 /\ persistent = [commit |-> 0, snapshot |-> 0, queue |-> <<>>]
      /\ raft_applied = 0 /\ toc = 0 /\ fresh = TRUE /\ sent = <<>> /\ uncleared = FALSE
  BY Zenon DEF RaftInit
<1>2. /\ LastApplied = 0 /\ QueueEnd = 0 /\ ~Unapplied
  BY Zenon, <1>1 DEF LastApplied, QueueEnd, Unapplied
<1>3. /\ raft_log.entries = <<>> /\ raft_log.first = 0 /\ raft_log.flushed = 0
      /\ ready.entries = <<>> /\ DOMAIN sent = {} /\ Len(raft_log.entries) = 0
  BY <1>1 DEF EmptyLog, NoReady
<1>4. ConsensusTypes
  <2>1. ready \in [snapshot : Nat, entries : Seq(LogEntries), offset : Int, commit : Nat,
                   apply_to : Nat, part : {"none", "ready", "light", "startup"}]
    BY <1>1 DEF NoReady, NoOffset
  <2>2. raft_log \in [first : Nat, entries : Seq(LogEntries), flushed : Nat]
    BY <1>1 DEF EmptyLog
  <2>3. Consecutive(raft_log.entries) /\ Consecutive(ready.entries)
    BY <1>3 DEF Consecutive
  <2>4. persistent \in [commit : Nat, snapshot : Nat, queue : {<<>>} \cup (Nat \X Nat)]
    BY Zenon, <1>1
  <2>5. DOMAIN sent \subseteq Nat /\ raft_log.flushed <= Len(raft_log.entries)
    BY <1>3
  <2> QED
    BY <1>1, <2>1, <2>2, <2>3, <2>4, <2>5, Zenon DEF ConsensusTypes, Stages
<1>5. StateFits
  BY <1>1, <1>2 DEF StateFits
<1>6. LogFits
  BY Zenon, <1>1, <1>3 DEF LogFits
<1>7. ReadyFits
  BY Zenon, <1>1, <1>2, <1>3 DEF ReadyFits, Storing, QueueIsDone
<1> QED
  BY Zenon, <1>1, <1>4, <1>5, <1>6, <1>7 DEF ConsensusInv, PeerStates

LEMMA ConsensusStep == ConsensusInv /\ [RaftNext]_raft_vars => ConsensusInv'
<1> SUFFICES ASSUME ConsensusInv, [RaftNext]_raft_vars PROVE ConsensusInv'
  BY Zenon
<1>1. CASE UNCHANGED raft_vars
  <2>1. UNCHANGED <<peer, stage, ready, raft_log, compacted, persistent, raft_applied, toc,
                    fresh, sent, uncleared>>
    BY Zenon, <1>1 DEF raft_vars
  <2>2. /\ LogFits' = LogFits /\ EntriesFit' = EntriesFit
        /\ SnapshotFits' = SnapshotFits /\ NewAreGood' = NewAreGood
        /\ Unapplied' = Unapplied /\ QueueEnd' = QueueEnd /\ LogEnd' = LogEnd
        /\ LastApplied' = LastApplied /\ ReadyFirst' = ReadyFirst
    BY <2>1, LogUntouched, SMTT(20)
  <2>3. /\ ConsensusTypes' = ConsensusTypes /\ StateFits' = StateFits
        /\ LeftOver' = LeftOver /\ Uncleared' = Uncleared
    BY Zenon, <2>1, <2>2 DEF ConsensusTypes, StateFits, LeftOver, Uncleared, Consecutive,
                             LogFirst
  <2>4. ReadyFits' = ReadyFits
    BY Zenon, <2>1, <2>2 DEF ReadyFits, QueueIsDone, LogFirst
  <2> QED
    BY Zenon, <2>1, <2>2, <2>3, <2>4 DEF ConsensusInv
<1>2. CASE RaftNext
  BY Zenon, <1>2, ReadyStep, ApplySnapshotStep, SaveSnapshotStep, ClearLogStep, AppendEntryStep,
     AppendAfterCutStep, FlushEntriesStep, SetHardStateStep, HandleCommittedEntriesStep,
     ApplyEntryStep, EntryAppliedStep, LightReadyStep, CompactLogStep, CrashPeerStep,
     RestartPeerStep DEF RaftNext
<1> QED
  BY Zenon, <1>1, <1>2

-----------------------------------------------------------------------------
(* The theorems.                                                           *)

(* Snapshot, applied, queued and committed index, the entries in ConsensusOpWal
   and the Ready that on_ready works at fit each other in every reachable state. *)
THEOREM ConsensusStateFits == RaftSpec => []ConsensusInv
  BY ConsensusInit, ConsensusStep, PTL DEF RaftSpec

(* ConsensusOpWal reads every entry that was acknowledged to the leader under its
   index, and at a committed index what the cluster committed there: for every
   number of entries, batch size and compaction threshold, and wherever the peer
   crashes in process_ready, process_light_ready, apply_snapshot or compact_log.
   A crash in apply_snapshot may leave a log that reaches the snapshot, with which
   ConsensusManager::new starts: from then on the second part is not claimed for
   the indices that snapshot covers. *)
THEOREM ConsensusLogStaysTrue == RaftSpec => []ConsensusLogIsTrue
  BY ConsensusStateFits, InvariantSuffices, PTL

(* No committed entry is skipped or recorded before it is applied, and a peer that
   may be asked for Storage::snapshot has applied everything committed: `applied`
   never passes `commit` (Persistent::entry_applied, set_unapplied_entries). *)
THEOREM EntriesStayInOrder == RaftSpec => []EntriesAreAppliedInOrder
  BY ConsensusStateFits, InvariantSuffices, PTL

(* The errors of append_entries, a committed entry that cannot be read, the
   assertion of compact_wal and a state file that does not fit the log at the
   start happen to no peer, whatever its crashes, unless one of them was in
   apply_snapshot and left a log that reaches the index of the snapshot. *)
THEOREM ConsensusNeverFails == RaftSpec => []ConsensusGoesOn
  BY ConsensusStateFits, InvariantSuffices, PTL
=============================================================================
