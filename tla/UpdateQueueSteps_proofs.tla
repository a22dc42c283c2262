----------------------- MODULE UpdateQueueSteps_proofs ----------------------
(***************************************************************************)
(* The inductive invariant of UpdateQueue, why it gives what the runs      *)
(* check, and that it is kept by what moves the queue and by whatever      *)
(* applies a record.                                                       *)
(***************************************************************************)
EXTENDS UpdateQueue, TLAPS

-----------------------------------------------------------------------------
(* What holds at every moment, whatever was queued again.                  *)

Records == [id : Int, on : SUBSET Points]
Copies == [version : Nat, ops : SUBSET Int]
QueueItems == [num : Nat, ram : BOOLEAN, client : Clients \cup {NoClient}]
Phases == {"idle", "reserved", "locked", "waiting"}

Types ==
    /\ log \in Seq(Records)
    /\ first \in Nat \ {0} /\ synced \in 0 .. Len(log)
    /\ queue \in Seq(QueueItems)
    /\ client \in [Clients -> [phase : Phases, ram : BOOLEAN, id : Int]]
    /\ worker \in [stage : {"idle", "fetch", "sync", "apply", "applied"}, item : QueueItems]
    /\ mem \in [Points -> Copies] /\ disk \in [Points -> Copies]
    /\ DOMAIN capture \subseteq Points /\ \A p \in DOMAIN capture : capture[p] \in Copies
    /\ overwrite \in Nat
    /\ flusher \in [stage : {"idle", "segments", "ack"}, confirmed : Nat]
    /\ failed \subseteq Nat \ {0} /\ recover \in Nat
    /\ applied_seq \in [mem : Nat, file : Nat, count : Nat] /\ left \in Nat
    /\ mode \in {"down", "loading", "running"} /\ load_next \in Nat
    /\ truncating \in BOOLEAN /\ outrun \in BOOLEAN
    /\ completed \subseteq Int /\ troubled \subseteq Int

Locked(c) == client[c].phase = "locked"

\* Who works when: nobody while the Shard is down, the loader alone while it
\* loads, and whoever changes the log over several steps holds its lock.
Locks ==
    /\ mode = "down" => /\ queue = <<>> /\ worker = Resting /\ flusher = AtRest
                        /\ DOMAIN capture = {} /\ failed = {}
                        /\ wal_lock = "free" /\ mem = disk
    /\ mode = "loading" => wal_lock = "load"
    /\ mode # "running" => Reserved = {}
    /\ truncating => mode = "running" /\ Reserved = {}
    /\ recover # 0 <=> wal_lock = "recover"
    /\ wal_lock = "recover" => mode = "running"
    /\ \A c \in Clients : Locked(c) => /\ wal_lock = c /\ synced < Len(log)
                                       /\ log # <<>> /\ client[c].id = log[Len(log)].id
    /\ worker.stage = "idle" => worker = Resting

\* Ids are given out once.
Ids ==
    /\ \A i, j \in DOMAIN log : log[i].id = log[j].id => i = j
    /\ \A i \in DOMAIN log : log[i].id < 0 \/ log[i].id > left
    /\ \A id \in troubled \cup completed : id < 0 \/ id > left

\* The worker's record and the queue are in the order of the log.
Order ==
    /\ \A j, k \in DOMAIN queue : j < k =>
          /\ queue[j].num <= queue[k].num
          /\ queue[j].client # NoClient => queue[j].num < queue[k].num
    /\ worker # Resting => \A k \in DOMAIN queue :
          /\ Item.num <= queue[k].num
          /\ Item.client # NoClient => Item.num < queue[k].num

\* A number that is queued is that of a record, or the one after the last.
Sent(item) ==
    /\ item.num > 0 /\ item.num <= Len(log) + 1
    /\ item.ram \/ item.client # NoClient => item.num <= Len(log)
    /\ (\E c \in Clients : Locked(c)) =>
          /\ item.num <= Len(log)
          /\ item.client # NoClient => item.num < Len(log)
    /\ mode = "loading" => item.num < load_next

Queued ==
    /\ \A k \in DOMAIN queue : Sent(queue[k])
    /\ worker # Resting => Sent(Item)
    /\ worker.stage \in {"sync", "apply", "applied"} => Item.num <= Len(log)
    /\ worker.stage \in {"apply", "applied"} /\ Item.client # NoClient => Item.num <= synced
    /\ mode = "loading" => load_next > 0 /\ load_next <= Len(log) + 1

\* A number was given to a record that is in the log or was cut off.
Known(n) == \A i \in 1 .. n : i <= Len(log) \/ i \in cut

Numbers ==
    /\ \A p \in Points : Known(mem[p].version)
    /\ Known(overwrite) /\ Known(first - 1) /\ Known(flusher.confirmed - 1)
    /\ \A n \in failed : Known(n)

\* What is on disk is not newer than what the flush thread has, and that not
\* newer than what is in memory.
Ages ==
    /\ \A p \in Points : disk[p].version <= mem[p].version
    /\ \A p \in DOMAIN capture : /\ disk[p].version <= capture[p].version
                                 /\ capture[p].version <= mem[p].version

Bounded == \E b \in Nat : \A p \in Points : mem[p].version <= b

Frame == Types /\ Locks /\ Ids /\ Order /\ Queued /\ Numbers /\ Ages

-----------------------------------------------------------------------------
(* What holds as long as nothing applied was queued again.                 *)

\* A client may still be told, or was told, that the record is completed.
Needed(i) ==
    \/ log[i].id \in completed
    \/ i = Len(log) /\ \E c \in Clients : Locked(c)
    \/ \E k \in DOMAIN queue : queue[k].client # NoClient /\ queue[k].num = i
    \/ Item.client # NoClient /\ Item.num = i

\* What may lack in a Segment that is past the record.
Waived(i) == i \in cut \/ (log[i].id \in troubled /\ ~Needed(i))

\* A copy has the updates of its point up to its version.
Whole(p, copy) ==
    \A i \in DOMAIN log : p \in log[i].on /\ i <= copy.version =>
        log[i].id \in copy.ops \/ Waived(i)

Past(G, i) == \A p \in log[i].on : G[p].version >= i

OnDisk(i) == i \in cut \/ Past(disk, i)
InMemory(i) == i \in cut \/ Past(mem, i)
Done(i) == InMemory(i) \/ i \in failed

DoneBefore(n) == \A i \in DOMAIN log : i < n => Done(i)

Contents ==
    /\ \A p \in Points : Whole(p, mem[p]) /\ Whole(p, disk[p])
    /\ \A p \in DOMAIN capture : Whole(p, capture[p])

\* The log is acknowledged up to what is on disk.
Confirmed ==
    /\ \A i \in DOMAIN log : i < first => OnDisk(i)
    /\ flusher.stage = "ack" => \A i \in DOMAIN log : i < flusher.confirmed => OnDisk(i)
    /\ \A n \in failed \ cut :
          /\ n >= first /\ n <= Len(log) /\ log[n].id \in troubled
          /\ flusher.stage = "ack" => n >= flusher.confirmed

\* Nothing is passed over.
InTurn ==
    mode # "down" =>
        /\ \A p \in Points : DoneBefore(mem[p].version)
        /\ DoneBefore(overwrite)
        /\ \A n \in failed : DoneBefore(n)
        /\ \A i \in DOMAIN log : i < recover => InMemory(i)
        /\ worker.stage = "applied" => InMemory(Item.num)
        /\ \A i \in DOMAIN log : \/ Done(i)
                                 \/ Ahead(i)
                                 \/ mode = "loading" /\ i >= load_next
                                 \/ i = Len(log) /\ \E c \in Clients : Locked(c)

\* What was answered as completed is behind everything that is queued.
Answered ==
    \A id \in completed : \E i \in DOMAIN log :
        /\ log[i].id = id /\ i <= synced
        /\ mode # "down" => InMemory(i)
        /\ \A k \in DOMAIN queue : i < queue[k].num
        /\ worker # Resting => i < Item.num
        /\ mode = "loading" => i < load_next

Kept == Contents /\ Confirmed /\ InTurn /\ Answered

QueueInv == Frame /\ Bounded /\ (~outrun => Kept)

-----------------------------------------------------------------------------
(* Facts about the operators.                                              *)

LEMMA Larger ==
    ASSUME NEW a \in Int, NEW b \in Int
    PROVE  /\ Max({a, b}) = IF a >= b THEN a ELSE b
           /\ Min({a, b}) = IF a <= b THEN a ELSE b
<1>1. \A x \in {a, b} : (\A y \in {a, b} : x >= y) <=> x = IF a >= b THEN a ELSE b
  OBVIOUS
<1>2. \A x \in {a, b} : (\A y \in {a, b} : x =< y) <=> x = IF a <= b THEN a ELSE b
  OBVIOUS
<1>3. (IF a >= b THEN a ELSE b) \in {a, b} /\ (IF a <= b THEN a ELSE b) \in {a, b}
  BY Zenon
<1>4. Max({a, b}) = IF a >= b THEN a ELSE b
  BY Zenon, <1>1, <1>3 DEF Max
<1>5. Min({a, b}) = IF a <= b THEN a ELSE b
  BY Zenon, <1>2, <1>3 DEF Min
<1> QED
  BY Zenon, <1>4, <1>5

-----------------------------------------------------------------------------
(* What the types say.                                                     *)

LogFacts ==
    /\ Len(log) \in Nat /\ DOMAIN log = 1 .. Len(log)
    /\ \A i \in DOMAIN log : log[i].id \in Int /\ log[i].on \subseteq Points

ItemFacts ==
    /\ Len(queue) \in Nat /\ DOMAIN queue = 1 .. Len(queue)
    /\ \A k \in DOMAIN queue : queue[k] \in QueueItems /\ queue[k].num \in Nat
    /\ Item \in QueueItems /\ Item.num \in Nat

CopyFacts ==
    /\ \A p \in Points : mem[p].version \in Nat /\ disk[p].version \in Nat
    /\ \A p \in DOMAIN capture : p \in Points /\ capture[p].version \in Nat

LEMMA Facts == Types => LogFacts /\ ItemFacts /\ CopyFacts
<1> SUFFICES ASSUME Types PROVE LogFacts /\ ItemFacts /\ CopyFacts
  BY Zenon
<1>1. LogFacts
  <2>1. log \in Seq(Records)
    BY Zenon DEF Types
  <2>2. Len(log) \in Nat /\ DOMAIN log = 1 .. Len(log)
    BY <2>1
  <2>3. \A i \in DOMAIN log : log[i] \in Records
    BY <2>1
  <2> QED
    BY Zenon, <2>2, <2>3 DEF LogFacts, Records
<1>2. ItemFacts
  <2>1. queue \in Seq(QueueItems) /\ worker.item \in QueueItems
    BY Zenon DEF Types
  <2>2. Len(queue) \in Nat /\ DOMAIN queue = 1 .. Len(queue)
    BY <2>1
  <2>3. \A k \in DOMAIN queue : queue[k] \in QueueItems
    BY <2>1
  <2>4. \A e \in QueueItems : e.num \in Nat
    BY Zenon DEF QueueItems
  <2> QED
    BY Zenon, <2>1, <2>2, <2>3, <2>4 DEF ItemFacts, Item
<1>3. CopyFacts
  <2>1. \A e \in Copies : e.version \in Nat
    BY Zenon DEF Copies
  <2>2. \A p \in Points : mem[p] \in Copies /\ disk[p] \in Copies
    BY Zenon DEF Types
  <2>3. DOMAIN capture \subseteq Points /\ \A p \in DOMAIN capture : capture[p] \in Copies
    BY Zenon DEF Types
  <2> QED
    BY Zenon, <2>1, <2>2, <2>3 DEF CopyFacts
<1> QED
  BY Zenon, <1>1, <1>2, <1>3

LEMMA TouchFacts ==
    ASSUME NEW G \in [Points -> Copies], NEW n \in Nat, NEW id \in Int, NEW done
    PROVE  /\ Touch(G, n, id, done) \in [Points -> Copies]
           /\ \A p \in Points :
                IF p \in done /\ G[p].version < n
                THEN /\ Touch(G, n, id, done)[p].version = n
                     /\ Touch(G, n, id, done)[p].ops = G[p].ops \cup {id}
                ELSE Touch(G, n, id, done)[p] = G[p]
<1> DEFINE H == Touch(G, n, id, done)
<1>1. ASSUME NEW p \in Points
      PROVE  /\ H[p] \in Copies
             /\ IF p \in done /\ G[p].version < n
                THEN H[p].version = n /\ H[p].ops = G[p].ops \cup {id}
                ELSE H[p] = G[p]
  <2>1. G[p] \in Copies
    BY Zenon
  <2>2. G[p].version \in Nat /\ G[p].ops \subseteq Int
    BY Zenon, <2>1 DEF Copies
  <2>3. CASE p \in done /\ G[p].version < n
    <3>1. ~(G[p].version >= n)
      BY <2>2, <2>3
    <3>2. H[p] = [version |-> n, ops |-> G[p].ops \cup {id}]
      BY Zenon, <2>3, <3>1 DEF Touch, Ignores
    <3> QED
      BY <2>2, <2>3, <3>2 DEF Copies
  <2>4. CASE ~(p \in done /\ G[p].version < n)
    <3>1. p \notin done \/ G[p].version >= n
      BY <2>2, <2>4
    <3>2. H[p] = G[p]
      BY Zenon, <3>1 DEF Touch, Ignores
    <3> QED
      BY Zenon, <2>1, <2>4, <3>2
  <2> QED
    BY Zenon, <2>3, <2>4
<1>2. H \in [Points -> Copies]
  <2>1. H = [p \in Points |-> H[p]]
    BY Zenon DEF Touch
  <2> QED
    BY Zenon, <1>1, <2>1
<1> QED
  BY Zenon, <1>1, <1>2

-----------------------------------------------------------------------------
(* The invariant says what the runs check.                                 *)

LEMMA OrderSuffices == Frame => QueueInLogOrder
<1> SUFFICES ASSUME Frame PROVE QueueInLogOrder
  BY Zenon
<1>1. ItemFacts /\ Order /\ queue \in Seq(QueueItems) /\ Item \in QueueItems
  BY Zenon, Facts DEF Frame, Types, Item
<1>2. CASE worker = Resting
  BY Zenon, <1>1, <1>2 DEF QueueInLogOrder, Order
<1>3. CASE worker # Resting
  <2> DEFINE items == <<Item>> \o queue
  <2>1. /\ Len(items) = Len(queue) + 1 /\ Len(queue) \in Nat
        /\ DOMAIN items = 1 .. Len(queue) + 1 /\ items[1] = Item
        /\ \A k \in 2 .. Len(queue) + 1 : items[k] = queue[k - 1]
    BY <1>1 DEF ItemFacts
  <2> SUFFICES ASSUME NEW i \in DOMAIN items, NEW j \in DOMAIN items, i < j
               PROVE  items[i].num <= items[j].num
    BY Zenon, <1>3 DEF QueueInLogOrder
  <2> HIDE DEF items
  <2>2. i \in Int /\ j \in Int /\ j - 1 \in 1 .. Len(queue) /\ items[j] = queue[j - 1]
    BY <2>1
  <2>3. CASE i = 1
    BY Zenon, <1>1, <1>3, <2>1, <2>2, <2>3 DEF Order, ItemFacts
  <2>4. CASE i # 1
    <3>1. i - 1 \in 1 .. Len(queue) /\ items[i] = queue[i - 1] /\ i - 1 < j - 1
      BY <2>1, <2>2, <2>4
    <3> QED
      BY Zenon, <1>1, <2>2, <3>1 DEF Order, ItemFacts
  <2> QED
    BY Zenon, <2>3, <2>4
<1> QED
  BY Zenon, <1>2, <1>3

LEMMA KeptSuffices ==
    QueueInv => CompletedIsKept /\ EveryUpdateIsAccountedFor /\ FailedIsRetained
<1> SUFFICES ASSUME Frame, Kept
             PROVE  CompletedIsKept /\ EveryUpdateIsAccountedFor /\ FailedIsRetained
  BY Zenon DEF QueueInv, CompletedIsKept, EveryUpdateIsAccountedFor, FailedIsRetained
<1>1. LogFacts /\ CopyFacts /\ Types /\ Locks /\ Contents /\ Confirmed /\ InTurn /\ Answered
  BY Zenon, Facts DEF Frame, Kept
<1>2. ASSUME NEW i \in DOMAIN log, ~Waived(i)
      PROVE  /\ Past(mem, i) => Held(mem, log[i])
             /\ Past(disk, i) => Held(disk, log[i])
  BY Zenon, <1>1, <1>2 DEF Past, Held, Contents, Whole, LogFacts
<1>3. CompletedIsKept
  <2> SUFFICES ASSUME NEW id \in completed
               PROVE  \E i \in DOMAIN log :
                        /\ log[i].id = id
                        /\ \/ i \in cut
                           \/ IF mode = "down" THEN i >= first \/ Held(disk, log[i])
                              ELSE Held(mem, log[i])
    BY Zenon DEF CompletedIsKept
  <2>1. PICK i \in DOMAIN log : log[i].id = id /\ (mode # "down" => InMemory(i))
    BY Zenon, <1>1 DEF Answered
  <2>2. i \notin cut => ~Waived(i)
    BY Zenon, <2>1 DEF Waived, Needed
  <2>3. CASE mode = "down"
    <3>1. i \in Int /\ first \in Int
      BY <1>1 DEF LogFacts, Types
    <3>2. i < first => OnDisk(i)
      BY Zenon, <1>1 DEF Confirmed
    <3>3. i \in cut \/ i >= first \/ Held(disk, log[i])
      BY <1>2, <2>2, <3>1, <3>2 DEF OnDisk
    <3> QED
      BY Zenon, <2>1, <2>3, <3>3
  <2>4. CASE mode # "down"
    BY Zenon, <1>2, <2>1, <2>2, <2>4 DEF InMemory
  <2> QED
    BY Zenon, <2>3, <2>4
<1>4. EveryUpdateIsAccountedFor
  <2> SUFFICES ASSUME mode = "running", wal_lock = "free", NEW i \in DOMAIN log
               PROVE  Held(mem, log[i]) \/ Ahead(i) \/ log[i].id \in troubled \/ i \in cut
    BY Zenon DEF EveryUpdateIsAccountedFor
  <2>1. ~\E c \in Clients : Locked(c)
    BY Zenon, <1>1, QueueAssumption DEF Locks
  <2>2. Done(i) \/ Ahead(i)
    BY Zenon, <1>1, <2>1 DEF InTurn
  <2>3. i \in failed \ cut => log[i].id \in troubled
    BY Zenon, <1>1 DEF Confirmed
  <2>4. Waived(i) => i \in cut \/ log[i].id \in troubled
    BY Zenon DEF Waived
  <2> QED
    BY Zenon, <1>2, <2>2, <2>3, <2>4 DEF Done, InMemory
<1>5. FailedIsRetained
  <2>1. failed \subseteq Nat /\ first \in Nat /\ Len(log) \in Nat
    BY Zenon, <1>1 DEF Types, LogFacts
  <2>2. \A n \in failed \ cut : first <= n /\ n <= Len(log)
    BY Zenon, <1>1, <2>1 DEF Confirmed
  <2>3. \A n \in failed \ cut : n \in first .. Len(log)
    BY <2>1, <2>2
  <2> QED
    BY Zenon, <2>3 DEF FailedIsRetained
<1> QED
  BY Zenon, <1>3, <1>4, <1>5

-----------------------------------------------------------------------------
LEMMA QueueInit == Init => QueueInv
<1> SUFFICES ASSUME Init PROVE QueueInv
  BY Zenon
<1>1. PICK f \in Found :
        /\ log = [i \in 1 .. f[1] |-> [id |-> -i, on |-> Points]]
        /\ disk = [p \in Points |-> [version |-> f[2], ops |-> -f[2] .. -1]]
        /\ completed = -f[2] .. -1
        /\ left = f[3] /\ synced = f[1]
        /\ \E s \in {NoFile} \cup {i \in 1 .. f[2] : f[2] <= i + Interval} :
              applied_seq = [mem |-> 0, file |-> s, count |-> 0]
  BY Zenon DEF Init
<1> DEFINE n == f[1]  d == f[2]
<1>2. n \in Nat /\ d \in Nat /\ d <= n /\ f[3] \in Nat /\ Interval \in Nat
  BY QueueAssumption
<1>3. /\ first = 1 /\ mem = disk /\ wal_lock = "free" /\ queue = <<>>
      /\ client = [c \in Clients |-> Idle] /\ worker = Resting /\ flusher = AtRest
      /\ capture = NoCapture /\ overwrite = 0 /\ failed = {} /\ recover = 0
      /\ mode = "down" /\ load_next = 0 /\ truncating = FALSE
      /\ cut = {} /\ troubled = {} /\ outrun = FALSE
  BY Zenon DEF Init
<1>4. PICK s \in {NoFile} \cup {i \in 1 .. d : d <= i + Interval} :
        applied_seq = [mem |-> 0, file |-> s, count |-> 0]
  BY <1>1, Zenon
<1> HIDE DEF n, d
<1>5. /\ log = [i \in 1 .. n |-> [id |-> -i, on |-> Points]]
      /\ disk = [p \in Points |-> [version |-> d, ops |-> -d .. -1]]
      /\ completed = -d .. -1
      /\ left = f[3] /\ synced = n
  BY Zenon, <1>1 DEF n, d
<1>6. log \in Seq(Records) /\ Len(log) = n /\ DOMAIN log = 1 .. n
  <2>1. \A i \in 1 .. n : [id |-> -i, on |-> Points] \in Records
    BY <1>2 DEF Records
  <2> QED
    BY <1>2, <1>5, <2>1
<1>7. Types
  <2>1. disk \in [Points -> Copies]
    BY <1>2, <1>5 DEF Copies
  <2>2. Resting \in [stage : {"idle", "fetch", "sync", "apply", "applied"}, item : QueueItems]
    BY Zenon DEF Resting, NoItem, QueueItems
  <2>3. client \in [Clients -> [phase : Phases, ram : BOOLEAN, id : Int]]
    BY <1>3 DEF Idle, Phases
  <2>4. flusher \in [stage : {"idle", "segments", "ack"}, confirmed : Nat]
    BY Zenon, <1>3 DEF AtRest
  <2>5. applied_seq \in [mem : Nat, file : Nat, count : Nat]
    <3>1. s \in Nat
      BY <1>2, <1>4 DEF NoFile
    <3> QED
      BY Zenon, <1>4, <3>1
  <2>6. DOMAIN capture = {}
    BY <1>3 DEF NoCapture
  <2>7. queue \in Seq(QueueItems)
    BY <1>3
  <2>8. synced \in 0 .. Len(log) /\ left \in Nat /\ completed \subseteq Int
    BY <1>2, <1>5, <1>6
  <2>9. /\ first \in Nat \ {0} /\ overwrite \in Nat /\ failed \subseteq Nat \ {0}
        /\ recover \in Nat /\ load_next \in Nat /\ troubled \subseteq Int
    BY <1>3
  <2>10. /\ mode \in {"down", "loading", "running"}
         /\ truncating \in BOOLEAN /\ outrun \in BOOLEAN
    BY <1>3, Zenon
  <2>11. DOMAIN capture \subseteq Points /\ \A p \in DOMAIN capture : capture[p] \in Copies
    BY Zenon, <2>6
  <2> QED
    BY Zenon, <1>3, <1>6, <2>1, <2>2, <2>3, <2>4, <2>5, <2>7, <2>8, <2>9, <2>10, <2>11 DEF Types
<1>8. Locks
  <2>1. DOMAIN capture = {} /\ worker.stage = "idle"
    BY <1>3 DEF NoCapture, Resting
  <2>2. \A c \in Clients : client[c].phase = "idle"
    BY Zenon, <1>3 DEF Idle
  <2>3. Reserved = {} /\ \A c \in Clients : ~Locked(c)
    BY Zenon, <2>2 DEF Reserved, Locked
  <2> QED
    BY Zenon, <1>3, <2>1, <2>3 DEF Locks
<1>9. Ids
  BY <1>2, <1>3, <1>5, <1>6 DEF Ids
<1>10. Order /\ Queued
  BY <1>3 DEF Order, Queued, Resting
<1>11. Numbers /\ Ages /\ Bounded
  <2>1. /\ \A p \in Points : mem[p].version = d /\ disk[p].version = d
        /\ DOMAIN capture = {} /\ flusher.confirmed = 0
    BY <1>3, <1>5 DEF NoCapture, AtRest
  <2>2. Numbers
    BY <1>2, <1>3, <1>6, <2>1 DEF Numbers, Known
  <2>3. Ages
    BY <1>2, <2>1 DEF Ages
  <2>4. \A p \in Points : mem[p].version <= d
    BY <1>2, <2>1
  <2> QED
    BY Zenon, <1>2, <2>2, <2>3, <2>4 DEF Bounded
<1>12. Contents
  <2>1. ASSUME NEW i \in DOMAIN log, NEW p \in Points, i <= d
        PROVE  log[i].id \in disk[p].ops
    BY <1>2, <1>5, <1>6, <2>1
  <2>2. \A p \in Points : disk[p].version = d
    BY Zenon, <1>5
  <2> QED
    BY <1>3, <2>1, <2>2 DEF Contents, Whole, NoCapture
<1>13. Confirmed /\ InTurn
  <2>1. \A i \in DOMAIN log : ~(i < first)
    BY <1>2, <1>3, <1>6
  <2> QED
    BY Zenon, <1>3, <2>1 DEF Confirmed, InTurn, AtRest
<1>14. Answered
  <2> SUFFICES ASSUME NEW id \in completed
               PROVE  \E i \in DOMAIN log : log[i].id = id /\ i <= synced
    BY <1>3 DEF Answered
  <2>1. id \in Int /\ -id \in 1 .. n
    BY <1>2, <1>5
  <2>2. log[-id].id = id
    BY <1>5, <2>1
  <2> QED
    BY <1>2, <1>5, <1>6, <2>1, <2>2
<1> QED
  BY Zenon, <1>7, <1>8, <1>9, <1>10, <1>11, <1>12, <1>13, <1>14 DEF QueueInv, Frame, Kept

-----------------------------------------------------------------------------
(* Steps that leave the records and the Segments alone.                    *)

LEMMA SameDone ==
    UNCHANGED <<log, cut, mem, failed>> =>
        /\ \A i : InMemory(i)' <=> InMemory(i)
        /\ \A i : Done(i)' <=> Done(i)
        /\ \A n : DoneBefore(n)' <=> DoneBefore(n)
  BY Zenon DEF InMemory, Done, DoneBefore, Past

LEMMA SameLockers ==
    client' = client => ((\E c \in Clients : Locked(c))' <=> \E c \in Clients : Locked(c))
  BY Zenon DEF Locked

LEMMA SameContents ==
    /\ Contents
    /\ UNCHANGED <<log, mem, disk, capture, cut, troubled>>
    /\ \A i \in DOMAIN log : Needed(i)' => Needed(i)
    => Contents'
<1> SUFFICES ASSUME Contents, UNCHANGED <<log, mem, disk, capture, cut, troubled>>,
                    \A i \in DOMAIN log : Needed(i)' => Needed(i)
             PROVE  Contents'
  BY Zenon
<1>1. \A i \in DOMAIN log : Waived(i) => Waived(i)'
  BY Zenon DEF Waived
<1>2. ASSUME NEW p, NEW copy, Whole(p, copy) PROVE Whole(p, copy)'
  BY Zenon, <1>1, <1>2 DEF Whole
<1> QED
  BY Zenon, <1>2 DEF Contents

LEMMA Quietly ==
    /\ QueueInv
    /\ UNCHANGED <<log, first, mem, disk, capture, overwrite, failed, troubled, cut,
                   outrun, left, completed>>
    /\ flusher'.confirmed = flusher.confirmed
    /\ flusher'.stage = "ack" => flusher.stage = "ack"
    /\ Types' /\ Locks' /\ Order' /\ Queued'
    /\ \A i \in DOMAIN log : Needed(i)' => Needed(i)
    /\ Kept => InTurn' /\ Answered'
    => QueueInv'
<1> SUFFICES ASSUME QueueInv,
                    UNCHANGED <<log, first, mem, disk, capture, overwrite, failed, troubled,
                                cut, outrun, left, completed>>,
                    flusher'.confirmed = flusher.confirmed,
                    flusher'.stage = "ack" => flusher.stage = "ack",
                    Types' /\ Locks' /\ Order' /\ Queued',
                    \A i \in DOMAIN log : Needed(i)' => Needed(i),
                    Kept => InTurn' /\ Answered'
             PROVE  QueueInv'
  BY Zenon
<1>1. Ids'
  BY Zenon DEF QueueInv, Frame, Ids
<1>2. Numbers' /\ Ages' /\ Bounded'
  <2>1. Numbers'
    BY Zenon DEF QueueInv, Frame, Numbers, Known
  <2>2. Ages'
    BY Zenon DEF QueueInv, Frame, Ages
  <2>3. Bounded'
    BY Zenon DEF QueueInv, Bounded
  <2> QED
    BY Zenon, <2>1, <2>2, <2>3
<1>3. ASSUME Kept PROVE Contents' /\ Confirmed'
  <2>1. Contents'
    BY Zenon, <1>3, SameContents DEF Kept
  <2>2. Confirmed'
    BY Zenon, <1>3 DEF Kept, Confirmed, OnDisk, Past
  <2> QED
    BY Zenon, <2>1, <2>2
<1> QED
  BY Zenon, <1>1, <1>2, <1>3 DEF QueueInv, Frame, Kept

\* Parts of a step without effect on who is ahead of whom.
SameWork ==
    /\ Item' = Item /\ (worker' = Resting <=> worker = Resting)
    /\ worker'.stage = "applied" => worker.stage = "applied"

LEMMA SameInTurn ==
    /\ InTurn
    /\ UNCHANGED <<log, cut, mem, failed, overwrite, queue, mode, load_next>> /\ SameWork
    /\ mode # "down" => \A i \in DOMAIN log : i < recover' => InMemory(i)
    /\ (\E c \in Clients : Locked(c))' <=> \E c \in Clients : Locked(c)
    /\ Types /\ Types'
    => InTurn'
<1> SUFFICES ASSUME InTurn, Types, Types',
                    UNCHANGED <<log, cut, mem, failed, overwrite, queue, mode, load_next>>,
                    SameWork, \A i \in DOMAIN log : i < recover' => InMemory(i),
                    (\E c \in Clients : Locked(c))' <=> \E c \in Clients : Locked(c),
                    mode # "down"
             PROVE  InTurn'
  BY Zenon DEF InTurn
<1>1. /\ \A i : InMemory(i)' <=> InMemory(i)
      /\ \A i : Done(i)' <=> Done(i)
      /\ \A n : DoneBefore(n)' <=> DoneBefore(n)
  BY Zenon, SameDone
<1>2. \A i : Ahead(i)' <=> Ahead(i)
  BY Zenon DEF Ahead, SameWork
<1> QED
  BY Zenon, <1>1, <1>2 DEF InTurn, SameWork

LEMMA SameAnswered ==
    /\ Answered
    /\ UNCHANGED <<log, cut, mem, queue, mode, load_next, completed>> /\ SameWork
    /\ Types /\ Types' /\ synced <= synced'
    => Answered'
<1> SUFFICES ASSUME Answered, Types, Types', synced <= synced',
                    UNCHANGED <<log, cut, mem, queue, mode, load_next, completed>>, SameWork,
                    NEW id \in completed
             PROVE  (\E i \in DOMAIN log :
                        /\ log[i].id = id /\ i <= synced
                        /\ mode # "down" => InMemory(i)
                        /\ \A k \in DOMAIN queue : i < queue[k].num
                        /\ worker # Resting => i < Item.num
                        /\ mode = "loading" => i < load_next)'
  BY Zenon DEF Answered
<1>1. PICK i \in DOMAIN log :
        /\ log[i].id = id /\ i <= synced
        /\ mode # "down" => InMemory(i)
        /\ \A k \in DOMAIN queue : i < queue[k].num
        /\ worker # Resting => i < Item.num
        /\ mode = "loading" => i < load_next
  BY Zenon DEF Answered
<1>2. i <= synced'
  BY <1>1, Facts, SMTT(20) DEF Types, LogFacts
<1>3. InMemory(i)' <=> InMemory(i)
  BY Zenon DEF InMemory, Past
<1> QED
  BY Zenon, <1>1, <1>2, <1>3 DEF SameWork

\* Steps that leave the queue and the clients alone too.
LEMMA Aside ==
    /\ QueueInv
    /\ UNCHANGED <<log, first, queue, client, mem, disk, capture, overwrite, failed, mode,
                   load_next, left, completed, cut, troubled, outrun>>
    /\ SameWork
    /\ flusher'.confirmed = flusher.confirmed
    /\ flusher'.stage = "ack" => flusher.stage = "ack"
    /\ synced <= synced' /\ Types' /\ Locks' /\ Queued'
    /\ Kept /\ mode # "down" => \A i \in DOMAIN log : i < recover' => InMemory(i)
    => QueueInv'
<1> SUFFICES ASSUME QueueInv,
                    UNCHANGED <<log, first, queue, client, mem, disk, capture, overwrite,
                                failed, mode, load_next, left, completed, cut, troubled,
                                outrun>>,
                    SameWork,
                    flusher'.confirmed = flusher.confirmed,
                    flusher'.stage = "ack" => flusher.stage = "ack",
                    synced <= synced', Types' /\ Locks' /\ Queued',
                    Kept /\ mode # "down" =>
                        \A i \in DOMAIN log : i < recover' => InMemory(i)
             PROVE  QueueInv'
  BY Zenon
<1>1. Order'
  BY Zenon DEF QueueInv, Frame, Order, SameWork
<1>2. (\E c \in Clients : Locked(c))' <=> \E c \in Clients : Locked(c)
  BY Zenon, SameLockers
<1>3. \A i \in DOMAIN log : Needed(i)' => Needed(i)
  BY Zenon, <1>2 DEF Needed, SameWork
<1>4. Kept => InTurn' /\ Answered'
  BY Zenon, <1>2, SameInTurn, SameAnswered DEF Kept, QueueInv, Frame
<1> QED
  BY Zenon, <1>1, <1>3, <1>4, Quietly

LEMMA ReserveStep == ASSUME NEW c \in Clients PROVE QueueInv /\ Reserve(c) => QueueInv'
<1> SUFFICES ASSUME QueueInv, Reserve(c) PROVE QueueInv'
  BY Zenon
<1>1. Types /\ Locks /\ Order /\ Queued
  BY Zenon DEF QueueInv, Frame
<1>2. PICK ram \in BOOLEAN :
        client' = [client EXCEPT ![c] = [phase |-> "reserved", ram |-> ram, id |-> 0]]
  BY Zenon DEF Reserve
<1>3. /\ UNCHANGED <<log, first, synced, wal_lock, queue, worker, mem, disk, capture,
                     overwrite, failed, flusher, recover, applied_seq, mode, load_next,
                     truncating, left, completed, cut, troubled, outrun>>
      /\ mode = "running" /\ ~truncating /\ client[c].phase = "idle"
  BY Zenon DEF Reserve, logvars, segvars, history
<1>4. /\ client'[c] = [phase |-> "reserved", ram |-> ram, id |-> 0]
      /\ \A e \in Clients \ {c} : client'[e] = client[e]
  BY Zenon, <1>1, <1>2 DEF Idle, Types
<1>5. \A e \in Clients : Locked(e)' <=> Locked(e)
  BY <1>3, <1>4 DEF Locked
<1>6. Types'
  <2>1. client' \in [Clients -> [phase : Phases, ram : BOOLEAN, id : Int]]
    <3>1. [phase |-> "reserved", ram |-> ram, id |-> 0] \in [phase : Phases, ram : BOOLEAN, id : Int]
      <4>1. CASE ram = TRUE
        BY <4>1 DEF Idle, Phases
      <4>2. CASE ram = FALSE
        BY <4>2 DEF Idle, Phases
      <4> QED
        BY <4>1, <4>2, Zenon
    <3> QED
      BY Zenon, <1>1, <1>2, <3>1 DEF Types
  <2> QED
    BY Zenon, <1>1, <1>3, <2>1 DEF Types
<1>7. Locks'
  BY Zenon, <1>1, <1>3, <1>4, <1>5 DEF Locks, Locked, Resting, AtRest
<1>8. Order' /\ Queued'
  <2>1. \A item : Sent(item)' <=> Sent(item)
    BY Zenon, <1>3, <1>5 DEF Sent
  <2> QED
    BY <1>1, <1>3, <2>1, Zenon DEF Order, Queued, Item
<1>9. \A i \in DOMAIN log : Needed(i)' => Needed(i)
  BY Zenon, <1>3, <1>5 DEF Needed, Item
<1>10. Kept => InTurn' /\ Answered'
  <2>1. synced <= synced' /\ SameWork
    BY <1>1, <1>3 DEF Types, SameWork, Item
  <2>2. InTurn /\ mode # "down" => \A i \in DOMAIN log : i < recover' => InMemory(i)
    BY Zenon, <1>3 DEF InTurn
  <2> QED
    BY Zenon, <1>1, <1>3, <1>5, <1>6, <2>1, <2>2, SameInTurn, SameAnswered DEF Kept
<1> QED
  BY Zenon, <1>3, <1>6, <1>7, <1>8, <1>9, <1>10, Quietly

LEMMA TimeoutStep == ASSUME NEW c \in Clients PROVE QueueInv /\ Timeout(c) => QueueInv'
<1> SUFFICES ASSUME QueueInv, Timeout(c) PROVE QueueInv'
  BY Zenon
<1>1. Types /\ Locks /\ Order /\ Queued
  BY Zenon DEF QueueInv, Frame
<1>3. /\ UNCHANGED <<log, first, synced, wal_lock, queue, worker, mem, disk, capture,
                     overwrite, failed, flusher, recover, applied_seq, mode, load_next,
                     truncating, left, completed, cut, troubled, outrun>>
      /\ client[c].phase = "waiting" /\ client' = [client EXCEPT ![c] = Idle]
  BY Zenon DEF Timeout, logvars, segvars, history
<1>4. /\ client'[c].phase = "idle"
      /\ \A e \in Clients \ {c} : client'[e] = client[e]
  BY Zenon, <1>1, <1>3 DEF Idle, Types
<1>5. \A e \in Clients : Locked(e)' <=> Locked(e)
  BY Zenon, <1>3, <1>4 DEF Locked
<1>6. Types'
  <2>1. client' \in [Clients -> [phase : Phases, ram : BOOLEAN, id : Int]]
    BY <1>1, <1>3 DEF Types, Idle, Phases
  <2> QED
    BY Zenon, <1>1, <1>3, <2>1 DEF Types
<1>7. Locks'
  <2>1. Reserved' = Reserved
    BY Zenon, <1>3, <1>4 DEF Reserved
  <2>2. \A e \in Clients : Locked(e)' => client'[e] = client[e]
    BY Zenon, <1>3, <1>4 DEF Locked
  <2> QED
    BY Zenon, <1>1, <1>3, <1>5, <2>1, <2>2 DEF Locks, Resting, AtRest
<1>8. Order' /\ Queued'
  <2>1. \A item : Sent(item)' <=> Sent(item)
    BY Zenon, <1>3, <1>5 DEF Sent
  <2> QED
    BY Zenon, <1>1, <1>3, <2>1 DEF Order, Queued, Item
<1>9. \A i \in DOMAIN log : Needed(i)' => Needed(i)
  BY Zenon, <1>3, <1>5 DEF Needed, Item
<1>10. Kept => InTurn' /\ Answered'
  <2>1. synced <= synced' /\ SameWork
    BY <1>1, <1>3 DEF Types, SameWork, Item
  <2>2. InTurn /\ mode # "down" => \A i \in DOMAIN log : i < recover' => InMemory(i)
    BY Zenon, <1>3 DEF InTurn
  <2> QED
    BY Zenon, <1>1, <1>3, <1>5, <1>6, <2>1, <2>2, SameInTurn, SameAnswered DEF Kept
<1> QED
  BY Zenon, <1>3, <1>6, <1>7, <1>8, <1>9, <1>10, Quietly


LEMMA TruncateStep == QueueInv /\ Truncate => QueueInv'
<1> SUFFICES ASSUME QueueInv, Truncate PROVE QueueInv'
  BY Zenon
<1>1. Types /\ Locks /\ Queued
  BY Zenon DEF QueueInv, Frame
<1>2. /\ UNCHANGED <<log, first, synced, wal_lock, queue, client, worker, mem, disk,
                     capture, overwrite, failed, flusher, recover, applied_seq, mode,
                     load_next, left, completed, cut, troubled, outrun>>
      /\ mode = "running" /\ Reserved = {} /\ truncating' = TRUE
  BY Zenon DEF Truncate, logvars, segvars, history
<1>3. Types'
  BY Zenon, <1>1, <1>2 DEF Types
<1>4. Locks'
  BY Zenon, <1>1, <1>2 DEF Locks, Locked, Reserved, Resting, AtRest
<1>5. Queued' /\ SameWork /\ synced <= synced'
  BY <1>1, <1>2 DEF Queued, Sent, Locked, Item, SameWork, Types
<1>6. Kept /\ mode # "down" => \A i \in DOMAIN log : i < recover' => InMemory(i)
  BY Zenon, <1>2 DEF Kept, InTurn
<1> QED
  BY Zenon, <1>2, <1>3, <1>4, <1>5, <1>6, Aside

LEMMA RecoverEndStep == QueueInv /\ RecoverEnd => QueueInv'
<1> SUFFICES ASSUME QueueInv, RecoverEnd PROVE QueueInv'
  BY Zenon
<1>1. Types /\ Locks /\ Queued
  BY Zenon DEF QueueInv, Frame
<1>2. /\ UNCHANGED <<log, first, synced, queue, client, worker, mem, disk,
                     capture, overwrite, failed, flusher, applied_seq, mode, truncating,
                     load_next, left, completed, cut, troubled, outrun>>
      /\ wal_lock = "recover" /\ recover' = 0 /\ wal_lock' = "free"
  BY Zenon DEF RecoverEnd, logvars, segvars, history
<1>3. Types'
  BY Zenon, <1>1, <1>2 DEF Types
<1>4. Locks'
  <2>1. \A c \in Clients : ~Locked(c)
    BY Zenon, <1>1, <1>2, QueueAssumption DEF Locks
  <2>2. \A c \in Clients : ~Locked(c)'
    BY Zenon, <1>2, <2>1 DEF Locked
  <2> QED
    BY Zenon, <1>1, <1>2, <2>2 DEF Locks, Reserved, Resting, AtRest
<1>5. Queued' /\ SameWork /\ synced <= synced'
  BY <1>1, <1>2 DEF Queued, Sent, Locked, Item, SameWork, Types
<1>6. \A i \in DOMAIN log : ~(i < recover')
  BY <1>1, <1>2, Facts DEF LogFacts
<1> QED
  BY Zenon, <1>2, <1>3, <1>4, <1>5, <1>6, Aside

LEMMA FlushWalStep == QueueInv /\ FlushWal => QueueInv'
<1> SUFFICES ASSUME QueueInv, FlushWal PROVE QueueInv'
  BY Zenon
<1>1. Types /\ Locks /\ Queued /\ LogFacts /\ ItemFacts
  BY Zenon, Facts DEF QueueInv, Frame
<1>2. /\ UNCHANGED <<log, first, wal_lock, queue, client, worker, mem, disk,
                     capture, overwrite, failed, recover, applied_seq, mode, truncating,
                     load_next, left, completed, cut, troubled, outrun>>
      /\ mode = "running" /\ synced' = Len(log) /\ wal_lock = "free"
      /\ flusher' = [flusher EXCEPT !.stage = "segments"]
  BY Zenon DEF FlushWal, logvars, segvars, history
<1>3. synced' \in 0 .. Len(log) /\ synced <= synced' /\ synced \in Int
  BY <1>1, <1>2 DEF LogFacts, Types
<1>4. /\ flusher' \in [stage : {"idle", "segments", "ack"}, confirmed : Nat]
      /\ flusher'.confirmed = flusher.confirmed /\ flusher'.stage = "segments"
  BY Zenon, <1>1, <1>2 DEF Types
<1>5. Types'
  BY Zenon, <1>1, <1>2, <1>3, <1>4 DEF Types
<1>6. Locks'
  <2>1. \A c \in Clients : ~Locked(c)
    BY Zenon, <1>1, <1>2, QueueAssumption DEF Locks
  <2>2. \A c \in Clients : ~Locked(c)'
    BY Zenon, <1>2, <2>1 DEF Locked
  <2> QED
    BY Zenon, <1>1, <1>2, <2>2 DEF Locks, Reserved
<1>7. Queued' /\ SameWork
  <2>1. Item.num <= synced => Item.num <= synced'
    BY <1>1, <1>2, <1>3 DEF ItemFacts, LogFacts
  <2> QED
    BY Zenon, <1>1, <1>2, <2>1 DEF Queued, Sent, Locked, Item, SameWork
<1>8. Kept /\ mode # "down" => \A i \in DOMAIN log : i < recover' => InMemory(i)
  BY Zenon, <1>2 DEF Kept, InTurn
<1> QED
  BY Zenon, <1>2, <1>3, <1>4, <1>5, <1>6, <1>7, <1>8, Aside

LEMMA SyncLogStep == QueueInv /\ SyncLog => QueueInv'
<1> SUFFICES ASSUME QueueInv, SyncLog PROVE QueueInv'
  BY Zenon
<1>1. Types /\ Locks /\ Queued /\ LogFacts /\ ItemFacts
  BY Zenon, Facts DEF QueueInv, Frame
<1>2. /\ UNCHANGED <<log, first, wal_lock, queue, client, flusher, mem, disk,
                     capture, overwrite, failed, recover, applied_seq, mode, truncating,
                     load_next, left, completed, cut, troubled, outrun>>
      /\ worker.stage = "sync" /\ synced' = Len(log) /\ wal_lock = "free"
      /\ worker' = [worker EXCEPT !.stage = "apply"]
  BY Zenon DEF SyncLog, logvars, segvars, history
<1>3. synced' \in 0 .. Len(log) /\ synced <= synced' /\ synced \in Int
  BY <1>1, <1>2 DEF LogFacts, Types
<1>4. /\ worker' \in [stage : {"idle", "fetch", "sync", "apply", "applied"}, item : QueueItems]
      /\ Item' = Item /\ worker'.stage = "apply" /\ worker' # Resting /\ worker # Resting
  <2>1. worker \in [stage : {"idle", "fetch", "sync", "apply", "applied"}, item : QueueItems]
    BY Zenon, <1>1 DEF Types
  <2>2. Resting.stage = "idle"
    BY Zenon DEF Resting
  <2>3. /\ worker' \in [stage : {"idle", "fetch", "sync", "apply", "applied"},
                        item : QueueItems]
        /\ worker'.item = worker.item /\ worker'.stage = "apply"
    BY Zenon, <1>2, <2>1
  <2> QED
    BY Zenon, <1>2, <2>2, <2>3 DEF Item
<1>5. Types'
  BY Zenon, <1>1, <1>2, <1>3, <1>4 DEF Types
<1>6. Locks'
  <2>1. \A c \in Clients : ~Locked(c)
    BY Zenon, <1>1, <1>2, QueueAssumption DEF Locks
  <2>2. \A c \in Clients : ~Locked(c)'
    BY Zenon, <1>2, <2>1 DEF Locked
  <2> QED
    BY Zenon, <1>1, <1>2, <2>2, <1>4 DEF Locks, Reserved
<1>7. Queued' /\ SameWork
  <2>1. Item.num <= Len(log)
    BY Zenon, <1>1, <1>2 DEF Queued
  <2> QED
    BY Zenon, <1>1, <1>2, <1>4, <2>1 DEF Queued, Sent, Locked, SameWork
<1>8. Kept /\ mode # "down" => \A i \in DOMAIN log : i < recover' => InMemory(i)
  BY Zenon, <1>2 DEF Kept, InTurn
<1> QED
  BY Zenon, <1>2, <1>3, <1>4, <1>5, <1>6, <1>7, <1>8, Aside

-----------------------------------------------------------------------------
(* The worker comes to rest: its client, if it still waits, is answered.   *)

ClientsStay ==
    /\ client' \in [Clients -> [phase : Phases, ram : BOOLEAN, id : Int]]
    /\ Reserved' = Reserved
    /\ \A e \in Clients : (Locked(e)' <=> Locked(e)) /\ (Locked(e) => client'[e] = client[e])

LEMMA FeedbackFacts ==
    ASSUME NEW done \in BOOLEAN
    PROVE  Types /\ Feedback(done) =>
             /\ ClientsStay /\ UNCHANGED <<left, cut, outrun>>
             /\ \/ completed' = completed
                \/ /\ done /\ Item.client # NoClient /\ Item.num <= Len(log)
                   /\ completed' = completed \cup {log[Item.num].id}
<1> SUFFICES ASSUME Types, Feedback(done)
             PROVE  /\ ClientsStay /\ UNCHANGED <<left, cut, outrun>>
                    /\ \/ completed' = completed
                       \/ /\ done /\ Item.client # NoClient /\ Item.num <= Len(log)
                          /\ completed' = completed \cup {log[Item.num].id}
  BY Zenon
<1> DEFINE c == Item.client
           awaited == /\ c # NoClient
                      /\ client[c].phase = "waiting"
                      /\ Item.num <= Len(log) /\ client[c].id = log[Item.num].id
<1>1. /\ client' = IF awaited THEN [client EXCEPT ![c] = Idle] ELSE client
      /\ completed' = IF awaited /\ done THEN completed \cup {client[c].id} ELSE completed
      /\ UNCHANGED <<left, cut, outrun>>
  BY Zenon DEF Feedback
<1>2. client \in [Clients -> [phase : Phases, ram : BOOLEAN, id : Int]]
  BY Zenon DEF Types
<1>3. Item \in QueueItems
  BY Zenon, Facts DEF ItemFacts
<1>4. c \in Clients \cup {NoClient}
  BY Zenon, <1>3 DEF QueueItems
<1>5. CASE awaited
  <2>1. c \in Clients /\ client[c].phase = "waiting" /\ client' = [client EXCEPT ![c] = Idle]
    BY Zenon, <1>1, <1>4, <1>5
  <2> HIDE DEF c
  <2>2. /\ client' \in [Clients -> [phase : Phases, ram : BOOLEAN, id : Int]]
        /\ client'[c].phase = "idle" /\ \A e \in Clients \ {c} : client'[e] = client[e]
    BY <1>2, <2>1 DEF Idle, Phases
  <2>3. ClientsStay
    BY Zenon, <2>1, <2>2 DEF ClientsStay, Reserved, Locked
  <2> USE DEF c
  <2>4. \/ completed' = completed
        \/ /\ done /\ Item.client # NoClient /\ Item.num <= Len(log)
           /\ completed' = completed \cup {log[Item.num].id}
    BY Zenon, <1>1, <1>5
  <2> QED
    BY Zenon, <1>1, <2>3, <2>4
<1>6. CASE ~awaited
  <2>1. client' = client /\ completed' = completed
    BY Zenon, <1>1, <1>6
  <2> QED
    BY <1>1, <1>2, <2>1, Zenon DEF ClientsStay, Reserved, Locked
<1> QED
  BY Zenon, <1>5, <1>6

LEMMA Rests ==
    /\ Types /\ Locks /\ Order /\ Queued /\ worker # Resting /\ worker' = Resting
    /\ UNCHANGED <<log, synced, wal_lock, queue, mode, load_next, truncating, recover>>
    /\ ClientsStay
    => Locks' /\ Order' /\ Queued'
<1> SUFFICES ASSUME Types, Locks, Order, Queued, worker # Resting, worker' = Resting,
                    UNCHANGED <<log, synced, wal_lock, queue, mode, load_next, truncating,
                                recover>>,
                    ClientsStay
             PROVE  Locks' /\ Order' /\ Queued'
  BY Zenon
<1>1. worker'.stage = "idle" /\ mode # "down"
  BY Zenon DEF Resting, Locks
<1>2. Locks'
  BY Zenon, <1>1 DEF Locks, ClientsStay
<1>3. Order'
  BY Zenon DEF Order
<1>4. Queued'
  <2>1. \A item : Sent(item) => Sent(item)'
    BY Zenon DEF Sent, ClientsStay
  <2> QED
    BY Zenon, <1>1, <2>1 DEF Queued
<1> QED
  BY Zenon, <1>2, <1>3, <1>4

\* What it is done with is in the Segments or not in the log at all.
LEMMA RestsInTurn ==
    /\ InTurn /\ worker' = Resting /\ ClientsStay
    /\ UNCHANGED <<log, cut, mem, failed, overwrite, queue, mode, load_next, recover>>
    /\ Item.num \in DOMAIN log => Done(Item.num)
    => InTurn'
<1> SUFFICES ASSUME InTurn, worker' = Resting, ClientsStay, mode # "down",
                    UNCHANGED <<log, cut, mem, failed, overwrite, queue, mode, load_next,
                                recover>>,
                    Item.num \in DOMAIN log => Done(Item.num)
             PROVE  InTurn'
  BY Zenon DEF InTurn
<1>1. /\ \A i : InMemory(i)' <=> InMemory(i)
      /\ \A i : Done(i)' <=> Done(i)
      /\ \A n : DoneBefore(n)' <=> DoneBefore(n)
  BY Zenon, SameDone
<1>2. worker'.stage = "idle"
  BY Zenon DEF Resting
<1>3. ASSUME NEW i \in DOMAIN log
      PROVE  (\/ Done(i)
              \/ Ahead(i)
              \/ mode = "loading" /\ i >= load_next
              \/ i = Len(log) /\ \E c \in Clients : Locked(c))'
  <2>1. Ahead(i) => Ahead(i)' \/ Done(i)
    BY Zenon DEF Ahead
  <2> QED
    BY Zenon, <1>1, <2>1 DEF InTurn, ClientsStay
<1> QED
  BY Zenon, <1>1, <1>2, <1>3 DEF InTurn

LEMMA RestsAnswered ==
    /\ Answered /\ worker' = Resting
    /\ UNCHANGED <<log, cut, mem, queue, mode, load_next, completed, synced>>
    => Answered'
<1> SUFFICES ASSUME Answered, worker' = Resting,
                    UNCHANGED <<log, cut, mem, queue, mode, load_next, completed, synced>>
             PROVE  Answered'
  BY Zenon
<1>1. \A i : InMemory(i)' <=> InMemory(i)
  BY Zenon DEF InMemory, Past
<1> QED
  BY Zenon, <1>1 DEF Answered

LEMMA RestsNeeded ==
    ASSUME NEW i
    PROVE  /\ worker' = Resting /\ ClientsStay /\ UNCHANGED <<log, queue, completed>>
           /\ Needed(i)'
           => Needed(i)
<1>1. worker' = Resting => Item'.client = NoClient
  BY DEF Item, Resting, NoItem
<1> QED
  BY Zenon, <1>1 DEF Needed, ClientsStay

LEMMA FetchStep == QueueInv /\ Fetch => QueueInv'
<1> SUFFICES ASSUME QueueInv, Fetch PROVE QueueInv'
  BY Zenon
<1>1. Types /\ Locks /\ Order /\ Queued /\ LogFacts /\ ItemFacts
  BY Zenon, Facts DEF QueueInv, Frame
<1>2. /\ UNCHANGED <<log, first, synced, wal_lock, queue, flusher, mem, disk, capture,
                     overwrite, failed, recover, applied_seq, mode, truncating, load_next>>
      /\ worker.stage = "fetch"
  BY Zenon DEF Fetch, logvars, segvars
<1>3. worker \in [stage : {"idle", "fetch", "sync", "apply", "applied"}, item : QueueItems]
  BY Zenon, <1>1 DEF Types
<1>4. worker # Resting /\ Resting.stage = "idle"
  BY <1>2 DEF Resting
<1>5. CASE Item.ram \/ Item.num <= Len(log)
  <2>1. /\ worker' = [worker EXCEPT !.stage =
                        IF Item.client = NoClient THEN "apply" ELSE "sync"]
        /\ UNCHANGED <<client, left, completed, cut, troubled, outrun>>
    BY <1>5, Zenon DEF Fetch, history
  <2>2. /\ worker' \in [stage : {"idle", "fetch", "sync", "apply", "applied"},
                        item : QueueItems]
        /\ worker'.item = worker.item
        /\ worker'.stage = IF Item.client = NoClient THEN "apply" ELSE "sync"
    BY Zenon, <1>3, <2>1
  <2>3. SameWork /\ Item' = Item
    BY Zenon, <1>2, <1>4, <2>2 DEF SameWork, Item
  <2>4. Types'
    BY Zenon, <1>1, <1>2, <2>1, <2>2 DEF Types
  <2>5. Locks'
    <3>1. worker' # Resting /\ worker'.stage # "idle" /\ mode # "down"
      BY Zenon, <1>1, <1>4, <2>2 DEF Locks
    <3> QED
      BY Zenon, <1>1, <1>2, <2>1, <3>1 DEF Locks, Locked, Reserved
  <2>6. Queued'
    <3>1. Item.num <= Len(log) /\ Sent(Item)
      BY Zenon, <1>1, <1>4, <1>5 DEF Queued, Sent
    <3>2. \A item : Sent(item)' <=> Sent(item)
      BY Zenon, <1>2, <2>1 DEF Sent, Locked
    <3> QED
      BY <1>1, <1>2, <2>2, <2>3, <3>1, <3>2, Zenon DEF Queued
  <2>7. Kept /\ mode # "down" => \A i \in DOMAIN log : i < recover' => InMemory(i)
    BY Zenon, <1>2 DEF Kept, InTurn
  <2>8. synced <= synced'
    BY <1>1, <1>2 DEF Types
  <2> QED
    BY Zenon, <1>2, <2>1, <2>3, <2>4, <2>5, <2>6, <2>7, <2>8, Aside
<1>6. CASE ~(Item.ram \/ Item.num <= Len(log))
  <2>1. worker' = Resting /\ Feedback(FALSE) /\ troubled' = troubled
    BY <1>6, Zenon DEF Fetch
  <2>2. ClientsStay /\ UNCHANGED <<left, cut, outrun, completed>>
    BY <1>1, <2>1, FeedbackFacts, Zenon
  <2>3. Types'
    <3>1. worker' \in [stage : {"idle", "fetch", "sync", "apply", "applied"},
                       item : QueueItems]
      BY Zenon, <2>1 DEF Resting, NoItem, QueueItems
    <3> QED
      BY Zenon, <1>1, <1>2, <2>1, <2>2, <3>1 DEF Types, ClientsStay
  <2>4. Locks' /\ Order' /\ Queued'
    BY Zenon, <1>1, <1>2, <1>4, <2>1, <2>2, Rests
  <2>5. \A i \in DOMAIN log : Needed(i)' => Needed(i)
    BY Zenon, <1>2, <2>1, <2>2, RestsNeeded
  <2>6. Item.num \notin DOMAIN log
    BY <1>1, <1>6 DEF LogFacts, ItemFacts
  <2>7. Kept => InTurn' /\ Answered'
    BY <1>2, <2>1, <2>2, <2>6, RestsInTurn, RestsAnswered, Zenon DEF Kept
  <2> QED
    BY Zenon, <1>2, <2>1, <2>2, <2>3, <2>4, <2>5, <2>7, Quietly
<1> QED
  BY Zenon, <1>5, <1>6

LEMMA DeclineStep == QueueInv /\ Decline => QueueInv'
<1> SUFFICES ASSUME QueueInv, Decline PROVE QueueInv'
  BY Zenon
<1>1. Types /\ Locks /\ Order /\ Queued /\ LogFacts /\ ItemFacts
  BY Zenon, Facts DEF QueueInv, Frame
<1>2. /\ UNCHANGED <<log, first, synced, wal_lock, queue, flusher, mem, disk, capture,
                     overwrite, failed, recover, applied_seq, mode, truncating, load_next,
                     troubled>>
      /\ worker.stage = "apply" /\ log[Item.num].on = {}
      /\ worker' = Resting /\ Feedback(FALSE)
  BY Zenon DEF Decline, logvars, segvars
<1>3. worker # Resting
  BY <1>2 DEF Resting
<1>4. ClientsStay /\ UNCHANGED <<left, cut, outrun, completed>>
  BY <1>1, <1>2, FeedbackFacts, Zenon
<1>5. Types'
  <2>1. worker' \in [stage : {"idle", "fetch", "sync", "apply", "applied"}, item : QueueItems]
    BY Zenon, <1>2 DEF Resting, NoItem, QueueItems
  <2> QED
    BY Zenon, <1>1, <1>2, <1>4, <2>1 DEF Types, ClientsStay
<1>6. Locks' /\ Order' /\ Queued'
  BY Zenon, <1>1, <1>2, <1>3, <1>4, Rests
<1>7. \A i \in DOMAIN log : Needed(i)' => Needed(i)
  BY Zenon, <1>2, <1>4, RestsNeeded
<1>8. Done(Item.num)
  BY Zenon, <1>2 DEF Done, InMemory, Past
<1>9. Kept => InTurn' /\ Answered'
  BY Zenon, <1>2, <1>4, <1>8, RestsInTurn, RestsAnswered DEF Kept
<1> QED
  BY Zenon, <1>2, <1>4, <1>5, <1>6, <1>7, <1>9, Quietly

-----------------------------------------------------------------------------
(* The queue moves.                                                        *)

LEMMA TakeStep == QueueInv /\ Take => QueueInv'
<1> SUFFICES ASSUME QueueInv, Take PROVE QueueInv'
  BY Zenon
<1>1. Types /\ Locks /\ Order /\ Queued /\ LogFacts /\ ItemFacts
  BY Zenon, Facts DEF QueueInv, Frame
<1>2. /\ UNCHANGED <<log, first, synced, wal_lock, client, flusher, mem, disk, capture,
                     overwrite, failed, recover, applied_seq, mode, truncating, load_next,
                     left, completed, cut, troubled, outrun>>
      /\ mode # "down" /\ worker.stage = "idle" /\ queue # <<>>
      /\ worker' = [stage |-> "fetch", item |-> Head(queue)] /\ queue' = Tail(queue)
  BY Zenon DEF Take, logvars, segvars, history
<1>3. queue \in Seq(QueueItems) /\ worker = Resting
  BY Zenon, <1>1, <1>2 DEF Types, Locks
<1>4. /\ Len(queue) \in Nat \ {0} /\ 1 \in DOMAIN queue
      /\ queue' \in Seq(QueueItems) /\ DOMAIN queue' = 1 .. Len(queue) - 1
      /\ \A k \in 1 .. Len(queue) - 1 : queue'[k] = queue[k + 1]
      /\ Head(queue) = queue[1]
  BY <1>2, <1>3
<1>5. \A k \in DOMAIN queue' : k + 1 \in DOMAIN queue /\ k + 1 > 1 /\ queue'[k] = queue[k + 1]
  BY <1>1, <1>4 DEF ItemFacts
<1>6. \A k \in DOMAIN queue : k = 1 \/ (k - 1 \in DOMAIN queue' /\ queue'[k - 1] = queue[k])
  BY <1>1, <1>4 DEF ItemFacts
<1>7. /\ Item' = queue[1] /\ worker'.stage = "fetch" /\ worker' # Resting
      /\ Item.client = NoClient
  BY Zenon, <1>2, <1>3, <1>4 DEF Item, Resting, NoItem
<1>8. queue[1] \in QueueItems
  BY <1>3, <1>4
<1>9. Types'
  <2>1. worker' \in [stage : {"idle", "fetch", "sync", "apply", "applied"}, item : QueueItems]
    BY Zenon, <1>2, <1>4, <1>8
  <2> QED
    BY Zenon, <1>1, <1>2, <1>4, <2>1 DEF Types
<1>10. Locks'
  BY Zenon, <1>1, <1>2, <1>7 DEF Locks, Locked, Reserved
<1>11. Order'
  <2>1. ASSUME NEW j \in DOMAIN queue', NEW k \in DOMAIN queue', j < k
        PROVE  /\ queue'[j].num <= queue'[k].num
               /\ queue'[j].client # NoClient => queue'[j].num < queue'[k].num
    <3>1. j + 1 < k + 1
      BY <1>4, <2>1
    <3> QED
      BY Zenon, <1>1, <1>5, <3>1 DEF Order
  <2>2. ASSUME NEW k \in DOMAIN queue'
        PROVE  /\ Item'.num <= queue'[k].num
               /\ Item'.client # NoClient => Item'.num < queue'[k].num
    <3>1. 1 < k + 1
      BY <1>4, <2>2
    <3> QED
      BY Zenon, <1>1, <1>4, <1>5, <1>7, <3>1 DEF Order
  <2> QED
    BY Zenon, <2>1, <2>2 DEF Order
<1>12. Queued'
  <2>1. \A item : Sent(item)' <=> Sent(item)
    BY <1>2, Zenon DEF Sent, Locked
  <2> QED
    BY Zenon, <1>1, <1>2, <1>4, <1>5, <1>7, <2>1 DEF Queued
<1>13. ASSUME NEW i \in DOMAIN log, Needed(i)' PROVE Needed(i)
  <2>1. (\E c \in Clients : Locked(c))' <=> \E c \in Clients : Locked(c)
    BY Zenon, <1>2, SameLockers
  <2> QED
    BY Zenon, <1>2, <1>4, <1>5, <1>7, <1>13, <2>1 DEF Needed
<1>14. ASSUME InTurn PROVE InTurn'
  <2>1. /\ \A i : InMemory(i)' <=> InMemory(i)
        /\ \A i : Done(i)' <=> Done(i)
        /\ \A n : DoneBefore(n)' <=> DoneBefore(n)
    BY Zenon, <1>2, SameDone
  <2>2. ASSUME NEW i, Ahead(i) PROVE Ahead(i)'
    BY Zenon, <1>3, <1>6, <1>7, <2>2 DEF Ahead
  <2>3. (\E c \in Clients : Locked(c))' <=> \E c \in Clients : Locked(c)
    BY Zenon, <1>2, SameLockers
  <2> QED
    BY Zenon, <1>2, <1>7, <1>14, <2>1, <2>2, <2>3 DEF InTurn
<1>15. ASSUME Answered PROVE Answered'
  <2>1. \A i : InMemory(i)' <=> InMemory(i)
    BY Zenon, <1>2 DEF InMemory, Past
  <2> QED
    BY <1>2, <1>4, <1>5, <1>7, <1>15, <2>1 DEF Answered
<1> QED
  BY Zenon, <1>2, <1>9, <1>10, <1>11, <1>12, <1>13, <1>14, <1>15, Quietly DEF Kept

LEMMA Appends ==
    ASSUME NEW item \in QueueItems
    PROVE  Types /\ queue' = Append(queue, item) =>
             /\ queue' \in Seq(QueueItems) /\ Len(queue) \in Nat
             /\ DOMAIN queue = 1 .. Len(queue) /\ DOMAIN queue' = 1 .. Len(queue) + 1
             /\ \A k \in DOMAIN queue : queue'[k] = queue[k]
             /\ queue'[Len(queue) + 1] = item
<1>1. Types => queue \in Seq(QueueItems)
  BY Zenon DEF Types
<1> QED
  BY <1>1

LEMMA SendSignalStep ==
    ASSUME NEW c \in Clients PROVE QueueInv /\ SendSignal(c) => QueueInv'
<1> SUFFICES ASSUME QueueInv, SendSignal(c) PROVE QueueInv'
  BY Zenon
<1>1. Types /\ Locks /\ Ids /\ Order /\ Queued /\ LogFacts /\ ItemFacts
  BY Zenon, Facts DEF QueueInv, Frame
<1>2. PICK wait \in BOOLEAN :
        /\ queue' = Append(queue, [num |-> NumOf(client[c].id), ram |-> client[c].ram,
                                   client |-> IF wait THEN c ELSE NoClient])
        /\ client' = [client EXCEPT ![c] =
                        IF wait THEN [@ EXCEPT !.phase = "waiting", !.ram = FALSE] ELSE Idle]
  BY Zenon DEF SendSignal
<1>3. /\ UNCHANGED <<log, first, synced, worker, flusher, mem, disk, capture,
                     overwrite, failed, recover, applied_seq, mode, truncating, load_next,
                     left, completed, cut, troubled, outrun>>
      /\ Locked(c) /\ wal_lock' = IF wal_lock = c THEN "free" ELSE wal_lock
  BY Zenon DEF SendSignal, Locked, logvars, segvars, history
<1>4. /\ wal_lock = c /\ log # <<>> /\ client[c].id = log[Len(log)].id /\ synced < Len(log)
      /\ wal_lock' = "free"
  BY Zenon, <1>1, <1>3 DEF Locks
<1>5. Len(log) \in DOMAIN log /\ Len(log) > 0
  <2>1. log \in Seq(Records)
    BY Zenon, <1>1 DEF Types
  <2>2. Len(log) # 0
    BY <1>4, <2>1
  <2> QED
    BY <1>1, <2>2 DEF LogFacts
<1>6. NumOf(client[c].id) = Len(log)
  BY Zenon, <1>1, <1>4, <1>5 DEF NumOf, Ids
<1>7. client \in [Clients -> [phase : Phases, ram : BOOLEAN, id : Int]]
  BY Zenon, <1>1 DEF Types
<1>8. /\ client' \in [Clients -> [phase : Phases, ram : BOOLEAN, id : Int]]
      /\ client'[c].phase \in {"idle", "waiting"}
      /\ \A e \in Clients \ {c} : client'[e] = client[e]
  <2>1. CASE wait
    BY <1>2, <1>7, <2>1, Zenon DEF Phases
  <2>2. CASE ~wait
    BY <1>2, <1>7, <2>2 DEF Phases, Idle
  <2> QED
    BY Zenon, <2>1, <2>2
<1>9. \A e \in Clients : ~Locked(e)'
  <2>1. \A e \in Clients \ {c} : ~Locked(e)
    BY Zenon, <1>1, <1>4 DEF Locks
  <2> QED
    BY Zenon, <1>8, <2>1 DEF Locked
<1>10. PICK item \in QueueItems :
         /\ queue' = Append(queue, item) /\ item.num = Len(log)
  <2>1. client[c].ram \in BOOLEAN
    BY Zenon, <1>7
  <2>2. (IF wait THEN c ELSE NoClient) \in Clients \cup {NoClient}
    BY Zenon
  <2>3. [num |-> Len(log), ram |-> client[c].ram, client |-> IF wait THEN c ELSE NoClient]
          \in QueueItems
    BY Zenon, <1>1, <2>1, <2>2 DEF QueueItems, LogFacts
  <2> QED
    BY Zenon, <1>2, <1>6, <2>3
<1>11. /\ queue' \in Seq(QueueItems) /\ Len(queue) \in Nat
       /\ DOMAIN queue = 1 .. Len(queue) /\ DOMAIN queue' = 1 .. Len(queue) + 1
       /\ \A k \in DOMAIN queue : queue'[k] = queue[k]
       /\ queue'[Len(queue) + 1] = item
  BY Zenon, <1>1, <1>10, Appends
<1>12. \A k \in DOMAIN queue' : k \in DOMAIN queue \/ k = Len(queue) + 1
  BY <1>11
<1>13. /\ \A k \in DOMAIN queue : /\ queue[k].num <= Len(log)
                                  /\ queue[k].client # NoClient => queue[k].num < Len(log)
       /\ worker # Resting => /\ Item.num <= Len(log)
                              /\ Item.client # NoClient => Item.num < Len(log)
  BY Zenon, <1>1, <1>3 DEF Queued, Sent
<1>14. Types'
  BY Zenon, <1>1, <1>3, <1>8, <1>11 DEF Types
<1>15. Locks'
  <2>1. mode = "running" /\ ~truncating
    BY Zenon, <1>1, <1>3 DEF Locks, Reserved, Locked, Types
  <2>2. wal_lock # "recover"
    BY Zenon, <1>4, QueueAssumption
  <2> QED
    BY Zenon, <1>1, <1>3, <1>4, <1>9, <2>1, <2>2 DEF Locks
<1>16. Order'
  <2>1. ASSUME NEW j \in DOMAIN queue', NEW k \in DOMAIN queue', j < k
        PROVE  /\ queue'[j].num <= queue'[k].num
               /\ queue'[j].client # NoClient => queue'[j].num < queue'[k].num
    <3>1. j \in DOMAIN queue
      BY <1>11, <2>1
    <3>2. CASE k \in DOMAIN queue
      BY Zenon, <1>1, <1>11, <2>1, <3>1, <3>2 DEF Order
    <3>3. CASE k = Len(queue) + 1
      BY Zenon, <1>10, <1>11, <1>13, <3>1, <3>3
    <3> QED
      BY Zenon, <1>12, <3>2, <3>3
  <2>2. ASSUME worker' # Resting, NEW k \in DOMAIN queue'
        PROVE  /\ Item'.num <= queue'[k].num
               /\ Item'.client # NoClient => Item'.num < queue'[k].num
    <3>1. Item' = Item /\ worker # Resting
      BY Zenon, <1>3, <2>2 DEF Item
    <3>2. CASE k \in DOMAIN queue
      BY Zenon, <1>1, <1>11, <3>1, <3>2 DEF Order
    <3>3. CASE k = Len(queue) + 1
      BY Zenon, <1>10, <1>11, <1>13, <3>1, <3>3
    <3> QED
      BY Zenon, <1>12, <3>2, <3>3
  <2> QED
    BY Zenon, <2>1, <2>2 DEF Order
<1>17. Queued'
  <2>1. \A e : Sent(e) => Sent(e)'
    BY Zenon, <1>3, <1>9 DEF Sent
  <2>2. mode # "loading"
    BY <1>1, <1>3, Zenon DEF Locks, Reserved, Locked
  <2>3. Sent(item)'
    BY <1>3, <1>5, <1>9, <1>10, <1>1, <2>2 DEF Sent, LogFacts
  <2>4. (\A k \in DOMAIN queue : Sent(queue[k]))'
    BY Zenon, <1>1, <1>11, <1>12, <2>1, <2>3 DEF Queued
  <2> QED
    BY Zenon, <1>1, <1>3, <2>1, <2>4 DEF Queued, Item
<1>18. ASSUME NEW i \in DOMAIN log, Needed(i)' PROVE Needed(i)
  <2>1. ASSUME NEW k \in DOMAIN queue', queue'[k].client # NoClient, queue'[k].num = i
        PROVE  Needed(i)
    <3>1. CASE k \in DOMAIN queue
      BY Zenon, <1>11, <2>1, <3>1 DEF Needed
    <3>2. CASE k = Len(queue) + 1
      BY <1>3, <1>10, <1>11, <2>1, <3>2, Zenon DEF Needed
    <3> QED
      BY Zenon, <1>12, <3>1, <3>2
  <2> QED
    BY Zenon, <1>3, <1>9, <1>18, <2>1 DEF Needed, Item
<1>19. ASSUME InTurn PROVE InTurn'
  <2>1. /\ \A i : InMemory(i)' <=> InMemory(i)
        /\ \A i : Done(i)' <=> Done(i)
        /\ \A n : DoneBefore(n)' <=> DoneBefore(n)
    BY Zenon, <1>3, SameDone
  <2>2. ASSUME NEW i, Ahead(i) PROVE Ahead(i)'
    BY <1>3, <1>11, <2>2 DEF Ahead, Item
  <2>3. Ahead(Len(log))'
    <3>1. Len(queue) + 1 \in DOMAIN queue'
      BY <1>11
    <3> QED
      BY Zenon, <1>3, <1>10, <1>11, <3>1 DEF Ahead
  <2> QED
    BY <1>3, <1>19, <2>1, <2>2, <2>3, Zenon DEF InTurn, Item
<1>20. ASSUME Answered PROVE Answered'
  <2>1. \A i : InMemory(i)' <=> InMemory(i)
    BY Zenon, <1>3 DEF InMemory, Past
  <2> SUFFICES ASSUME NEW id \in completed
               PROVE  (\E i \in DOMAIN log :
                        /\ log[i].id = id /\ i <= synced
                        /\ mode # "down" => InMemory(i)
                        /\ \A k \in DOMAIN queue : i < queue[k].num
                        /\ worker # Resting => i < Item.num
                        /\ mode = "loading" => i < load_next)'
    BY Zenon, <1>3 DEF Answered
  <2>2. PICK i \in DOMAIN log :
        /\ log[i].id = id /\ i <= synced
        /\ mode # "down" => InMemory(i)
        /\ \A k \in DOMAIN queue : i < queue[k].num
        /\ worker # Resting => i < Item.num
        /\ mode = "loading" => i < load_next
    BY Zenon, <1>20 DEF Answered
  <2>3. i < Len(log)
    BY <1>1, <1>4, <2>2 DEF LogFacts, Types
  <2>4. \A k \in DOMAIN queue' : i < queue'[k].num
    BY Zenon, <1>10, <1>11, <1>12, <2>2, <2>3
  <2> QED
    BY Zenon, <1>3, <2>1, <2>2, <2>4 DEF Item
<1> QED
  BY Zenon, <1>3, <1>14, <1>15, <1>16, <1>17, <1>18, <1>19, <1>20, Quietly DEF Kept

LEMMA LoadPendingStep == QueueInv /\ LoadPending => QueueInv'
<1> SUFFICES ASSUME QueueInv, LoadPending PROVE QueueInv'
  BY Zenon
<1>1. Types /\ Locks /\ Order /\ Queued /\ LogFacts /\ ItemFacts
  BY Zenon, Facts DEF QueueInv, Frame
<1>2. /\ UNCHANGED <<log, first, synced, client, worker, flusher, mem, disk, capture,
                     overwrite, failed, recover, applied_seq, truncating,
                     left, completed, cut, troubled, outrun>>
      /\ mode = "loading" /\ queue' = Append(queue, [num |-> load_next, ram |-> FALSE,
                                                      client |-> NoClient])
      /\ IF load_next > Len(log)
         THEN mode' = "running" /\ load_next' = 0 /\ wal_lock' = "free"
         ELSE load_next' = load_next + 1 /\ UNCHANGED <<mode, wal_lock>>
  BY Zenon DEF LoadPending, logvars, segvars, history
<1>3. load_next \in Nat /\ load_next > 0 /\ load_next <= Len(log) + 1 /\ Len(log) \in Nat
  BY Zenon, <1>1, <1>2 DEF Types, Queued, LogFacts
<1>4. PICK item \in QueueItems :
        /\ queue' = Append(queue, item) /\ item.num = load_next
        /\ ~item.ram /\ item.client = NoClient
  <2>1. [num |-> load_next, ram |-> FALSE, client |-> NoClient] \in QueueItems
    BY Zenon, <1>3 DEF QueueItems
  <2> QED
    BY Zenon, <1>2, <2>1
<1>5. /\ queue' \in Seq(QueueItems) /\ Len(queue) \in Nat
      /\ DOMAIN queue = 1 .. Len(queue) /\ DOMAIN queue' = 1 .. Len(queue) + 1
      /\ \A k \in DOMAIN queue : queue'[k] = queue[k]
      /\ queue'[Len(queue) + 1] = item
  BY Zenon, <1>1, <1>4, Appends
<1>6. \A k \in DOMAIN queue' : k \in DOMAIN queue \/ k = Len(queue) + 1
  BY <1>5
<1>7. \A e \in Clients : ~Locked(e) /\ ~Locked(e)'
  BY Zenon, <1>1, <1>2 DEF Locks, Reserved, Locked
<1>8. /\ \A k \in DOMAIN queue : queue[k].num < load_next
      /\ worker # Resting => Item.num < load_next
  BY Zenon, <1>1, <1>2 DEF Queued, Sent
<1>9. Types'
  <2>1. load_next' \in Nat /\ mode' \in {"down", "loading", "running"}
    BY <1>2, <1>3
  <2> QED
    BY Zenon, <1>1, <1>2, <1>5, <2>1 DEF Types
<1>10. Locks'
  <2>1. wal_lock = "load" /\ Reserved = {} /\ ~truncating /\ recover = 0
    BY Zenon, <1>1, <1>2 DEF Locks, Types
  <2>2. Reserved' = {}
    BY Zenon, <1>2, <2>1 DEF Reserved
  <2>3. CASE load_next > Len(log)
    BY Zenon, <1>1, <1>2, <1>7, <2>1, <2>2, <2>3 DEF Locks
  <2>4. CASE ~(load_next > Len(log))
    BY Zenon, <1>1, <1>2, <1>7, <2>1, <2>2, <2>4 DEF Locks
  <2> QED
    BY Zenon, <2>3, <2>4
<1>11. Order'
  <2>1. ASSUME NEW j \in DOMAIN queue', NEW k \in DOMAIN queue', j < k
        PROVE  /\ queue'[j].num <= queue'[k].num
               /\ queue'[j].client # NoClient => queue'[j].num < queue'[k].num
    <3>1. j \in DOMAIN queue
      BY <1>5, <2>1
    <3>2. CASE k \in DOMAIN queue
      BY Zenon, <1>1, <1>5, <2>1, <3>1, <3>2 DEF Order
    <3>3. CASE k = Len(queue) + 1
      <4>1. queue[j].num < load_next /\ queue[j].num \in Nat
        BY Zenon, <1>1, <1>8, <3>1 DEF ItemFacts
      <4> QED
        BY <1>3, <1>4, <1>5, <3>1, <3>3, <4>1
    <3> QED
      BY Zenon, <1>6, <3>2, <3>3
  <2>2. ASSUME worker' # Resting, NEW k \in DOMAIN queue'
        PROVE  /\ Item'.num <= queue'[k].num
               /\ Item'.client # NoClient => Item'.num < queue'[k].num
    <3>1. Item' = Item /\ worker # Resting
      BY Zenon, <1>2, <2>2 DEF Item
    <3>2. CASE k \in DOMAIN queue
      BY Zenon, <1>1, <1>5, <3>1, <3>2 DEF Order
    <3>3. CASE k = Len(queue) + 1
      <4>1. Item.num < load_next /\ Item.num \in Nat
        BY Zenon, <1>1, <1>8, <3>1 DEF ItemFacts
      <4> QED
        BY <1>3, <1>4, <1>5, <3>1, <3>3, <4>1
    <3> QED
      BY Zenon, <1>6, <3>2, <3>3
  <2> QED
    BY Zenon, <2>1, <2>2 DEF Order
<1>12. mode' = "loading" => load_next' = load_next + 1 /\ load_next <= Len(log)
  BY <1>2, <1>3
<1>13. Queued'
  <2>1. ASSUME NEW e, e.num \in Nat, Sent(e) PROVE Sent(e)'
    <3>1. e.num < load_next => e.num < load_next + 1
      BY <1>3, <2>1
    <3> QED
      BY Zenon, <1>2, <1>7, <1>12, <2>1, <3>1 DEF Sent
  <2>2. Sent(item)'
    <3>1. load_next < load_next + 1
      BY <1>3
    <3> QED
      BY Zenon, <1>2, <1>3, <1>4, <1>7, <1>12, <3>1 DEF Sent
  <2>3. (\A k \in DOMAIN queue : Sent(queue[k]))'
    BY Zenon, <1>1, <1>5, <1>6, <2>1, <2>2 DEF Queued, ItemFacts
  <2>4. worker # Resting => Sent(Item)'
    BY Zenon, <1>1, <1>2, <2>1 DEF Queued, ItemFacts, Item
  <2>5. mode' = "loading" => load_next' > 0 /\ load_next' <= Len(log) + 1
    BY <1>3, <1>12
  <2> QED
    BY <1>1, <1>2, <2>3, <2>4, <2>5, Zenon DEF Queued, Item
<1>14. ASSUME NEW i \in DOMAIN log, Needed(i)' PROVE Needed(i)
  <2>1. ASSUME NEW k \in DOMAIN queue', queue'[k].client # NoClient, queue'[k].num = i
        PROVE  Needed(i)
    BY Zenon, <1>4, <1>5, <1>6, <2>1 DEF Needed
  <2> QED
    BY Zenon, <1>2, <1>7, <1>14, <2>1 DEF Needed, Item
<1>15. ASSUME InTurn PROVE InTurn'
  <2>1. /\ \A i : InMemory(i)' <=> InMemory(i)
        /\ \A i : Done(i)' <=> Done(i)
        /\ \A n : DoneBefore(n)' <=> DoneBefore(n)
    BY Zenon, <1>2, SameDone
  <2>2. ASSUME NEW i, Ahead(i) PROVE Ahead(i)'
    BY <1>2, <1>5, <2>2 DEF Ahead, Item
  <2>3. Len(queue) + 1 \in DOMAIN queue'
    BY <1>5
  <2>5. ASSUME NEW i \in DOMAIN log, i >= load_next
        PROVE  Ahead(i)' \/ (mode' = "loading" /\ i >= load_next')
    <3>1. i \in Nat /\ i <= Len(log)
      BY <1>1 DEF LogFacts
    <3>2. ~(load_next > Len(log))
      BY <1>3, <2>5, <3>1
    <3>3. load_next' = load_next + 1 /\ mode' = "loading"
      BY Zenon, <1>2, <3>2
    <3>4. CASE i = load_next
      BY Zenon, <1>4, <1>5, <2>3, <3>4 DEF Ahead
    <3>5. CASE i # load_next
      BY <1>3, <2>5, <3>1, <3>3, <3>5
    <3> QED
      BY Zenon, <3>4, <3>5
  <2>6. ASSUME NEW i \in DOMAIN log
        PROVE  Done(i) \/ Ahead(i)' \/ (mode' = "loading" /\ i >= load_next')
    BY Zenon, <1>2, <1>7, <1>15, <2>2, <2>5 DEF InTurn
  <2> QED
    BY <1>2, <1>15, <2>1, <2>6, Zenon DEF InTurn, Item
<1>16. ASSUME Answered PROVE Answered'
  <2>1. \A i : InMemory(i)' <=> InMemory(i)
    BY Zenon, <1>2 DEF InMemory, Past
  <2> SUFFICES ASSUME NEW id \in completed
               PROVE  (\E i \in DOMAIN log :
                        /\ log[i].id = id /\ i <= synced
                        /\ mode # "down" => InMemory(i)
                        /\ \A k \in DOMAIN queue : i < queue[k].num
                        /\ worker # Resting => i < Item.num
                        /\ mode = "loading" => i < load_next)'
    BY Zenon, <1>2 DEF Answered
  <2>2. PICK i \in DOMAIN log :
        /\ log[i].id = id /\ i <= synced
        /\ mode # "down" => InMemory(i)
        /\ \A k \in DOMAIN queue : i < queue[k].num
        /\ worker # Resting => i < Item.num
        /\ mode = "loading" => i < load_next
    BY Zenon, <1>16 DEF Answered
  <2>3. i < load_next /\ (mode' = "loading" => i < load_next')
    BY <1>1, <1>2, <1>3, <1>12, <2>2 DEF LogFacts
  <2>4. \A k \in DOMAIN queue' : i < queue'[k].num
    BY Zenon, <1>4, <1>5, <1>6, <2>2, <2>3
  <2> QED
    BY <1>2, <2>1, <2>2, <2>3, <2>4, Zenon DEF Item
<1> QED
  BY Zenon, <1>2, <1>9, <1>10, <1>11, <1>13, <1>14, <1>15, <1>16, Quietly DEF Kept

-----------------------------------------------------------------------------
(* The flush.                                                              *)

\* Steps that move nothing towards the worker.
Unmoved ==
    UNCHANGED <<log, synced, wal_lock, queue, client, worker, recover, mode, load_next,
                truncating, left, completed, cut, troubled, outrun>>

LEMMA UnmovedFrame ==
    Unmoved /\ Locks /\ Ids /\ Order /\ Queued /\ mode # "down" =>
        /\ Locks' /\ Ids' /\ Order' /\ Queued'
        /\ \A i : Needed(i)' <=> Needed(i)
<1> SUFFICES ASSUME Unmoved, Locks, Ids, Order, Queued, mode # "down"
             PROVE  /\ Locks' /\ Ids' /\ Order' /\ Queued'
                    /\ \A i : Needed(i)' <=> Needed(i)
  BY Zenon
<1>1. (\E c \in Clients : Locked(c))' <=> \E c \in Clients : Locked(c)
  BY Zenon, SameLockers DEF Unmoved
<1>2. Locks'
  BY Zenon DEF Unmoved, Locks, Locked, Reserved
<1>3. Ids' /\ Order'
  BY Zenon DEF Unmoved, Ids, Order, Item
<1>4. Queued'
  <2>1. \A item : Sent(item)' <=> Sent(item)
    BY Zenon, <1>1 DEF Unmoved, Sent
  <2> QED
    BY <2>1, Zenon DEF Unmoved, Queued, Item
<1>5. \A i : Needed(i)' <=> Needed(i)
  BY Zenon, <1>1 DEF Unmoved, Needed, Item
<1> QED
  BY Zenon, <1>2, <1>3, <1>4, <1>5

LEMMA UnmovedKept ==
    Unmoved /\ Types /\ Types' /\ InTurn /\ Answered /\ UNCHANGED <<mem, failed, overwrite>>
        => InTurn' /\ Answered'
<1> SUFFICES ASSUME Unmoved, Types, Types', InTurn, Answered,
                    UNCHANGED <<mem, failed, overwrite>>
             PROVE  InTurn' /\ Answered'
  BY Zenon
<1>1. SameWork /\ synced <= synced'
  BY DEF Unmoved, SameWork, Item, Types
<1>2. (\E c \in Clients : Locked(c))' <=> \E c \in Clients : Locked(c)
  BY Zenon, SameLockers DEF Unmoved
<1>3. mode # "down" => \A i \in DOMAIN log : i < recover' => InMemory(i)
  BY Zenon DEF InTurn, Unmoved
<1> QED
  BY Zenon, <1>1, <1>2, <1>3, SameInTurn, SameAnswered DEF Unmoved

LEMMA PersistStep == ASSUME NEW p \in Points PROVE QueueInv /\ Persist(p) => QueueInv'
<1> SUFFICES ASSUME QueueInv, Persist(p) PROVE QueueInv'
  BY Zenon
<1>1. /\ Types /\ Locks /\ Ids /\ Order /\ Queued /\ Numbers /\ Ages /\ Bounded
      /\ LogFacts /\ CopyFacts
  BY Zenon, Facts DEF QueueInv, Frame
<1>2. /\ Unmoved /\ UNCHANGED <<first, mem, overwrite, flusher, failed, applied_seq>>
      /\ p \in DOMAIN capture /\ disk' = [disk EXCEPT ![p] = capture[p]]
      /\ capture' = Restrict(capture, DOMAIN capture \ {p})
  BY Zenon DEF Persist, Unmoved, logvars, history
<1>3. mode # "down"
  BY <1>1, <1>2, Zenon DEF Locks
<1>4. /\ disk' \in [Points -> Copies] /\ disk'[p] = capture[p]
      /\ \A q \in Points : q # p => disk'[q] = disk[q]
      /\ DOMAIN capture' = DOMAIN capture \ {p}
      /\ \A q \in DOMAIN capture' : capture'[q] = capture[q]
  BY Zenon, <1>1, <1>2 DEF Types, Restrict
<1>5. Types'
  BY <1>1, <1>2, <1>4, Zenon DEF Types, Unmoved
<1>6. Locks' /\ Ids' /\ Order' /\ Queued' /\ \A i : Needed(i)' <=> Needed(i)
  BY Zenon, <1>1, <1>2, <1>3, UnmovedFrame
<1>7. Numbers' /\ Bounded'
  BY Zenon, <1>1, <1>2 DEF Numbers, Known, Bounded, Unmoved
<1>8. Ages'
  <2>1. \A q \in DOMAIN capture' : q \in DOMAIN capture /\ q \in Points /\ q # p
    BY Zenon, <1>1, <1>4 DEF CopyFacts
  <2>2. \A q \in DOMAIN capture' : /\ disk'[q].version <= capture'[q].version
                                   /\ capture'[q].version <= mem[q].version
    BY Zenon, <1>1, <1>4, <2>1 DEF Ages
  <2>3. \A q \in Points : disk'[q].version <= mem[q].version
    BY Zenon, <1>1, <1>2, <1>4 DEF Ages
  <2> QED
    BY <1>2, <2>2, <2>3, Zenon DEF Ages
<1>9. ASSUME Kept PROVE Kept'
  <2>1. \A q, copy : Whole(q, copy) => Whole(q, copy)'
    BY <1>2, <1>6, Zenon DEF Whole, Waived, Unmoved
  <2>2. Contents'
    BY <1>2, <1>4, <1>9, <2>1, Zenon DEF Kept, Contents
  <2>3. ASSUME NEW i \in DOMAIN log, OnDisk(i) PROVE OnDisk(i)'
    <3>1. \A q \in Points : disk[q].version >= i => disk'[q].version >= i
      <4>1. i \in Nat
        BY <1>1 DEF LogFacts
      <4>2. disk[p].version <= capture[p].version
        BY <1>1, <1>2, Zenon DEF Ages
      <4> QED
        BY <1>1, <1>2, <1>4, <4>1, <4>2 DEF CopyFacts
    <3>2. log[i].on \subseteq Points
      BY <1>1, Zenon DEF LogFacts
    <3> QED
      BY <1>2, <2>3, <3>1, <3>2, Zenon DEF OnDisk, Past, Unmoved
  <2>4. Confirmed'
    BY Zenon, <1>2, <1>9, <2>3 DEF Kept, Confirmed, Unmoved
  <2>5. InTurn' /\ Answered'
    BY Zenon, <1>1, <1>2, <1>5, <1>9, UnmovedKept DEF Kept
  <2> QED
    BY Zenon, <2>2, <2>4, <2>5 DEF Kept
<1> QED
  BY Zenon, <1>2, <1>5, <1>6, <1>7, <1>8, <1>9 DEF QueueInv, Frame, Unmoved

LEMMA KnownBelow ==
    \A a, b \in Int : a <= b /\ Known(b) => Known(a)
<1> SUFFICES ASSUME NEW a \in Int, NEW b \in Int, a <= b, Known(b), NEW i \in 1 .. a
             PROVE  i <= Len(log) \/ i \in cut
  BY Zenon DEF Known
<1>1. i \in 1 .. b
  OBVIOUS
<1> QED
  BY Zenon, <1>1 DEF Known

LEMMA AckStep == QueueInv /\ Ack => QueueInv'
<1> SUFFICES ASSUME QueueInv, Ack PROVE QueueInv'
  BY Zenon
<1>1. /\ Types /\ Locks /\ Ids /\ Order /\ Queued /\ Numbers /\ Ages /\ Bounded
      /\ LogFacts /\ CopyFacts
  BY Zenon, Facts DEF QueueInv, Frame
<1>2. /\ Unmoved /\ UNCHANGED <<mem, disk, capture, overwrite, failed, applied_seq>>
      /\ flusher.stage = "ack" /\ flusher' = AtRest
      /\ first' = Min({Max({flusher.confirmed, first}), LastIndex(log)})
  BY Zenon DEF Ack, Unmoved, segvars, history
<1>3. mode # "down"
  BY <1>1, <1>2 DEF Locks, AtRest
<1>4. flusher.confirmed \in Nat /\ first \in Nat \ {0} /\ Len(log) \in Nat
  BY Zenon, <1>1 DEF Types, LogFacts
<1>5. /\ first' \in Nat \ {0}
      /\ first' <= flusher.confirmed \/ first' <= first
  <2>1. LastIndex(log) \in Nat \ {0}
    BY <1>4, Larger DEF LastIndex
  <2> DEFINE m == Max({flusher.confirmed, first})
  <2>2. m \in Nat \ {0} /\ (m = flusher.confirmed \/ m = first)
    BY <1>4, Larger
  <2> HIDE DEF m
  <2>3. Min({m, LastIndex(log)}) = IF m <= LastIndex(log) THEN m ELSE LastIndex(log)
    <3>1. m \in Int /\ LastIndex(log) \in Int
      BY <2>1, <2>2
    <3> QED
      BY Zenon, <3>1, Larger
  <2>4. first' = Min({m, LastIndex(log)})
    BY Zenon, <1>2 DEF m
  <2> QED
    BY <1>4, <2>1, <2>2, <2>3, <2>4
<1>6. /\ flusher' \in [stage : {"idle", "segments", "ack"}, confirmed : Nat]
      /\ flusher'.stage = "idle" /\ flusher'.confirmed = 0
  BY Zenon, <1>2 DEF AtRest
<1>7. Types'
  BY Zenon, <1>1, <1>2, <1>5, <1>6 DEF Types, Unmoved
<1>8. Locks' /\ Ids' /\ Order' /\ Queued' /\ \A i : Needed(i)' <=> Needed(i)
  BY Zenon, <1>1, <1>2, <1>3, UnmovedFrame
<1>9. Numbers' /\ Bounded' /\ Ages'
  <2>1. \A n : Known(n)' <=> Known(n)
    BY Zenon, <1>2 DEF Known, Unmoved
  <2>2. Known(first' - 1)
    <3>1. Known(flusher.confirmed - 1) /\ Known(first - 1)
      BY Zenon, <1>1 DEF Numbers
    <3>2. PICK f \in Nat : f = first'
      BY Zenon, <1>5
    <3>3. f <= flusher.confirmed \/ f <= first
      BY Zenon, <1>5, <3>2
    <3>4. /\ f - 1 \in Int /\ flusher.confirmed - 1 \in Int /\ first - 1 \in Int
          /\ f - 1 <= flusher.confirmed - 1 \/ f - 1 <= first - 1
      BY <1>4, <3>3
    <3>5. Known(f - 1)
      BY Zenon, <3>1, <3>4, KnownBelow
    <3> QED
      BY Zenon, <3>2, <3>5
  <2>3. Known(flusher'.confirmed - 1)
    BY <1>6 DEF Known
  <2>4. Known(first - 1)' /\ Known(flusher.confirmed - 1)'
    BY <1>2, <2>2, <2>3, Zenon DEF Known, Unmoved
  <2> QED
    BY Zenon, <1>1, <1>2, <2>1, <2>4 DEF Numbers, Bounded, Ages
<1>10. ASSUME Kept PROVE Kept'
  <2>1. \A q, copy : Whole(q, copy) => Whole(q, copy)'
    BY <1>2, <1>8, Zenon DEF Whole, Waived, Unmoved
  <2>2. Contents'
    BY Zenon, <1>2, <1>10, <2>1 DEF Kept, Contents
  <2>3. \A i : OnDisk(i)' <=> OnDisk(i)
    BY Zenon, <1>2 DEF OnDisk, Past, Unmoved
  <2>4. ASSUME NEW i \in DOMAIN log, i < first' PROVE OnDisk(i)
    <3>1. i < flusher.confirmed \/ i < first
      BY <1>1, <1>4, <1>5, <2>4 DEF LogFacts
    <3> QED
      BY Zenon, <1>2, <1>10, <3>1 DEF Kept, Confirmed
  <2>5. ASSUME NEW n \in failed \ cut
        PROVE  n >= first' /\ n <= Len(log) /\ log[n].id \in troubled
    <3>1. n >= first /\ n >= flusher.confirmed /\ n <= Len(log) /\ log[n].id \in troubled
      BY Zenon, <1>2, <1>10 DEF Kept, Confirmed
    <3>2. n \in Nat
      BY Zenon, <1>1 DEF Types
    <3> QED
      BY <1>4, <1>5, <3>1, <3>2
  <2>6. Confirmed'
    BY <1>2, <1>6, <2>3, <2>4, <2>5, Zenon DEF Confirmed, Unmoved
  <2>7. InTurn' /\ Answered'
    BY Zenon, <1>1, <1>2, <1>7, <1>10, UnmovedKept DEF Kept
  <2> QED
    BY Zenon, <2>2, <2>6, <2>7 DEF Kept
<1> QED
  BY Zenon, <1>2, <1>7, <1>8, <1>9, <1>10 DEF QueueInv, Frame, Unmoved

\* Nothing is confirmed that some Segment has in memory only.
-----------------------------------------------------------------------------
(* A record is applied, by the update worker or by try_recover.            *)

AppliesAt(n, done) ==
    /\ n \in DOMAIN log /\ mode # "down" /\ done \subseteq log[n].on
    /\ mem' = Touch(mem, n, log[n].id, done) /\ overwrite' \in {overwrite, n}
    /\ UNCHANGED <<log, first, synced, queue, disk, capture, flusher, mode, load_next, left,
                   cut, completed, outrun>>
    /\ ClientsStay
    /\ \/ done = log[n].on /\ failed' = failed \ {n} /\ troubled' = troubled
       \/ /\ failed' = failed \cup {n} /\ troubled' = troubled \cup {log[n].id}
          /\ \E bad \in log[n].on : mem[bad].version < n

LEMMA AppliesFrame ==
    ASSUME NEW n, NEW done
    PROVE  Frame /\ Bounded /\ AppliesAt(n, done) =>
             /\ mem' \in [Points -> Copies] /\ overwrite' \in Nat
             /\ failed' \subseteq Nat \ {0} /\ troubled' \subseteq Int
             /\ Ids' /\ Numbers' /\ Ages' /\ Bounded'
             /\ \A p \in Points :
                   /\ mem'[p].version \in Nat /\ mem[p].version <= mem'[p].version
                   /\ p \in done => mem'[p].version >= n
                   /\ \/ mem'[p] = mem[p]
                      \/ /\ mem[p].version < n /\ mem'[p].version = n /\ p \in log[n].on
                         /\ mem'[p].ops = mem[p].ops \cup {log[n].id}
<1> SUFFICES ASSUME Frame, Bounded, AppliesAt(n, done)
             PROVE  /\ mem' \in [Points -> Copies] /\ overwrite' \in Nat
                    /\ failed' \subseteq Nat \ {0} /\ troubled' \subseteq Int
                    /\ Ids' /\ Numbers' /\ Ages' /\ Bounded'
                    /\ \A p \in Points :
                         /\ mem'[p].version \in Nat /\ mem[p].version <= mem'[p].version
                         /\ p \in done => mem'[p].version >= n
                         /\ \/ mem'[p] = mem[p]
                            \/ /\ mem[p].version < n /\ mem'[p].version = n /\ p \in log[n].on
                               /\ mem'[p].ops = mem[p].ops \cup {log[n].id}
  BY Zenon
<1>1. /\ Types /\ Ids /\ Numbers /\ Ages /\ LogFacts /\ CopyFacts
      /\ mem \in [Points -> Copies]
  BY Zenon, Facts DEF Frame, Types
<1>2. n \in Nat \ {0} /\ n <= Len(log) /\ log[n].id \in Int /\ log[n].on \subseteq Points
  BY <1>1 DEF AppliesAt, LogFacts
<1>3. /\ mem' \in [Points -> Copies]
      /\ \A p \in Points : IF p \in done /\ mem[p].version < n
                           THEN /\ mem'[p].version = n
                                /\ mem'[p].ops = mem[p].ops \cup {log[n].id}
                           ELSE mem'[p] = mem[p]
  <2> DEFINE H == Touch(mem, n, log[n].id, done)
  <2>1. mem' = H /\ n \in Nat
    BY <1>2, Zenon DEF AppliesAt
  <2>2. /\ H \in [Points -> Copies]
        /\ \A p \in Points : IF p \in done /\ mem[p].version < n
                             THEN /\ H[p].version = n
                                  /\ H[p].ops = mem[p].ops \cup {log[n].id}
                             ELSE H[p] = mem[p]
    BY <1>1, <1>2, <2>1, TouchFacts
  <2> HIDE DEF H
  <2> QED
    BY Zenon, <2>1, <2>2
<1>4. ASSUME NEW p \in Points
      PROVE  /\ mem'[p].version \in Nat /\ mem[p].version <= mem'[p].version
             /\ p \in done => mem'[p].version >= n
             /\ \/ mem'[p] = mem[p]
                \/ /\ mem[p].version < n /\ mem'[p].version = n /\ p \in log[n].on
                   /\ mem'[p].ops = mem[p].ops \cup {log[n].id}
  <2>1. mem[p].version \in Nat
    BY <1>1, Zenon DEF CopyFacts
  <2>2. CASE p \in done /\ mem[p].version < n
    <3>1. p \in log[n].on
      BY Zenon, <2>2 DEF AppliesAt
    <3> QED
      BY <1>2, <1>3, <2>1, <2>2, <3>1
  <2>3. CASE ~(p \in done /\ mem[p].version < n)
    BY <1>2, <1>3, <2>1, <2>3
  <2> QED
    BY <2>2, <2>3, Zenon
<1>5. overwrite' \in Nat /\ failed' \subseteq Nat \ {0} /\ troubled' \subseteq Int
  <2>1. overwrite \in Nat /\ failed \subseteq Nat \ {0} /\ troubled \subseteq Int
    BY Zenon, <1>1 DEF Types
  <2> QED
    BY <1>2, <2>1, Zenon DEF AppliesAt
<1>6. Ids'
  <2>1. log[n].id < 0 \/ log[n].id > left
    BY <1>1, Zenon DEF Ids, AppliesAt
  <2>2. \A id \in troubled' : id \in troubled \/ id = log[n].id
    BY Zenon DEF AppliesAt
  <2> QED
    BY <1>1, <2>1, <2>2, Zenon DEF Ids, AppliesAt
<1>7. Numbers'
  <2>1. \A k : Known(k)' <=> Known(k)
    BY Zenon DEF Known, AppliesAt
  <2>2. Known(n)
    BY <1>1, <1>2 DEF Known, LogFacts
  <2>3. \A p \in Points : mem'[p].version = mem[p].version \/ mem'[p].version = n
    BY Zenon, <1>4
  <2>4. \A p \in Points : Known(mem'[p].version)
    BY Zenon, <1>1, <2>2, <2>3 DEF Numbers
  <2>5. Known(overwrite')
    BY <1>1, <2>2, Zenon DEF Numbers, AppliesAt
  <2>6. \A k \in failed' : Known(k)
    BY <1>1, <2>2, Zenon DEF Numbers, AppliesAt
  <2>7. UNCHANGED <<log, cut, first, flusher>>
    BY Zenon DEF AppliesAt
  <2>8. (\A p \in Points : Known(mem[p].version))'
    BY Zenon, <2>4, <2>7 DEF Known
  <2>9. Known(overwrite)'
    BY Zenon, <2>5, <2>7 DEF Known
  <2>10. (\A k \in failed : Known(k))'
    BY Zenon, <2>6, <2>7 DEF Known
  <2>11. Known(first - 1)' /\ Known(flusher.confirmed - 1)'
    BY Zenon, <1>1, <2>7 DEF Known, Numbers
  <2> QED
    BY Zenon, <2>8, <2>9, <2>10, <2>11 DEF Numbers
<1>8. Ages'
  <2>1. ASSUME NEW p \in Points, NEW v \in Nat, v <= mem[p].version PROVE v <= mem'[p].version
    BY <1>1, <1>4, <2>1 DEF CopyFacts
  <2> QED
    BY <1>1, <2>1, Zenon DEF Ages, CopyFacts, AppliesAt
<1>9. Bounded'
  <2>1. PICK b \in Nat : \A p \in Points : mem[p].version <= b
    BY Zenon DEF Bounded
  <2>2. ASSUME NEW p \in Points PROVE mem'[p].version <= b + n
    <3>1. mem[p].version \in Nat /\ mem[p].version <= b
      BY Zenon, <1>1, <2>1 DEF CopyFacts
    <3>2. mem'[p].version = mem[p].version \/ mem'[p].version = n
      BY Zenon, <1>4
    <3> QED
      BY <1>2, <3>1, <3>2
  <2>3. b + n \in Nat
    BY <1>2
  <2> QED
    BY Zenon, <2>2, <2>3 DEF Bounded
<1> QED
  BY Zenon, <1>3, <1>4, <1>5, <1>6, <1>7, <1>8, <1>9

LEMMA AppliesDone ==
    ASSUME NEW n, NEW done
    PROVE  Frame /\ Bounded /\ AppliesAt(n, done) =>
             /\ \A i \in DOMAIN log : (InMemory(i) => InMemory(i)') /\ (Done(i) => Done(i)')
             /\ Done(n)' /\ (failed' = failed \ {n} => InMemory(n)')
<1> SUFFICES ASSUME Frame, Bounded, AppliesAt(n, done)
             PROVE  /\ \A i \in DOMAIN log : /\ InMemory(i) => InMemory(i)'
                                             /\ Done(i) => Done(i)'
                    /\ Done(n)' /\ (failed' = failed \ {n} => InMemory(n)')
  BY Zenon
<1>1. LogFacts /\ CopyFacts /\ n \in DOMAIN log /\ UNCHANGED <<log, cut>>
  BY Zenon, Facts DEF Frame, AppliesAt
<1>2. \A p \in Points : /\ mem'[p].version \in Nat /\ mem[p].version <= mem'[p].version
                        /\ p \in done => mem'[p].version >= n
  BY Zenon, AppliesFrame
<1>3. ASSUME NEW i \in DOMAIN log, InMemory(i) PROVE InMemory(i)'
  <2>1. i \in Nat /\ log[i].on \subseteq Points
    BY <1>1 DEF LogFacts
  <2>2. ASSUME NEW p \in log[i].on, mem[p].version >= i PROVE mem'[p].version >= i
    BY <1>1, <1>2, <2>1, <2>2 DEF CopyFacts
  <2> QED
    BY Zenon, <1>1, <1>3, <2>2 DEF InMemory, Past
<1>4. CASE done = log[n].on /\ failed' = failed \ {n}
  <2>1. InMemory(n)'
    <3>1. log[n].on \subseteq Points
      BY Zenon, <1>1 DEF LogFacts
    <3>2. \A p \in log[n].on : mem'[p].version >= n
      BY Zenon, <1>2, <1>4, <3>1
    <3> QED
      BY Zenon, <1>1, <3>2 DEF InMemory, Past
  <2> QED
    BY Zenon, <1>3, <1>4, <2>1 DEF Done
<1>5. CASE failed' = failed \cup {n}
  BY Zenon, <1>3, <1>5 DEF Done
<1>6. failed' = failed \ {n} \/ failed' = failed \cup {n}
  BY Zenon DEF AppliesAt
<1>7. (failed' = failed \ {n}) => ~(n \in failed')
  BY Zenon
<1> QED
  BY <1>3, <1>4, <1>5, <1>7, Zenon DEF AppliesAt

\* It is applied in its turn.
InOrder(n) ==
    \A i \in DOMAIN log : i < n => InMemory(i) \/ (i \in failed /\ ~Needed(i))

LEMMA AppliesKept ==
    ASSUME NEW n, NEW done
    PROVE  /\ Frame /\ Bounded /\ Kept /\ AppliesAt(n, done) /\ InOrder(n)
           /\ \A i \in DOMAIN log : Needed(i)' => Needed(i)
           /\ worker' # Resting => worker # Resting /\ Item' = Item
           => /\ Contents' /\ Confirmed' /\ Answered'
              /\ (\A p \in Points : DoneBefore(mem[p].version))'
              /\ DoneBefore(overwrite)' /\ (\A k \in failed : DoneBefore(k))'
<1> SUFFICES ASSUME Frame, Bounded, Kept, AppliesAt(n, done), InOrder(n),
                    \A i \in DOMAIN log : Needed(i)' => Needed(i),
                    worker' # Resting => worker # Resting /\ Item' = Item
             PROVE  /\ Contents' /\ Confirmed' /\ Answered'
                    /\ (\A p \in Points : DoneBefore(mem[p].version))'
                    /\ DoneBefore(overwrite)' /\ (\A k \in failed : DoneBefore(k))'
  BY Zenon
<1>1. /\ Types /\ Ages /\ LogFacts /\ CopyFacts
      /\ Contents /\ Confirmed /\ InTurn /\ Answered
  BY Zenon, Facts DEF Frame, Kept
<1>2. /\ n \in DOMAIN log /\ mode # "down" /\ overwrite' \in {overwrite, n}
      /\ UNCHANGED <<log, first, synced, queue, disk, capture, flusher, mode, load_next, left,
                     cut, completed, outrun>>
      /\ failed' \subseteq failed \cup {n} /\ troubled \subseteq troubled'
  BY Zenon DEF AppliesAt
<1>3. n \in Nat /\ log[n].on \subseteq Points
  BY <1>1, <1>2 DEF LogFacts
<1>4. \A p \in Points :
        /\ mem'[p].version \in Nat
        /\ \/ mem'[p] = mem[p]
           \/ /\ mem[p].version < n /\ mem'[p].version = n /\ p \in log[n].on
              /\ mem'[p].ops = mem[p].ops \cup {log[n].id}
  BY Zenon, AppliesFrame
<1>5. \A i \in DOMAIN log : (InMemory(i) => InMemory(i)') /\ (Done(i) => Done(i)')
  BY Zenon, AppliesDone
<1>6. Contents'
  <2>1. \A i \in DOMAIN log : Waived(i) => Waived(i)'
    BY Zenon, <1>2 DEF Waived
  <2>2. ASSUME NEW q, NEW copy, Whole(q, copy) PROVE Whole(q, copy)'
    BY <1>2, <2>1, <2>2, Zenon DEF Whole
  <2>3. ASSUME NEW p \in Points PROVE Whole(p, mem[p])'
    <3>1. Whole(p, mem[p])
      BY Zenon, <1>1 DEF Contents
    <3>2. CASE mem'[p] = mem[p]
      BY Zenon, <2>2, <3>1, <3>2
    <3>3. CASE /\ mem[p].version < n /\ mem'[p].version = n
               /\ mem'[p].ops = mem[p].ops \cup {log[n].id}
      <4> SUFFICES ASSUME NEW i \in DOMAIN log, p \in log[i].on, i <= n
                   PROVE  log[i].id \in mem'[p].ops \/ Waived(i)'
        BY <1>2, <3>3, Zenon DEF Whole
      <4>1. i \in Nat /\ mem[p].version \in Nat
        BY <1>1 DEF LogFacts, CopyFacts
      <4>2. CASE i = n
        BY Zenon, <3>3, <4>2
      <4>3. CASE i <= mem[p].version
        <5>1. log[i].id \in mem[p].ops \/ Waived(i)
          BY Zenon, <3>1, <4>3 DEF Whole
        <5> QED
          BY Zenon, <2>1, <3>3, <5>1
      <4>4. CASE mem[p].version < i /\ i < n
        <5>1. InMemory(i) => i \in cut
          BY <4>1, <4>4 DEF InMemory, Past
        <5>2. i \in cut \/ (i \in failed /\ ~Needed(i))
          BY Zenon, <4>4, <5>1 DEF InOrder
        <5>3. i \in failed \ cut => log[i].id \in troubled
          BY Zenon, <1>1 DEF Confirmed
        <5>4. Waived(i)
          BY Zenon, <5>2, <5>3 DEF Waived
        <5> QED
          BY Zenon, <2>1, <5>4
      <4> QED
        BY <1>3, <4>1, <4>2, <4>3, <4>4
    <3> QED
      BY <1>4, <3>2, <3>3, Zenon
  <2>4. \A p \in Points : Whole(p, disk[p])'
    BY <1>1, <1>2, <2>2, Zenon DEF Contents
  <2>5. (\A p \in DOMAIN capture : Whole(p, capture[p]))'
    BY <1>1, <1>2, <2>2, Zenon DEF Contents
  <2> QED
    BY Zenon, <2>3, <2>4, <2>5 DEF Contents
<1>7. Confirmed'
  <2>1. \A i : OnDisk(i)' <=> OnDisk(i)
    BY <1>2, Zenon DEF OnDisk, Past
  <2>2. ASSUME NEW bad \in log[n].on, mem[bad].version < n, n \notin cut PROVE ~OnDisk(n)
    <3>1. disk[bad].version <= mem[bad].version /\ bad \in Points
      BY Zenon, <1>1, <1>3 DEF Ages
    <3>2. ~(disk[bad].version >= n)
      BY <1>1, <1>3, <2>2, <3>1 DEF CopyFacts
    <3> QED
      BY Zenon, <2>2, <3>2 DEF OnDisk, Past
  <2>3. ASSUME NEW k \in failed' \ cut
        PROVE  /\ k >= first /\ k <= Len(log) /\ log[k].id \in troubled'
               /\ flusher.stage = "ack" => k >= flusher.confirmed
    <3>1. CASE k \in failed
      BY Zenon, <1>1, <1>2, <2>3, <3>1 DEF Confirmed
    <3>2. CASE k \notin failed
      <4>1. /\ k = n /\ n \notin cut /\ log[n].id \in troubled'
            /\ \E bad \in log[n].on : mem[bad].version < n
        BY <2>3, <3>2 DEF AppliesAt
      <4>2. ~OnDisk(n)
        BY Zenon, <2>2, <4>1
      <4>3. ~(n < first) /\ (flusher.stage = "ack" => ~(n < flusher.confirmed))
        BY Zenon, <1>1, <1>2, <4>2 DEF Confirmed
      <4>4. first \in Nat /\ flusher.confirmed \in Nat /\ n <= Len(log)
        BY <1>1, <1>2 DEF Types, LogFacts
      <4>5. n >= first /\ (flusher.stage = "ack" => n >= flusher.confirmed)
        BY <1>3, <4>3, <4>4
      <4> QED
        BY Zenon, <4>1, <4>4, <4>5
    <3> QED
      BY Zenon, <3>1, <3>2
  <2> QED
    BY Zenon, <1>1, <1>2, <2>1, <2>3 DEF Confirmed
<1>8. Answered'
  <2> SUFFICES ASSUME NEW id \in completed
               PROVE  (\E i \in DOMAIN log :
                        /\ log[i].id = id /\ i <= synced
                        /\ mode # "down" => InMemory(i)
                        /\ \A k \in DOMAIN queue : i < queue[k].num
                        /\ worker # Resting => i < Item.num
                        /\ mode = "loading" => i < load_next)'
    BY <1>2, Zenon DEF Answered
  <2>1. PICK i \in DOMAIN log :
        /\ log[i].id = id /\ i <= synced
        /\ mode # "down" => InMemory(i)
        /\ \A k \in DOMAIN queue : i < queue[k].num
        /\ worker # Resting => i < Item.num
        /\ mode = "loading" => i < load_next
    BY <1>1, Zenon DEF Answered
  <2> QED
    BY <1>2, <1>5, <2>1, Zenon
<1>9. /\ (\A p \in Points : DoneBefore(mem[p].version))'
      /\ DoneBefore(overwrite)' /\ (\A k \in failed : DoneBefore(k))'
  <2>1. ASSUME NEW k, DoneBefore(k) PROVE DoneBefore(k)'
    BY Zenon, <1>2, <1>5, <2>1 DEF DoneBefore
  <2>2. DoneBefore(n)
    BY Zenon DEF InOrder, DoneBefore, Done
  <2>3. /\ \A p \in Points : DoneBefore(mem[p].version)
        /\ DoneBefore(overwrite) /\ \A k \in failed : DoneBefore(k)
    BY <1>1, <1>2, Zenon DEF InTurn
  <2>4. \A p \in Points : mem'[p].version = n \/ mem'[p].version = mem[p].version
    BY Zenon, <1>4
  <2>5. ASSUME NEW p \in Points PROVE DoneBefore(mem[p].version)'
    <3>1. PICK k : k = mem'[p].version
      BY Zenon
    <3>2. DoneBefore(k)'
      BY Zenon, <2>1, <2>2, <2>3, <2>4, <3>1
    <3> QED
      BY Zenon, <3>1, <3>2 DEF DoneBefore
  <2>6. DoneBefore(overwrite)'
    <3>1. PICK k : k = overwrite'
      BY Zenon
    <3>2. DoneBefore(k)'
      BY <1>2, <2>1, <2>2, <2>3, <3>1, Zenon
    <3> QED
      BY Zenon, <3>1, <3>2 DEF DoneBefore
  <2>7. \A k \in failed' : DoneBefore(k)'
    BY <1>2, <2>1, <2>2, <2>3, Zenon
  <2> QED
    BY Zenon, <2>5, <2>6, <2>7
<1> QED
  BY Zenon, <1>6, <1>7, <1>8, <1>9

LEMMA WorkerInOrder ==
    Frame /\ Kept /\ worker # Resting /\ Item.num \in DOMAIN log => InOrder(Item.num)
<1> SUFFICES ASSUME Frame, Kept, worker # Resting, Item.num \in DOMAIN log,
                    NEW i \in DOMAIN log, i < Item.num
             PROVE  InMemory(i) \/ (i \in failed /\ ~Needed(i))
  BY Zenon DEF InOrder
<1>1. /\ Types /\ Locks /\ Ids /\ Order /\ Queued /\ LogFacts /\ ItemFacts
      /\ InTurn /\ Answered
  BY Zenon, Facts DEF Frame, Kept
<1>2. i \in Nat /\ Item.num \in Nat /\ Item.num <= Len(log) /\ i < Len(log) /\ load_next \in Nat
  BY <1>1 DEF LogFacts, ItemFacts, Types
<1>3. \A k \in DOMAIN queue : queue[k].num # i
  <2>1. \A k \in DOMAIN queue : Item.num <= queue[k].num /\ queue[k].num \in Nat
    BY Zenon, <1>1 DEF Order, ItemFacts
  <2> QED
    BY <1>2, <2>1
<1>4. Item.num # i /\ i # Len(log)
  BY <1>2
<1>5. ~(mode = "loading" /\ i >= load_next)
  <2>1. mode = "loading" => Item.num < load_next
    BY Zenon, <1>1 DEF Queued, Sent
  <2> QED
    BY <1>2, <2>1
<1>6. mode # "down"
  BY Zenon, <1>1 DEF Locks
<1>7. Done(i)
  BY Zenon, <1>1, <1>3, <1>4, <1>5, <1>6 DEF InTurn, Ahead
<1>8. log[i].id \in completed => InMemory(i)
  <2> SUFFICES ASSUME log[i].id \in completed PROVE InMemory(i)
    BY Zenon
  <2>1. PICK j \in DOMAIN log : log[j].id = log[i].id /\ InMemory(j)
    BY Zenon, <1>1, <1>6 DEF Answered
  <2>2. j = i
    BY Zenon, <1>1, <2>1 DEF Ids
  <2> QED
    BY Zenon, <2>1, <2>2
<1>9. Needed(i) => log[i].id \in completed
  BY Zenon, <1>3, <1>4 DEF Needed
<1> QED
  BY Zenon, <1>7, <1>8, <1>9 DEF Done

\* What update does to the Segments.
LEMMA SucceedFacts ==
    ASSUME NEW n
    PROVE  Types /\ n \in DOMAIN log /\ Succeed(n) =>
             /\ mem' = Touch(mem, n, log[n].id, log[n].on)
             /\ overwrite' \in {overwrite, n} /\ failed' = failed \ {n}
<1> SUFFICES ASSUME Types, n \in DOMAIN log, Succeed(n)
             PROVE  /\ mem' = Touch(mem, n, log[n].id, log[n].on)
                    /\ overwrite' \in {overwrite, n} /\ failed' = failed \ {n}
  BY Zenon
<1>1. n \in Int /\ overwrite \in Int
  BY Facts DEF LogFacts, Types
<1>2. Max({overwrite, n}) \in {overwrite, n}
  BY Zenon, <1>1, Larger
<1> QED
  BY <1>2, Zenon DEF Succeed

LEMMA FailFacts ==
    ASSUME NEW n
    PROVE  Types /\ n \in DOMAIN log /\ Fail(n) =>
             /\ \E done \in SUBSET log[n].on : mem' = Touch(mem, n, log[n].id, done)
             /\ \E bad \in log[n].on : mem[bad].version < n
             /\ overwrite' = overwrite /\ failed' = failed \cup {n}
             /\ troubled' = troubled \cup {log[n].id}
<1> SUFFICES ASSUME Types, n \in DOMAIN log, Fail(n)
             PROVE  /\ \E done \in SUBSET log[n].on : mem' = Touch(mem, n, log[n].id, done)
                    /\ \E bad \in log[n].on : mem[bad].version < n
                    /\ overwrite' = overwrite /\ failed' = failed \cup {n}
                    /\ troubled' = troubled \cup {log[n].id}
  BY Zenon
<1>1. LogFacts /\ CopyFacts
  BY Zenon, Facts
<1>2. PICK bad \in Written(n) :
        /\ \E done \in SUBSET {p \in Written(n) \ {bad} : ~Blocked(n, p)} :
              mem' = Touch(mem, n, log[n].id, done)
        /\ failed' = failed \cup {n} /\ troubled' = troubled \cup {log[n].id}
        /\ overwrite' = overwrite
  BY Zenon DEF Fail
<1>3. bad \in log[n].on /\ ~(mem[bad].version >= n)
  BY Zenon DEF Written, Ignores
<1>4. mem[bad].version < n
  <2>1. n \in Nat /\ bad \in Points
    BY <1>1, <1>3 DEF LogFacts
  <2>2. mem[bad].version \in Nat
    BY Zenon, <1>1, <2>1 DEF CopyFacts
  <2> QED
    BY <1>3, <2>1, <2>2
<1>5. \E done \in SUBSET log[n].on : mem' = Touch(mem, n, log[n].id, done)
  <2>1. PICK done \in SUBSET {p \in Written(n) \ {bad} : ~Blocked(n, p)} :
          mem' = Touch(mem, n, log[n].id, done)
    BY Zenon, <1>2
  <2>2. done \subseteq log[n].on
    BY Zenon DEF Written
  <2> QED
    BY Zenon, <2>1, <2>2
<1> QED
  BY <1>2, <1>3, <1>4, <1>5, Zenon

=============================================================================
