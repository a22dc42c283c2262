------------------------- MODULE UpdateQueue_proofs -------------------------
(***************************************************************************)
(* However many clients, points, updates and faults there are: the update  *)
(* worker gets the records in the order of the log, and no record is lost  *)
(* between replay, queue, flush and acknowledgement.                       *)
(***************************************************************************)
EXTENDS UpdateQueueSteps_proofs, WellFoundedInduction

-----------------------------------------------------------------------------
(* Numbers.                                                                *)

\* A non-empty set of naturals has a least element, ...
LEMMA LeastNatural ==
    ASSUME NEW T, T \subseteq Nat, T # {}
    PROVE  \E m \in T : \A n \in T : m <= n
<1>1. PICK m \in T : \A n \in T : ~(<<n, m>> \in OpToRel(<, Nat))
  BY WFMin, NatLessThanWellFounded, Zenon
<1>2. ASSUME NEW n \in T PROVE m <= n
  <2>1. n \in Nat /\ m \in Nat
    BY Zenon
  <2>2. <<n, m>> \in Nat \X Nat
    BY Zenon, <2>1
  <2>3. ~(n < m)
    BY Zenon, <1>1, <2>2 DEF OpToRel
  <2> QED
    BY <2>1, <2>3
<1> QED
  BY Zenon, <1>2

LEMMA LeastOf ==
    ASSUME NEW T, T \subseteq Nat, T # {}
    PROVE  Min(T) \in T /\ \A n \in T : Min(T) <= n
<1>1. \E m \in T : \A n \in T : m <= n
  BY LeastNatural, Zenon
<1> QED
  BY <1>1, Zenon DEF Min

\* ... and a greatest one if it has a bound.
LEMMA GreatestOf ==
    ASSUME NEW T, T \subseteq Nat, T # {}, NEW b \in Nat, \A n \in T : n <= b
    PROVE  Max(T) \in T /\ \A n \in T : n <= Max(T)
<1> DEFINE U == {u \in Nat : \A n \in T : n <= u}
<1>1. U \subseteq Nat /\ U # {}
  BY Zenon
<1>2. PICK m \in U : \A u \in U : m <= u
  BY <1>1, LeastNatural, Zenon
<1>3. m \in Nat /\ \A n \in T : n <= m
  BY Zenon, <1>2
<1>4. m \in T
  <2> SUFFICES ASSUME m \notin T PROVE FALSE
    BY Zenon
  <2>1. PICK x \in T : TRUE
    BY Zenon
  <2>2. x \in Nat /\ x <= m /\ x # m
    BY Zenon, <1>3
  <2>3. m - 1 \in Nat
    BY <1>3, <2>2
  <2>4. ASSUME NEW n \in T PROVE n <= m - 1
    <3>1. n \in Nat /\ n <= m /\ n # m
      BY Zenon, <1>3
    <3> QED
      BY <1>3, <3>1
  <2>5. m - 1 \in U
    BY Zenon, <2>3, <2>4
  <2>6. m <= m - 1
    BY Zenon, <1>2, <2>5
  <2> QED
    BY <1>3, <2>6
<1>5. \E y \in T : \A n \in T : y >= n
  <2>1. ASSUME NEW n \in T PROVE m >= n
    BY Zenon, <1>3
  <2> QED
    BY Zenon, <1>4, <2>1
<1>6. Max(T) \in T /\ \A n \in T : Max(T) >= n
  BY <1>5, Zenon DEF Max
<1>7. ASSUME NEW n \in T PROVE n <= Max(T)
  <2>1. n \in Nat /\ Max(T) \in Nat /\ Max(T) >= n
    BY <1>6, Zenon
  <2> QED
    BY Zenon, <2>1
<1> QED
  BY Zenon, <1>6, <1>7

-----------------------------------------------------------------------------
(* What is confirmed, and where recovery starts.                           *)

LEMMA RecoverStartStep == QueueInv /\ RecoverStart => QueueInv'
<1> SUFFICES ASSUME QueueInv, RecoverStart PROVE QueueInv'
  BY Zenon
<1>1. Types /\ Locks /\ Queued
  BY Zenon DEF QueueInv, Frame
<1>2. /\ UNCHANGED <<log, first, synced, queue, client, worker, mem, disk,
                     capture, overwrite, failed, flusher, applied_seq, mode, truncating,
                     load_next, left, completed, cut, troubled, outrun>>
      /\ mode = "running" /\ failed # {} /\ wal_lock = "free"
      /\ recover' = Min(failed) /\ wal_lock' = "recover"
  BY Zenon DEF RecoverStart, logvars, segvars, history
<1>3. failed \subseteq Nat \ {0}
  BY Zenon, <1>1 DEF Types
<1>4. recover' \in failed /\ \A n \in failed : recover' <= n
  BY <1>2, <1>3, LeastOf, Zenon
<1>5. Types'
  BY Zenon, <1>1, <1>2, <1>3, <1>4 DEF Types
<1>6. Locks'
  <2>1. \A c \in Clients : ~Locked(c)
    BY Zenon, <1>1, <1>2, QueueAssumption DEF Locks
  <2>2. \A c \in Clients : ~Locked(c)'
    BY Zenon, <1>2, <2>1 DEF Locked
  <2>3. recover' # 0
    BY Zenon, <1>3, <1>4
  <2> QED
    BY Zenon, <1>1, <1>2, <2>2, <2>3 DEF Locks, Reserved, Resting, AtRest
<1>7. Queued' /\ SameWork /\ synced <= synced'
  BY <1>1, <1>2 DEF Queued, Sent, Locked, Item, SameWork, Types
<1>8. ASSUME Kept, NEW i \in DOMAIN log, i < recover' PROVE InMemory(i)
  <2>1. Done(i)
    BY Zenon, <1>2, <1>4, <1>8 DEF Kept, InTurn, DoneBefore
  <2>2. i \notin failed
    <3>1. i \in Nat /\ recover' \in Nat
      BY <1>1, <1>3, <1>4, Facts DEF LogFacts
    <3> QED
      BY <1>4, <1>8, <3>1
  <2> QED
    BY Zenon, <2>1, <2>2 DEF Done
<1> QED
  BY Zenon, <1>2, <1>5, <1>6, <1>7, <1>8, Aside

LEMMA ConfirmedVersion ==
    ASSUME Types, Numbers, Ages, Bounded
    PROVE  /\ MaxPersistedVersion \in Nat /\ Known(MaxPersistedVersion)
           /\ InTurn /\ mode # "down" => DoneBefore(MaxPersistedVersion)
           /\ \A p \in Unsaved : MaxPersistedVersion <= disk[p].version
<1> DEFINE M == MaxPersistedVersion
           A == {disk[p].version : p \in Unsaved}
           B == {overwrite} \cup {disk[p].version : p \in Points}
<1>1. CopyFacts /\ overwrite \in Nat
  BY Zenon, Facts DEF Types
<1>2. A \subseteq Nat /\ B \subseteq Nat /\ B # {}
  BY Zenon, <1>1 DEF CopyFacts, Unsaved
<1>3. ASSUME Unsaved # {} PROVE M \in A /\ \A n \in A : M <= n
  <2>1. M = Min(A) /\ A # {}
    BY Zenon, <1>3 DEF MaxPersistedVersion
  <2> HIDE DEF M, A
  <2> QED
    BY <1>2, <2>1, LeastOf, Zenon
<1>4. ASSUME Unsaved = {} PROVE M \in B
  <2>1. M = Max(B)
    BY Zenon, <1>4 DEF MaxPersistedVersion
  <2>2. PICK b \in Nat : \A p \in Points : mem[p].version <= b
    BY Zenon DEF Bounded
  <2>3. \A n \in B : n <= b + overwrite
    <3>1. ASSUME NEW p \in Points PROVE disk[p].version <= b + overwrite
      BY <1>1, <2>2 DEF CopyFacts, Ages
    <3>2. overwrite <= b + overwrite
      BY <1>1
    <3> QED
      BY Zenon, <3>1, <3>2
  <2>4. b + overwrite \in Nat
    BY <1>1
  <2> HIDE DEF M, B
  <2> QED
    BY <1>2, <2>1, <2>3, <2>4, GreatestOf, Zenon
<1>5. M = overwrite \/ \E p \in Points : M = disk[p].version
  BY Zenon, <1>3, <1>4 DEF Unsaved
<1> HIDE DEF M
<1>6. CASE M = overwrite
  <2>1. Known(M) /\ M \in Nat /\ (InTurn /\ mode # "down" => DoneBefore(M))
    BY <1>1, <1>6, Zenon DEF Numbers, InTurn
  <2> QED
    BY Zenon, <1>3, <2>1 DEF M
<1>7. CASE \E p \in Points : M = disk[p].version
  <2>1. PICK p \in Points : M = disk[p].version
    BY Zenon, <1>7
  <2>2. M \in Nat /\ mem[p].version \in Nat /\ M <= mem[p].version
    BY Zenon, <1>1, <2>1 DEF CopyFacts, Ages
  <2>3. Known(M)
    BY <2>2, KnownBelow DEF Numbers
  <2>4. ASSUME InTurn, mode # "down" PROVE DoneBefore(M)
    <3>1. DoneBefore(mem[p].version)
      BY Zenon, <2>4 DEF InTurn
    <3>2. \A i \in DOMAIN log : i < M => i < mem[p].version
      BY <2>2, Facts DEF LogFacts
    <3> QED
      BY Zenon, <3>1, <3>2 DEF DoneBefore
  <2> QED
    BY <1>3, <2>2, <2>3, <2>4, Zenon DEF M
<1> QED
  BY Zenon, <1>5, <1>6, <1>7

LEMMA FlushSegmentsStep == QueueInv /\ FlushSegments => QueueInv'
<1> SUFFICES ASSUME QueueInv, FlushSegments PROVE QueueInv'
  BY Zenon
<1>1. /\ Types /\ Locks /\ Ids /\ Order /\ Queued /\ Numbers /\ Ages /\ Bounded
      /\ LogFacts /\ CopyFacts
  BY Zenon, Facts DEF QueueInv, Frame
<1> DEFINE M == MaxPersistedVersion
           C == Min(failed \cup {M})
<1>2. /\ Unmoved /\ UNCHANGED <<first, mem, disk, overwrite, failed, applied_seq>>
      /\ flusher.stage = "segments" /\ flusher' = [stage |-> "ack", confirmed |-> C]
      /\ capture' = IF capture = NoCapture THEN [p \in Unsaved |-> mem[p]] ELSE capture
  BY Zenon DEF FlushSegments, Unmoved, logvars, history
<1>3. mode # "down"
  BY <1>1, <1>2 DEF Locks, AtRest
<1>4. M \in Nat /\ Known(M) /\ (Kept => DoneBefore(M)) /\ \A p \in Unsaved : M <= disk[p].version
  BY Zenon, <1>1, <1>3, ConfirmedVersion DEF Kept
<1>5. C \in Nat /\ C <= M /\ \A n \in failed : C <= n
  <2>1. failed \cup {M} \subseteq Nat /\ failed \cup {M} # {}
    BY Zenon, <1>1, <1>4 DEF Types
  <2> HIDE DEF M
  <2> QED
    BY Zenon, <2>1, LeastOf
<1> HIDE DEF M, C
<1>6. /\ flusher' \in [stage : {"idle", "segments", "ack"}, confirmed : Nat]
      /\ flusher'.stage = "ack" /\ flusher'.confirmed = C
  BY Zenon, <1>2, <1>5
<1>7. \/ capture' = capture
      \/ /\ DOMAIN capture' = Unsaved /\ \A p \in Unsaved : capture'[p] = mem[p]
         /\ \A p \in Unsaved : p \in Points
  BY Zenon, <1>2 DEF Unsaved
<1>8. Types'
  <2>1. DOMAIN capture' \subseteq Points /\ \A p \in DOMAIN capture' : capture'[p] \in Copies
    BY Zenon, <1>1, <1>7 DEF Types
  <2> QED
    BY Zenon, <1>1, <1>2, <1>6, <2>1 DEF Types, Unmoved
<1>9. Locks' /\ Ids' /\ Order' /\ Queued' /\ \A i : Needed(i)' <=> Needed(i)
  BY Zenon, <1>1, <1>2, <1>3, UnmovedFrame
<1>10. Numbers' /\ Bounded'
  <2>1. C - 1 \in Int /\ M \in Int /\ C - 1 <= M
    BY <1>4, <1>5
  <2>2. Known(C - 1)
    BY Zenon, <1>4, <2>1, KnownBelow
  <2>3. \A n : Known(n)' <=> Known(n)
    BY Zenon, <1>2 DEF Known, Unmoved
  <2>4. Known(flusher.confirmed - 1)'
    BY Zenon, <1>2, <1>6, <2>2 DEF Known, Unmoved
  <2> QED
    BY Zenon, <1>1, <1>2, <2>3, <2>4 DEF Numbers, Bounded
<1>11. Ages'
  <2>1. \A p \in Points : mem[p].version <= mem[p].version
    BY <1>1 DEF CopyFacts
  <2> QED
    BY Zenon, <1>1, <1>2, <1>7, <2>1 DEF Ages
<1>12. ASSUME Kept PROVE Kept'
  <2>1. \A q, copy : Whole(q, copy) => Whole(q, copy)'
    BY <1>2, <1>9, Zenon DEF Whole, Waived, Unmoved
  <2>2. Contents'
    BY Zenon, <1>2, <1>7, <1>12, <2>1 DEF Kept, Contents
  <2>3. \A i : OnDisk(i)' <=> OnDisk(i)
    BY <1>2, Zenon DEF OnDisk, Past, Unmoved
  <2>4. ASSUME NEW i \in DOMAIN log, i < C PROVE OnDisk(i)
    <3>1. i \in Nat /\ log[i].on \subseteq Points
      BY <1>1 DEF LogFacts
    <3>2. i < M /\ i \notin failed
      <4>1. failed \subseteq Nat
        BY Zenon, <1>1 DEF Types
      <4> QED
        BY <1>4, <1>5, <2>4, <3>1, <4>1
    <3>3. i \in cut \/ Past(mem, i)
      BY <1>4, <1>12, <3>2, Zenon DEF DoneBefore, Done, InMemory
    <3>4. ASSUME Past(mem, i), NEW p \in log[i].on PROVE disk[p].version >= i
      <4>1. /\ mem[p].version \in Nat /\ disk[p].version \in Nat
            /\ mem[p].version >= i /\ p \in Points
        BY Zenon, <1>1, <3>1, <3>4 DEF CopyFacts, Past
      <4>2. CASE p \in Unsaved
        <5>1. M <= disk[p].version
          BY Zenon, <1>4, <4>2
        <5> QED
          BY <1>4, <3>1, <3>2, <4>1, <5>1
      <4>3. CASE p \notin Unsaved
        <5>1. ~(mem[p].version > disk[p].version)
          BY Zenon, <4>1, <4>3 DEF Unsaved
        <5> QED
          BY <3>1, <4>1, <5>1
      <4> QED
        BY <4>2, <4>3, Zenon
    <3> QED
      BY Zenon, <3>3, <3>4 DEF OnDisk, Past
  <2>5. \A n \in failed \ cut : n >= C
    BY Zenon, <1>1, <1>5 DEF Types
  <2>6. Confirmed'
    BY Zenon, <1>2, <1>6, <1>12, <2>3, <2>4, <2>5 DEF Kept, Confirmed, Unmoved
  <2>7. InTurn' /\ Answered'
    BY Zenon, <1>1, <1>2, <1>8, <1>12, UnmovedKept DEF Kept
  <2> QED
    BY Zenon, <2>2, <2>6, <2>7 DEF Kept
<1> QED
  BY Zenon, <1>2, <1>8, <1>9, <1>10, <1>11, <1>12 DEF QueueInv, Frame, Unmoved

-----------------------------------------------------------------------------
(* The update worker and try_recover apply records.                        *)

LEMMA ApplyStep == QueueInv /\ Apply => QueueInv'
<1> SUFFICES ASSUME QueueInv, Apply PROVE QueueInv'
  BY Zenon
<1>1. /\ Frame /\ Bounded /\ Types /\ Locks /\ Order /\ Queued /\ LogFacts /\ ItemFacts
  BY Zenon, Facts DEF QueueInv, Frame
<1>0. PICK n : n = Item.num
  BY Zenon
<1>2. /\ UNCHANGED <<log, first, synced, wal_lock, queue, client, disk, capture, flusher,
                     recover, applied_seq, mode, load_next, truncating, left, completed, cut,
                     troubled, outrun>>
      /\ worker.stage = "apply" /\ Succeed(n)
      /\ worker' = [worker EXCEPT !.stage = "applied"]
  BY Zenon, <1>0 DEF Apply, logvars, history
<1>3. worker \in [stage : {"idle", "fetch", "sync", "apply", "applied"}, item : QueueItems]
  BY Zenon, <1>1 DEF Types
<1>4. /\ worker' \in [stage : {"idle", "fetch", "sync", "apply", "applied"}, item : QueueItems]
      /\ worker'.item = worker.item /\ worker'.stage = "applied"
  BY Zenon, <1>2, <1>3
<1>5. /\ worker # Resting /\ worker' # Resting /\ Item' = Item /\ mode # "down"
      /\ n \in DOMAIN log
  <2>1. worker # Resting /\ worker' # Resting /\ Item' = Item
    BY <1>2, <1>4 DEF Resting, Item
  <2>2. n > 0 /\ n <= Len(log) /\ n \in Nat
    BY Zenon, <1>0, <1>1, <1>2, <2>1 DEF Queued, Sent, ItemFacts
  <2>3. n \in DOMAIN log
    BY <1>1, <2>2 DEF LogFacts
  <2> QED
    BY Zenon, <1>1, <2>1, <2>3 DEF Locks
<1>6. AppliesAt(n, log[n].on) /\ ClientsStay
  <2>1. ClientsStay
    BY Zenon, <1>1, <1>2 DEF ClientsStay, Types, Locked, Reserved
  <2>2. /\ mem' = Touch(mem, n, log[n].id, log[n].on)
        /\ overwrite' \in {overwrite, n} /\ failed' = failed \ {n}
    BY Zenon, <1>1, <1>2, <1>5, SucceedFacts
  <2> QED
    BY Zenon, <1>2, <1>5, <2>1, <2>2 DEF AppliesAt
<1>7. /\ mem' \in [Points -> Copies] /\ overwrite' \in Nat
      /\ failed' \subseteq Nat \ {0} /\ Ids' /\ Numbers' /\ Ages' /\ Bounded'
  BY Zenon, <1>1, <1>6, AppliesFrame
<1>8. Types'
  BY Zenon, <1>1, <1>2, <1>4, <1>7 DEF Types
<1>9. Locks'
  BY Zenon, <1>1, <1>2, <1>4, <1>5 DEF Locks, Locked, Reserved
<1>10. Order'
  BY Zenon, <1>1, <1>2, <1>5 DEF Order
<1>11. (\E c \in Clients : Locked(c))' <=> \E c \in Clients : Locked(c)
  BY Zenon, <1>2, SameLockers
<1>12. Queued'
  <2>1. \A item : Sent(item)' <=> Sent(item)
    BY Zenon, <1>2, <1>11 DEF Sent
  <2> QED
    BY Zenon, <1>1, <1>2, <1>4, <1>5, <2>1 DEF Queued
<1>13. \A i : Needed(i)' <=> Needed(i)
  BY Zenon, <1>2, <1>5, <1>11 DEF Needed
<1>14. ASSUME Kept PROVE Kept'
  <2>1. InOrder(n)
    BY Zenon, <1>0, <1>1, <1>5, <1>14, WorkerInOrder
  <2>2. /\ Contents' /\ Confirmed' /\ Answered'
        /\ (\A p \in Points : DoneBefore(mem[p].version))'
        /\ DoneBefore(overwrite)' /\ (\A k \in failed : DoneBefore(k))'
    BY Zenon, <1>1, <1>5, <1>6, <1>13, <1>14, <2>1, AppliesKept
  <2>3. /\ \A i \in DOMAIN log : (InMemory(i) => InMemory(i)') /\ (Done(i) => Done(i)')
        /\ InMemory(n)'
    <3>1. failed' = failed \ {n}
      BY Zenon, <1>2 DEF Succeed
    <3> QED
      BY Zenon, <1>1, <1>6, <3>1, AppliesDone
  <2>4. \A i : Ahead(i) => Ahead(i)'
    BY Zenon, <1>2, <1>5 DEF Ahead
  <2>5. InMemory(Item.num)'
    BY Zenon, <1>0, <1>5, <2>3 DEF InMemory, Past
  <2>6. InTurn
    BY Zenon, <1>14 DEF Kept
  <2>7. InTurn'
    BY Zenon, <1>2, <1>5, <1>11, <2>2, <2>3, <2>4, <2>5, <2>6 DEF InTurn
  <2> QED
    BY Zenon, <2>2, <2>7 DEF Kept
<1> QED
  BY Zenon, <1>2, <1>7, <1>8, <1>9, <1>10, <1>12, <1>14 DEF QueueInv, Frame

LEMMA ApplyFailsStep == QueueInv /\ ApplyFails => QueueInv'
<1> SUFFICES ASSUME QueueInv, ApplyFails PROVE QueueInv'
  BY Zenon
<1>0. PICK n : n = Item.num
  BY Zenon
<1>1. Frame /\ Bounded /\ Types /\ Locks /\ Order /\ Queued /\ LogFacts /\ ItemFacts
  BY Zenon, Facts DEF QueueInv, Frame
<1>2. /\ UNCHANGED <<log, first, synced, wal_lock, queue, disk, capture, flusher, recover,
                     applied_seq, mode, load_next, truncating>>
      /\ worker.stage = "apply" /\ Fail(n)
      /\ worker' = Resting /\ Feedback(FALSE)
  BY <1>0, Zenon DEF ApplyFails, logvars
<1>3. ClientsStay /\ UNCHANGED <<left, cut, outrun, completed>>
  BY <1>1, <1>2, FeedbackFacts, Zenon
<1>4. worker # Resting /\ mode # "down" /\ n \in DOMAIN log
  <2>1. worker # Resting
    BY <1>2 DEF Resting
  <2>2. n > 0 /\ n <= Len(log) /\ n \in Nat
    BY <1>0, <1>1, <1>2, <2>1, Zenon DEF Queued, Sent, ItemFacts
  <2>3. n \in DOMAIN log
    BY <1>1, <2>2 DEF LogFacts
  <2> QED
    BY Zenon, <1>1, <2>1, <2>3 DEF Locks
<1>5. PICK done \in SUBSET log[n].on : mem' = Touch(mem, n, log[n].id, done)
  BY <1>1, <1>2, <1>4, FailFacts, Zenon
<1>6. AppliesAt(n, done) /\ failed' = failed \cup {n}
  <2>1. /\ overwrite' = overwrite /\ failed' = failed \cup {n}
        /\ troubled' = troubled \cup {log[n].id}
        /\ \E bad \in log[n].on : mem[bad].version < n
    BY <1>1, <1>2, <1>4, FailFacts, Zenon
  <2> QED
    BY <1>2, <1>3, <1>4, <1>5, <2>1, Zenon DEF AppliesAt
<1>7. /\ mem' \in [Points -> Copies] /\ overwrite' \in Nat /\ troubled' \subseteq Int
      /\ failed' \subseteq Nat \ {0} /\ Ids' /\ Numbers' /\ Ages' /\ Bounded'
  BY <1>1, <1>6, AppliesFrame, Zenon
<1>8. Types'
  <2>1. worker' \in [stage : {"idle", "fetch", "sync", "apply", "applied"}, item : QueueItems]
    BY Zenon, <1>2 DEF Resting, NoItem, QueueItems
  <2> QED
    BY <1>1, <1>2, <1>3, <1>7, <2>1, Zenon DEF Types, ClientsStay
<1>9. Locks' /\ Order' /\ Queued'
  BY Zenon, <1>1, <1>2, <1>3, <1>4, Rests
<1>10. \A i \in DOMAIN log : Needed(i)' => Needed(i)
  BY Zenon, <1>2, <1>3, RestsNeeded
<1>11. ASSUME Kept PROVE Kept'
  <2>1. InOrder(n)
    BY Zenon, <1>0, <1>1, <1>4, <1>11, WorkerInOrder
  <2>2. /\ Contents' /\ Confirmed' /\ Answered'
        /\ (\A p \in Points : DoneBefore(mem[p].version))'
        /\ DoneBefore(overwrite)' /\ (\A k \in failed : DoneBefore(k))'
    BY <1>1, <1>2, <1>6, <1>10, <1>11, <2>1, AppliesKept, Zenon
  <2>3. /\ \A i \in DOMAIN log : (InMemory(i) => InMemory(i)') /\ (Done(i) => Done(i)')
        /\ Done(n)'
    BY <1>1, <1>6, AppliesDone, Zenon
  <2>4. InTurn /\ worker'.stage = "idle"
    BY Zenon, <1>2, <1>11 DEF Kept, Resting
  <2>5. ASSUME NEW i \in DOMAIN log
        PROVE  (\/ Done(i)
                \/ Ahead(i)
                \/ mode = "loading" /\ i >= load_next
                \/ i = Len(log) /\ \E c \in Clients : Locked(c))'
    <3>1. Ahead(i) => Ahead(i)' \/ i = n
      BY <1>0, <1>2, Zenon DEF Ahead
    <3> QED
      BY <1>2, <1>3, <1>4, <2>3, <2>4, <3>1, Zenon DEF InTurn, ClientsStay
  <2>6. InTurn'
    BY <1>2, <1>4, <2>2, <2>3, <2>4, <2>5, Zenon DEF InTurn
  <2> QED
    BY Zenon, <2>2, <2>6 DEF Kept
<1> QED
  BY Zenon, <1>3, <1>7, <1>8, <1>9, <1>11 DEF QueueInv, Frame

LEMMA CompleteStep == QueueInv /\ Complete => QueueInv'
<1> SUFFICES ASSUME QueueInv, Complete PROVE QueueInv'
  BY Zenon
<1>0. PICK n : n = Item.num
  BY Zenon
<1>1. /\ Types /\ Locks /\ Ids /\ Order /\ Queued /\ Numbers /\ Ages /\ Bounded
      /\ LogFacts /\ ItemFacts
  BY Zenon, Facts DEF QueueInv, Frame
<1>2. /\ UNCHANGED <<log, first, synced, wal_lock, queue, mem, disk, capture, overwrite,
                     failed, flusher, recover, mode, load_next, truncating, troubled>>
      /\ worker.stage = "applied" /\ applied_seq' = NoteApplied(n)
      /\ worker' = Resting /\ Feedback(TRUE)
  BY <1>0, Zenon DEF Complete, logvars, segvars
<1>3. /\ ClientsStay /\ UNCHANGED <<left, cut, outrun>>
      /\ \/ completed' = completed
         \/ Item.client # NoClient /\ completed' = completed \cup {log[n].id}
  BY <1>0, <1>1, <1>2, FeedbackFacts, Zenon
<1>4. /\ worker # Resting /\ mode # "down" /\ n \in DOMAIN log /\ n \in Nat
      /\ Item.client # NoClient => n <= synced /\ \A k \in DOMAIN queue : n < queue[k].num
      /\ mode = "loading" => n < load_next
  <2>1. worker # Resting
    BY <1>2 DEF Resting
  <2>2. n > 0 /\ n <= Len(log) /\ n \in Nat
    BY <1>0, <1>1, <1>2, <2>1, Zenon DEF Queued, Sent, ItemFacts
  <2>3. n \in DOMAIN log
    BY <1>1, <2>2 DEF LogFacts
  <2>4. Item.client # NoClient => n <= synced /\ \A k \in DOMAIN queue : n < queue[k].num
    BY <1>0, <1>1, <1>2, <2>1, Zenon DEF Queued, Order
  <2>5. mode = "loading" => n < load_next
    BY <1>0, <1>1, <2>1, Zenon DEF Queued, Sent
  <2> QED
    BY Zenon, <1>1, <2>1, <2>2, <2>3, <2>4, <2>5 DEF Locks
<1>5. log[n].id \in Int /\ (log[n].id < 0 \/ log[n].id > left)
  BY Zenon, <1>1, <1>4 DEF Ids, LogFacts
<1>6. Types'
  <2>1. worker' \in [stage : {"idle", "fetch", "sync", "apply", "applied"}, item : QueueItems]
    BY Zenon, <1>2 DEF Resting, NoItem, QueueItems
  <2>2. applied_seq' \in [mem : Nat, file : Nat, count : Nat]
    <3>1. applied_seq \in [mem : Nat, file : Nat, count : Nat]
      BY Zenon, <1>1 DEF Types
    <3>2. PICK f \in {n, applied_seq.file} :
            applied_seq' = [mem |-> n, count |-> applied_seq.count + 1, file |-> f]
      BY Zenon, <1>2 DEF NoteApplied
    <3>3. f \in Nat /\ applied_seq.count + 1 \in Nat
      BY <1>4, <3>1, <3>2
    <3> QED
      BY <1>4, <3>2, <3>3, Zenon
  <2>3. completed' \subseteq Int
    BY <1>1, <1>3, <1>5, Zenon DEF Types
  <2> QED
    BY <1>1, <1>2, <1>3, <2>1, <2>2, <2>3, Zenon DEF Types, ClientsStay
<1>7. Locks' /\ Order' /\ Queued'
  BY Zenon, <1>1, <1>2, <1>3, <1>4, Rests
<1>8. Ids'
  <2>1. \A id \in completed' : id \in completed \/ id = log[n].id
    BY Zenon, <1>3
  <2> QED
    BY <1>1, <1>2, <1>3, <1>5, <2>1, Zenon DEF Ids
<1>9. Numbers' /\ Ages' /\ Bounded'
  BY <1>1, <1>2, <1>3, Zenon DEF Numbers, Known, Ages, Bounded
<1>10. ASSUME NEW i \in DOMAIN log, Needed(i)' PROVE Needed(i)
  <2>1. Item'.client = NoClient
    BY Zenon, <1>2 DEF Item, Resting, NoItem
  <2>2. ASSUME log[i].id \in completed', log[i].id \notin completed
        PROVE  Item.client # NoClient /\ Item.num = i
    <3>1. Item.client # NoClient /\ log[i].id = log[n].id
      BY Zenon, <1>3, <2>2
    <3> QED
      BY Zenon, <1>0, <1>1, <1>4, <3>1 DEF Ids
  <2> QED
    BY <1>2, <1>3, <1>10, <2>1, <2>2, Zenon DEF Needed, ClientsStay
<1>11. ASSUME Kept PROVE Kept'
  <2>1. InTurn /\ Answered /\ Contents /\ Confirmed
    BY Zenon, <1>11 DEF Kept
  <2>2. InMemory(n)
    BY <1>0, <1>2, <1>4, <2>1, Zenon DEF InTurn
  <2>3. Contents'
    BY Zenon, <1>2, <1>3, <1>10, <2>1, SameContents
  <2>4. Confirmed'
    BY <1>2, <1>3, <2>1, Zenon DEF Confirmed, OnDisk, Past
  <2>5. InTurn'
    <3>1. Done(Item.num)
      BY Zenon, <1>0, <2>2 DEF Done
    <3> QED
      BY Zenon, <1>2, <1>3, <2>1, <3>1, RestsInTurn
  <2>6. Answered'
    <3>1. \A i : InMemory(i)' <=> InMemory(i)
      BY Zenon, <1>2, <1>3 DEF InMemory, Past
    <3> SUFFICES ASSUME NEW id \in completed'
                 PROVE  (\E i \in DOMAIN log :
                          /\ log[i].id = id /\ i <= synced
                          /\ mode # "down" => InMemory(i)
                          /\ \A k \in DOMAIN queue : i < queue[k].num
                          /\ worker # Resting => i < Item.num
                          /\ mode = "loading" => i < load_next)'
      BY Zenon DEF Answered
    <3>2. CASE id \in completed
      <4>1. PICK i \in DOMAIN log :
              /\ log[i].id = id /\ i <= synced
              /\ mode # "down" => InMemory(i)
              /\ \A k \in DOMAIN queue : i < queue[k].num
              /\ mode = "loading" => i < load_next
        BY <2>1, <3>2, Zenon DEF Answered
      <4> QED
        BY <1>2, <3>1, <4>1, Zenon
    <3>3. CASE id \notin completed
      <4>1. id = log[n].id /\ Item.client # NoClient
        BY Zenon, <1>3, <3>3
      <4> QED
        BY <1>2, <1>4, <2>2, <3>1, <4>1, Zenon
    <3> QED
      BY Zenon, <3>2, <3>3
  <2> QED
    BY Zenon, <2>3, <2>4, <2>5, <2>6 DEF Kept
<1> QED
  BY Zenon, <1>3, <1>6, <1>7, <1>8, <1>9, <1>11 DEF QueueInv, Frame

LEMMA RecoverStepStep == QueueInv /\ RecoverStep => QueueInv'
<1> SUFFICES ASSUME QueueInv, RecoverStep PROVE QueueInv'
  BY Zenon
<1>0. PICK n : n = recover
  BY Zenon
<1>1. Frame /\ Bounded /\ Types /\ Locks /\ Ids /\ Order /\ Queued /\ LogFacts /\ ItemFacts
  BY Zenon, Facts DEF QueueInv, Frame
<1>2. /\ UNCHANGED <<log, first, synced, queue, client, worker, disk, capture, flusher,
                     applied_seq, mode, load_next, truncating, left, completed, cut, outrun>>
      /\ wal_lock = "recover" /\ recover <= Len(log)
  BY Zenon DEF RecoverStep, logvars
<1>3. mode = "running" /\ n \in Nat \ {0} /\ n \in DOMAIN log
  <2>1. mode = "running" /\ n \in Nat /\ n # 0 /\ n <= Len(log)
    BY Zenon, <1>0, <1>1, <1>2 DEF Locks, Types
  <2> QED
    BY <1>1, <2>1 DEF LogFacts
<1>4. ClientsStay /\ \A e \in Clients : ~Locked(e) /\ ~Locked(e)'
  <2>1. \A e \in Clients : ~Locked(e)
    BY Zenon, <1>1, <1>2, QueueAssumption DEF Locks
  <2> QED
    BY Zenon, <1>1, <1>2, <2>1 DEF ClientsStay, Types, Locked, Reserved
<1>5. ASSUME recover' \in Nat, (recover' # 0) <=> (wal_lock' = "recover")
      PROVE  Locks'
  BY <1>1, <1>2, <1>3, <1>4, <1>5, Zenon DEF Locks, Reserved
<1>6. Order' /\ Queued'
  <2>1. \A item : Sent(item)' <=> Sent(item)
    BY Zenon, <1>2, <1>4 DEF Sent
  <2> QED
    BY <1>1, <1>2, <2>1, Zenon DEF Order, Queued, Item
<1>7. \A i : Needed(i)' <=> Needed(i)
  BY Zenon, <1>2, <1>4 DEF Needed, Item
<1>8. Kept => InOrder(n)
  BY Zenon, <1>0, <1>3 DEF Kept, InTurn, InOrder
<1>9. ASSUME NEW done, AppliesAt(n, done), recover' \in Nat,
             (recover' # 0) <=> (wal_lock' = "recover"),
             \/ recover' = 0
             \/ recover' = n + 1 /\ failed' = failed \ {n}
      PROVE  QueueInv'
  <2>1. /\ mem' \in [Points -> Copies] /\ overwrite' \in Nat /\ troubled' \subseteq Int
        /\ failed' \subseteq Nat \ {0} /\ Ids' /\ Numbers' /\ Ages' /\ Bounded'
    BY Zenon, <1>1, <1>9, AppliesFrame
  <2>2. Types'
    BY Zenon, <1>1, <1>2, <1>9, <2>1 DEF Types
  <2>3. Locks'
    BY Zenon, <1>5, <1>9
  <2>4. ASSUME Kept PROVE Kept'
    <3>1. InOrder(n) /\ InTurn
      BY Zenon, <1>8, <2>4 DEF Kept
    <3>2. /\ Contents' /\ Confirmed' /\ Answered'
          /\ (\A p \in Points : DoneBefore(mem[p].version))'
          /\ DoneBefore(overwrite)' /\ (\A k \in failed : DoneBefore(k))'
      <4>1. worker' # Resting => worker # Resting /\ Item' = Item
        BY Zenon, <1>2 DEF Item
      <4> QED
        BY <1>1, <1>7, <1>9, <2>4, <3>1, <4>1, AppliesKept, Zenon
    <3>3. /\ \A i \in DOMAIN log : (InMemory(i) => InMemory(i)') /\ (Done(i) => Done(i)')
          /\ failed' = failed \ {n} => InMemory(n)'
      BY Zenon, <1>1, <1>9, AppliesDone
    <3>4. \A i : Ahead(i) => Ahead(i)'
      BY Zenon, <1>2 DEF Ahead, Item
    <3>5. ASSUME NEW i \in DOMAIN log, i < recover' PROVE InMemory(i)'
      <4>1. i \in Nat /\ recover' # 0
        BY <1>1, <3>5 DEF LogFacts
      <4>2. recover' = n + 1 /\ failed' = failed \ {n}
        BY Zenon, <1>9, <4>1
      <4>3. i < n \/ i = n
        BY <1>3, <3>5, <4>1, <4>2
      <4>4. i < n => InMemory(i)
        BY Zenon, <1>0, <1>3, <3>1 DEF InTurn
      <4> QED
        BY Zenon, <3>3, <4>2, <4>3, <4>4
    <3>6. worker.stage = "applied" => InMemory(Item.num)'
      <4>1. PICK m : m = Item.num
        BY Zenon
      <4>2. ASSUME worker.stage = "applied" PROVE m \in DOMAIN log
        <5>1. m > 0 /\ m <= Len(log) /\ m \in Nat
          BY <1>1, <4>1, <4>2 DEF Queued, Sent, ItemFacts, Resting
        <5> QED
          BY <1>1, <5>1 DEF LogFacts
      <4>3. worker.stage = "applied" => InMemory(m)
        BY Zenon, <1>3, <3>1, <4>1 DEF InTurn
      <4>4. worker.stage = "applied" => InMemory(m)'
        BY Zenon, <3>3, <4>2, <4>3
      <4> QED
        BY Zenon, <1>2, <4>1, <4>4 DEF InMemory, Past, Item
    <3>7. InTurn'
      BY <1>2, <1>3, <1>4, <3>1, <3>2, <3>3, <3>4, <3>5, <3>6, Zenon DEF InTurn
    <3> QED
      BY Zenon, <3>2, <3>7 DEF Kept
  <2> QED
    BY Zenon, <1>2, <1>6, <2>1, <2>2, <2>3, <2>4 DEF QueueInv, Frame
<1>10. CASE Succeed(n) /\ recover' = n + 1 /\ UNCHANGED <<wal_lock, troubled>>
  <2>1. /\ mem' = Touch(mem, n, log[n].id, log[n].on)
        /\ overwrite' \in {overwrite, n} /\ failed' = failed \ {n}
    BY Zenon, <1>1, <1>3, <1>10, SucceedFacts
  <2>2. AppliesAt(n, log[n].on)
    BY <1>2, <1>3, <1>4, <1>10, <2>1, Zenon DEF AppliesAt
  <2>3. recover' \in Nat /\ recover' # 0
    BY <1>3, <1>10
  <2> QED
    BY Zenon, <1>2, <1>9, <1>10, <2>1, <2>2, <2>3
<1>11. CASE Fail(n) /\ recover' = 0 /\ wal_lock' = "free"
  <2>1. PICK done \in SUBSET log[n].on : mem' = Touch(mem, n, log[n].id, done)
    BY <1>1, <1>3, <1>11, FailFacts, Zenon
  <2>2. /\ overwrite' = overwrite /\ failed' = failed \cup {n}
        /\ troubled' = troubled \cup {log[n].id}
        /\ \E bad \in log[n].on : mem[bad].version < n
    BY Zenon, <1>1, <1>3, <1>11, FailFacts
  <2>3. AppliesAt(n, done)
    BY <1>2, <1>3, <1>4, <2>1, <2>2, Zenon DEF AppliesAt
  <2> QED
    BY Zenon, <1>9, <1>11, <2>3
<1>12. CASE /\ recover' = 0 /\ wal_lock' = "free"
            /\ UNCHANGED <<mem, overwrite, failed, error_status, faults, troubled>>
  <2>1. Types'
    BY Zenon, <1>1, <1>2, <1>12 DEF Types
  <2>2. Locks'
    BY Zenon, <1>5, <1>12
  <2>3. SameWork /\ synced <= synced'
    BY <1>1, <1>2 DEF SameWork, Item, Types
  <2>4. \A i \in DOMAIN log : ~(i < recover')
    BY <1>1, <1>12 DEF LogFacts
  <2> QED
    BY Zenon, <1>2, <1>6, <1>12, <2>1, <2>2, <2>3, <2>4, Aside
<1> QED
  BY Zenon, <1>0, <1>10, <1>11, <1>12 DEF RecoverStep

-----------------------------------------------------------------------------
(* A record is written.  Its number may have been used before.             *)

LEMMA WriteRecordStep ==
    ASSUME NEW c \in Clients PROVE QueueInv /\ WriteRecord(c) => QueueInv'
<1> SUFFICES ASSUME QueueInv, WriteRecord(c) PROVE QueueInv'
  BY Zenon
<1>1. /\ Types /\ Locks /\ Ids /\ Order /\ Queued /\ Numbers /\ Ages /\ Bounded
      /\ LogFacts /\ ItemFacts /\ CopyFacts
  BY Zenon, Facts DEF QueueInv, Frame
<1>2. PICK on \in Targets : log' = Append(log, [id |-> left, on |-> on])
  BY Zenon DEF WriteRecord
<1>3. /\ UNCHANGED <<first, synced, queue, worker, mem, disk, capture, overwrite, failed,
                     flusher, recover, applied_seq, mode, load_next, truncating, completed,
                     cut, troubled, outrun>>
      /\ client[c].phase = "reserved" /\ wal_lock = "free" /\ wal_lock' = c
      /\ left > 0 /\ left' = left - 1
      /\ client' = [client EXCEPT ![c] = [phase |-> "locked", ram |-> @.ram, id |-> left]]
  BY Zenon DEF WriteRecord, segvars
<1>4. PICK N : N = Len(log) + 1
  BY Zenon
<1>5. left \in Nat /\ N \in Nat \ {0} /\ Len(log) = N - 1 /\ on \subseteq Points
  BY <1>1, <1>4, QueueAssumption DEF Types, LogFacts
<1>6. /\ log' \in Seq(Records) /\ Len(log') = N /\ DOMAIN log' = 1 .. N
      /\ \A i \in DOMAIN log : log'[i] = log[i]
      /\ log'[N] = [id |-> left, on |-> on]
  <2>1. log \in Seq(Records)
    BY Zenon, <1>1 DEF Types
  <2>2. [id |-> left, on |-> on] \in Records
    BY <1>5 DEF Records
  <2> QED
    BY <1>2, <1>4, <2>1, <2>2
<1>7. /\ \A i \in DOMAIN log' : i \in DOMAIN log \/ i = N
      /\ DOMAIN log \subseteq DOMAIN log' /\ N \notin DOMAIN log
      /\ \A i \in DOMAIN log : i < N
  BY <1>1, <1>5, <1>6 DEF LogFacts
<1>8. /\ client' \in [Clients -> [phase : Phases, ram : BOOLEAN, id : Int]]
      /\ client'[c].phase = "locked" /\ client'[c].id = left
      /\ \A e \in Clients \ {c} : client'[e] = client[e]
  <2>1. client \in [Clients -> [phase : Phases, ram : BOOLEAN, id : Int]]
    BY Zenon, <1>1 DEF Types
  <2> DEFINE ram == client[c].ram
             r == [phase |-> "locked", ram |-> ram, id |-> left]
  <2>2. client[c] \in [phase : Phases, ram : BOOLEAN, id : Int]
    BY Zenon, <2>1
  <2>3. /\ r \in [phase : Phases, ram : BOOLEAN, id : Int]
        /\ r.phase = "locked" /\ r.id = left
    <3>1. ram \in BOOLEAN /\ left \in Int
      BY <1>5, <2>2
    <3> HIDE DEF ram
    <3>2. CASE ram = TRUE
      BY Zenon, <3>1, <3>2 DEF Phases
    <3>3. CASE ram = FALSE
      BY Zenon, <3>1, <3>3 DEF Phases
    <3> QED
      BY <3>1, <3>2, <3>3, Zenon
  <2>4. client' = [client EXCEPT ![c] = r]
    BY Zenon, <1>3
  <2> HIDE DEF r
  <2> QED
    BY Zenon, <2>1, <2>3, <2>4
<1>9. /\ \A e \in Clients : ~Locked(e)
      /\ \A e \in Clients : Locked(e)' <=> e = c
  <2>1. \A e \in Clients : ~Locked(e)
    BY Zenon, <1>1, <1>3, QueueAssumption DEF Locks
  <2> QED
    BY Zenon, <1>8, <2>1 DEF Locked
<1>10. mode = "running" /\ ~truncating /\ recover = 0
  <2>1. c \in Reserved
    BY Zenon, <1>3 DEF Reserved
  <2> QED
    BY Zenon, <1>1, <1>3, <2>1 DEF Locks
<1>11. Types'
  <2>1. synced \in 0 .. N
    BY <1>1, <1>5 DEF Types
  <2>2. left' \in Nat
    BY <1>3, <1>5
  <2> QED
    BY <1>1, <1>3, <1>6, <1>8, <2>1, <2>2, Zenon DEF Types
<1>12. Locks'
  <2>1. synced < N
    BY <1>1, <1>5 DEF Types
  <2>2. log' # <<>> /\ log'[Len(log')].id = left
    BY <1>5, <1>6
  <2>3. wal_lock' # "recover"
    BY Zenon, <1>3, QueueAssumption
  <2> QED
    BY <1>1, <1>3, <1>6, <1>8, <1>9, <1>10, <2>1, <2>2, <2>3, Zenon DEF Locks
<1>13. Ids'
  <2>1. \A i \in DOMAIN log : log[i].id \in Int /\ (log[i].id < 0 \/ log[i].id > left)
    BY <1>1, Zenon DEF Ids, LogFacts
  <2>2. \A i \in DOMAIN log : log[i].id # left /\ (log[i].id < 0 \/ log[i].id > left')
    BY <1>3, <1>5, <2>1
  <2>3. left > left'
    BY <1>3, <1>5
  <2>4. ASSUME NEW id \in troubled \cup completed PROVE id < 0 \/ id > left'
    <3>1. id \in Int /\ (id < 0 \/ id > left)
      BY Zenon, <1>1 DEF Ids, Types
    <3> QED
      BY <1>3, <1>5, <3>1
  <2>5. \A i \in DOMAIN log' : log'[i].id < 0 \/ log'[i].id > left'
    BY <1>6, <1>7, <2>2, <2>3
  <2>6. \A i, j \in DOMAIN log' : log'[i].id = log'[j].id => i = j
    <3> SUFFICES ASSUME NEW i \in DOMAIN log', NEW j \in DOMAIN log', log'[i].id = log'[j].id
                 PROVE  i = j
      BY Zenon
    <3>1. CASE i \in DOMAIN log /\ j \in DOMAIN log
      BY Zenon, <1>1, <1>6, <3>1 DEF Ids
    <3>2. CASE i = N /\ j \in DOMAIN log
      BY <1>6, <2>2, <3>2
    <3>3. CASE i \in DOMAIN log /\ j = N
      BY <1>6, <2>2, <3>3
    <3> QED
      BY Zenon, <1>7, <3>1, <3>2, <3>3
  <2> QED
    BY Zenon, <1>3, <2>4, <2>5, <2>6 DEF Ids
<1>14. Order'
  BY Zenon, <1>1, <1>3 DEF Order, Item
<1>15. Queued'
  <2>1. ASSUME NEW e, e.num \in Nat, Sent(e) PROVE Sent(e)'
    <3>1. /\ e.num > 0 /\ e.num <= N
          /\ e.ram \/ e.client # NoClient => e.num <= N - 1
      BY <1>5, <2>1 DEF Sent
    <3>2. /\ e.num <= N + 1
          /\ e.client # NoClient => e.num < N
      BY <1>5, <2>1, <3>1
    <3> QED
      BY Zenon, <1>3, <1>6, <1>10, <3>1, <3>2 DEF Sent
  <2>2. \A k \in DOMAIN queue : Sent(queue[k])'
    BY Zenon, <1>1, <1>3, <2>1 DEF Queued, ItemFacts
  <2>3. worker # Resting => Sent(Item)'
    BY Zenon, <1>1, <1>3, <2>1 DEF Queued, ItemFacts, Item
  <2>4. worker.stage \in {"sync", "apply", "applied"} => Item.num <= N
    BY <1>1, <1>5 DEF Queued, ItemFacts
  <2> QED
    BY Zenon, <1>1, <1>3, <1>6, <1>10, <2>2, <2>3, <2>4 DEF Queued, Item
<1>16. \A n : Known(n) => Known(n)'
  BY <1>3, <1>5, <1>6 DEF Known
<1>17. Numbers' /\ Ages' /\ Bounded'
  <2>1. Numbers'
    BY Zenon, <1>1, <1>3, <1>16 DEF Numbers
  <2>2. Ages' /\ Bounded'
    BY Zenon, <1>1, <1>3 DEF Ages, Bounded
  <2> QED
    BY Zenon, <2>1, <2>2
<1>18. ASSUME NEW n \in Nat, Known(n), N <= n PROVE N \in cut
  <2>1. N \in 1 .. n /\ ~(N <= Len(log))
    BY <1>5, <1>18
  <2> QED
    BY Zenon, <1>18, <2>1 DEF Known
<1>19. ASSUME NEW i \in DOMAIN log, Needed(i)' PROVE Needed(i)
  <2>1. i # N
    BY Zenon, <1>7
  <2> QED
    BY Zenon, <1>3, <1>6, <1>19, <2>1 DEF Needed, Item
<1>20. ASSUME Kept PROVE Kept'
  <2>1. Contents /\ Confirmed /\ InTurn /\ Answered
    BY Zenon, <1>20 DEF Kept
  <2>2. /\ \A i \in DOMAIN log : InMemory(i)' <=> InMemory(i)
        /\ \A i \in DOMAIN log : OnDisk(i)' <=> OnDisk(i)
        /\ \A i \in DOMAIN log : Done(i)' <=> Done(i)
        /\ \A i \in DOMAIN log : Waived(i) => Waived(i)'
    BY Zenon, <1>3, <1>6, <1>19 DEF InMemory, OnDisk, Done, Past, Waived
  <2>3. N \in cut => InMemory(N)' /\ OnDisk(N)' /\ Done(N)' /\ Waived(N)'
    BY Zenon, <1>3 DEF InMemory, OnDisk, Done, Waived
  <2>4. ASSUME NEW p, NEW copy, Whole(p, copy), copy.version \in Nat,
               N <= copy.version => N \in cut
        PROVE  Whole(p, copy)'
    BY <1>6, <1>7, <2>2, <2>3, <2>4, Zenon DEF Whole
  <2>5. ASSUME NEW p \in Points, NEW v \in Nat, v <= mem[p].version
        PROVE  N <= v => N \in cut
    <3>1. mem[p].version \in Nat /\ Known(mem[p].version)
      BY Zenon, <1>1 DEF CopyFacts, Numbers
    <3> QED
      BY <1>5, <1>18, <2>5, <3>1
  <2>6. Contents'
    <3>1. \A p \in Points : mem[p].version <= mem[p].version
      BY <1>1 DEF CopyFacts
    <3>2. \A p \in Points : Whole(p, mem[p])'
      BY Zenon, <1>1, <1>3, <2>1, <2>4, <2>5, <3>1 DEF Contents, CopyFacts
    <3>3. \A p \in Points : Whole(p, disk[p])'
      BY Zenon, <1>1, <1>3, <2>1, <2>4, <2>5 DEF Contents, CopyFacts, Ages
    <3>4. \A p \in DOMAIN capture : Whole(p, capture[p])'
      BY Zenon, <1>1, <1>3, <2>1, <2>4, <2>5 DEF Contents, CopyFacts, Ages
    <3> QED
      BY Zenon, <1>3, <3>2, <3>3, <3>4 DEF Contents
  <2>7. ASSUME NEW n \in Nat, Known(n - 1), N < n PROVE N \in cut
    <3>1. n - 1 \in Nat /\ N <= n - 1
      BY <1>5, <2>7
    <3> QED
      BY Zenon, <1>18, <2>7, <3>1
  <2>8. Confirmed'
    <3>1. first \in Nat /\ flusher.confirmed \in Nat
      BY Zenon, <1>1 DEF Types
    <3>2. N < first => N \in cut
      BY Zenon, <1>1, <2>7, <3>1 DEF Numbers
    <3>3. N < flusher.confirmed => N \in cut
      BY Zenon, <1>1, <2>7, <3>1 DEF Numbers
    <3>4. \A i \in DOMAIN log' : i < first => OnDisk(i)'
      BY Zenon, <1>7, <2>1, <2>2, <2>3, <3>2 DEF Confirmed
    <3>5. flusher.stage = "ack" => \A i \in DOMAIN log' : i < flusher.confirmed => OnDisk(i)'
      BY Zenon, <1>7, <2>1, <2>2, <2>3, <3>3 DEF Confirmed
    <3>6. ASSUME NEW n \in failed \ cut
          PROVE  n <= N /\ log'[n].id \in troubled
      <4>1. n <= Len(log) /\ log[n].id \in troubled /\ n \in Nat \ {0}
        BY Zenon, <1>1, <2>1 DEF Confirmed, Types
      <4>2. n \in DOMAIN log /\ n <= N
        BY <1>1, <1>5, <4>1 DEF LogFacts
      <4> QED
        BY <1>6, <4>1, <4>2, Zenon
    <3> QED
      BY Zenon, <1>3, <1>6, <2>1, <3>4, <3>5, <3>6 DEF Confirmed
  <2>9. ASSUME NEW n \in Nat, Known(n), DoneBefore(n) PROVE DoneBefore(n)'
    <3>1. N < n => N \in cut
      BY <1>5, <1>18, <2>9
    <3> QED
      BY Zenon, <1>7, <2>2, <2>3, <2>9, <3>1 DEF DoneBefore
  <2>10. InTurn'
    <3>1. \A p \in Points : DoneBefore(mem[p].version)'
      BY Zenon, <1>1, <1>3, <1>10, <2>1, <2>9 DEF InTurn, CopyFacts, Numbers
    <3>2. DoneBefore(overwrite)'
      BY <1>1, <1>3, <1>10, <2>1, <2>9, Zenon DEF InTurn, Types, Numbers
    <3>3. \A n \in failed : DoneBefore(n)'
      BY <1>1, <1>3, <1>10, <2>1, <2>9, Zenon DEF InTurn, Types, Numbers
    <3>4. \A i \in DOMAIN log' : ~(i < recover')
      BY <1>3, <1>5, <1>6, <1>10
    <3>5. worker.stage = "applied" => InMemory(Item.num)'
      <4>1. PICK m : m = Item.num
        BY Zenon
      <4>2. ASSUME worker.stage = "applied" PROVE m \in DOMAIN log
        <5>1. m > 0 /\ m <= Len(log) /\ m \in Nat
          BY <1>1, <4>1, <4>2 DEF Queued, Sent, ItemFacts, Resting
        <5> QED
          BY <1>1, <5>1 DEF LogFacts
      <4>3. worker.stage = "applied" => InMemory(m)'
        BY Zenon, <1>10, <2>1, <2>2, <4>1, <4>2 DEF InTurn
      <4> QED
        BY Zenon, <1>3, <4>1, <4>3 DEF InMemory, Past, Item
    <3>6. \A i : Ahead(i)' <=> Ahead(i)
      BY Zenon, <1>3 DEF Ahead, Item
    <3>7. \A i \in DOMAIN log : Done(i)' \/ Ahead(i)'
      BY Zenon, <1>9, <1>10, <2>1, <2>2, <3>6 DEF InTurn
    <3>8. N = Len(log') /\ \E e \in Clients : Locked(e)'
      BY Zenon, <1>6, <1>9
    <3> QED
      BY Zenon, <1>3, <1>7, <3>1, <3>2, <3>3, <3>4, <3>5, <3>7, <3>8 DEF InTurn
  <2>11. Answered'
    <3> SUFFICES ASSUME NEW id \in completed
                 PROVE  (\E i \in DOMAIN log :
                          /\ log[i].id = id /\ i <= synced
                          /\ mode # "down" => InMemory(i)
                          /\ \A k \in DOMAIN queue : i < queue[k].num
                          /\ worker # Resting => i < Item.num
                          /\ mode = "loading" => i < load_next)'
      BY Zenon, <1>3 DEF Answered
    <3>1. PICK i \in DOMAIN log :
          /\ log[i].id = id /\ i <= synced
          /\ mode # "down" => InMemory(i)
          /\ \A k \in DOMAIN queue : i < queue[k].num
          /\ worker # Resting => i < Item.num
          /\ mode = "loading" => i < load_next
      BY <2>1, Zenon DEF Answered
    <3> QED
      BY Zenon, <1>3, <1>6, <1>7, <2>2, <3>1 DEF Item
  <2> QED
    BY Zenon, <2>6, <2>8, <2>10, <2>11 DEF Kept
<1> QED
  BY Zenon, <1>3, <1>11, <1>12, <1>13, <1>14, <1>15, <1>17, <1>20 DEF QueueInv, Frame

-----------------------------------------------------------------------------
(* The log gets shorter.                                                   *)

LEMMA Shortened ==
    ASSUME NEW K
    PROVE  /\ Types /\ Ids /\ K \in 0 .. Len(log) /\ log' = SubSeq(log, 1, K)
           /\ cut' = cut \cup (K + 1) .. Len(log) /\ UNCHANGED <<left, completed, troubled>>
           => /\ log' \in Seq(Records) /\ Len(log') = K /\ DOMAIN log' = 1 .. K
              /\ \A i \in DOMAIN log' : i \in DOMAIN log /\ log'[i] = log[i]
              /\ \A i \in DOMAIN log : i \in DOMAIN log' \/ i \in cut'
              /\ \A n \in Int : Known(n) => Known(n)'
              /\ Ids'
<1> SUFFICES ASSUME Types, Ids, K \in 0 .. Len(log), log' = SubSeq(log, 1, K),
                    cut' = cut \cup (K + 1) .. Len(log), UNCHANGED <<left, completed, troubled>>
             PROVE  /\ log' \in Seq(Records) /\ Len(log') = K /\ DOMAIN log' = 1 .. K
                    /\ \A i \in DOMAIN log' : i \in DOMAIN log /\ log'[i] = log[i]
                    /\ \A i \in DOMAIN log : i \in DOMAIN log' \/ i \in cut'
                    /\ \A n \in Int : Known(n) => Known(n)'
                    /\ Ids'
  BY Zenon
<1>1. LogFacts /\ log \in Seq(Records) /\ Len(log) \in Nat /\ K \in Nat /\ K <= Len(log)
  BY Facts DEF Types, LogFacts
<1>2. /\ log' \in Seq(Records) /\ Len(log') = K /\ DOMAIN log' = 1 .. K
      /\ \A i \in 1 .. K : log'[i] = log[i]
  <2>1. \A i \in 1 .. K : i \in 1 .. Len(log) /\ log[i] \in Records
    BY <1>1
  <2>2. SubSeq(log, 1, K) = [i \in 1 .. K |-> log[i]]
    BY <1>1 DEF SubSeq
  <2>3. log' = [i \in 1 .. K |-> log[i]]
    BY Zenon, <2>2
  <2> QED
    BY <1>1, <2>1, <2>3
<1>3. \A i \in DOMAIN log' : i \in DOMAIN log /\ log'[i] = log[i]
  BY <1>1, <1>2 DEF LogFacts
<1>4. \A i \in DOMAIN log : i \in DOMAIN log' \/ i \in cut'
  BY <1>1, <1>2 DEF LogFacts
<1>5. ASSUME NEW n \in Int, Known(n) PROVE Known(n)'
  <2> SUFFICES ASSUME NEW i \in 1 .. n PROVE i <= K \/ i \in cut'
    BY Zenon, <1>2 DEF Known
  <2>1. i <= Len(log) \/ i \in cut
    BY Zenon, <1>5 DEF Known
  <2>2. i \in Int
    OBVIOUS
  <2>3. i <= Len(log) => i <= K \/ i \in (K + 1) .. Len(log)
    BY <1>1, <2>2
  <2> QED
    BY Zenon, <2>1, <2>3
<1>6. Ids'
  BY <1>3 DEF Ids
<1> QED
  BY Zenon, <1>2, <1>3, <1>4, <1>5, <1>6

LEMMA DropFromStep == QueueInv /\ DropFrom => QueueInv'
<1> SUFFICES ASSUME QueueInv, DropFrom PROVE QueueInv'
  BY Zenon
<1>0. PICK K : K = CutFrom - 1
  BY Zenon
<1>1. /\ Types /\ Locks /\ Ids /\ Order /\ Queued /\ Numbers /\ Ages /\ Bounded
      /\ LogFacts /\ ItemFacts /\ CopyFacts
  BY Zenon, Facts DEF QueueInv, Frame
<1>2. /\ UNCHANGED <<first, wal_lock, worker, mem, disk, capture, overwrite, failed, flusher,
                     recover, applied_seq, mode, load_next, left, completed, troubled, outrun>>
      /\ truncating /\ wal_lock = "free" /\ worker.stage = "idle" /\ flusher.stage = "idle"
      /\ log' = SubSeq(log, 1, K) /\ synced' = IF queue = <<>> THEN synced ELSE Len(log')
      /\ queue' = <<>> /\ client' = [c \in Clients |-> Idle] /\ truncating' = FALSE
  BY Zenon, <1>0 DEF DropFrom, segvars
<1>3. /\ K \in 0 .. Len(log) /\ (queue = <<>> => K = Len(log)) /\ CutFrom \in Int
      /\ \A k \in DOMAIN queue : K < queue[k].num
  <2>1. CASE queue = <<>>
    BY <1>0, <1>1, <2>1 DEF CutFrom, LogFacts
  <2>2. CASE queue # <<>>
    <3>1. 1 \in DOMAIN queue /\ Head(queue) = queue[1]
      <4>1. queue \in Seq(QueueItems)
        BY Zenon, <1>1 DEF Types
      <4> QED
        BY <2>2, <4>1
    <3>2. K = queue[1].num - 1 /\ CutFrom = queue[1].num
      BY Zenon, <1>0, <2>2, <3>1 DEF CutFrom
    <3>3. queue[1].num \in Nat /\ queue[1].num > 0 /\ queue[1].num <= Len(log) + 1
      BY Zenon, <1>1, <3>1 DEF ItemFacts, Queued, Sent
    <3>4. ASSUME NEW k \in DOMAIN queue PROVE queue[1].num <= queue[k].num /\ queue[k].num \in Nat
      <4>1. k = 1 \/ 1 < k
        BY <1>1 DEF ItemFacts
      <4> QED
        BY <1>1, <3>1, <3>3, <4>1 DEF Order, ItemFacts
    <3> QED
      BY <1>1, <2>2, <3>2, <3>3, <3>4 DEF LogFacts
  <2> QED
    BY Zenon, <2>1, <2>2
<1>4. cut' = cut \cup (K + 1) .. Len(log)
  <2>1. K + 1 = CutFrom
    BY <1>0, <1>3
  <2> QED
    BY Zenon, <2>1 DEF DropFrom
<1>5. /\ log' \in Seq(Records) /\ Len(log') = K /\ DOMAIN log' = 1 .. K
      /\ \A i \in DOMAIN log' : i \in DOMAIN log /\ log'[i] = log[i]
      /\ \A i \in DOMAIN log : i \in DOMAIN log' \/ i \in cut'
      /\ \A n \in Int : Known(n) => Known(n)'
      /\ Ids'
  BY Zenon, <1>1, <1>2, <1>3, <1>4, Shortened
<1>6. /\ mode = "running" /\ worker = Resting /\ recover = 0
      /\ \A e \in Clients : ~Locked(e) /\ ~Locked(e)'
  <2>1. mode = "running" /\ worker = Resting /\ recover = 0 /\ Reserved = {}
    BY Zenon, <1>1, <1>2 DEF Locks
  <2> QED
    BY <1>2, <2>1, Zenon DEF Locked, Reserved, Idle
<1>7. Types'
  <2>1. client' \in [Clients -> [phase : Phases, ram : BOOLEAN, id : Int]]
    BY <1>2 DEF Idle, Phases
  <2>2. synced' \in 0 .. Len(log')
    BY <1>1, <1>2, <1>3, <1>5 DEF Types
  <2>3. queue' \in Seq(QueueItems)
    BY <1>2
  <2>4. truncating' \in BOOLEAN
    BY <1>2, Zenon
  <2> QED
    BY <1>1, <1>2, <1>5, <2>1, <2>2, <2>3, <2>4, Zenon DEF Types
<1>8. Locks'
  BY Zenon, <1>2, <1>6 DEF Locks
<1>9. Order' /\ Queued'
  BY <1>2, <1>6 DEF Order, Queued, Resting
<1>10. Numbers' /\ Ages' /\ Bounded'
  <2>1. /\ \A p \in Points : mem[p].version \in Int
        /\ overwrite \in Int /\ first - 1 \in Int /\ flusher.confirmed - 1 \in Int
        /\ failed \subseteq Int
    BY <1>1 DEF CopyFacts, Types
  <2>2. /\ \A p \in Points : Known(mem[p].version)'
        /\ Known(overwrite)' /\ Known(first - 1)' /\ Known(flusher.confirmed - 1)'
        /\ \A n \in failed : Known(n)'
    BY <1>1, <1>2, <1>5, <2>1, Zenon DEF Numbers
  <2> QED
    BY <1>1, <1>2, <2>2, Zenon DEF Numbers, Ages, Bounded
<1>11. ASSUME NEW i \in DOMAIN log', Needed(i)' PROVE Needed(i)
  <2>1. Item'.client = NoClient
    BY Zenon, <1>2, <1>6 DEF Item, Resting, NoItem
  <2> QED
    BY <1>2, <1>5, <1>6, <1>11, <2>1 DEF Needed
<1>12. ASSUME Kept PROVE Kept'
  <2>1. Contents /\ Confirmed /\ InTurn /\ Answered
    BY Zenon, <1>12 DEF Kept
  <2>2. /\ \A i \in DOMAIN log' : InMemory(i) => InMemory(i)'
        /\ \A i \in DOMAIN log' : OnDisk(i) => OnDisk(i)'
        /\ \A i \in DOMAIN log' : Done(i) => Done(i)'
        /\ \A i \in DOMAIN log' : Waived(i) => Waived(i)'
    BY <1>2, <1>4, <1>5, <1>11, Zenon DEF InMemory, OnDisk, Done, Past, Waived
  <2>3. Contents'
    <3>1. ASSUME NEW p, NEW copy, Whole(p, copy) PROVE Whole(p, copy)'
      BY <1>5, <2>2, <3>1, Zenon DEF Whole
    <3> QED
      BY <1>2, <2>1, <3>1, Zenon DEF Contents
  <2>4. Confirmed'
    <3>1. ASSUME NEW n \in failed \ cut'
          PROVE  n >= first /\ n <= K /\ log'[n].id \in troubled
      <4>1. n \in failed \ cut /\ n \in Nat \ {0}
        BY Zenon, <1>1, <1>4 DEF Types
      <4>2. n >= first /\ n <= Len(log) /\ log[n].id \in troubled
        BY Zenon, <2>1, <4>1 DEF Confirmed
      <4>3. n \in DOMAIN log
        BY <1>1, <4>1, <4>2 DEF LogFacts
      <4>4. n \in DOMAIN log' /\ n <= K
        BY <1>5, <4>3
      <4> QED
        BY <1>5, <4>2, <4>4, Zenon
    <3> QED
      BY <1>2, <1>5, <2>1, <2>2, <3>1, Zenon DEF Confirmed
  <2>5. InTurn'
    <3>1. \A n : DoneBefore(n) => DoneBefore(n)'
      BY <1>5, <2>2, Zenon DEF DoneBefore
    <3>2. ASSUME NEW i \in DOMAIN log' PROVE Done(i)
      <4>1. ~Ahead(i)
        <5>1. i \in Nat /\ i <= K /\ K \in Nat
          BY <1>3, <1>5
        <5>2. \A k \in DOMAIN queue : queue[k].num # i
          BY <1>1, <1>3, <5>1 DEF ItemFacts
        <5> QED
          BY <1>6, <5>2, Zenon DEF Ahead
      <4> QED
        BY <1>5, <1>6, <2>1, <4>1, Zenon DEF InTurn
    <3>3. \A i \in DOMAIN log' : ~(i < recover')
      BY <1>2, <1>5, <1>6
    <3> QED
      BY Zenon, <1>2, <1>6, <2>1, <2>2, <3>1, <3>2, <3>3 DEF InTurn, Resting
  <2>6. Answered'
    <3> SUFFICES ASSUME NEW id \in completed
                 PROVE  \E i \in DOMAIN log' : log'[i].id = id /\ i <= synced' /\ InMemory(i)'
      <4>1. DOMAIN queue' = {} /\ worker' = Resting /\ mode' = "running"
        BY <1>2, <1>6
      <4> QED
        BY <1>2, <4>1, Zenon DEF Answered
    <3>1. PICK i \in DOMAIN log :
          /\ log[i].id = id /\ i <= synced /\ InMemory(i)
          /\ \A k \in DOMAIN queue : i < queue[k].num
      BY Zenon, <1>6, <2>1 DEF Answered
    <3>2. i \in Nat \ {0} /\ i <= Len(log) /\ synced \in Nat
      BY <1>1 DEF LogFacts, Types
    <3>3. i <= K /\ i <= synced'
      <4>1. CASE queue = <<>>
        BY Zenon, <1>2, <1>3, <3>1, <3>2, <4>1
      <4>2. CASE queue # <<>>
        <5>1. 1 \in DOMAIN queue /\ Head(queue) = queue[1]
          <6>1. queue \in Seq(QueueItems)
            BY Zenon, <1>1 DEF Types
          <6> QED
            BY <4>2, <6>1
        <5>2. i < CutFrom /\ CutFrom \in Nat
          BY Zenon, <1>1, <3>1, <4>2, <5>1 DEF CutFrom, ItemFacts
        <5>3. synced' = K
          BY Zenon, <1>2, <1>5, <4>2
        <5> QED
          BY <1>0, <3>2, <5>2, <5>3
      <4> QED
        BY Zenon, <4>1, <4>2
    <3>4. i \in DOMAIN log'
      BY <1>3, <1>5, <3>2, <3>3
    <3> QED
      BY <1>5, <2>2, <3>1, <3>3, <3>4, Zenon
  <2> QED
    BY Zenon, <2>3, <2>4, <2>5, <2>6 DEF Kept
<1> QED
  BY <1>2, <1>5, <1>7, <1>8, <1>9, <1>10, <1>12, Zenon DEF QueueInv, Frame

LEMMA CrashStep == QueueInv /\ Crash => QueueInv'
<1> SUFFICES ASSUME QueueInv, Crash PROVE QueueInv'
  BY Zenon
<1>1. /\ Types /\ Locks /\ Ids /\ Numbers /\ Ages /\ Bounded /\ LogFacts /\ CopyFacts
  BY Zenon, Facts DEF QueueInv, Frame
<1>2. PICK K \in synced .. Len(log) :
        /\ log' = SubSeq(log, 1, K) /\ synced' = K
        /\ first' = Min({first, LastIndex(log')})
        /\ cut' = cut \cup (K + 1) .. Len(log)
  BY Zenon DEF Crash
<1>3. /\ mode' = "down" /\ load_next' = 0 /\ truncating' = FALSE
      /\ wal_lock' = "free" /\ queue' = <<>> /\ recover' = 0
      /\ client' = [c \in Clients |-> Idle]
      /\ worker' = Resting /\ flusher' = AtRest /\ capture' = NoCapture
      /\ overwrite' = 0 /\ mem' = disk /\ failed' = {}
      /\ applied_seq' = [applied_seq EXCEPT !.mem = 0, !.count = 0]
      /\ UNCHANGED <<disk, left, completed, troubled, outrun>>
  BY Zenon DEF Crash
<1>4. K \in Nat /\ K \in 0 .. Len(log) /\ synced <= K /\ synced \in Nat
  BY <1>1, <1>2 DEF Types, LogFacts
<1>5. /\ log' \in Seq(Records) /\ Len(log') = K /\ DOMAIN log' = 1 .. K
      /\ \A i \in DOMAIN log' : i \in DOMAIN log /\ log'[i] = log[i]
      /\ \A n \in Int : Known(n) => Known(n)'
      /\ Ids'
  BY Zenon, <1>1, <1>2, <1>3, <1>4, Shortened
<1>6. first' \in Nat \ {0} /\ first' <= first /\ first \in Nat
  <2>1. first \in Nat \ {0}
    BY Zenon, <1>1 DEF Types
  <2>2. LastIndex(log') \in Nat \ {0}
    <3>1. Max({1, K}) \in Nat \ {0}
      BY <1>4, Larger
    <3> QED
      BY Zenon, <1>5, <3>1 DEF LastIndex
  <2> DEFINE m == LastIndex(log')
  <2> HIDE DEF m
  <2>3. m \in Int /\ first \in Int /\ m \in Nat \ {0}
    BY <2>1, <2>2 DEF m
  <2>4. Min({first, m}) = IF first <= m THEN first ELSE m
    BY <2>3, Larger, Zenon
  <2>5. first' = Min({first, m})
    BY Zenon, <1>2 DEF m
  <2> QED
    BY <2>1, <2>3, <2>4, <2>5
<1>7. DOMAIN capture' = {} /\ DOMAIN queue' = {}
  BY <1>3 DEF NoCapture
<1>8. Types'
  <2>1. client' \in [Clients -> [phase : Phases, ram : BOOLEAN, id : Int]]
    BY <1>3 DEF Idle, Phases
  <2>2. worker' \in [stage : {"idle", "fetch", "sync", "apply", "applied"}, item : QueueItems]
    BY Zenon, <1>3 DEF Resting, NoItem, QueueItems
  <2>3. flusher' \in [stage : {"idle", "segments", "ack"}, confirmed : Nat]
    BY Zenon, <1>3 DEF AtRest
  <2>4. applied_seq' \in [mem : Nat, file : Nat, count : Nat]
    BY <1>1, <1>3, Zenon DEF Types
  <2>5. queue' \in Seq(QueueItems)
    BY <1>3
  <2>6. truncating' \in BOOLEAN /\ mode' \in {"down", "loading", "running"}
    BY <1>3, Zenon
  <2>7. synced' \in 0 .. Len(log')
    BY <1>2, <1>4, <1>5
  <2>8. load_next' \in Nat /\ recover' \in Nat /\ overwrite' \in Nat /\ failed' \subseteq Nat \ {0}
    BY Zenon, <1>3
  <2> QED
    BY Zenon, <1>1, <1>3, <1>5, <1>6, <1>7, <2>1, <2>2, <2>3, <2>4, <2>5, <2>6, <2>7, <2>8 DEF Types
<1>9. \A e \in Clients : ~Locked(e)' /\ client'[e].phase = "idle"
  BY Zenon, <1>3 DEF Locked, Idle
<1>10. Locks'
  <2>1. Reserved' = {}
    BY Zenon, <1>9 DEF Reserved
  <2> QED
    BY Zenon, <1>3, <1>7, <1>9, <2>1 DEF Locks
<1>11. Order' /\ Queued'
  <2>1. worker'.stage = "idle"
    BY Zenon, <1>3 DEF Resting
  <2> QED
    BY Zenon, <1>3, <1>7, <2>1 DEF Order, Queued
<1>12. Numbers'
  <2>1. ASSUME NEW p \in Points PROVE Known(mem[p].version)'
    <3>1. disk[p].version \in Int /\ mem[p].version \in Int /\ disk[p].version <= mem[p].version
      BY <1>1 DEF CopyFacts, Ages
    <3>2. Known(disk[p].version)
      BY Zenon, <1>1, <3>1, KnownBelow DEF Numbers
    <3>3. Known(disk[p].version)'
      BY Zenon, <1>3, <1>5, <3>1, <3>2
    <3> QED
      BY Zenon, <1>3, <3>3
  <2>2. Known(overwrite)' /\ Known(flusher.confirmed - 1)'
    <3>1. overwrite' = 0 /\ flusher'.confirmed = 0
      BY Zenon, <1>3 DEF AtRest
    <3> QED
      BY <3>1 DEF Known
  <2>3. Known(first - 1)'
    <3>1. PICK f \in Nat \ {0} : f = first'
      BY Zenon, <1>6
    <3>2. f - 1 \in Int /\ first - 1 \in Int /\ f - 1 <= first - 1
      <4>1. f <= first /\ first \in Nat /\ f \in Nat
        BY Zenon, <1>6, <3>1
      <4> QED
        BY <4>1
    <3>3. Known(f - 1)
      BY Zenon, <1>1, <3>2, KnownBelow DEF Numbers
    <3>4. Known(f - 1)'
      BY Zenon, <1>5, <3>2, <3>3
    <3> QED
      BY Zenon, <3>1, <3>4
  <2> QED
    BY Zenon, <1>3, <2>1, <2>2, <2>3 DEF Numbers
<1>13. Ages' /\ Bounded'
  <2>1. \A p \in Points : disk[p].version <= disk[p].version
    BY <1>1 DEF CopyFacts
  <2>2. PICK b \in Nat : \A p \in Points : mem[p].version <= b
    BY Zenon, <1>1 DEF Bounded
  <2>3. ASSUME NEW p \in Points PROVE disk[p].version <= b
    <3>1. disk[p].version \in Nat /\ mem[p].version \in Nat /\ disk[p].version <= mem[p].version
      BY Zenon, <1>1 DEF CopyFacts, Ages
    <3>2. mem[p].version <= b
      BY Zenon, <2>2
    <3> QED
      BY <3>1, <3>2
  <2> QED
    BY Zenon, <1>3, <1>7, <2>1, <2>3 DEF Ages, Bounded
<1>14. ASSUME Kept PROVE Kept'
  <2>1. Contents /\ Confirmed /\ Answered
    BY Zenon, <1>14 DEF Kept
  <2>2. ASSUME NEW i \in DOMAIN log', Needed(i)' PROVE Needed(i)
    <3>1. Item'.client = NoClient
      BY Zenon, <1>3 DEF Item, Resting, NoItem
    <3> QED
      BY Zenon, <1>3, <1>5, <1>7, <1>9, <2>2, <3>1 DEF Needed
  <2>3. \A i \in DOMAIN log' : (OnDisk(i) => OnDisk(i)') /\ (Waived(i) => Waived(i)')
    BY Zenon, <1>2, <1>3, <1>5, <2>2 DEF OnDisk, Past, Waived
  <2>4. Contents'
    <3>1. ASSUME NEW p, NEW copy, Whole(p, copy) PROVE Whole(p, copy)'
      BY Zenon, <1>5, <2>3, <3>1 DEF Whole
    <3> QED
      BY Zenon, <1>3, <1>7, <2>1, <3>1 DEF Contents
  <2>5. Confirmed'
    <3>1. ASSUME NEW i \in DOMAIN log', i < first' PROVE OnDisk(i)'
      <4>1. i \in Nat /\ i < first
        BY <1>5, <1>6, <3>1
      <4> QED
        BY Zenon, <1>5, <2>1, <2>3, <4>1 DEF Confirmed
    <3>2. flusher'.stage = "idle"
      BY Zenon, <1>3 DEF AtRest
    <3> QED
      BY Zenon, <1>3, <3>1, <3>2 DEF Confirmed
  <2>6. InTurn'
    BY Zenon, <1>3 DEF InTurn
  <2>7. Answered'
    <3> SUFFICES ASSUME NEW id \in completed
                 PROVE  \E i \in DOMAIN log' : log'[i].id = id /\ i <= synced'
      BY Zenon, <1>3, <1>7 DEF Answered
    <3>1. PICK i \in DOMAIN log : log[i].id = id /\ i <= synced
      BY Zenon, <2>1 DEF Answered
    <3>2. i \in Nat \ {0}
      BY <1>1 DEF LogFacts
    <3>3. i <= K /\ i \in DOMAIN log'
      BY <1>4, <1>5, <3>1, <3>2
    <3> QED
      BY Zenon, <1>2, <1>5, <3>1, <3>3
  <2> QED
    BY Zenon, <2>4, <2>5, <2>6, <2>7 DEF Kept
<1> QED
  BY Zenon, <1>3, <1>5, <1>8, <1>10, <1>11, <1>12, <1>13, <1>14 DEF QueueInv, Frame

-----------------------------------------------------------------------------
(* The start: a part of the log is replayed, the rest is queued again.     *)

LEMMA ReplayToFacts == Types => ReplayTo \in Nat /\ ReplayTo > 0 /\ ReplayTo <= Len(log) + 1
                                /\ LoadedSeq \in Nat
<1> SUFFICES ASSUME Types
             PROVE  /\ ReplayTo \in Nat /\ ReplayTo > 0 /\ ReplayTo <= Len(log) + 1
                    /\ LoadedSeq \in Nat
  BY Zenon
<1>1. Len(log) \in Nat /\ Interval \in Nat /\ QueueSize \in Nat
  BY Zenon, Facts, QueueAssumption DEF LogFacts
<1>2. LoadedSeq \in Nat
  <2>1. LastIndex(log) \in Nat
    BY <1>1, Larger DEF LastIndex
  <2>2. applied_seq.file \in Nat
    BY Zenon DEF Types
  <2> QED
    BY Zenon, <2>1, <2>2 DEF LoadedSeq
<1> DEFINE last == Len(log) + 1
           bound == LoadedSeq + Interval + 1
           low == last - (QueueSize - 1)
           m == Max({bound, low})
<1>3. bound \in Int /\ low \in Int /\ last \in Int /\ bound > 0 /\ last > 0
  BY <1>1, <1>2
<1>4. ReplayTo = Min({m, last})
  BY Zenon DEF ReplayTo
<1> HIDE DEF bound, low, last
<1>5. m \in Int /\ m >= bound
  BY <1>3, Larger
<1> HIDE DEF m
<1>6. Min({m, last}) = IF m <= last THEN m ELSE last
  BY <1>3, <1>5, Larger, Zenon
<1>7. ReplayTo \in Nat /\ ReplayTo > 0 /\ ReplayTo <= last
  BY <1>3, <1>4, <1>5, <1>6
<1> QED
  BY Zenon, <1>2, <1>7 DEF last

\* What the replay makes of a Segment.
LEMMA ReplayFacts ==
    ASSUME Types
    PROVE  LET H == Replay(disk, first, ReplayTo) IN
           /\ H \in [Points -> Copies]
           /\ \A p \in Points :
                /\ H[p].version \in Nat /\ disk[p].version <= H[p].version
                /\ \/ H[p] = disk[p]
                   \/ H[p].version \in DOMAIN log /\ H[p].version < ReplayTo
                /\ disk[p].ops \subseteq H[p].ops
                /\ \A i \in DOMAIN log : first <= i /\ i < ReplayTo /\ p \in log[i].on =>
                      /\ H[p].version >= i
                      /\ disk[p].version < i => log[i].id \in H[p].ops
<1> DEFINE H == Replay(disk, first, ReplayTo)
           new(p) == {n \in first .. ReplayTo - 1 : p \in log[n].on /\ ~Ignores(disk, n, p)}
<1>1. /\ LogFacts /\ CopyFacts /\ disk \in [Points -> Copies] /\ first \in Nat \ {0}
      /\ ReplayTo \in Nat /\ ReplayTo > 0 /\ ReplayTo <= Len(log) + 1
  BY Zenon, Facts, ReplayToFacts DEF Types
<1>2. \A p \in Points : H[p] = IF new(p) = {} THEN disk[p]
                               ELSE [version |-> Max(new(p)),
                                     ops |-> disk[p].ops \cup {log[n].id : n \in new(p)}]
  BY Zenon DEF Replay
<1>3. H = [p \in Points |-> H[p]]
  BY Zenon DEF Replay
<1> HIDE DEF H
<1>4. ASSUME NEW p \in Points
      PROVE  /\ H[p] \in Copies
             /\ H[p].version \in Nat /\ disk[p].version <= H[p].version
             /\ \/ H[p] = disk[p]
                \/ H[p].version \in DOMAIN log /\ H[p].version < ReplayTo
             /\ disk[p].ops \subseteq H[p].ops
             /\ \A i \in DOMAIN log : first <= i /\ i < ReplayTo /\ p \in log[i].on =>
                   /\ H[p].version >= i
                   /\ disk[p].version < i => log[i].id \in H[p].ops
  <2>1. disk[p] \in Copies /\ disk[p].version \in Nat /\ disk[p].ops \subseteq Int
    BY Zenon, <1>1 DEF Copies
  <2> DEFINE T == new(p)
  <2>2. /\ T \subseteq Nat /\ T \subseteq DOMAIN log
        /\ \A n \in T : n < ReplayTo /\ n <= ReplayTo /\ disk[p].version < n
    <3> SUFFICES ASSUME NEW n \in T
                 PROVE  n \in Nat /\ n \in DOMAIN log /\ n < ReplayTo /\ disk[p].version < n
                        /\ n <= ReplayTo
      BY Zenon
    <3>1. n \in first .. ReplayTo - 1 /\ ~(disk[p].version >= n)
      BY Zenon DEF Ignores
    <3>2. n \in Nat /\ n >= 1 /\ n < ReplayTo /\ n <= Len(log) /\ n <= ReplayTo
      BY <1>1, <3>1 DEF LogFacts
    <3> QED
      BY <1>1, <2>1, <3>1, <3>2 DEF LogFacts
  <2>3. ASSUME NEW i \in DOMAIN log, first <= i, i < ReplayTo, p \in log[i].on,
               disk[p].version < i
        PROVE  i \in T
    <3>1. i \in Nat
      BY <1>1 DEF LogFacts
    <3>2. i \in first .. ReplayTo - 1 /\ ~(disk[p].version >= i)
      BY <1>1, <2>1, <2>3, <3>1
    <3> QED
      BY Zenon, <2>3, <3>2 DEF Ignores
  <2>4. H[p] = IF T = {} THEN disk[p]
               ELSE [version |-> Max(T), ops |-> disk[p].ops \cup {log[n].id : n \in T}]
    BY <1>2, Zenon
  <2> HIDE DEF T
  <2>5. CASE T = {}
    <3>1. H[p] = disk[p]
      BY Zenon, <2>4, <2>5
    <3>2. ASSUME NEW i \in DOMAIN log, first <= i, i < ReplayTo, p \in log[i].on
          PROVE  disk[p].version >= i /\ ~(disk[p].version < i)
      <4>1. ~(disk[p].version < i)
        BY Zenon, <2>3, <2>5, <3>2
      <4>2. i \in Nat
        BY <1>1 DEF LogFacts
      <4> QED
        BY <2>1, <4>1, <4>2
    <3>3. disk[p].version <= disk[p].version
      BY <2>1
    <3> QED
      BY <2>1, <3>1, <3>2, <3>3, Zenon
  <2>6. CASE T # {}
    <3> DEFINE m == Max(T)
    <3>1. m \in T /\ \A n \in T : n <= m
      BY <1>1, <2>2, <2>6, GreatestOf, Zenon
    <3>2. H[p] = [version |-> m, ops |-> disk[p].ops \cup {log[n].id : n \in T}]
      BY Zenon, <2>4, <2>6
    <3> HIDE DEF m
    <3>3. m \in Nat /\ m \in DOMAIN log /\ m < ReplayTo /\ disk[p].version < m
      BY Zenon, <2>2, <3>1
    <3>4. {log[n].id : n \in T} \subseteq Int
      BY Zenon, <1>1, <2>2 DEF LogFacts
    <3>5. H[p] \in Copies /\ H[p].version = m /\ disk[p].version <= m
      BY <2>1, <3>2, <3>3, <3>4 DEF Copies
    <3>6. ASSUME NEW i \in DOMAIN log, first <= i, i < ReplayTo, p \in log[i].on
          PROVE  m >= i /\ (disk[p].version < i => log[i].id \in H[p].ops)
      <4>1. i \in Nat
        BY <1>1 DEF LogFacts
      <4>2. disk[p].version < i => i \in T
        BY Zenon, <2>3, <3>6
      <4>3. i \in T => i <= m /\ log[i].id \in H[p].ops
        BY <3>1, <3>2
      <4> QED
        BY <2>1, <3>3, <4>1, <4>2, <4>3
    <3>7. disk[p].ops \subseteq H[p].ops
      BY <3>2
    <3> QED
      BY Zenon, <3>3, <3>5, <3>6, <3>7
  <2> QED
    BY <2>5, <2>6, Zenon
<1>5. H \in [Points -> Copies]
  BY Zenon, <1>3, <1>4
<1> QED
  BY <1>4, <1>5, Zenon DEF H

LEMMA LoadStep == QueueInv /\ Load => QueueInv'
<1> SUFFICES ASSUME QueueInv, Load PROVE QueueInv'
  BY Zenon
<1>0. PICK R : R = ReplayTo
  BY Zenon
<1>1. /\ Types /\ Locks /\ Ids /\ Order /\ Queued /\ Numbers /\ Ages /\ Bounded
      /\ LogFacts /\ CopyFacts
  BY Zenon, Facts DEF QueueInv, Frame
<1>2. /\ mode = "down" /\ mem' = Replay(disk, first, ReplayTo) /\ disk' = mem'
      /\ overwrite' \in {0} \cup {i \in first .. R - 1 : log[i].on = {}}
      /\ outrun' = (outrun \/ QueuedAgain # {})
      /\ applied_seq' = [applied_seq EXCEPT !.mem = LoadedSeq, !.count = 0]
      /\ IF R <= Len(log)
         THEN mode' = "loading" /\ load_next' = R /\ wal_lock' = "load"
         ELSE mode' = "running" /\ UNCHANGED <<load_next, wal_lock>>
      /\ UNCHANGED <<log, first, synced, queue, client, worker, capture, flusher, failed,
                     recover, truncating, left, completed, cut, troubled>>
  BY Zenon, <1>0 DEF Load
<1>3. R \in Nat /\ R > 0 /\ R <= Len(log) + 1 /\ LoadedSeq \in Nat
  BY Zenon, <1>0, <1>1, ReplayToFacts
<1>4. /\ mem' \in [Points -> Copies]
      /\ \A p \in Points :
           /\ mem'[p].version \in Nat /\ disk[p].version <= mem'[p].version
           /\ \/ mem'[p] = disk[p]
              \/ mem'[p].version \in DOMAIN log /\ mem'[p].version < R
           /\ disk[p].ops \subseteq mem'[p].ops
           /\ \A i \in DOMAIN log : first <= i /\ i < R /\ p \in log[i].on =>
                 /\ mem'[p].version >= i
                 /\ disk[p].version < i => log[i].id \in mem'[p].ops
  <2> DEFINE H == Replay(disk, first, ReplayTo)
  <2>1. /\ H \in [Points -> Copies]
        /\ \A p \in Points :
             /\ H[p].version \in Nat /\ disk[p].version <= H[p].version
             /\ \/ H[p] = disk[p]
                \/ H[p].version \in DOMAIN log /\ H[p].version < R
             /\ disk[p].ops \subseteq H[p].ops
             /\ \A i \in DOMAIN log : first <= i /\ i < R /\ p \in log[i].on =>
                   /\ H[p].version >= i
                   /\ disk[p].version < i => log[i].id \in H[p].ops
    BY <1>0, <1>1, ReplayFacts, Zenon
  <2>2. mem' = H
    BY Zenon, <1>2
  <2> HIDE DEF H
  <2> QED
    BY Zenon, <2>1, <2>2
<1>5. /\ queue = <<>> /\ worker = Resting /\ flusher = AtRest /\ DOMAIN capture = {}
      /\ failed = {} /\ wal_lock = "free" /\ mem = disk /\ Reserved = {} /\ ~truncating
      /\ recover = 0
  BY Zenon, <1>1, <1>2 DEF Locks
<1>6. /\ \A e \in Clients : ~Locked(e) /\ ~Locked(e)'
      /\ Reserved' = {} /\ DOMAIN queue' = {} /\ worker'.stage = "idle"
  BY <1>2, <1>5 DEF Locked, Reserved, Resting
<1>7. overwrite' \in Nat /\ overwrite' <= R - 1
  <2>1. CASE overwrite' = 0
    BY <1>3, <2>1
  <2>2. CASE overwrite' \in first .. R - 1
    <3>1. first \in Nat
      BY Zenon, <1>1 DEF Types
    <3> QED
      BY <1>3, <2>2, <3>1
  <2> QED
    BY Zenon, <1>2, <2>1, <2>2
<1>8. Types'
  <2>1. outrun' \in BOOLEAN
    BY Zenon, <1>2
  <2>2. applied_seq' \in [mem : Nat, file : Nat, count : Nat]
    BY <1>1, <1>2, <1>3, Zenon DEF Types
  <2>3. mode' \in {"down", "loading", "running"} /\ load_next' \in Nat
    BY Zenon, <1>1, <1>2, <1>3 DEF Types
  <2> QED
    BY Zenon, <1>1, <1>2, <1>4, <1>7, <2>1, <2>2, <2>3 DEF Types
<1>9. Locks'
  <2>1. /\ mode' # "down" /\ (mode' = "loading" => wal_lock' = "load")
        /\ wal_lock' # "recover" /\ recover' = 0 /\ ~truncating'
    BY Zenon, <1>2, <1>5
  <2> QED
    BY Zenon, <1>2, <1>5, <1>6, <2>1 DEF Locks
<1>10. Order' /\ Queued'
  <2>1. mode' = "loading" => load_next' > 0 /\ load_next' <= Len(log) + 1
    BY Zenon, <1>2, <1>3
  <2>2. worker' = Resting
    BY Zenon, <1>2, <1>5
  <2> QED
    BY Zenon, <1>2, <1>6, <2>1, <2>2 DEF Order, Queued
<1>11. Ids'
  BY Zenon, <1>1, <1>2 DEF Ids
<1>12. Numbers' /\ Ages' /\ Bounded'
  <2>1. \A n : Known(n)' <=> Known(n)
    BY Zenon, <1>2 DEF Known
  <2>2. \A n \in Int : n <= Len(log) => Known(n)
    <3> SUFFICES ASSUME NEW n \in Int, n <= Len(log), NEW i \in 1 .. n PROVE i <= Len(log)
      BY Zenon DEF Known
    <3> QED
      BY <1>1 DEF LogFacts
  <2>3. ASSUME NEW p \in Points PROVE Known(mem[p].version)'
    <3>1. PICK v : v = mem'[p].version
      BY Zenon
    <3>2. Known(v)
      <4>1. CASE mem'[p] = disk[p]
        BY Zenon, <1>1, <1>5, <3>1, <4>1 DEF Numbers
      <4>2. CASE mem'[p].version \in DOMAIN log
        BY <1>1, <2>2, <3>1, <4>2 DEF LogFacts
      <4> QED
        BY Zenon, <1>4, <4>1, <4>2
    <3> QED
      BY Zenon, <2>1, <3>1, <3>2 DEF Known
  <2>4. Known(overwrite)'
    <3>1. PICK v \in Int : v = overwrite' /\ v <= R - 1
      BY <1>7
    <3>2. v <= Len(log)
      BY <1>1, <1>3, <3>1 DEF LogFacts
    <3> QED
      BY Zenon, <2>1, <2>2, <3>1, <3>2 DEF Known
  <2>5. Known(first - 1)' /\ Known(flusher.confirmed - 1)'
    BY Zenon, <1>1, <1>2 DEF Numbers, Known
  <2>6. Numbers'
    BY Zenon, <1>2, <1>5, <2>3, <2>4, <2>5 DEF Numbers
  <2>7. Ages'
    <3>1. \A p \in Points : mem'[p].version <= mem'[p].version
      BY <1>4
    <3> QED
      BY Zenon, <1>2, <1>5, <3>1 DEF Ages
  <2>8. Bounded'
    <3>1. PICK b \in Nat : \A p \in Points : mem[p].version <= b
      BY Zenon, <1>1 DEF Bounded
    <3>2. ASSUME NEW p \in Points PROVE mem'[p].version <= b + R
      <4>1. disk[p].version \in Nat /\ disk[p].version <= b
        BY Zenon, <1>1, <1>5, <3>1 DEF CopyFacts
      <4>2. mem'[p].version \in Nat
            /\ (mem'[p].version = disk[p].version \/ mem'[p].version < R)
        BY Zenon, <1>4
      <4> QED
        BY <1>3, <4>1, <4>2
    <3>3. b + R \in Nat
      BY <1>3
    <3> QED
      BY Zenon, <3>2, <3>3 DEF Bounded
  <2> QED
    BY Zenon, <2>6, <2>7, <2>8
<1>13. ASSUME ~outrun', ~outrun => Kept PROVE Kept'
  <2>1. Contents /\ Confirmed /\ Answered /\ QueuedAgain = {}
    BY <1>2, <1>13, Zenon DEF Kept
  <2>2. \A i : Needed(i)' <=> Needed(i)
    <3>1. Item' = Item
      BY Zenon, <1>2 DEF Item
    <3> QED
      BY Zenon, <1>2, <1>6, <3>1 DEF Needed
  <2>3. \A i : Waived(i)' <=> Waived(i)
    BY Zenon, <1>2, <2>2 DEF Waived
  <2>4. ASSUME NEW i \in DOMAIN log, OnDisk(i) PROVE OnDisk(i)' /\ InMemory(i)'
    <3>1. i \in Nat /\ log[i].on \subseteq Points
      BY <1>1 DEF LogFacts
    <3>2. \A p \in Points : disk[p].version >= i => mem'[p].version >= i
      BY <1>1, <1>4, <3>1 DEF CopyFacts
    <3> QED
      BY Zenon, <1>2, <2>4, <3>1, <3>2 DEF OnDisk, InMemory, Past
  <2>5. ASSUME NEW i \in DOMAIN log, i < R PROVE InMemory(i)'
    <3>1. CASE i < first
      BY Zenon, <2>1, <2>4, <3>1 DEF Confirmed
    <3>2. CASE first <= i
      <4>1. log[i].on \subseteq Points
        BY Zenon, <1>1 DEF LogFacts
      <4>2. \A p \in log[i].on : mem'[p].version >= i
        BY Zenon, <1>4, <2>5, <3>2, <4>1
      <4> QED
        BY Zenon, <1>2, <4>2 DEF InMemory, Past
    <3>3. i \in Nat /\ first \in Nat
      BY <1>1 DEF LogFacts, Types
    <3> QED
      BY <3>1, <3>2, <3>3
  <2>6. ASSUME NEW p \in Points PROVE Whole(p, mem[p])'
    <3> SUFFICES ASSUME NEW i \in DOMAIN log, p \in log[i].on, i <= mem'[p].version
                 PROVE  log[i].id \in mem'[p].ops \/ Waived(i)
      BY Zenon, <1>2, <2>3 DEF Whole
    <3>1. Whole(p, disk[p]) /\ i \in Nat /\ disk[p].version \in Nat /\ first \in Nat
      BY <1>1, <2>1 DEF Contents, LogFacts, CopyFacts, Types
    <3>2. CASE i <= disk[p].version
      <4>1. log[i].id \in disk[p].ops \/ Waived(i)
        BY Zenon, <3>1, <3>2 DEF Whole
      <4> QED
        BY Zenon, <1>4, <4>1
    <3>3. CASE disk[p].version < i /\ i < first
      <4>1. OnDisk(i)
        BY Zenon, <2>1, <3>3 DEF Confirmed
      <4>2. i \in cut
        <5>1. ~(disk[p].version >= i)
          BY <3>1, <3>3
        <5> QED
          BY Zenon, <4>1, <5>1 DEF OnDisk, Past
      <4> QED
        BY Zenon, <4>2 DEF Waived
    <3>4. CASE disk[p].version < i /\ first <= i
      <4>1. i < R
        <5>1. mem'[p] # disk[p]
          BY <3>1, <3>4
        <5>2. mem'[p].version < R /\ mem'[p].version \in Nat
          BY Zenon, <1>4, <5>1
        <5> QED
          BY <1>3, <3>1, <5>2
      <4> QED
        BY Zenon, <1>4, <3>4, <4>1
    <3> QED
      BY <3>1, <3>2, <3>3, <3>4
  <2>7. Contents'
    <3>1. \A p \in Points : Whole(p, disk[p])'
      BY Zenon, <1>2, <2>6
    <3> QED
      BY Zenon, <1>2, <1>5, <2>6, <3>1 DEF Contents
  <2>8. Confirmed'
    <3>1. flusher'.stage = "idle" /\ failed' = {}
      BY Zenon, <1>2, <1>5 DEF AtRest
    <3> QED
      BY Zenon, <1>2, <2>1, <2>4, <3>1 DEF Confirmed
  <2>9. InTurn'
    <3>1. ASSUME NEW p \in Points PROVE DoneBefore(mem[p].version)'
      <4> SUFFICES ASSUME NEW i \in DOMAIN log, i < mem'[p].version PROVE Done(i)'
        BY Zenon, <1>2 DEF DoneBefore
      <4>1. CASE i < R
        BY Zenon, <2>5, <4>1 DEF Done
      <4>2. CASE ~(i < R)
        <5>1. i \in Nat /\ i <= Len(log) /\ mem'[p].version \in Nat
          BY <1>1, <1>4 DEF LogFacts
        <5>2. mem'[p] = disk[p]
          BY <1>3, <1>4, <4>2, <5>1
        <5>3. i \in R .. Len(log)
          BY <1>1, <1>3, <4>2, <5>1 DEF LogFacts
        <5>4. disk[p].version > i
          BY Zenon, <1>1, <5>1, <5>2 DEF CopyFacts
        <5>5. i \in cut
          BY Zenon, <1>0, <2>1, <5>3, <5>4 DEF QueuedAgain
        <5> QED
          BY Zenon, <1>2, <5>5 DEF Done, InMemory
      <4> QED
        BY Zenon, <4>1, <4>2
    <3>2. DoneBefore(overwrite)'
      <4> SUFFICES ASSUME NEW i \in DOMAIN log, i < overwrite' PROVE Done(i)'
        BY Zenon, <1>2 DEF DoneBefore
      <4>1. i < R
        <5>1. PICK v \in Nat : v = overwrite' /\ v <= R - 1
          BY Zenon, <1>7
        <5>2. i \in Nat /\ i < v
          BY <1>1, <5>1 DEF LogFacts
        <5> QED
          BY <1>3, <5>1, <5>2
      <4> QED
        BY Zenon, <2>5, <4>1 DEF Done
    <3>3. failed' = {} /\ \A i \in DOMAIN log' : ~(i < recover')
      BY <1>1, <1>2, <1>5 DEF LogFacts
    <3>4. ASSUME NEW i \in DOMAIN log
          PROVE  Done(i)' \/ (mode' = "loading" /\ i >= load_next')
      <4>1. CASE i < R
        BY Zenon, <2>5, <4>1 DEF Done
      <4>2. CASE ~(i < R)
        <5>1. i \in Nat /\ i <= Len(log) /\ i >= R
          BY <1>1, <1>3, <4>2 DEF LogFacts
        <5>2. R <= Len(log)
          BY <1>1, <1>3, <5>1 DEF LogFacts
        <5> QED
          BY Zenon, <1>2, <5>1, <5>2
      <4> QED
        BY Zenon, <4>1, <4>2
    <3> QED
      BY Zenon, <1>2, <1>6, <3>1, <3>2, <3>3, <3>4 DEF InTurn
  <2>10. Answered'
    <3> SUFFICES ASSUME NEW id \in completed
                 PROVE  \E i \in DOMAIN log : /\ log[i].id = id /\ i <= synced /\ InMemory(i)'
                                              /\ mode' = "loading" => i < load_next'
      <4>1. worker' = Resting
        BY Zenon, <1>2, <1>5
      <4> QED
        BY Zenon, <1>2, <1>6, <4>1 DEF Answered
    <3>1. PICK i \in DOMAIN log : log[i].id = id /\ i <= synced
      BY Zenon, <2>1 DEF Answered
    <3>2. i < R
      <4> SUFFICES ASSUME ~(i < R) PROVE FALSE
        BY Zenon
      <4>1. i \in R .. Len(log)
        BY <1>1, <1>3 DEF LogFacts
      <4> QED
        BY Zenon, <1>0, <2>1, <3>1, <4>1 DEF QueuedAgain
    <3>3. mode' = "loading" => load_next' = R
      BY Zenon, <1>2
    <3> QED
      BY Zenon, <2>5, <3>1, <3>2, <3>3
  <2> QED
    BY Zenon, <2>7, <2>8, <2>9, <2>10 DEF Kept
<1> QED
  BY Zenon, <1>8, <1>9, <1>10, <1>11, <1>12, <1>13 DEF QueueInv, Frame

-----------------------------------------------------------------------------
(* Every step keeps the invariant.                                         *)

LEMMA QueueStep == QueueInv /\ [Next]_vars => QueueInv'
<1> SUFFICES ASSUME QueueInv, [Next]_vars PROVE QueueInv'
  BY Zenon
<1>1. CASE UNCHANGED vars
  <2>1. /\ UNCHANGED <<log, first, synced, wal_lock, queue, client, worker, mem, disk, capture,
                       overwrite, failed, flusher, recover, applied_seq, mode, load_next,
                       truncating, left, completed, cut, troubled, outrun>>
    BY Zenon, <1>1 DEF vars
  <2>2. Types /\ Locks /\ Queued
    BY Zenon DEF QueueInv, Frame
  <2>3. Types'
    BY Zenon, <2>1, <2>2 DEF Types
  <2>4. Locks'
    BY <2>1, <2>2, Zenon DEF Locks, Locked, Reserved
  <2>5. Queued' /\ SameWork /\ synced <= synced'
    BY <2>1, <2>2 DEF Queued, Sent, Locked, Item, SameWork, Types
  <2>6. Kept /\ mode # "down" => \A i \in DOMAIN log : i < recover' => InMemory(i)
    BY Zenon, <2>1 DEF Kept, InTurn
  <2> QED
    BY Zenon, <2>1, <2>3, <2>4, <2>5, <2>6, Aside
<1>2. CASE Load \/ LoadPending
  BY Zenon, <1>2, LoadStep, LoadPendingStep
<1>3. CASE \E c \in Clients : Reserve(c) \/ WriteRecord(c) \/ SendSignal(c) \/ Timeout(c)
  BY Zenon, <1>3, ReserveStep, WriteRecordStep, SendSignalStep, TimeoutStep
<1>4. CASE Worker
  BY Zenon, <1>4, TakeStep, FetchStep, SyncLogStep, ApplyStep, ApplyFailsStep, DeclineStep,
     CompleteStep DEF Worker
<1>5. CASE Flusher
  BY Zenon, <1>5, FlushWalStep, FlushSegmentsStep, AckStep DEF Flusher
<1>6. CASE \E p \in Points : Persist(p)
  BY Zenon, <1>6, PersistStep
<1>7. CASE RecoverStart \/ RecoverStep \/ RecoverEnd
  BY Zenon, <1>7, RecoverStartStep, RecoverStepStep, RecoverEndStep
<1>8. CASE Truncate \/ DropFrom
  BY Zenon, <1>8, TruncateStep, DropFromStep
<1>9. CASE Crash
  BY Zenon, <1>9, CrashStep
<1> QED
  BY Zenon, <1>1, <1>2, <1>3, <1>4, <1>5, <1>6, <1>7, <1>8, <1>9 DEF Next

\* What the runs check as an invariant of small instances holds of every number
\* of clients, points, records and faults, and of every size of the queue.
THEOREM QueueInvariant == Spec => []QueueInv
  BY QueueInit, QueueStep, PTL DEF Spec

\* The update worker gets the records in the order of the log, however clients,
\* load_from_wal, crashes and truncations interleave (submit_update sends a
\* record's number before it releases the log's lock).
THEOREM WorkerFollowsLog == Spec => []QueueInLogOrder
<1>1. QueueInv => QueueInLogOrder
  BY Zenon, OrderSuffices DEF QueueInv
<1> QED
  BY <1>1, QueueInvariant, PTL

\* An update that was answered as completed is in the Segments while the Shard
\* runs, and on disk or still in the log after a crash: flush_segments confirms,
\* and SerdeWal::ack cuts, nothing that a Segment has in memory only.
THEOREM CompletedUpdatesAreKept == Spec => []CompletedIsKept
<1>1. QueueInv => CompletedIsKept
  BY Zenon, KeptSuffices
<1> QED
  BY <1>1, QueueInvariant, PTL

\* While the Shard runs every record of the log is in the Segments, still to
\* come, or has failed once: none falls between the replay (load_from_wal), the
\* queue, the flush and the truncation.
THEOREM UpdatesAreAccountedFor == Spec => []EveryUpdateIsAccountedFor
<1>1. QueueInv => EveryUpdateIsAccountedFor
  BY Zenon, KeptSuffices
<1> QED
  BY <1>1, QueueInvariant, PTL

\* A failed update stays in the log until it is applied or cut off: no flush
\* confirms, and no acknowledgement reaches, a number from it on.
THEOREM FailedUpdatesAreRetained == Spec => []FailedIsRetained
<1>1. QueueInv => FailedIsRetained
  BY Zenon, KeptSuffices
<1> QED
  BY <1>1, QueueInvariant, PTL
=============================================================================
