---------------------- MODULE SegmentStructure_proofs -----------------------
(***************************************************************************)
(* However many optimizers, sessions and operations there are, optimizers  *)
(* never share a Segment and updates always find one to write to, and what *)
(* an exact session has pinned does not change under it.                   *)
(***************************************************************************)
EXTENDS SegmentLifecycle, FiniteSetTheorems, TLAPS

-----------------------------------------------------------------------------
(* Which Segments there are and whose they are, and how the updates, the   *)
(* batches and the steps of an optimizer up to its publication change      *)
(* that.                                                                   *)

Running(j) == jobs[j].phase \in {"merge", "apply", "recheck", "ready"}

(* Which Segments there are, and whose they are. *)
StructureInv ==
    /\ TypeOK
    /\ \A j \in Jobs : Running(j) <=> jobs[j].inputs # {}
    /\ \A j \in Jobs : ~jobs[j].out.is_proxy
    /\ \A j \in Jobs : jobs[j].unread \subseteq jobs[j].inputs
    /\ ProxiesAreOwned
    /\ AlwaysAppendable
    /\ \A s \in DOMAIN segments, p \in Points : segments[s].version[p] <= op
    /\ \A j \in Jobs, p \in Points : jobs[j].out.version[p] <= op

-----------------------------------------------------------------------------
(* The largest of some versions. *)
LEMMA MaxOfVersions ==
    ASSUME NEW S, S \subseteq Versions, S # {}
    PROVE  Max(S) \in S /\ \A v \in S : v <= Max(S)
<1> DEFINE T == {MaxOp - v : v \in S}
<1>1. MaxOp \in Nat
  BY Zenon, LifecycleAssumption
<1>2. T \subseteq Nat /\ T # {}
  <2>1. \A v \in S : MaxOp - v \in Nat
    BY <1>1 DEF Versions
  <2>2. PICK v \in S : TRUE
    BY Zenon
  <2>3. MaxOp - v \in T
    BY Zenon, <2>2
  <2> QED
    BY Zenon, <2>1, <2>3
<1>3. PICK m \in T : \A n \in T : ~(<<n, m>> \in OpToRel(<, Nat))
  BY <1>2, WFMin, NatLessThanWellFounded, Zenon
<1>4. PICK u \in S : m = MaxOp - u
  BY Zenon
<1>5. ASSUME NEW v \in S
      PROVE  u >= v
  <2>1. MaxOp - v \in T /\ MaxOp - v \in Nat /\ m \in Nat
    BY Zenon, <1>2
  <2>2. ~(MaxOp - v < m)
    BY <1>3, <2>1, Zenon DEF OpToRel
  <2> QED
    BY <1>1, <1>4, <2>1, <2>2 DEF Versions
<1>6. Versions \subseteq Int
  BY <1>1 DEF Versions
<1>7. \A x, y \in S : x \in Int /\ y \in Int
  BY Zenon, <1>6
<1> QED
  BY Zenon, <1>5, <1>7 DEF Max

(* Deleting points from a Segment, raw or behind a proxy. *)
LEMMA DeleteEffect ==
    ASSUME NEW g \in Segment, NEW at \in [Points -> Versions]
    PROVE  LET d == DeletePoints(g, at) IN
           /\ d \in Segment
           /\ d.appendable = g.appendable
           /\ d.is_proxy = g.is_proxy
           /\ d.total = g.total
           /\ g.is_proxy =>
                /\ d.version = g.version
                /\ d.offset = g.offset
                /\ \A p \in Points : d.deleted_points[p] =
                       IF at[p] # 0 /\ g.version[p] # 0 THEN at[p] ELSE g.deleted_points[p]
           /\ ~g.is_proxy =>
                /\ d.deleted_points = g.deleted_points
                /\ \A p \in Points : d.version[p] =
                       IF at[p] # 0 /\ g.version[p] # 0 /\ g.version[p] <= at[p]
                       THEN 0 ELSE g.version[p]
                /\ \A p \in Points : d.version[p] # 0 => d.offset[p] = g.offset[p]
<1> DEFINE d == DeletePoints(g, at)
<1>1. 0 \in Versions /\ 0 \in Nat
  BY LifecycleAssumption DEF Versions
<1>2. CASE g.is_proxy
  BY <1>1, <1>2, Zenon DEF DeletePoints, ProxyDelete, Segment
<1>3. CASE ~g.is_proxy
  <2>1. d = RawDelete(g, at)
    BY Zenon, <1>3 DEF DeletePoints
  <2>2. \A p \in Points : g.version[p] \in Versions /\ g.offset[p] \in Nat
    BY Zenon DEF Segment
  <2> QED
    BY <1>1, <1>3, <2>1, <2>2, Zenon DEF RawDelete, Segment
<1> QED
  BY Zenon, <1>2, <1>3 DEF Segment

(* Writing a point into a Segment. *)
LEMMA UpsertEffect ==
    ASSUME NEW g \in Segment, NEW n \in Versions, NEW p \in Points
    PROVE  LET d == UpsertPoint(g, n, p) IN
           /\ d \in Segment
           /\ d.appendable = g.appendable
           /\ d.is_proxy = g.is_proxy
           /\ d.deleted_points = g.deleted_points
           /\ d.total \in {g.total, g.total + 1}
           /\ g.version[p] <= n => d.version = [g.version EXCEPT ![p] = n]
           /\ g.version[p] = 0 => d.total = g.total + 1
           /\ \A q \in Points \ {p} : d.offset[q] = g.offset[q]
<1> DEFINE d == UpsertPoint(g, n, p)
<1>1. g.total \in Nat /\ g.total + 1 \in Nat /\ \A q \in Points : g.version[q] \in Nat
  BY LifecycleAssumption DEF Segment, Versions
<1>2. n \in Nat
  BY LifecycleAssumption DEF Versions
<1>3. CASE g.version[p] = 0
  BY <1>1, <1>2, <1>3, Zenon DEF UpsertPoint, InsertNewVectors, Segment
<1>4. CASE g.version[p] # 0
  BY <1>1, <1>2, <1>4 DEF UpsertPoint, Segment
<1> QED
  BY Zenon, <1>3, <1>4

(* What is left alone in a Segment of which only the points P are deleted or
   overwritten. *)
SameElsewhere(g, d, P) ==
    /\ d \in Segment
    /\ d.appendable = g.appendable
    /\ d.is_proxy = g.is_proxy
    /\ \A q \in Points \ P : /\ d.version[q] = g.version[q]
                             /\ d.deleted_points[q] = g.deleted_points[q]

(* A deletion of the copy of p takes it from a raw Segment, or records it in a
   proxy over the earlier record. *)
Deleted(g, d, p, n) ==
    /\ g.is_proxy => d.version[p] = g.version[p] /\ d.deleted_points[p] = n
    /\ ~g.is_proxy => d.version[p] = 0 /\ d.deleted_points[p] = g.deleted_points[p]

Kept(g, d, p) ==
    d.version[p] = g.version[p] /\ d.deleted_points[p] = g.deleted_points[p]

(* delete_points_from_segments: older copies are deleted with their version. *)
LEMMA ObsoleteEffect ==
    ASSUME NEW H, \A s \in DOMAIN H : H[s] \in Segment, NEW P,
           NEW D, D = DeletePointsFromSegments(H, P)
    PROVE  /\ DOMAIN D = DOMAIN H
           /\ \A s \in DOMAIN H :
                /\ SameElsewhere(H[s], D[s], P)
                /\ D[s].total = H[s].total
                /\ \A p \in Points :
                      \/ Kept(H[s], D[s], p)
                      \/ /\ p \in P /\ s \in ToDelete(H, p)
                         /\ Deleted(H[s], D[s], p, H[s].version[p])
<1>1. DOMAIN D = DOMAIN H
  BY Zenon DEF DeletePointsFromSegments
<1>2. ASSUME NEW s \in DOMAIN H
      PROVE  /\ SameElsewhere(H[s], D[s], P)
             /\ D[s].total = H[s].total
             /\ \A p \in Points :
                   \/ Kept(H[s], D[s], p)
                   \/ /\ p \in P /\ s \in ToDelete(H, p)
                      /\ Deleted(H[s], D[s], p, H[s].version[p])
  <2> DEFINE at == [p \in Points |->
                      IF p \in P /\ s \in ToDelete(H, p) THEN H[s].version[p] ELSE 0]
             g == H[s]
             d == D[s]
  <2>1. d = DeletePoints(g, at)
    BY Zenon, <1>2 DEF DeletePointsFromSegments
  <2>2. g \in Segment /\ \A p \in Points : g.version[p] \in Versions /\ g.version[p] \in Nat
    BY <1>2, LifecycleAssumption DEF Segment, Versions
  <2>3. at \in [Points -> Versions]
    BY <2>2, LifecycleAssumption DEF Versions
  <2>4. \A p \in Points : at[p] # 0 => p \in P /\ s \in ToDelete(H, p) /\ at[p] = g.version[p]
    BY Zenon
  <2> HIDE DEF at, g, d
  <2>5. d \in Segment /\ d.appendable = g.appendable /\ d.is_proxy = g.is_proxy
        /\ d.total = g.total
    BY Zenon, <2>1, <2>2, <2>3, DeleteEffect
  <2>6. CASE g.is_proxy
    <3>1. d.version = g.version
          /\ \A p \in Points : d.deleted_points[p] =
                 IF at[p] # 0 /\ g.version[p] # 0 THEN at[p] ELSE g.deleted_points[p]
      BY <2>1, <2>2, <2>3, <2>6, DeleteEffect
    <3> QED
      BY Zenon, <2>4, <2>5, <2>6, <3>1 DEF SameElsewhere, Kept, Deleted, g, d
  <2>7. CASE ~g.is_proxy
    <3>1. d.deleted_points = g.deleted_points
          /\ \A p \in Points : d.version[p] =
                 IF at[p] # 0 /\ g.version[p] # 0 /\ g.version[p] <= at[p]
                 THEN 0 ELSE g.version[p]
      BY Zenon, <2>1, <2>2, <2>3, <2>7, DeleteEffect
    <3> QED
      BY Zenon, <2>2, <2>4, <2>5, <2>7, <3>1 DEF SameElsewhere, Kept, Deleted, g, d
  <2> QED
    BY Zenon, <2>6, <2>7
<1> QED
  BY Zenon, <1>1, <1>2

(* Deleting one point with an operation newer than its copy. *)
LEMMA DeleteOneEffect ==
    ASSUME NEW g \in Segment, NEW n \in Versions \ {0}, NEW p \in Points,
           g.version[p] <= n
    PROVE  LET d == DeletePoint(g, n, p) IN
           /\ SameElsewhere(g, d, {p})
           /\ d.total = g.total
           /\ IF g.version[p] = 0 THEN Kept(g, d, p) ELSE Deleted(g, d, p, n)
<1> DEFINE d == DeletePoint(g, n, p)
           at == [Nowhere EXCEPT ![p] = n]
<1>1. at \in [Points -> Versions] /\ at[p] = n /\ \A q \in Points \ {p} : at[q] = 0
  BY LifecycleAssumption DEF Nowhere, Versions
<1>2. d = DeletePoints(g, at)
  BY Zenon DEF DeletePoint
<1>3. \A q \in Points : g.version[q] \in Nat
  BY LifecycleAssumption DEF Segment, Versions
<1>0. g \in Segment
  BY Zenon
<1> HIDE DEF at, d
<1>4. d \in Segment /\ d.appendable = g.appendable /\ d.is_proxy = g.is_proxy
      /\ d.total = g.total
  BY Zenon, <1>0, <1>1, <1>2, DeleteEffect
<1>5. CASE g.is_proxy
  <2>1. d.version = g.version
        /\ \A q \in Points : d.deleted_points[q] =
               IF at[q] # 0 /\ g.version[q] # 0 THEN at[q] ELSE g.deleted_points[q]
    BY <1>0, <1>1, <1>2, <1>5, DeleteEffect
  <2> QED
    BY Zenon, <1>1, <1>4, <1>5, <2>1 DEF SameElsewhere, Kept, Deleted, d
<1>6. CASE ~g.is_proxy
  <2>1. d.deleted_points = g.deleted_points
        /\ \A q \in Points : d.version[q] =
               IF at[q] # 0 /\ g.version[q] # 0 /\ g.version[q] <= at[q]
               THEN 0 ELSE g.version[q]
    BY Zenon, <1>0, <1>1, <1>2, <1>6, DeleteEffect
  <2> QED
    BY Zenon, <1>1, <1>3, <1>4, <1>6, <2>1 DEF SameElsewhere, Kept, Deleted, d
<1> QED
  BY Zenon, <1>5, <1>6

-----------------------------------------------------------------------------
(* What an update does to the Segments, seen from one of them. *)
UpdateEffect(p, written) ==
    /\ DOMAIN segments' = DOMAIN segments
    /\ \A s \in DOMAIN segments :
          LET g == segments[s]
              d == segments'[s]
          IN  /\ SameElsewhere(g, d, {p})
              /\ g.total <= d.total
              /\ IF s \in written
                 THEN /\ ~g.is_proxy
                      /\ d.version[p] = op + 1
                      /\ g.version[p] = 0 => d.total > 0
                 ELSE \/ Kept(g, d, p)
                      \/ HasPoint(g, p) /\ Deleted(g, d, p, g.version[p])
                      \/ g.version[p] # 0 /\ Deleted(g, d, p, op + 1)

(* The newest copies of a point that some Segment has. *)
LEMMA SomethingToUpdate ==
    ASSUME TypeOK, NEW p \in Points, Occurrences(segments, p) # {}
    PROVE  ToUpdate(segments, p) # {}
<1> DEFINE V == {segments[s].version[p] : s \in Occurrences(segments, p)}
<1>1. \A s \in DOMAIN segments : segments[s].version[p] \in Versions
  BY Zenon DEF TypeOK, Segment
<1>2. V \subseteq Versions
  BY Zenon, <1>1 DEF Occurrences
<1>3. V # {}
  BY Zenon
<1>4. Max(V) \in V
  <2> HIDE DEF V
  <2> QED
    BY Zenon, <1>2, <1>3, MaxOfVersions
<1>5. PICK s \in Occurrences(segments, p) : segments[s].version[p] = LatestVersion(segments, p)
  BY Zenon, <1>4 DEF LatestVersion
<1> QED
  BY Zenon, <1>5 DEF ToUpdate

(* An upsert writes at least one Segment. *)
LEMMA UpsertEffects ==
    ASSUME StructureInv, NEW p \in Points, Upsert(p)
    PROVE  \E written \in SUBSET AppendableSegments(segments) :
               written # {} /\ UpdateEffect(p, written)
<1> DEFINE n == op + 1
           H == DeletePointsFromSegments(segments, {p})
           writable == AppendableSegments(segments)
           moved == ToUpdate(segments, p) \ writable
<1>0. /\ n \in Versions \ {0} /\ op \in Nat /\ n \in Nat
      /\ \A s \in DOMAIN segments : segments[s] \in Segment
      /\ \A s \in DOMAIN segments : segments[s].version[p] \in Nat
      /\ \A s \in DOMAIN segments : segments[s].version[p] <= op
      /\ \A s \in DOMAIN segments : segments[s].total \in Nat
  BY LifecycleAssumption DEF Upsert, StructureInv, TypeOK, Versions, Segment
<1>1. PICK target \in [moved -> writable] :
        LET written == (ToUpdate(segments, p) \cap writable) \cup {target[s] : s \in moved}
            W == [s \in DOMAIN H |-> IF s \in written THEN UpsertPoint(H[s], n, p) ELSE H[s]]
        IN  segments' = [s \in DOMAIN W |->
               IF s \in moved /\ ~MovedSourceStays(W[target[s]], p)
               THEN DeletePoint(W[s], n, p) ELSE W[s]]
  BY Zenon DEF Upsert
<1> DEFINE written == (ToUpdate(segments, p) \cap writable) \cup {target[s] : s \in moved}
           W == [s \in DOMAIN H |-> IF s \in written THEN UpsertPoint(H[s], n, p) ELSE H[s]]
<1>2. writable \subseteq DOMAIN segments /\ written \subseteq writable /\ moved \cap written = {}
      /\ \A s \in writable : ~segments[s].is_proxy
  BY Zenon DEF AppendableSegments, CanWrite
<1>3. written # {}
  <2>1. ToUpdate(segments, p) # {}
    BY Zenon, SomethingToUpdate DEF Upsert, StructureInv
  <2>2. PICK s \in ToUpdate(segments, p) : TRUE
    BY Zenon, <2>1
  <2>3. CASE s \in writable
    BY Zenon, <2>2, <2>3
  <2>4. CASE s \in moved
    BY Zenon, <2>2, <2>4
  <2> QED
    BY Zenon, <2>2, <2>3, <2>4
<1>4. /\ DOMAIN H = DOMAIN segments
      /\ \A s \in DOMAIN segments :
           /\ SameElsewhere(segments[s], H[s], {p})
           /\ H[s].total = segments[s].total
           /\ \/ Kept(segments[s], H[s], p)
              \/ /\ s \in ToDelete(segments, p)
                 /\ Deleted(segments[s], H[s], p, segments[s].version[p])
  BY <1>0, ObsoleteEffect
<1>5. \A s \in ToUpdate(segments, p) : s \notin ToDelete(segments, p) /\ HasPoint(segments[s], p)
  BY Zenon DEF ToDelete, ToUpdate, Occurrences
<1>6. \A s \in ToDelete(segments, p) : HasPoint(segments[s], p)
  BY Zenon DEF ToDelete, Occurrences
<1>7. segments' = [s \in DOMAIN W |-> IF s \in moved /\ ~MovedSourceStays(W[target[s]], p)
                                      THEN DeletePoint(W[s], n, p) ELSE W[s]]
  BY Zenon, <1>1
<1> HIDE DEF H, writable, moved, written
<1>8. DOMAIN segments' = DOMAIN segments
  BY Zenon, <1>4, <1>7
<1>9. ASSUME NEW s \in DOMAIN segments
      PROVE  LET g == segments[s]
                 d == segments'[s]
             IN  /\ SameElsewhere(g, d, {p})
                 /\ g.total <= d.total
                 /\ IF s \in written
                    THEN /\ ~g.is_proxy
                         /\ d.version[p] = op + 1
                         /\ g.version[p] = 0 => d.total > 0
                    ELSE \/ Kept(g, d, p)
                         \/ HasPoint(g, p) /\ Deleted(g, d, p, g.version[p])
                         \/ g.version[p] # 0 /\ Deleted(g, d, p, op + 1)
  <2> DEFINE g == segments[s]
             d == segments'[s]
             h == H[s]
  <2>1. /\ g \in Segment /\ h \in Segment /\ SameElsewhere(g, h, {p}) /\ h.total = g.total
        /\ g.total \in Nat /\ g.version[p] \in Nat /\ g.version[p] <= op
    BY Zenon, <1>0, <1>4, <1>9 DEF SameElsewhere
  <2>2. h.version[p] \in {g.version[p], 0}
    BY Zenon, <1>4, <1>9 DEF Kept, Deleted
  <2>3. h.version[p] <= n
    BY <1>0, <2>1, <2>2
  <2>4. CASE s \in written
    <3>1. d = UpsertPoint(h, n, p)
      BY Zenon, <1>2, <1>4, <1>7, <2>4
    <3> HIDE DEF d, h, g, n
    <3>0. h \in Segment /\ n \in Versions /\ h.version[p] <= n
      BY Zenon, <1>0, <2>1, <2>3
    <3>2. /\ d \in Segment /\ d.appendable = h.appendable /\ d.is_proxy = h.is_proxy
          /\ d.deleted_points = h.deleted_points
          /\ d.total \in {h.total, h.total + 1}
          /\ d.version = [h.version EXCEPT ![p] = n]
          /\ h.version[p] = 0 => d.total = h.total + 1
      BY <3>0, <3>1, UpsertEffect
    <3>3. DOMAIN h.version = Points
      BY Zenon, <2>1 DEF Segment
    <3>4. SameElsewhere(g, d, {p})
      BY Zenon, <2>1, <3>2, <3>3 DEF SameElsewhere
    <3>5. d.version[p] = n
      BY Zenon, <3>2, <3>3
    <3>6. g.total <= d.total /\ (g.version[p] = 0 => d.total > 0)
      BY <2>1, <2>2, <3>2
    <3>7. ~g.is_proxy
      BY Zenon, <1>2, <2>4 DEF g
    <3> QED
      BY Zenon, <2>4, <3>4, <3>5, <3>6, <3>7 DEF g, d, n
  <2>5. CASE s \in moved
    <3>1. s \notin written /\ W[s] = h
      BY Zenon, <1>2, <1>4, <2>5
    <3>2. HasPoint(g, p) /\ Kept(g, h, p)
      BY Zenon, <1>4, <1>5, <2>5 DEF moved
    <3>3. g.version[p] # 0 /\ h.version[p] = g.version[p] /\ h.is_proxy = g.is_proxy
      BY Zenon, <2>1, <3>2 DEF HasPoint, Kept, SameElsewhere
    <3>4. d = h \/ d = DeletePoint(h, n, p)
      BY Zenon, <1>4, <1>7, <3>1
    <3>5. CASE d = h
      BY <2>1, <3>1, <3>2, <3>5
    <3>6. CASE d = DeletePoint(h, n, p)
      <4> HIDE DEF d, h, g
      <4>1. SameElsewhere(h, d, {p}) /\ d.total = h.total /\ Deleted(h, d, p, n)
        BY Zenon, <1>0, <2>1, <2>3, <3>3, <3>6, DeleteOneEffect
      <4>2. SameElsewhere(g, d, {p}) /\ Deleted(g, d, p, n)
        BY Zenon, <2>1, <3>2, <3>3, <4>1 DEF SameElsewhere, Deleted, Kept
      <4> QED
        BY <2>1, <3>1, <3>3, <4>1, <4>2 DEF g, d
    <3> QED
      BY Zenon, <3>4, <3>5, <3>6
  <2>6. CASE s \notin written /\ s \notin moved
    <3>1. d = h
      BY Zenon, <1>4, <1>7, <2>6
    <3>2. \/ Kept(g, h, p)
          \/ s \in ToDelete(segments, p) /\ Deleted(g, h, p, g.version[p])
      BY Zenon, <1>4, <1>9
    <3>3. s \in ToDelete(segments, p) => HasPoint(g, p)
      BY Zenon, <1>6
    <3> QED
      BY <2>1, <2>6, <3>1, <3>2, <3>3
  <2> QED
    BY Zenon, <2>4, <2>5, <2>6
<1>10. UpdateEffect(p, written)
  BY Zenon, <1>8, <1>9 DEF UpdateEffect
<1>11. written \in SUBSET AppendableSegments(segments)
  BY Zenon, <1>2 DEF writable
<1> QED
  BY Zenon, <1>3, <1>10, <1>11

(* An insert writes one Segment and leaves the others alone. *)
LEMMA InsertEffects ==
    ASSUME StructureInv, NEW p \in Points, Insert(p)
    PROVE  \E written \in SUBSET AppendableSegments(segments) :
               written # {} /\ UpdateEffect(p, written)
<1> DEFINE n == op + 1
<1>0. /\ n \in Versions \ {0} /\ op \in Nat /\ n \in Nat
      /\ \A s \in DOMAIN segments : segments[s] \in Segment
      /\ \A s \in DOMAIN segments : segments[s].version[p] \in Nat
      /\ \A s \in DOMAIN segments : segments[s].version[p] <= op
      /\ \A s \in DOMAIN segments : segments[s].total \in Nat
  BY LifecycleAssumption DEF Insert, StructureInv, TypeOK, Versions, Segment
<1>1. PICK t \in AppendableSegments(segments) :
          segments' = [segments EXCEPT ![t] = UpsertPoint(@, n, p)]
  BY Zenon DEF Insert
<1>2. t \in DOMAIN segments /\ ~segments[t].is_proxy
  BY Zenon DEF AppendableSegments, CanWrite
<1>3. DOMAIN segments' = DOMAIN segments
  BY Zenon, <1>1
<1>4. ASSUME NEW s \in DOMAIN segments, s # t
      PROVE  segments'[s] = segments[s]
  BY Zenon, <1>1, <1>4
<1> DEFINE h == segments[t]
           d == segments'[t]
<1>5. d = UpsertPoint(h, n, p) /\ h \in Segment /\ h.version[p] <= n /\ n \in Versions
      /\ h.total \in Nat
  BY <1>0, <1>1, <1>2
<1>6. /\ SameElsewhere(h, d, {p}) /\ h.total <= d.total /\ d.version[p] = n
      /\ h.version[p] = 0 => d.total > 0
  <2> HIDE DEF h, d, n
  <2>1. /\ d \in Segment /\ d.appendable = h.appendable /\ d.is_proxy = h.is_proxy
        /\ d.deleted_points = h.deleted_points
        /\ d.total \in {h.total, h.total + 1}
        /\ d.version = [h.version EXCEPT ![p] = n]
        /\ h.version[p] = 0 => d.total = h.total + 1
    BY <1>5, UpsertEffect
  <2>2. DOMAIN h.version = Points
    BY Zenon, <1>5 DEF Segment
  <2>3. SameElsewhere(h, d, {p})
    BY Zenon, <2>1, <2>2 DEF SameElsewhere
  <2>4. d.version[p] = n
    BY Zenon, <2>1, <2>2
  <2>5. h.total <= d.total /\ (h.version[p] = 0 => d.total > 0)
    BY <1>5, <2>1
  <2> QED
    BY Zenon, <2>3, <2>4, <2>5
<1>7. \A s \in DOMAIN segments : s # t =>
          /\ SameElsewhere(segments[s], segments'[s], {p})
          /\ segments[s].total <= segments'[s].total
          /\ Kept(segments[s], segments'[s], p)
  BY <1>0, <1>4 DEF SameElsewhere, Kept
<1>8. UpdateEffect(p, {t})
  BY <1>2, <1>3, <1>6, <1>7, Zenon DEF UpdateEffect
<1> QED
  BY Zenon, <1>8

(* A delete reaches every copy. *)
LEMMA DeleteEffects ==
    ASSUME StructureInv, NEW p \in Points, Delete(p)
    PROVE  /\ UpdateEffect(p, {})
           /\ \A s \in DOMAIN segments :
                 IF segments[s].version[p] = 0
                 THEN Kept(segments[s], segments'[s], p)
                 ELSE Deleted(segments[s], segments'[s], p, op + 1)
<1> DEFINE n == op + 1
<1>0. /\ n \in Versions \ {0} /\ op \in Nat /\ n \in Nat
      /\ \A s \in DOMAIN segments : segments[s] \in Segment
      /\ \A s \in DOMAIN segments : segments[s].version[p] \in Nat
      /\ \A s \in DOMAIN segments : segments[s].version[p] <= op
      /\ \A s \in DOMAIN segments : segments[s].total \in Nat
  BY LifecycleAssumption DEF Delete, StructureInv, TypeOK, Versions, Segment
<1>1. segments' = [s \in DOMAIN segments |-> DeletePoint(segments[s], n, p)]
  BY Zenon DEF Delete
<1>2. DOMAIN segments' = DOMAIN segments
  BY Zenon, <1>1
<1>3. ASSUME NEW s \in DOMAIN segments
      PROVE  /\ SameElsewhere(segments[s], segments'[s], {p})
             /\ segments'[s].total = segments[s].total
             /\ IF segments[s].version[p] = 0
                THEN Kept(segments[s], segments'[s], p)
                ELSE Deleted(segments[s], segments'[s], p, n)
  <2>1. segments'[s] = DeletePoint(segments[s], n, p)
    BY Zenon, <1>1
  <2>2. segments[s] \in Segment /\ segments[s].version[p] <= n /\ n \in Versions \ {0}
    BY <1>0
  <2> HIDE DEF n
  <2> QED
    BY <2>1, <2>2, DeleteOneEffect
<1>4. \A s \in DOMAIN segments : segments[s].total <= segments'[s].total
  BY <1>0, <1>3
<1>5. UpdateEffect(p, {})
  BY <1>2, <1>3, <1>4, Zenon DEF UpdateEffect
<1> QED
  BY Zenon, <1>3, <1>5

(* Updates change neither who owns a Segment nor whether it can be written. *)
LEMMA UpdateKeepsStructure ==
    ASSUME StructureInv, NEW p \in Points, NEW written, UpdateEffect(p, written),
           op < MaxOp, op' = op + 1, latest' \in [Points -> Versions],
           UNCHANGED <<deferred_internal_id, next_id, jobs, sessions>>
    PROVE  StructureInv'
<1>1. /\ DOMAIN segments' = DOMAIN segments
      /\ \A s \in DOMAIN segments : /\ segments'[s] \in Segment
                                    /\ segments'[s].appendable = segments[s].appendable
                                    /\ segments'[s].is_proxy = segments[s].is_proxy
  BY Zenon DEF UpdateEffect, SameElsewhere
<1>2. op \in Nat /\ op' \in 0 .. MaxOp
  BY LifecycleAssumption DEF StructureInv, TypeOK
<1>3. TypeOK'
  BY Zenon, <1>1, <1>2 DEF StructureInv, TypeOK
<1>4. ProxiesAreOwned'
  BY Zenon, <1>1 DEF StructureInv, ProxiesAreOwned
<1>5. AlwaysAppendable'
  BY Zenon, <1>1 DEF StructureInv, AlwaysAppendable, AppendableSegments, CanWrite
<1>6. ASSUME NEW s \in DOMAIN segments, NEW q \in Points
      PROVE  segments'[s].version[q] <= op + 1
  <2>1. segments[s].version[q] <= op /\ segments[s].version[q] \in Nat
    BY LifecycleAssumption DEF StructureInv, TypeOK, Segment, Versions
  <2>2. segments'[s].version[q] \in {segments[s].version[q], 0, op + 1}
    BY <1>6 DEF UpdateEffect, SameElsewhere, Kept, Deleted
  <2> QED
    BY <1>2, <2>1, <2>2
<1>7. (\A j \in Jobs : Running(j) <=> jobs[j].inputs # {})'
  BY Zenon DEF StructureInv, Running
<1>8. ASSUME NEW j \in Jobs, NEW q \in Points
      PROVE  jobs[j].out.version[q] <= op + 1
  <2>1. jobs[j].out.version[q] <= op /\ jobs[j].out.version[q] \in Nat
    BY LifecycleAssumption DEF StructureInv, TypeOK, Job, Segment, Versions
  <2> QED
    BY <1>2, <2>1
<1> QED
  BY Zenon, <1>1, <1>3, <1>4, <1>5, <1>6, <1>7, <1>8 DEF StructureInv

-----------------------------------------------------------------------------
(* What every optimizer task knows of its inputs. *)
LEMMA JobFacts ==
    ASSUME StructureInv, NEW j \in Jobs
    PROVE  /\ jobs[j] \in Job
           /\ jobs[j].out \in Segment /\ ~jobs[j].out.is_proxy
           /\ jobs[j].seen \in [Points -> Versions]
           /\ \A t \in jobs[j].inputs :
                 /\ t \in DOMAIN segments /\ segments[t].is_proxy
                 /\ segments[t] \in Segment
                 /\ segments[t].version \in [Points -> Versions]
                 /\ segments[t].deleted_points \in [Points -> Versions]
<1>1. jobs[j] \in Job /\ ~jobs[j].out.is_proxy
  BY Zenon DEF StructureInv, TypeOK
<1>2. jobs[j].out \in Segment /\ jobs[j].seen \in [Points -> Versions]
  BY Zenon, <1>1 DEF Job
<1>3. ASSUME NEW t \in jobs[j].inputs
      PROVE  /\ t \in DOMAIN segments /\ segments[t].is_proxy
             /\ segments[t] \in Segment
             /\ segments[t].version \in [Points -> Versions]
             /\ segments[t].deleted_points \in [Points -> Versions]
  <2>1. t \in DOMAIN segments /\ segments[t].is_proxy
    BY Zenon, <1>3 DEF StructureInv, ProxiesAreOwned
  <2>2. segments[t] \in Segment
    BY Zenon, <2>1 DEF StructureInv, TypeOK
  <2> QED
    BY Zenon, <2>1, <2>2 DEF Segment
<1> QED
  BY Zenon, <1>1, <1>2, <1>3

(* A step of a running task that changes neither its inputs nor the holder. *)
LEMMA JobStepKeepsStructure ==
    ASSUME StructureInv, NEW j \in Jobs, Running(j),
           jobs' \in [Jobs -> Job], \A k \in Jobs \ {j} : jobs'[k] = jobs[k],
           Running(j)', jobs'[j].inputs = jobs[j].inputs, ~jobs'[j].out.is_proxy,
           jobs'[j].unread \subseteq jobs[j].inputs,
           \A p \in Points : jobs'[j].out.version[p] <= op,
           UNCHANGED <<deferred_internal_id, op, segments, next_id, sessions, latest>>
    PROVE  StructureInv'
<1>1. TypeOK'
  BY Zenon DEF StructureInv, TypeOK
<1>2. \A k \in Jobs : jobs'[k].inputs = jobs[k].inputs
  BY Zenon
<1>3. ProxiesAreOwned'
  BY Zenon, <1>2 DEF StructureInv, ProxiesAreOwned
<1>4. AlwaysAppendable'
  BY Zenon DEF StructureInv, AlwaysAppendable, AppendableSegments, CanWrite
<1>5. \A k \in Jobs : Running(k)' <=> Running(k)
  BY Zenon DEF Running
<1>6. \A k \in Jobs, p \in Points : jobs'[k].out.version[p] <= op
  BY Zenon DEF StructureInv
<1> QED
  BY Zenon, <1>1, <1>2, <1>3, <1>4, <1>5, <1>6 DEF StructureInv

(* Of each point, the merge takes the highest version its inputs have. *)
LEMMA MergedVersions ==
    ASSUME StructureInv, NEW j \in Jobs, Running(j), NEW p \in Points
    PROVE  LET v == UniquePoints(jobs[j].inputs)
           IN  /\ v \in [Points -> Versions]
               /\ \E t \in jobs[j].inputs : segments[t].version[p] = v[p]
               /\ \A t \in jobs[j].inputs : segments[t].version[p] <= v[p]
<1> DEFINE inputs == jobs[j].inputs
           V(q) == {segments[t].version[q] : t \in inputs}
<1>1. inputs # {}
  BY Zenon DEF StructureInv
<1>2. ASSUME NEW q \in Points
      PROVE  Max(V(q)) \in V(q) /\ (\A v \in V(q) : v <= Max(V(q))) /\ Max(V(q)) \in Versions
  <2>1. V(q) \subseteq Versions /\ V(q) # {}
    BY <1>1, JobFacts
  <2> HIDE DEF V
  <2> QED
    BY Zenon, <2>1, MaxOfVersions
<1>3. UniquePoints(inputs) = [q \in Points |-> Max(V(q))]
  BY Zenon DEF UniquePoints
<1> QED
  BY <1>2, <1>3, Zenon

(* The merge, seen from the structure. *)
LEMMA MergeKeepsStructure ==
    ASSUME StructureInv, NEW j \in Jobs, Merge(j)
    PROVE  StructureInv' /\ Running(j)
<1> DEFINE inputs == jobs[j].inputs
           version == UniquePoints(inputs)
           kept == {p \in Points : version[p] # 0}
           others == \E s \in inputs : segments[s].others
           count == Cardinality(kept) + IF others THEN Others ELSE 0
<1>0. Running(j)
  BY Zenon DEF Merge, Running
<1>1. PICK appendable \in BOOLEAN, order \in Injection(kept, 0 .. count - 1) :
         jobs' = [jobs EXCEPT ![j].phase = "apply", ![j].unread = inputs,
                              ![j].out = [EmptySegment EXCEPT
                                !.version = version,
                                !.offset = [p \in Points |-> IF p \in kept THEN order[p] ELSE 0],
                                !.total = count,
                                !.others = others,
                                !.appendable = appendable]]
  BY Zenon DEF Merge
<1>2. version \in [Points -> Versions]
  <2>1. CASE Points = {}
    BY Zenon, <2>1 DEF UniquePoints
  <2>2. CASE Points # {}
    BY Zenon, <1>0, <2>2, MergedVersions
  <2> QED
    BY Zenon, <2>1, <2>2
<1>3. count \in Nat /\ others \in BOOLEAN
  <2>1. Cardinality(kept) \in Nat /\ Others \in Nat
    BY Zenon, LifecycleAssumption, FS_Subset, FS_CardinalityType
  <2> HIDE DEF kept, others
  <2>2. count \in Nat
    BY <2>1
  <2> QED
    BY <2>2 DEF others
<1>4. \A p \in kept : order[p] \in Nat
  BY <1>3 DEF Injection
<1>5. jobs[j] \in Job /\ inputs \in SUBSET Ids
  BY Zenon, JobFacts DEF Job
<1> DEFINE offset == [p \in Points |-> IF p \in kept THEN order[p] ELSE 0]
           out == [EmptySegment EXCEPT !.version = version, !.offset = offset,
                                       !.total = count, !.others = others,
                                       !.appendable = appendable]
<1>6. offset \in [Points -> Nat]
  BY Zenon, <1>4
<1>7. Nowhere \in [Points -> Versions]
  BY LifecycleAssumption DEF Nowhere, Versions
<1> HIDE DEF version, count, others, offset, kept
<1>8. out \in Segment /\ ~out.is_proxy
  BY <1>2, <1>3, <1>6, <1>7, Zenon DEF EmptySegment, Segment
<1>9. jobs' = [jobs EXCEPT ![j] = [jobs[j] EXCEPT !.phase = "apply", !.unread = inputs,
                                                  !.out = out]]
  BY <1>1, Zenon DEF offset
<1> HIDE DEF out
<1>10. [jobs[j] EXCEPT !.phase = "apply", !.unread = inputs, !.out = out] \in Job
  BY <1>5, <1>8, Zenon DEF Job, Phases
<1>11. /\ jobs' \in [Jobs -> Job]
       /\ \A k \in Jobs \ {j} : jobs'[k] = jobs[k]
       /\ jobs'[j] = [jobs[j] EXCEPT !.phase = "apply", !.unread = inputs, !.out = out]
  BY Zenon, <1>9, <1>10 DEF StructureInv, TypeOK
<1>12. Running(j)' /\ jobs'[j].inputs = jobs[j].inputs /\ ~jobs'[j].out.is_proxy
       /\ jobs'[j].unread \subseteq jobs[j].inputs
  BY Zenon, <1>5, <1>8, <1>11 DEF Running, Job
<1>13. jobs'[j].out = out /\ out.version = version
  BY Zenon, <1>5, <1>11 DEF Job, out, EmptySegment
<1>14. ASSUME NEW p \in Points
       PROVE  version[p] <= op
  BY <1>0, MergedVersions, JobFacts DEF StructureInv, version
<1> QED
  BY <1>0, <1>11, <1>12, <1>13, <1>14, JobStepKeepsStructure, Zenon DEF Merge

(* The deletes read so far are those of proxies. *)
LEMMA MergedDeletes ==
    ASSUME NEW a \in [Points -> Versions], NEW b \in [Points -> Versions]
    PROVE  /\ MergeDeletes(a, b) \in [Points -> Versions]
           /\ \A p \in Points : MergeDeletes(a, b)[p] \in {a[p], b[p]}
<1>1. ASSUME NEW p \in Points
      PROVE  Max({a[p], b[p]}) \in {a[p], b[p]} /\ Max({a[p], b[p]}) \in Versions
  <2>1. {a[p], b[p]} \subseteq Versions /\ {a[p], b[p]} # {}
    BY Zenon
  <2> QED
    BY Zenon, <2>1, MaxOfVersions
<1> QED
  BY Zenon, <1>1 DEF MergeDeletes

(* A task that replaces its record by another of the same inputs. *)
LEMMA JobReplaced ==
    ASSUME StructureInv, NEW j \in Jobs, Running(j), NEW job \in Job,
           jobs' = [jobs EXCEPT ![j] = job],
           job.phase \in {"merge", "apply", "recheck", "ready"},
           job.inputs = jobs[j].inputs, ~job.out.is_proxy, job.unread \subseteq job.inputs,
           \A p \in Points : job.out.version[p] <= op,
           UNCHANGED <<deferred_internal_id, op, segments, next_id, sessions, latest>>
    PROVE  /\ StructureInv'
           /\ jobs'[j] = job
           /\ \A k \in Jobs \ {j} : jobs'[k] = jobs[k]
<1>1. /\ jobs' \in [Jobs -> Job]
      /\ \A k \in Jobs \ {j} : jobs'[k] = jobs[k]
      /\ jobs'[j] = job
  BY Zenon DEF StructureInv, TypeOK
<1>2. Running(j)'
  BY Zenon, <1>1 DEF Running
<1> QED
  BY Zenon, <1>1, <1>2, JobStepKeepsStructure

(* One proxy's deletes are read. *)
LEMMA ReadDeletesEffect ==
    ASSUME StructureInv, NEW j \in Jobs, ReadDeletes(j)
    PROVE  /\ StructureInv' /\ Running(j)
           /\ \A k \in Jobs \ {j} : jobs'[k] = jobs[k]
           /\ \E t \in jobs[j].inputs : jobs'[j] = [jobs[j] EXCEPT
                  !.unread = @ \ {t},
                  !.seen = MergeDeletes(@, segments[t].deleted_points)]
<1>0. Running(j) /\ jobs[j] \in Job
  BY Zenon, JobFacts DEF ReadDeletes, Running
<1>1. PICK t \in jobs[j].unread : jobs' = [jobs EXCEPT
             ![j].unread = @ \ {t},
             ![j].seen = MergeDeletes(@, segments[t].deleted_points)]
  BY Zenon DEF ReadDeletes
<1> DEFINE seen == MergeDeletes(jobs[j].seen, segments[t].deleted_points)
           job == [jobs[j] EXCEPT !.unread = @ \ {t}, !.seen = seen]
<1>2. jobs' = [jobs EXCEPT ![j] = job]
  BY <1>1, Zenon
<1>3. t \in jobs[j].inputs
  BY Zenon DEF StructureInv
<1>4. seen \in [Points -> Versions]
  BY Zenon, <1>3, JobFacts, MergedDeletes
<1> HIDE DEF seen
<1>5. job \in Job
  BY <1>0, <1>4, Zenon DEF Job
<1>6. /\ job.phase \in {"merge", "apply", "recheck", "ready"}
      /\ job.inputs = jobs[j].inputs /\ ~job.out.is_proxy /\ job.unread \subseteq job.inputs
      /\ \A p \in Points : job.out.version[p] <= op
  BY Zenon, <1>0 DEF Job, Running, StructureInv
<1>7. UNCHANGED <<deferred_internal_id, op, segments, next_id, sessions, latest>>
  BY Zenon DEF ReadDeletes
<1>8. /\ StructureInv' /\ jobs'[j] = job
      /\ \A k \in Jobs \ {j} : jobs'[k] = jobs[k]
  <2> HIDE DEF job
  <2> QED
    BY <1>0, <1>2, <1>5, <1>6, <1>7, JobReplaced, Zenon
<1> QED
  BY <1>0, <1>3, <1>8, Zenon DEF seen

(* The first pass is applied to the output. *)
LEMMA ApplyDeletesEffect ==
    ASSUME StructureInv, NEW j \in Jobs, ApplyDeletes(j)
    PROVE  /\ StructureInv' /\ Running(j)
           /\ \A k \in Jobs \ {j} : jobs'[k] = jobs[k]
           /\ jobs'[j] = [jobs[j] EXCEPT
                  !.phase = "recheck",
                  !.out = DeletePoints(@, jobs[j].seen),
                  !.unread = jobs[j].inputs,
                  !.seen = Nowhere]
<1>0. Running(j) /\ jobs[j] \in Job
  BY Zenon, JobFacts DEF ApplyDeletes, Running
<1> DEFINE out == DeletePoints(jobs[j].out, jobs[j].seen)
           job == [jobs[j] EXCEPT !.phase = "recheck", !.out = out,
                                  !.unread = jobs[j].inputs, !.seen = Nowhere]
<1>1. jobs' = [jobs EXCEPT ![j] = job]
  BY Zenon DEF ApplyDeletes
<1>2. out \in Segment /\ ~out.is_proxy /\ \A p \in Points : out.version[p] <= op
  <2>1. jobs[j].out \in Segment /\ jobs[j].seen \in [Points -> Versions]
        /\ ~jobs[j].out.is_proxy /\ op \in Nat
    BY JobFacts, LifecycleAssumption DEF StructureInv, TypeOK
  <2>2. out \in Segment /\ ~out.is_proxy
        /\ \A p \in Points : out.version[p] \in {0, jobs[j].out.version[p]}
    BY <2>1, DeleteEffect
  <2> QED
    BY <2>1, <2>2 DEF StructureInv
<1>3. Nowhere \in [Points -> Versions]
  BY LifecycleAssumption DEF Nowhere, Versions
<1> HIDE DEF out
<1>4. job \in Job
  BY <1>0, <1>2, <1>3, Zenon DEF Job, Phases
<1>5. /\ job.phase \in {"merge", "apply", "recheck", "ready"}
      /\ job.inputs = jobs[j].inputs /\ ~job.out.is_proxy /\ job.unread \subseteq job.inputs
      /\ \A p \in Points : job.out.version[p] <= op
  BY Zenon, <1>0, <1>2 DEF Job
<1>6. UNCHANGED <<deferred_internal_id, op, segments, next_id, sessions, latest>>
  BY Zenon DEF ApplyDeletes
<1>7. /\ StructureInv' /\ jobs'[j] = job
      /\ \A k \in Jobs \ {j} : jobs'[k] = jobs[k]
  <2> HIDE DEF job
  <2> QED
    BY <1>0, <1>1, <1>4, <1>5, <1>6, JobReplaced, Zenon
<1> QED
  BY Zenon, <1>0, <1>7 DEF out

(* The second pass finds what is gone already. *)
LEMMA NoteRemovedEffect ==
    ASSUME StructureInv, NEW j \in Jobs, NoteRemoved(j)
    PROVE  /\ StructureInv' /\ Running(j)
           /\ \A k \in Jobs \ {j} : jobs'[k] = jobs[k]
           /\ jobs'[j] = [jobs[j] EXCEPT
                  !.phase = "ready",
                  !.already_removed = {p \in Points : /\ jobs[j].seen[p] # 0
                                                       /\ jobs[j].out.version[p] = 0},
                  !.seen = Nowhere]
<1>0. Running(j) /\ jobs[j] \in Job
  BY JobFacts, Zenon DEF NoteRemoved, Running
<1> DEFINE removed == {p \in Points : jobs[j].seen[p] # 0 /\ jobs[j].out.version[p] = 0}
           job == [jobs[j] EXCEPT !.phase = "ready", !.already_removed = removed,
                                  !.seen = Nowhere]
<1>1. jobs' = [jobs EXCEPT ![j] = job]
  BY Zenon DEF NoteRemoved
<1>2. removed \in SUBSET Points
  BY Zenon
<1>3. Nowhere \in [Points -> Versions]
  BY LifecycleAssumption DEF Nowhere, Versions
<1> HIDE DEF removed
<1>4. job \in Job
  BY <1>0, <1>2, <1>3, Zenon DEF Job, Phases
<1>5. /\ job.phase \in {"merge", "apply", "recheck", "ready"}
      /\ job.inputs = jobs[j].inputs /\ ~job.out.is_proxy /\ job.unread \subseteq job.inputs
      /\ \A p \in Points : job.out.version[p] <= op
  BY Zenon, <1>0 DEF Job, StructureInv
<1>6. UNCHANGED <<deferred_internal_id, op, segments, next_id, sessions, latest>>
  BY Zenon DEF NoteRemoved
<1>7. /\ StructureInv' /\ jobs'[j] = job
      /\ \A k \in Jobs \ {j} : jobs'[k] = jobs[k]
  <2> HIDE DEF job
  <2> QED
    BY <1>0, <1>1, <1>4, <1>5, <1>6, JobReplaced, Zenon
<1> QED
  BY Zenon, <1>0, <1>7 DEF removed

(* A Segment with nothing in it. *)
LEMMA EmptyFacts ==
    /\ EmptySegment \in Segment
    /\ ~EmptySegment.is_proxy /\ EmptySegment.appendable
    /\ EmptySegment.version = Nowhere
    /\ EmptySegment.deleted_points = Nowhere
    /\ Nowhere \in [Points -> Versions]
    /\ \A p \in Points : Nowhere[p] = 0
<1>1. Nowhere \in [Points -> Versions] /\ Nowhere \in [Points -> Nat]
  BY LifecycleAssumption DEF Nowhere, Versions
<1> QED
  BY Zenon, <1>1 DEF EmptySegment, Segment, Nowhere

(* Putting a proxy in front of a Segment, and taking it away. *)
LEMMA WrapFacts ==
    ASSUME NEW g \in Segment
    PROVE  /\ Wrap(g) \in Segment /\ Wrap(g).is_proxy /\ Wrap(g).deleted_points = Nowhere
           /\ Wrap(g).version = g.version /\ Wrap(g).offset = g.offset
           /\ Wrap(g).total = g.total /\ Wrap(g).appendable = g.appendable
           /\ Unwrap(g) \in Segment /\ ~Unwrap(g).is_proxy
           /\ Unwrap(g).deleted_points = Nowhere
           /\ Unwrap(g).version = g.version /\ Unwrap(g).offset = g.offset
           /\ Unwrap(g).total = g.total /\ Unwrap(g).appendable = g.appendable
<1>1. Nowhere \in [Points -> Versions]
  BY Zenon, EmptyFacts
<1> QED
  BY <1>1, Zenon DEF Wrap, Unwrap, Segment

(* What an optimizer that starts on some inputs does to the holder. *)
StartEffect(j, inputs) ==
    /\ inputs # {} /\ inputs \subseteq DOMAIN segments
    /\ \A s \in inputs : ~segments[s].is_proxy
    /\ next_id \notin DOMAIN segments /\ next_id \in Ids
    /\ DOMAIN segments' \in {DOMAIN segments, DOMAIN segments \cup {next_id}}
    /\ \A s \in DOMAIN segments :
          segments'[s] = IF s \in inputs THEN Wrap(segments[s]) ELSE segments[s]
    /\ next_id \in DOMAIN segments' => segments'[next_id] = EmptySegment
    /\ \A k \in Jobs \ {j} : jobs'[k] = jobs[k]
    /\ \E cow \in {0, next_id} :
          jobs'[j] = [Idle EXCEPT !.phase = "merge", !.inputs = inputs, !.cow = cow]

(* It takes Segments nobody has, and leaves or adds an appendable one. *)
LEMMA StartKeepsStructure ==
    ASSUME StructureInv, NEW j \in Jobs, StartOptimization(j)
    PROVE  StructureInv' /\ \E inputs \in SUBSET DOMAIN segments : StartEffect(j, inputs)
<1>1. PICK inputs \in (SUBSET DOMAIN segments) \ {{}} :
        LET extra == AppendableSegments(segments) \subseteq inputs
            H == [s \in DOMAIN segments |-> IF s \in inputs
                                            THEN Wrap(segments[s])
                                            ELSE segments[s]]
        IN  /\ jobs[j].phase = "idle"
            /\ AllOriginal(inputs)
            /\ next_id + 1 <= MaxId
            /\ segments' = [s \in DOMAIN H \cup (IF extra THEN {next_id} ELSE {})
                              |-> IF s \in DOMAIN H THEN H[s] ELSE EmptySegment]
            /\ next_id' = IF extra THEN next_id + 1 ELSE next_id
            /\ jobs' = [jobs EXCEPT ![j] =
                 [Idle EXCEPT !.phase = "merge", !.inputs = inputs,
                              !.cow = IF extra THEN next_id ELSE 0]]
            /\ UNCHANGED <<deferred_internal_id, op, sessions, latest>>
  BY Zenon DEF StartOptimization
<1> DEFINE extra == AppendableSegments(segments) \subseteq inputs
           cow == IF extra THEN next_id ELSE 0
           job == [Idle EXCEPT !.phase = "merge", !.inputs = inputs, !.cow = cow]
<1>2. /\ DOMAIN segments' = DOMAIN segments \cup (IF extra THEN {next_id} ELSE {})
      /\ \A s \in DOMAIN segments :
           segments'[s] = IF s \in inputs THEN Wrap(segments[s]) ELSE segments[s]
  BY Zenon, <1>1
<1>3. next_id \notin DOMAIN segments /\ next_id \in Ids /\ next_id \in Nat
      /\ DOMAIN segments \subseteq Ids /\ 0 \notin DOMAIN segments
  BY LifecycleAssumption DEF StructureInv, TypeOK, Ids
<1>4. next_id \in DOMAIN segments' => extra /\ segments'[next_id] = EmptySegment
  BY Zenon, <1>1, <1>3
<1>5. \A s \in inputs : ~segments[s].is_proxy
  BY Zenon, <1>1 DEF AllOriginal
<1>6. jobs' = [jobs EXCEPT ![j] = job] /\ cow \in {0, next_id}
  BY Zenon, <1>1
<1>7. job \in Job /\ job.phase = "merge" /\ job.inputs = inputs /\ ~job.out.is_proxy
      /\ job.unread = {} /\ job.out = EmptySegment
  <2>1. cow \in 0 .. MaxId
    BY <1>3, LifecycleAssumption DEF Ids
  <2> HIDE DEF cow
  <2> QED
    BY <1>3, <2>1, EmptyFacts, Zenon DEF Idle, Job, Phases
<1> HIDE DEF job, cow
<1>8. /\ jobs' \in [Jobs -> Job] /\ jobs'[j] = job
      /\ \A k \in Jobs \ {j} : jobs'[k] = jobs[k]
  BY Zenon, <1>6, <1>7 DEF StructureInv, TypeOK
<1>9. \A s \in DOMAIN segments :
         /\ segments[s] \in Segment
         /\ segments'[s] \in Segment
         /\ segments'[s].version = segments[s].version
         /\ segments'[s].is_proxy <=> (s \in inputs \/ segments[s].is_proxy)
         /\ segments'[s].appendable = segments[s].appendable
  BY <1>2, WrapFacts DEF StructureInv, TypeOK
<1>10. TypeOK'
  <2>1. next_id' \in 3 .. MaxId /\ DOMAIN segments' \subseteq 1 .. (next_id' - 1)
    BY <1>1, <1>2, <1>3, LifecycleAssumption DEF StructureInv, TypeOK
  <2>2. \A s \in DOMAIN segments' : segments'[s] \in Segment
    BY Zenon, <1>2, <1>4, <1>9, EmptyFacts
  <2> QED
    BY <1>1, <1>8, <2>1, <2>2, Zenon DEF StructureInv, TypeOK
<1>11. ProxiesAreOwned'
  <2>1. ASSUME NEW k \in Jobs, k # j
        PROVE  /\ \A s \in jobs'[k].inputs : s \in DOMAIN segments' /\ segments'[s].is_proxy
               /\ jobs'[k].inputs \cap jobs'[j].inputs = {}
    BY <1>2, <1>5, <1>7, <1>8, <1>9, <2>1 DEF StructureInv, ProxiesAreOwned
  <2>2. \A s \in jobs'[j].inputs : s \in DOMAIN segments' /\ segments'[s].is_proxy
    BY Zenon, <1>2, <1>7, <1>8, <1>9
  <2>3. \A k, l \in Jobs \ {j} : k # l => jobs'[k].inputs \cap jobs'[l].inputs = {}
    BY <1>8 DEF StructureInv, ProxiesAreOwned
  <2> QED
    BY Zenon, <2>1, <2>2, <2>3 DEF ProxiesAreOwned
<1>12. AlwaysAppendable'
  <2>1. CASE extra
    BY <1>2, <1>4, <2>1, EmptyFacts DEF AlwaysAppendable, AppendableSegments, CanWrite
  <2>2. CASE ~extra
    BY Zenon, <1>2, <1>9, <2>2 DEF AlwaysAppendable, AppendableSegments, CanWrite
  <2> QED
    BY Zenon, <2>1, <2>2
<1>13. \A s \in DOMAIN segments', p \in Points : segments'[s].version[p] <= op'
  <2>1. op' = op /\ op \in Nat
    BY <1>1, LifecycleAssumption DEF StructureInv, TypeOK
  <2> QED
    BY <1>2, <1>4, <1>9, <2>1, EmptyFacts DEF StructureInv
<1>14. (\A k \in Jobs : Running(k) <=> jobs[k].inputs # {})'
  BY Zenon, <1>7, <1>8 DEF StructureInv, Running
<1>15. \A k \in Jobs : ~jobs'[k].out.is_proxy /\ jobs'[k].unread \subseteq jobs'[k].inputs
  BY Zenon, <1>7, <1>8 DEF StructureInv
<1>19. \A k \in Jobs, p \in Points : jobs'[k].out.version[p] <= op'
  <2>1. op' = op /\ op \in Nat
    BY <1>1, LifecycleAssumption DEF StructureInv, TypeOK
  <2> QED
    BY <1>7, <1>8, <2>1, EmptyFacts DEF StructureInv
<1>16. StructureInv'
  BY Zenon, <1>10, <1>11, <1>12, <1>13, <1>14, <1>15, <1>19 DEF StructureInv
<1>17. StartEffect(j, inputs)
  <2>1. DOMAIN segments' \in {DOMAIN segments, DOMAIN segments \cup {next_id}}
    BY Zenon, <1>2
  <2>2. \E c \in {0, next_id} :
           jobs'[j] = [Idle EXCEPT !.phase = "merge", !.inputs = inputs, !.cow = c]
    BY <1>6, <1>8, Zenon DEF job
  <2> QED
    BY <1>2, <1>3, <1>4, <1>5, <1>8, <2>1, <2>2, Zenon DEF StartEffect
<1> QED
  BY Zenon, <1>16, <1>17

-----------------------------------------------------------------------------
(* The publication of an optimizer's output, its rollback and the sessions. *)

(* The parts of a publication. *)
Deletes(j) ==
    [p \in Points |-> IF p \in jobs[j].already_removed THEN 0
                      ELSE Max({segments[s].deleted_points[p] : s \in jobs[j].inputs})]

Output(j) == DeletePoints(jobs[j].out, Deletes(j))

Swapped(j) ==
    [s \in (DOMAIN segments \ jobs[j].inputs) \cup {next_id} |->
        IF s = next_id THEN Output(j) ELSE segments[s]]

Published(j) == RemoveIfNotNeeded(Swapped(j), jobs[j].cow)

NowVisible(j) ==
    {p \in Points : \E s \in jobs[j].inputs :
        HasPoint(segments[s], p) /\ PointIsDeferred(segments[s], p)}

(* What the output and the holder are before obsolete copies are deleted. *)
LEMMA PublishedFacts ==
    ASSUME StructureInv, NEW j \in Jobs, FinishOptimization(j)
    PROVE  /\ Running(j) /\ jobs[j].phase = "ready"
           /\ segments' = DeletePointsFromSegments(Published(j), NowVisible(j))
           /\ Deletes(j) \in [Points -> Versions]
           /\ \A p \in Points \ jobs[j].already_removed :
                 /\ \E s \in jobs[j].inputs : segments[s].deleted_points[p] = Deletes(j)[p]
                 /\ \A s \in jobs[j].inputs : segments[s].deleted_points[p] <= Deletes(j)[p]
           /\ Output(j) \in Segment /\ ~Output(j).is_proxy
           /\ next_id \notin DOMAIN segments
           /\ DOMAIN Published(j) \subseteq DOMAIN Swapped(j)
           /\ \A s \in DOMAIN Published(j) : /\ Published(j)[s] = Swapped(j)[s]
                                             /\ Published(j)[s] \in Segment
           /\ \A s \in DOMAIN Swapped(j) \ DOMAIN Published(j) :
                 Swapped(j)[s].total = 0 /\ ~Swapped(j)[s].is_proxy
           /\ AppendableSegments(Published(j)) # {}
<1> DEFINE inputs == jobs[j].inputs
           D(p) == {segments[s].deleted_points[p] : s \in inputs}
<1>1. Running(j) /\ jobs[j].phase = "ready"
  BY Zenon DEF FinishOptimization, Running
<1>2. inputs # {}
  BY Zenon, <1>1 DEF StructureInv
<1>3. ASSUME NEW p \in Points
      PROVE  Max(D(p)) \in D(p) /\ (\A v \in D(p) : v <= Max(D(p))) /\ Max(D(p)) \in Versions
  <2>1. D(p) \subseteq Versions /\ D(p) # {}
    BY <1>2, JobFacts
  <2> HIDE DEF D
  <2> QED
    BY Zenon, <2>1, MaxOfVersions
<1>4. Deletes(j) = [p \in Points |-> IF p \in jobs[j].already_removed THEN 0 ELSE Max(D(p))]
  BY Zenon DEF Deletes
<1>5. Deletes(j) \in [Points -> Versions]
  BY <1>3, <1>4, LifecycleAssumption DEF Versions
<1>6. \A p \in Points \ jobs[j].already_removed :
        /\ \E s \in inputs : segments[s].deleted_points[p] = Deletes(j)[p]
        /\ \A s \in inputs : segments[s].deleted_points[p] <= Deletes(j)[p]
  BY <1>3, <1>4, Zenon
<1>7. Output(j) \in Segment /\ ~Output(j).is_proxy
  BY <1>5, JobFacts, DeleteEffect DEF Output
<1>8. next_id \notin DOMAIN segments
  BY DEF StructureInv, TypeOK
<1>9. segments' = DeletePointsFromSegments(Published(j), NowVisible(j))
  BY Zenon DEF FinishOptimization, Published, Swapped, Output, Deletes, NowVisible
<1>10. /\ DOMAIN Swapped(j) = (DOMAIN segments \ inputs) \cup {next_id}
       /\ \A s \in DOMAIN Swapped(j) : Swapped(j)[s] \in Segment
       /\ \A s \in DOMAIN segments \ inputs : Swapped(j)[s] = segments[s]
  BY Zenon, <1>7, <1>8 DEF Swapped, StructureInv, TypeOK
<1>11. AppendableSegments(Swapped(j)) # {}
  <2>1. PICK s \in DOMAIN segments : segments[s].appendable /\ ~segments[s].is_proxy
    BY Zenon DEF StructureInv, AlwaysAppendable, AppendableSegments, CanWrite
  <2>2. s \in DOMAIN segments \ inputs
    BY Zenon, <2>1, JobFacts
  <2> QED
    BY Zenon, <1>10, <2>1, <2>2 DEF AppendableSegments, CanWrite
<1> DEFINE cow == jobs[j].cow
           rest == [t \in DOMAIN Swapped(j) \ {cow} |-> Swapped(j)[t]]
<1>12. \/ Published(j) = Swapped(j)
       \/ /\ Published(j) = rest /\ cow \in DOMAIN Swapped(j)
          /\ AppendableSegments(rest) # {}
          /\ Swapped(j)[cow].total = 0 /\ ~Swapped(j)[cow].is_proxy
  BY Zenon DEF Published, RemoveIfNotNeeded
<1>13. DOMAIN rest = DOMAIN Swapped(j) \ {cow} /\ \A s \in DOMAIN rest : rest[s] = Swapped(j)[s]
  BY Zenon
<1> HIDE DEF rest
<1>14. /\ DOMAIN Published(j) \subseteq DOMAIN Swapped(j)
       /\ \A s \in DOMAIN Published(j) : /\ Published(j)[s] = Swapped(j)[s]
                                         /\ Published(j)[s] \in Segment
       /\ \A s \in DOMAIN Swapped(j) \ DOMAIN Published(j) :
             Swapped(j)[s].total = 0 /\ ~Swapped(j)[s].is_proxy
       /\ AppendableSegments(Published(j)) # {}
  BY Zenon, <1>10, <1>11, <1>12, <1>13
<1> QED
  BY Zenon, <1>1, <1>5, <1>6, <1>7, <1>8, <1>9, <1>14

(* The idle record of a task. *)
LEMMA IdleFacts ==
    /\ Idle \in Job /\ Idle.inputs = {} /\ Idle.unread = {} /\ ~Idle.out.is_proxy
    /\ Idle.phase = "idle" /\ Idle.already_removed = {}
    /\ Idle.seen = Nowhere /\ Idle.out = EmptySegment
    /\ [Idle EXCEPT !.phase = "stuck"] \in Job
<1>1. 0 \in 0 .. MaxId
  BY LifecycleAssumption
<1> QED
  BY Zenon, <1>1, EmptyFacts DEF Idle, Job, Phases

(* A task that ends, and the Segments of all others stay as they are. *)
LEMMA EndKeepsStructure ==
    ASSUME StructureInv, NEW j \in Jobs, NEW job \in Job,
           job.phase \in {"idle", "stuck"}, job.inputs = {}, job.unread = {}, job.out = EmptySegment,
           jobs' = [jobs EXCEPT ![j] = job],
           next_id' \in 3 .. MaxId, DOMAIN segments' \subseteq 1 .. (next_id' - 1),
           \A s \in DOMAIN segments' : segments'[s] \in Segment,
           \A s \in DOMAIN segments \ jobs[j].inputs : segments[s].is_proxy =>
               s \in DOMAIN segments' /\ segments'[s].is_proxy,
           AlwaysAppendable',
           \A s \in DOMAIN segments', p \in Points : segments'[s].version[p] <= op,
           UNCHANGED <<deferred_internal_id, op, sessions, latest>>
    PROVE  /\ StructureInv'
           /\ jobs'[j] = job
           /\ \A k \in Jobs \ {j} : jobs'[k] = jobs[k]
<1>1. /\ jobs' \in [Jobs -> Job] /\ jobs'[j] = job
      /\ \A k \in Jobs \ {j} : jobs'[k] = jobs[k]
  BY Zenon DEF StructureInv, TypeOK
<1>2. TypeOK'
  BY Zenon, <1>1 DEF StructureInv, TypeOK
<1>3. ASSUME NEW k \in Jobs, NEW s \in jobs'[k].inputs
      PROVE  s \in DOMAIN segments' /\ segments'[s].is_proxy
  <2>1. k # j
    BY Zenon, <1>1, <1>3
  <2>2. s \in DOMAIN segments \ jobs[j].inputs /\ segments[s].is_proxy
    BY Zenon, <1>1, <1>3, <2>1 DEF StructureInv, ProxiesAreOwned
  <2> QED
    BY Zenon, <2>2
<1>4. \A k, l \in Jobs : k # l => jobs'[k].inputs \cap jobs'[l].inputs = {}
  BY <1>1 DEF StructureInv, ProxiesAreOwned
<1>5. ProxiesAreOwned'
  BY Zenon, <1>3, <1>4 DEF ProxiesAreOwned
<1>6. (\A k \in Jobs : Running(k) <=> jobs[k].inputs # {})'
  BY Zenon, <1>1 DEF StructureInv, Running
<1>7. \A k \in Jobs : /\ ~jobs'[k].out.is_proxy /\ jobs'[k].unread \subseteq jobs'[k].inputs
                      /\ \A p \in Points : jobs'[k].out.version[p] <= op'
  <2>1. op' = op /\ op \in Nat
    BY LifecycleAssumption DEF StructureInv, TypeOK
  <2> QED
    BY <1>1, <2>1, EmptyFacts DEF StructureInv
<1>8. \A s \in DOMAIN segments', p \in Points : segments'[s].version[p] <= op'
  BY Zenon
<1>9. StructureInv'
  BY Zenon, <1>2, <1>5, <1>6, <1>7, <1>8 DEF StructureInv
<1> QED
  BY Zenon, <1>1, <1>9

(* The publication, seen from the structure. *)
LEMMA FinishKeepsStructure ==
    ASSUME StructureInv, NEW j \in Jobs, FinishOptimization(j)
    PROVE  /\ StructureInv'
           /\ jobs'[j] = Idle
           /\ \A k \in Jobs \ {j} : jobs'[k] = jobs[k]
<1> DEFINE H == Published(j)
<1>1. /\ \A s \in DOMAIN H : H[s] = Swapped(j)[s] /\ H[s] \in Segment
      /\ DOMAIN H \subseteq DOMAIN Swapped(j)
      /\ \A s \in DOMAIN Swapped(j) \ DOMAIN H : ~Swapped(j)[s].is_proxy
      /\ AppendableSegments(H) # {}
      /\ segments' = DeletePointsFromSegments(H, NowVisible(j))
      /\ next_id \notin DOMAIN segments
      /\ Deletes(j) \in [Points -> Versions]
  BY Zenon, PublishedFacts
<1>2. /\ DOMAIN Swapped(j) = (DOMAIN segments \ jobs[j].inputs) \cup {next_id}
      /\ Swapped(j)[next_id] = Output(j)
      /\ \A s \in DOMAIN segments \ jobs[j].inputs : Swapped(j)[s] = segments[s]
  BY Zenon, <1>1 DEF Swapped
<1> HIDE DEF H
<1>3. /\ DOMAIN segments' = DOMAIN H
      /\ \A s \in DOMAIN H :
           /\ SameElsewhere(H[s], segments'[s], NowVisible(j))
           /\ \A p \in Points :
                 \/ Kept(H[s], segments'[s], p)
                 \/ /\ p \in NowVisible(j) /\ s \in ToDelete(H, p)
                    /\ Deleted(H[s], segments'[s], p, H[s].version[p])
  BY Zenon, <1>1, ObsoleteEffect
<1>4. \A s \in DOMAIN H : /\ segments'[s] \in Segment
                          /\ segments'[s].appendable = H[s].appendable
                          /\ segments'[s].is_proxy = H[s].is_proxy
                          /\ \A p \in Points : segments'[s].version[p] \in {0, H[s].version[p]}
  BY Zenon, <1>3 DEF SameElsewhere, Kept, Deleted
<1>5. AlwaysAppendable'
  BY Zenon, <1>1, <1>3, <1>4 DEF AlwaysAppendable, AppendableSegments, CanWrite
<1>6. op \in Nat /\ next_id \in 3 .. MaxId /\ next_id' = next_id + 1 /\ next_id < MaxId
      /\ DOMAIN segments \subseteq 1 .. (next_id - 1) /\ MaxId \in Nat
  BY LifecycleAssumption DEF StructureInv, TypeOK, FinishOptimization
<1>7. next_id' \in 3 .. MaxId /\ DOMAIN segments' \subseteq 1 .. (next_id' - 1)
  BY <1>1, <1>2, <1>3, <1>6
<1>8. \A p \in Points : Output(j).version[p] <= op
  <2>1. \A p \in Points : Output(j).version[p] \in {0, jobs[j].out.version[p]}
    BY <1>1, JobFacts, DeleteEffect DEF Output
  <2> QED
    BY <1>6, <2>1 DEF StructureInv
<1>9. ASSUME NEW s \in DOMAIN segments', NEW p \in Points
      PROVE  segments'[s].version[p] <= op
  <2>1. H[s].version[p] <= op
    BY <1>1, <1>2, <1>3, <1>8 DEF StructureInv
  <2> QED
    BY <1>3, <1>4, <1>6, <2>1
<1>10. \A s \in DOMAIN segments \ jobs[j].inputs : segments[s].is_proxy =>
           s \in DOMAIN segments' /\ segments'[s].is_proxy
  BY <1>1, <1>2, <1>3, <1>4
<1>11. jobs' = [jobs EXCEPT ![j] = Idle]
       /\ UNCHANGED <<deferred_internal_id, op, sessions, latest>>
  BY Zenon DEF FinishOptimization
<1>12. \A s \in DOMAIN segments' : segments'[s] \in Segment
  BY Zenon, <1>3, <1>4
<1> QED
  BY <1>5, <1>7, <1>9, <1>10, <1>11, <1>12, IdleFacts, EndKeepsStructure, Zenon

(* A proxy hands its records to the Segment it wraps. *)
Settled(g, d) ==
    /\ d \in Segment /\ d.appendable = g.appendable /\ d.total = g.total
    /\ \A p \in Points :
          d.version[p] = IF /\ g.deleted_points[p] # 0 /\ g.version[p] # 0
                            /\ g.version[p] <= g.deleted_points[p]
                         THEN 0 ELSE g.version[p]

LEMMA PropagateEffect ==
    ASSUME NEW g \in Segment
    PROVE  /\ Settled(g, Propagate(g)) /\ Settled(g, Unwrap(Propagate(g)))
           /\ Propagate(g).is_proxy /\ Propagate(g).deleted_points = Nowhere
           /\ ~Unwrap(Propagate(g)).is_proxy
<1> DEFINE u == Unwrap(g)
           d == DeletePoints(u, g.deleted_points)
<1>1. u \in Segment /\ ~u.is_proxy /\ u.version = g.version /\ u.total = g.total
      /\ u.appendable = g.appendable /\ g.deleted_points \in [Points -> Versions]
  BY Zenon, WrapFacts DEF Segment
<1> HIDE DEF u
<1>2. /\ d \in Segment /\ d.appendable = u.appendable /\ d.total = u.total
      /\ \A p \in Points : d.version[p] =
            IF /\ g.deleted_points[p] # 0 /\ u.version[p] # 0
               /\ u.version[p] <= g.deleted_points[p]
            THEN 0 ELSE u.version[p]
  BY Zenon, <1>1, DeleteEffect
<1> HIDE DEF d
<1>3. Propagate(g) = Wrap(d)
  BY Zenon DEF Propagate, u, d
<1>4. /\ Propagate(g) \in Segment /\ Propagate(g).is_proxy
      /\ Propagate(g).deleted_points = Nowhere
      /\ Propagate(g).version = d.version /\ Propagate(g).total = d.total
      /\ Propagate(g).appendable = d.appendable
  BY <1>2, <1>3, WrapFacts
<1>5. Settled(g, Propagate(g))
  BY Zenon, <1>1, <1>2, <1>4 DEF Settled
<1>6. Settled(g, Unwrap(Propagate(g))) /\ ~Unwrap(Propagate(g)).is_proxy
  BY <1>4, <1>5, WrapFacts DEF Settled
<1> QED
  BY Zenon, <1>4, <1>5, <1>6

(* Only some of the records reach the wrapped Segment. *)
HalfSettled(g, d) ==
    /\ d \in Segment /\ d.appendable = g.appendable /\ d.total = g.total
    /\ d.is_proxy /\ d.deleted_points = g.deleted_points
    /\ \A p \in Points :
          \/ d.version[p] = g.version[p]
          \/ d.version[p] = 0 /\ g.deleted_points[p] # 0

LEMMA FailedPropagateEffect ==
    ASSUME NEW g \in Segment, NEW done
    PROVE  LET part == DeletePoints(Unwrap(g), [p \in Points |->
                          IF p \in done THEN g.deleted_points[p] ELSE 0])
           IN  HalfSettled(g, [part EXCEPT !.is_proxy = TRUE,
                                           !.deleted_points = g.deleted_points])
<1> DEFINE u == Unwrap(g)
           at == [p \in Points |-> IF p \in done THEN g.deleted_points[p] ELSE 0]
           part == DeletePoints(u, at)
           d == [part EXCEPT !.is_proxy = TRUE, !.deleted_points = g.deleted_points]
<1>1. u \in Segment /\ ~u.is_proxy /\ u.version = g.version /\ u.total = g.total
      /\ u.appendable = g.appendable /\ g.deleted_points \in [Points -> Versions]
  BY Zenon, WrapFacts DEF Segment
<1>2. at \in [Points -> Versions] /\ \A p \in Points : at[p] \in {0, g.deleted_points[p]}
  BY <1>1, LifecycleAssumption DEF Versions
<1> HIDE DEF u, at
<1>3. /\ part \in Segment /\ part.appendable = u.appendable /\ part.total = u.total
      /\ \A p \in Points : part.version[p] =
            IF at[p] # 0 /\ u.version[p] # 0 /\ u.version[p] <= at[p] THEN 0 ELSE u.version[p]
  BY <1>1, <1>2, DeleteEffect, SMTT(20)
<1> HIDE DEF part
<1>4. /\ d \in Segment /\ d.is_proxy /\ d.deleted_points = g.deleted_points
      /\ d.version = part.version /\ d.total = part.total /\ d.appendable = part.appendable
  BY <1>1, <1>3, Zenon DEF Segment
<1> HIDE DEF d
<1>5. HalfSettled(g, d)
  BY Zenon, <1>1, <1>2, <1>3, <1>4 DEF HalfSettled
<1> QED
  BY Zenon, <1>5 DEF d, part, at, u

(* A rollback, complete or not, seen from the holder. *)
RollbackEffect(j) ==
    /\ DOMAIN segments' = DOMAIN segments
    /\ \A s \in DOMAIN segments \ jobs[j].inputs : segments'[s] = segments[s]
    /\ \A s \in jobs[j].inputs :
          \/ segments'[s] = segments[s]
          \/ HalfSettled(segments[s], segments'[s])
          \/ /\ Settled(segments[s], segments'[s])
             /\ segments'[s].is_proxy => segments'[s].deleted_points = Nowhere

LEMMA RollbackKeepsStructure ==
    ASSUME StructureInv, NEW j \in Jobs, RollbackEffect(j), NEW job \in Job,
           job.phase \in {"idle", "stuck"}, job.inputs = {}, job.unread = {},
           job.out = EmptySegment, jobs' = [jobs EXCEPT ![j] = job],
           UNCHANGED <<deferred_internal_id, op, next_id, sessions, latest>>
    PROVE  /\ StructureInv'
           /\ jobs'[j] = job
           /\ \A k \in Jobs \ {j} : jobs'[k] = jobs[k]
<1>1. /\ op \in Nat
      /\ \A s \in DOMAIN segments : segments[s] \in Segment
      /\ \A s \in DOMAIN segments, p \in Points : segments[s].version[p] <= op
  BY LifecycleAssumption DEF StructureInv, TypeOK
<1>2. \A s \in DOMAIN segments : segments'[s] \in Segment
  BY Zenon, <1>1 DEF RollbackEffect, Settled, HalfSettled
<1>3. \A s \in DOMAIN segments, p \in Points :
          segments'[s].version[p] \in {0, segments[s].version[p]}
  BY Zenon DEF RollbackEffect, Settled, HalfSettled
<1>4. \A s \in DOMAIN segments', p \in Points : segments'[s].version[p] <= op
  BY <1>1, <1>3 DEF RollbackEffect
<1>5. AlwaysAppendable'
  <2>1. PICK s \in DOMAIN segments : segments[s].appendable /\ ~segments[s].is_proxy
    BY Zenon DEF StructureInv, AlwaysAppendable, AppendableSegments, CanWrite
  <2>2. s \in DOMAIN segments \ jobs[j].inputs
    BY Zenon, <2>1, JobFacts
  <2>3. s \in DOMAIN segments' /\ segments'[s] = segments[s]
    BY Zenon, <2>2 DEF RollbackEffect
  <2> QED
    BY Zenon, <2>1, <2>3 DEF AlwaysAppendable, AppendableSegments, CanWrite
<1>6. \A s \in DOMAIN segments \ jobs[j].inputs : segments[s].is_proxy =>
          s \in DOMAIN segments' /\ segments'[s].is_proxy
  BY Zenon DEF RollbackEffect
<1>7. next_id' \in 3 .. MaxId /\ DOMAIN segments' \subseteq 1 .. (next_id' - 1)
      /\ \A s \in DOMAIN segments' : segments'[s] \in Segment
  BY Zenon, <1>2 DEF RollbackEffect, StructureInv, TypeOK
<1> QED
  BY <1>4, <1>5, <1>6, <1>7, EndKeepsStructure, Zenon

(* Both ways a rollback can go. *)
LEMMA RollbackEffects ==
    ASSUME StructureInv, NEW j \in Jobs, Rollback(j) \/ RollbackFails(j)
    PROVE  /\ StructureInv' /\ RollbackEffect(j)
           /\ jobs'[j] \in {Idle, [Idle EXCEPT !.phase = "stuck"]}
           /\ \A k \in Jobs \ {j} : jobs'[k] = jobs[k]
<1>1. \A s \in jobs[j].inputs : s \in DOMAIN segments /\ segments[s] \in Segment
  BY Zenon, JobFacts
<1>2. CASE Rollback(j)
  <2>1. RollbackEffect(j)
    BY Zenon, <1>1, <1>2, PropagateEffect DEF Rollback, RollbackEffect
  <2>2. jobs' = [jobs EXCEPT ![j] = Idle]
        /\ UNCHANGED <<deferred_internal_id, op, next_id, sessions, latest>>
    BY Zenon, <1>2 DEF Rollback
  <2> QED
    BY <2>1, <2>2, IdleFacts, RollbackKeepsStructure, Zenon
<1>3. CASE RollbackFails(j)
  <2>1. PICK failing \in jobs[j].inputs, done \in SUBSET Points :
        \E before \in SUBSET (jobs[j].inputs \ {failing}) :
          LET g == segments[failing]
              part == DeletePoints(Unwrap(g), [p \in Points |->
                         IF p \in done THEN g.deleted_points[p] ELSE 0])
          IN  segments' = [s \in DOMAIN segments |->
                 IF s \in before THEN Propagate(segments[s])
                 ELSE IF s = failing
                 THEN [part EXCEPT !.is_proxy = TRUE,
                                   !.deleted_points = g.deleted_points]
                 ELSE segments[s]]
    BY <1>3, Zenon DEF RollbackFails
  <2> DEFINE g == segments[failing]
             part == DeletePoints(Unwrap(g), [p \in Points |->
                         IF p \in done THEN g.deleted_points[p] ELSE 0])
             d == [part EXCEPT !.is_proxy = TRUE, !.deleted_points = g.deleted_points]
  <2>2. PICK before \in SUBSET (jobs[j].inputs \ {failing}) :
          segments' = [s \in DOMAIN segments |->
                 IF s \in before THEN Propagate(segments[s])
                 ELSE IF s = failing THEN d ELSE segments[s]]
    BY <2>1, Zenon
  <2>3. HalfSettled(g, d)
    BY <1>1, <2>1, FailedPropagateEffect, Zenon
  <2> HIDE DEF d
  <2>4. DOMAIN segments' = DOMAIN segments
    BY Zenon, <2>2
  <2>5. \A s \in DOMAIN segments \ jobs[j].inputs : segments'[s] = segments[s]
    BY <2>1, <2>2, Zenon
  <2>6. ASSUME NEW s \in jobs[j].inputs
        PROVE  \/ segments'[s] = segments[s]
               \/ HalfSettled(segments[s], segments'[s])
               \/ /\ Settled(segments[s], segments'[s])
                  /\ segments'[s].is_proxy => segments'[s].deleted_points = Nowhere
    <3>1. CASE s \in before
      <4>1. segments'[s] = Propagate(segments[s])
        BY Zenon, <1>1, <2>2, <3>1
      <4> QED
        BY Zenon, <1>1, <4>1, PropagateEffect
    <3>2. CASE s \notin before /\ s = failing
      BY Zenon, <1>1, <2>2, <2>3, <3>2
    <3>3. CASE s \notin before /\ s # failing
      BY Zenon, <1>1, <2>2, <3>3
    <3> QED
      BY Zenon, <3>1, <3>2, <3>3
  <2>7. RollbackEffect(j)
    BY Zenon, <2>4, <2>5, <2>6 DEF RollbackEffect
  <2>8. jobs' = [jobs EXCEPT ![j] = [Idle EXCEPT !.phase = "stuck"]]
        /\ UNCHANGED <<deferred_internal_id, op, next_id, sessions, latest>>
    BY <1>3, Zenon DEF RollbackFails
  <2> DEFINE job == [Idle EXCEPT !.phase = "stuck"]
  <2>9. job \in Job /\ job.phase = "stuck" /\ job.inputs = {} /\ job.unread = {}
        /\ job.out = EmptySegment
    BY Zenon, IdleFacts DEF Idle
  <2>10. jobs' = [jobs EXCEPT ![j] = job]
    BY Zenon, <2>8
  <2>11. StructureInv' /\ jobs'[j] = job /\ \A k \in Jobs \ {j} : jobs'[k] = jobs[k]
    <3> HIDE DEF job
    <3> QED
      BY <2>7, <2>8, <2>9, <2>10, RollbackKeepsStructure, Zenon
  <2> QED
    BY Zenon, <2>7, <2>11
<1> QED
  BY Zenon, <1>2, <1>3

-----------------------------------------------------------------------------
(* Opening and closing exact sessions. *)
LEMMA SessionsKeepStructure ==
    ASSUME StructureInv, NEW x \in Sessions, Pin(x) \/ Unpin(x)
    PROVE  StructureInv'
<1> DEFINE Record == [handles : SUBSET Ids, proxies : SUBSET Ids,
                      opened : SUBSET (Ids \X Points \X Versions), active : BOOLEAN]
<1>1. UNCHANGED <<deferred_internal_id, op, segments, next_id, jobs, latest>>
  BY Zenon DEF Pin, Unpin
<1>2. DOMAIN segments \subseteq Ids
  BY LifecycleAssumption DEF StructureInv, TypeOK, Ids
<1>3. Unpinned \in Record
  BY Zenon DEF Unpinned
<1>4. ASSUME Pin(x)
      PROVE  sessions' \in [Sessions -> Record]
  <2> DEFINE handles == DOMAIN segments
             proxies == {s \in handles : segments[s].is_proxy}
  <2>1. Shown(handles, proxies) \subseteq Ids \X Points \X Versions
    <3>1. \A s \in DOMAIN segments, p \in Points : segments[s].version[p] \in Versions
      BY Zenon DEF StructureInv, TypeOK, Segment
    <3>2. ASSUME NEW e \in Shown(handles, proxies)
          PROVE  e \in Ids \X Points \X Versions
      <4>1. PICK s \in handles : e \in {<<s, p, segments[s].version[p]>> :
                                        p \in {q \in Points : Shows(s, q, proxies)}}
        BY Zenon, <3>2 DEF Shown
      <4>2. PICK p \in Points : e = <<s, p, segments[s].version[p]>>
        BY Zenon, <4>1
      <4> QED
        BY Zenon, <1>2, <3>1, <4>1, <4>2
    <3> QED
      BY Zenon, <3>2
  <2>2. sessions' = [sessions EXCEPT ![x] =
              [handles |-> handles, proxies |-> proxies,
               opened |-> Shown(handles, proxies), active |-> TRUE]]
    BY Zenon, <1>4 DEF Pin
  <2>3. [handles |-> handles, proxies |-> proxies,
         opened |-> Shown(handles, proxies), active |-> TRUE] \in Record
    BY Zenon, <1>2, <2>1
  <2> QED
    BY Zenon, <2>2, <2>3 DEF StructureInv, TypeOK
<1>5. ASSUME Unpin(x)
      PROVE  sessions' \in [Sessions -> Record]
  BY Zenon, <1>3, <1>5 DEF Unpin, StructureInv, TypeOK
<1>6. sessions' \in [Sessions -> Record]
  BY Zenon, <1>4, <1>5
<1>7. TypeOK'
  BY Zenon, <1>1, <1>6 DEF StructureInv, TypeOK
<1> QED
  BY Zenon, <1>1, <1>7 DEF StructureInv, Running, ProxiesAreOwned, AlwaysAppendable,
                    AppendableSegments, CanWrite
-----------------------------------------------------------------------------
(* The two Segments a Shard starts with. *)
LEMMA InitialSegments ==
    ASSUME Init
    PROVE  /\ DOMAIN segments = {1, 2} /\ latest \in [Points -> {0, 1}]
           /\ \A s \in {1, 2} : segments[s] \in Segment /\ ~segments[s].is_proxy
           /\ segments[1].version = latest
           /\ segments[2].version = Nowhere /\ segments[2].appendable
           /\ \A p \in Points : latest[p] # 0 => segments[1].total > 0
<1>1. PICK present \in SUBSET Points :
          /\ latest = [p \in Points |-> IF p \in present THEN 1 ELSE 0]
          /\ segments = [s \in {1, 2} |->
               IF s = 1
               THEN [EmptySegment EXCEPT !.version = latest,
                                         !.total = Cardinality(present),
                                         !.appendable = FALSE]
               ELSE [EmptySegment EXCEPT !.total = Others, !.others = TRUE]]
  BY Zenon DEF Init
<1>2. IsFiniteSet(present) /\ Cardinality(present) \in Nat
  BY Zenon, LifecycleAssumption, FS_Subset, FS_CardinalityType
<1>3. present # {} => Cardinality(present) > 0
  BY <1>2, FS_EmptySet
<1>4. latest \in [Points -> {0, 1}] /\ latest \in [Points -> Versions]
  BY <1>1, LifecycleAssumption DEF Versions
<1>5. EmptySegment \in Segment
  BY Zenon, EmptyFacts
<1>6. /\ segments[1] = [EmptySegment EXCEPT !.version = latest,
                                            !.total = Cardinality(present),
                                            !.appendable = FALSE]
      /\ segments[2] = [EmptySegment EXCEPT !.total = Others, !.others = TRUE]
      /\ DOMAIN segments = {1, 2}
  BY <1>1
<1>7. /\ segments[1] \in Segment /\ ~segments[1].is_proxy /\ segments[1].version = latest
      /\ segments[1].total = Cardinality(present)
  <2> DEFINE n == Cardinality(present)
             g == segments[1]
  <2>0. g = [EmptySegment EXCEPT !.version = latest, !.total = n, !.appendable = FALSE]
    BY Zenon, <1>6
  <2>1. n \in Nat /\ latest \in [Points -> Versions]
    BY Zenon, <1>2, <1>4
  <2> HIDE DEF n, g
  <2>2. g = [version |-> latest, offset |-> Nowhere, total |-> n, others |-> FALSE,
             appendable |-> FALSE, is_proxy |-> FALSE, deleted_points |-> Nowhere]
    BY <2>0, Zenon DEF EmptySegment
  <2>3. Nowhere \in [Points -> Versions] /\ Nowhere \in [Points -> Nat]
    BY Zenon, <1>5, EmptyFacts DEF Nowhere
  <2>4. ~g.is_proxy /\ g.version = latest /\ g.total = n
    BY Zenon, <2>2
  <2>5. g \in Segment
    BY Zenon, <2>1, <2>2, <2>3 DEF Segment
  <2> QED
    BY Zenon, <2>4, <2>5 DEF g, n
<1>8. /\ segments[2] \in Segment /\ ~segments[2].is_proxy /\ segments[2].version = Nowhere
      /\ segments[2].appendable
  <2>1. Others \in Nat
    BY Zenon, LifecycleAssumption
  <2> QED
    BY <1>5, <1>6, <2>1, Zenon DEF EmptySegment, Segment
<1>9. \A p \in Points : latest[p] # 0 => segments[1].total > 0
  BY Zenon, <1>1, <1>3, <1>7
<1> QED
  BY <1>4, <1>6, <1>7, <1>8, <1>9, Zenon

LEMMA InitStructure == Init => StructureInv
<1> SUFFICES ASSUME Init PROVE StructureInv
  BY Zenon
<1>1. /\ DOMAIN segments = {1, 2} /\ latest \in [Points -> {0, 1}]
      /\ \A s \in {1, 2} : segments[s] \in Segment /\ ~segments[s].is_proxy
      /\ segments[1].version = latest
      /\ segments[2].version = Nowhere /\ segments[2].appendable
  BY Zenon, InitialSegments
<1>2. op = 1 /\ next_id = 3 /\ deferred_internal_id \in Thresholds
      /\ jobs = [j \in Jobs |-> Idle] /\ sessions = [x \in Sessions |-> Unpinned]
  BY Zenon DEF Init
<1>3. TypeOK
  <2>1. op \in 0 .. MaxOp /\ next_id \in 3 .. MaxId /\ latest \in [Points -> Versions]
        /\ DOMAIN segments \subseteq 1 .. (next_id - 1)
    BY <1>1, <1>2, LifecycleAssumption DEF Versions
  <2>2. jobs \in [Jobs -> Job]
    BY Zenon, <1>2, IdleFacts
  <2>3. sessions \in [Sessions ->
          [handles : SUBSET Ids, proxies : SUBSET Ids,
           opened : SUBSET (Ids \X Points \X Versions), active : BOOLEAN]]
    BY Zenon, <1>2 DEF Unpinned
  <2> QED
    BY Zenon, <1>1, <1>2, <2>1, <2>2, <2>3 DEF TypeOK
<1>4. \A j \in Jobs : jobs[j] = Idle
  BY Zenon, <1>2
<1>5. \A s \in DOMAIN segments, p \in Points : segments[s].version[p] <= op
  BY <1>1, <1>2, EmptyFacts
<1>6. \A j \in Jobs, p \in Points : jobs[j].out.version[p] <= op
  BY <1>2, <1>4, IdleFacts, EmptyFacts
<1>7. ProxiesAreOwned
  BY Zenon, <1>4, IdleFacts DEF ProxiesAreOwned
<1>8. AlwaysAppendable
  BY Zenon, <1>1 DEF AlwaysAppendable, AppendableSegments, CanWrite
<1>9. \A j \in Jobs : /\ Running(j) <=> jobs[j].inputs # {}
                      /\ ~jobs[j].out.is_proxy /\ jobs[j].unread \subseteq jobs[j].inputs
  BY Zenon, <1>4, IdleFacts DEF Running
<1> QED
  BY Zenon, <1>3, <1>5, <1>6, <1>7, <1>8, <1>9 DEF StructureInv

LEMMA NextKeepsStructure == StructureInv /\ [Next]_vars => StructureInv'
<1> SUFFICES ASSUME StructureInv, [Next]_vars PROVE StructureInv'
  BY Zenon
<1>1. ASSUME NEW p \in Points, Upsert(p) \/ Insert(p) \/ Delete(p)
      PROVE  StructureInv'
  <2>1. /\ op < MaxOp /\ op' = op + 1
        /\ UNCHANGED <<deferred_internal_id, next_id, jobs, sessions>>
        /\ latest' = [latest EXCEPT ![p] = op + 1] \/ latest' = [latest EXCEPT ![p] = 0]
    BY Zenon, <1>1 DEF Upsert, Insert, Delete
  <2>2. latest' \in [Points -> Versions]
    BY <2>1, LifecycleAssumption DEF StructureInv, TypeOK, Versions
  <2>3. PICK written : UpdateEffect(p, written)
    BY Zenon, <1>1, UpsertEffects, InsertEffects, DeleteEffects
  <2> QED
    BY Zenon, <2>1, <2>2, <2>3, UpdateKeepsStructure
<1>2. ASSUME NEW j \in Jobs,
             \/ StartOptimization(j) \/ Merge(j) \/ ReadDeletes(j) \/ ApplyDeletes(j)
             \/ NoteRemoved(j) \/ FinishOptimization(j) \/ Rollback(j) \/ RollbackFails(j)
      PROVE  StructureInv'
  BY <1>2, StartKeepsStructure, MergeKeepsStructure, ReadDeletesEffect, ApplyDeletesEffect,
     NoteRemovedEffect, FinishKeepsStructure, RollbackEffects, Zenon
<1>3. ASSUME NEW x \in Sessions, Pin(x) \/ Unpin(x)
      PROVE  StructureInv'
  BY Zenon, <1>3, SessionsKeepStructure
<1>4. CASE UNCHANGED vars
  BY Zenon, <1>4 DEF vars, StructureInv, TypeOK, Running, ProxiesAreOwned, AlwaysAppendable,
              AppendableSegments, CanWrite
<1> QED
  BY Zenon, <1>1, <1>2, <1>3, <1>4 DEF Next

(* No two optimizers work on one Segment, what a running one will replace is
   still behind its proxy in the SegmentHolder, and updates always find a
   Segment to write to: for every number of points, optimizer tasks, sessions
   and operations. *)
THEOREM SegmentsAreOwned == Spec => [](TypeOK /\ ProxiesAreOwned /\ AlwaysAppendable)
<1>1. StructureInv => TypeOK /\ ProxiesAreOwned /\ AlwaysAppendable
  BY Zenon DEF StructureInv
<1> QED
  BY <1>1, InitStructure, NextKeepsStructure, PTL DEF Spec

-----------------------------------------------------------------------------
(* What an open session needs: its handles are still in the holder, those it
   took as proxies are still proxies, and they show what they showed. *)
SessionOK(x) ==
    sessions[x].active =>
        /\ sessions[x].handles \subseteq DOMAIN segments
        /\ \A s \in sessions[x].proxies : s \in DOMAIN segments /\ segments[s].is_proxy
        /\ Shown(sessions[x].handles, sessions[x].proxies) = sessions[x].opened

PinInv == \A x \in Sessions : SessionOK(x)

(* An optimizer starts under the open sessions: a handle taken before still
   reads the Segment that is now behind a proxy. *)
LEMMA StartKeepsPins ==
    ASSUME StructureInv, PinInv, NEW j \in Jobs, StartOptimization(j)
    PROVE  PinInv'
<1>1. PICK inputs \in SUBSET DOMAIN segments : StartEffect(j, inputs)
  BY Zenon, StartKeepsStructure
<1>2. sessions' = sessions /\ deferred_internal_id' = deferred_internal_id
  BY Zenon DEF StartOptimization
<1>3. /\ DOMAIN segments \subseteq DOMAIN segments'
      /\ \A s \in inputs : ~segments[s].is_proxy /\ segments'[s] = Wrap(segments[s])
      /\ \A s \in DOMAIN segments \ inputs : segments'[s] = segments[s]
  BY Zenon, <1>1 DEF StartEffect
<1>4. \A s \in DOMAIN segments : /\ segments'[s].version = segments[s].version
                                 /\ segments'[s].offset = segments[s].offset
                                 /\ segments'[s].appendable = segments[s].appendable
  BY <1>3, WrapFacts DEF StructureInv, TypeOK
<1>5. ASSUME NEW x \in Sessions PROVE SessionOK(x)'
  <2> SUFFICES ASSUME sessions[x].active
               PROVE  /\ sessions[x].handles \subseteq DOMAIN segments'
                      /\ \A s \in sessions[x].proxies : s \in DOMAIN segments' /\ segments'[s].is_proxy
                      /\ Shown(sessions[x].handles, sessions[x].proxies)' = sessions[x].opened
    BY Zenon, <1>2 DEF SessionOK
  <2>1. PICK h, q : h = sessions[x].handles /\ q = sessions[x].proxies
    BY Zenon
  <2>2. /\ h \subseteq DOMAIN segments
        /\ \A s \in q : s \in DOMAIN segments /\ segments[s].is_proxy
        /\ Shown(h, q) = sessions[x].opened
    BY Zenon, <2>1 DEF PinInv, SessionOK
  <2>3. \A s \in q : s \in DOMAIN segments' /\ segments'[s] = segments[s]
    BY Zenon, <1>3, <2>2
  <2>4. h \cap DOMAIN segments' = h \cap DOMAIN segments
    BY Zenon, <1>3, <2>2
  <2>5. ASSUME NEW s \in h, NEW p \in Points
        PROVE  /\ Shows(s, p, q)' <=> Shows(s, p, q)
               /\ segments'[s].version[p] = segments[s].version[p]
    <3>1. PointIsDeferred(segments[s], p)' <=> PointIsDeferred(segments[s], p)
      BY Zenon, <1>2, <1>4, <2>2 DEF PointIsDeferred
    <3> QED
      BY Zenon, <1>4, <2>2, <2>3, <3>1 DEF Shows
  <2>6. ASSUME NEW s \in h
        PROVE  {<<s, p, segments'[s].version[p]>> : p \in {u \in Points : Shows(s, u, q)'}}
             = {<<s, p, segments[s].version[p]>> : p \in {u \in Points : Shows(s, u, q)}}
    BY Zenon, <2>5
  <2>7. Shown(h, q)' = Shown(h, q)
    BY <2>4, <2>6 DEF Shown
  <2>8. Shown(sessions[x].handles, sessions[x].proxies)' = Shown(h, q)'
    BY Zenon, <1>2, <2>1
  <2> QED
    BY Zenon, <1>3, <2>1, <2>2, <2>3, <2>7, <2>8
<1> QED
  BY Zenon, <1>5 DEF PinInv

LEMMA NextKeepsPins == StructureInv /\ PinInv /\ [Next]_vars => PinInv'
<1> SUFFICES ASSUME StructureInv, PinInv, [Next]_vars PROVE PinInv'
  BY Zenon
<1>1. ASSUME UpdateGuardFree, sessions' = sessions
      PROVE  PinInv'
  BY Zenon, <1>1 DEF UpdateGuardFree, PinInv, SessionOK
<1>2. ASSUME UNCHANGED <<deferred_internal_id, segments, sessions>>
      PROVE  PinInv'
  BY <1>2 DEF PinInv, SessionOK, Shown, Shows, PointIsDeferred
<1>3. ASSUME NEW p \in Points, Upsert(p) \/ Insert(p) \/ Delete(p)
      PROVE  PinInv'
  BY Zenon, <1>1, <1>3 DEF Upsert, Insert, Delete
<1>4. ASSUME NEW j \in Jobs, FinishOptimization(j) \/ Rollback(j) \/ RollbackFails(j)
      PROVE  PinInv'
  BY <1>1, <1>4, Zenon DEF FinishOptimization, Rollback, RollbackFails
<1>5. ASSUME NEW j \in Jobs, Merge(j) \/ ReadDeletes(j) \/ ApplyDeletes(j) \/ NoteRemoved(j)
      PROVE  PinInv'
  BY <1>2, <1>5, Zenon DEF Merge, ReadDeletes, ApplyDeletes, NoteRemoved
<1>6. ASSUME NEW j \in Jobs, StartOptimization(j)
      PROVE  PinInv'
  BY Zenon, <1>6, StartKeepsPins
<1>7. ASSUME NEW x \in Sessions, Pin(x) \/ Unpin(x)
      PROVE  PinInv'
  <2>1. UNCHANGED <<deferred_internal_id, segments>> /\ DOMAIN sessions = Sessions
    BY <1>7, Zenon DEF Pin, Unpin, StructureInv, TypeOK
  <2>2. \A y \in Sessions \ {x} : sessions'[y] = sessions[y]
    BY Zenon, <1>7, <2>1 DEF Pin, Unpin
  <2>3. \A h, q : Shown(h, q)' = Shown(h, q)
    BY <2>1 DEF Shown, Shows, PointIsDeferred
  <2>4. ASSUME NEW y \in Sessions \ {x} PROVE SessionOK(y)'
    <3>1. PICK h, q : h = sessions[y].handles /\ q = sessions[y].proxies
      BY Zenon
    <3>2. Shown(sessions[y].handles, sessions[y].proxies)' = Shown(h, q)'
      BY Zenon, <2>2, <3>1
    <3>3. SessionOK(y)
      BY Zenon DEF PinInv
    <3> QED
      BY Zenon, <2>1, <2>2, <2>3, <3>1, <3>2, <3>3 DEF SessionOK
  <2>5. SessionOK(x)'
    <3>1. CASE Pin(x)
      <4>1. PICK h, q : h = DOMAIN segments /\ q = {s \in h : segments[s].is_proxy}
        BY Zenon
      <4>2. /\ sessions'[x].handles = h /\ sessions'[x].proxies = q
            /\ sessions'[x].opened = Shown(h, q)
        BY Zenon, <2>1, <3>1, <4>1 DEF Pin
      <4>3. Shown(sessions[x].handles, sessions[x].proxies)' = Shown(h, q)'
        BY Zenon, <4>2
      <4> QED
        BY Zenon, <2>1, <2>3, <4>1, <4>2, <4>3 DEF SessionOK
    <3>2. CASE Unpin(x)
      BY Zenon, <2>1, <3>2 DEF Unpin, Unpinned, SessionOK
    <3> QED
      BY Zenon, <1>7, <3>1, <3>2
  <2> QED
    BY Zenon, <2>4, <2>5 DEF PinInv
<1>8. CASE UNCHANGED vars
  BY Zenon, <1>2, <1>8 DEF vars
<1> QED
  BY Zenon, <1>3, <1>4, <1>5, <1>6, <1>7, <1>8 DEF Next

(* What an exact session pinned does not change while it reads, although
   optimizers start, merge and read deletes meanwhile: for every number of
   points, optimizer tasks, sessions and operations. *)
THEOREM PinnedGenerationsAreFixed == Spec => []PinnedGenerationIsFixed
<1>1. ASSUME Init PROVE PinInv
  <2>1. \A x \in Sessions : ~sessions[x].active
    BY Zenon, <1>1 DEF Init, Unpinned
  <2> QED
    BY Zenon, <2>1 DEF PinInv, SessionOK
<1>2. PinInv => PinnedGenerationIsFixed
  BY Zenon DEF PinInv, SessionOK, PinnedGenerationIsFixed
<1> QED
  BY <1>1, <1>2, InitStructure, NextKeepsStructure, NextKeepsPins, PTL DEF Spec

=============================================================================
