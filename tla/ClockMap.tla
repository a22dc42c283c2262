------------------------------ MODULE ClockMap ------------------------------
(***************************************************************************)
(* The logical clocks that number the updates of a Shard: what a replica   *)
(* remembers of every clock (ClockMap), when it takes an update in, and    *)
(* how a source finds in its own log what a recovering replica misses      *)
(* (resolve_wal_delta).                                                    *)
(*                                                                         *)
(* A map gives each clock the newest tick seen and the token of the update *)
(* that had it.  A clock without entry is at tick 0: entries are only made *)
(* for ticks above 0.  A log is a sequence of records with at least the    *)
(* fields clock, tick and token; the clock of an untagged record is        *)
(* NoClock.                                                                *)
(***************************************************************************)
EXTENDS Integers, Sequences, FiniteSetsExt

CONSTANTS Clocks,      \* (peer, clock id) pairs
          NoClock      \* stands for an absent clock tag

NoEntry == [tick |-> 0, token |-> 0]
NoClocks == [k \in Clocks |-> NoEntry]

\* What the map remembers once it has seen a tag.
AdvanceClock(map, tag) ==
    IF tag.tick > map[tag.clock].tick
    THEN [map EXCEPT ![tag.clock] = [tick |-> tag.tick, token |-> tag.token]]
    ELSE map

\* A new tick is accepted, and so is the very update that set the current one.
\* Tick 0 never is: it only asks for the current tick.
ClockAccepted(map, tag) ==
    LET now == AdvanceClock(map, tag)[tag.clock]
    IN  tag.tick > 0 /\ now.tick = tag.tick /\ now.token = tag.token

\* What a map says of a set of log records.
ClocksOf(map, records) ==
    [k \in Clocks |->
        LET seen == {e \in records : e.clock = k /\ e.tick > map[k].tick}
        IN  IF seen = {} THEN map[k]
            ELSE LET last == CHOOSE e \in seen : \A f \in seen : f.tick <= e.tick
                 IN  [tick |-> last.tick, token |-> last.token]]

-----------------------------------------------------------------------------
(* resolve_wal_delta.  All ticks are raised by one there, so that a clock  *)
(* the recovering side never saw asks for tick 1.                          *)

NoDelta == 0            \* both sides are equal: nothing to send
Unresolvable == -1

HasClock(map, k) == map[k].tick > 0

\* The first tick of a clock that the recovery point lacks.
Wanted(point, k) == point[k].tick + 1

\* Clocks for which records have to be sent.
Behind(point, newest) ==
    {k \in Clocks : HasClock(newest, k) /\ Wanted(point, k) # newest[k].tick + 1}

\* The records that satisfy a clock: the scan runs from the last one back.
Satisfying(log, first, point, k) ==
    {i \in first .. Len(log) : log[i].clock = k /\ log[i].tick <= Wanted(point, k)}

ScanEnd(log, first, point, behind) ==
    Min({Max(Satisfying(log, first, point, k)) : k \in behind})

ResolveWalDelta(log, first, point, newest, oldest) ==
    LET behind == Behind(point, newest)
        end == ScanEnd(log, first, point, behind)
    IN  IF \/ \A k \in Clocks : ~HasClock(point, k)
           \/ \E k \in Clocks : HasClock(point, k) /\ ~HasClock(newest, k)
           \/ \E k \in Clocks : point[k].tick > newest[k].tick
           \/ \E k \in Clocks : HasClock(oldest, k) /\ point[k].tick < oldest[k].tick
        THEN Unresolvable
        ELSE IF behind = {} THEN NoDelta
        ELSE IF \/ \E k \in behind : Satisfying(log, first, point, k) = {}
                \/ \E i \in end .. Len(log) : log[i].clock = NoClock
        THEN Unresolvable
        ELSE IF log[end].tick = Wanted(point, log[end].clock) THEN end
        ELSE IF end < Len(log) THEN end + 1
        ELSE NoDelta
=============================================================================
