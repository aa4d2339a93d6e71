------------------------------ MODULE BtsManager ------------------------------
(***************************************************************************)
(* The BTS manager of backend-core (src/osmo/bts.manager.ts): the          *)
(* in-memory table that gives every owner one BTS id of the BSC and one    *)
(* Osmux port.  Its methods never await, so each is one atomic step; they  *)
(* are written as operators from a manager state m to the next one, since  *)
(* an HTTP handler calls several of them within one turn of the event loop *)
(* (module BtsService composes them so).                                   *)
(*                                                                         *)
(* Abstracted: the owner key JSON.stringify([uuid, instanceId.trim()]) is  *)
(* a member of Keys; band and arfcn are one member of Configs; ip, ipa and *)
(* cell_identity decide nothing and are left out.  lastSeen, a timestamp,  *)
(* is idle, the time since it, which stops counting where the code stops   *)
(* telling instants apart: just past the time to live.                     *)
(***************************************************************************)
EXTENDS Integers, FiniteSetsExt, Functions

CONSTANTS
    Keys,             \* owner keys (uuid, instanceId)
    Configs,          \* radio configurations (band, arfcn)
    DefaultConfig,    \* what a new assignment gets when none is asked for
    Unset,            \* "no configuration given" in a call
    MaxBts,           \* BtsManager.MAX_BTS: ids are 0 .. MaxBts - 1
    OsmuxPortStart,
    OsmuxPortCount,
    Ttl               \* assignmentTtlMs

ASSUME BtsManagerAssumption ==
    /\ DefaultConfig \in Configs
    /\ Unset \notin Configs
    /\ MaxBts \in Nat
    /\ OsmuxPortStart \in Nat
    /\ OsmuxPortCount \in Nat
    /\ Ttl \in Nat

VARIABLE mgr          \* the singleton's state

BtsIds == 0 .. MaxBts - 1
OsmuxPorts == OsmuxPortStart .. OsmuxPortStart + OsmuxPortCount - 1

\* What a row of the BSC's list says of a BTS; "unknown" is connected === undefined.
Status == {"up", "down", "unknown"}

\* A list read from the BSC is a function from the ids it names to Status.  It
\* may name ids the manager cannot use; here one, MaxBts, stands for them.
BscLists == UNION {[S -> Status] : S \in SUBSET (0 .. MaxBts)}

Assignment ==
    [key : Keys, cfg : Configs, osmuxPort : OsmuxPorts, connected : BOOLEAN, idle : 0 .. Ttl + 1]

\* A Map of the class: a function on some of the keys it may have.
IsMap(f, S, T) == DOMAIN f \subseteq S /\ f \in [DOMAIN f -> T]

IsState(m) ==
    /\ m = [highestKnownBtsId |-> m.highestKnownBtsId,
            knownBtsIds       |-> m.knownBtsIds,
            freeIds           |-> m.freeIds,
            usedOsmuxPorts    |-> m.usedOsmuxPorts,
            idToAssignment    |-> m.idToAssignment,
            assignmentKeyToId |-> m.assignmentKeyToId]
    /\ m.highestKnownBtsId \in -1 .. MaxBts - 1
    /\ m.knownBtsIds \subseteq BtsIds
    /\ m.freeIds \subseteq BtsIds
    /\ m.usedOsmuxPorts \subseteq OsmuxPorts
    /\ IsMap(m.idToAssignment, BtsIds, Assignment)
    /\ IsMap(m.assignmentKeyToId, Keys, BtsIds)

InitialState ==
    [highestKnownBtsId |-> -1,
     knownBtsIds       |-> {},
     freeIds           |-> {},
     usedOsmuxPorts    |-> {},
     idToAssignment    |-> [i \in {} |-> i],
     assignmentKeyToId |-> [k \in {} |-> k]]

Assigned(m) == DOMAIN m.idToAssignment
Owners(m) == DOMAIN m.assignmentKeyToId

(* The consistency of a state, in three parts.                               *)

InverseMaps(m) ==
    /\ \A k \in Owners(m) :
          /\ m.assignmentKeyToId[k] \in Assigned(m)
          /\ m.idToAssignment[m.assignmentKeyToId[k]].key = k
    /\ \A i \in Assigned(m) :
          /\ m.idToAssignment[i].key \in Owners(m)
          /\ m.assignmentKeyToId[m.idToAssignment[i].key] = i

ExactPorts(m) ==
    /\ \A i, j \in Assigned(m) :
          m.idToAssignment[i].osmuxPort = m.idToAssignment[j].osmuxPort => i = j
    /\ \A i \in Assigned(m) : m.idToAssignment[i].osmuxPort \in m.usedOsmuxPorts
    /\ \A p \in m.usedOsmuxPorts :
          \E i \in Assigned(m) : m.idToAssignment[i].osmuxPort = p

ExactIds(m) ==
    /\ m.freeIds \cap Assigned(m) = {}
    /\ m.freeIds \cup Assigned(m) \subseteq m.knownBtsIds
    /\ \A i \in m.knownBtsIds : i <= m.highestKnownBtsId
    /\ m.highestKnownBtsId \in m.knownBtsIds \cup {-1}

-------------------------------------------------------------------------------
(* Reading the BSC's list.                                                   *)

\* Mutant of isReusableBscBts: takes an unknown state for disconnected.
isReusableUnlessUp(status) == status # "up"

isReusableBscBts(status) == status = "down"

\* Mutant of syncFromBsc: forgets that an id may be assigned.
syncFromBscFreesAssigned(m, list) ==
    LET seen == DOMAIN list \cap BtsIds
    IN  [m EXCEPT !.knownBtsIds = @ \cup seen,
                  !.freeIds = (@ \ seen) \cup {i \in seen : isReusableBscBts(list[i])},
                  !.highestKnownBtsId = Max({@} \cup seen)]

syncFromBsc(m, list) ==
    LET seen     == DOMAIN list \cap BtsIds
        reusable == {i \in seen : i \notin Assigned(m) /\ isReusableBscBts(list[i])}
    IN  [m EXCEPT !.knownBtsIds = @ \cup seen,
                  !.freeIds = (@ \ seen) \cup reusable,
                  !.highestKnownBtsId = Max({@} \cup seen)]

-------------------------------------------------------------------------------
(* Allocation.                                                               *)

\* Mutant of nextBtsId: goes by the assigned ids alone.
nextAfterAssigned(m) ==
    IF m.freeIds # {} THEN Min(m.freeIds) ELSE Max({-1} \cup Assigned(m)) + 1

\* The lowest free id, else the one after the highest id ever heard of.
nextBtsId(m) ==
    IF m.freeIds # {} THEN Min(m.freeIds)
    ELSE Max({m.highestKnownBtsId} \cup Assigned(m)) + 1

openPorts(m) == OsmuxPorts \ m.usedOsmuxPorts
\* Mutant of allocateOsmuxPort: does not look for an open one.
firstOsmuxPort(m) == OsmuxPortStart

allocateOsmuxPort(m) == Min(openPorts(m))

\* Mutant of CanAllocate: off by one at the highest id.
CanAllocateOneMore(m) == nextBtsId(m) <= MaxBts /\ openPorts(m) # {}

\* Neither nextBtsId nor allocateOsmuxPort throws.
CanAllocate(m) == nextBtsId(m) < MaxBts /\ openPorts(m) # {}

\* The owner already has an assignment: it keeps its id and port.
Refreshed(m, k, cfg) ==
    LET i == m.assignmentKeyToId[k]
        a == m.idToAssignment[i]
    IN  [m EXCEPT !.idToAssignment[i] =
            [a EXCEPT !.connected = TRUE,
                      !.idle = 0,
                      !.cfg = IF cfg = Unset THEN a.cfg ELSE cfg]]

Granted(m, k, cfg) ==
    LET i == nextBtsId(m)
        a == [key |-> k, cfg |-> IF cfg = Unset THEN DefaultConfig ELSE cfg,
              osmuxPort |-> allocateOsmuxPort(m), connected |-> TRUE, idle |-> 0]
    IN  [highestKnownBtsId |-> Max({m.highestKnownBtsId, i}),
         knownBtsIds       |-> m.knownBtsIds \cup {i},
         freeIds           |-> m.freeIds \ {i},
         usedOsmuxPorts    |-> m.usedOsmuxPorts \cup {a.osmuxPort},
         idToAssignment    |-> [j \in Assigned(m) \cup {i} |->
                                   IF j = i THEN a ELSE m.idToAssignment[j]],
         assignmentKeyToId |-> [j \in Owners(m) \cup {k} |->
                                   IF j = k THEN i ELSE m.assignmentKeyToId[j]]]

\* The call throws.  An id nextBtsId took out of freeIds before the port
\* allocation threw is not put back.
FailedAllocation(m) ==
    IF m.freeIds = {} THEN m ELSE [m EXCEPT !.freeIds = @ \ {nextBtsId(m)}]

allocate(m, k, cfg) ==
    IF k \in Owners(m)     THEN Refreshed(m, k, cfg)
    ELSE IF CanAllocate(m) THEN Granted(m, k, cfg)
    ELSE FailedAllocation(m)

-------------------------------------------------------------------------------
(* Release, one id or several.                                               *)

\* Mutants of released: each forgets one of its books.
releasedKeepsKey(m, S) ==
    [m EXCEPT !.freeIds = @ \cup S,
              !.usedOsmuxPorts = @ \ {m.idToAssignment[i].osmuxPort : i \in S},
              !.idToAssignment = Restrict(@, Assigned(m) \ S)]

releasedKeepsPort(m, S) ==
    [m EXCEPT !.freeIds = @ \cup S,
              !.idToAssignment = Restrict(@, Assigned(m) \ S),
              !.assignmentKeyToId = Restrict(@, Owners(m) \ {m.idToAssignment[i].key : i \in S})]

releasedKeepsId(m, S) ==
    [releasedKeepsPort(m, S) EXCEPT
        !.freeIds = m.freeIds,
        !.usedOsmuxPorts = @ \ {m.idToAssignment[i].osmuxPort : i \in S}]

\* releaseById for every id of S: its id becomes free, its port open.
released(m, S) ==
    [highestKnownBtsId |-> Max({m.highestKnownBtsId} \cup S),
     knownBtsIds       |-> m.knownBtsIds \cup S,
     freeIds           |-> m.freeIds \cup S,
     usedOsmuxPorts    |-> m.usedOsmuxPorts \ {m.idToAssignment[i].osmuxPort : i \in S},
     idToAssignment    |-> Restrict(m.idToAssignment, Assigned(m) \ S),
     assignmentKeyToId |-> Restrict(m.assignmentKeyToId,
                                    Owners(m) \ {m.idToAssignment[i].key : i \in S})]

releaseById(m, i) == released(m, {i} \cap Assigned(m))

releaseByUuid(m, k) ==
    IF k \in Owners(m) THEN releaseById(m, m.assignmentKeyToId[k]) ELSE m

cleanupExpiredAssignments(m) ==
    released(m, {i \in Assigned(m) : m.idToAssignment[i].idle > Ttl})

\* Mutant of cleanupDisconnectedBscAssignments: trusts the BSC's view alone.
cleanupReportedDown(m, list) ==
    released(m, {i \in Assigned(m) \cap DOMAIN list : isReusableBscBts(list[i])})

cleanupDisconnectedBscAssignments(m, list) ==
    released(m, {i \in Assigned(m) \cap DOMAIN list :
                    ~m.idToAssignment[i].connected /\ isReusableBscBts(list[i])})

-------------------------------------------------------------------------------
(* Liveness reports.                                                         *)

\* A report about nobody's key or id changes nothing.
markSeen(m, k) ==
    IF k \in Owners(m)
    THEN [m EXCEPT !.idToAssignment[m.assignmentKeyToId[k]].idle = 0]
    ELSE m

markById(m, i, up) ==
    IF i \in Assigned(m)
    THEN [m EXCEPT !.idToAssignment[i] = [@ EXCEPT !.connected = up, !.idle = 0]]
    ELSE m

markSeenById(m, i) == markById(m, i, TRUE)
markDisconnectedById(m, i) == markById(m, i, FALSE)

markDisconnected(m, k) ==
    IF k \in Owners(m) THEN markById(m, m.assignmentKeyToId[k], FALSE) ELSE m

\* Time passes: Date.now() advances by one unit of the time to live.
aged(m) ==
    [m EXCEPT !.idToAssignment =
        [i \in Assigned(m) |->
            [m.idToAssignment[i] EXCEPT !.idle = IF @ > Ttl THEN @ ELSE @ + 1]]]

-------------------------------------------------------------------------------
(* The manager on its own, called by anybody in any order.                   *)

Init == mgr = InitialState

Sync(list)                == mgr' = syncFromBsc(mgr, list)
Allocate(k, cfg)          == mgr' = allocate(mgr, k, cfg)
ReleaseById(i)            == mgr' = releaseById(mgr, i)
ReleaseByUuid(k)          == mgr' = releaseByUuid(mgr, k)
MarkSeen(k)               == mgr' = markSeen(mgr, k)
MarkSeenById(i)           == mgr' = markSeenById(mgr, i)
MarkDisconnected(k)       == mgr' = markDisconnected(mgr, k)
MarkDisconnectedById(i)   == mgr' = markDisconnectedById(mgr, i)
CleanupExpired            == mgr' = cleanupExpiredAssignments(mgr)
CleanupDisconnected(list) == mgr' = cleanupDisconnectedBscAssignments(mgr, list)
Tick                      == mgr' = aged(mgr)

\* The calls that release an assignment somebody named.
Release ==
    \/ \E i \in BtsIds : ReleaseById(i)
    \/ \E k \in Keys : ReleaseByUuid(k)

\* The calls that are about an owner, an id or the age of the assignments.
Other ==
    \/ \E k \in Keys, cfg \in Configs \cup {Unset} : Allocate(k, cfg)
    \/ \E k \in Keys : MarkSeen(k)
    \/ \E i \in BtsIds : MarkSeenById(i)
    \/ \E k \in Keys : MarkDisconnected(k)
    \/ \E i \in BtsIds : MarkDisconnectedById(i)
    \/ CleanupExpired
    \/ \E list \in BscLists : CleanupDisconnected(list)
    \/ Tick

\* Every call but syncFromBsc.
Call == Release \/ Other

Syncs == \E list \in BscLists : Sync(list)

Next == Syncs \/ Call

Spec == Init /\ [][Next]_mgr

-------------------------------------------------------------------------------
(* Properties.                                                               *)

\* The six fields have the shapes the class declares.
TypeOK == IsState(mgr)

\* The two maps of the class are inverses of each other: every owner's id is
\* assigned to that owner, and every assigned id is its owner's (so no owner has
\* two ids, and a lookup by uuid never finds a record of somebody else).
MapsInverse == InverseMaps(mgr)

\* The port pool is exact: a port is in use if and only if exactly one
\* assignment holds it ('active assignments never share osmux_port', and no
\* sequence of releases, cleanups and failed allocations leaks one).
PortsAccounted == ExactPorts(mgr)

\* The id books agree: an id that is free or assigned is known, none is both,
\* and highestKnownBtsId is the highest known id, so that highestKnownBtsId + 1
\* is an id no owner and no BTS of the BSC has.
IdsAccounted == ExactIds(mgr)

\* An id is taken only when it is free or was never heard of: never one the BSC
\* reported connected or in an unknown state since, nor one another owner has
\* ('allocation after syncFromBsc skips BTS ids that BSC reports as active').
TakesOnlyFreeIds ==
    [][\A i \in BtsIds : i \in Assigned(mgr)' \ Assigned(mgr)
          => i \in mgr.freeIds \/ i \notin mgr.knownBtsIds]_mgr

\* An assignment in use, connected and seen within the time to live, ends only
\* by a release that names it.  No other call has its end as a result, not even
\* of this one alone: no clean-up and no list, whatever the BSC reports, takes it
\* ('... does not free live runtime assignment reported disconnected by BSC'), and
\* no release of another id or owner does.
LiveAssignmentKept ==
    [][\A i \in Assigned(mgr) \ Assigned(mgr)' :
          mgr.idToAssignment[i].connected /\ mgr.idToAssignment[i].idle <= Ttl =>
              /\ ~(Syncs \/ Other)
              /\ \A j \in BtsIds : ReleaseById(j) => j = i
              /\ \A k \in Keys : ReleaseByUuid(k) => k = mgr.idToAssignment[i].key]_mgr

\* The manager implements BtsLease: through all its calls an owner's lease is
\* its id and port, exclusive and unchanged while it lasts.
LeaseOf(m) ==
    [k \in Owners(m) |->
        [id |-> m.assignmentKeyToId[k],
         port |-> m.idToAssignment[m.assignmentKeyToId[k]].osmuxPort]]

Abstract == INSTANCE BtsLease WITH Ports <- OsmuxPorts, lease <- LeaseOf(mgr)

ImplementsLease == Abstract!Spec

===============================================================================
