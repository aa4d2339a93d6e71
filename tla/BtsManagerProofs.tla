--------------------------- MODULE BtsManagerProofs ---------------------------
(***************************************************************************)
(* Theorems about BtsManager, for every set of owners, every number of ids *)
(* and ports and every time to live; at the end those that need the        *)
(* history of BtsReuse.                                                    *)
(***************************************************************************)
EXTENDS BtsReuse, WellFoundedInduction, TLAPS

-------------------------------------------------------------------------------
(* Minima and maxima.                                                        *)

\* A set of naturals that is not empty has a least element (Math.min of freeIds,
\* the first port of the loop in allocateOsmuxPort).
LEMMA MinOfNats ==
    ASSUME NEW T, T \subseteq Nat, T # {}
    PROVE  Min(T) \in T /\ \A y \in T : Min(T) <= y
<1> DEFINE R == {ss \in Nat \X Nat : ss[1] < ss[2]}
<1>1. IsWellFoundedOn(R, Nat)
  BY NatLessThanWellFounded DEF OpToRel
<1>2. \A x, y \in T : <<y, x>> \notin R => x <= y
  BY SMT
<1>3. \E x \in T : \A y \in T : <<y, x>> \notin R
  <2> HIDE DEF R
  <2> QED BY <1>1, WFMin
<1>4. \E x \in T : \A y \in T : x <= y
  <2> HIDE DEF R
  <2> QED BY <1>2, <1>3
<1> QED BY <1>4 DEF Min

\* A set of integers that is not empty and bounded above has a greatest element
\* (highestKnownBtsId is kept by comparisons and Math.max).
LEMMA MaxOfBounded ==
    ASSUME NEW T, T \subseteq Int, T # {}, NEW b \in Int, \A x \in T : x <= b
    PROVE  Max(T) \in T /\ \A y \in T : y <= Max(T)
<1> DEFINE D == {n \in Nat : b - n \in T}
<1>1. \A x \in T : b - x \in D /\ b - (b - x) = x
  OBVIOUS
<1>2. D # {}
  BY <1>1
<1>3. Min(D) \in D /\ \A y \in D : Min(D) <= y
  <2> HIDE DEF D
  <2>1. D \subseteq Nat
    BY DEF D
  <2> QED BY <1>2, <2>1, MinOfNats
<1>4. b - Min(D) \in T /\ \A x \in T : Min(D) <= b - x
  BY <1>1, <1>3
<1>5. \E x \in T : \A y \in T : x >= y
  <2> SUFFICES \A y \in T : b - Min(D) >= y
    BY <1>4
  <2> TAKE y \in T
  <2> QED BY <1>3, <1>4
<1> QED BY <1>5 DEF Max

-------------------------------------------------------------------------------
(* Every operation keeps a consistent state consistent.                      *)

\* The inductive invariant.  Each part alone is not inductive: a release takes
\* the port of its record out of the pool, so the pool stays exact only if no
\* other record has it; a fresh id is unused only if the highest id is exact.
Consistent(m) == IsState(m) /\ InverseMaps(m) /\ ExactPorts(m) /\ ExactIds(m)

\* The empty tables of the constructor are consistent.
LEMMA InitialConsistent == Consistent(InitialState)
BY BtsManagerAssumption
DEF Consistent, InitialState, IsState, IsMap, InverseMaps, ExactPorts, ExactIds,
    Assigned, Owners, BtsIds, OsmuxPorts

\* A call that writes only cfg, connected and idle of assignments (a refresh, a
\* mark, the clock) keeps consistency and every lease.
LEMMA TouchedConsistent ==
    ASSUME NEW m, Consistent(m), NEW f,
           f \in [Assigned(m) -> Assignment],
           \A i \in Assigned(m) : /\ f[i].key = m.idToAssignment[i].key
                                  /\ f[i].osmuxPort = m.idToAssignment[i].osmuxPort
    PROVE  /\ Consistent([m EXCEPT !.idToAssignment = f])
           /\ LeaseOf([m EXCEPT !.idToAssignment = f]) = LeaseOf(m)
           /\ Assigned([m EXCEPT !.idToAssignment = f]) = Assigned(m)
<1> DEFINE n == [m EXCEPT !.idToAssignment = f]
<1>1. n = [highestKnownBtsId |-> m.highestKnownBtsId, knownBtsIds |-> m.knownBtsIds,
           freeIds |-> m.freeIds, usedOsmuxPorts |-> m.usedOsmuxPorts,
           idToAssignment |-> f, assignmentKeyToId |-> m.assignmentKeyToId]
  BY DEF Consistent, IsState
<1> HIDE DEF n
<1>2. Assigned(n) = Assigned(m) /\ Owners(n) = Owners(m)
  BY <1>1 DEF Assigned, Owners
<1>3. IsState(n)
  BY <1>1 DEF Consistent, IsState, IsMap, Assigned
<1>8. /\ n.idToAssignment = f
      /\ n.usedOsmuxPorts = m.usedOsmuxPorts
  BY <1>1
<1>4. InverseMaps(n)
  BY <1>1, <1>2 DEF Consistent, InverseMaps
<1>5. ExactPorts(n)
  BY <1>8, <1>2 DEF Consistent, ExactPorts
<1>6. ExactIds(n)
  BY <1>1, <1>2 DEF Consistent, ExactIds
<1>7. LeaseOf(n) = LeaseOf(m)
  BY <1>1, <1>2 DEF Consistent, InverseMaps, LeaseOf
<1> QED BY <1>2, <1>3, <1>4, <1>5, <1>6, <1>7 DEF Consistent, n

\* syncFromBsc keeps consistency and every lease.
LEMMA SyncConsistent ==
    ASSUME NEW m, Consistent(m), NEW list \in BscLists
    PROVE  /\ Consistent(syncFromBsc(m, list))
           /\ LeaseOf(syncFromBsc(m, list)) = LeaseOf(m)
           /\ Assigned(syncFromBsc(m, list)) = Assigned(m)
<1> DEFINE n == syncFromBsc(m, list)
           seen == DOMAIN list \cap BtsIds
           top == {m.highestKnownBtsId} \cup seen
<1>1. n = [highestKnownBtsId |-> Max(top), knownBtsIds |-> m.knownBtsIds \cup seen,
           freeIds |-> (m.freeIds \ seen) \cup
                       {i \in seen : i \notin Assigned(m) /\ isReusableBscBts(list[i])},
           usedOsmuxPorts |-> m.usedOsmuxPorts,
           idToAssignment |-> m.idToAssignment, assignmentKeyToId |-> m.assignmentKeyToId]
  <2>1. n = [m EXCEPT !.knownBtsIds = m.knownBtsIds \cup seen,
                      !.freeIds = (m.freeIds \ seen) \cup
                       {i \in seen : i \notin Assigned(m) /\ isReusableBscBts(list[i])},
                      !.highestKnownBtsId = Max(top)]
    BY DEF syncFromBsc
  <2> HIDE DEF n, seen, top
  <2> QED BY <2>1 DEF Consistent, IsState
<1>2. Max(top) \in top /\ \A y \in top : y <= Max(top)
  <2>1. top \subseteq -1 .. MaxBts - 1
    BY BtsManagerAssumption DEF Consistent, IsState, BtsIds
  <2>2. top # {} /\ top \subseteq Int /\ MaxBts \in Int /\ \A x \in top : x <= MaxBts
    BY <2>1, BtsManagerAssumption
  <2> HIDE DEF top
  <2> QED BY <2>2, MaxOfBounded
<1> HIDE DEF n
<1>3. Assigned(n) = Assigned(m) /\ Owners(n) = Owners(m)
  BY <1>1 DEF Assigned, Owners
<1>4. IsState(n)
  BY <1>1, <1>2, BtsManagerAssumption DEF Consistent, IsState, BtsIds
<1>5. InverseMaps(n)
  BY <1>1, <1>3 DEF Consistent, InverseMaps
<1>6. ExactPorts(n)
  BY <1>1, <1>3 DEF Consistent, ExactPorts
<1>7. ExactIds(n)
  <2>1. n.freeIds \cap Assigned(n) = {}
    BY <1>1, <1>3 DEF Consistent, ExactIds
  <2>2. n.freeIds \cup Assigned(n) \subseteq n.knownBtsIds
    BY <1>1, <1>3 DEF Consistent, ExactIds
  <2>3. \A i \in n.knownBtsIds : i <= n.highestKnownBtsId
    <3>1. /\ Max(top) \in Int /\ m.highestKnownBtsId \in Int
          /\ m.knownBtsIds \subseteq Int /\ seen \subseteq Int
      BY <1>2, BtsManagerAssumption DEF Consistent, IsState, BtsIds
    <3>2. \A i \in m.knownBtsIds : i <= Max(top)
      BY <1>2, <3>1 DEF Consistent, ExactIds
    <3> QED BY <1>1, <1>2, <3>2
  <2>4. n.highestKnownBtsId \in n.knownBtsIds \cup {-1}
    BY <1>1, <1>2 DEF Consistent, ExactIds
  <2> QED BY <2>1, <2>2, <2>3, <2>4 DEF ExactIds
<1>8. LeaseOf(n) = LeaseOf(m)
  BY <1>1, <1>3 DEF LeaseOf
<1> QED BY <1>3, <1>4, <1>5, <1>6, <1>7, <1>8 DEF Consistent, n

\* Releasing any set of assigned ids keeps consistency; exactly the owners of
\* those ids lose their leases.
LEMMA ReleasedConsistent ==
    ASSUME NEW m, Consistent(m), NEW S, S \subseteq Assigned(m)
    PROVE  /\ Consistent(released(m, S))
           /\ Assigned(released(m, S)) = Assigned(m) \ S
           /\ LeaseOf(released(m, S)) =
                 [k \in Owners(m) \ {m.idToAssignment[i].key : i \in S} |-> LeaseOf(m)[k]]
<1> DEFINE n == released(m, S)
           gone == {m.idToAssignment[i].key : i \in S}
           shut == {m.idToAssignment[i].osmuxPort : i \in S}
           top == {m.highestKnownBtsId} \cup S
<1>1. n = [highestKnownBtsId |-> Max(top), knownBtsIds |-> m.knownBtsIds \cup S,
           freeIds |-> m.freeIds \cup S, usedOsmuxPorts |-> m.usedOsmuxPorts \ shut,
           idToAssignment |-> [i \in Assigned(m) \ S |-> m.idToAssignment[i]],
           assignmentKeyToId |-> [k \in Owners(m) \ gone |-> m.assignmentKeyToId[k]]]
  BY DEF released, Restrict
<1>2. S \subseteq BtsIds
  BY DEF Consistent, IsState, IsMap, Assigned
<1>3. Max(top) \in top /\ \A y \in top : y <= Max(top)
  <2>1. top \subseteq -1 .. MaxBts - 1
    BY <1>2, BtsManagerAssumption DEF Consistent, IsState, BtsIds
  <2>2. top # {} /\ top \subseteq Int /\ MaxBts \in Int /\ \A x \in top : x <= MaxBts
    BY <2>1, BtsManagerAssumption
  <2> HIDE DEF top
  <2> QED BY <2>2, MaxOfBounded
\* Only its own key is gone with an id, and only its own port.
<1>4. \A k \in Owners(m) : k \in gone <=> m.assignmentKeyToId[k] \in S
  BY DEF Consistent, InverseMaps
<1>5. \A i \in Assigned(m) : m.idToAssignment[i].osmuxPort \in shut <=> i \in S
  BY DEF Consistent, ExactPorts
<1> HIDE DEF n, gone, shut
<1>6. Assigned(n) = Assigned(m) \ S /\ Owners(n) = Owners(m) \ gone
  BY <1>1 DEF Assigned, Owners
<1>7. IsState(n)
  BY <1>1, <1>2, <1>3, BtsManagerAssumption
  DEF Consistent, IsState, IsMap, BtsIds, Assigned, Owners
<1>8. InverseMaps(n)
  <2>1. /\ \A k \in Owners(n) : n.assignmentKeyToId[k] = m.assignmentKeyToId[k]
        /\ \A i \in Assigned(n) : n.idToAssignment[i] = m.idToAssignment[i]
    BY <1>1, <1>6
  <2>2. ASSUME NEW k \in Owners(n)
        PROVE  /\ n.assignmentKeyToId[k] \in Assigned(n)
               /\ n.idToAssignment[n.assignmentKeyToId[k]].key = k
    BY <2>1, <1>4, <1>6 DEF Consistent, InverseMaps
  <2>3. ASSUME NEW i \in Assigned(n)
        PROVE  /\ n.idToAssignment[i].key \in Owners(n)
               /\ n.assignmentKeyToId[n.idToAssignment[i].key] = i
    BY <2>1, <1>4, <1>6 DEF Consistent, InverseMaps
  <2> QED BY <2>2, <2>3 DEF InverseMaps
<1>9. ExactPorts(n)
  <2>1. /\ n.usedOsmuxPorts = m.usedOsmuxPorts \ shut
        /\ \A i \in Assigned(n) : n.idToAssignment[i] = m.idToAssignment[i]
    BY <1>1, <1>6
  <2> QED BY <2>1, <1>5, <1>6 DEF Consistent, ExactPorts
<1>10. ExactIds(n)
  <2>1. n.freeIds \cap Assigned(n) = {}
    BY <1>1, <1>6 DEF Consistent, ExactIds
  <2>2. n.freeIds \cup Assigned(n) \subseteq n.knownBtsIds
    BY <1>1, <1>6 DEF Consistent, ExactIds
  <2>3. \A i \in n.knownBtsIds : i <= n.highestKnownBtsId
    <3>1. /\ Max(top) \in Int /\ m.highestKnownBtsId \in Int
          /\ m.knownBtsIds \subseteq Int /\ S \subseteq Int
      BY <1>2, <1>3, BtsManagerAssumption DEF Consistent, IsState, BtsIds
    <3>2. \A i \in m.knownBtsIds : i <= Max(top)
      BY <1>3, <3>1 DEF Consistent, ExactIds
    <3> QED BY <1>1, <1>3, <3>2
  <2>4. n.highestKnownBtsId \in n.knownBtsIds \cup {-1}
    BY <1>1, <1>3 DEF Consistent, ExactIds
  <2> QED BY <2>1, <2>2, <2>3, <2>4 DEF ExactIds
<1>11. LeaseOf(n) = [k \in Owners(m) \ gone |-> LeaseOf(m)[k]]
  <2>1. \A k \in Owners(n) : /\ n.assignmentKeyToId[k] = m.assignmentKeyToId[k]
                             /\ n.idToAssignment[n.assignmentKeyToId[k]]
                                   = m.idToAssignment[m.assignmentKeyToId[k]]
    BY <1>1, <1>4, <1>6 DEF Consistent, InverseMaps
  <2> QED BY <2>1, <1>6 DEF LeaseOf
<1> QED BY <1>6, <1>7, <1>8, <1>9, <1>10, <1>11 DEF Consistent, n, gone

\* The id and the port of a new assignment exist, are nobody's, and the id was
\* free or is above every known one.
LEMMA FreshIdAndPort ==
    ASSUME NEW m, Consistent(m), CanAllocate(m)
    PROVE  /\ nextBtsId(m) \in BtsIds \ Assigned(m)
           /\ nextBtsId(m) \in m.freeIds \/ nextBtsId(m) > m.highestKnownBtsId
           /\ allocateOsmuxPort(m) \in OsmuxPorts \ m.usedOsmuxPorts
<1>1. allocateOsmuxPort(m) \in OsmuxPorts \ m.usedOsmuxPorts
  <2>1. openPorts(m) \subseteq Nat /\ openPorts(m) # {}
    BY BtsManagerAssumption DEF CanAllocate, openPorts, OsmuxPorts
  <2>2. Min(openPorts(m)) \in openPorts(m)
    BY <2>1, MinOfNats
  <2> QED BY <2>2 DEF allocateOsmuxPort, openPorts
<1>2. CASE m.freeIds # {}
  <2>1. m.freeIds \subseteq Nat
    BY BtsManagerAssumption DEF Consistent, IsState, BtsIds
  <2>2. Min(m.freeIds) \in m.freeIds
    BY <1>2, <2>1, MinOfNats
  <2> QED BY <1>1, <1>2, <2>2 DEF nextBtsId, Consistent, IsState, ExactIds
<1>3. CASE m.freeIds = {}
  <2> DEFINE top == {m.highestKnownBtsId} \cup Assigned(m)
  <2>1. top \subseteq -1 .. MaxBts - 1
    BY BtsManagerAssumption DEF Consistent, IsState, IsMap, BtsIds, Assigned
  <2>2. top # {} /\ top \subseteq Int /\ MaxBts \in Int /\ \A x \in top : x <= MaxBts
    BY <2>1, BtsManagerAssumption
  <2>3. Max(top) \in top /\ \A y \in top : y <= Max(top)
    <3> HIDE DEF top
    <3> QED BY <2>2, MaxOfBounded
  <2>4. nextBtsId(m) = Max(top) + 1
    BY <1>3 DEF nextBtsId
  <2>5. Max(top) + 1 < MaxBts
    BY <2>4 DEF CanAllocate
  <2>6. Max(top) + 1 \in BtsIds /\ Max(top) + 1 > m.highestKnownBtsId
    BY <2>1, <2>3, <2>5, BtsManagerAssumption DEF BtsIds
  <2>7. Max(top) + 1 \notin Assigned(m)
    BY <2>1, <2>3
  <2> QED BY <1>1, <2>4, <2>6, <2>7
<1> QED BY <1>2, <1>3

\* The leases of m and one more.
LeaseAdded(m, k, id, port) ==
    [j \in Owners(m) \cup {k} |-> IF j = k THEN [id |-> id, port |-> port] ELSE LeaseOf(m)[j]]

\* A new assignment keeps consistency; its owner gets a lease of the new id and
\* port, the other leases stay.
LEMMA GrantedConsistent ==
    ASSUME NEW m, Consistent(m), CanAllocate(m),
           NEW k \in Keys \ Owners(m), NEW cfg \in Configs \cup {Unset}
    PROVE  /\ Consistent(Granted(m, k, cfg))
           /\ Assigned(Granted(m, k, cfg)) = Assigned(m) \cup {nextBtsId(m)}
           /\ LeaseOf(Granted(m, k, cfg)) =
                 LeaseAdded(m, k, nextBtsId(m), allocateOsmuxPort(m))
<1> DEFINE n == Granted(m, k, cfg)
           id == nextBtsId(m)
           port == allocateOsmuxPort(m)
           a == [key |-> k, cfg |-> IF cfg = Unset THEN DefaultConfig ELSE cfg,
                 osmuxPort |-> port, connected |-> TRUE, idle |-> 0]
           top == {m.highestKnownBtsId, id}
<1>1. n = [highestKnownBtsId |-> Max(top), knownBtsIds |-> m.knownBtsIds \cup {id},
           freeIds |-> m.freeIds \ {id}, usedOsmuxPorts |-> m.usedOsmuxPorts \cup {port},
           idToAssignment |-> [j \in Assigned(m) \cup {id} |->
                                 IF j = id THEN a ELSE m.idToAssignment[j]],
           assignmentKeyToId |-> [j \in Owners(m) \cup {k} |->
                                    IF j = k THEN id ELSE m.assignmentKeyToId[j]]]
  BY DEF Granted
<1>2. /\ id \in BtsIds \ Assigned(m)
      /\ port \in OsmuxPorts \ m.usedOsmuxPorts
  BY FreshIdAndPort
<1>3. a \in Assignment
  BY <1>2, BtsManagerAssumption DEF Assignment
<1>4. a.key = k /\ a.osmuxPort = port
  OBVIOUS
<1>5. Max(top) \in top /\ \A y \in top : y <= Max(top)
  <2>1. top \subseteq -1 .. MaxBts - 1
    BY <1>2, BtsManagerAssumption DEF Consistent, IsState, BtsIds
  <2>2. top # {} /\ top \subseteq Int /\ MaxBts \in Int /\ \A x \in top : x <= MaxBts
    BY <2>1, BtsManagerAssumption
  <2> HIDE DEF top
  <2> QED BY <2>2, MaxOfBounded
<1> HIDE DEF n, id, port, a
<1>6. Assigned(n) = Assigned(m) \cup {id} /\ Owners(n) = Owners(m) \cup {k}
  BY <1>1 DEF Assigned, Owners
<1>7. /\ \A j \in Assigned(n) : n.idToAssignment[j] = IF j = id THEN a ELSE m.idToAssignment[j]
      /\ \A j \in Owners(n) :
            n.assignmentKeyToId[j] = IF j = k THEN id ELSE m.assignmentKeyToId[j]
  BY <1>1, <1>6
<1>8. IsState(n)
  <2>1. /\ Max(top) \in -1 .. MaxBts - 1
        /\ m.knownBtsIds \cup {id} \subseteq BtsIds
        /\ m.freeIds \ {id} \subseteq BtsIds
        /\ m.usedOsmuxPorts \cup {port} \subseteq OsmuxPorts
    BY <1>2, <1>5, BtsManagerAssumption DEF Consistent, IsState, BtsIds
  <2>2. IsMap(n.idToAssignment, BtsIds, Assignment)
    BY <1>1, <1>2, <1>3 DEF Consistent, IsState, IsMap, Assigned
  <2>3. IsMap(n.assignmentKeyToId, Keys, BtsIds)
    BY <1>1, <1>2 DEF Consistent, IsState, IsMap, Owners
  <2> QED BY <1>1, <2>1, <2>2, <2>3 DEF IsState
<1>9. InverseMaps(n)
  <2>1. ASSUME NEW j \in Owners(n)
        PROVE  /\ n.assignmentKeyToId[j] \in Assigned(n)
               /\ n.idToAssignment[n.assignmentKeyToId[j]].key = j
    BY <1>2, <1>4, <1>6, <1>7 DEF Consistent, InverseMaps
  <2>2. ASSUME NEW j \in Assigned(n)
        PROVE  /\ n.idToAssignment[j].key \in Owners(n)
               /\ n.assignmentKeyToId[n.idToAssignment[j].key] = j
    BY <1>2, <1>4, <1>6, <1>7 DEF Consistent, InverseMaps
  <2> QED BY <2>1, <2>2 DEF InverseMaps
<1>10. ExactPorts(n)
  <2>1. n.usedOsmuxPorts = m.usedOsmuxPorts \cup {port}
    BY <1>1
  <2> QED BY <2>1, <1>2, <1>4, <1>6, <1>7 DEF Consistent, ExactPorts
<1>11. ExactIds(n)
  <2>1. n.freeIds \cap Assigned(n) = {}
    BY <1>1, <1>6 DEF Consistent, ExactIds
  <2>2. n.freeIds \cup Assigned(n) \subseteq n.knownBtsIds
    BY <1>1, <1>6 DEF Consistent, ExactIds
  <2>3. \A i \in n.knownBtsIds : i <= n.highestKnownBtsId
    <3>1. /\ Max(top) \in Int /\ m.highestKnownBtsId \in Int
          /\ m.knownBtsIds \subseteq Int /\ id \in Int
      BY <1>2, <1>5, BtsManagerAssumption DEF Consistent, IsState, BtsIds
    <3>2. \A i \in m.knownBtsIds : i <= Max(top)
      BY <1>5, <3>1 DEF Consistent, ExactIds
    <3> QED BY <1>1, <1>5, <3>2
  <2>4. n.highestKnownBtsId \in n.knownBtsIds \cup {-1}
    BY <1>1, <1>5 DEF Consistent, ExactIds
  <2> QED BY <2>1, <2>2, <2>3, <2>4 DEF ExactIds
<1>12. LeaseOf(n) = LeaseAdded(m, k, id, port)
  <2>1. \A j \in Owners(m) : /\ n.assignmentKeyToId[j] = m.assignmentKeyToId[j]
                             /\ n.idToAssignment[n.assignmentKeyToId[j]]
                                   = m.idToAssignment[m.assignmentKeyToId[j]]
    BY <1>2, <1>6, <1>7 DEF Consistent, InverseMaps
  <2>2. /\ n.assignmentKeyToId[k] = id
        /\ n.idToAssignment[n.assignmentKeyToId[k]].osmuxPort = port
    BY <1>4, <1>6, <1>7
  <2> QED BY <2>1, <2>2, <1>6 DEF LeaseOf, LeaseAdded
<1> QED BY <1>6, <1>8, <1>9, <1>10, <1>11, <1>12 DEF Consistent, n, id, port

\* b is an assignment of the same owner on the same port as a.
SameLease(a, b) == b \in Assignment /\ b.key = a.key /\ b.osmuxPort = a.osmuxPort

\* Writing connected, idle and cfg of a record does not change what it leases.
LEMMA RewrittenAssignment ==
    ASSUME NEW a \in Assignment, NEW up \in BOOLEAN, NEW c \in Configs, NEW t \in 0 .. Ttl + 1
    PROVE  /\ SameLease(a, [a EXCEPT !.idle = t])
           /\ SameLease(a, [a EXCEPT !.connected = up, !.idle = t])
           /\ SameLease(a, [a EXCEPT !.connected = up, !.idle = t, !.cfg = c])
<1> DEFINE a1 == [a EXCEPT !.connected = up]
           a2 == [a1 EXCEPT !.idle = t]
           b == [a2 EXCEPT !.cfg = c]
<1>1. a1 \in Assignment /\ a1.key = a.key /\ a1.osmuxPort = a.osmuxPort
  BY DEF Assignment
<1> HIDE DEF a1
<1>2. a2 \in Assignment /\ a2.key = a.key /\ a2.osmuxPort = a.osmuxPort
  BY <1>1 DEF Assignment
<1> HIDE DEF a2
<1>3. b \in Assignment /\ b.key = a.key /\ b.osmuxPort = a.osmuxPort
  BY <1>2 DEF Assignment
<1>4. /\ b = [a EXCEPT !.connected = up, !.idle = t, !.cfg = c]
      /\ a2 = [a EXCEPT !.connected = up, !.idle = t]
  BY DEF a1, a2
<1>5. SameLease(a, [a EXCEPT !.idle = t])
  BY DEF Assignment, SameLease
<1>6. SameLease(a, b) /\ SameLease(a, a2)
  BY <1>2, <1>3 DEF SameLease
<1> HIDE DEF b
<1> QED BY <1>4, <1>5, <1>6

\* An owner that asks again keeps its lease.
LEMMA RefreshedConsistent ==
    ASSUME NEW m, Consistent(m), NEW k \in Owners(m), NEW cfg \in Configs \cup {Unset}
    PROVE  /\ Consistent(Refreshed(m, k, cfg))
           /\ LeaseOf(Refreshed(m, k, cfg)) = LeaseOf(m)
           /\ Assigned(Refreshed(m, k, cfg)) = Assigned(m)
<1> DEFINE i == m.assignmentKeyToId[k]
           b == [m.idToAssignment[i] EXCEPT !.connected = TRUE, !.idle = 0,
                    !.cfg = IF cfg = Unset THEN m.idToAssignment[i].cfg ELSE cfg]
           f == [m.idToAssignment EXCEPT ![i] = b]
<1>1. Refreshed(m, k, cfg) = [m EXCEPT !.idToAssignment = f]
  BY DEF Refreshed
<1>2. i \in Assigned(m) /\ m.idToAssignment \in [Assigned(m) -> Assignment]
  BY DEF Consistent, InverseMaps, IsState, IsMap, Assigned
<1>3. /\ b \in Assignment
      /\ b.key = m.idToAssignment[i].key
      /\ b.osmuxPort = m.idToAssignment[i].osmuxPort
  <2>1. m.idToAssignment[i] \in Assignment
    BY <1>2
  <2>2. 0 \in 0 .. Ttl + 1
    BY BtsManagerAssumption
  <2>3. (IF cfg = Unset THEN m.idToAssignment[i].cfg ELSE cfg) \in Configs
    BY <2>1 DEF Assignment
  <2>4. SameLease(m.idToAssignment[i], b)
    BY <2>1, <2>2, <2>3, RewrittenAssignment, Zenon
  <2> QED BY <2>4 DEF SameLease
<1> HIDE DEF b
<1>4. /\ f \in [Assigned(m) -> Assignment]
      /\ \A j \in Assigned(m) : /\ f[j].key = m.idToAssignment[j].key
                                /\ f[j].osmuxPort = m.idToAssignment[j].osmuxPort
  BY <1>2, <1>3
<1> HIDE DEF f
<1> QED BY <1>1, <1>4, TouchedConsistent

\* A mark on an assignment changes no lease.
LEMMA MarkedConsistent ==
    ASSUME NEW m, Consistent(m), NEW i, NEW up \in BOOLEAN
    PROVE  /\ Consistent(markById(m, i, up))
           /\ LeaseOf(markById(m, i, up)) = LeaseOf(m)
           /\ Assigned(markById(m, i, up)) = Assigned(m)
<1>1. CASE i \notin Assigned(m)
  BY <1>1 DEF markById
<1>2. CASE i \in Assigned(m)
  <2> DEFINE b == [m.idToAssignment[i] EXCEPT !.connected = up, !.idle = 0]
             f == [m.idToAssignment EXCEPT ![i] = b]
  <2>1. markById(m, i, up) = [m EXCEPT !.idToAssignment = f]
    BY <1>2 DEF markById
  <2>2. m.idToAssignment \in [Assigned(m) -> Assignment]
    BY DEF Consistent, IsState, IsMap, Assigned
  <2>3. /\ b \in Assignment
        /\ b.key = m.idToAssignment[i].key
        /\ b.osmuxPort = m.idToAssignment[i].osmuxPort
    <3>1. m.idToAssignment[i] \in Assignment
      BY <1>2, <2>2
    <3>2. 0 \in 0 .. Ttl + 1 /\ DefaultConfig \in Configs
      BY BtsManagerAssumption
    <3>3. SameLease(m.idToAssignment[i], b)
      BY <3>1, <3>2, RewrittenAssignment, Zenon
    <3> QED BY <3>3 DEF SameLease
  <2> HIDE DEF b
  <2>4. /\ f \in [Assigned(m) -> Assignment]
        /\ \A j \in Assigned(m) : /\ f[j].key = m.idToAssignment[j].key
                                  /\ f[j].osmuxPort = m.idToAssignment[j].osmuxPort
    BY <1>2, <2>2, <2>3
  <2> HIDE DEF f
  <2> QED BY <2>1, <2>4, TouchedConsistent
<1> QED BY <1>1, <1>2

\* A look-up by key that finds nobody marks nobody; one that finds an owner
\* changes no lease.
LEMMA SeenConsistent ==
    ASSUME NEW m, Consistent(m), NEW k \in Keys
    PROVE  /\ Consistent(markSeen(m, k))
           /\ LeaseOf(markSeen(m, k)) = LeaseOf(m)
           /\ Assigned(markSeen(m, k)) = Assigned(m)
<1>1. CASE k \notin Owners(m)
  BY <1>1 DEF markSeen
<1>2. CASE k \in Owners(m)
  <2> DEFINE i == m.assignmentKeyToId[k]
             b == [m.idToAssignment[i] EXCEPT !.idle = 0]
             f == [m.idToAssignment EXCEPT ![i] = b]
  <2>1. markSeen(m, k) = [m EXCEPT !.idToAssignment = f]
    BY <1>2 DEF markSeen
  <2>2. i \in Assigned(m) /\ m.idToAssignment \in [Assigned(m) -> Assignment]
    BY <1>2 DEF Consistent, InverseMaps, IsState, IsMap, Assigned
  <2>3. SameLease(m.idToAssignment[i], b)
    <3>1. m.idToAssignment[i] \in Assignment
      BY <2>2
    <3>2. 0 \in 0 .. Ttl + 1 /\ DefaultConfig \in Configs /\ TRUE \in BOOLEAN
      BY BtsManagerAssumption
    <3> QED BY <3>1, <3>2, RewrittenAssignment, Zenon
  <2> HIDE DEF b, i
  <2>4. /\ f \in [Assigned(m) -> Assignment]
        /\ \A j \in Assigned(m) : /\ f[j].key = m.idToAssignment[j].key
                                  /\ f[j].osmuxPort = m.idToAssignment[j].osmuxPort
    BY <2>2, <2>3 DEF SameLease
  <2> HIDE DEF f
  <2> QED BY <2>1, <2>4, TouchedConsistent
<1> QED BY <1>1, <1>2

\* Time passing changes no lease.
LEMMA AgedConsistent ==
    ASSUME NEW m, Consistent(m)
    PROVE  /\ Consistent(aged(m))
           /\ LeaseOf(aged(m)) = LeaseOf(m)
           /\ Assigned(aged(m)) = Assigned(m)
<1> DEFINE b(i) == [m.idToAssignment[i] EXCEPT !.idle = IF @ > Ttl THEN @ ELSE @ + 1]
           f == [i \in Assigned(m) |-> b(i)]
<1>1. aged(m) = [m EXCEPT !.idToAssignment = f]
  BY DEF aged
<1>2. ASSUME NEW i \in Assigned(m)
      PROVE  SameLease(m.idToAssignment[i], b(i))
  <2> DEFINE a == m.idToAssignment[i]
             t == IF a.idle > Ttl THEN a.idle ELSE a.idle + 1
  <2>1. a \in Assignment
    BY DEF Consistent, IsState, IsMap, Assigned
  <2>2. t \in 0 .. Ttl + 1
    BY <2>1, BtsManagerAssumption DEF Assignment
  <2>3. b(i) = [a EXCEPT !.idle = t]
    OBVIOUS
  <2>4. DefaultConfig \in Configs /\ TRUE \in BOOLEAN
    BY BtsManagerAssumption
  <2> HIDE DEF b, a, t
  <2>5. SameLease(a, b(i))
    BY <2>1, <2>2, <2>3, <2>4, RewrittenAssignment
  <2> QED BY <2>5 DEF a
<1> HIDE DEF b
<1>3. /\ f \in [Assigned(m) -> Assignment]
      /\ \A j \in Assigned(m) : /\ f[j].key = m.idToAssignment[j].key
                                /\ f[j].osmuxPort = m.idToAssignment[j].osmuxPort
  BY <1>2 DEF SameLease
<1> HIDE DEF f
<1> QED BY <1>1, <1>3, TouchedConsistent

\* A failed allocation may lose a free id; it breaks nothing else.
LEMMA FailedConsistent ==
    ASSUME NEW m, Consistent(m)
    PROVE  /\ Consistent(FailedAllocation(m))
           /\ LeaseOf(FailedAllocation(m)) = LeaseOf(m)
           /\ Assigned(FailedAllocation(m)) = Assigned(m)
<1>1. CASE m.freeIds = {}
  BY <1>1 DEF FailedAllocation
<1>2. CASE m.freeIds # {}
  <2> DEFINE n == FailedAllocation(m)
             id == nextBtsId(m)
  <2>1. n = [m EXCEPT !.freeIds = m.freeIds \ {id}]
    BY <1>2 DEF FailedAllocation
  <2> HIDE DEF n, id
  <2>2. n = [highestKnownBtsId |-> m.highestKnownBtsId, knownBtsIds |-> m.knownBtsIds,
             freeIds |-> m.freeIds \ {id}, usedOsmuxPorts |-> m.usedOsmuxPorts,
             idToAssignment |-> m.idToAssignment, assignmentKeyToId |-> m.assignmentKeyToId]
    BY <2>1 DEF Consistent, IsState
  <2>3. Assigned(n) = Assigned(m) /\ Owners(n) = Owners(m)
    BY <2>2 DEF Assigned, Owners
  <2>4. IsState(n)
    BY <2>2 DEF Consistent, IsState
  <2>5. InverseMaps(n)
    BY <2>2, <2>3 DEF Consistent, InverseMaps
  <2>6. ExactPorts(n)
    BY <2>2, <2>3 DEF Consistent, ExactPorts
  <2>7. ExactIds(n)
    BY <2>2, <2>3 DEF Consistent, ExactIds
  <2>8. LeaseOf(n) = LeaseOf(m)
    BY <2>2, <2>3 DEF LeaseOf
  <2> QED BY <2>3, <2>4, <2>5, <2>6, <2>7, <2>8 DEF Consistent, n
<1> QED BY <1>1, <1>2

-------------------------------------------------------------------------------
(* What one call does to the leases.                                         *)

\* No lease changes, some owners lose theirs, or one owner gets a fresh one.
LeaseMove(m, n) ==
    \/ LeaseOf(n) = LeaseOf(m)
    \/ \E gone \in SUBSET Owners(m) :
          LeaseOf(n) = [k \in Owners(m) \ gone |-> LeaseOf(m)[k]]
    \/ \E k \in Keys \ Owners(m), id \in BtsIds, port \in OsmuxPorts :
          /\ \A j \in Owners(m) : LeaseOf(m)[j].id # id /\ LeaseOf(m)[j].port # port
          /\ LeaseOf(n) = LeaseAdded(m, k, id, port)

\* allocate refreshes, grants or throws; each keeps the books.
LEMMA AllocateConsistent ==
    ASSUME NEW m, Consistent(m), NEW k \in Keys, NEW cfg \in Configs \cup {Unset}
    PROVE  /\ Consistent(allocate(m, k, cfg))
           /\ LeaseMove(m, allocate(m, k, cfg))
<1>1. CASE k \in Owners(m)
  BY <1>1, RefreshedConsistent DEF allocate, LeaseMove
<1>2. CASE k \notin Owners(m) /\ CanAllocate(m)
  <2> DEFINE n == Granted(m, k, cfg)
             id == nextBtsId(m)
             port == allocateOsmuxPort(m)
  <2>1. allocate(m, k, cfg) = n
    BY <1>2 DEF allocate
  <2>2. Consistent(n) /\ LeaseOf(n) = LeaseAdded(m, k, id, port)
    BY <1>2, GrantedConsistent
  <2>3. id \in BtsIds \ Assigned(m) /\ port \in OsmuxPorts \ m.usedOsmuxPorts
    BY <1>2, FreshIdAndPort
  <2> HIDE DEF n, id, port
  <2>4. \A j \in Owners(m) : LeaseOf(m)[j].id # id /\ LeaseOf(m)[j].port # port
    BY <2>3 DEF LeaseOf, Consistent, InverseMaps, ExactPorts
  <2> QED BY <1>2, <2>1, <2>2, <2>3, <2>4 DEF LeaseMove
<1>3. CASE k \notin Owners(m) /\ ~CanAllocate(m)
  BY <1>3, FailedConsistent DEF allocate, LeaseMove
<1> QED BY <1>1, <1>2, <1>3

\* Any release is a move in which the owners of its ids lose their leases.
LEMMA ReleasedMove ==
    ASSUME NEW m, Consistent(m), NEW S, S \subseteq Assigned(m)
    PROVE  Consistent(released(m, S)) /\ LeaseMove(m, released(m, S))
<1> DEFINE gone == {m.idToAssignment[i].key : i \in S}
<1>1. gone \subseteq Owners(m)
  BY DEF Consistent, InverseMaps
<1>2. /\ Consistent(released(m, S))
      /\ LeaseOf(released(m, S)) = [k \in Owners(m) \ gone |-> LeaseOf(m)[k]]
  BY ReleasedConsistent
<1> HIDE DEF gone
<1> QED BY <1>1, <1>2 DEF LeaseMove

\* Every call, from a consistent state, leaves a consistent state and makes one
\* of the moves.
LEMMA StepMove ==
    ASSUME Consistent(mgr), Next
    PROVE  Consistent(mgr') /\ LeaseMove(mgr, mgr')
<1>1. ASSUME NEW list \in BscLists, Sync(list)
      PROVE  Consistent(mgr') /\ LeaseMove(mgr, mgr')
  BY <1>1, SyncConsistent DEF Sync, LeaseMove
<1>2. ASSUME NEW k \in Keys, NEW cfg \in Configs \cup {Unset}, Allocate(k, cfg)
      PROVE  Consistent(mgr') /\ LeaseMove(mgr, mgr')
  BY <1>2, AllocateConsistent DEF Allocate
<1>3. ASSUME NEW i \in BtsIds, ReleaseById(i)
      PROVE  Consistent(mgr') /\ LeaseMove(mgr, mgr')
  BY <1>3, ReleasedMove DEF ReleaseById, releaseById
<1>4. ASSUME NEW k \in Keys, ReleaseByUuid(k)
      PROVE  Consistent(mgr') /\ LeaseMove(mgr, mgr')
  <2>1. CASE k \in Owners(mgr)
    <3> DEFINE S == {mgr.assignmentKeyToId[k]} \cap Assigned(mgr)
    <3>1. S \subseteq Assigned(mgr)
      OBVIOUS
    <3>2. mgr' = released(mgr, S)
      BY <1>4, <2>1 DEF ReleaseByUuid, releaseByUuid, releaseById
    <3> HIDE DEF S
    <3> QED BY <3>1, <3>2, ReleasedMove
  <2>2. CASE k \notin Owners(mgr)
    BY <1>4, <2>2 DEF ReleaseByUuid, releaseByUuid, LeaseMove
  <2> QED BY <2>1, <2>2
<1>5. ASSUME NEW k \in Keys, MarkSeen(k)
      PROVE  Consistent(mgr') /\ LeaseMove(mgr, mgr')
  BY <1>5, SeenConsistent DEF MarkSeen, LeaseMove
<1>6. ASSUME NEW i \in BtsIds, MarkSeenById(i)
      PROVE  Consistent(mgr') /\ LeaseMove(mgr, mgr')
  BY <1>6, MarkedConsistent DEF MarkSeenById, markSeenById, LeaseMove
<1>7. ASSUME NEW k \in Keys, MarkDisconnected(k)
      PROVE  Consistent(mgr') /\ LeaseMove(mgr, mgr')
  BY <1>7, MarkedConsistent DEF MarkDisconnected, markDisconnected, LeaseMove
<1>8. ASSUME NEW i \in BtsIds, MarkDisconnectedById(i)
      PROVE  Consistent(mgr') /\ LeaseMove(mgr, mgr')
  BY <1>8, MarkedConsistent DEF MarkDisconnectedById, markDisconnectedById, LeaseMove
<1>9. ASSUME CleanupExpired
      PROVE  Consistent(mgr') /\ LeaseMove(mgr, mgr')
  BY <1>9, ReleasedMove DEF CleanupExpired, cleanupExpiredAssignments
<1>10. ASSUME NEW list \in BscLists, CleanupDisconnected(list)
       PROVE  Consistent(mgr') /\ LeaseMove(mgr, mgr')
  BY <1>10, ReleasedMove DEF CleanupDisconnected, cleanupDisconnectedBscAssignments
<1>11. ASSUME Tick
       PROVE  Consistent(mgr') /\ LeaseMove(mgr, mgr')
  BY <1>11, AgedConsistent DEF Tick, LeaseMove
<1> QED
  BY <1>1, <1>2, <1>3, <1>4, <1>5, <1>6, <1>7, <1>8, <1>9, <1>10, <1>11
     DEF Next, Call, Syncs, Release, Other

-------------------------------------------------------------------------------
(* Theorems.                                                                 *)

\* In every reachable state the manager's books are consistent.
THEOREM AlwaysConsistent == Spec => []Consistent(mgr)
<1>1. Init => Consistent(mgr)
  BY InitialConsistent DEF Init
<1>2. Consistent(mgr) /\ [Next]_mgr => Consistent(mgr)'
  <2>1. ASSUME Consistent(mgr), Next  PROVE Consistent(mgr)'
    BY <2>1, StepMove DEF Consistent, IsState, InverseMaps, ExactPorts, ExactIds, Assigned, Owners
  <2>2. ASSUME Consistent(mgr), UNCHANGED mgr  PROVE Consistent(mgr)'
    BY <2>2 DEF Consistent, IsState, InverseMaps, ExactPorts, ExactIds, Assigned, Owners
  <2> QED BY <2>1, <2>2
<1> QED BY <1>1, <1>2, PTL DEF Spec

\* The six fields always have the shapes the class declares.
THEOREM TypeCorrect == Spec => []TypeOK
<1>1. Consistent(mgr) => TypeOK
  BY DEF Consistent, TypeOK
<1> QED BY <1>1, AlwaysConsistent, PTL

\* idToAssignment and assignmentKeyToId are inverses in every reachable state.
THEOREM MapsAlwaysInverse == Spec => []MapsInverse
<1>1. Consistent(mgr) => MapsInverse
  BY DEF Consistent, MapsInverse
<1> QED BY <1>1, AlwaysConsistent, PTL

\* No two assignments ever share a port, and no port is ever leaked.
THEOREM PortsAlwaysAccounted == Spec => []PortsAccounted
<1>1. Consistent(mgr) => PortsAccounted
  BY DEF Consistent, PortsAccounted
<1> QED BY <1>1, AlwaysConsistent, PTL

\* freeIds, knownBtsIds and highestKnownBtsId always agree with the assignments.
THEOREM IdsAlwaysAccounted == Spec => []IdsAccounted
<1>1. Consistent(mgr) => IdsAccounted
  BY DEF Consistent, IdsAccounted
<1> QED BY <1>1, AlwaysConsistent, PTL

\* The manager implements BtsLease: whatever is called in whatever order, an
\* owner's id and port are its own and stay the same until it loses both.
THEOREM ManagerImplementsLease == Spec => ImplementsLease
<1>1. Init => Abstract!Init
  BY DEF Init, InitialState, LeaseOf, Owners, Abstract!Init
<1>2. Consistent(mgr) /\ [Next]_mgr => [Abstract!Next]_(LeaseOf(mgr))
  <2>1. ASSUME Consistent(mgr), Next
        PROVE  Abstract!Next \/ UNCHANGED LeaseOf(mgr)
    <3> DEFINE lease == LeaseOf(mgr)
               after == LeaseOf(mgr')
    <3>1. LeaseMove(mgr, mgr')
      BY <2>1, StepMove
    <3>2. DOMAIN lease = Owners(mgr) /\ Owners(mgr) \subseteq Keys
      BY <2>1 DEF LeaseOf, Owners, Consistent, IsState, IsMap
    <3>3. after = LeaseOf(mgr)'
      BY DEF LeaseOf, Owners
    <3>4. CASE after = lease
      BY <3>3, <3>4
    <3>5. ASSUME NEW gone \in SUBSET Owners(mgr),
                 after = [k \in Owners(mgr) \ gone |-> lease[k]]
          PROVE  Abstract!Drop(gone) /\ gone \in SUBSET Keys
      <4> HIDE DEF lease, after
      <4>1. gone \subseteq DOMAIN lease /\ after = [k \in DOMAIN lease \ gone |-> lease[k]]
        BY <3>2, <3>5
      <4> QED BY <4>1, <3>2, <3>3 DEF Abstract!Drop, lease
    <3>6. ASSUME NEW k \in Keys \ Owners(mgr), NEW id \in BtsIds, NEW port \in OsmuxPorts,
                 \A j \in Owners(mgr) : lease[j].id # id /\ lease[j].port # port,
                 after = LeaseAdded(mgr, k, id, port)
          PROVE  Abstract!Grant({}, k)
      <4> DEFINE l == [id |-> id, port |-> port]
      <4>1. l \in Abstract!Lease /\ l.id = id /\ l.port = port
        BY DEF Abstract!Lease
      <4>2. after = [j \in (DOMAIN lease \ {}) \cup {k} |-> IF j = k THEN l ELSE lease[j]]
        BY <3>2, <3>6 DEF LeaseAdded
      <4>3. \A j \in DOMAIN lease \ {} : lease[j].id # l.id /\ lease[j].port # l.port
        BY <3>2, <3>6
      <4>4. k \notin DOMAIN lease \ {}
        BY <3>2
      <4> HIDE DEF l
      <4> QED BY <4>1, <4>2, <4>3, <4>4, <3>3 DEF Abstract!Grant
    <3>7. {} \in SUBSET Keys
      OBVIOUS
    <3> QED BY <3>1, <3>4, <3>5, <3>6, <3>7 DEF LeaseMove, Abstract!Next
  <2>2. UNCHANGED mgr => UNCHANGED LeaseOf(mgr)
    BY DEF LeaseOf, Owners
  <2> QED BY <2>1, <2>2
<1> QED BY <1>1, <1>2, AlwaysConsistent, PTL DEF Spec, ImplementsLease, Abstract!Spec

\* A release ends the assignment it names and no other.
LEMMA ReleaseAssigned ==
    ASSUME Consistent(mgr)
    PROVE  /\ \A i \in BtsIds : ReleaseById(i) => Assigned(mgr') = Assigned(mgr) \ {i}
           /\ \A k \in Keys : ReleaseByUuid(k) =>
                 \/ Assigned(mgr') = Assigned(mgr)
                 \/ /\ k \in Owners(mgr)
                    /\ Assigned(mgr') = Assigned(mgr) \ {mgr.assignmentKeyToId[k]}
<1>1. ASSUME NEW i \in BtsIds, ReleaseById(i)
      PROVE  Assigned(mgr') = Assigned(mgr) \ {i}
  <2>1. {i} \cap Assigned(mgr) \subseteq Assigned(mgr)
    OBVIOUS
  <2>2. Assigned(mgr') = Assigned(mgr) \ ({i} \cap Assigned(mgr))
    BY <1>1, <2>1, ReleasedConsistent DEF ReleaseById, releaseById
  <2> QED BY <2>2
<1>2. ASSUME NEW k \in Keys, ReleaseByUuid(k)
      PROVE  \/ Assigned(mgr') = Assigned(mgr)
             \/ /\ k \in Owners(mgr)
                /\ Assigned(mgr') = Assigned(mgr) \ {mgr.assignmentKeyToId[k]}
  <2>1. CASE k \in Owners(mgr)
    <3> DEFINE S == {mgr.assignmentKeyToId[k]} \cap Assigned(mgr)
    <3>1. S \subseteq Assigned(mgr)
      OBVIOUS
    <3>2. mgr' = released(mgr, S)
      BY <1>2, <2>1 DEF ReleaseByUuid, releaseByUuid, releaseById
    <3>3. Assigned(mgr') = Assigned(mgr) \ S
      <4> HIDE DEF S
      <4> QED BY <3>1, <3>2, ReleasedConsistent
    <3> QED BY <2>1, <3>3
  <2>2. CASE k \notin Owners(mgr)
    BY <1>2, <2>2 DEF ReleaseByUuid, releaseByUuid
  <2> QED BY <2>1, <2>2
<1> QED BY <1>1, <1>2

\* Every other call allocates, leaves the same ids assigned, or ends expired or
\* disconnected assignments.
LEMMA OtherAssigned ==
    ASSUME Consistent(mgr), Syncs \/ Other
    PROVE  \/ Assigned(mgr') = Assigned(mgr)
           \/ CanAllocate(mgr) /\ Assigned(mgr') = Assigned(mgr) \cup {nextBtsId(mgr)}
           \/ \E S \in SUBSET Assigned(mgr) :
                 /\ Assigned(mgr') = Assigned(mgr) \ S
                 /\ \A i \in S : mgr.idToAssignment[i].idle > Ttl
           \/ \E S \in SUBSET Assigned(mgr) :
                 /\ Assigned(mgr') = Assigned(mgr) \ S
                 /\ \A i \in S : ~mgr.idToAssignment[i].connected
<1> DEFINE Goal == \/ Assigned(mgr') = Assigned(mgr)
                   \/ CanAllocate(mgr) /\ Assigned(mgr') = Assigned(mgr) \cup {nextBtsId(mgr)}
<1>1. ASSUME NEW list \in BscLists, Sync(list)  PROVE Goal
  BY <1>1, SyncConsistent DEF Sync
<1>2. ASSUME NEW k \in Keys, NEW cfg \in Configs \cup {Unset}, Allocate(k, cfg)  PROVE Goal
  <2>1. CASE k \in Owners(mgr)
    BY <1>2, <2>1, RefreshedConsistent DEF Allocate, allocate
  <2>2. CASE k \notin Owners(mgr) /\ CanAllocate(mgr)
    <3>1. mgr' = Granted(mgr, k, cfg)
      BY <1>2, <2>2 DEF Allocate, allocate
    <3> QED BY <2>2, <3>1, GrantedConsistent
  <2>3. CASE k \notin Owners(mgr) /\ ~CanAllocate(mgr)
    BY <1>2, <2>3, FailedConsistent DEF Allocate, allocate
  <2> QED BY <2>1, <2>2, <2>3
<1>3. ASSUME NEW k \in Keys, MarkSeen(k)  PROVE Goal
  BY <1>3, SeenConsistent DEF MarkSeen
<1>4. ASSUME NEW i \in BtsIds, MarkSeenById(i)  PROVE Goal
  BY <1>4, MarkedConsistent DEF MarkSeenById, markSeenById
<1>5. ASSUME NEW k \in Keys, MarkDisconnected(k)  PROVE Goal
  BY <1>5, MarkedConsistent DEF MarkDisconnected, markDisconnected
<1>6. ASSUME NEW i \in BtsIds, MarkDisconnectedById(i)  PROVE Goal
  BY <1>6, MarkedConsistent DEF MarkDisconnectedById, markDisconnectedById
<1>7. ASSUME CleanupExpired
      PROVE  \E S \in SUBSET Assigned(mgr) :
                 /\ Assigned(mgr') = Assigned(mgr) \ S
                 /\ \A i \in S : mgr.idToAssignment[i].idle > Ttl
  <2> DEFINE S == {i \in Assigned(mgr) : mgr.idToAssignment[i].idle > Ttl}
  <2>1. S \subseteq Assigned(mgr) /\ mgr' = released(mgr, S)
    BY <1>7 DEF CleanupExpired, cleanupExpiredAssignments
  <2>2. Assigned(mgr') = Assigned(mgr) \ S
    <3> HIDE DEF S
    <3> QED BY <2>1, ReleasedConsistent
  <2> QED BY <2>1, <2>2
<1>8. ASSUME NEW list \in BscLists, CleanupDisconnected(list)
       PROVE  \E S \in SUBSET Assigned(mgr) :
                 /\ Assigned(mgr') = Assigned(mgr) \ S
                 /\ \A i \in S : ~mgr.idToAssignment[i].connected
  <2> DEFINE S == {i \in Assigned(mgr) \cap DOMAIN list :
                      ~mgr.idToAssignment[i].connected /\ isReusableBscBts(list[i])}
  <2>1. S \subseteq Assigned(mgr) /\ mgr' = released(mgr, S)
    BY <1>8 DEF CleanupDisconnected, cleanupDisconnectedBscAssignments
  <2>2. Assigned(mgr') = Assigned(mgr) \ S
    <3> HIDE DEF S
    <3> QED BY <2>1, ReleasedConsistent
  <2> QED BY <2>1, <2>2
<1>9. ASSUME Tick  PROVE Goal
  BY <1>9, AgedConsistent DEF Tick
<1> QED
  BY <1>1, <1>2, <1>3, <1>4, <1>5, <1>6, <1>7, <1>8, <1>9 DEF Syncs, Other

\* A new assignment never takes an id that the BSC reported in use or that another
\* owner has: only a free one, or one never heard of.
THEOREM OnlyFreeIdsTaken == Spec => TakesOnlyFreeIds
<1> DEFINE A == \A i \in BtsIds : i \in Assigned(mgr)' \ Assigned(mgr)
                   => i \in mgr.freeIds \/ i \notin mgr.knownBtsIds
<1>1. Consistent(mgr) /\ [Next]_mgr => [A]_mgr
  <2>1. ASSUME Consistent(mgr), Next, NEW i \in BtsIds, i \in Assigned(mgr') \ Assigned(mgr)
        PROVE  i \in mgr.freeIds \/ i \notin mgr.knownBtsIds
    <3>1. CanAllocate(mgr) /\ i = nextBtsId(mgr)
      <4>1. CASE Release
        BY <2>1, <4>1, ReleaseAssigned DEF Release
      <4>2. CASE Syncs \/ Other
        BY <2>1, <4>2, OtherAssigned
      <4> QED BY <2>1, <4>1, <4>2 DEF Next, Call
    <3>2. nextBtsId(mgr) \in mgr.freeIds \/ nextBtsId(mgr) > mgr.highestKnownBtsId
      BY <2>1, <3>1, FreshIdAndPort
    <3>3. /\ mgr.highestKnownBtsId \in Int /\ i \in Int
          /\ \A j \in mgr.knownBtsIds : j <= mgr.highestKnownBtsId
      BY <2>1, BtsManagerAssumption DEF Consistent, ExactIds, IsState, BtsIds
    <3> QED BY <3>1, <3>2, <3>3
  <2>2. Assigned(mgr') = Assigned(mgr)'
    BY DEF Assigned
  <2> QED BY <2>1, <2>2
<1> QED BY <1>1, AlwaysConsistent, PTL DEF Spec, TakesOnlyFreeIds

\* An assignment that is connected and was seen within the time to live is ended by
\* no list, clean-up, allocation, report or passing of time, and by no release but
\* one that names it or its owner.
THEOREM LiveAssignmentAlwaysKept == Spec => LiveAssignmentKept
<1> DEFINE A == \A i \in Assigned(mgr) \ Assigned(mgr)' :
          mgr.idToAssignment[i].connected /\ mgr.idToAssignment[i].idle <= Ttl =>
              /\ ~(Syncs \/ Other)
              /\ \A j \in BtsIds : ReleaseById(j) => j = i
              /\ \A k \in Keys : ReleaseByUuid(k) => k = mgr.idToAssignment[i].key
<1>1. Consistent(mgr) /\ [Next]_mgr => [A]_mgr
  <2>1. ASSUME Consistent(mgr), NEW i \in Assigned(mgr) \ Assigned(mgr'),
               mgr.idToAssignment[i].connected, mgr.idToAssignment[i].idle <= Ttl
        PROVE  /\ ~(Syncs \/ Other)
               /\ \A j \in BtsIds : ReleaseById(j) => j = i
               /\ \A k \in Keys : ReleaseByUuid(k) => k = mgr.idToAssignment[i].key
    <3>1. ~(mgr.idToAssignment[i].idle > Ttl)
      BY <2>1, BtsManagerAssumption DEF Consistent, IsState, IsMap, Assigned, Assignment
    <3>2. \A k \in Owners(mgr) : mgr.assignmentKeyToId[k] = i => mgr.idToAssignment[i].key = k
      BY <2>1 DEF Consistent, InverseMaps
    <3>3. ~(Syncs \/ Other)
      BY <2>1, <3>1, OtherAssigned
    <3>4. \A j \in BtsIds : ReleaseById(j) => j = i
      BY <2>1, ReleaseAssigned
    <3>5. \A k \in Keys : ReleaseByUuid(k) => k = mgr.idToAssignment[i].key
      BY <2>1, <3>2, ReleaseAssigned
    <3> QED BY <3>3, <3>4, <3>5
  <2>2. Assigned(mgr') = Assigned(mgr)'
    BY DEF Assigned
  <2> QED BY <2>1, <2>2
<1> QED BY <1>1, AlwaysConsistent, PTL DEF Spec, LiveAssignmentKept

-------------------------------------------------------------------------------
(* Ids that were returned.                                                   *)

\* From m to n no id gets lost: one that was assigned and is no more is free, and
\* one that was free is free or assigned, unless there was no port left.
NoIdLost(m, n) ==
    /\ Assigned(m) \ Assigned(n) \subseteq n.freeIds
    /\ m.usedOsmuxPorts # OsmuxPorts => m.freeIds \subseteq n.freeIds \cup Assigned(n)

\* A call that only writes into assignments loses no id.
LEMMA TouchedNoIdLost ==
    ASSUME NEW m, Consistent(m), NEW n, NEW f, n = [m EXCEPT !.idToAssignment = f],
           Assigned(n) = Assigned(m)
    PROVE  NoIdLost(m, n)
<1>1. n.freeIds = m.freeIds
  BY DEF Consistent, IsState
<1> QED BY <1>1 DEF NoIdLost

\* A mark, of an owner or of an id.
LEMMA MarkedNoIdLost ==
    ASSUME NEW m, Consistent(m), NEW i, NEW up \in BOOLEAN
    PROVE  NoIdLost(m, markById(m, i, up))
<1>1. CASE i \in Assigned(m)
  BY <1>1, MarkedConsistent, TouchedNoIdLost DEF markById
<1>2. CASE i \notin Assigned(m)
  BY <1>2 DEF markById, NoIdLost
<1> QED BY <1>1, <1>2

LEMMA SeenNoIdLost ==
    ASSUME NEW m, Consistent(m), NEW k \in Keys
    PROVE  NoIdLost(m, markSeen(m, k))
<1>1. CASE k \in Owners(m)
  BY <1>1, SeenConsistent, TouchedNoIdLost DEF markSeen
<1>2. CASE k \notin Owners(m)
  BY <1>2 DEF markSeen, NoIdLost
<1> QED BY <1>1, <1>2

\* Whatever is released becomes free.
LEMMA ReleasedNoIdLost ==
    ASSUME NEW m, Consistent(m), NEW S, S \subseteq Assigned(m)
    PROVE  NoIdLost(m, released(m, S))
<1>1. released(m, S).freeIds = m.freeIds \cup S
  BY DEF released
<1>2. Assigned(released(m, S)) = Assigned(m) \ S
  BY ReleasedConsistent
<1> QED BY <1>1, <1>2 DEF NoIdLost

\* An allocation that fails takes an id out of the free ones only when there is no
\* port: the lowest free id is always in range.
LEMMA FailedNoIdLost ==
    ASSUME NEW m, Consistent(m), ~CanAllocate(m)
    PROVE  NoIdLost(m, FailedAllocation(m))
<1>1. Assigned(FailedAllocation(m)) = Assigned(m)
  BY FailedConsistent
<1>2. CASE m.freeIds = {}
  BY <1>2 DEF FailedAllocation, NoIdLost
<1>3. CASE m.freeIds # {}
  <2>1. m.freeIds \subseteq BtsIds /\ m.usedOsmuxPorts \subseteq OsmuxPorts
    BY DEF Consistent, IsState
  <2>2. Min(m.freeIds) \in m.freeIds
    BY <1>3, <2>1, MinOfNats, BtsManagerAssumption DEF BtsIds
  <2>3. nextBtsId(m) < MaxBts
    BY <1>3, <2>1, <2>2, BtsManagerAssumption DEF nextBtsId, BtsIds
  <2>4. m.usedOsmuxPorts = OsmuxPorts
    BY <2>1, <2>3 DEF CanAllocate, openPorts
  <2> QED BY <1>1, <2>4 DEF NoIdLost
<1> QED BY <1>2, <1>3

LEMMA AllocateNoIdLost ==
    ASSUME NEW m, Consistent(m), NEW k \in Keys, NEW cfg \in Configs \cup {Unset}
    PROVE  NoIdLost(m, allocate(m, k, cfg))
<1>1. CASE k \in Owners(m)
  <2>1. allocate(m, k, cfg) = Refreshed(m, k, cfg)
    BY <1>1 DEF allocate
  <2>2. Assigned(Refreshed(m, k, cfg)) = Assigned(m)
    BY <1>1, RefreshedConsistent
  <2>3. \E f : Refreshed(m, k, cfg) = [m EXCEPT !.idToAssignment = f]
    BY DEF Refreshed
  <2> QED BY <2>1, <2>2, <2>3, TouchedNoIdLost
<1>2. CASE k \notin Owners(m) /\ CanAllocate(m)
  <2>1. allocate(m, k, cfg) = Granted(m, k, cfg)
    BY <1>2 DEF allocate
  <2>2. Assigned(Granted(m, k, cfg)) = Assigned(m) \cup {nextBtsId(m)}
    BY <1>2, GrantedConsistent
  <2>3. Granted(m, k, cfg).freeIds = m.freeIds \ {nextBtsId(m)}
    BY DEF Granted
  <2> QED BY <2>1, <2>2, <2>3 DEF NoIdLost
<1>3. CASE k \notin Owners(m) /\ ~CanAllocate(m)
  BY <1>3, FailedNoIdLost DEF allocate
<1> QED BY <1>1, <1>2, <1>3

\* No call but the reading of a list from the BSC loses an id.
LEMMA CallNoIdLost ==
    ASSUME Consistent(mgr), Call
    PROVE  NoIdLost(mgr, mgr')
<1>1. ASSUME NEW k \in Keys, NEW cfg \in Configs \cup {Unset}, Allocate(k, cfg)
      PROVE  NoIdLost(mgr, mgr')
  BY <1>1, AllocateNoIdLost DEF Allocate
<1>2. ASSUME NEW i, mgr' = releaseById(mgr, i)
      PROVE  NoIdLost(mgr, mgr')
  <2>1. {i} \cap Assigned(mgr) \subseteq Assigned(mgr)
    OBVIOUS
  <2> QED BY <1>2, <2>1, ReleasedNoIdLost DEF releaseById
<1>3. ASSUME UNCHANGED mgr  PROVE NoIdLost(mgr, mgr')
  BY <1>3 DEF NoIdLost
<1>4. ASSUME NEW k \in Keys, ReleaseByUuid(k)  PROVE NoIdLost(mgr, mgr')
  BY <1>2, <1>3, <1>4 DEF ReleaseByUuid, releaseByUuid
<1>5. ASSUME NEW k \in Keys, MarkSeen(k)  PROVE NoIdLost(mgr, mgr')
  BY <1>5, SeenNoIdLost DEF MarkSeen
<1>6. ASSUME NEW i, MarkSeenById(i) \/ MarkDisconnectedById(i)  PROVE NoIdLost(mgr, mgr')
  BY <1>6, MarkedNoIdLost DEF MarkSeenById, markSeenById, MarkDisconnectedById, markDisconnectedById
<1>7. ASSUME NEW k \in Keys, MarkDisconnected(k)  PROVE NoIdLost(mgr, mgr')
  BY <1>3, <1>7, MarkedNoIdLost DEF MarkDisconnected, markDisconnected
<1>8. ASSUME CleanupExpired  PROVE NoIdLost(mgr, mgr')
  <2> DEFINE S == {i \in Assigned(mgr) : mgr.idToAssignment[i].idle > Ttl}
  <2>1. S \subseteq Assigned(mgr) /\ mgr' = released(mgr, S)
    BY <1>8 DEF CleanupExpired, cleanupExpiredAssignments
  <2> HIDE DEF S
  <2> QED BY <2>1, ReleasedNoIdLost
<1>9. ASSUME NEW list \in BscLists, CleanupDisconnected(list)  PROVE NoIdLost(mgr, mgr')
  <2> DEFINE S == {i \in Assigned(mgr) \cap DOMAIN list :
                      ~mgr.idToAssignment[i].connected /\ isReusableBscBts(list[i])}
  <2>1. S \subseteq Assigned(mgr) /\ mgr' = released(mgr, S)
    BY <1>9 DEF CleanupDisconnected, cleanupDisconnectedBscAssignments
  <2> HIDE DEF S
  <2> QED BY <2>1, ReleasedNoIdLost
<1>10. ASSUME Tick  PROVE NoIdLost(mgr, mgr')
  BY <1>10, AgedConsistent, TouchedNoIdLost DEF Tick, aged
<1> QED
  BY <1>1, <1>2, <1>4, <1>5, <1>6, <1>7, <1>8, <1>9, <1>10
     DEF Call, Release, Other, ReleaseById

\* A list takes only the ids it names out of the free ones.
LEMMA SyncKeepsFree ==
    ASSUME NEW m, Consistent(m), NEW list \in BscLists
    PROVE  m.freeIds \ DOMAIN list \subseteq syncFromBsc(m, list).freeIds
BY DEF syncFromBsc, Consistent, IsState

\* The history variable restricts nothing: the manager goes on as before.
LEMMA ReuseSteps == NextReuse => Next
BY DEF NextReuse, Next, Syncs

\* The books stay consistent beside the history.
LEMMA ReuseConsistent == SpecReuse => []Consistent(mgr)
<1>1. InitReuse => Consistent(mgr)
  BY InitialConsistent DEF InitReuse, Init
<1>2. Consistent(mgr) /\ [NextReuse]_<<mgr, returned>> => Consistent(mgr)'
  <2>1. ASSUME Consistent(mgr), NextReuse  PROVE Consistent(mgr')
    BY <2>1, ReuseSteps, StepMove
  <2>2. Consistent(mgr') <=> Consistent(mgr)'
    OBVIOUS
  <2> QED BY <2>1, <2>2
<1> QED BY <1>1, <1>2, PTL DEF SpecReuse

\* An id whose owner lost it is free at once, and no call but an allocation that finds
\* no port makes it unavailable until it is given away or the BSC's list names it: the
\* releases and clean-ups of any number of owners, in any order, lose no id.
THEOREM ReleasedIdAlwaysKept == SpecReuse => ReleasedIdKept
<1> DEFINE A == /\ returned' \ returned \subseteq mgr'.freeIds
                /\ mgr.usedOsmuxPorts # OsmuxPorts =>
                      returned \cap returned' \cap mgr.freeIds \subseteq mgr'.freeIds
<1>1. Consistent(mgr) /\ [NextReuse]_<<mgr, returned>> => [A]_<<mgr, returned>>
  <2>1. ASSUME Consistent(mgr), NEW list \in BscLists, Sync(list),
               returned' = returned \ DOMAIN list
        PROVE  A
    BY <2>1, SyncKeepsFree DEF Sync
  <2>2. ASSUME Consistent(mgr), Call,
               returned' = (returned \cup Assigned(mgr)) \ Assigned(mgr')
        PROVE  A
    BY <2>2, CallNoIdLost DEF NoIdLost
  <2>3. Assigned(mgr)' = Assigned(mgr')
    BY DEF Assigned
  <2> QED BY <2>1, <2>2, <2>3 DEF NextReuse
<1> QED BY <1>1, ReuseConsistent, PTL DEF SpecReuse, ReleasedIdKept

===============================================================================
