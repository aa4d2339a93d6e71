--------------------------- MODULE BtsServiceProofs ---------------------------
(***************************************************************************)
(* Theorems about BtsService, for any owners, requests in flight, ids and  *)
(* ports: whatever the handlers interleave, the manager's books stay       *)
(* consistent, no handler writes into a record of a different owner, a new *)
(* id is never one the list reports in use, and the service implements the *)
(* abstract lease.  Of every owner whose requests do not overlap the BSC   *)
(* ends up with the configuration on record, and what it was answered with *)
(* is not lost through another request.  The facts about single calls are  *)
(* BtsManagerProofs'; here they are composed into turns.                   *)
(***************************************************************************)
EXTENDS BtsService, BtsManagerProofs

-------------------------------------------------------------------------------
(* What a turn does to the manager.                                          *)

KeyOf(m, i) == m.idToAssignment[i].key

\* n is consistent and has every record of m but those of the ids in gone.
Follows(m, n, gone) ==
    /\ Consistent(n)
    /\ \A i \in Assigned(m) \ gone : i \in Assigned(n) /\ KeyOf(n, i) = KeyOf(m, i)

\* The owners in gone lose their leases, and then one owner may get a fresh one.
MoveTo(m, l) ==
    \E gone \in SUBSET Owners(m) :
        \/ l = [j \in Owners(m) \ gone |-> LeaseOf(m)[j]]
        \/ \E k \in Keys, id \in BtsIds, port \in OsmuxPorts :
              /\ k \notin Owners(m) \ gone
              /\ \A j \in Owners(m) \ gone : LeaseOf(m)[j].id # id /\ LeaseOf(m)[j].port # port
              /\ l = [j \in (Owners(m) \ gone) \cup {k} |->
                         IF j = k THEN [id |-> id, port |-> port] ELSE LeaseOf(m)[j]]

TurnMove(m, n) == MoveTo(m, LeaseOf(n))

\* The first half of a move: the leases of n are those of m but for some owners'.
Drops(m, n) ==
    \E gone \in SUBSET Owners(m) : LeaseOf(n) = [j \in Owners(m) \ gone |-> LeaseOf(m)[j]]

\* An owner whose lease is the same has its record under the same id.
LEMMA SameLeaseSameRecord ==
    ASSUME NEW m, Consistent(m), NEW n, Consistent(n), NEW i \in Assigned(m),
           KeyOf(m, i) \in Owners(n), LeaseOf(n)[KeyOf(m, i)] = LeaseOf(m)[KeyOf(m, i)]
    PROVE  i \in Assigned(n) /\ KeyOf(n, i) = KeyOf(m, i)
<1> DEFINE k == KeyOf(m, i)
<1>1. k \in Owners(m) /\ m.assignmentKeyToId[k] = i
  BY DEF Consistent, InverseMaps, KeyOf
<1>2. LeaseOf(m)[k].id = i
  BY <1>1 DEF LeaseOf
<1>3. LeaseOf(n)[k].id = n.assignmentKeyToId[k]
  BY DEF LeaseOf
<1>4. n.assignmentKeyToId[k] = i
  BY <1>2, <1>3
<1> QED BY <1>4 DEF Consistent, InverseMaps, KeyOf

LEMMA OwnersHaveLeases ==
    ASSUME NEW m
    PROVE  DOMAIN LeaseOf(m) = Owners(m)
BY DEF LeaseOf

\* A call that changes no lease.
LEMMA QuietCall ==
    ASSUME NEW m, Consistent(m), NEW n, Consistent(n), LeaseOf(n) = LeaseOf(m)
    PROVE  Follows(m, n, {}) /\ TurnMove(m, n)
<1>1. Owners(n) = Owners(m)
  BY OwnersHaveLeases
<1>2. \A i \in Assigned(m) : KeyOf(m, i) \in Owners(m)
  BY DEF Consistent, InverseMaps, KeyOf
<1>3. \A i \in Assigned(m) : i \in Assigned(n) /\ KeyOf(n, i) = KeyOf(m, i)
  BY <1>1, <1>2, SameLeaseSameRecord
<1>4. LeaseOf(m) = [j \in Owners(m) \ {} |-> LeaseOf(m)[j]]
  BY DEF LeaseOf
<1> QED BY <1>3, <1>4 DEF Follows, TurnMove, MoveTo

\* Releases, after a call that changes no lease.
LEMMA ReleasingCall ==
    ASSUME NEW m, Consistent(m), NEW b, Consistent(b), LeaseOf(b) = LeaseOf(m),
           NEW S, S \subseteq Assigned(b)
    PROVE  /\ Follows(m, released(b, S), Assigned(m) \ Assigned(released(b, S)))
           /\ TurnMove(m, released(b, S))
           /\ Drops(m, released(b, S))
<1> DEFINE n == released(b, S)
           gone == {b.idToAssignment[i].key : i \in S}
<1>1. /\ Consistent(n) /\ Assigned(n) = Assigned(b) \ S
      /\ LeaseOf(n) = [k \in Owners(b) \ gone |-> LeaseOf(b)[k]]
  BY ReleasedConsistent
<1>2. Owners(b) = Owners(m)
  BY OwnersHaveLeases
<1>3. gone \subseteq Owners(m)
  BY <1>2 DEF Consistent, InverseMaps
<1> HIDE DEF n
<1>4. LeaseOf(n) = [j \in Owners(m) \ gone |-> LeaseOf(m)[j]]
  BY <1>1, <1>2
<1>5. ASSUME NEW i \in Assigned(m), i \in Assigned(n)
      PROVE  KeyOf(n, i) = KeyOf(m, i)
  <2>1. Follows(m, b, {})
    BY QuietCall
  <2>2. i \in Assigned(b) /\ KeyOf(b, i) = KeyOf(m, i)
    BY <2>1 DEF Follows
  <2>3. i \notin S
    BY <1>1, <1>5
  <2>4. KeyOf(b, i) \in Owners(b) \ gone
    BY <2>2, <2>3 DEF Consistent, InverseMaps, KeyOf
  <2>5. Owners(n) = Owners(b) \ gone
    BY <1>1, OwnersHaveLeases
  <2> HIDE DEF gone
  <2>6. LeaseOf(n)[KeyOf(b, i)] = LeaseOf(b)[KeyOf(b, i)]
    BY <1>1, <2>4
  <2>7. KeyOf(n, i) = KeyOf(b, i)
    BY <1>1, <2>2, <2>4, <2>5, <2>6, SameLeaseSameRecord
  <2> QED BY <2>2, <2>7
<1> HIDE DEF gone
<1>6. Follows(m, n, Assigned(m) \ Assigned(n))
  BY <1>1, <1>5 DEF Follows
<1>7. TurnMove(m, n)
  BY <1>3, <1>4 DEF TurnMove, MoveTo
<1> QED BY <1>3, <1>4, <1>6, <1>7 DEF n, Drops

\* allocate keeps every record and its owner has one afterwards, or it throws.
LEMMA AllocatingCall ==
    ASSUME NEW m, Consistent(m), NEW k \in Keys, NEW c \in Configs
    PROVE  /\ Follows(m, allocate(m, k, c), {})
           /\ \/ LeaseOf(allocate(m, k, c)) = LeaseOf(m)
              \/ \E id \in BtsIds, port \in OsmuxPorts :
                    /\ k \notin Owners(m)
                    /\ \A j \in Owners(m) : LeaseOf(m)[j].id # id /\ LeaseOf(m)[j].port # port
                    /\ LeaseOf(allocate(m, k, c)) = LeaseAdded(m, k, id, port)
<1> DEFINE n == allocate(m, k, c)
<1>1. Consistent(n)
  BY AllocateConsistent
<1>2. CASE k \in Owners(m)
  <2>1. LeaseOf(n) = LeaseOf(m)
    BY <1>2, RefreshedConsistent DEF allocate
  <2> QED BY <1>1, <2>1, QuietCall
<1>3. CASE k \notin Owners(m) /\ ~CanAllocate(m)
  <2>1. LeaseOf(n) = LeaseOf(m)
    BY <1>3, FailedConsistent DEF allocate
  <2> QED BY <1>1, <2>1, QuietCall
<1>4. CASE k \notin Owners(m) /\ CanAllocate(m)
  <2> DEFINE id == nextBtsId(m)
             port == allocateOsmuxPort(m)
  <2>1. n = Granted(m, k, c)
    BY <1>4 DEF allocate
  <2>2. LeaseOf(n) = LeaseAdded(m, k, id, port)
    BY <1>4, <2>1, GrantedConsistent
  <2>3. id \in BtsIds \ Assigned(m) /\ port \in OsmuxPorts \ m.usedOsmuxPorts
    BY <1>4, FreshIdAndPort
  <2> HIDE DEF n, id, port
  <2>4. \A j \in Owners(m) : LeaseOf(m)[j].id # id /\ LeaseOf(m)[j].port # port
    BY <2>3 DEF LeaseOf, Consistent, InverseMaps, ExactPorts
  <2>5. Owners(n) = Owners(m) \cup {k}
    BY <2>2, OwnersHaveLeases DEF LeaseAdded
  <2>6. \A j \in Owners(m) : LeaseOf(n)[j] = LeaseOf(m)[j]
    BY <1>4, <2>2 DEF LeaseAdded
  <2>7. \A i \in Assigned(m) : KeyOf(m, i) \in Owners(m)
    BY DEF Consistent, InverseMaps, KeyOf
  <2>8. \A i \in Assigned(m) : i \in Assigned(n) /\ KeyOf(n, i) = KeyOf(m, i)
    BY <1>1, <2>5, <2>6, <2>7, SameLeaseSameRecord DEF n
  <2> QED BY <1>1, <1>4, <2>2, <2>3, <2>4, <2>8 DEF Follows, n
<1> QED BY <1>2, <1>3, <1>4

\* Releases and then a call that changes no lease.
LEMMA ThenQuietCall ==
    ASSUME NEW m, NEW r, NEW gone, Follows(m, r, gone), TurnMove(m, r),
           NEW n, Consistent(n), LeaseOf(n) = LeaseOf(r)
    PROVE  Follows(m, n, gone) /\ TurnMove(m, n)
<1>1. Follows(r, n, {})
  BY QuietCall DEF Follows
<1> QED BY <1>1 DEF Follows, TurnMove

\* A turn that cleans up and then allocates.
LEMMA ThenAllocate ==
    ASSUME NEW m, NEW r, NEW ids, Follows(m, r, ids), Drops(m, r),
           NEW k \in Keys, NEW c \in Configs
    PROVE  Follows(m, allocate(r, k, c), ids) /\ TurnMove(m, allocate(r, k, c))
<1> DEFINE n == allocate(r, k, c)
<1>1. /\ Consistent(r) /\ Follows(r, n, {})
      /\ \/ LeaseOf(n) = LeaseOf(r)
         \/ \E id \in BtsIds, port \in OsmuxPorts :
               /\ k \notin Owners(r)
               /\ \A j \in Owners(r) : LeaseOf(r)[j].id # id /\ LeaseOf(r)[j].port # port
               /\ LeaseOf(n) = LeaseAdded(r, k, id, port)
  BY AllocatingCall DEF Follows
<1> HIDE DEF n
<1>2. Follows(m, n, ids)
  BY <1>1 DEF Follows
<1>6. PICK gone \in SUBSET Owners(m) : LeaseOf(r) = [j \in Owners(m) \ gone |-> LeaseOf(m)[j]]
  BY DEF Drops
<1>3. Owners(r) = Owners(m) \ gone
  BY <1>6, OwnersHaveLeases
<1>4. ASSUME NEW id \in BtsIds, NEW port \in OsmuxPorts, k \notin Owners(r),
             \A j \in Owners(r) : LeaseOf(r)[j].id # id /\ LeaseOf(r)[j].port # port,
             LeaseOf(n) = LeaseAdded(r, k, id, port)
      PROVE  TurnMove(m, n)
  <2>1. \A j \in Owners(m) \ gone : LeaseOf(r)[j] = LeaseOf(m)[j]
    BY <1>6
  <2>2. \A j \in Owners(m) \ gone : LeaseOf(m)[j].id # id /\ LeaseOf(m)[j].port # port
    BY <1>3, <1>4, <2>1
  <2>3. LeaseOf(n) = [j \in (Owners(m) \ gone) \cup {k} |->
                         IF j = k THEN [id |-> id, port |-> port] ELSE LeaseOf(m)[j]]
    BY <1>3, <1>4, <2>1 DEF LeaseAdded
  <2> QED BY <1>3, <1>4, <2>2, <2>3 DEF TurnMove, MoveTo
<1>5. CASE LeaseOf(n) = LeaseOf(r)
  <2>1. MoveTo(m, LeaseOf(r))
    BY <1>6 DEF MoveTo
  <2> QED BY <1>2, <1>5, <2>1 DEF TurnMove, n
<1> QED BY <1>1, <1>2, <1>4, <1>5 DEF n

\* releaseByUuid, and the mark of an owner's or a BTS's record.
LEMMA ReleaseByUuidCall ==
    ASSUME NEW m, Consistent(m), NEW k
    PROVE  /\ Follows(m, releaseByUuid(m, k), Assigned(m) \ Assigned(releaseByUuid(m, k)))
           /\ TurnMove(m, releaseByUuid(m, k))
<1>1. CASE k \in Owners(m)
  <2> DEFINE S == {m.assignmentKeyToId[k]} \cap Assigned(m)
  <2>1. S \subseteq Assigned(m) /\ releaseByUuid(m, k) = released(m, S)
    BY <1>1 DEF releaseByUuid, releaseById
  <2> HIDE DEF S
  <2> QED BY <2>1, ReleasingCall
<1>2. CASE k \notin Owners(m)
  <2>1. releaseByUuid(m, k) = m
    BY <1>2 DEF releaseByUuid
  <2>2. Follows(m, m, {}) /\ TurnMove(m, m)
    BY QuietCall
  <2> QED BY <2>1, <2>2 DEF Follows
<1> QED BY <1>1, <1>2

LEMMA MarkDisconnectedCall ==
    ASSUME NEW m, Consistent(m), NEW k
    PROVE  Consistent(markDisconnected(m, k)) /\ LeaseOf(markDisconnected(m, k)) = LeaseOf(m)
<1>1. FALSE \in BOOLEAN
  OBVIOUS
<1> QED BY <1>1, MarkedConsistent DEF markDisconnected

\* What a failed PUT does to the record it has in hand.
LEMMA RestoredConfig ==
    ASSUME NEW m, Consistent(m), NEW i \in Assigned(m), NEW c \in Configs
    PROVE  /\ Consistent([m EXCEPT !.idToAssignment[i].cfg = c])
           /\ LeaseOf([m EXCEPT !.idToAssignment[i].cfg = c]) = LeaseOf(m)
<1> DEFINE a == m.idToAssignment[i]
           b == [a EXCEPT !.cfg = c]
           f == [m.idToAssignment EXCEPT ![i] = b]
<1>1. m.idToAssignment \in [Assigned(m) -> Assignment] /\ a \in Assignment
  BY DEF Consistent, IsState, IsMap, Assigned
<1>2. b \in Assignment /\ b.key = a.key /\ b.osmuxPort = a.osmuxPort
  BY <1>1 DEF Assignment
<1>3. [m EXCEPT !.idToAssignment[i].cfg = c] = [m EXCEPT !.idToAssignment = f]
  OBVIOUS
<1> HIDE DEF b
<1>4. /\ f \in [Assigned(m) -> Assignment]
      /\ \A j \in Assigned(m) : /\ f[j].key = m.idToAssignment[j].key
                                /\ f[j].osmuxPort = m.idToAssignment[j].osmuxPort
  BY <1>1, <1>2
<1> HIDE DEF f
<1> QED BY <1>3, <1>4, TouchedConsistent

-------------------------------------------------------------------------------
(* The inductive invariant of the service.                                   *)

\* A frame knows its request, and has a record in hand only during its write.
FrameOK(f) ==
    /\ f.pc # "idle" => f.key \in Keys /\ f.cfg \in Configs
    /\ f.existing => f.prev \in Configs
    /\ f.live => f.pc \in {"writing", "written"}

\* The record in hand is its owner's in m.
InHand(m, f) == f.live => f.id \in Assigned(m) /\ KeyOf(m, f.id) = f.key

BscTables ==
    [BtsIds -> [status : Status \cup {"absent"}, owner : Keys \cup {None},
                cfg : Configs \cup {None}]]

\* The restored configuration of a failed PUT keeps the books only if the record in
\* hand is still in the map, which the next turn of another handler may change: so
\* the books and the frames are kept together.
Sound(m, fs, b) ==
    /\ Consistent(m)
    /\ fs \in [Puts -> Frame] /\ \A p \in Puts : FrameOK(fs[p]) /\ InHand(m, fs[p])
    /\ b \in BscTables

NoListIsList ==
    NoList \in UNION {[S -> Status] : S \in SUBSET BtsIds}

LEMMA IdleFrame == Idle \in Frame /\ FrameOK(Idle) /\ Idle.live = FALSE
<1>1. NoList \in [{} -> Status]
  BY DEF NoList
<1>2. NoListIsList
  BY <1>1 DEF NoListIsList
<1> QED BY <1>2 DEF Idle, Frame, FrameOK, NoListIsList

\* Turn, for the frames: p's frame is the given one, the others only lose hold of
\* what is gone.
LEMMA SoundTurn ==
    \A m, gone, p : \A f \in Frame :
        /\ Sound(mgr, put, bsc) /\ Follows(mgr, m, gone)
        /\ FrameOK(f) /\ InHand(m, f) /\ Turn(m, gone, p, f)
        => Sound(mgr', put', bsc') /\ mgr' = m
<1> SUFFICES ASSUME NEW m, NEW gone, NEW p, NEW f \in Frame,
                    Sound(mgr, put, bsc), Follows(mgr, m, gone),
                    FrameOK(f), InHand(m, f), Turn(m, gone, p, f)
             PROVE  Sound(mgr', put', bsc') /\ mgr' = m
  OBVIOUS
<1> DEFINE cut(q) == [put[q] EXCEPT !.live = put[q].live /\ put[q].id \notin gone]
<1>1. /\ mgr' = m /\ bsc' = bsc
      /\ put' = [q \in Puts |-> IF q = p THEN f ELSE cut(q)]
  BY DEF Turn
<1>2. ASSUME NEW q \in Puts
      PROVE  cut(q) \in Frame /\ FrameOK(cut(q)) /\ InHand(m, cut(q))
  <2> DEFINE g == put[q]
             held == g.live /\ g.id \notin gone
             c == [g EXCEPT !.live = held]
  <2>1. g \in Frame /\ FrameOK(g) /\ InHand(mgr, g)
    BY DEF Sound
  <2>2. held \in BOOLEAN
    OBVIOUS
  <2> HIDE DEF g, held
  <2>3. /\ c \in Frame /\ c.live = held
        /\ c.pc = g.pc /\ c.key = g.key /\ c.cfg = g.cfg /\ c.existing = g.existing
        /\ c.prev = g.prev /\ c.id = g.id
    BY <2>1, <2>2 DEF Frame
  <2> HIDE DEF c
  <2>4. FrameOK(c)
    BY <2>1, <2>3 DEF FrameOK, held
  <2>5. InHand(m, c)
    BY <2>1, <2>3 DEF InHand, held, Follows
  <2>6. c = cut(q)
    BY DEF c, held, g
  <2> QED BY <2>3, <2>4, <2>5, <2>6
<1> HIDE DEF cut
<1>3. Consistent(m) /\ bsc \in BscTables
  BY DEF Follows, Sound
<1>4. put' \in [Puts -> Frame] /\ \A q \in Puts : FrameOK(put'[q]) /\ InHand(m, put'[q])
  BY <1>1, <1>2
<1> QED BY <1>1, <1>3, <1>4 DEF Sound

\* A turn of a handler without a frame.
LEMMA SoundHandler ==
    \A m, gone :
        Sound(mgr, put, bsc) /\ Follows(mgr, m, gone) /\ Handler(m, gone)
        => Sound(mgr', put', bsc') /\ mgr' = m
<1> SUFFICES ASSUME NEW m, NEW gone,
                    Sound(mgr, put, bsc), Follows(mgr, m, gone), Handler(m, gone)
             PROVE  Sound(mgr', put', bsc') /\ mgr' = m
  OBVIOUS
<1>1. Turn(m, gone, None, Idle)
  BY DEF Handler
<1>2. InHand(m, Idle)
  BY IdleFrame DEF InHand
<1> QED BY <1>1, <1>2, IdleFrame, SoundTurn

\* A step that replaces p's frame and leaves the manager alone.
LEMMA SoundFrame ==
    \A p : \A f \in Frame :
        /\ Sound(mgr, put, bsc) /\ p \in Puts /\ FrameOK(f) /\ InHand(mgr, f)
        /\ put' = [put EXCEPT ![p] = f] /\ mgr' = mgr /\ bsc' \in BscTables
        => Sound(mgr', put', bsc')
BY DEF Sound

-------------------------------------------------------------------------------
(* The frames of a PUT, from turn to turn.                                   *)

\* An assignment of an owner, in a consistent state.
LEMMA OwnersRecord ==
    ASSUME NEW m, Consistent(m), NEW k \in Owners(m)
    PROVE  /\ k \in Keys /\ m.assignmentKeyToId[k] \in BtsIds
           /\ m.assignmentKeyToId[k] \in Assigned(m)
           /\ KeyOf(m, m.assignmentKeyToId[k]) = k
           /\ m.idToAssignment[m.assignmentKeyToId[k]].cfg \in Configs
<1>1. /\ k \in Keys /\ m.assignmentKeyToId[k] \in BtsIds
      /\ m.idToAssignment \in [Assigned(m) -> Assignment]
  BY DEF Consistent, IsState, IsMap, Owners, Assigned
<1>2. /\ m.assignmentKeyToId[k] \in Assigned(m)
      /\ KeyOf(m, m.assignmentKeyToId[k]) = k
  BY DEF Consistent, InverseMaps, KeyOf
<1>3. m.idToAssignment[m.assignmentKeyToId[k]] \in Assignment
  BY <1>1, <1>2
<1> QED BY <1>1, <1>2, <1>3 DEF Assignment

\* The frames of a PUT that waits for the list, and of one that writes to BTS i with
\* and without an assignment found before.
Writes(f, k, i) == f \in Frame /\ FrameOK(f) /\ f.id = i /\ f.key = k

LEMMA AwaitingFrames ==
    ASSUME NEW k \in Keys, NEW c \in Configs
    PROVE  /\ Listing(k, c) \in Frame /\ FrameOK(Listing(k, c)) /\ ~Listing(k, c).live
           /\ \A i \in BtsIds : /\ \A d \in Configs : Writes(Writing(k, c, i, TRUE, d), k, i)
                                /\ Writes(Writing(k, c, i, FALSE, None), k, i)
<1>1. NoListIsList
  BY IdleFrame DEF Idle, Frame, NoListIsList
<1>2. Listing(k, c) \in Frame /\ FrameOK(Listing(k, c)) /\ ~Listing(k, c).live
  BY <1>1 DEF Listing, Frame, FrameOK, NoListIsList
<1>3. ASSUME NEW i \in BtsIds, NEW d \in Configs
      PROVE  Writes(Writing(k, c, i, TRUE, d), k, i)
  BY <1>1 DEF Writes, Writing, Frame, FrameOK, NoListIsList
<1>4. ASSUME NEW i \in BtsIds
      PROVE  Writes(Writing(k, c, i, FALSE, None), k, i)
  BY <1>1 DEF Writes, Writing, Frame, FrameOK, NoListIsList
<1> QED BY <1>2, <1>3, <1>4

LEMMA PutStartSound ==
    ASSUME Sound(mgr, put, bsc), NEW p \in Puts, NEW k \in Keys, NEW c \in Configs,
           PutStart(p, k, c)
    PROVE  Sound(mgr', put', bsc') /\ TurnMove(mgr, mgr')
<1> DEFINE S == {j \in Assigned(mgr) : mgr.idToAssignment[j].idle > Ttl}
           m == cleanupExpiredAssignments(mgr)
           gone == Assigned(mgr) \ Assigned(m)
           i == m.assignmentKeyToId[k]
           writing == Writing(k, c, i, TRUE, m.idToAssignment[i].cfg)
           n == allocate(m, k, c)
<1>1. \/ k \notin Owners(m) /\ Turn(m, gone, p, Listing(k, c))
      \/ k \in Owners(m) /\ Turn(n, gone, p, writing)
  BY DEF PutStart, Gone
<1>2. Consistent(mgr)
  BY DEF Sound
<1>3. S \subseteq Assigned(mgr) /\ m = released(mgr, S)
  BY DEF cleanupExpiredAssignments
<1> HIDE DEF S, m
<1>4. /\ Follows(mgr, m, gone) /\ TurnMove(mgr, m)
      /\ Drops(mgr, m)
  <2> HIDE DEF gone
  <2>1. /\ Follows(mgr, released(mgr, S), Assigned(mgr) \ Assigned(released(mgr, S)))
        /\ TurnMove(mgr, released(mgr, S))
        /\ Drops(mgr, released(mgr, S))
    BY <1>2, <1>3, ReleasingCall
  <2> QED BY <1>3, <2>1 DEF gone
<1>5. Consistent(m)
  BY <1>4 DEF Follows
<1>6. CASE k \notin Owners(m) /\ Turn(m, gone, p, Listing(k, c))
  <2>1. Listing(k, c) \in Frame /\ FrameOK(Listing(k, c)) /\ ~Listing(k, c).live
    BY AwaitingFrames
  <2>2. InHand(m, Listing(k, c))
    BY <2>1 DEF InHand
  <2> HIDE DEF gone
  <2> QED BY <1>4, <1>6, <2>1, <2>2, SoundTurn
<1>7. CASE k \in Owners(m) /\ Turn(n, gone, p, writing)
  <2>1. /\ i \in BtsIds /\ i \in Assigned(m) /\ KeyOf(m, i) = k
        /\ m.idToAssignment[i].cfg \in Configs
    BY <1>5, <1>7, OwnersRecord
  <2>2. writing \in Frame /\ FrameOK(writing) /\ writing.id = i /\ writing.key = k
    <3>1. Writes(writing, k, i)
      <4> HIDE DEF i
      <4>1. \A d \in Configs : Writes(Writing(k, c, i, TRUE, d), k, i)
        BY <2>1, AwaitingFrames
      <4> QED BY <2>1, <4>1
    <3> QED BY <3>1 DEF Writes
  <2>3. Follows(mgr, n, gone) /\ TurnMove(mgr, n)
    BY <1>4, ThenAllocate
  <2>4. Follows(m, n, {})
    BY <1>5, AllocatingCall
  <2>5. InHand(n, writing)
    <3>1. i \in Assigned(n) /\ KeyOf(n, i) = k
      BY <2>1, <2>4 DEF Follows
    <3> HIDE DEF writing, n, i
    <3> QED BY <2>2, <3>1 DEF InHand
  <2> HIDE DEF writing, gone, n
  <2> QED BY <1>7, <2>2, <2>3, <2>5, SoundTurn
<1> QED BY <1>1, <1>6, <1>7

LEMMA PutListedSound ==
    ASSUME Sound(mgr, put, bsc), NEW p \in Puts, PutListed(p)
    PROVE  Sound(mgr', put', bsc') /\ TurnMove(mgr, mgr')
<1> DEFINE f == put[p]
           b == syncFromBsc(mgr, f.list)
           S == {j \in Assigned(b) \cap DOMAIN f.list :
                    ~b.idToAssignment[j].connected /\ isReusableBscBts(f.list[j])}
           m == cleanupDisconnectedBscAssignments(b, f.list)
           gone == Assigned(mgr) \ Assigned(m)
           n == allocate(m, f.key, f.cfg)
           i == n.assignmentKeyToId[f.key]
           writing == Writing(f.key, f.cfg, i, FALSE, None)
<1>1. /\ f.pc = "listed"
      /\ \/ f.key \in Owners(n) /\ Turn(n, gone, p, writing)
         \/ f.key \notin Owners(n) /\ Turn(n, gone, p, Idle)
  BY DEF PutListed, Gone
<1>2. Consistent(mgr) /\ f \in Frame /\ FrameOK(f)
  BY DEF Sound
<1>3. f.key \in Keys /\ f.cfg \in Configs /\ f.list \in BscLists
  <2>1. f.key \in Keys /\ f.cfg \in Configs
    BY <1>1, <1>2 DEF FrameOK
  <2>2. f.list \in UNION {[T -> Status] : T \in SUBSET BtsIds}
    BY <1>2 DEF Frame
  <2>3. BtsIds \subseteq 0 .. MaxBts
    BY BtsManagerAssumption DEF BtsIds
  <2> HIDE DEF f
  <2>4. f.list \in BscLists
    BY <2>2, <2>3 DEF BscLists
  <2> QED BY <2>1, <2>4
<1>4. Consistent(b) /\ LeaseOf(b) = LeaseOf(mgr) /\ S \subseteq Assigned(b)
  BY <1>2, <1>3, SyncConsistent
<1>5. m = released(b, S)
  BY DEF cleanupDisconnectedBscAssignments
<1> HIDE DEF f, b, S, m
<1>6. Follows(mgr, m, gone) /\ TurnMove(mgr, m) /\ Drops(mgr, m)
  <2>1. /\ Follows(mgr, released(b, S), Assigned(mgr) \ Assigned(released(b, S)))
        /\ TurnMove(mgr, released(b, S))
        /\ Drops(mgr, released(b, S))
    BY <1>2, <1>4, ReleasingCall
  <2> QED BY <1>5, <2>1
<1>7. Follows(mgr, n, gone) /\ TurnMove(mgr, n)
  BY <1>3, <1>6, ThenAllocate
<1>8. Consistent(n)
  BY <1>7 DEF Follows
<1> HIDE DEF n, gone
<1>9. CASE f.key \in Owners(n) /\ Turn(n, gone, p, writing)
  <2>1. i \in BtsIds /\ i \in Assigned(n) /\ KeyOf(n, i) = f.key
    BY <1>8, <1>9, OwnersRecord
  <2>2. writing \in Frame /\ FrameOK(writing) /\ writing.id = i /\ writing.key = f.key
    <3>1. Writes(writing, f.key, i)
      <4> HIDE DEF i
      <4> QED BY <1>3, <2>1, AwaitingFrames
    <3> QED BY <3>1 DEF Writes
  <2> HIDE DEF writing, i
  <2>3. InHand(n, writing)
    BY <2>1, <2>2 DEF InHand
  <2> QED BY <1>7, <1>9, <2>2, <2>3, SoundTurn
<1>10. CASE f.key \notin Owners(n) /\ Turn(n, gone, p, Idle)
  <2>1. InHand(n, Idle)
    BY IdleFrame DEF InHand
  <2> QED BY <1>7, <1>10, <2>1, IdleFrame, SoundTurn
<1> QED BY <1>1, <1>9, <1>10

LEMMA PutFailedSound ==
    ASSUME Sound(mgr, put, bsc), NEW p \in Puts, PutFailed(p)
    PROVE  Sound(mgr', put', bsc') /\ TurnMove(mgr, mgr')
<1> DEFINE f == put[p]
           after == releaseByUuid(mgr, f.key)
           gone == Assigned(mgr) \ Assigned(after)
           restored == IF f.live THEN [mgr EXCEPT !.idToAssignment[f.id].cfg = f.prev] ELSE mgr
           marked == markDisconnected(restored, f.key)
<1>1. /\ f.pc \in {"writing", "written"}
      /\ \/ ~f.existing /\ Turn(after, gone, p, Idle)
         \/ f.existing /\ Turn(marked, {}, p, Idle)
  BY DEF PutFailed, Gone
<1>2. Consistent(mgr) /\ f \in Frame /\ FrameOK(f) /\ InHand(mgr, f)
  BY DEF Sound
<1>3. \A x : InHand(x, Idle)
  BY IdleFrame DEF InHand
<1>4. CASE ~f.existing /\ Turn(after, gone, p, Idle)
  <2>1. Follows(mgr, after, gone) /\ TurnMove(mgr, after)
    BY <1>2, ReleaseByUuidCall
  <2> HIDE DEF after, gone, f
  <2> QED BY <1>3, <1>4, <2>1, IdleFrame, SoundTurn
<1>5. CASE f.existing /\ Turn(marked, {}, p, Idle)
  <2>1. f.prev \in Configs
    BY <1>2, <1>5 DEF FrameOK
  <2>2. Consistent(restored) /\ LeaseOf(restored) = LeaseOf(mgr)
    <3>1. CASE f.live
      <4>1. f.id \in Assigned(mgr)
        BY <1>2, <3>1 DEF InHand
      <4> HIDE DEF f
      <4> QED BY <1>2, <2>1, <3>1, <4>1, RestoredConfig
    <3>2. CASE ~f.live
      BY <1>2, <3>2
    <3> QED BY <3>1, <3>2
  <2> HIDE DEF restored, f
  <2>3. Consistent(marked) /\ LeaseOf(marked) = LeaseOf(mgr)
    BY <2>2, MarkDisconnectedCall
  <2>4. Follows(mgr, marked, {}) /\ TurnMove(mgr, marked)
    BY <1>2, <2>3, QuietCall
  <2> HIDE DEF marked
  <2> QED BY <1>3, <1>5, <2>4, IdleFrame, SoundTurn
<1> QED BY <1>1, <1>4, <1>5

-------------------------------------------------------------------------------
(* The other steps of a PUT, which leave the manager alone.                  *)

\* The frame of a PUT whose list was read.
LEMMA ListedFrame ==
    ASSUME NEW g \in Frame, FrameOK(g), g.pc = "listing",
           NEW l \in UNION {[S -> Status] : S \in SUBSET BtsIds}
    PROVE  LET r == [g EXCEPT !.pc = "listed"]
               f == [r EXCEPT !.list = l]
           IN  f \in Frame /\ FrameOK(f) /\ ~f.live
<1> DEFINE r == [g EXCEPT !.pc = "listed"]
           f == [r EXCEPT !.list = l]
<1>1. /\ r \in Frame /\ r.pc = "listed" /\ r.key = g.key /\ r.cfg = g.cfg
      /\ r.existing = g.existing /\ r.prev = g.prev /\ r.live = g.live
  BY DEF Frame
<1> HIDE DEF r
<1>2. /\ f \in Frame /\ f.pc = "listed" /\ f.key = g.key /\ f.cfg = g.cfg
      /\ f.existing = g.existing /\ f.prev = g.prev /\ f.live = g.live
  BY <1>1 DEF Frame
<1> HIDE DEF f
<1>3. FrameOK(f) /\ ~f.live
  BY <1>2 DEF FrameOK
<1> QED BY <1>2, <1>3 DEF f, r

LEMMA ListReadSound ==
    ASSUME Sound(mgr, put, bsc), NEW p \in Puts, ListRead(p)
    PROVE  Sound(mgr', put', bsc') /\ mgr' = mgr
<1> DEFINE g == put[p]
<1>1. /\ g.pc = "listing" /\ mgr' = mgr /\ bsc' = bsc
      /\ \E rows \in SUBSET {i \in BtsIds : bsc[i].status # "absent"} :
            put' = [put EXCEPT ![p].pc = "listed",
                               ![p].list = [i \in rows |-> bsc[i].status]]
  BY DEF ListRead
<1>2. PICK rows \in SUBSET {i \in BtsIds : bsc[i].status # "absent"} :
          put' = [put EXCEPT ![p].pc = "listed",
                             ![p].list = [i \in rows |-> bsc[i].status]]
  BY <1>1
<1> DEFINE l == [i \in rows |-> bsc[i].status]
           r == [g EXCEPT !.pc = "listed"]
           f == [r EXCEPT !.list = l]
<1>3. /\ g \in Frame /\ FrameOK(g) /\ put \in [Puts -> Frame]
      /\ bsc \in BscTables
  BY DEF Sound
<1>4. l \in UNION {[S -> Status] : S \in SUBSET BtsIds}
  <2>1. \A i \in rows : bsc[i].status \in Status
    BY <1>3 DEF BscTables
  <2>2. l \in [rows -> Status] /\ rows \in SUBSET BtsIds
    BY <2>1
  <2> QED BY <2>2
<1>5. put' = [put EXCEPT ![p] = f]
  BY <1>2, <1>3
<1> HIDE DEF l
<1>6. f \in Frame /\ FrameOK(f) /\ ~f.live
  BY <1>1, <1>3, <1>4, ListedFrame
<1> HIDE DEF f, r, g
<1>7. InHand(mgr, f)
  BY <1>6 DEF InHand
<1> QED BY <1>1, <1>3, <1>5, <1>6, <1>7, SoundFrame

LEMMA DoneSound ==
    ASSUME Sound(mgr, put, bsc), NEW p \in Puts, ListFailed(p) \/ PutOk(p)
    PROVE  Sound(mgr', put', bsc') /\ mgr' = mgr
<1>1. put' = [put EXCEPT ![p] = Idle] /\ mgr' = mgr /\ bsc' = bsc
  BY DEF ListFailed, PutOk
<1>2. InHand(mgr, Idle) /\ bsc \in BscTables
  BY IdleFrame DEF InHand, Sound
<1> QED BY <1>1, <1>2, IdleFrame, SoundFrame

LEMMA BscWritesSound ==
    ASSUME Sound(mgr, put, bsc), NEW p \in Puts, BscWrites(p)
    PROVE  Sound(mgr', put', bsc') /\ mgr' = mgr
<1> DEFINE g == put[p]
           f == [g EXCEPT !.pc = "written"]
           row == [status |-> IF bsc[g.id].status = "absent" THEN "down" ELSE bsc[g.id].status,
                   owner |-> g.key, cfg |-> g.cfg]
<1>1. /\ g.pc = "writing" /\ mgr' = mgr /\ put' = [put EXCEPT ![p].pc = "written"]
      /\ bsc' = [bsc EXCEPT ![g.id] = row]
  BY DEF BscWrites
<1>2. /\ g \in Frame /\ FrameOK(g) /\ InHand(mgr, g) /\ put \in [Puts -> Frame]
      /\ bsc \in BscTables
  BY DEF Sound
<1>3. put' = [put EXCEPT ![p] = f]
  BY <1>1, <1>2
<1>4. bsc' \in BscTables
  <2>1. g.id \in BtsIds => row \in [status : Status \cup {"absent"}, owner : Keys \cup {None},
                                    cfg : Configs \cup {None}]
    BY <1>2 DEF BscTables, Frame, Status
  <2> HIDE DEF row, g
  <2> QED BY <1>1, <1>2, <2>1 DEF BscTables
<1>5. /\ f \in Frame /\ f.pc = "written" /\ f.key = g.key /\ f.cfg = g.cfg
      /\ f.existing = g.existing /\ f.prev = g.prev /\ f.live = g.live /\ f.id = g.id
  <2> HIDE DEF g
  <2> QED BY <1>2 DEF Frame
<1> HIDE DEF f, g, row
<1>6. FrameOK(f) /\ InHand(mgr, f)
  BY <1>1, <1>2, <1>5 DEF FrameOK, InHand
<1> QED BY <1>1, <1>3, <1>4, <1>5, <1>6, SoundFrame

-------------------------------------------------------------------------------
(* The handlers that do not await, and the environment.                      *)

LEMMA GetSound ==
    ASSUME Sound(mgr, put, bsc), NEW k \in Plain, Get(k)
    PROVE  Sound(mgr', put', bsc') /\ TurnMove(mgr, mgr')
<1> DEFINE S == {j \in Assigned(mgr) : mgr.idToAssignment[j].idle > Ttl}
           m == cleanupExpiredAssignments(mgr)
           gone == Assigned(mgr) \ Assigned(m)
           n == markSeen(m, k)
<1>1. Handler(n, gone)
  BY DEF Get, Gone
<1>2. Consistent(mgr) /\ k \in Keys
  BY BtsServiceAssumption DEF Sound
<1>3. S \subseteq Assigned(mgr) /\ m = released(mgr, S)
  BY DEF cleanupExpiredAssignments
<1> HIDE DEF S, m
<1>4. Follows(mgr, m, gone) /\ TurnMove(mgr, m)
  <2>1. /\ Follows(mgr, released(mgr, S), Assigned(mgr) \ Assigned(released(mgr, S)))
        /\ TurnMove(mgr, released(mgr, S))
    BY <1>2, <1>3, ReleasingCall
  <2> QED BY <1>3, <2>1
<1>5. Consistent(n) /\ LeaseOf(n) = LeaseOf(m)
  BY <1>2, <1>4, SeenConsistent DEF Follows
<1> HIDE DEF n, gone
<1>6. Follows(mgr, n, gone) /\ TurnMove(mgr, n)
  BY <1>4, <1>5, ThenQuietCall
<1> QED BY <1>1, <1>6, SoundHandler

LEMMA DeleteSound ==
    ASSUME Sound(mgr, put, bsc), NEW k, Delete(k)
    PROVE  Sound(mgr', put', bsc') /\ TurnMove(mgr, mgr')
<1> DEFINE m == releaseByUuid(mgr, k)
           gone == Assigned(mgr) \ Assigned(m)
<1>1. Handler(m, gone)
  BY DEF Delete, Gone
<1>2. Follows(mgr, m, gone) /\ TurnMove(mgr, m)
  BY ReleaseByUuidCall DEF Sound
<1> HIDE DEF m, gone
<1> QED BY <1>1, <1>2, SoundHandler

LEMMA MediaSound ==
    ASSUME Sound(mgr, put, bsc), NEW i, MediaSeen(i) \/ MediaLost(i)
    PROVE  Sound(mgr', put', bsc') /\ TurnMove(mgr, mgr')
<1>1. PICK up \in BOOLEAN : Handler(markById(mgr, i, up), {})
  BY DEF MediaSeen, MediaLost, markSeenById, markDisconnectedById
<1> DEFINE m == markById(mgr, i, up)
<1>2. Consistent(m) /\ LeaseOf(m) = LeaseOf(mgr) /\ Consistent(mgr)
  BY MarkedConsistent DEF Sound
<1> HIDE DEF m
<1>3. Follows(mgr, m, {}) /\ TurnMove(mgr, m)
  BY <1>2, QuietCall
<1> QED BY <1>1, <1>3, SoundHandler DEF m

LEMMA BscChangesSound ==
    ASSUME Sound(mgr, put, bsc), NEW i \in BtsIds, NEW status \in Status, BscChanges(i, status)
    PROVE  Sound(mgr', put', bsc') /\ mgr' = mgr
<1>1. /\ bsc' = [bsc EXCEPT ![i].status = status] /\ mgr' = mgr /\ put' = put
      /\ bsc \in BscTables
  BY DEF BscChanges, Sound
<1>2. bsc' \in BscTables
  BY <1>1 DEF BscTables
<1> QED BY <1>1, <1>2 DEF Sound

LEMMA ClockSound ==
    ASSUME Sound(mgr, put, bsc), ClockTicks
    PROVE  Sound(mgr', put', bsc') /\ TurnMove(mgr, mgr')
<1>1. mgr' = aged(mgr) /\ put' = put /\ bsc' = bsc
  BY DEF ClockTicks
<1>2. Consistent(mgr) /\ Consistent(mgr') /\ LeaseOf(mgr') = LeaseOf(mgr)
  BY <1>1, AgedConsistent DEF Sound
<1>3. Follows(mgr, mgr', {}) /\ TurnMove(mgr, mgr')
  BY <1>2, QuietCall
<1>4. \A p \in Puts : InHand(mgr', put[p])
  BY <1>3 DEF Sound, InHand, Follows
<1> QED BY <1>1, <1>2, <1>3, <1>4 DEF Sound

\* Every step of the service keeps the invariant and is one move of the leases.
LEMMA ServiceStep ==
    ASSUME Sound(mgr, put, bsc), ServiceNext
    PROVE  Sound(mgr', put', bsc') /\ TurnMove(mgr, mgr')
<1>1. mgr' = mgr => TurnMove(mgr, mgr')
  BY QuietCall DEF Sound
<1>2. ASSUME NEW p \in Puts, NEW k \in Keys, NEW c \in Configs, PutStart(p, k, c)
      PROVE  Sound(mgr', put', bsc') /\ TurnMove(mgr, mgr')
  BY <1>2, PutStartSound
<1>3. ASSUME NEW p \in Puts, ListRead(p)
      PROVE  Sound(mgr', put', bsc') /\ TurnMove(mgr, mgr')
  BY <1>1, <1>3, ListReadSound
<1>4. ASSUME NEW p \in Puts, ListFailed(p) \/ PutOk(p)
      PROVE  Sound(mgr', put', bsc') /\ TurnMove(mgr, mgr')
  BY <1>1, <1>4, DoneSound
<1>5. ASSUME NEW p \in Puts, PutListed(p)
      PROVE  Sound(mgr', put', bsc') /\ TurnMove(mgr, mgr')
  BY <1>5, PutListedSound
<1>6. ASSUME NEW p \in Puts, BscWrites(p)
      PROVE  Sound(mgr', put', bsc') /\ TurnMove(mgr, mgr')
  BY <1>1, <1>6, BscWritesSound
<1>7. ASSUME NEW p \in Puts, PutFailed(p)
      PROVE  Sound(mgr', put', bsc') /\ TurnMove(mgr, mgr')
  BY <1>7, PutFailedSound
<1>8. ASSUME NEW k \in Plain, Get(k)
      PROVE  Sound(mgr', put', bsc') /\ TurnMove(mgr, mgr')
  BY <1>8, GetSound
<1>9. ASSUME NEW k \in Deleting, Delete(k)
      PROVE  Sound(mgr', put', bsc') /\ TurnMove(mgr, mgr')
  BY <1>9, DeleteSound
<1>10. ASSUME NEW i \in BtsIds, MediaSeen(i) \/ MediaLost(i)
       PROVE  Sound(mgr', put', bsc') /\ TurnMove(mgr, mgr')
  BY <1>10, MediaSound
<1>11. ASSUME NEW i \in BtsIds, NEW status \in Status, BscChanges(i, status)
       PROVE  Sound(mgr', put', bsc') /\ TurnMove(mgr, mgr')
  BY <1>1, <1>11, BscChangesSound
<1>12. ASSUME ClockTicks
       PROVE  Sound(mgr', put', bsc') /\ TurnMove(mgr, mgr')
  BY <1>12, ClockSound
<1> QED BY <1>2, <1>3, <1>4, <1>5, <1>6, <1>7, <1>8, <1>9, <1>10, <1>11, <1>12 DEF ServiceNext

-------------------------------------------------------------------------------
(* The queue of the writes.                                                  *)

AtWrite == {"writing", "written"}

Writers(fs) == {p \in Puts : fs[p].pc \in AtWrite}

\* Each PUT of S has its one place in the queue w.
QueueOf(w, S) == w \in Seq(Puts) /\ IsInjective(w) /\ ToSet(w) = S

\* q's write comes before p's.
Before(w, q, p) == \E x, y \in DOMAIN w : x < y /\ w[x] = q /\ w[y] = p

\* The order of the writes of v, but for p's, is w's.
KeepsOrder(w, v, p) ==
    \A q, r \in Puts \ {p} : Before(w, q, r) => Before(v, q, r)

LEMMA QueueAppend ==
    ASSUME NEW S, NEW w, QueueOf(w, S), NEW p \in Puts \ S
    PROVE  /\ QueueOf(Append(w, p), S \cup {p})
           /\ KeepsOrder(w, Append(w, p), p)
           /\ \A q \in S : Before(Append(w, p), q, p)
<1> DEFINE v == Append(w, p)
<1>1. /\ w \in Seq(Puts) /\ Len(w) \in Nat /\ DOMAIN w = 1 .. Len(w)
      /\ v \in Seq(Puts) /\ DOMAIN v = 1 .. Len(w) + 1 /\ v[Len(w) + 1] = p
      /\ \A x \in DOMAIN w : x \in DOMAIN v /\ v[x] = w[x] /\ x < Len(w) + 1
  BY DEF QueueOf
<1>2. \A x \in DOMAIN w : w[x] # p
  BY DEF QueueOf, ToSet
<1>3. \A x \in DOMAIN v : x \in DOMAIN w \/ x = Len(w) + 1
  BY <1>1
<1> HIDE DEF v
<1>4. IsInjective(v)
  BY <1>1, <1>2, <1>3 DEF IsInjective, QueueOf
<1>5. ToSet(v) = S \cup {p}
  BY <1>1, <1>3 DEF ToSet, QueueOf
<1>6. KeepsOrder(w, v, p)
  BY <1>1 DEF KeepsOrder, Before
<1>7. ASSUME NEW q \in S  PROVE Before(v, q, p)
  <2>1. PICK x \in DOMAIN w : w[x] = q
    BY DEF QueueOf, ToSet
  <2>2. Len(w) + 1 \in DOMAIN v
    BY <1>1
  <2> QED BY <1>1, <2>1, <2>2 DEF Before
<1> QED BY <1>1, <1>4, <1>5, <1>6, <1>7 DEF QueueOf, v

\* Where a PUT is in the queue.
LEMMA PlaceOf ==
    ASSUME NEW S, NEW w, QueueOf(w, S), NEW p \in S
    PROVE  Place(w, p) \in DOMAIN w /\ w[Place(w, p)] = p
BY DEF QueueOf, ToSet, Place

\* RemoveAt closes the gap.
LEMMA RemovedAt ==
    ASSUME NEW w \in Seq(Puts), NEW n \in DOMAIN w
    PROVE  LET v == RemoveAt(w, n)
           IN  /\ v \in Seq(Puts) /\ DOMAIN v = 1 .. Len(w) - 1
               /\ \A x \in DOMAIN v : v[x] = IF x < n THEN w[x] ELSE w[x + 1]
<1> DEFINE a == SubSeq(w, 1, n - 1)
           b == SubSeq(w, n + 1, Len(w))
           v == a \o b
<1>1. Len(w) \in Nat /\ n \in 1 .. Len(w)
  OBVIOUS
<1>2. /\ a \in Seq(Puts) /\ Len(a) = n - 1
      /\ \A x \in 1 .. n - 1 : a[x] = w[x]
  BY <1>1
<1>3. /\ b \in Seq(Puts) /\ Len(b) = Len(w) - n
      /\ \A x \in 1 .. Len(w) - n : b[x] = w[n + x]
  BY <1>1
<1> HIDE DEF a, b
<1>4. /\ v \in Seq(Puts) /\ Len(v) = Len(w) - 1 /\ DOMAIN v = 1 .. Len(w) - 1
      /\ \A x \in DOMAIN v : v[x] = IF x <= Len(a) THEN a[x] ELSE b[x - Len(a)]
  BY <1>1, <1>2, <1>3
<1> HIDE DEF v
<1>5. ASSUME NEW x \in DOMAIN v
      PROVE  v[x] = IF x < n THEN w[x] ELSE w[x + 1]
  <2>1. CASE x < n
    BY <1>1, <1>2, <1>4, <2>1
  <2>2. CASE ~(x < n)
    <3>1. x - Len(a) \in 1 .. Len(w) - n /\ ~(x <= Len(a)) /\ n + (x - Len(a)) = x + 1
      BY <1>1, <1>2, <1>4, <2>2
    <3> QED BY <1>3, <1>4, <2>2, <3>1
  <2> QED BY <2>1, <2>2
<1>6. RemoveAt(w, n) = v
  BY DEF RemoveAt, v, a, b
<1> QED BY <1>4, <1>5, <1>6

\* The place in the shorter queue of what was at place x.
Shifted(n, x) == IF x < n THEN x ELSE x - 1

LEMMA QueueRemove ==
    ASSUME NEW S, NEW w, QueueOf(w, S), NEW n \in DOMAIN w, NEW v, v \in Seq(Puts),
           DOMAIN v = 1 .. Len(w) - 1,
           \A x \in DOMAIN v : v[x] = IF x < n THEN w[x] ELSE w[x + 1]
    PROVE  QueueOf(v, S \ {w[n]}) /\ KeepsOrder(w, v, w[n])
<1>1. /\ w \in Seq(Puts) /\ Len(w) \in Nat /\ DOMAIN w = 1 .. Len(w) /\ n \in 1 .. Len(w)
      /\ ToSet(w) = S
  BY DEF QueueOf
<1>2. \A x, y \in DOMAIN w : w[x] = w[y] => x = y
  BY DEF QueueOf, IsInjective
<1>3. ASSUME NEW x \in DOMAIN w, x # n
      PROVE  Shifted(n, x) \in DOMAIN v /\ v[Shifted(n, x)] = w[x]
  BY <1>1, <1>3 DEF Shifted
<1>4. ASSUME NEW x \in DOMAIN v
      PROVE  \E y \in DOMAIN w \ {n} : v[x] = w[y] /\ x = Shifted(n, y)
  <2>1. CASE x < n
    BY <1>1, <2>1 DEF Shifted
  <2>2. CASE ~(x < n)
    <3>1. x + 1 \in DOMAIN w \ {n} /\ x = Shifted(n, x + 1)
      BY <1>1, <2>2 DEF Shifted
    <3> QED BY <2>2, <3>1
  <2> QED BY <2>1, <2>2
<1>5. IsInjective(v)
  <2> SUFFICES ASSUME NEW x \in DOMAIN v, NEW y \in DOMAIN v, v[x] = v[y]  PROVE x = y
    BY DEF IsInjective
  <2>1. PICK c \in DOMAIN w \ {n} : v[x] = w[c] /\ x = Shifted(n, c)
    BY <1>4
  <2>2. PICK d \in DOMAIN w \ {n} : v[y] = w[d] /\ y = Shifted(n, d)
    BY <1>4
  <2> QED BY <1>2, <2>1, <2>2
<1>6. ToSet(v) = S \ {w[n]}
  <2>1. ASSUME NEW q \in ToSet(v)  PROVE q \in S \ {w[n]}
    <3>1. PICK x \in DOMAIN v : q = v[x]
      BY DEF ToSet
    <3>2. PICK y \in DOMAIN w \ {n} : v[x] = w[y]
      BY <1>4
    <3>3. w[y] \in S
      BY <1>1 DEF ToSet
    <3> QED BY <1>2, <3>1, <3>2, <3>3
  <2>2. ASSUME NEW q \in S \ {w[n]}  PROVE q \in ToSet(v)
    <3>1. PICK y \in DOMAIN w : q = w[y]
      BY <1>1 DEF ToSet
    <3>2. Shifted(n, y) \in DOMAIN v /\ v[Shifted(n, y)] = w[y]
      BY <1>3, <3>1
    <3> QED BY <3>1, <3>2 DEF ToSet
  <2> QED BY <2>1, <2>2
<1>7. KeepsOrder(w, v, w[n])
  <2> SUFFICES ASSUME NEW q \in Puts \ {w[n]}, NEW r \in Puts \ {w[n]}, Before(w, q, r)
               PROVE  Before(v, q, r)
    BY DEF KeepsOrder
  <2>1. PICK x \in DOMAIN w, y \in DOMAIN w : x < y /\ w[x] = q /\ w[y] = r
    BY DEF Before
  <2>2. /\ Shifted(n, x) \in DOMAIN v /\ v[Shifted(n, x)] = q
        /\ Shifted(n, y) \in DOMAIN v /\ v[Shifted(n, y)] = r
    BY <1>3, <2>1
  <2>3. Shifted(n, x) < Shifted(n, y)
    BY <1>1, <2>1 DEF Shifted
  <2> QED BY <2>2, <2>3 DEF Before
<1> QED BY <1>5, <1>6, <1>7 DEF QueueOf

\* A write that ends leaves the queue, from wherever it is; the head with Tail.
LEMMA QueueWithout ==
    ASSUME NEW S, NEW w, QueueOf(w, S), NEW p
    PROVE  QueueOf(Without(w, p), S \ {p}) /\ KeepsOrder(w, Without(w, p), p)
<1>1. CASE p \in S
  <2> DEFINE n == Place(w, p)
             v == RemoveAt(w, n)
  <2>1. n \in DOMAIN w /\ w[n] = p /\ Without(w, p) = v /\ w \in Seq(Puts)
    BY <1>1, PlaceOf DEF Without, QueueOf
  <2> HIDE DEF n
  <2>2. /\ v \in Seq(Puts) /\ DOMAIN v = 1 .. Len(w) - 1
        /\ \A x \in DOMAIN v : v[x] = IF x < n THEN w[x] ELSE w[x + 1]
    BY <2>1, RemovedAt
  <2> HIDE DEF v
  <2> QED BY <2>1, <2>2, QueueRemove
<1>2. CASE p \notin S
  <2>1. Without(w, p) = w /\ S \ {p} = S
    BY <1>2 DEF Without, QueueOf
  <2> QED BY <2>1 DEF KeepsOrder
<1> QED BY <1>1, <1>2

LEMMA QueueTail ==
    ASSUME NEW S, NEW w, QueueOf(w, S), NEW p \in S, p = Head(w)
    PROVE  QueueOf(Tail(w), S \ {p}) /\ KeepsOrder(w, Tail(w), p)
<1> DEFINE v == Tail(w)
<1>1. w \in Seq(Puts) /\ w # <<>>
  BY DEF QueueOf, ToSet
<1>2. 1 \in DOMAIN w /\ w[1] = p
  BY <1>1
<1>3. v \in Seq(Puts) /\ DOMAIN v = 1 .. Len(w) - 1 /\ \A x \in DOMAIN v : v[x] = w[x + 1]
  BY <1>1
<1>4. \A x \in DOMAIN v : ~(x < 1)
  BY <1>1, <1>3
<1> HIDE DEF v
<1>5. \A x \in DOMAIN v : v[x] = IF x < 1 THEN w[x] ELSE w[x + 1]
  BY <1>3, <1>4
<1>6. QueueOf(v, S \ {w[1]}) /\ KeepsOrder(w, v, w[1])
  BY <1>2, <1>3, <1>5, QueueRemove
<1> QED BY <1>2, <1>6 DEF v

\* What comes before p's write is at a place before p's.
LEMMA InFront ==
    ASSUME NEW S, NEW w, QueueOf(w, S), NEW p \in S, NEW q, Before(w, q, p)
    PROVE  \E n \in 1 .. Place(w, p) - 1 : w[n] = q
<1>1. Place(w, p) \in DOMAIN w /\ w[Place(w, p)] = p
  BY PlaceOf
<1>2. PICK x \in DOMAIN w, y \in DOMAIN w : x < y /\ w[x] = q /\ w[y] = p
  BY DEF Before
<1>3. y = Place(w, p)
  BY <1>1, <1>2 DEF QueueOf, IsInjective
<1>4. DOMAIN w = 1 .. Len(w) /\ Len(w) \in Nat
  BY DEF QueueOf
<1> HIDE DEF Place
<1> QED BY <1>1, <1>2, <1>3, <1>4

-------------------------------------------------------------------------------
(* What a call does to the records.                                          *)

CfgOf(m, i) == m.idToAssignment[i].cfg

\* n is consistent; it has the records of m but those of the ids in gone, and but for
\* k's it has no others, and their configurations.
Keeps(m, n, gone, k) ==
    /\ Follows(m, n, gone)
    /\ \A i \in Assigned(n) :
          KeyOf(n, i) # k => /\ i \in Assigned(m) \ gone
                             /\ KeyOf(m, i) = KeyOf(n, i) /\ CfgOf(m, i) = CfgOf(n, i)

\* Two calls, one after the other.
LEMMA KeepsThenKeeps ==
    ASSUME NEW m, NEW n, NEW gone, NEW k, Keeps(m, n, gone, k),
           NEW r, NEW more, Keeps(n, r, more, k)
    PROVE  Keeps(m, r, gone \cup more, k)
BY DEF Keeps, Follows

\* What any other owner than the caller sees: it keeps its id and its configuration, or
\* its id is gone and it has none.
LEMMA OwnerKept ==
    ASSUME NEW m, Consistent(m), NEW n, NEW gone, NEW a, Keeps(m, n, gone, a),
           NEW k \in Keys, k # a
    PROVE  /\ k \in Owners(n) <=> k \in Owners(m) /\ m.assignmentKeyToId[k] \notin gone
           /\ k \in Owners(n) =>
                 /\ n.assignmentKeyToId[k] = m.assignmentKeyToId[k]
                 /\ CfgOf(n, n.assignmentKeyToId[k]) = CfgOf(m, m.assignmentKeyToId[k])
<1> DEFINE i == m.assignmentKeyToId[k]
           j == n.assignmentKeyToId[k]
<1>1. Consistent(n)
  BY DEF Keeps, Follows
<1>2. ASSUME k \in Owners(m), i \notin gone
      PROVE  k \in Owners(n) /\ j = i
  <2>1. i \in Assigned(m) /\ KeyOf(m, i) = k
    BY <1>2, OwnersRecord
  <2>2. i \in Assigned(n) /\ KeyOf(n, i) = k
    BY <1>2, <2>1 DEF Keeps, Follows
  <2> HIDE DEF i
  <2> QED BY <1>1, <2>2 DEF Consistent, InverseMaps, KeyOf
<1>3. ASSUME k \in Owners(n)
      PROVE  k \in Owners(m) /\ i = j /\ i \notin gone /\ CfgOf(n, j) = CfgOf(m, i)
  <2>1. j \in Assigned(n) /\ KeyOf(n, j) = k
    BY <1>1, <1>3, OwnersRecord
  <2>2. j \in Assigned(m) \ gone /\ KeyOf(m, j) = k /\ CfgOf(m, j) = CfgOf(n, j)
    BY <2>1 DEF Keeps
  <2> HIDE DEF j
  <2>3. k \in Owners(m) /\ i = j
    BY <2>2 DEF Consistent, InverseMaps, KeyOf
  <2> QED BY <2>2, <2>3
<1> QED BY <1>2, <1>3

LEMMA ReleasedKeeps ==
    ASSUME NEW m, Consistent(m), NEW S, S \subseteq Assigned(m), NEW k
    PROVE  /\ Keeps(m, released(m, S), S, k)
           /\ Assigned(m) \ Assigned(released(m, S)) = S
<1> DEFINE n == released(m, S)
<1>1. Consistent(n) /\ Assigned(n) = Assigned(m) \ S
  BY ReleasedConsistent
<1>2. \A i \in Assigned(m) \ S : n.idToAssignment[i] = m.idToAssignment[i]
  BY DEF released, Restrict
<1> HIDE DEF n
<1> QED BY <1>1, <1>2 DEF Keeps, Follows, KeyOf, CfgOf, n

\* A call that rewrites records, configurations only of k's.
LEMMA TouchedKeeps ==
    ASSUME NEW m, NEW n, Consistent(n), Assigned(n) = Assigned(m), NEW k,
           \A i \in Assigned(m) : KeyOf(n, i) = KeyOf(m, i),
           \A i \in Assigned(m) : KeyOf(m, i) # k => CfgOf(n, i) = CfgOf(m, i)
    PROVE  Keeps(m, n, {}, k)
BY DEF Keeps, Follows

LEMMA SyncKeeps ==
    ASSUME NEW m, Consistent(m), NEW list \in BscLists, NEW k
    PROVE  Keeps(m, syncFromBsc(m, list), {}, k)
<1> DEFINE n == syncFromBsc(m, list)
<1>1. Consistent(n) /\ Assigned(n) = Assigned(m)
  BY SyncConsistent
<1>2. n.idToAssignment = m.idToAssignment
  BY DEF syncFromBsc, Consistent, IsState
<1> HIDE DEF n
<1>3. Keeps(m, n, {}, k)
  BY <1>1, <1>2, TouchedKeeps DEF KeyOf, CfgOf
<1> QED BY <1>3 DEF n

LEMMA MarkedKeeps ==
    ASSUME NEW m, Consistent(m), NEW i, NEW up \in BOOLEAN, NEW k
    PROVE  Keeps(m, markById(m, i, up), {}, k)
<1> DEFINE n == markById(m, i, up)
<1>1. Consistent(n) /\ Assigned(n) = Assigned(m)
  BY MarkedConsistent
<1>2. m.idToAssignment \in [Assigned(m) -> Assignment]
  BY DEF Consistent, IsState, IsMap, Assigned
<1>3. CASE i \in Assigned(m)
  <2> DEFINE b == [m.idToAssignment[i] EXCEPT !.connected = up, !.idle = 0]
             f == [m.idToAssignment EXCEPT ![i] = b]
  <2>1. n = [m EXCEPT !.idToAssignment = f]
    BY <1>3 DEF markById
  <2>2. n.idToAssignment = f
    BY <2>1 DEF Consistent, IsState
  <2>3. b.key = KeyOf(m, i) /\ b.cfg = CfgOf(m, i)
    BY <1>2, <1>3 DEF Assignment, KeyOf, CfgOf
  <2> HIDE DEF b, n
  <2>4. \A j \in Assigned(m) : KeyOf(n, j) = KeyOf(m, j) /\ CfgOf(n, j) = CfgOf(m, j)
    BY <1>2, <2>2, <2>3 DEF KeyOf, CfgOf
  <2> QED BY <1>1, <2>4, TouchedKeeps DEF n
<1>4. CASE i \notin Assigned(m)
  <2>1. n = m
    BY <1>4 DEF markById
  <2> QED BY <1>1, <2>1, TouchedKeeps
<1> QED BY <1>3, <1>4

LEMMA SeenKeeps ==
    ASSUME NEW m, Consistent(m), NEW s \in Keys, NEW k
    PROVE  Keeps(m, markSeen(m, s), {}, k)
<1> DEFINE n == markSeen(m, s)
<1>1. Consistent(n) /\ Assigned(n) = Assigned(m)
  BY SeenConsistent
<1>2. m.idToAssignment \in [Assigned(m) -> Assignment]
  BY DEF Consistent, IsState, IsMap, Assigned
<1>3. CASE s \in Owners(m)
  <2> DEFINE i == m.assignmentKeyToId[s]
             b == [m.idToAssignment[i] EXCEPT !.idle = 0]
             f == [m.idToAssignment EXCEPT ![i] = b]
  <2>1. n = [m EXCEPT !.idToAssignment = f]
    BY <1>3 DEF markSeen
  <2>2. n.idToAssignment = f /\ i \in Assigned(m)
    BY <1>3, <2>1, OwnersRecord DEF Consistent, IsState
  <2>3. b.key = KeyOf(m, i) /\ b.cfg = CfgOf(m, i)
    BY <1>2, <2>2 DEF Assignment, KeyOf, CfgOf
  <2> HIDE DEF b, n, i
  <2>4. \A j \in Assigned(m) : KeyOf(n, j) = KeyOf(m, j) /\ CfgOf(n, j) = CfgOf(m, j)
    BY <1>2, <2>2, <2>3 DEF KeyOf, CfgOf
  <2> QED BY <1>1, <2>4, TouchedKeeps DEF n
<1>4. CASE s \notin Owners(m)
  <2>1. n = m
    BY <1>4 DEF markSeen
  <2> QED BY <1>1, <2>1, TouchedKeeps
<1> QED BY <1>3, <1>4

LEMMA AgedKeeps ==
    ASSUME NEW m, Consistent(m), NEW k
    PROVE  Keeps(m, aged(m), {}, k)
<1> DEFINE n == aged(m)
<1>1. Consistent(n) /\ Assigned(n) = Assigned(m)
  BY AgedConsistent
<1>2. m.idToAssignment \in [Assigned(m) -> Assignment]
  BY DEF Consistent, IsState, IsMap, Assigned
<1> DEFINE late(i) == [m.idToAssignment[i] EXCEPT
                          !.idle = IF m.idToAssignment[i].idle > Ttl
                                   THEN m.idToAssignment[i].idle
                                   ELSE m.idToAssignment[i].idle + 1]
<1>3. n.idToAssignment = [i \in Assigned(m) |-> late(i)]
  BY DEF aged, Consistent, IsState
<1>4. \A i \in Assigned(m) : late(i).key = KeyOf(m, i) /\ late(i).cfg = CfgOf(m, i)
  BY <1>2 DEF Assignment, KeyOf, CfgOf
<1> HIDE DEF n, late
<1>5. \A i \in Assigned(m) : KeyOf(n, i) = KeyOf(m, i) /\ CfgOf(n, i) = CfgOf(m, i)
  BY <1>3, <1>4 DEF KeyOf, CfgOf
<1> QED BY <1>1, <1>5, TouchedKeeps DEF n

LEMMA RestoredKeeps ==
    ASSUME NEW m, Consistent(m), NEW i \in Assigned(m), NEW c \in Configs
    PROVE  LET n == [m EXCEPT !.idToAssignment[i].cfg = c]
           IN  Keeps(m, n, {}, KeyOf(m, i)) /\ CfgOf(n, i) = c
<1> DEFINE b == [m.idToAssignment[i] EXCEPT !.cfg = c]
           f == [m.idToAssignment EXCEPT ![i] = b]
           n == [m EXCEPT !.idToAssignment[i].cfg = c]
<1>1. Consistent(n)
  BY RestoredConfig
<1>2. m.idToAssignment \in [Assigned(m) -> Assignment]
  BY DEF Consistent, IsState, IsMap, Assigned
<1>3. n.idToAssignment = f
  BY DEF Consistent, IsState
<1>4. b.key = KeyOf(m, i) /\ b.cfg = c
  BY <1>2 DEF Assignment, KeyOf
<1>5. Assigned(n) = Assigned(m)
  BY <1>2, <1>3 DEF Assigned
<1> HIDE DEF b, n
<1>8. CfgOf(n, i) = c
  BY <1>2, <1>3, <1>4 DEF CfgOf
<1>6. \A j \in Assigned(m) : KeyOf(n, j) = KeyOf(m, j)
  BY <1>2, <1>3, <1>4 DEF KeyOf
<1>7. \A j \in Assigned(m) : KeyOf(m, j) # KeyOf(m, i) => CfgOf(n, j) = CfgOf(m, j)
  BY <1>2, <1>3 DEF KeyOf, CfgOf
<1> QED BY <1>1, <1>5, <1>6, <1>7, <1>8, TouchedKeeps DEF n

\* allocate disturbs nobody else, and its owner then has the configuration it asked
\* for, on the BTS it had if it had one.
LEMMA AllocatedKeeps ==
    ASSUME NEW m, Consistent(m), NEW k \in Keys, NEW c \in Configs
    PROVE  LET n == allocate(m, k, c)
           IN  /\ Keeps(m, n, {}, k)
               /\ k \in Owners(n) => CfgOf(n, n.assignmentKeyToId[k]) = c
               /\ k \in Owners(m) => /\ k \in Owners(n)
                                     /\ n.assignmentKeyToId[k] = m.assignmentKeyToId[k]
               /\ \/ Assigned(n) = Assigned(m)
                  \/ CanAllocate(m) /\ Assigned(n) = Assigned(m) \cup {nextBtsId(m)}
<1> DEFINE n == allocate(m, k, c)
<1>1. m.idToAssignment \in [Assigned(m) -> Assignment]
  BY DEF Consistent, IsState, IsMap, Assigned
<1>2. c # Unset
  BY BtsManagerAssumption
<1>3. CASE k \in Owners(m)
  <2> DEFINE i == m.assignmentKeyToId[k]
             b == [m.idToAssignment[i] EXCEPT !.connected = TRUE, !.idle = 0,
                      !.cfg = IF c = Unset THEN m.idToAssignment[i].cfg ELSE c]
             f == [m.idToAssignment EXCEPT ![i] = b]
  <2>1. n = [m EXCEPT !.idToAssignment = f]
    BY <1>3 DEF allocate, Refreshed
  <2>2. n.idToAssignment = f /\ n.assignmentKeyToId = m.assignmentKeyToId
    BY <2>1 DEF Consistent, IsState
  <2>3. i \in Assigned(m) /\ KeyOf(m, i) = k
    BY <1>3, OwnersRecord
  <2>4. b.key = KeyOf(m, i) /\ b.cfg = c
    BY <1>1, <1>2, <2>3 DEF Assignment, KeyOf
  <2>5. Consistent(n) /\ Assigned(n) = Assigned(m)
    BY <1>3, RefreshedConsistent DEF allocate
  <2> HIDE DEF b, n, i
  <2>6. \A j \in Assigned(m) : KeyOf(n, j) = KeyOf(m, j)
    BY <1>1, <2>2, <2>4 DEF KeyOf
  <2>7. \A j \in Assigned(m) : KeyOf(m, j) # k => CfgOf(n, j) = CfgOf(m, j)
    BY <1>1, <2>2, <2>3 DEF KeyOf, CfgOf
  <2>8. Keeps(m, n, {}, k)
    BY <2>5, <2>6, <2>7, TouchedKeeps
  <2>9. CfgOf(n, i) = c
    BY <1>1, <2>2, <2>3, <2>4 DEF CfgOf
  <2>10. Owners(n) = Owners(m) /\ n.assignmentKeyToId[k] = i
    BY <2>2 DEF Owners, i
  <2> QED BY <1>3, <2>5, <2>8, <2>9, <2>10 DEF n, i
<1>4. CASE k \notin Owners(m) /\ CanAllocate(m)
  <2> DEFINE i == nextBtsId(m)
             a == [key |-> k, cfg |-> IF c = Unset THEN DefaultConfig ELSE c,
                   osmuxPort |-> allocateOsmuxPort(m), connected |-> TRUE, idle |-> 0]
  <2>1. n = Granted(m, k, c)
    BY <1>4 DEF allocate
  <2>2. /\ n.idToAssignment = [j \in Assigned(m) \cup {i} |->
                                  IF j = i THEN a ELSE m.idToAssignment[j]]
        /\ n.assignmentKeyToId[k] = i
    BY <2>1 DEF Granted
  <2>3. a.key = k /\ a.cfg = c
    BY <1>2
  <2>4. i \notin Assigned(m)
    BY <1>4, FreshIdAndPort
  <2>5. Consistent(n)
    BY AllocateConsistent
  <2>6. Assigned(n) = Assigned(m) \cup {i}
    BY <2>2 DEF Assigned
  <2> HIDE DEF a, n, i
  <2>7. /\ KeyOf(n, i) = k /\ CfgOf(n, i) = c
        /\ \A j \in Assigned(m) : KeyOf(n, j) = KeyOf(m, j) /\ CfgOf(n, j) = CfgOf(m, j)
    BY <2>2, <2>3, <2>4 DEF KeyOf, CfgOf
  <2>8. Keeps(m, n, {}, k)
    BY <2>5, <2>6, <2>7 DEF Keeps, Follows
  <2> QED BY <1>4, <2>2, <2>6, <2>7, <2>8 DEF n, i
<1>5. CASE k \notin Owners(m) /\ ~CanAllocate(m)
  <2>1. n = FailedAllocation(m)
    BY <1>5 DEF allocate
  <2>2. Consistent(n) /\ Assigned(n) = Assigned(m)
    BY <2>1, FailedConsistent
  <2>3. n.idToAssignment = m.idToAssignment /\ Owners(n) = Owners(m)
    BY <2>1 DEF FailedAllocation, Consistent, IsState, Owners
  <2> HIDE DEF n
  <2>4. Keeps(m, n, {}, k)
    BY <2>2, <2>3, TouchedKeeps DEF KeyOf, CfgOf
  <2> QED BY <1>5, <2>2, <2>3, <2>4 DEF n
<1> QED BY <1>3, <1>4, <1>5

-------------------------------------------------------------------------------
(* The books of the service: frames, queue and confirmed owners.             *)

\* What ServiceTypeOK says beyond Sound, and what it needs to be inductive.
FrameBooked(f) ==
    /\ f.pc \in AtWrite <=> f.id \in BtsIds
    /\ f.pc = "idle" <=> f.key = None

Booked(m, fs, w, cf) ==
    /\ \A p \in Puts : FrameBooked(fs[p])
    /\ QueueOf(w, Writers(fs))
    /\ cf \subseteq Owners(m)

\* The invariant so far.
ServiceInv == Sound(mgr, put, bsc) /\ Booked(mgr, put, wire, confirmed)
ServiceInvNext == Sound(mgr', put', bsc') /\ Booked(mgr', put', wire', confirmed')

-------------------------------------------------------------------------------
(* An owner with at most one PUT in flight.                                  *)

\* The BSC has owner k's configuration c on BTS i, and no PUT is still to write it.
Settles(fs, b, i, k, c) ==
    /\ b[i].owner = k /\ b[i].cfg = c
    /\ \A q \in Puts : fs[q].pc = "writing" => fs[q].id # i

\* What p's PUT found on record is what the BSC has, and no other PUT is to write there.
Restorable(p, fs, b) ==
    /\ b[fs[p].id].owner = fs[p].key /\ b[fs[p].id].cfg = fs[p].prev
    /\ \A q \in Puts \ {p} : fs[q].pc = "writing" => fs[q].id # fs[p].id

\* p's PUT: while it waits for the list its owner has no assignment; while it writes,
\* its owner's is the record in hand, with the PUT's configuration, and older writes
\* to the same BTS come first.  If its owner is confirmed, a failure may still restore
\* what the BSC has.
Orderly(p, m, fs, w, b, cf) ==
    LET f == fs[p]
    IN  /\ f.pc \in {"listing", "listed"} => f.key \notin Owners(m)
        /\ f.pc \in AtWrite /\ f.key \in Owners(m) => f.live
        /\ f.key \in cf => f.existing
        /\ f.live =>
              /\ CfgOf(m, f.id) = f.cfg
              /\ f.pc = "writing" =>
                    \A q \in Puts \ {p} :
                       fs[q].pc = "writing" /\ fs[q].id = f.id => Before(w, q, p)
              /\ f.pc = "written" => Settles(fs, b, f.id, f.key, f.cfg)
              /\ f.pc = "writing" /\ f.key \in cf => Restorable(p, fs, b)

\* Owner k: it has one PUT in flight or none, and, if it was confirmed, what the BSC
\* has when it has none.
Settled(k, m, fs, w, b, cf) ==
    /\ \A p, q \in Puts : fs[p].key = k /\ fs[q].key = k => p = q
    /\ \A p \in Puts : fs[p].key = k => Orderly(p, m, fs, w, b, cf)
    /\ k \in cf /\ (\A p \in Puts : fs[p].key # k) =>
          LET i == m.assignmentKeyToId[k] IN Settles(fs, b, i, k, CfgOf(m, i))

\* The frame g is f after the ids in gone were released.
SameFrame(f, g, gone) ==
    /\ g.pc = f.pc /\ g.key = f.key /\ g.cfg = f.cfg /\ g.existing = f.existing
    /\ g.prev = f.prev /\ g.id = f.id
    /\ g.live <=> f.live /\ f.id \notin gone

\* A step of handler p, of an owner a that is not k.
Elsewhere(k, a, p, gone) ==
    /\ k # a /\ Keeps(mgr, mgr', gone, a)
    /\ p \in Puts => /\ put[p].key # k /\ put'[p].key # k
                     /\ put'[p].pc = "writing" => put'[p].live
    /\ \A q \in Puts \ {p} : SameFrame(put[q], put'[q], gone)
    /\ KeepsOrder(wire, wire', p)
    /\ \A i \in BtsIds : \/ bsc'[i].owner = bsc[i].owner /\ bsc'[i].cfg = bsc[i].cfg
                         \/ p \in Puts /\ put[p].pc = "writing" /\ put[p].id = i
    /\ k \in confirmed' => k \in confirmed

\* An owner's id is the one of the record with its key.
LEMMA RecordsOwner ==
    ASSUME NEW m, Consistent(m), NEW i \in Assigned(m)
    PROVE  /\ KeyOf(m, i) \in Owners(m) /\ m.assignmentKeyToId[KeyOf(m, i)] = i
           /\ i \in BtsIds
BY DEF Consistent, InverseMaps, KeyOf, IsState, IsMap, Assigned

\* A new write of somebody else is to another BTS than k's.
LEMMA WritesElsewhere ==
    ASSUME NEW k \in Keys, NEW a, NEW p, NEW gone, Elsewhere(k, a, p, gone), ServiceInvNext,
           NEW i, i \in Assigned(mgr'), KeyOf(mgr', i) = k,
           p \in Puts, put'[p].pc = "writing"
    PROVE  put'[p].id # i
BY DEF Elsewhere, ServiceInvNext, Sound, InHand

LEMMA SettlesKept ==
    ASSUME NEW k \in Keys, NEW a, NEW p, NEW gone, Elsewhere(k, a, p, gone), ServiceInvNext,
           NEW i, i \in Assigned(mgr'), KeyOf(mgr', i) = k,
           NEW c, Settles(put, bsc, i, k, c)
    PROVE  Settles(put', bsc', i, k, c)
<1>1. i \in BtsIds
  BY RecordsOwner DEF ServiceInvNext, Sound
<1>2. bsc'[i].owner = k /\ bsc'[i].cfg = c
  BY <1>1 DEF Elsewhere, Settles
<1>3. ASSUME NEW q \in Puts, put'[q].pc = "writing"  PROVE put'[q].id # i
  <2>1. CASE q = p
    BY <1>3, <2>1, WritesElsewhere
  <2>2. CASE q # p
    <3>1. SameFrame(put[q], put'[q], gone)
      BY <2>2 DEF Elsewhere
    <3> QED BY <1>3, <3>1 DEF SameFrame, Settles
  <2> QED BY <2>1, <2>2
<1> QED BY <1>2, <1>3 DEF Settles

\* What the others do leaves an owner settled.
LEMMA ElsewhereSettled ==
    ASSUME NEW k \in Keys, NEW a, NEW p, NEW gone, Elsewhere(k, a, p, gone),
           ServiceInv, ServiceInvNext, Settled(k, mgr, put, wire, bsc, confirmed)
    PROVE  Settled(k, mgr', put', wire', bsc', confirmed')
<1>1. Consistent(mgr) /\ Consistent(mgr') /\ Keeps(mgr, mgr', gone, a) /\ k # a
  BY DEF ServiceInv, ServiceInvNext, Sound, Elsewhere
<1>2. /\ k \in Owners(mgr') <=> k \in Owners(mgr) /\ mgr.assignmentKeyToId[k] \notin gone
      /\ k \in Owners(mgr') =>
            /\ mgr'.assignmentKeyToId[k] = mgr.assignmentKeyToId[k]
            /\ CfgOf(mgr', mgr'.assignmentKeyToId[k]) = CfgOf(mgr, mgr.assignmentKeyToId[k])
  BY <1>1, OwnerKept
<1>3. \A q \in Puts : put'[q].key = k => q # p /\ SameFrame(put[q], put'[q], gone)
  BY DEF Elsewhere
<1>4. \A q \in Puts : put[q].key = k => q # p /\ SameFrame(put[q], put'[q], gone)
  BY DEF Elsewhere
<1>5. \A q, r \in Puts : put'[q].key = k /\ put'[r].key = k => q = r
  BY <1>3 DEF SameFrame, Settled
<1>6. ASSUME NEW q \in Puts, put'[q].key = k
      PROVE  Orderly(q, mgr', put', wire', bsc', confirmed')
  <2> DEFINE f == put[q]
             g == put'[q]
  <2>1. q # p /\ SameFrame(f, g, gone) /\ f.key = k
    BY <1>3, <1>6 DEF SameFrame
  <2>2. Orderly(q, mgr, put, wire, bsc, confirmed)
    BY <2>1 DEF Settled
  <2>3. InHand(mgr, f) /\ InHand(mgr', g)
    BY DEF ServiceInv, ServiceInvNext, Sound
  <2>4. g.pc \in {"listing", "listed"} => g.key \notin Owners(mgr')
    BY <1>2, <2>1, <2>2 DEF SameFrame, Orderly
  <2>5. ASSUME g.pc \in AtWrite, g.key \in Owners(mgr')  PROVE g.live
    <3>1. f.live /\ mgr.assignmentKeyToId[k] \notin gone
      BY <1>2, <1>6, <2>1, <2>2, <2>5 DEF SameFrame, Orderly
    <3>2. f.id \in Assigned(mgr) /\ KeyOf(mgr, f.id) = k
      BY <2>1, <2>3, <3>1 DEF InHand
    <3>3. mgr.assignmentKeyToId[k] = f.id
      BY <1>1, <3>2, RecordsOwner
    <3> QED BY <2>1, <3>1, <3>3 DEF SameFrame
  <2>6. g.key \in confirmed' => g.existing
    BY <1>6, <2>1, <2>2 DEF SameFrame, Orderly, Elsewhere
  <2>7. ASSUME g.live
        PROVE  /\ CfgOf(mgr', g.id) = g.cfg
               /\ g.pc = "writing" =>
                     \A r \in Puts \ {q} :
                        put'[r].pc = "writing" /\ put'[r].id = g.id => Before(wire', r, q)
               /\ g.pc = "written" => Settles(put', bsc', g.id, g.key, g.cfg)
               /\ g.pc = "writing" /\ g.key \in confirmed' => Restorable(q, put', bsc')
    <3>1. g.id \in Assigned(mgr') /\ KeyOf(mgr', g.id) = k
      BY <1>6, <2>3, <2>7 DEF InHand
    <3>2. k \in Owners(mgr') /\ mgr'.assignmentKeyToId[k] = g.id
      BY <1>1, <3>1, RecordsOwner
    <3>3. f.live /\ f.id = g.id /\ f.pc = g.pc /\ f.cfg = g.cfg
      BY <2>1, <2>7 DEF SameFrame
    <3>4. CfgOf(mgr', g.id) = g.cfg
      BY <1>2, <2>2, <3>2, <3>3 DEF Orderly
    <3>5. ASSUME g.pc = "writing", NEW r \in Puts \ {q},
                 put'[r].pc = "writing", put'[r].id = g.id
          PROVE  Before(wire', r, q)
      <4>1. r # p
        BY <3>1, <3>5, WritesElsewhere
      <4>2. SameFrame(put[r], put'[r], gone)
        BY <4>1 DEF Elsewhere
      <4>3. Before(wire, r, q)
        BY <2>2, <3>3, <3>5, <4>2 DEF SameFrame, Orderly
      <4> QED BY <2>1, <4>1, <4>3 DEF KeepsOrder, Elsewhere
    <3>6. ASSUME g.pc = "written"  PROVE Settles(put', bsc', g.id, g.key, g.cfg)
      <4>1. Settles(put, bsc, g.id, k, g.cfg)
        BY <2>1, <2>2, <3>3, <3>6 DEF Orderly
      <4> QED BY <1>6, <3>1, <4>1, SettlesKept
    <3>7. ASSUME g.pc = "writing", g.key \in confirmed'  PROVE Restorable(q, put', bsc')
      <4>1. f.key \in confirmed /\ f.key = g.key /\ f.prev = g.prev
        BY <1>6, <2>1, <3>7 DEF SameFrame, Elsewhere
      <4>2. Restorable(q, put, bsc)
        BY <2>2, <3>3, <3>7, <4>1 DEF Orderly
      <4>3. g.id \in BtsIds
        BY <3>1, RecordsOwner DEF ServiceInvNext, Sound
      <4>4. ~(p \in Puts /\ put[p].pc = "writing" /\ put[p].id = g.id)
        BY <2>1, <3>3, <4>2 DEF Restorable
      <4>5. bsc'[g.id].owner = g.key /\ bsc'[g.id].cfg = g.prev
        BY <3>3, <4>1, <4>2, <4>3, <4>4 DEF Restorable, Elsewhere
      <4>6. ASSUME NEW r \in Puts \ {q}, put'[r].pc = "writing"  PROVE put'[r].id # g.id
        <5>1. CASE r = p
          BY <3>1, <4>6, <5>1, WritesElsewhere
        <5>2. CASE r # p
          <6>1. SameFrame(put[r], put'[r], gone)
            BY <5>2 DEF Elsewhere
          <6> QED BY <3>3, <4>2, <4>6, <6>1 DEF SameFrame, Restorable
        <5> QED BY <5>1, <5>2
      <4> QED BY <4>5, <4>6 DEF Restorable
    <3> QED BY <3>4, <3>5, <3>6, <3>7
  <2> QED BY <2>4, <2>5, <2>6, <2>7 DEF Orderly
<1>7. ASSUME k \in confirmed', \A q \in Puts : put'[q].key # k
      PROVE  LET i == mgr'.assignmentKeyToId[k] IN Settles(put', bsc', i, k, CfgOf(mgr', i))
  <2> DEFINE i == mgr'.assignmentKeyToId[k]
  <2>1. k \in Owners(mgr') /\ k \in confirmed
    BY <1>7 DEF ServiceInvNext, Booked, Elsewhere
  <2>2. \A q \in Puts : put[q].key # k
    BY <1>4, <1>7 DEF SameFrame
  <2>3. Settles(put, bsc, i, k, CfgOf(mgr', i))
    BY <1>2, <2>1, <2>2 DEF Settled
  <2>4. i \in Assigned(mgr') /\ KeyOf(mgr', i) = k
    BY <1>1, <2>1, OwnersRecord
  <2> QED BY <2>3, <2>4, SettlesKept
<1> QED BY <1>5, <1>6, <1>7 DEF Settled

-------------------------------------------------------------------------------
(* What each turn comes to.                                                  *)

\* The turn of handler p, of owner a, that releases the ids in gone and leaves p's
\* frame f.
TurnOf(p, a, gone, f) == Keeps(mgr, mgr', gone, a) /\ Turn(mgr', gone, p, f)

LEMMA PutStartTurn ==
    ASSUME Sound(mgr, put, bsc), NEW p \in Puts, NEW k \in Keys, NEW c \in Configs,
           PutStart(p, k, c)
    PROVE  \E gone \in SUBSET Assigned(mgr) :
              /\ \A i \in gone : mgr.idToAssignment[i].idle > Ttl
              /\ confirmed' = confirmed \ Losers(gone)
              /\ \/ k \notin Owners(mgr') /\ TurnOf(p, k, gone, Listing(k, c))
                 \/ LET i == mgr'.assignmentKeyToId[k]
                        d == CfgOf(mgr, i)
                    IN  /\ k \in Owners(mgr') /\ CfgOf(mgr', i) = c /\ d \in Configs
                        /\ k \in Owners(mgr) /\ mgr.assignmentKeyToId[k] = i
                        /\ TurnOf(p, k, gone, Writing(k, c, i, TRUE, d))
<1> DEFINE S == {j \in Assigned(mgr) : mgr.idToAssignment[j].idle > Ttl}
           m == cleanupExpiredAssignments(mgr)
           n == allocate(m, k, c)
           i == m.assignmentKeyToId[k]
<1>1. /\ confirmed' = confirmed \ Losers(Gone(m))
      /\ \/ k \notin Owners(m) /\ Turn(m, Gone(m), p, Listing(k, c))
         \/ k \in Owners(m) /\ Turn(n, Gone(m), p, Writing(k, c, i, TRUE, CfgOf(m, i)))
  BY DEF PutStart, CfgOf
<1>2. /\ Consistent(mgr) /\ S \subseteq Assigned(mgr) /\ m = released(mgr, S)
      /\ \A j \in S : mgr.idToAssignment[j].idle > Ttl
  BY DEF Sound, cleanupExpiredAssignments
<1> HIDE DEF S, m
<1>3. Keeps(mgr, m, S, k) /\ Gone(m) = S
  BY <1>2, ReleasedKeeps DEF Gone
<1>4. Consistent(m)
  BY <1>3 DEF Keeps, Follows
<1>5. CASE k \notin Owners(m) /\ Turn(m, S, p, Listing(k, c))
  <2>1. mgr' = m
    BY <1>5 DEF Turn
  <2>2. TurnOf(p, k, S, Listing(k, c))
    BY <1>3, <1>5, <2>1 DEF TurnOf
  <2> QED BY <1>1, <1>2, <1>3, <1>5, <2>1, <2>2
<1>6. CASE k \in Owners(m) /\ Turn(n, S, p, Writing(k, c, i, TRUE, CfgOf(m, i)))
  <2>1. mgr' = n
    BY <1>6 DEF Turn
  <2>2. /\ Keeps(m, n, {}, k) /\ CfgOf(n, n.assignmentKeyToId[k]) = c
        /\ k \in Owners(n) /\ n.assignmentKeyToId[k] = i
    BY <1>4, <1>6, AllocatedKeeps
  <2>3. CfgOf(m, i) \in Configs
    BY <1>4, <1>6, OwnersRecord DEF CfgOf
  <2>7. k \in Owners(mgr) /\ mgr.assignmentKeyToId[k] = i /\ CfgOf(m, i) = CfgOf(mgr, i)
    <3>1. Keeps(mgr, m, S, None)
      BY <1>2, ReleasedKeeps
    <3> QED BY <1>2, <1>6, <3>1, OwnerKept, BtsServiceAssumption
  <2> HIDE DEF n, i
  <2>4. Keeps(mgr, n, S, k)
    <3>1. Keeps(mgr, n, S \cup {}, k)
      BY <1>3, <2>2, KeepsThenKeeps
    <3>2. S \cup {} = S
      OBVIOUS
    <3> QED BY <3>1, <3>2
  <2>5. TurnOf(p, k, S, Writing(k, c, i, TRUE, CfgOf(m, i)))
    BY <1>6, <2>1, <2>4 DEF TurnOf
  <2>6. mgr'.assignmentKeyToId[k] = i /\ k \in Owners(mgr') /\ CfgOf(mgr', i) = c
    BY <2>1, <2>2
  <2> QED BY <1>1, <1>2, <1>3, <2>3, <2>5, <2>6, <2>7
<1> QED BY <1>1, <1>3, <1>5, <1>6

LEMMA PutListedTurn ==
    ASSUME Sound(mgr, put, bsc), NEW p \in Puts, PutListed(p)
    PROVE  LET f == put[p]
               k == f.key
               i == mgr'.assignmentKeyToId[k]
           IN  /\ f.pc = "listed" /\ k \in Keys /\ f.cfg \in Configs
               /\ \E gone \in SUBSET Assigned(mgr) :
                     /\ \A j \in gone : ~mgr.idToAssignment[j].connected
                     /\ confirmed' = confirmed \ Losers(gone)
                     /\ \/ k \notin Owners(mgr') /\ TurnOf(p, k, gone, Idle)
                        \/ /\ k \in Owners(mgr') /\ CfgOf(mgr', i) = f.cfg
                           /\ TurnOf(p, k, gone, Writing(k, f.cfg, i, FALSE, None))
<1> DEFINE f == put[p]
           k == f.key
           b == syncFromBsc(mgr, f.list)
           S == {j \in Assigned(b) \cap DOMAIN f.list :
                    ~b.idToAssignment[j].connected /\ isReusableBscBts(f.list[j])}
           m == cleanupDisconnectedBscAssignments(b, f.list)
           n == allocate(m, k, f.cfg)
           i == n.assignmentKeyToId[k]
<1>1. /\ f.pc = "listed" /\ confirmed' = confirmed \ Losers(Gone(m))
      /\ \/ k \in Owners(n) /\ Turn(n, Gone(m), p, Writing(k, f.cfg, i, FALSE, None))
         \/ k \notin Owners(n) /\ Turn(n, Gone(m), p, Idle)
  BY DEF PutListed
<1>2. Consistent(mgr) /\ f \in Frame /\ FrameOK(f)
  BY DEF Sound
<1>3. k \in Keys /\ f.cfg \in Configs /\ f.list \in BscLists
  <2>1. k \in Keys /\ f.cfg \in Configs
    BY <1>1, <1>2 DEF FrameOK
  <2>2. f.list \in UNION {[T -> Status] : T \in SUBSET BtsIds}
    BY <1>2 DEF Frame
  <2>3. BtsIds \subseteq 0 .. MaxBts
    BY BtsManagerAssumption DEF BtsIds
  <2> HIDE DEF f
  <2>4. f.list \in BscLists
    BY <2>2, <2>3 DEF BscLists
  <2> QED BY <2>1, <2>4
<1>4. Keeps(mgr, b, {}, k) /\ Consistent(b) /\ Assigned(b) = Assigned(mgr)
  BY <1>2, <1>3, SyncConsistent, SyncKeeps
<1>5. b.idToAssignment = mgr.idToAssignment
  BY <1>2 DEF syncFromBsc, Consistent, IsState
<1>6. /\ m = released(b, S) /\ S \subseteq Assigned(mgr)
      /\ \A j \in S : ~mgr.idToAssignment[j].connected
  BY <1>4, <1>5 DEF cleanupDisconnectedBscAssignments
<1> HIDE DEF f, k, b, S, m
<1>7. Keeps(b, m, S, k) /\ Assigned(b) \ Assigned(m) = S
  BY <1>4, <1>6, ReleasedKeeps
<1>8. Gone(m) = S /\ Consistent(m)
  BY <1>4, <1>7 DEF Gone, Keeps, Follows
<1>9. Keeps(m, n, {}, k) /\ (k \in Owners(n) => CfgOf(n, i) = f.cfg)
  BY <1>3, <1>8, AllocatedKeeps
<1>10. mgr' = n
  BY <1>1 DEF Turn
<1> HIDE DEF n, i
<1>11. Keeps(mgr, n, S, k)
  <2>1. Keeps(mgr, m, {} \cup S, k)
    BY <1>4, <1>7, KeepsThenKeeps
  <2>2. Keeps(mgr, n, ({} \cup S) \cup {}, k)
    BY <1>9, <2>1, KeepsThenKeeps
  <2>3. ({} \cup S) \cup {} = S
    OBVIOUS
  <2> QED BY <2>2, <2>3
<1>12. CASE k \in Owners(n) /\ Turn(n, Gone(m), p, Writing(k, f.cfg, i, FALSE, None))
  <2>1. TurnOf(p, k, S, Writing(k, f.cfg, i, FALSE, None)) /\ i = mgr'.assignmentKeyToId[k]
    BY <1>8, <1>10, <1>11, <1>12 DEF TurnOf, i
  <2> QED BY <1>1, <1>3, <1>6, <1>8, <1>9, <1>10, <1>12, <2>1 DEF f, k
<1>13. CASE k \notin Owners(n) /\ Turn(n, Gone(m), p, Idle)
  <2>1. TurnOf(p, k, S, Idle)
    BY <1>8, <1>10, <1>11, <1>13 DEF TurnOf
  <2> QED BY <1>1, <1>3, <1>6, <1>8, <1>10, <1>13, <2>1 DEF f, k
<1> QED BY <1>1, <1>12, <1>13

\* releaseByUuid releases at most its owner's id.
LEMMA ReleaseByUuidKeeps ==
    ASSUME NEW m, Consistent(m), NEW k \in Keys, NEW a
    PROVE  LET n == releaseByUuid(m, k)
               S == Assigned(m) \ Assigned(n)
           IN  /\ Keeps(m, n, S, a) /\ S \subseteq Assigned(m) /\ k \notin Owners(n)
               /\ \A i \in S : k \in Owners(m) /\ i = m.assignmentKeyToId[k]
<1> DEFINE n == releaseByUuid(m, k)
<1>1. CASE k \in Owners(m)
  <2> DEFINE i == m.assignmentKeyToId[k]
             S == {i}
  <2>1. i \in Assigned(m) /\ KeyOf(m, i) = k
    BY <1>1, OwnersRecord
  <2>2. n = released(m, S) /\ S \subseteq Assigned(m)
    <3>1. {i} \cap Assigned(m) = {i}
      BY <2>1
    <3> QED BY <1>1, <2>1, <3>1 DEF releaseByUuid, releaseById
  <2> HIDE DEF n, S
  <2>3. Keeps(m, n, S, a) /\ Assigned(m) \ Assigned(n) = S
    BY <2>2, ReleasedKeeps
  <2>4. Keeps(m, n, S, None)
    BY <2>2, ReleasedKeeps
  <2>5. k # None
    BY BtsServiceAssumption
  <2>6. k \notin Owners(n)
    BY <2>4, <2>5, OwnerKept DEF S
  <2> HIDE DEF i
  <2> QED BY <1>1, <2>2, <2>3, <2>6 DEF n, S, i
<1>2. CASE k \notin Owners(m)
  <2>1. n = m /\ Assigned(m) \ Assigned(m) = {}
    BY <1>2 DEF releaseByUuid
  <2>2. Keeps(m, m, {}, a)
    BY TouchedKeeps
  <2> HIDE DEF n
  <2> QED BY <1>2, <2>1, <2>2 DEF n
<1> QED BY <1>1, <1>2

LEMMA PutFailedTurn ==
    ASSUME Sound(mgr, put, bsc), NEW p \in Puts, PutFailed(p)
    PROVE  LET f == put[p]
               k == f.key
           IN  /\ f.pc \in AtWrite /\ k \in Keys
               /\ confirmed' = IF f.existing /\ f.pc = "writing" THEN confirmed
                               ELSE confirmed \ {k}
               /\ \E gone \in SUBSET Assigned(mgr) :
                     /\ TurnOf(p, k, gone, Idle)
                     /\ \A i \in gone : k \in Owners(mgr) /\ i = mgr.assignmentKeyToId[k]
                     /\ f.existing => gone = {} /\ (f.live => CfgOf(mgr', f.id) = f.prev)
<1> DEFINE f == put[p]
           k == f.key
           after == releaseByUuid(mgr, k)
           restored == IF f.live THEN [mgr EXCEPT !.idToAssignment[f.id].cfg = f.prev] ELSE mgr
           marked == markDisconnected(restored, k)
<1>1. /\ f.pc \in AtWrite
      /\ confirmed' = IF f.existing /\ f.pc = "writing" THEN confirmed ELSE confirmed \ {k}
      /\ \/ ~f.existing /\ Turn(after, Gone(after), p, Idle)
         \/ f.existing /\ Turn(marked, {}, p, Idle)
  BY DEF PutFailed, AtWrite
<1>2. Consistent(mgr) /\ f \in Frame /\ FrameOK(f) /\ InHand(mgr, f)
  BY DEF Sound
<1>3. k \in Keys
  BY <1>1, <1>2 DEF FrameOK, AtWrite
<1>4. CASE ~f.existing /\ Turn(after, Gone(after), p, Idle)
  <2> DEFINE S == Assigned(mgr) \ Assigned(after)
  <2>1. /\ Keeps(mgr, after, S, k) /\ S \subseteq Assigned(mgr)
        /\ \A i \in S : k \in Owners(mgr) /\ i = mgr.assignmentKeyToId[k]
    BY <1>2, <1>3, ReleaseByUuidKeeps
  <2>2. mgr' = after /\ Gone(after) = S
    BY <1>4 DEF Turn, Gone
  <2> HIDE DEF after, S
  <2>3. TurnOf(p, k, S, Idle)
    BY <1>4, <2>1, <2>2 DEF TurnOf
  <2> HIDE DEF f, k
  <2> QED BY <1>1, <1>3, <1>4, <2>1, <2>3 DEF f, k
<1>5. CASE f.existing /\ Turn(marked, {}, p, Idle)
  <2>1. Keeps(mgr, restored, {}, k) /\ (f.live => CfgOf(restored, f.id) = f.prev)
    <3>1. CASE f.live
      <4>1. f.id \in Assigned(mgr) /\ KeyOf(mgr, f.id) = k /\ f.prev \in Configs
        BY <1>2, <1>5, <3>1 DEF InHand, FrameOK
      <4> HIDE DEF f, k
      <4>2. LET n == [mgr EXCEPT !.idToAssignment[f.id].cfg = f.prev]
            IN  Keeps(mgr, n, {}, KeyOf(mgr, f.id)) /\ CfgOf(n, f.id) = f.prev
        BY <1>2, <4>1, RestoredKeeps
      <4> QED BY <3>1, <4>1, <4>2
    <3>2. CASE ~f.live
      <4>1. Keeps(mgr, mgr, {}, k)
        BY <1>2, TouchedKeeps
      <4> QED BY <3>2, <4>1
    <3> QED BY <3>1, <3>2
  <2> HIDE DEF restored, f
  <2>2. Consistent(restored)
    BY <2>1 DEF Keeps, Follows
  <2>3. Keeps(restored, marked, {}, k) /\ Keeps(restored, marked, {}, None)
    <3>1. CASE k \in Owners(restored)
      <4>1. FALSE \in BOOLEAN
        OBVIOUS
      <4> QED BY <2>2, <3>1, <4>1, MarkedKeeps DEF markDisconnected
    <3>2. CASE k \notin Owners(restored)
      <4>1. marked = restored
        BY <3>2 DEF markDisconnected
      <4> QED BY <2>2, <4>1, TouchedKeeps
    <3> QED BY <3>1, <3>2
  <2> HIDE DEF marked
  <2>4. Keeps(mgr, marked, {} \cup {}, k) /\ {} \cup {} = {}
    BY <2>1, <2>3, KeepsThenKeeps
  <2>5. mgr' = marked
    BY <1>5 DEF Turn
  <2>6. TurnOf(p, k, {}, Idle)
    BY <1>5, <2>4, <2>5 DEF TurnOf
  <2>7. ASSUME f.live  PROVE CfgOf(mgr', f.id) = f.prev
    <3>1. f.id \in Assigned(mgr) /\ KeyOf(mgr, f.id) = k
      BY <1>2, <2>7 DEF InHand
    <3>2. f.id \in Assigned(restored) /\ KeyOf(restored, f.id) = k
      BY <2>1, <3>1 DEF Keeps, Follows
    <3>3. f.id \in Assigned(marked) /\ KeyOf(marked, f.id) = k
      BY <2>3, <3>2 DEF Keeps, Follows
    <3>4. CfgOf(marked, f.id) = CfgOf(restored, f.id)
      BY <1>3, <2>3, <3>3, BtsServiceAssumption DEF Keeps
    <3> QED BY <2>1, <2>5, <2>7, <3>4
  <2> HIDE DEF k
  <2> QED BY <1>1, <1>3, <1>5, <2>6, <2>7 DEF f, k
<1> QED BY <1>1, <1>4, <1>5

\* The handlers without a frame.
LEMMA HandlerTurn ==
    ASSUME Sound(mgr, put, bsc),
           \/ \E k \in Plain : Get(k)
           \/ \E k \in Deleting : Delete(k)
           \/ \E i \in BtsIds : MediaSeen(i) \/ MediaLost(i)
    PROVE  \E gone \in SUBSET Assigned(mgr) :
              /\ TurnOf(None, None, gone, Idle)
              /\ confirmed' = confirmed \ Losers(gone)
              /\ \A i \in gone : \/ mgr.idToAssignment[i].idle > Ttl
                                 \/ Delete(KeyOf(mgr, i))
<1>1. Consistent(mgr)
  BY DEF Sound
<1>2. ASSUME NEW k \in Plain, Get(k)
      PROVE  \E gone \in SUBSET Assigned(mgr) :
                /\ TurnOf(None, None, gone, Idle)
                /\ confirmed' = confirmed \ Losers(gone)
                /\ \A i \in gone : mgr.idToAssignment[i].idle > Ttl
  <2> DEFINE S == {j \in Assigned(mgr) : mgr.idToAssignment[j].idle > Ttl}
             m == cleanupExpiredAssignments(mgr)
             n == markSeen(m, k)
  <2>1. Turn(n, Gone(m), None, Idle) /\ confirmed' = confirmed \ Losers(Gone(m))
    BY <1>2 DEF Get, Handler
  <2>2. /\ S \subseteq Assigned(mgr) /\ m = released(mgr, S)
        /\ \A j \in S : mgr.idToAssignment[j].idle > Ttl
    BY DEF cleanupExpiredAssignments
  <2> HIDE DEF S, m
  <2>3. Keeps(mgr, m, S, None) /\ Gone(m) = S
    BY <1>1, <2>2, ReleasedKeeps DEF Gone
  <2>4. Keeps(m, n, {}, None)
    <3>1. Consistent(m) /\ k \in Keys
      BY <1>2, <2>3, BtsServiceAssumption DEF Keeps, Follows
    <3> QED BY <3>1, SeenKeeps
  <2>5. mgr' = n
    BY <2>1 DEF Turn
  <2> HIDE DEF n
  <2>6. Keeps(mgr, n, S \cup {}, None) /\ S \cup {} = S
    BY <2>3, <2>4, KeepsThenKeeps
  <2>7. TurnOf(None, None, S, Idle)
    BY <2>1, <2>3, <2>5, <2>6 DEF TurnOf
  <2> QED BY <2>1, <2>2, <2>3, <2>7
<1>3. ASSUME NEW k \in Deleting, Delete(k)
      PROVE  \E gone \in SUBSET Assigned(mgr) :
                /\ TurnOf(None, None, gone, Idle)
                /\ confirmed' = confirmed \ Losers(gone)
                /\ \A i \in gone : Delete(KeyOf(mgr, i))
  <2> DEFINE m == releaseByUuid(mgr, k)
             S == Assigned(mgr) \ Assigned(m)
  <2>1. Turn(m, Gone(m), None, Idle) /\ confirmed' = confirmed \ Losers(Gone(m))
    BY <1>3 DEF Delete, Handler
  <2>2. /\ Keeps(mgr, m, S, None) /\ S \subseteq Assigned(mgr)
        /\ \A i \in S : k \in Owners(mgr) /\ i = mgr.assignmentKeyToId[k]
    BY <1>1, ReleaseByUuidKeeps, BtsServiceAssumption
  <2>3. mgr' = m /\ Gone(m) = S
    BY <2>1 DEF Turn, Gone
  <2>4. \A i \in S : KeyOf(mgr, i) = k
    BY <1>1, <2>2, OwnersRecord
  <2> HIDE DEF m, S
  <2>5. TurnOf(None, None, S, Idle)
    BY <2>1, <2>2, <2>3 DEF TurnOf
  <2>6. \A i \in S : Delete(KeyOf(mgr, i))
    BY <1>3, <2>4
  <2> QED BY <2>1, <2>2, <2>3, <2>5, <2>6
<1>4. ASSUME NEW i \in BtsIds, MediaSeen(i) \/ MediaLost(i)
      PROVE  TurnOf(None, None, {}, Idle) /\ confirmed' = confirmed \ Losers({})
  <2>1. PICK up \in BOOLEAN : Handler(markById(mgr, i, up), {})
    BY <1>4 DEF MediaSeen, MediaLost, markSeenById, markDisconnectedById
  <2>2. mgr' = markById(mgr, i, up)
    BY <2>1 DEF Handler, Turn
  <2>3. Keeps(mgr, markById(mgr, i, up), {}, None)
    BY <1>1, MarkedKeeps
  <2> QED BY <2>1, <2>2, <2>3 DEF TurnOf, Handler
<1>5. {} \in SUBSET Assigned(mgr)
  OBVIOUS
<1>6. CASE \E k \in Plain : Get(k)
  BY <1>2, <1>6
<1>7. CASE \E k \in Deleting : Delete(k)
  BY <1>3, <1>7
<1>8. CASE \E i \in BtsIds : MediaSeen(i) \/ MediaLost(i)
  BY <1>4, <1>5, <1>8
<1> QED BY <1>6, <1>7, <1>8

-------------------------------------------------------------------------------
(* The books and the settled owners, over the turns.                         *)

\* A turn of p touches no other frame but to release what it has in hand, and keeps
\* the queue.
LEMMA TurnFrames ==
    ASSUME ServiceInv, NEW p, NEW a, NEW gone, NEW f, TurnOf(p, a, gone, f),
           f.pc # "written", f.pc = "writing" => p \in Puts /\ put[p].pc \notin AtWrite
    PROVE  /\ \A q \in Puts \ {p} : SameFrame(put[q], put'[q], gone)
           /\ p \in Puts => put'[p] = f
           /\ QueueOf(wire', Writers(put')) /\ KeepsOrder(wire, wire', p)
           /\ f.pc = "writing" => \A q \in Writers(put) : Before(wire', q, p)
<1> DEFINE cut(q) == [put[q] EXCEPT !.live = put[q].live /\ put[q].id \notin gone]
<1>1. /\ put' = [q \in Puts |-> IF q = p THEN f ELSE cut(q)]
      /\ wire' = IF f.pc = "writing" THEN Append(wire, p) ELSE Without(wire, p)
  BY DEF TurnOf, Turn
<1>2. ASSUME NEW q \in Puts
      PROVE  SameFrame(put[q], cut(q), gone)
  <2> DEFINE g == put[q]
             held == g.live /\ g.id \notin gone
             c == [g EXCEPT !.live = held]
  <2>1. g \in Frame
    BY DEF ServiceInv, Sound
  <2>2. held \in BOOLEAN
    OBVIOUS
  <2> HIDE DEF g, held
  <2>3. /\ c.live = held
        /\ c.pc = g.pc /\ c.key = g.key /\ c.cfg = g.cfg /\ c.existing = g.existing
        /\ c.prev = g.prev /\ c.id = g.id
    BY <2>1, <2>2 DEF Frame
  <2> HIDE DEF c
  <2>4. SameFrame(g, c, gone)
    BY <2>3 DEF SameFrame, held
  <2> QED BY <2>4 DEF c, held, g
<1> HIDE DEF cut
<1>3. /\ \A q \in Puts \ {p} : SameFrame(put[q], put'[q], gone)
      /\ p \in Puts => put'[p] = f
  BY <1>1, <1>2
<1>4. QueueOf(wire, Writers(put))
  BY DEF ServiceInv, Booked
<1>5. CASE f.pc = "writing"
  <2>1. p \in Puts \ Writers(put) /\ wire' = Append(wire, p)
    BY <1>1, <1>5 DEF Writers
  <2>2. Writers(put') = Writers(put) \cup {p}
    BY <1>3, <1>5, <2>1 DEF Writers, SameFrame, AtWrite
  <2>3. /\ QueueOf(Append(wire, p), Writers(put) \cup {p})
        /\ KeepsOrder(wire, Append(wire, p), p)
        /\ \A q \in Writers(put) : Before(Append(wire, p), q, p)
    BY <1>4, <2>1, QueueAppend
  <2> QED BY <1>3, <2>1, <2>2, <2>3
<1>6. CASE f.pc # "writing"
  <2>1. wire' = Without(wire, p)
    BY <1>1, <1>6
  <2>2. Writers(put') = Writers(put) \ {p}
    BY <1>3, <1>6 DEF Writers, SameFrame, AtWrite
  <2>3. QueueOf(Without(wire, p), Writers(put) \ {p}) /\ KeepsOrder(wire, Without(wire, p), p)
    BY <1>4, QueueWithout
  <2> QED BY <1>3, <1>6, <2>1, <2>2, <2>3
<1> QED BY <1>5, <1>6

LEMMA TurnBooked ==
    ASSUME ServiceInv, NEW p, NEW a, NEW gone, NEW f, TurnOf(p, a, gone, f), FrameBooked(f),
           f.pc # "written", f.pc = "writing" => p \in Puts /\ put[p].pc \notin AtWrite,
           confirmed' \subseteq Owners(mgr')
    PROVE  Booked(mgr', put', wire', confirmed')
<1>1. /\ \A q \in Puts \ {p} : SameFrame(put[q], put'[q], gone)
      /\ p \in Puts => put'[p] = f
      /\ QueueOf(wire', Writers(put'))
  BY TurnFrames
<1>2. ASSUME NEW q \in Puts  PROVE FrameBooked(put'[q])
  <2>1. FrameBooked(put[q])
    BY DEF ServiceInv, Booked
  <2>2. CASE q = p
    BY <1>1, <2>2
  <2>3. CASE q # p
    BY <1>1, <2>1, <2>3 DEF SameFrame, FrameBooked
  <2> QED BY <2>2, <2>3
<1> QED BY <1>1, <1>2 DEF Booked

\* For another owner than the handler's, a turn is a step elsewhere.
LEMMA TurnElsewhere ==
    ASSUME ServiceInv, NEW p, NEW a, NEW gone, NEW f, TurnOf(p, a, gone, f),
           f.pc # "written", f.pc = "writing" => p \in Puts /\ put[p].pc \notin AtWrite,
           f.pc = "writing" => f.live, confirmed' \subseteq confirmed,
           NEW k \in Keys, k # a, p \in Puts => put[p].key # k /\ f.key # k
    PROVE  Elsewhere(k, a, p, gone)
<1>1. /\ \A q \in Puts \ {p} : SameFrame(put[q], put'[q], gone)
      /\ p \in Puts => put'[p] = f
      /\ KeepsOrder(wire, wire', p)
  BY TurnFrames
<1>2. bsc' = bsc /\ Keeps(mgr, mgr', gone, a)
  BY DEF TurnOf, Turn
<1> QED BY <1>1, <1>2 DEF Elsewhere

\* The confirmed owners that lose nothing still own their assignment.
LEMMA ConfirmedStay ==
    ASSUME ServiceInv, NEW gone, NEW a, Keeps(mgr, mgr', gone, a), NEW k \in confirmed,
           mgr.assignmentKeyToId[k] \notin gone
    PROVE  k \in Owners(mgr')
<1>1. Consistent(mgr) /\ k \in Owners(mgr)
  BY DEF ServiceInv, Sound, Booked
<1>2. mgr.assignmentKeyToId[k] \in Assigned(mgr) /\ KeyOf(mgr, mgr.assignmentKeyToId[k]) = k
  BY <1>1, OwnersRecord
<1>3. /\ mgr.assignmentKeyToId[k] \in Assigned(mgr') /\ Consistent(mgr')
      /\ KeyOf(mgr', mgr.assignmentKeyToId[k]) = k
  BY <1>2 DEF Keeps, Follows
<1> QED BY <1>3, RecordsOwner

LEMMA NotLosers ==
    ASSUME ServiceInv, NEW gone, NEW a, Keeps(mgr, mgr', gone, a),
           confirmed' = confirmed \ Losers(gone)
    PROVE  confirmed' \subseteq Owners(mgr')
<1> SUFFICES ASSUME NEW k \in confirmed, k \notin Losers(gone)  PROVE k \in Owners(mgr')
  OBVIOUS
<1>1. Consistent(mgr) /\ k \in Owners(mgr)
  BY DEF ServiceInv, Sound, Booked
<1>2. KeyOf(mgr, mgr.assignmentKeyToId[k]) = k
  BY <1>1, OwnersRecord
<1>3. mgr.assignmentKeyToId[k] \notin gone
  BY <1>2 DEF Losers, KeyOf
<1> QED BY <1>3, ConfirmedStay

\* What a step keeps.
SettledKept ==
    \A k \in Keys \ Overlapping :
        Settled(k, mgr, put, wire, bsc, confirmed)
            => Settled(k, mgr', put', wire', bsc', confirmed')

\* An owner whose one PUT is p's is settled if that is orderly; one with no PUT that is
\* not confirmed always is.
LEMMA OwnSettled ==
    ASSUME NEW k, NEW p \in Puts, \A q \in Puts : put'[q].key = k => q = p,
           put'[p].key = k, Orderly(p, mgr', put', wire', bsc', confirmed')
    PROVE  Settled(k, mgr', put', wire', bsc', confirmed')
BY DEF Settled

LEMMA IdleSettled ==
    ASSUME NEW k, \A q \in Puts : put'[q].key # k, k \notin confirmed'
    PROVE  Settled(k, mgr', put', wire', bsc', confirmed')
BY DEF Settled

\* The frames the turns leave.
LEMMA FramesBooked ==
    /\ FrameBooked(Idle) /\ Idle.pc = "idle" /\ Idle.key = None
    /\ \A k \in Keys, c \in Configs :
          /\ FrameBooked(Listing(k, c)) /\ Listing(k, c).pc = "listing"
          /\ Listing(k, c).key = k /\ ~Listing(k, c).live
    /\ \A k \in Keys, c \in Configs, i \in BtsIds : \A e, d :
          LET f == Writing(k, c, i, e, d)
          IN  /\ FrameBooked(f) /\ f.pc = "writing" /\ f.key = k /\ f.cfg = c /\ f.id = i
              /\ f.existing = e /\ f.prev = d /\ f.live = TRUE
BY BtsManagerAssumption, BtsServiceAssumption
DEF FrameBooked, AtWrite, Idle, Listing, Writing, BtsIds

-------------------------------------------------------------------------------
(* Every step keeps the books, and the settled owners settled.               *)

\* What a turn or a step of p has to show of its own owner.
OwnKept(a) ==
    a \in Keys \ Overlapping /\ Settled(a, mgr, put, wire, bsc, confirmed)
        => Settled(a, mgr', put', wire', bsc', confirmed')

LEMMA TurnKept ==
    ASSUME ServiceInv, Sound(mgr', put', bsc'),
           NEW p, NEW a, NEW gone, NEW f, TurnOf(p, a, gone, f), FrameBooked(f),
           f.pc # "written", f.pc = "writing" => p \in Puts /\ put[p].pc \notin AtWrite,
           f.pc = "writing" => f.live,
           confirmed' \subseteq confirmed, confirmed' \subseteq Owners(mgr'),
           p \in Puts => put[p].key \in {a, None} /\ f.key \in {a, None},
           OwnKept(a)
    PROVE  ServiceInvNext /\ SettledKept
<1>1. ServiceInvNext
  BY TurnBooked DEF ServiceInvNext
<1>2. ASSUME NEW k \in Keys \ Overlapping, Settled(k, mgr, put, wire, bsc, confirmed)
      PROVE  Settled(k, mgr', put', wire', bsc', confirmed')
  <2>1. CASE k = a
    BY <1>2, <2>1 DEF OwnKept
  <2>2. CASE k # a
    <3>1. p \in Puts => put[p].key # k /\ f.key # k
      BY <1>2, <2>2, BtsServiceAssumption
    <3>2. Elsewhere(k, a, p, gone)
      BY <2>2, <3>1, TurnElsewhere
    <3> QED BY <1>1, <1>2, <3>2, ElsewhereSettled
  <2> QED BY <2>1, <2>2
<1> QED BY <1>1, <1>2 DEF SettledKept

\* A step that releases nothing and touches no frame but p's.
LEMMA StepKept ==
    ASSUME ServiceInv, Sound(mgr', put', bsc'), Keeps(mgr, mgr', {}, None),
           NEW p, NEW a, p \in Puts => put[p].key = a,
           \A q \in Puts \ {p} : put'[q] = put[q],
           p \in Puts => /\ FrameBooked(put'[p]) /\ put'[p].key \in {a, None}
                         /\ put'[p].pc # "writing",
           QueueOf(wire', Writers(put')), KeepsOrder(wire, wire', p),
           \A i \in BtsIds : \/ bsc'[i].owner = bsc[i].owner /\ bsc'[i].cfg = bsc[i].cfg
                             \/ p \in Puts /\ put[p].pc = "writing" /\ put[p].id = i,
           confirmed' \subseteq confirmed \cup {a}, confirmed' \subseteq Owners(mgr'),
           OwnKept(a)
    PROVE  ServiceInvNext /\ SettledKept
<1>1. ASSUME NEW q \in Puts  PROVE FrameBooked(put'[q])
  BY <1>1 DEF ServiceInv, Booked
<1>2. ServiceInvNext
  BY <1>1 DEF ServiceInvNext, Booked
<1>3. ASSUME NEW k \in Keys \ Overlapping, Settled(k, mgr, put, wire, bsc, confirmed)
      PROVE  Settled(k, mgr', put', wire', bsc', confirmed')
  <2>1. CASE k = a
    BY <1>3, <2>1 DEF OwnKept
  <2>2. CASE k # a
    <3>1. k # None
      BY <1>3, BtsServiceAssumption
    <3>2. \A q \in Puts \ {p} : SameFrame(put[q], put'[q], {})
      <4>1. \A g : SameFrame(g, g, {})
        BY DEF SameFrame
      <4> QED BY <4>1
    <3>3. Elsewhere(k, None, p, {})
      BY <2>2, <3>1, <3>2 DEF Elsewhere
    <3> QED BY <1>2, <1>3, <3>3, ElsewhereSettled
  <2> QED BY <2>1, <2>2
<1> QED BY <1>2, <1>3 DEF SettledKept

LEMMA PutStartKept ==
    ASSUME ServiceInv, NEW p \in Puts, NEW k \in Keys, NEW c \in Configs, PutStart(p, k, c)
    PROVE  ServiceInvNext /\ SettledKept
<1> DEFINE i == mgr'.assignmentKeyToId[k]
<1>1. Sound(mgr', put', bsc')
  BY PutStartSound DEF ServiceInv
<1>2. PICK gone \in SUBSET Assigned(mgr) :
         /\ confirmed' = confirmed \ Losers(gone)
         /\ \/ k \notin Owners(mgr') /\ TurnOf(p, k, gone, Listing(k, c))
            \/ /\ k \in Owners(mgr') /\ CfgOf(mgr', i) = c /\ CfgOf(mgr, i) \in Configs
               /\ k \in Owners(mgr) /\ mgr.assignmentKeyToId[k] = i
               /\ TurnOf(p, k, gone, Writing(k, c, i, TRUE, CfgOf(mgr, i)))
  BY PutStartTurn DEF ServiceInv
<1>3. /\ put[p].pc = "idle" /\ put[p].key = None
      /\ k \in Overlapping \/ \A q \in Puts : put[q].key # k
  <2>1. put[p].pc = "idle" /\ (k \in Overlapping \/ \A q \in Puts : put[q].key # k)
    BY DEF PutStart
  <2> QED BY <2>1 DEF ServiceInv, Booked, FrameBooked
<1>4. ASSUME NEW f, TurnOf(p, k, gone, f), FrameBooked(f), f.pc # "written",
             f.pc = "writing" => f.live, f.key = k,
             k \notin Overlapping /\ Settled(k, mgr, put, wire, bsc, confirmed)
                 => Orderly(p, mgr', put', wire', bsc', confirmed')
      PROVE  ServiceInvNext /\ SettledKept
  <2>1. Keeps(mgr, mgr', gone, k)
    BY <1>4 DEF TurnOf
  <2>2. confirmed' \subseteq Owners(mgr') /\ confirmed' \subseteq confirmed
    BY <1>2, <2>1, NotLosers
  <2>3. put[p].pc \notin AtWrite
    BY <1>3 DEF AtWrite
  <2>4. /\ \A q \in Puts \ {p} : SameFrame(put[q], put'[q], gone)
        /\ put'[p] = f
    BY <1>4, <2>3, TurnFrames
  <2>5. OwnKept(k)
    <3> SUFFICES ASSUME k \notin Overlapping, Settled(k, mgr, put, wire, bsc, confirmed)
                 PROVE  Settled(k, mgr', put', wire', bsc', confirmed')
      BY DEF OwnKept
    <3>1. \A q \in Puts : put'[q].key = k => q = p
      BY <1>3, <2>4 DEF SameFrame
    <3> QED BY <1>4, <2>4, <3>1, OwnSettled
  <2> QED BY <1>1, <1>3, <1>4, <2>2, <2>3, <2>5, TurnKept
<1>5. CASE k \notin Owners(mgr') /\ TurnOf(p, k, gone, Listing(k, c))
  <2> DEFINE f == Listing(k, c)
  <2>1. FrameBooked(f) /\ f.pc = "listing" /\ f.key = k /\ ~f.live
    BY FramesBooked
  <2> HIDE DEF f
  <2>2. Keeps(mgr, mgr', gone, k)
    BY <1>5 DEF TurnOf
  <2>3. k \notin confirmed'
    BY <1>2, <1>5, <2>2, NotLosers
  <2>4. put'[p] = f
    BY <1>5, <2>1, TurnFrames DEF f
  <2>5. Orderly(p, mgr', put', wire', bsc', confirmed')
    BY <1>5, <2>1, <2>3, <2>4 DEF Orderly, AtWrite
  <2> QED BY <1>4, <1>5, <2>1, <2>5 DEF f
<1>6. ASSUME k \in Owners(mgr'), CfgOf(mgr', i) = c, mgr.assignmentKeyToId[k] = i,
             NEW d \in Configs, d = CfgOf(mgr, i), TurnOf(p, k, gone, Writing(k, c, i, TRUE, d))
      PROVE  ServiceInvNext /\ SettledKept
  <2> DEFINE f == Writing(k, c, i, TRUE, d)
  <2>1. i \in BtsIds
    BY <1>1, <1>6, OwnersRecord DEF Sound
  <2>2. /\ FrameBooked(f) /\ f.pc = "writing" /\ f.key = k /\ f.cfg = c /\ f.id = i
        /\ f.existing = TRUE /\ f.prev = d /\ f.live = TRUE
    BY <2>1, FramesBooked
  <2> HIDE DEF f, i
  <2>3. put[p].pc \notin AtWrite
    BY <1>3 DEF AtWrite
  <2>4. /\ \A q \in Puts \ {p} : SameFrame(put[q], put'[q], gone)
        /\ put'[p] = f /\ \A q \in Writers(put) : Before(wire', q, p)
    <3>1. TurnOf(p, k, gone, f)
      BY <1>6 DEF f
    <3> QED BY <2>2, <2>3, <3>1, TurnFrames
  <2>5. \A q \in Puts \ {p} : put'[q].pc = "writing" => Before(wire', q, p)
    BY <2>4 DEF SameFrame, Writers, AtWrite
  <2>6. ASSUME k \notin Overlapping, Settled(k, mgr, put, wire, bsc, confirmed),
               k \in confirmed'
        PROVE  Restorable(p, put', bsc')
    <3>1. k \in confirmed /\ \A q \in Puts : put[q].key # k
      BY <1>2, <1>3, <2>6
    <3>2. Settles(put, bsc, i, k, d)
      BY <1>6, <2>6, <3>1 DEF Settled
    <3>3. bsc' = bsc
      BY <1>6 DEF TurnOf, Turn
    <3>4. \A q \in Puts \ {p} : put'[q].pc = "writing" => put'[q].id # i
      BY <2>4, <3>2 DEF SameFrame, Settles
    <3> QED BY <2>2, <2>4, <3>2, <3>3, <3>4 DEF Restorable, Settles
  <2>7. ASSUME k \notin Overlapping, Settled(k, mgr, put, wire, bsc, confirmed)
        PROVE  Orderly(p, mgr', put', wire', bsc', confirmed')
    BY <1>6, <2>2, <2>4, <2>5, <2>6, <2>7 DEF Orderly
  <2> QED BY <1>4, <1>6, <2>2, <2>7 DEF f
<1> QED BY <1>2, <1>5, <1>6

\* The owner of a PUT in flight, if it may have only one.
LEMMA OnlyPut ==
    ASSUME NEW p \in Puts, Settled(put[p].key, mgr, put, wire, bsc, confirmed)
    PROVE  /\ \A q \in Puts : put[q].key = put[p].key => q = p
           /\ Orderly(p, mgr, put, wire, bsc, confirmed)
BY DEF Settled

LEMMA PutListedKept ==
    ASSUME ServiceInv, NEW p \in Puts, PutListed(p)
    PROVE  ServiceInvNext /\ SettledKept
<1> DEFINE k == put[p].key
           c == put[p].cfg
           i == mgr'.assignmentKeyToId[k]
<1>1. Sound(mgr', put', bsc')
  BY PutListedSound DEF ServiceInv
<1>2. put[p].pc = "listed" /\ k \in Keys /\ c \in Configs
  BY PutListedTurn DEF ServiceInv
<1>3. PICK gone \in SUBSET Assigned(mgr) :
         /\ confirmed' = confirmed \ Losers(gone)
         /\ \/ k \notin Owners(mgr') /\ TurnOf(p, k, gone, Idle)
            \/ /\ k \in Owners(mgr') /\ CfgOf(mgr', i) = c
               /\ TurnOf(p, k, gone, Writing(k, c, i, FALSE, None))
  BY PutListedTurn DEF ServiceInv
<1>4. put[p].pc \notin AtWrite
  BY <1>2 DEF AtWrite
<1>5. confirmed' \subseteq Owners(mgr') /\ confirmed' \subseteq confirmed
  <2>1. Keeps(mgr, mgr', gone, k)
    BY <1>3 DEF TurnOf
  <2> QED BY <1>3, <2>1, NotLosers
<1>6. ASSUME k \notin Overlapping, Settled(k, mgr, put, wire, bsc, confirmed)
      PROVE  (\A q \in Puts : put[q].key = k => q = p) /\ k \notin confirmed'
  <2>1. (\A q \in Puts : put[q].key = k => q = p) /\ k \notin Owners(mgr)
    BY <1>2, <1>6, OnlyPut DEF Orderly
  <2> QED BY <1>5, <2>1 DEF ServiceInv, Booked
<1> HIDE DEF k, c
<1>7. CASE k \notin Owners(mgr') /\ TurnOf(p, k, gone, Idle)
  <2>1. FrameBooked(Idle) /\ Idle.pc = "idle" /\ Idle.key = None
    BY FramesBooked
  <2>2. \A q \in Puts \ {p} : SameFrame(put[q], put'[q], gone)
    BY <1>7, <2>1, TurnFrames
  <2>3. put'[p].key = None
    BY <1>7, <2>1, TurnFrames
  <2>4. OwnKept(k)
    <3> SUFFICES ASSUME k \notin Overlapping, Settled(k, mgr, put, wire, bsc, confirmed)
                 PROVE  Settled(k, mgr', put', wire', bsc', confirmed')
      BY DEF OwnKept
    <3>1. \A q \in Puts : put'[q].key # k
      BY <1>2, <1>6, <2>2, <2>3, BtsServiceAssumption DEF SameFrame
    <3> QED BY <1>6, <3>1, IdleSettled
  <2> QED BY <1>1, <1>5, <1>7, <2>1, <2>4, TurnKept DEF k
<1>8. CASE /\ k \in Owners(mgr') /\ CfgOf(mgr', i) = c
           /\ TurnOf(p, k, gone, Writing(k, c, i, FALSE, None))
  <2> DEFINE f == Writing(k, c, i, FALSE, None)
  <2>1. i \in BtsIds
    BY <1>1, <1>8, OwnersRecord DEF Sound
  <2>2. /\ FrameBooked(f) /\ f.pc = "writing" /\ f.key = k /\ f.cfg = c /\ f.id = i
        /\ f.live = TRUE
    BY <1>2, <2>1, BtsManagerAssumption, BtsServiceAssumption
    DEF Writing, FrameBooked, AtWrite, BtsIds
  <2> HIDE DEF f, i
  <2>3. /\ \A q \in Puts \ {p} : SameFrame(put[q], put'[q], gone)
        /\ put'[p] = f /\ \A q \in Writers(put) : Before(wire', q, p)
    BY <1>4, <1>8, <2>2, TurnFrames DEF f
  <2>4. \A q \in Puts \ {p} : put'[q].pc = "writing" => Before(wire', q, p)
    BY <2>3 DEF SameFrame, Writers, AtWrite
  <2>5. OwnKept(k)
    <3> SUFFICES ASSUME k \notin Overlapping, Settled(k, mgr, put, wire, bsc, confirmed)
                 PROVE  Settled(k, mgr', put', wire', bsc', confirmed')
      BY DEF OwnKept
    <3>1. \A q \in Puts : put'[q].key = k => q = p
      BY <1>6, <2>3 DEF SameFrame
    <3>2. Orderly(p, mgr', put', wire', bsc', confirmed')
      BY <1>6, <1>8, <2>2, <2>3, <2>4 DEF Orderly
    <3> QED BY <2>2, <2>3, <3>1, <3>2, OwnSettled
  <2> QED BY <1>1, <1>4, <1>5, <1>8, <2>2, <2>5, TurnKept DEF k, f
<1> QED BY <1>3, <1>7, <1>8

LEMMA PutFailedKept ==
    ASSUME ServiceInv, NEW p \in Puts, PutFailed(p)
    PROVE  ServiceInvNext /\ SettledKept
<1> DEFINE k == put[p].key
           f == put[p]
<1>1. Sound(mgr', put', bsc')
  BY PutFailedSound DEF ServiceInv
<1>2. /\ k \in Keys /\ f.pc \in AtWrite
      /\ confirmed' = IF f.existing /\ f.pc = "writing" THEN confirmed ELSE confirmed \ {k}
  BY PutFailedTurn DEF ServiceInv
<1>3. PICK gone \in SUBSET Assigned(mgr) :
         /\ TurnOf(p, k, gone, Idle)
         /\ \A i \in gone : k \in Owners(mgr) /\ i = mgr.assignmentKeyToId[k]
         /\ f.existing => gone = {} /\ (f.live => CfgOf(mgr', f.id) = f.prev)
  BY PutFailedTurn DEF ServiceInv
<1>4. confirmed' \subseteq Owners(mgr')
  <2> SUFFICES ASSUME NEW j \in confirmed, j # k \/ f.existing  PROVE j \in Owners(mgr')
    BY <1>2
  <2>1. Consistent(mgr) /\ j \in Owners(mgr)
    BY DEF ServiceInv, Sound, Booked
  <2>2. KeyOf(mgr, mgr.assignmentKeyToId[j]) = j
    BY <2>1, OwnersRecord
  <2>3. k \in Owners(mgr) => KeyOf(mgr, mgr.assignmentKeyToId[k]) = k
    BY <2>1, OwnersRecord
  <2>4. mgr.assignmentKeyToId[j] \notin gone
    BY <1>3, <2>2, <2>3
  <2>5. Keeps(mgr, mgr', gone, k)
    BY <1>3 DEF TurnOf
  <2> HIDE DEF f, k
  <2> QED BY <2>4, <2>5, ConfirmedStay
<1>5. FrameBooked(Idle) /\ Idle.pc = "idle" /\ Idle.key = None
  BY FramesBooked
<1>6. \A q \in Puts \ {p} : SameFrame(put[q], put'[q], gone)
  BY <1>3, <1>5, TurnFrames
<1>7. put'[p].key = None
  BY <1>3, <1>5, TurnFrames
<1>8. OwnKept(k)
  <2> SUFFICES ASSUME k \notin Overlapping, Settled(k, mgr, put, wire, bsc, confirmed)
               PROVE  Settled(k, mgr', put', wire', bsc', confirmed')
    BY DEF OwnKept
  <2>1. /\ \A q \in Puts : put[q].key = k => q = p
        /\ Orderly(p, mgr, put, wire, bsc, confirmed)
    BY OnlyPut
  <2> HIDE DEF k
  <2>2. \A q \in Puts : put'[q].key # k
    BY <1>2, <1>6, <1>7, <2>1, BtsServiceAssumption DEF SameFrame
  <2>3. ASSUME k \in confirmed'
        PROVE  LET i == mgr'.assignmentKeyToId[k] IN Settles(put', bsc', i, k, CfgOf(mgr', i))
    <3>1. f.existing /\ f.pc = "writing" /\ k \in confirmed
      BY <1>2, <2>3
    <3>2. /\ Consistent(mgr) /\ Consistent(mgr') /\ k \in Owners(mgr)
          /\ f.key = k /\ InHand(mgr, f)
      BY <1>1, <3>1 DEF ServiceInv, Sound, Booked, k
    <3>3. f.live /\ Restorable(p, put, bsc)
      BY <2>1, <3>1, <3>2 DEF Orderly, AtWrite
    <3>4. f.id \in Assigned(mgr) /\ KeyOf(mgr, f.id) = k
      BY <3>2, <3>3 DEF InHand
    <3>5. f.id \in Assigned(mgr') /\ KeyOf(mgr', f.id) = k /\ CfgOf(mgr', f.id) = f.prev
      BY <1>3, <3>1, <3>3, <3>4 DEF TurnOf, Keeps, Follows
    <3>6. mgr'.assignmentKeyToId[k] = f.id
      BY <3>2, <3>5, RecordsOwner
    <3>7. bsc' = bsc
      BY <1>3 DEF TurnOf, Turn
    <3>8. \A q \in Puts : put'[q].pc = "writing" => put'[q].id # f.id
      <4> SUFFICES ASSUME NEW q \in Puts, put'[q].pc = "writing"  PROVE put'[q].id # f.id
        OBVIOUS
      <4>1. q # p
        BY <1>3, <1>5, TurnFrames
      <4> QED BY <1>6, <3>3, <4>1 DEF SameFrame, Restorable
    <3> QED BY <3>2, <3>3, <3>5, <3>6, <3>7, <3>8 DEF Settles, Restorable
  <2> QED BY <2>2, <2>3 DEF Settled
<1> QED BY <1>1, <1>2, <1>3, <1>4, <1>5, <1>8, TurnKept

LEMMA HandlerKept ==
    ASSUME ServiceInv, Sound(mgr', put', bsc'),
           \/ \E k \in Plain : Get(k)
           \/ \E k \in Deleting : Delete(k)
           \/ \E i \in BtsIds : MediaSeen(i) \/ MediaLost(i)
    PROVE  ServiceInvNext /\ SettledKept
<1>1. PICK gone \in SUBSET Assigned(mgr) :
         TurnOf(None, None, gone, Idle) /\ confirmed' = confirmed \ Losers(gone)
  BY HandlerTurn DEF ServiceInv
<1>2. Keeps(mgr, mgr', gone, None)
  BY <1>1 DEF TurnOf
<1>3. confirmed' \subseteq Owners(mgr') /\ confirmed' \subseteq confirmed
  BY <1>1, <1>2, NotLosers
<1>4. FrameBooked(Idle) /\ Idle.pc = "idle"
  BY FramesBooked
<1>5. None \notin Puts /\ OwnKept(None)
  BY BtsServiceAssumption DEF OwnKept
<1> QED BY <1>1, <1>3, <1>4, <1>5, TurnKept

\* The steps that leave the manager alone.
LEMMA Unchanged ==
    ASSUME ServiceInv, mgr' = mgr
    PROVE  Keeps(mgr, mgr', {}, None)
<1>1. Consistent(mgr)
  BY DEF ServiceInv, Sound
<1>2. Keeps(mgr, mgr, {}, None)
  BY <1>1, TouchedKeeps
<1> QED BY <1>2

LEMMA SameOrder == \A w, p : KeepsOrder(w, w, p)
BY DEF KeepsOrder

\* A frame whose pc, and list, is replaced.
LEMMA MovedFrame ==
    ASSUME NEW g \in Frame, NEW pc, NEW l
    PROVE  /\ LET f == [g EXCEPT !.pc = pc]
              IN  /\ f.pc = pc /\ f.key = g.key /\ f.cfg = g.cfg
                  /\ f.existing = g.existing /\ f.live = g.live /\ f.id = g.id
           /\ LET r == [g EXCEPT !.pc = pc]
                  f == [r EXCEPT !.list = l]
              IN  /\ f.pc = pc /\ f.key = g.key /\ f.cfg = g.cfg
                  /\ f.existing = g.existing /\ f.live = g.live /\ f.id = g.id
BY DEF Frame

LEMMA ListReadKept ==
    ASSUME ServiceInv, NEW p \in Puts, ListRead(p)
    PROVE  ServiceInvNext /\ SettledKept
<1> DEFINE k == put[p].key
           f == put[p]
           g == put'[p]
<1>1. Sound(mgr', put', bsc') /\ mgr' = mgr
  BY ListReadSound DEF ServiceInv
<1>2. /\ put[p].pc = "listing" /\ wire' = wire /\ bsc' = bsc /\ confirmed' = confirmed
      /\ \E l : put' = [put EXCEPT ![p].pc = "listed", ![p].list = l]
  BY DEF ListRead
<1>3. put \in [Puts -> Frame] /\ put[p] \in Frame /\ Booked(mgr, put, wire, confirmed)
  BY DEF ServiceInv, Sound
<1>4. /\ \A q \in Puts \ {p} : put'[q] = put[q]
      /\ g.pc = "listed" /\ g.key = k /\ g.cfg = f.cfg
      /\ g.existing = f.existing /\ g.live = f.live /\ g.id = f.id
  <2>1. PICK l : put' = [put EXCEPT ![p].pc = "listed", ![p].list = l]
    BY <1>2
  <2> DEFINE r == [f EXCEPT !.pc = "listed"]
             h == [r EXCEPT !.list = l]
  <2>2. put' = [put EXCEPT ![p] = h]
    BY <1>3, <2>1
  <2>3. /\ h.pc = "listed" /\ h.key = f.key /\ h.cfg = f.cfg
        /\ h.existing = f.existing /\ h.live = f.live /\ h.id = f.id
    BY <1>3, MovedFrame
  <2> HIDE DEF h, r
  <2> QED BY <1>3, <2>2, <2>3
<1> HIDE DEF g
<1>5. FrameBooked(f) /\ FrameBooked(g)
  BY <1>2, <1>3, <1>4 DEF Booked, FrameBooked, AtWrite
<1>6. Writers(put') = Writers(put)
  BY <1>2, <1>4 DEF Writers, AtWrite, g
<1>7. OwnKept(k)
  <2> SUFFICES ASSUME k \in Keys \ Overlapping, Settled(k, mgr, put, wire, bsc, confirmed)
               PROVE  Settled(k, mgr', put', wire', bsc', confirmed')
    BY DEF OwnKept
  <2>1. (\A q \in Puts : put[q].key = k => q = p) /\ k \notin Owners(mgr)
    BY <1>2, OnlyPut DEF Orderly
  <2>2. k \notin confirmed /\ ~f.live
    BY <1>2, <1>3, <2>1 DEF Booked, ServiceInv, Sound, FrameOK
  <2>3. \A q \in Puts : put'[q].key = k => q = p
    BY <1>4, <2>1
  <2>4. Orderly(p, mgr', put', wire', bsc', confirmed')
    BY <1>1, <1>2, <1>4, <2>1, <2>2 DEF Orderly, AtWrite, g
  <2> QED BY <1>4, <2>3, <2>4, OwnSettled DEF g
<1>8. Keeps(mgr, mgr', {}, None) /\ KeepsOrder(wire, wire', p)
  BY <1>1, <1>2, Unchanged, SameOrder
<1>9. QueueOf(wire', Writers(put')) /\ confirmed' \subseteq Owners(mgr')
  BY <1>1, <1>2, <1>3, <1>6 DEF Booked
<1>10. FrameBooked(put'[p]) /\ put'[p].key = k /\ put'[p].pc # "writing"
  BY <1>4, <1>5 DEF g
<1>11. confirmed' \subseteq confirmed \cup {k}
  BY <1>2
<1> HIDE DEF k
<1> QED BY <1>1, <1>2, <1>4, <1>7, <1>8, <1>9, <1>10, <1>11, StepKept DEF k

LEMMA ListFailedKept ==
    ASSUME ServiceInv, NEW p \in Puts, ListFailed(p)
    PROVE  ServiceInvNext /\ SettledKept
<1> DEFINE k == put[p].key
<1>1. Sound(mgr', put', bsc') /\ mgr' = mgr
  BY DoneSound DEF ServiceInv
<1>2. /\ put[p].pc = "listing" /\ wire' = wire /\ bsc' = bsc /\ confirmed' = confirmed
      /\ put' = [put EXCEPT ![p] = Idle]
  BY DEF ListFailed
<1>3. put \in [Puts -> Frame] /\ Booked(mgr, put, wire, confirmed)
  BY DEF ServiceInv, Sound
<1>4. FrameBooked(Idle) /\ Idle.pc = "idle" /\ Idle.key = None
  BY FramesBooked
<1>5. (\A q \in Puts \ {p} : put'[q] = put[q]) /\ put'[p] = Idle
  BY <1>2, <1>3
<1>6. Writers(put') = Writers(put)
  BY <1>2, <1>4, <1>5 DEF Writers, AtWrite
<1>7. OwnKept(k)
  <2> SUFFICES ASSUME k \in Keys \ Overlapping, Settled(k, mgr, put, wire, bsc, confirmed)
               PROVE  Settled(k, mgr', put', wire', bsc', confirmed')
    BY DEF OwnKept
  <2>1. (\A q \in Puts : put[q].key = k => q = p) /\ k \notin Owners(mgr)
    BY <1>2, OnlyPut DEF Orderly
  <2>2. \A q \in Puts : put'[q].key # k
    BY <1>4, <1>5, <2>1, BtsServiceAssumption
  <2>3. k \notin confirmed'
    BY <1>2, <1>3, <2>1 DEF Booked
  <2> QED BY <2>2, <2>3, IdleSettled
<1>8. Keeps(mgr, mgr', {}, None) /\ KeepsOrder(wire, wire', p)
  BY <1>1, <1>2, Unchanged, SameOrder
<1>9. QueueOf(wire', Writers(put')) /\ confirmed' \subseteq Owners(mgr')
  BY <1>1, <1>2, <1>3, <1>6 DEF Booked
<1>10. FrameBooked(put'[p]) /\ put'[p].key = None /\ put'[p].pc # "writing"
  BY <1>4, <1>5
<1>11. confirmed' \subseteq confirmed \cup {k}
  BY <1>2
<1> HIDE DEF k
<1> QED BY <1>1, <1>2, <1>5, <1>7, <1>8, <1>9, <1>10, <1>11, StepKept DEF k

\* A PUT answered 200 confirms its owner, whose configuration the BSC has by then.
LEMMA PutOkKept ==
    ASSUME ServiceInv, NEW p \in Puts, PutOk(p)
    PROVE  ServiceInvNext /\ SettledKept
<1> DEFINE k == put[p].key
           f == put[p]
<1>1. Sound(mgr', put', bsc') /\ mgr' = mgr
  BY DoneSound DEF ServiceInv
<1>2. /\ f.pc = "written" /\ p = Head(wire) /\ wire' = Tail(wire) /\ bsc' = bsc
      /\ put' = [put EXCEPT ![p] = Idle]
      /\ confirmed' = IF f.live THEN confirmed \cup {k} ELSE confirmed
  BY DEF PutOk
<1>3. /\ put \in [Puts -> Frame] /\ Booked(mgr, put, wire, confirmed)
      /\ Consistent(mgr) /\ InHand(mgr, f) /\ FrameOK(f)
  BY DEF ServiceInv, Sound
<1>4. FrameBooked(Idle) /\ Idle.pc = "idle" /\ Idle.key = None
  BY FramesBooked
<1>5. (\A q \in Puts \ {p} : put'[q] = put[q]) /\ put'[p] = Idle
  BY <1>2, <1>3
<1>6. Writers(put') = Writers(put) \ {p} /\ p \in Writers(put)
  BY <1>2, <1>4, <1>5 DEF Writers, AtWrite
<1>7. QueueOf(wire', Writers(put')) /\ KeepsOrder(wire, wire', p)
  <2>1. p = Head(wire) /\ wire' = Tail(wire)
    BY <1>2
  <2>2. QueueOf(wire, Writers(put))
    BY <1>3 DEF Booked
  <2>3. QueueOf(Tail(wire), Writers(put) \ {p}) /\ KeepsOrder(wire, Tail(wire), p)
    BY <1>6, <2>1, <2>2, QueueTail
  <2> QED BY <1>6, <2>1, <2>3
<1>8. f.live => k \in Owners(mgr) /\ mgr.assignmentKeyToId[k] = f.id
  BY <1>3, RecordsOwner DEF InHand
<1>9. confirmed' \subseteq Owners(mgr') /\ confirmed' \subseteq confirmed \cup {k}
  BY <1>1, <1>2, <1>3, <1>8 DEF Booked
<1>10. OwnKept(k)
  <2> SUFFICES ASSUME k \in Keys \ Overlapping, Settled(k, mgr, put, wire, bsc, confirmed)
               PROVE  Settled(k, mgr', put', wire', bsc', confirmed')
    BY DEF OwnKept
  <2>1. /\ \A q \in Puts : put[q].key = k => q = p
        /\ Orderly(p, mgr, put, wire, bsc, confirmed)
    BY OnlyPut
  <2>2. \A q \in Puts : put'[q].key # k
    BY <1>4, <1>5, <2>1, BtsServiceAssumption
  <2>3. CASE f.live
    <3>1. Settles(put, bsc, f.id, k, f.cfg) /\ CfgOf(mgr, f.id) = f.cfg
      BY <1>2, <2>1, <2>3 DEF Orderly
    <3>2. \A q \in Puts : put'[q].pc = "writing" => put[q].pc = "writing" /\ put'[q].id = put[q].id
      BY <1>4, <1>5
    <3>3. Settles(put', bsc', f.id, k, f.cfg)
      BY <1>2, <3>1, <3>2 DEF Settles
    <3> QED BY <1>1, <1>8, <2>2, <2>3, <3>1, <3>3 DEF Settled
  <2>4. CASE ~f.live
    <3>1. k \notin Owners(mgr)
      BY <1>2, <2>1, <2>4 DEF Orderly, AtWrite
    <3>2. k \notin confirmed'
      BY <1>1, <1>9, <3>1
    <3> QED BY <2>2, <3>2, IdleSettled
  <2> QED BY <2>3, <2>4
<1>11. Keeps(mgr, mgr', {}, None)
  BY <1>1, Unchanged
<1>12. FrameBooked(put'[p]) /\ put'[p].key = None /\ put'[p].pc # "writing"
  BY <1>4, <1>5
<1> HIDE DEF k, f
<1> QED BY <1>1, <1>2, <1>5, <1>7, <1>9, <1>10, <1>11, <1>12, StepKept DEF k

\* The BSC executes a write: by then it has executed every older one to the same BTS.
LEMMA BscWritesKept ==
    ASSUME ServiceInv, NEW p \in Puts, BscWrites(p)
    PROVE  ServiceInvNext /\ SettledKept
<1> DEFINE k == put[p].key
           f == put[p]
           g == put'[p]
<1>1. Sound(mgr', put', bsc') /\ mgr' = mgr
  BY BscWritesSound DEF ServiceInv
<1>2. /\ f.pc = "writing" /\ wire' = wire /\ confirmed' = confirmed
      /\ \A n \in 1 .. Place(wire, p) - 1 : put[wire[n]].pc = "written"
      /\ put' = [put EXCEPT ![p].pc = "written"]
  BY DEF BscWrites
<1>3. /\ put \in [Puts -> Frame] /\ f \in Frame /\ Booked(mgr, put, wire, confirmed)
      /\ bsc \in BscTables
  BY DEF ServiceInv, Sound
<1>4. /\ \A q \in Puts \ {p} : put'[q] = put[q]
      /\ g.pc = "written" /\ g.key = k /\ g.cfg = f.cfg
      /\ g.existing = f.existing /\ g.live = f.live /\ g.id = f.id
  <2> DEFINE h == [f EXCEPT !.pc = "written"]
  <2>1. put' = [put EXCEPT ![p] = h]
    BY <1>2, <1>3
  <2>2. /\ h.pc = "written" /\ h.key = f.key /\ h.cfg = f.cfg
        /\ h.existing = f.existing /\ h.live = f.live /\ h.id = f.id
    BY <1>3, MovedFrame
  <2> HIDE DEF h
  <2> QED BY <1>3, <2>1, <2>2
<1> HIDE DEF g
<1>5. FrameBooked(f) /\ FrameBooked(g) /\ f.id \in BtsIds
  BY <1>2, <1>3, <1>4 DEF Booked, FrameBooked, AtWrite
<1>6. Writers(put') = Writers(put) /\ p \in Writers(put)
  BY <1>2, <1>4 DEF Writers, AtWrite, g
<1>7. /\ bsc'[f.id].owner = k /\ bsc'[f.id].cfg = f.cfg
      /\ \A i \in BtsIds \ {f.id} : bsc'[i] = bsc[i]
  <2> DEFINE row == [status |-> IF bsc[f.id].status = "absent" THEN "down" ELSE bsc[f.id].status,
                     owner |-> k, cfg |-> f.cfg]
  <2>1. bsc' = [bsc EXCEPT ![f.id] = row]
    BY DEF BscWrites
  <2>2. row.owner = k /\ row.cfg = f.cfg
    OBVIOUS
  <2> HIDE DEF row
  <2> QED BY <1>3, <1>5, <2>1, <2>2 DEF BscTables
<1>8. OwnKept(k)
  <2> SUFFICES ASSUME k \in Keys \ Overlapping, Settled(k, mgr, put, wire, bsc, confirmed)
               PROVE  Settled(k, mgr', put', wire', bsc', confirmed')
    BY DEF OwnKept
  <2>1. /\ \A q \in Puts : put[q].key = k => q = p
        /\ Orderly(p, mgr, put, wire, bsc, confirmed)
    BY OnlyPut
  <2>2. \A q \in Puts : put'[q].key = k => q = p
    BY <1>4, <2>1
  <2>3. ASSUME f.live  PROVE Settles(put', bsc', f.id, k, f.cfg)
    <3> SUFFICES ASSUME NEW q \in Puts, put'[q].pc = "writing", put'[q].id = f.id
                 PROVE  FALSE
      BY <1>7 DEF Settles
    <3>1. q # p /\ put[q].pc = "writing" /\ put[q].id = f.id
      BY <1>4 DEF g
    <3>2. Before(wire, q, p)
      BY <1>2, <2>1, <2>3, <3>1 DEF Orderly
    <3>3. QueueOf(wire, Writers(put))
      BY <1>3 DEF Booked
    <3>4. PICK n \in 1 .. Place(wire, p) - 1 : wire[n] = q
      BY <1>6, <3>2, <3>3, InFront
    <3> QED BY <1>2, <3>1, <3>4
  <2>4. Orderly(p, mgr', put', wire', bsc', confirmed')
    <3>1. /\ f.pc \in AtWrite /\ f.key \in Owners(mgr) => f.live
          /\ f.key \in confirmed => f.existing
          /\ f.live => CfgOf(mgr, f.id) = f.cfg
      BY <2>1 DEF Orderly
    <3>2. put'[p] = g /\ f.key = k /\ f.pc \in AtWrite
      BY <1>2 DEF AtWrite, g
    <3>3. g.pc = "written" /\ g.key = f.key /\ g.cfg = f.cfg /\ g.id = f.id
      BY <1>4
    <3>4. (g.existing <=> f.existing) /\ (g.live <=> f.live)
      BY <1>4
    <3>5. mgr' = mgr /\ confirmed' = confirmed
      BY <1>1, <1>2
    <3> HIDE DEF f, k
    <3>6. g.pc \in AtWrite /\ g.key \in Owners(mgr') => g.live
      BY <3>1, <3>2, <3>3, <3>4, <3>5
    <3>7. g.key \in confirmed' => g.existing
      BY <3>1, <3>3, <3>4, <3>5
    <3>8. g.live => /\ CfgOf(mgr', g.id) = g.cfg
                    /\ Settles(put', bsc', g.id, g.key, g.cfg)
      BY <2>3, <3>1, <3>2, <3>3, <3>4, <3>5
    <3>9. g.pc \notin {"listing", "listed"} /\ g.pc # "writing"
      BY <3>3
    <3> HIDE DEF g
    <3> QED BY <3>2, <3>6, <3>7, <3>8, <3>9 DEF Orderly
  <2> QED BY <1>4, <2>2, <2>4, OwnSettled DEF g
<1>9. Keeps(mgr, mgr', {}, None) /\ KeepsOrder(wire, wire', p)
  BY <1>1, <1>2, Unchanged, SameOrder
<1>10. QueueOf(wire', Writers(put')) /\ confirmed' \subseteq Owners(mgr')
  BY <1>1, <1>2, <1>3, <1>6 DEF Booked
<1>11. FrameBooked(put'[p]) /\ put'[p].key = k /\ put'[p].pc # "writing"
  BY <1>4, <1>5 DEF g
<1>12. confirmed' \subseteq confirmed \cup {k}
  BY <1>2
<1> HIDE DEF k
<1> QED BY <1>1, <1>2, <1>4, <1>7, <1>8, <1>9, <1>10, <1>11, <1>12, StepKept DEF k

\* The environment: the BSC's view of a BTS changes, time passes.
LEMMA EnvironmentKept ==
    ASSUME ServiceInv, Sound(mgr', put', bsc'),
           \/ \E i \in BtsIds, status \in Status : BscChanges(i, status)
           \/ ClockTicks
    PROVE  ServiceInvNext /\ SettledKept
<1>1. put' = put /\ wire' = wire /\ confirmed' = confirmed
  BY DEF BscChanges, ClockTicks
<1>2. Keeps(mgr, mgr', {}, None)
  <2>1. CASE \E i \in BtsIds, status \in Status : BscChanges(i, status)
    BY <2>1, Unchanged DEF BscChanges
  <2>2. CASE ClockTicks
    BY <2>2, AgedKeeps DEF ClockTicks, ServiceInv, Sound
  <2> QED BY <2>1, <2>2
<1>3. \A j \in BtsIds : bsc'[j].owner = bsc[j].owner /\ bsc'[j].cfg = bsc[j].cfg
  <2>1. ASSUME NEW i \in BtsIds, NEW status \in Status, BscChanges(i, status),
               NEW j \in BtsIds
        PROVE  bsc'[j].owner = bsc[j].owner /\ bsc'[j].cfg = bsc[j].cfg
    <3>1. bsc \in BscTables /\ bsc' = [bsc EXCEPT ![i].status = status]
      BY <2>1 DEF BscChanges, ServiceInv, Sound
    <3> QED BY <3>1 DEF BscTables
  <2>2. ClockTicks => bsc' = bsc
    BY DEF ClockTicks
  <2> QED BY <2>1, <2>2
<1>4. QueueOf(wire', Writers(put')) /\ KeepsOrder(wire, wire', None)
  BY <1>1, SameOrder DEF ServiceInv, Booked
<1>5. confirmed' \subseteq Owners(mgr')
  <2>1. ASSUME NEW k \in confirmed  PROVE k \in Owners(mgr')
    BY <1>2, ConfirmedStay
  <2> QED BY <1>1, <2>1
<1>6. None \notin Puts /\ OwnKept(None)
  BY BtsServiceAssumption DEF OwnKept
<1>7. confirmed' \subseteq confirmed \cup {None} /\ \A q \in Puts \ {None} : put'[q] = put[q]
  BY <1>1
<1> QED BY <1>2, <1>3, <1>4, <1>5, <1>6, <1>7, StepKept

\* Every step of the service keeps the books, and the settled owners settled.
LEMMA ServiceStepKept ==
    ASSUME ServiceInv, ServiceNext
    PROVE  ServiceInvNext /\ SettledKept
<1>1. Sound(mgr', put', bsc')
  BY ServiceStep DEF ServiceInv
<1>2. ASSUME NEW p \in Puts, NEW k \in Keys, NEW c \in Configs, PutStart(p, k, c)
      PROVE  ServiceInvNext /\ SettledKept
  BY <1>2, PutStartKept
<1>3. ASSUME NEW p \in Puts,
             \/ ListRead(p) \/ ListFailed(p) \/ PutListed(p)
             \/ BscWrites(p) \/ PutOk(p) \/ PutFailed(p)
      PROVE  ServiceInvNext /\ SettledKept
  BY <1>3, ListReadKept, ListFailedKept, PutListedKept, BscWritesKept, PutOkKept, PutFailedKept
<1>4. CASE \/ \E k \in Plain : Get(k)
           \/ \E k \in Deleting : Delete(k)
           \/ \E i \in BtsIds : MediaSeen(i) \/ MediaLost(i)
  BY <1>1, <1>4, HandlerKept
<1>5. CASE \/ \E i \in BtsIds, status \in Status : BscChanges(i, status)
           \/ ClockTicks
  BY <1>1, <1>5, EnvironmentKept
<1> QED BY <1>2, <1>3, <1>4, <1>5 DEF ServiceNext

\* An owner that was confirmed loses its assignment only if its id is released, which a
\* failed PUT does only to an owner that had none when it started.
LEMMA ConfirmedLost ==
    ASSUME ServiceInv, ServiceNext, NEW k \in confirmed, k \notin Owners(mgr'),
           Settled(k, mgr, put, wire, bsc, confirmed)
    PROVE  LET a == mgr.idToAssignment[mgr.assignmentKeyToId[k]]
           IN  Delete(k) \/ a.idle > Ttl \/ ~a.connected
<1> DEFINE i == mgr.assignmentKeyToId[k]
           a == mgr.idToAssignment[i]
<1>1. Sound(mgr, put, bsc) /\ Consistent(mgr) /\ k \in Owners(mgr)
  BY DEF ServiceInv, Sound, Booked
<1>2. KeyOf(mgr, i) = k
  BY <1>1, OwnersRecord
<1>3. ASSUME NEW o, NEW gone, Keeps(mgr, mgr', gone, o)  PROVE i \in gone
  BY <1>3, ConfirmedStay
<1>4. ASSUME NEW p \in Puts, NEW s \in Keys, NEW c \in Configs, PutStart(p, s, c)
      PROVE  a.idle > Ttl
  <2>1. PICK gone : /\ \A j \in gone : mgr.idToAssignment[j].idle > Ttl
                    /\ \E f : TurnOf(p, s, gone, f)
    BY <1>1, <1>4, PutStartTurn
  <2>2. i \in gone
    BY <1>3, <2>1 DEF TurnOf
  <2> QED BY <2>1, <2>2
<1>5. ASSUME NEW p \in Puts, PutListed(p)
      PROVE  ~a.connected
  <2>1. PICK gone : /\ \A j \in gone : ~mgr.idToAssignment[j].connected
                    /\ \E f : TurnOf(p, put[p].key, gone, f)
    BY <1>1, <1>5, PutListedTurn
  <2>2. i \in gone
    BY <1>3, <2>1 DEF TurnOf
  <2> QED BY <2>1, <2>2
<1>6. ASSUME NEW p \in Puts, PutFailed(p)
      PROVE  FALSE
  <2> DEFINE s == put[p].key
  <2>1. PICK gone : /\ TurnOf(p, s, gone, Idle)
                    /\ \A j \in gone : s \in Owners(mgr) /\ j = mgr.assignmentKeyToId[s]
                    /\ put[p].existing => gone = {}
    BY <1>1, <1>6, PutFailedTurn
  <2>2. i \in gone
    BY <1>3, <2>1 DEF TurnOf
  <2>3. s = k
    BY <1>1, <1>2, <2>1, <2>2, OwnersRecord
  <2>4. put[p].existing
    BY <2>3, OnlyPut DEF Orderly
  <2> QED BY <2>1, <2>2, <2>4
<1>7. CASE \/ \E s \in Plain : Get(s)
           \/ \E s \in Deleting : Delete(s)
           \/ \E j \in BtsIds : MediaSeen(j) \/ MediaLost(j)
  <2>1. PICK gone : /\ TurnOf(None, None, gone, Idle)
                    /\ \A j \in gone : \/ mgr.idToAssignment[j].idle > Ttl
                                       \/ Delete(KeyOf(mgr, j))
    BY <1>1, <1>7, HandlerTurn
  <2>2. i \in gone
    BY <1>3, <2>1 DEF TurnOf
  <2> QED BY <1>2, <2>1, <2>2
<1>8. ASSUME NEW p \in Puts, ListRead(p) \/ ListFailed(p) \/ BscWrites(p) \/ PutOk(p)
      PROVE  FALSE
  BY <1>1, <1>8 DEF ListRead, ListFailed, BscWrites, PutOk
<1>9. ASSUME NEW j \in BtsIds, NEW status \in Status, BscChanges(j, status)
      PROVE  FALSE
  BY <1>1, <1>9 DEF BscChanges
<1>10. CASE ClockTicks
  <2>1. Keeps(mgr, mgr', {}, None)
    BY <1>1, <1>10, AgedKeeps DEF ClockTicks
  <2> QED BY <1>3, <2>1
<1>11. CASE \E p \in Puts : \/ \E s \in Keys, c \in Configs : PutStart(p, s, c)
                           \/ ListRead(p) \/ ListFailed(p) \/ PutListed(p)
                           \/ BscWrites(p) \/ PutOk(p) \/ PutFailed(p)
  BY <1>4, <1>5, <1>6, <1>8, <1>11
<1>12. CASE \E j \in BtsIds, status \in Status : BscChanges(j, status)
  BY <1>9, <1>12
<1> QED BY <1>7, <1>10, <1>11, <1>12 DEF ServiceNext

\* The turn the list arrives in: it releases no id the list reports up or unknown, and
\* having read of it takes it for neither free nor fresh.
LEMMA ListedIdsKept ==
    ASSUME Sound(mgr, put, bsc), NEW p \in Puts, PutListed(p),
           NEW i \in DOMAIN put[p].list, put[p].list[i] # "down", i \in Assigned(mgr')
    PROVE  i \in Assigned(mgr) /\ KeyOf(mgr, i) = KeyOf(mgr', i)
<1> DEFINE f == put[p]
           b == syncFromBsc(mgr, f.list)
           S == {j \in Assigned(b) \cap DOMAIN f.list :
                    ~b.idToAssignment[j].connected /\ isReusableBscBts(f.list[j])}
           m == cleanupDisconnectedBscAssignments(b, f.list)
           n == allocate(m, f.key, f.cfg)
<1>1. mgr' = n
  BY DEF PutListed, Turn
<1>2. Consistent(mgr) /\ f \in Frame /\ f.key \in Keys /\ f.cfg \in Configs
  BY PutListedTurn DEF Sound
<1>3. f.list \in BscLists /\ DOMAIN f.list \subseteq BtsIds
  <2>1. f.list \in UNION {[T -> Status] : T \in SUBSET BtsIds}
    BY <1>2 DEF Frame
  <2>2. BtsIds \subseteq 0 .. MaxBts
    BY BtsManagerAssumption DEF BtsIds
  <2> HIDE DEF f
  <2> QED BY <2>1, <2>2 DEF BscLists
<1>4. Consistent(b) /\ Assigned(b) = Assigned(mgr)
  BY <1>2, <1>3, SyncConsistent
<1>5. b.idToAssignment = mgr.idToAssignment
  BY <1>2 DEF syncFromBsc, Consistent, IsState
<1>6. i \in b.knownBtsIds /\ i \notin b.freeIds
  <2>1. /\ b.knownBtsIds = mgr.knownBtsIds \cup (DOMAIN f.list \cap BtsIds)
        /\ b.freeIds = (mgr.freeIds \ (DOMAIN f.list \cap BtsIds)) \cup
              {j \in DOMAIN f.list \cap BtsIds :
                  j \notin Assigned(mgr) /\ isReusableBscBts(f.list[j])}
    BY <1>2 DEF syncFromBsc, Consistent, IsState
  <2> HIDE DEF b
  <2> QED BY <1>3, <2>1 DEF isReusableBscBts
<1>7. m = released(b, S) /\ S \subseteq Assigned(b) /\ i \notin S
  BY DEF cleanupDisconnectedBscAssignments, isReusableBscBts
<1> HIDE DEF f, b, S, m
<1>8. Consistent(m) /\ Assigned(m) = Assigned(b) \ S
  BY <1>4, <1>7, ReleasedConsistent
<1>9. i \in m.knownBtsIds /\ i \notin m.freeIds
  BY <1>6, <1>7 DEF released
<1>10. Keeps(b, m, S, None)
  BY <1>4, <1>7, ReleasedKeeps
<1>11. /\ Keeps(m, n, {}, f.key)
       /\ \/ Assigned(n) = Assigned(m)
          \/ CanAllocate(m) /\ Assigned(n) = Assigned(m) \cup {nextBtsId(m)}
  BY <1>2, <1>8, AllocatedKeeps
<1> HIDE DEF n
<1>12. CanAllocate(m) => i # nextBtsId(m)
  <2> SUFFICES ASSUME CanAllocate(m), i = nextBtsId(m)  PROVE FALSE
    OBVIOUS
  <2>1. i > m.highestKnownBtsId
    BY <1>8, <1>9, FreshIdAndPort
  <2>2. i <= m.highestKnownBtsId /\ i \in BtsIds /\ m.highestKnownBtsId \in -1 .. MaxBts - 1
    BY <1>8, <1>9 DEF Consistent, ExactIds, IsState
  <2> HIDE DEF nextBtsId
  <2> QED BY <2>1, <2>2, BtsManagerAssumption DEF BtsIds
<1>13. i \in Assigned(m)
  BY <1>1, <1>11, <1>12
<1>14. KeyOf(n, i) = KeyOf(m, i)
  BY <1>11, <1>13 DEF Keeps, Follows
<1>15. i \in Assigned(mgr) /\ KeyOf(m, i) = KeyOf(mgr, i)
  <2>1. i \in Assigned(b) \ S
    BY <1>8, <1>13
  <2>2. KeyOf(m, i) = KeyOf(b, i)
    BY <1>10, <2>1 DEF Keeps, Follows
  <2> QED BY <1>4, <1>5, <2>1, <2>2 DEF KeyOf
<1> QED BY <1>1, <1>14, <1>15

-------------------------------------------------------------------------------
(* The theorems.                                                             *)

\* In every reachable state of the service the manager's books are consistent and
\* every handler's frame knows what it has in hand.
THEOREM ServiceAlwaysSound == ServiceSpec => []Sound(mgr, put, bsc)
<1>1. ServiceInit => Sound(mgr, put, bsc)
  <2> SUFFICES ASSUME ServiceInit  PROVE Sound(mgr, put, bsc)
    OBVIOUS
  <2>1. Consistent(mgr)
    BY InitialConsistent DEF ServiceInit, Init
  <2>2. InHand(mgr, Idle)
    BY IdleFrame DEF InHand
  <2>3. bsc \in BscTables
    BY DEF ServiceInit, NoBts, BscTables
  <2> QED BY <2>1, <2>2, <2>3, IdleFrame DEF ServiceInit, Sound
<1>2. Sound(mgr, put, bsc) /\ [ServiceNext]_serviceVars => Sound(mgr, put, bsc)'
  <2>1. ASSUME Sound(mgr, put, bsc), ServiceNext  PROVE Sound(mgr', put', bsc')
    BY <2>1, ServiceStep
  <2>2. ASSUME Sound(mgr, put, bsc), UNCHANGED serviceVars  PROVE Sound(mgr', put', bsc')
    BY <2>2 DEF serviceVars
  <2>3. Sound(mgr, put, bsc)' <=> Sound(mgr', put', bsc')
    BY DEF Sound, Consistent, IsState, InverseMaps, ExactPorts, ExactIds, Assigned, Owners,
           FrameOK, InHand, KeyOf
  <2> QED BY <2>1, <2>2, <2>3
<1> QED BY <1>1, <1>2, PTL DEF ServiceSpec

\* A handler that holds a record across an await never writes into the record of a
\* different owner, whoever releases and allocates in between.
THEOREM LiveRecordAlwaysOwners == ServiceSpec => []LiveRecordIsOwners
<1>1. Sound(mgr, put, bsc) => LiveRecordIsOwners
  BY DEF Sound, InHand, KeyOf, LiveRecordIsOwners
<1> QED BY <1>1, ServiceAlwaysSound, PTL

\* The books of the service are right in every reachable state.
LEMMA ServiceAlwaysBooked == ServiceSpec => []ServiceInv
<1>1. Sound(mgr, put, bsc) /\ ServiceInit => ServiceInv
  <2> SUFFICES ASSUME Sound(mgr, put, bsc), ServiceInit  PROVE Booked(mgr, put, wire, confirmed)
    BY DEF ServiceInv
  <2>1. put = [p \in Puts |-> Idle] /\ wire = <<>> /\ confirmed = {}
    BY DEF ServiceInit
  <2>2. FrameBooked(Idle) /\ Idle.pc = "idle"
    BY FramesBooked
  <2>3. Writers(put) = {} /\ \A p \in Puts : FrameBooked(put[p])
    BY <2>1, <2>2 DEF Writers, AtWrite
  <2>4. QueueOf(wire, {})
    BY <2>1 DEF QueueOf, IsInjective, ToSet
  <2> QED BY <2>1, <2>3, <2>4 DEF Booked
<1>2. ServiceInv /\ [ServiceNext]_serviceVars => ServiceInv'
  <2>1. ASSUME ServiceInv, ServiceNext  PROVE ServiceInvNext
    BY <2>1, ServiceStepKept
  <2>2. ASSUME ServiceInv, UNCHANGED serviceVars  PROVE ServiceInvNext
    BY <2>2 DEF serviceVars, ServiceInv, ServiceInvNext
  <2>3. ServiceInv' <=> ServiceInvNext
    BY DEF ServiceInv, ServiceInvNext, Sound, Consistent, IsState, InverseMaps, ExactPorts,
           ExactIds, Assigned, Owners, FrameOK, InHand, KeyOf, Booked, FrameBooked, QueueOf,
           Writers, ToSet, IsInjective
  <2> QED BY <2>1, <2>2, <2>3
<1> QED BY <1>1, <1>2, ServiceAlwaysSound, PTL DEF ServiceSpec

\* Every frame, the queue, the BSC's table and the set of confirmed owners have their
\* shapes, a PUT is in the queue once and exactly while it writes, and only owners of an
\* assignment are confirmed.
THEOREM ServiceTypeCorrect == ServiceSpec => []ServiceTypeOK
<1>1. ServiceInv => ServiceTypeOK
  <2> SUFFICES ASSUME ServiceInv  PROVE ServiceTypeOK
    OBVIOUS
  <2>1. TypeOK /\ put \in [Puts -> Frame] /\ bsc \in BscTables
    BY DEF ServiceInv, Sound, Consistent, TypeOK
  <2>2. \A p \in Puts : FrameBooked(put[p]) /\ FrameOK(put[p])
    BY DEF ServiceInv, Sound, Booked
  <2>3. QueueOf(wire, Writers(put)) /\ confirmed \subseteq Owners(mgr)
    BY DEF ServiceInv, Booked
  <2> QED BY <2>1, <2>2, <2>3
          DEF ServiceTypeOK, FrameBooked, FrameOK, AtWrite, QueueOf, Writers, BscTables
<1> QED BY <1>1, ServiceAlwaysBooked, PTL

\* No interleaving makes a PUT take an id its list reports connected or unknown.
THEOREM NewIdNeverReportedInUse == ServiceSpec => NewIdNotReportedInUse
<1> DEFINE A == \A p \in Puts : \A i \in DOMAIN put[p].list :
          /\ put[p].list[i] # "down"
          /\ i \in Assigned(mgr)'
          /\ i \in Assigned(mgr) => mgr'.idToAssignment[i].key # mgr.idToAssignment[i].key
          => ~PutListed(p)
<1>1. Sound(mgr, put, bsc) => A
  <2>1. Assigned(mgr)' = Assigned(mgr')
    BY DEF Assigned
  <2> QED BY <2>1, ListedIdsKept DEF KeyOf
<1> HIDE DEF A
<1>2. Sound(mgr, put, bsc) /\ [ServiceNext]_serviceVars => [A]_serviceVars
  BY <1>1
<1> QED BY <1>2, ServiceAlwaysSound, PTL DEF ServiceSpec, NewIdNotReportedInUse, A

\* An owner that never has two PUTs in flight is settled in every reachable state: the
\* record its PUT writes from is the manager's, with the configuration it writes, and it
\* writes after every older write to that BTS.  As long as the owner is confirmed, the
\* BSC has what is on record, or has what its PUT at work puts back there should it fail
\* before the BSC executes it.  An owner whose PUT failed after that is not confirmed,
\* and of what the BSC has for it nothing is said.
THEOREM OwnersAlwaysSettled ==
    ServiceSpec => [](\A k \in Keys \ Overlapping : Settled(k, mgr, put, wire, bsc, confirmed))
<1> DEFINE I == \A k \in Keys \ Overlapping : Settled(k, mgr, put, wire, bsc, confirmed)
<1>1. ServiceInit => I
  <2> SUFFICES ASSUME ServiceInit, NEW k \in Keys  PROVE Settled(k, mgr, put, wire, bsc, confirmed)
    OBVIOUS
  <2>1. confirmed = {} /\ \A p \in Puts : put[p].key # k
    BY FramesBooked, BtsServiceAssumption DEF ServiceInit
  <2> QED BY <2>1 DEF Settled
<1>2. ServiceInv /\ I /\ [ServiceNext]_serviceVars => I'
  <2>1. \A k : Settled(k, mgr, put, wire, bsc, confirmed)'
                 <=> Settled(k, mgr', put', wire', bsc', confirmed')
    BY DEF Settled, Orderly, Restorable, Settles, Before, CfgOf, Owners, AtWrite
  <2>2. ASSUME ServiceInv, I, ServiceNext  PROVE I'
    BY <2>1, <2>2, ServiceStepKept DEF SettledKept
  <2>3. ASSUME I, UNCHANGED serviceVars  PROVE I'
    BY <2>1, <2>3 DEF serviceVars
  <2> QED BY <2>2, <2>3
<1> HIDE DEF I
<1>3. ServiceSpec => []I
  BY <1>1, <1>2, ServiceAlwaysBooked, PTL DEF ServiceSpec
<1> QED BY <1>3 DEF I

\* If no owner has two PUTs in flight at once, the BSC has on every confirmed owner's BTS
\* the configuration the manager has on record while no PUT of that owner is in flight,
\* whatever the other owners do and however many of its own PUTs failed unexecuted.
THEOREM BscAlwaysAgrees ==
    ASSUME Overlapping = {}
    PROVE  ServiceSpec => []BscAgrees
<1> DEFINE I == \A k \in Keys \ Overlapping : Settled(k, mgr, put, wire, bsc, confirmed)
<1>1. ServiceInv /\ I => BscAgrees
  <2> SUFFICES ASSUME ServiceInv, I, NEW k \in confirmed, \A p \in Puts : put[p].key # k
               PROVE  LET i == mgr.assignmentKeyToId[k]
                      IN  bsc[i].owner = k /\ bsc[i].cfg = mgr.idToAssignment[i].cfg
    BY DEF BscAgrees
  <2>1. k \in Keys
    BY DEF ServiceInv, Sound, Booked, Consistent, IsState, IsMap, Owners
  <2> QED BY <2>1 DEF Settled, Settles, CfgOf
<1> HIDE DEF I
<1>2. ServiceSpec => []I
  BY OwnersAlwaysSettled DEF I
<1> QED BY <1>1, <1>2, ServiceAlwaysBooked, PTL

\* If no owner has two PUTs in flight at once, an assignment a PUT was answered with is
\* lost only by its owner's DELETE, by expiry, or as a disconnected one: no failure of a
\* request takes it.
THEOREM ConfirmedAlwaysKept ==
    ASSUME Overlapping = {}
    PROVE  ServiceSpec => ConfirmedKept
<1> DEFINE I == \A k \in Keys \ Overlapping : Settled(k, mgr, put, wire, bsc, confirmed)
           A == \A k \in confirmed :
                   LET a == mgr.idToAssignment[mgr.assignmentKeyToId[k]]
                   IN  k \notin Owners(mgr)' =>
                         \/ Delete(k)
                         \/ a.idle > Ttl
                         \/ ~a.connected
<1>1. ServiceInv /\ I /\ ServiceNext => A
  <2> SUFFICES ASSUME ServiceInv, I, ServiceNext, NEW k \in confirmed, k \notin Owners(mgr)'
               PROVE  LET a == mgr.idToAssignment[mgr.assignmentKeyToId[k]]
                      IN  Delete(k) \/ a.idle > Ttl \/ ~a.connected
    OBVIOUS
  <2>1. k \in Keys
    BY DEF ServiceInv, Sound, Booked, Consistent, IsState, IsMap, Owners
  <2>2. k \notin Owners(mgr')
    BY DEF Owners
  <2> QED BY <2>1, <2>2, ConfirmedLost
<1> HIDE DEF A, I
<1>2. ServiceSpec => []I
  BY OwnersAlwaysSettled DEF I
<1>3. ServiceInv /\ I /\ [ServiceNext]_serviceVars => [A]_serviceVars
  BY <1>1
<1>4. ServiceSpec => [][A]_serviceVars
  BY <1>2, <1>3, ServiceAlwaysBooked, PTL DEF ServiceSpec
<1> QED BY <1>4 DEF ConfirmedKept, A

\* The service implements BtsLease: no interleaving of its handlers gives an id or a
\* port of one owner to another, or changes a lease while it lasts.
THEOREM ServiceImplementsLease == ServiceSpec => ImplementsLease
<1>1. ServiceInit => Abstract!Init
  BY DEF ServiceInit, Init, InitialState, LeaseOf, Owners, Abstract!Init
<1>2. Sound(mgr, put, bsc) /\ [ServiceNext]_serviceVars => [Abstract!Next]_(LeaseOf(mgr))
  <2>1. ASSUME Sound(mgr, put, bsc), ServiceNext
        PROVE  Abstract!Next
    <3> DEFINE lease == LeaseOf(mgr)
               after == LeaseOf(mgr')
    <3>1. PICK gone \in SUBSET Owners(mgr) :
              \/ after = [j \in Owners(mgr) \ gone |-> lease[j]]
              \/ \E k \in Keys, id \in BtsIds, port \in OsmuxPorts :
                    /\ k \notin Owners(mgr) \ gone
                    /\ \A j \in Owners(mgr) \ gone : lease[j].id # id /\ lease[j].port # port
                    /\ after = [j \in (Owners(mgr) \ gone) \cup {k} |->
                                   IF j = k THEN [id |-> id, port |-> port] ELSE lease[j]]
      BY <2>1, ServiceStep DEF TurnMove, MoveTo
    <3>2. DOMAIN lease = Owners(mgr) /\ gone \in SUBSET Keys
      BY <2>1 DEF LeaseOf, Owners, Sound, Consistent, IsState, IsMap
    <3>3. after = LeaseOf(mgr)'
      BY DEF LeaseOf, Owners
    <3>4. CASE after = [j \in Owners(mgr) \ gone |-> lease[j]]
      <4> HIDE DEF lease, after
      <4>1. gone \subseteq DOMAIN lease /\ after = [j \in DOMAIN lease \ gone |-> lease[j]]
        BY <3>2, <3>4
      <4>2. Abstract!Drop(gone)
        BY <4>1, <3>3 DEF Abstract!Drop, lease
      <4> QED BY <3>2, <4>2 DEF Abstract!Next
    <3>5. ASSUME NEW k \in Keys, NEW id \in BtsIds, NEW port \in OsmuxPorts,
                 k \notin Owners(mgr) \ gone,
                 \A j \in Owners(mgr) \ gone : lease[j].id # id /\ lease[j].port # port,
                 after = [j \in (Owners(mgr) \ gone) \cup {k} |->
                             IF j = k THEN [id |-> id, port |-> port] ELSE lease[j]]
          PROVE  Abstract!Next
      <4> DEFINE l == [id |-> id, port |-> port]
      <4>1. l \in Abstract!Lease /\ l.id = id /\ l.port = port
        BY DEF Abstract!Lease
      <4>2. after = [j \in (DOMAIN lease \ gone) \cup {k} |-> IF j = k THEN l ELSE lease[j]]
        BY <3>2, <3>5
      <4>3. \A j \in DOMAIN lease \ gone : lease[j].id # l.id /\ lease[j].port # l.port
        BY <3>2, <3>5
      <4>4. k \notin DOMAIN lease \ gone /\ gone \subseteq DOMAIN lease
        BY <3>2, <3>5
      <4> HIDE DEF l
      <4>5. Abstract!Grant(gone, k)
        BY <4>1, <4>2, <4>3, <4>4, <3>3 DEF Abstract!Grant
      <4> QED BY <3>2, <4>5 DEF Abstract!Next
    <3> QED BY <3>1, <3>4, <3>5
  <2>2. UNCHANGED serviceVars => UNCHANGED LeaseOf(mgr)
    BY DEF serviceVars, LeaseOf, Owners
  <2> QED BY <2>1, <2>2
<1> QED BY <1>1, <1>2, ServiceAlwaysSound, PTL DEF ServiceSpec, ImplementsLease, Abstract!Spec

===============================================================================
