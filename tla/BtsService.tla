------------------------------ MODULE BtsService ------------------------------
(***************************************************************************)
(* The BTS service: the HTTP handlers of nestjs-microservice               *)
(* (controllers/bts.controller.ts) and the media websocket handler of      *)
(* backend-core (osmorouter/controllers/media.controller.ts) over one      *)
(* BtsManager, and the BSC they configure.                                 *)
(*                                                                         *)
(* Node runs one handler at a time up to its next await, so an action here *)
(* is one turn: everything a handler does between two awaits, composed     *)
(* from the operators of BtsManager.  A PUT awaits the BSC's list (only    *)
(* when its owner has no assignment yet) and then the write of the BTS     *)
(* configuration; other handlers run in between.                           *)
(*                                                                         *)
(* Abstracted: the commands of one write take effect together, and writes  *)
(* take effect and are answered in the order they began, since all of them *)
(* use the controller's one VTY session, whose commands are queued (module *)
(* VtyClient); BscSession is about the commands of two writes interleaving *)
(* in it.                                                                  *)
(***************************************************************************)
EXTENDS BtsManager, SequencesExt

CONSTANTS
    Puts,          \* PUT requests that may be in flight at once
    Overlapping,   \* owners that may send a PUT while another of theirs is in flight
    Deleting,      \* owners that may send a DELETE
    Plain,         \* owner keys without instanceId, the only ones GET asks for
    None           \* no key, no configuration

ASSUME BtsServiceAssumption ==
    /\ Overlapping \subseteq Keys /\ Deleting \subseteq Keys /\ Plain \subseteq Keys
    /\ None \notin Keys \cup Configs \cup Puts

VARIABLES
    put,           \* the handler frames of the PUTs
    wire,          \* the PUTs that await their write, in the order they began it
    bsc,           \* the BSC's BTS table
    confirmed      \* history: owners that have kept the assignment a PUT was answered
                   \* 200 with, and none of whose PUTs failed since after the BSC had
                   \* executed it

serviceVars == <<mgr, put, wire, bsc, confirmed>>

\* A frame: at "idle" no request; "listing" awaits getAllBts, "listed" has its
\* result; "writing" awaits updateBts, "written" when the BSC took all of it.
\* existing is whether getByUuid found an assignment, prev its configuration;
\* live is whether the record in hand is still the one in the manager's map.
NoList == [i \in {} |-> i]
Idle == [pc |-> "idle", key |-> None, cfg |-> None, existing |-> FALSE, prev |-> None,
         live |-> FALSE, id |-> -1, list |-> NoList]

Listing(k, c) ==
    [pc |-> "listing", key |-> k, cfg |-> c, existing |-> FALSE, prev |-> None,
     live |-> FALSE, id |-> -1, list |-> NoList]

Writing(k, c, i, existing, prev) ==
    [pc |-> "writing", key |-> k, cfg |-> c, existing |-> existing, prev |-> prev,
     live |-> TRUE, id |-> i, list |-> NoList]

\* A BTS of the BSC: its state, and whose configuration was written to it last.
NoBts == [status |-> "absent", owner |-> None, cfg |-> None]

ServiceInit ==
    /\ Init
    /\ put = [p \in Puts |-> Idle]
    /\ wire = <<>>
    /\ bsc = [i \in BtsIds |-> NoBts]
    /\ confirmed = {}

-------------------------------------------------------------------------------
(* Turns.                                                                    *)

\* The owners of the ids in gone.
Losers(gone) == {mgr.idToAssignment[i].key : i \in gone}

\* Where p's write is in the queue q, and q without it.
Place(q, p) == CHOOSE n \in DOMAIN q : q[n] = p

Without(q, p) == IF p \in ToSet(q) THEN RemoveAt(q, Place(q, p)) ELSE q

\* Mutant of Turn: a handler finds its record again by id instead of holding it.
TurnById(m, gone, p, frame) ==
    /\ mgr' = m
    /\ put' = [put EXCEPT ![p] = frame]
    /\ wire' = IF frame.pc = "writing" THEN Append(wire, p) ELSE Without(wire, p)
    /\ bsc' = bsc

\* A turn leaves manager state m after releasing the ids in gone, and p's frame
\* as given: at the end of wire if it is a write, else not in it.  Another handler
\* that holds a released record holds a dead object.
Turn(m, gone, p, frame) ==
    /\ mgr' = m
    /\ put' = [q \in Puts |-> IF q = p THEN frame
                              ELSE [put[q] EXCEPT !.live = @ /\ put[q].id \notin gone]]
    /\ wire' = IF frame.pc = "writing" THEN Append(wire, p) ELSE Without(wire, p)
    /\ bsc' = bsc

\* A turn of a handler that has no frame: it never awaits.
Handler(m, gone) == Turn(m, gone, None, Idle) /\ confirmed' = confirmed \ Losers(gone)

\* The ids a turn to state m releases, when m is not the result of a grant.
Gone(m) == Assigned(mgr) \ Assigned(m)

-------------------------------------------------------------------------------
(* PUT /api/v1/osmo/bts                                                      *)

\* Up to the first await.  An owner whose assignment survives the clean-up has it
\* refreshed and goes on to the write; any other waits for the BSC's list.
PutStart(p, k, c) ==
    LET m == cleanupExpiredAssignments(mgr)
        i == m.assignmentKeyToId[k]
    IN  /\ put[p].pc = "idle"
        /\ k \in Overlapping \/ \A q \in Puts : put[q].key # k
        /\ \/ /\ k \notin Owners(m)
              /\ Turn(m, Gone(m), p, Listing(k, c))
           \/ /\ k \in Owners(m)
              /\ Turn(allocate(m, k, c), Gone(m), p,
                      Writing(k, c, i, TRUE, m.idToAssignment[i].cfg))
        /\ confirmed' = confirmed \ Losers(Gone(m))

\* getAllBts: the rows of the BSC's table at this moment, without those whose
\* 'show bts N' failed.  The handler sees them some time later.
ListRead(p) ==
    /\ put[p].pc = "listing"
    /\ \E rows \in SUBSET {i \in BtsIds : bsc[i].status # "absent"} :
          put' = [put EXCEPT ![p].pc = "listed",
                             ![p].list = [i \in rows |-> bsc[i].status]]
    /\ UNCHANGED <<mgr, wire, bsc, confirmed>>

\* getAllBts rejects: answered 503.
ListFailed(p) ==
    /\ put[p].pc = "listing"
    /\ put' = [put EXCEPT ![p] = Idle]
    /\ UNCHANGED <<mgr, wire, bsc, confirmed>>

\* The turn the list arrives in: sync, clean up, allocate.  By now another PUT of
\* the owner may have allocated; the allocation may throw, answered 503.
PutListed(p) ==
    LET f == put[p]
        m == cleanupDisconnectedBscAssignments(syncFromBsc(mgr, f.list), f.list)
        n == allocate(m, f.key, f.cfg)
    IN  /\ f.pc = "listed"
        /\ \/ /\ f.key \in Owners(n)
              /\ Turn(n, Gone(m), p,
                      Writing(f.key, f.cfg, n.assignmentKeyToId[f.key], FALSE, None))
           \/ f.key \notin Owners(n) /\ Turn(n, Gone(m), p, Idle)
        /\ confirmed' = confirmed \ Losers(Gone(m))

\* The BSC executes the configuration commands of the PUT.
BscWrites(p) ==
    LET f == put[p]
    IN  /\ f.pc = "writing"
        /\ \A n \in 1 .. Place(wire, p) - 1 : put[wire[n]].pc = "written"
        /\ bsc' = [bsc EXCEPT ![f.id] =
                      [status |-> IF @.status = "absent" THEN "down" ELSE @.status,
                       owner |-> f.key, cfg |-> f.cfg]]
        /\ put' = [put EXCEPT ![p].pc = "written"]
        /\ UNCHANGED <<mgr, wire, confirmed>>

\* bsc.updateBts resolves: answered 200 with the record in hand.
PutOk(p) ==
    /\ put[p].pc = "written" /\ p = Head(wire)
    /\ put' = [put EXCEPT ![p] = Idle]
    /\ wire' = Tail(wire)
    /\ confirmed' = IF put[p].live THEN confirmed \cup {put[p].key} ELSE confirmed
    /\ UNCHANGED <<mgr, bsc>>

\* Mutant of PutFailed: releases whether or not it allocated.
PutFailedReleases(p) ==
    LET m == releaseByUuid(mgr, put[p].key)
    IN  /\ put[p].pc \in {"writing", "written"}
        /\ Turn(m, Gone(m), p, Idle)
        /\ confirmed' = confirmed \ {put[p].key}

\* Mutant of PutFailed: leaves the configuration that was not written on record.
PutFailedKeepsConfig(p) ==
    LET f == put[p]
        after == releaseByUuid(mgr, f.key)
    IN  /\ f.pc \in {"writing", "written"}
        /\ \/ ~f.existing /\ Turn(after, Gone(after), p, Idle)
           \/ f.existing /\ Turn(markDisconnected(mgr, f.key), {}, p, Idle)
        /\ confirmed' = IF f.existing /\ f.pc = "writing" THEN confirmed
                        ELSE confirmed \ {f.key}

\* bsc.updateBts rejects, with the commands executed or not: answered 503, not
\* always in order, since a write stops at the first command that fails.  A PUT
\* that found no assignment releases whatever its owner has now; one that found
\* one restores the configuration in the record it found and marks its owner's
\* record disconnected.  What an earlier PUT was answered with is then in force
\* again, unless the BSC had executed this one.
PutFailed(p) ==
    LET f == put[p]
        after == releaseByUuid(mgr, f.key)
        restored == IF f.live THEN [mgr EXCEPT !.idToAssignment[f.id].cfg = f.prev] ELSE mgr
    IN  /\ f.pc \in {"writing", "written"}
        /\ \/ ~f.existing /\ Turn(after, Gone(after), p, Idle)
           \/ f.existing /\ Turn(markDisconnected(restored, f.key), {}, p, Idle)
        /\ confirmed' = IF f.existing /\ f.pc = "writing" THEN confirmed
                        ELSE confirmed \ {f.key}

-------------------------------------------------------------------------------
(* The handlers that do not await.                                           *)

\* GET: clean up, mark seen (without marking connected), look up.
Get(k) ==
    LET m == cleanupExpiredAssignments(mgr)
    IN  Handler(markSeen(m, k), Gone(m))

Delete(k) == LET m == releaseByUuid(mgr, k) IN Handler(m, Gone(m))

\* A media websocket names a BTS, or a media packet of it passes, either way.
MediaSeen(i) == Handler(markSeenById(mgr, i), {})

\* A media websocket that named BTS i closes or fails.
MediaLost(i) == Handler(markDisconnectedById(mgr, i), {})

-------------------------------------------------------------------------------
(* The environment.                                                          *)

\* The BSC's view of a BTS it has changes: it comes up, goes down, or cannot be
\* told.
BscChanges(i, status) ==
    /\ bsc[i].status \notin {"absent", status}
    /\ bsc' = [bsc EXCEPT ![i].status = status]
    /\ UNCHANGED <<mgr, put, wire, confirmed>>

\* Time passes.
ClockTicks == mgr' = aged(mgr) /\ UNCHANGED <<put, wire, bsc, confirmed>>

ServiceNext ==
    \/ \E p \in Puts :
          \/ \E k \in Keys, c \in Configs : PutStart(p, k, c)
          \/ ListRead(p) \/ ListFailed(p) \/ PutListed(p)
          \/ BscWrites(p) \/ PutOk(p) \/ PutFailed(p)
    \/ \E k \in Plain : Get(k)
    \/ \E k \in Deleting : Delete(k)
    \/ \E i \in BtsIds : MediaSeen(i) \/ MediaLost(i)
    \/ \E i \in BtsIds, status \in Status : BscChanges(i, status)
    \/ ClockTicks

ServiceSpec == ServiceInit /\ [][ServiceNext]_serviceVars

-------------------------------------------------------------------------------
(* Properties.                                                               *)

Frame ==
    [pc : {"idle", "listing", "listed", "writing", "written"},
     key : Keys \cup {None}, cfg : Configs \cup {None},
     existing : BOOLEAN, prev : Configs \cup {None}, live : BOOLEAN,
     id : BtsIds \cup {-1}, list : UNION {[S -> Status] : S \in SUBSET BtsIds}]

\* Shapes, and what the pc of a frame implies: a write names a BTS id, and only a
\* write has a record in hand.
ServiceTypeOK ==
    /\ TypeOK
    /\ put \in [Puts -> Frame]
    /\ \A p \in Puts : /\ put[p].pc \in {"writing", "written"} <=> put[p].id \in BtsIds
                       /\ put[p].live => put[p].id \in BtsIds
    /\ ToSet(wire) = {p \in Puts : put[p].pc \in {"writing", "written"}} /\ IsInjective(wire)
    /\ bsc \in [BtsIds -> [status : Status \cup {"absent"}, owner : Keys \cup {None},
                           cfg : Configs \cup {None}]]
    /\ confirmed \subseteq Owners(mgr)

\* A record in hand is live exactly when the map still has it for the same owner:
\* no handler ever writes into a record that a different owner has meanwhile.
LiveRecordIsOwners ==
    \A p \in Puts : put[p].live =>
        /\ put[p].id \in Assigned(mgr)
        /\ mgr.idToAssignment[put[p].id].key = put[p].key

\* A PUT that allocates takes no id the list it just read reports connected or in
\* an unknown state, however old its manager state was and whatever ran while it
\* waited ('PUT after active BSC with id 0 allocates id 1').
NewIdNotReportedInUse ==
    [][\A p \in Puts : \A i \in DOMAIN put[p].list :
          /\ put[p].list[i] # "down"
          /\ i \in Assigned(mgr)'
          /\ i \in Assigned(mgr) => mgr'.idToAssignment[i].key # mgr.idToAssignment[i].key
          => ~PutListed(p)]_serviceVars

\* An assignment a PUT was answered with is lost only by its owner's DELETE, by
\* expiry, or by the clean-up of disconnected ones: never because some other
\* request failed (README of nestjs-microservice: PUT 'Allocates a BTS for the
\* authenticated user').
ConfirmedKept ==
    [][\A k \in confirmed :
          LET a == mgr.idToAssignment[mgr.assignmentKeyToId[k]]
          IN  k \notin Owners(mgr)' =>
                \/ Delete(k)
                \/ a.idle > Ttl
                \/ ~a.connected]_serviceVars

\* Once a PUT was answered 200 and none of its owner's is in flight, the BSC has the
\* owner's configuration on the owner's BTS, the one the manager has on record
\* (README of nestjs-microservice: PUT 'updates its config in the BSC via VTY'); a
\* later PUT that fails before the BSC executed it changes nothing of that, since it
\* puts the old configuration back on record.  One that fails after the BSC executed
\* it leaves the two apart, the record old and the BSC new: no code writes the old
\* one to the BSC, and the property does not speak of that owner until its next PUT.
BscAgrees ==
    \A k \in confirmed :
        LET i == mgr.assignmentKeyToId[k]
        IN  (\A p \in Puts : put[p].key # k) =>
              bsc[i].owner = k /\ bsc[i].cfg = mgr.idToAssignment[i].cfg

===============================================================================
