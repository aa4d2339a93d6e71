------------------------------- MODULE BtsReuse -------------------------------
(***************************************************************************)
(* BtsManager with a history variable: the ids whose owner lost them and   *)
(* that nobody was given, and no list from the BSC named, since.  The      *)
(* state of the manager alone does not tell such an id from one the BSC    *)
(* reports in use: both are known, not assigned and not free.              *)
(***************************************************************************)
EXTENDS BtsManager

VARIABLE returned

InitReuse == Init /\ returned = {}

NextReuse ==
    \/ \E list \in BscLists : Sync(list) /\ returned' = returned \ DOMAIN list
    \/ /\ Call
       /\ returned' = (returned \cup Assigned(mgr)) \ Assigned(mgr)'

SpecReuse == InitReuse /\ [][NextReuse]_<<mgr, returned>>

\* A released id stays reusable: it is free until it is given to an owner or
\* the BSC's list says what it is now (tests 'released id is reused',
\* 'releaseByUuid frees assignment and port').
ReleasedIdReusable == returned \subseteq mgr.freeIds

\* What the code keeps of that: an id is free when it is returned, and as long as
\* nobody is given it and no list names it, only an allocation that finds no port
\* takes it from the free ids.
ReleasedIdKept ==
    [][/\ returned' \ returned \subseteq mgr'.freeIds
       /\ mgr.usedOsmuxPorts # OsmuxPorts =>
             returned \cap returned' \cap mgr.freeIds \subseteq mgr'.freeIds]_<<mgr, returned>>

===============================================================================
