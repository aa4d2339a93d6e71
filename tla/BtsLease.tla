------------------------------- MODULE BtsLease -------------------------------
(***************************************************************************)
(* What the BTS manager promises to its callers, with no word about how it *)
(* keeps its books: a caller (an owner key) holds at most one lease, a     *)
(* lease is one BTS id and one Osmux port, nobody else holds that id or    *)
(* that port, and what a lease names never changes while it is held.       *)
(***************************************************************************)
CONSTANTS Keys,     \* owner keys
          BtsIds,   \* ids the BSC can carry
          Ports     \* ports of the Osmux range

VARIABLE lease      \* owner key -> [id, port], defined for the current holders

Lease == [id : BtsIds, port : Ports]

Init == lease = [k \in {} |-> k]

\* The holders in gone lose their leases, by release or by cleanup.
Drop(gone) ==
    /\ gone \subseteq DOMAIN lease
    /\ lease' = [k \in DOMAIN lease \ gone |-> lease[k]]

\* k is given an id and a port nobody holds any more once the holders in gone
\* have lost theirs, which one turn of the code may do first.
Grant(gone, k) ==
    /\ gone \subseteq DOMAIN lease
    /\ k \notin DOMAIN lease \ gone
    /\ \E l \in Lease :
          /\ \A j \in DOMAIN lease \ gone : lease[j].id # l.id /\ lease[j].port # l.port
          /\ lease' = [j \in (DOMAIN lease \ gone) \cup {k} |->
                          IF j = k THEN l ELSE lease[j]]

Next ==
    \E gone \in SUBSET Keys :
        \/ Drop(gone)
        \/ \E k \in Keys : Grant(gone, k)

Spec == Init /\ [][Next]_lease

===============================================================================
