----------------------------- MODULE DiskListing -----------------------------
(***************************************************************************)
(* What the client promises its callers about the disks of a storage: once *)
(* built, with the owner id it resolved or "", a GetIDisks either fails or *)
(* returns, in one step, a set of the storage's disks of that owner that   *)
(* holds every such disk that existed throughout the call and no disk that *)
(* never existed during it.  A lookup by id that succeeds returns an      *)
(* existing disk of that storage and owner.  Other users create and       *)
(* delete volumes at any time.  BingoClient implements this with a page   *)
(* per DescribeVolumes call.                                               *)
(***************************************************************************)
EXTENDS FiniteSets

CONSTANTS Disks, Storages, Me, Other, NoUser, None

VARIABLES
    phase,      \* constructing, failed, ready, or listing
    user,       \* the owner id the client resolved
    owner, store, volumes,  \* the cloud's volumes
    listStor,   \* the storage being listed, or of the last lookup
    result,     \* the outcome of the last listing or lookup
    listed,     \* what the last successful listing or lookup returned
    stable,     \* volumes that existed during the whole listing
    seen        \* volumes that existed at some point of it

avars == <<phase, user, owner, store, volumes, listStor, result, listed, stable, seen>>

Init ==
    /\ phase = "constructing"
    /\ user = NoUser
    /\ owner \in [Disks -> {Me, Other}]
    /\ store \in [Disks -> Storages]
    /\ volumes \in SUBSET Disks
    /\ listStor = CHOOSE s \in Storages : TRUE
    /\ result = "none" /\ listed = {}
    /\ stable = {} /\ seen = {}

Mine(ds) == {d \in ds : owner[d] = user /\ store[d] = listStor}

Fixed == UNCHANGED <<owner, store, volumes, stable, seen>>

\* Construction ends with the account's owner id, or with "" when it could
\* not be read, or fails.
Built(u) ==
    /\ phase = "constructing" /\ phase' = "ready" /\ user' = u
    /\ Fixed /\ UNCHANGED <<listStor, result, listed>>

BuildFails ==
    /\ phase = "constructing" /\ phase' = "failed"
    /\ Fixed /\ UNCHANGED <<user, listStor, result, listed>>

Begin(s) ==
    /\ phase = "ready" /\ phase' = "listing"
    /\ listStor' = s /\ result' = "none"
    /\ stable' = volumes /\ seen' = volumes
    /\ UNCHANGED <<user, owner, store, volumes, listed>>

Return ==
    /\ phase = "listing" /\ phase' = "ready" /\ result' = "ok"
    /\ \E r \in SUBSET Mine(seen) : Mine(stable) \subseteq r /\ listed' = r
    /\ Fixed /\ UNCHANGED <<user, listStor>>

Fail ==
    /\ phase = "listing" /\ phase' = "ready" /\ result' = "err"
    /\ Fixed /\ UNCHANGED <<user, listStor, listed>>

\* A lookup of disk d in storage s may fail whatever the cloud holds.
Lookup(s, d) ==
    /\ phase = "ready"
    /\ \/ /\ d \in volumes /\ owner[d] = user /\ store[d] = s
          /\ result' = "ok" /\ listed' = {d}
       \/ result' = "err" /\ UNCHANGED listed
    /\ listStor' = s
    /\ UNCHANGED <<phase, user, owner, store, volumes, stable, seen>>

Track(ex) ==
    IF phase = "listing" THEN stable' = stable \cap ex /\ seen' = seen \cup ex
                         ELSE UNCHANGED <<stable, seen>>

CloudChange(ex) ==
    /\ volumes' = ex /\ Track(ex)
    /\ UNCHANGED <<phase, user, owner, store, listStor, result, listed>>

Next ==
    \/ \E u \in {Me, NoUser} : Built(u)
    \/ BuildFails
    \/ \E s \in Storages : Begin(s)
    \/ \E s \in Storages, d \in Disks : Lookup(s, d)
    \/ Return \/ Fail
    \/ \E d \in Disks : CloudChange(volumes \cup {d}) \/ CloudChange(volumes \ {d})

\* Construction and every listing end.
Spec == Init /\ [][Next]_avars
             /\ WF_avars(\E u \in {Me, NoUser} : Built(u) \/ BuildFails)
             /\ WF_avars(Return \/ Fail)

=============================================================================
