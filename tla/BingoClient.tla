----------------------------- MODULE BingoClient -----------------------------
(***************************************************************************)
(* The BingoCloud client (bingo.go) and its paginated disk listing         *)
(* (disk.go).  NewBingoCloudClient probes the endpoint, loads the regions  *)
(* and resolves the account's owner id from DescribeQuotas, falling back   *)
(* to "" when that call fails.  SStorage.GetIDisks then pages through      *)
(* DescribeVolumes with NextToken and keeps the disks of its storage whose *)
(* owner is that id; SStorage.GetIDiskById looks one volume up by id.     *)
(* Other users of the cloud create and delete volumes while a listing is  *)
(* under way.                                                              *)
(***************************************************************************)
EXTENDS BingoInvoke, Naturals, Sequences, FiniteSets

CONSTANTS
    Disks,      \* volume ids
    DiskOrder,  \* the order in which DescribeVolumes returns volumes
    Storages,   \* storage ids
    Me,         \* the owner id DescribeQuotas reports for this account
    Other,      \* the owner id of another account
    NoUser,     \* the empty string getAccountUser falls back to
    PageSize,   \* MAX_RESULT
    None        \* no NextToken / no call yet

ASSUME DiskOrder \in Seq(Disks) /\ Len(DiskOrder) = Cardinality(Disks)
ASSUME PageSize \in Nat \ {0}

VARIABLES
    pc,         \* where the client is: constructing, idle, or in GetIDisks
    user,       \* SBingoCloudClient.user
    owner,      \* the owner of each volume in the cloud
    store,      \* the storage of each volume in the cloud
    volumes,     \* the volumes that exist in the cloud now
    listStor,   \* the storage of the running or last GetIDisks or GetIDiskById
    token,      \* the NextToken of the next DescribeVolumes call
    acc,        \* the volumes collected from the pages so far
    result,     \* the outcome of the last GetIDisks or GetIDiskById
    listed,     \* what the last successful GetIDisks or GetIDiskById returned
    stable,     \* ghost: volumes that existed during the whole listing
    seen,       \* ghost: volumes that existed at some point of it
    refused     \* ghost: the actions invoke refused as read-only

vars == <<pc, user, owner, store, volumes, listStor, token, acc, result,
          listed, stable, seen, refused>>
cloud == <<owner, store, volumes>>
ghosts == <<stable, seen>>

Owners == {Me, Other}

-----------------------------------------------------------------------------
(* The cloud's side of DescribeVolumes: volumes come in DiskOrder, a page  *)
(* holds at most PageSize of them after the position NextToken names, and  *)
(* NextToken is the last volume of a page that has volumes after it.       *)

Pos(d) == CHOOSE i \in 1..Len(DiskOrder) : DiskOrder[i] = d

After(t) ==
    {i \in (IF t = None THEN 1 ELSE Pos(t) + 1)..Len(DiskOrder) :
        DiskOrder[i] \in volumes}

PageIdx(t) ==
    {i \in After(t) : Cardinality({j \in After(t) : j <= i}) <= PageSize}

PageOf(t) == {DiskOrder[i] : i \in PageIdx(t)}

NextTokenOf(t) ==
    IF \E i \in After(t) : \A j \in PageIdx(t) : i > j
    THEN DiskOrder[CHOOSE i \in PageIdx(t) : \A j \in PageIdx(t) : j <= i]
    ELSE None

-----------------------------------------------------------------------------
TypeOK ==
    /\ pc \in {"accessible", "regions", "quotas", "ready", "failed", "listing"}
    /\ user \in Owners \cup {NoUser}
    /\ owner \in [Disks -> Owners]
    /\ store \in [Disks -> Storages]
    /\ volumes \in SUBSET Disks
    /\ listStor \in Storages
    /\ token \in Disks \cup {None}
    /\ acc \subseteq Disks
    /\ result \in {"none", "ok", "err"}
    /\ listed \subseteq Disks
    /\ stable \subseteq Disks /\ seen \subseteq Disks
    /\ refused \subseteq STRING \X STRING

Init ==
    /\ pc = "accessible"
    /\ user = NoUser
    /\ owner \in [Disks -> Owners]
    /\ store \in [Disks -> Storages]
    /\ volumes \in SUBSET Disks
    /\ listStor = CHOOSE s \in Storages : TRUE
    /\ token = None
    /\ acc = {}
    /\ result = "none"
    /\ listed = {}
    /\ stable = {} /\ seen = {}
    /\ refused = {}

Call(action, o) ==
    refused' = IF o = "readonly" THEN refused \cup {action} ELSE refused

\* isAccessible: an HTTP GET of the endpoint with a 5 second timeout.
IsAccessible ==
    /\ pc = "accessible"
    /\ \/ pc' = "regions"
       \/ "lost" \in Faults /\ pc' = "failed"
    /\ UNCHANGED <<user, cloud, listStor, token, acc, result, listed, ghosts,
                   refused>>

\* client.GetRegions(): DescribeRegions; an error fails the construction.
GetRegions ==
    /\ pc = "regions"
    /\ \E o \in Outcomes(<<"Describe", "Regions">>, TRUE) :
          /\ Call(<<"Describe", "Regions">>, o)
          /\ pc' = IF o = "ok" THEN "quotas" ELSE "failed"
    /\ UNCHANGED <<user, cloud, listStor, token, acc, result, listed, ghosts>>

\* getAccountUser via getQuotas: DescribeQuotas; the owner id is the first
\* quota's OwnerId, and "" on error or for an empty quotaSet.
GetAccountUser ==
    /\ pc = "quotas"
    /\ \E o \in Outcomes(<<"Describe", "Quotas">>, TRUE), quotas \in {<<Me>>, <<>>} :
          /\ Call(<<"Describe", "Quotas">>, o)
          /\ user' = IF o = "ok" /\ quotas # <<>> THEN Head(quotas) ELSE NoUser
    /\ pc' = "ready"
    /\ UNCHANGED <<cloud, listStor, token, acc, result, listed, ghosts>>

\* A caller enters SStorage.GetIDisks for storage s.
GetIDisks(s) ==
    /\ pc = "ready"
    /\ pc' = "listing"
    /\ listStor' = s
    /\ token' = None
    /\ acc' = {}
    /\ result' = "none"
    /\ stable' = volumes /\ seen' = volumes
    /\ UNCHANGED <<user, cloud, listed, refused>>

\* The disks of the listed storage that GetIDisks keeps from the pages.
OwnFilter(ds) == {d \in ds : store[d] = listStor /\ owner[d] = user}

Finish(ds) ==
    /\ pc' = "ready" /\ result' = "ok" /\ listed' = OwnFilter(ds)

\* Mutant: GetIDisks returns after the first page.
GetDisksPageFirstOnly ==
    /\ pc = "listing"
    /\ \E o \in Outcomes(<<"Describe", "Volumes">>, TRUE) :
          /\ Call(<<"Describe", "Volumes">>, o)
          /\ IF o # "ok"
             THEN pc' = "ready" /\ result' = "err" /\ UNCHANGED <<acc, listed>>
             ELSE acc' = acc \cup PageOf(token) /\ Finish(acc \cup PageOf(token))
    /\ UNCHANGED <<user, cloud, listStor, token, ghosts>>

\* Mutant: the loop sends the first request again instead of NextToken.
GetDisksPageNoToken ==
    /\ pc = "listing"
    /\ \E o \in Outcomes(<<"Describe", "Volumes">>, TRUE) :
          /\ Call(<<"Describe", "Volumes">>, o)
          /\ IF o # "ok"
             THEN pc' = "ready" /\ result' = "err" /\ UNCHANGED <<acc, listed>>
             ELSE /\ acc' = acc \cup PageOf(None)
                  /\ IF NextTokenOf(None) = None
                     THEN Finish(acc \cup PageOf(None))
                     ELSE UNCHANGED <<pc, result, listed>>
    /\ UNCHANGED <<user, cloud, listStor, token, ghosts>>

\* One DescribeVolumes call of the loop in GetIDisks (region.GetDisks with
\* MAX_RESULT and the current NextToken): an error ends GetIDisks with that
\* error; a page is appended; an empty NextToken ends the loop and the
\* storage and owner filter is applied to everything collected.
GetDisksPage ==
    /\ pc = "listing"
    /\ \E o \in Outcomes(<<"Describe", "Volumes">>, TRUE) :
          /\ Call(<<"Describe", "Volumes">>, o)
          /\ IF o # "ok"
             THEN /\ pc' = "ready" /\ result' = "err"
                  /\ UNCHANGED <<token, acc, listed>>
             ELSE /\ acc' = acc \cup PageOf(token)
                  /\ token' = NextTokenOf(token)
                  /\ IF NextTokenOf(token) = None
                     THEN Finish(acc \cup PageOf(token))
                     ELSE UNCHANGED <<pc, result, listed>>
    /\ UNCHANGED <<user, cloud, listStor, ghosts>>

\* Mutant: GetIDiskById returns the volume without comparing its storage.
GetIDiskByIdAnyStorage(s, d) ==
    /\ pc = "ready"
    /\ \E o \in Outcomes(<<"Describe", "Volumes">>, TRUE) :
          /\ Call(<<"Describe", "Volumes">>, o)
          /\ IF o = "ok" /\ d \in volumes /\ owner[d] = user
             THEN result' = "ok" /\ listed' = {d}
             ELSE result' = "err" /\ UNCHANGED listed
    /\ listStor' = s
    /\ UNCHANGED <<pc, user, cloud, token, acc, ghosts>>

\* SStorage.GetIDiskById(id) of storage s: region.GetDisk(id) is one
\* DescribeVolumes filtered on the volume id, which keeps the volume only
\* if the client's user owns it (else ErrNotFound); a volume of another
\* storage is ErrNotFound as well.
GetIDiskById(s, d) ==
    /\ pc = "ready"
    /\ \E o \in Outcomes(<<"Describe", "Volumes">>, TRUE) :
          /\ Call(<<"Describe", "Volumes">>, o)
          /\ IF o = "ok" /\ d \in volumes /\ owner[d] = user /\ store[d] = s
             THEN result' = "ok" /\ listed' = {d}
             ELSE result' = "err" /\ UNCHANGED listed
    /\ listStor' = s
    /\ UNCHANGED <<pc, user, cloud, token, acc, ghosts>>

-----------------------------------------------------------------------------
(* Other users of the cloud create and delete volumes at any time.         *)

Track(ex) ==
    IF pc = "listing"
    THEN stable' = stable \cap ex /\ seen' = seen \cup ex
    ELSE UNCHANGED ghosts

CloudCreate(d) ==
    /\ d \notin volumes
    /\ volumes' = volumes \cup {d}
    /\ Track(volumes \cup {d})
    /\ UNCHANGED <<pc, user, owner, store, listStor, token, acc, result,
                   listed, refused>>

CloudDelete(d) ==
    /\ d \in volumes
    /\ volumes' = volumes \ {d}
    /\ Track(volumes \ {d})
    /\ UNCHANGED <<pc, user, owner, store, listStor, token, acc, result,
                   listed, refused>>

Client ==
    \/ IsAccessible \/ GetRegions \/ GetAccountUser
    \/ \E s \in Storages : GetIDisks(s)
    \/ GetDisksPage
    \/ \E s \in Storages, d \in Disks : GetIDiskById(s, d)

Next ==
    \/ Client
    \/ \E d \in Disks : CloudCreate(d) \/ CloudDelete(d)

\* Every client step is a synchronous HTTP call bounded by a timeout, so a
\* started call returns; the other users of the cloud owe nothing.
Spec == Init /\ [][Next]_vars /\ WF_vars(IsAccessible \/ GetRegions
                                         \/ GetAccountUser \/ GetDisksPage)

-----------------------------------------------------------------------------
(* Properties                                                              *)

\* The construction steps isAccessible, GetRegions and getAccountUser are
\* one phase of the abstract client; the NextToken cursor and the pages
\* collected so far are hidden: a listing is one step there.
Phase == IF pc \in {"accessible", "regions", "quotas"} THEN "constructing"
                                                     ELSE pc

Listing == INSTANCE DiskListing WITH phase <- Phase

\* GetIDisks implements DiskListing: every listing that starts returns, and
\* a successful one returns every volume of the storage owned by the
\* client's user that existed throughout the listing and nothing that is
\* not such a volume existing at some point of it (the NextToken loop and
\* the owner filter of SStorage.GetIDisks together); the owner id the
\* constructor resolved never changes afterwards.
ImplementsDiskListing == Listing!Spec

\* The spec (section 4.2, 9): on a read-only account invoke lets the actions
\* starting with Get, List or Describe through and refuses only the others.
ReadOnlyAsSpecified ==
    \A a \in refused : ReadOnly /\ ~HasReadPrefix(a)

=============================================================================
