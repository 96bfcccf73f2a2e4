------------------------------ MODULE SubAccount ------------------------------
(***************************************************************************)
(* Sub-accounts as SBingoCloudClient manages them through its manager     *)
(* client (bingo.go): CreateAccount, GetSubAccounts and DeleteAccountTag.  *)
(* The cloud keeps, per account id, whether the account exists, whether   *)
(* it has access keys, whether it has the allow_all role, and its         *)
(* X-Project-Id tag.  The caller retries a failed operation by calling it *)
(* again.                                                                  *)
(***************************************************************************)
EXTENDS BingoInvoke, FiniteSets

CONSTANTS
    Accounts,   \* sub-account ids
    Projects,   \* default project ids
    Me,         \* the owner id DescribeQuotas returns
    NoUser,     \* "" : getAccountUser after a failed DescribeQuotas
    None

VARIABLES
    acct,       \* the cloud: accounts that exist
    keys,       \* the cloud: accounts that have access keys
    role,       \* the cloud: accounts that have the allow_all role
    tag,        \* the cloud: the X-Project-Id tag of each account, or None
    pc,         \* the client's step in its current operation
    lastOp,     \* the operation the client ran last
    req,        \* CreateAccount's input: [a |-> SubAccountId, p |-> DefaultProject]
    result,     \* how the last operation ended
    subs,       \* GetSubAccounts: the sub-accounts collected, as <<id, project>>
    ownerId,    \* GetSubAccounts: the Id of the main account entry
    todo,       \* GetSubAccounts: the tags not visited yet
    tagSnap,    \* ghost: the tags DescribeTags returned
    skipped,    \* ghost: tagged accounts whose ListAccessKeys failed
    created     \* ghost: accounts whose CreateAccount call this client got applied

vars == <<acct, keys, role, tag, pc, lastOp, req, result, subs, ownerId, todo,
          tagSnap, skipped, created>>
cloud == <<acct, keys, role, tag>>
listing == <<subs, ownerId, todo, tagSnap, skipped>>

TypeOK ==
    /\ acct \subseteq Accounts /\ keys \subseteq acct /\ role \subseteq acct
    /\ tag \in [Accounts -> Projects \cup {None}]
    /\ pc \in {"idle", "ca_list", "ca_create", "ca_role", "ca_tag",
               "gs_tags", "gs_quota", "gs_each"}
    /\ lastOp \in {"none", "create", "list", "untag"}
    /\ req \in [a : Accounts, p : Projects] \cup {None}
    /\ result \in {"none", "ok", "err", "panic"}
    /\ subs \subseteq Accounts \X Projects
    /\ ownerId \in {Me, NoUser, None}
    /\ todo \subseteq Accounts \X Projects /\ tagSnap \subseteq Accounts \X Projects
    /\ skipped \subseteq Accounts
    /\ created \subseteq Accounts

\* Whatever accounts other administrators left behind, tagged or not.
Init ==
    /\ acct \in SUBSET Accounts
    /\ keys \in SUBSET acct
    /\ role \in SUBSET acct
    /\ tag \in [Accounts -> Projects \cup {None}]
    /\ pc = "idle" /\ lastOp = "none" /\ req = None /\ result = "none"
    /\ subs = {} /\ ownerId = None /\ todo = {} /\ tagSnap = {} /\ skipped = {}
    /\ created = {}

Return(r) == result' = r /\ pc' = "idle"

\* Mutant: DescribeTags without the key filter returns untagged users too.
TaggedNoFilter == {<<a, tag[a]>> : a \in Accounts}

\* DescribeTags filtered on the X-Project-Id key of users.
Tagged == {<<a, tag[a]>> : a \in {b \in Accounts : tag[b] # None}}

(* listAccessKeys(userName): ListAccessKeys, then accounts[0].  For an     *)
(* account without access keys the list is empty (accounts[0] panics) or  *)
(* absent from the reply (Unmarshal fails); which one the cloud sends is  *)
(* not known, so both are possible.  The caller crashes on a panic and is *)
(* restarted idle.                                                         *)
ListAccessKeys(a) ==
    {o \in Outcomes(<<"List", "AccessKeys">>, a \in acct) : o # "noreply"}
        \cup (IF a \in acct /\ a \notin keys THEN {"panic"} ELSE {})

KeysFound(a, o) == o = "ok" /\ a \in keys

-----------------------------------------------------------------------------
(* CreateAccount(input): listAccessKeys(SubAccountId), its error dropped;  *)
(* when no account came back: CreateAccount, then AddRoleToAccount         *)
(* allow_all, each returning on error; then CreateTags X-Project-Id.        *)
CreateAccount(a, p) ==
    /\ pc = "idle"
    /\ pc' = "ca_list" /\ lastOp' = "create" /\ result' = "none"
    /\ req' = [a |-> a, p |-> p]
    /\ UNCHANGED <<cloud, listing, created>>

CaList ==
    /\ pc = "ca_list"
    /\ \E o \in ListAccessKeys(req.a) :
          IF o = "panic" THEN Return("panic")
          ELSE pc' = (IF KeysFound(req.a, o) THEN "ca_tag" ELSE "ca_create")
               /\ UNCHANGED result
    /\ UNCHANGED <<cloud, lastOp, req, listing, created>>

CaCreate ==
    /\ pc = "ca_create"
    /\ \E o \in Outcomes(<<"Create", "Account">>, req.a \notin acct) :
          /\ IF Applied(o)
             THEN /\ acct' = acct \cup {req.a}
                  /\ \E k \in BOOLEAN :
                        keys' = IF k THEN keys \cup {req.a} ELSE keys
                  /\ created' = created \cup {req.a}
             ELSE UNCHANGED <<acct, keys, created>>
          /\ IF o = "ok" THEN pc' = "ca_role" /\ UNCHANGED result
                         ELSE Return("err")
    /\ UNCHANGED <<role, tag, lastOp, req, listing>>

CaRole ==
    /\ pc = "ca_role"
    /\ \E o \in Outcomes(<<"Add", "RoleToAccount">>, req.a \in acct) :
          /\ role' = IF Applied(o) THEN role \cup {req.a} ELSE role
          /\ IF o = "ok" THEN pc' = "ca_tag" /\ UNCHANGED result
                         ELSE Return("err")
    /\ UNCHANGED <<acct, keys, tag, lastOp, req, listing, created>>

CaTag ==
    /\ pc = "ca_tag"
    /\ \E o \in Outcomes(<<"Create", "Tags">>, req.a \in acct) :
          /\ tag' = IF Applied(o) THEN [tag EXCEPT ![req.a] = req.p] ELSE tag
          /\ Return(IF o = "ok" THEN "ok" ELSE "err")
    /\ UNCHANGED <<acct, keys, role, lastOp, req, listing, created>>

(* GetSubAccounts: DescribeTags of the users' X-Project-Id tags (an error  *)
(* returns), the main account entry with Id getAccountUser() (DescribeQuotas, *)
(* "" on error), then listAccessKeys per tag; a failing one is skipped.    *)
GetSubAccounts ==
    /\ pc = "idle"
    /\ pc' = "gs_tags" /\ lastOp' = "list" /\ result' = "none"
    /\ UNCHANGED <<cloud, req, listing, created>>

GsTags ==
    /\ pc = "gs_tags"
    /\ \E o \in Outcomes(<<"Describe", "Tags">>, TRUE) :
          IF o = "ok"
          THEN /\ todo' = Tagged /\ tagSnap' = Tagged
               /\ subs' = {} /\ skipped' = {}
               /\ pc' = "gs_quota" /\ UNCHANGED result
          ELSE Return("err") /\ UNCHANGED <<todo, tagSnap, subs, skipped>>
    /\ UNCHANGED <<cloud, lastOp, req, ownerId, created>>

GsQuota ==
    /\ pc = "gs_quota"
    /\ \E o \in Outcomes(<<"Describe", "Quotas">>, TRUE) :
          ownerId' = IF o = "ok" THEN Me ELSE NoUser
    /\ IF todo = {} THEN Return("ok") ELSE pc' = "gs_each" /\ UNCHANGED result
    /\ UNCHANGED <<cloud, lastOp, req, subs, todo, tagSnap, skipped, created>>

\* Mutant: the loop stops at the first failing listAccessKeys (break).
GsEachBreak ==
    /\ pc = "gs_each"
    /\ \E t \in todo : \E o \in ListAccessKeys(t[1]) :
          /\ todo' = todo \ {t}
          /\ IF o = "panic" THEN Return("panic") /\ UNCHANGED <<subs, skipped>>
             ELSE IF KeysFound(t[1], o)
             THEN /\ subs' = subs \cup {t} /\ UNCHANGED skipped
                  /\ IF todo = {t} THEN Return("ok") ELSE UNCHANGED <<pc, result>>
             ELSE /\ skipped' = skipped \cup {t[1]} /\ UNCHANGED subs
                  /\ Return("ok")
    /\ UNCHANGED <<cloud, lastOp, req, ownerId, tagSnap, created>>

GsEach ==
    /\ pc = "gs_each"
    /\ \E t \in todo : \E o \in ListAccessKeys(t[1]) :
          /\ todo' = todo \ {t}
          /\ IF o = "panic" THEN Return("panic") /\ UNCHANGED <<subs, skipped>>
             ELSE /\ IF KeysFound(t[1], o)
                     THEN subs' = subs \cup {t} /\ UNCHANGED skipped
                     ELSE skipped' = skipped \cup {t[1]} /\ UNCHANGED subs
                  /\ IF todo = {t} THEN Return("ok") ELSE UNCHANGED <<pc, result>>
    /\ UNCHANGED <<cloud, lastOp, req, ownerId, tagSnap, created>>

\* DeleteAccountTag(accountId, tagKey): DeleteTags.
DeleteAccountTag(a) ==
    /\ pc = "idle"
    /\ lastOp' = "untag"
    /\ \E o \in Outcomes(<<"Delete", "Tags">>, TRUE) :
          /\ tag' = IF Applied(o) THEN [tag EXCEPT ![a] = None] ELSE tag
          /\ result' = IF o = "ok" THEN "ok" ELSE "err"
    /\ UNCHANGED <<acct, keys, role, pc, req, listing, created>>

Next ==
    \/ \E a \in Accounts, p \in Projects : CreateAccount(a, p)
    \/ CaList \/ CaCreate \/ CaRole \/ CaTag
    \/ GetSubAccounts \/ GsTags \/ GsQuota \/ GsEach
    \/ \E a \in Accounts : DeleteAccountTag(a)

Spec == Init /\ [][Next]_vars

-----------------------------------------------------------------------------
(* Properties                                                              *)

\* A successful GetSubAccounts returns exactly the tagged accounts whose
\* listAccessKeys succeeded, each with the project of its tag: a failing
\* lookup drops that account only (the continue in the loop).
SubAccountsAsListed ==
    (pc = "idle" /\ lastOp = "list" /\ result = "ok")
        => subs = {t \in tagSnap : t[1] \notin skipped}

\* An account that CreateAccount created holds the allow_all role once a
\* CreateAccount for it has succeeded: the retry after a failed
\* AddRoleToAccount must not skip the role.
CreatedAccountHasRole ==
    (pc = "idle" /\ lastOp = "create" /\ result = "ok" /\ req.a \in created)
        => req.a \in role

=============================================================================
