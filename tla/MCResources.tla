------------------------------ MODULE MCResources ------------------------------
(* Resources, DiskReset and SubAccount checked side by side: a behaviour *)
(* exercises the resources of Resources, one SDisk.Reset, or the          *)
(* sub-accounts of SubAccount (part).  Two                                 *)
(* backups of one instance and one of another, so that a backup's Refresh *)
(* can find another backup in its place; a volume attached to up to three *)
(* instances, any of which may be terminated during the Reset; two       *)
(* accounts and two projects, in any state other administrators left.     *)
EXTENDS TLC

CONSTANTS b1, b2, b3, i1, i2, i3, Snaps, Certs, Rules, Me, Other, NoUser,
          None, ReadOnly, Faults, Old, New, Accounts, Projects

VARIABLES user, snaps, snapOwner, backups, restored, certs, rules, pc, lastOp,
          result, snapObj, bkObj, certObj, ruleObj, newId, newRule, kind,
          exists, status, attached, live, dpc, atts, k, inst, dresult,
          startAtt, acct, keys, role, tag, apc, alastOp, req, aresult, subs,
          ownerId, todo, tagSnap, skipped, created, part

MCBackups == {b1, b2, b3}
MCBackupInstance == [b \in MCBackups |-> IF b = b3 THEN i2 ELSE i1]

R == INSTANCE Resources WITH Backups <- MCBackups, BackupInstance <- MCBackupInstance

\* Reset's calls succeed whenever the cloud accepts them: a failed call only
\* makes Reset return an error, which both of its properties allow, and an
\* always-possible failure would make termination hold for that reason
\* alone.  Calls the cloud refuses (an instance gone, the old volume still
\* attached) fail.
D == INSTANCE DiskReset WITH Instances <- {i1, i2, i3}, pc <- dpc,
                             result <- dresult, Faults <- {}

\* The same Reset under every invoke fault, for what a failed Reset leaves.
DF == INSTANCE DiskReset WITH Instances <- {i1, i2, i3}, pc <- dpc,
                              result <- dresult, Faults <- {"apierr", "lost", "noreply"}

A == INSTANCE SubAccount WITH pc <- apc, lastOp <- alastOp, result <- aresult

rvars == <<user, snaps, snapOwner, backups, restored, certs, rules, pc, lastOp,
           result, snapObj, bkObj, certObj, ruleObj, newId, newRule, kind>>
dvars == <<exists, status, attached, live, dpc, atts, k, inst, dresult, startAtt>>
avars == <<acct, keys, role, tag, apc, alastOp, req, aresult, subs, ownerId,
           todo, tagSnap, skipped, created>>
allvars == <<rvars, dvars, avars, part>>

\* The parts not exercised stay in one initial state.
RIdle == R!Init /\ kind = "rule" /\ user = Me /\ rules = {} /\ ruleObj = None
DIdle == D!Init /\ startAtt = {}
AIdle == A!Init /\ acct = {} /\ tag = [x \in Accounts |-> None]

Init ==
    \/ part = "resources" /\ R!Init /\ DIdle /\ AIdle
    \/ part = "reset" /\ D!Init /\ RIdle /\ AIdle
    \/ part = "resetfaults" /\ D!Init /\ RIdle /\ AIdle
    \/ part = "accounts" /\ A!Init /\ RIdle /\ DIdle

Next ==
    \/ part = "resources" /\ R!Next /\ UNCHANGED <<dvars, avars, part>>
    \/ part = "reset" /\ D!Next /\ UNCHANGED <<rvars, avars, part>>
    \/ part = "resetfaults" /\ DF!Next /\ UNCHANGED <<rvars, avars, part>>
    \/ part = "accounts" /\ A!Next /\ UNCHANGED <<rvars, dvars, part>>

\* Every step of Reset is a synchronous call bounded by the HTTP timeout,
\* and WaitStatus by its own; the cloud's changes owe nothing.
Spec == Init /\ [][Next]_allvars
             /\ WF_allvars(part = "reset" /\ D!Reset /\ UNCHANGED <<rvars, avars, part>>)

\* Resources: an instance backup's Refresh keeps its identity.
BackupRefreshKeepsId == R!BackupRefreshKeepsId

\* DiskReset: a successful Reset moves every live attachment to the new volume.
ResetMovesAttachments == D!ResetMovesAttachments

\* DiskReset: under every fault, at most one running instance that had the
\* old volume is left with neither volume, during Reset and after it fails.
ResetLeavesAtMostOneBare == DF!ResetLeavesAtMostOneBare

\* DiskReset: every Reset returns.
ResetTerminates == part = "reset" => D!ResetTerminates

\* SubAccount: the state is well typed.
TypeOK == A!TypeOK

\* SubAccount: GetSubAccounts returns exactly the tagged accounts whose
\* access keys it could read.
SubAccountsAsListed == A!SubAccountsAsListed

\* SubAccount: once a CreateAccount succeeds for an account this client
\* created, the account has the allow_all role.
CreatedAccountHasRole == A!CreatedAccountHasRole
=============================================================================
