------------------------------ MODULE Resources ------------------------------
(***************************************************************************)
(* The resource adapters whose operations are short call sequences on one *)
(* object the caller holds: snapshots (snapshot.go, disk.go               *)
(* CreateISnapshot), instance backups (instance_backup.go), load balancer *)
(* certificates (loadbalancer_cert.go) and a security group rule          *)
(* (secgrouprule.go).  An object is identified by its id; its other       *)
(* fields are left out.  Other users delete backups at any time.          *)
(***************************************************************************)
EXTENDS BingoInvoke, FiniteSets

CONSTANTS
    Snaps,          \* snapshot ids
    Backups,        \* instance backup ids
    BackupInstance, \* the instance each backup is of
    Certs,          \* server certificate ids (the name stands for the id)
    Rules,          \* security group rules, by content
    Me, Other,      \* owner ids
    NoUser,         \* "" : getAccountUser after a failed DescribeQuotas
    None

Instances == {BackupInstance[b] : b \in Backups}

(* The four kinds of resource share no state but the owner id, so a       *)
(* behaviour exercises one kind; interleaving steps of different kinds     *)
(* would add only orders of independent steps.                             *)
Kinds == {"snap", "backup", "cert", "rule"}

VARIABLES
    user,       \* the client's owner id, fixed at construction
    snaps,      \* the cloud: snapshots that exist
    snapOwner,  \* the cloud: the owner of each snapshot
    backups,    \* the cloud: instance backups that exist
    restored,   \* the cloud: the backup each instance was last restored from
    certs,      \* the cloud: this account's server certificates
    rules,      \* the cloud: the rules of the security group
    pc,         \* the client's step in its current operation
    lastOp,     \* the operation the client ran last
    result,     \* how it ended
    snapObj,    \* the snapshot object the caller holds
    bkObj,      \* the instance backup object the caller holds
    certObj,    \* the certificate object the caller holds
    ruleObj,    \* the security group rule object the caller holds
    newId,      \* CreateISnapshot / CreateILoadBalancerCertificate: the returned id
    newRule,    \* Update: the rule of the update options
    kind        \* the kind of resource a behaviour exercises

vars == <<user, snaps, snapOwner, backups, restored, certs, rules, pc, lastOp,
          result, snapObj, bkObj, certObj, ruleObj, newId, newRule, kind>>
cloud == <<snaps, snapOwner, backups, restored, certs, rules>>
objs == <<snapObj, bkObj, certObj, ruleObj>>

TypeOK ==
    /\ user \in {Me, NoUser}
    /\ snaps \subseteq Snaps /\ snapOwner \in [Snaps -> {Me, Other}]
    /\ backups \subseteq Backups
    /\ restored \in [Instances -> Backups \cup {None}]
    /\ certs \subseteq Certs /\ rules \subseteq Rules
    /\ pc \in {"idle", "snap_get", "cert_get", "rule_create"}
    /\ lastOp \in {"none", "snapcreate", "snaprefresh", "snapdelete", "bkcreate",
                   "bkrefresh", "bkrestore", "bkdelete", "certcreate",
                   "certrefresh", "certdelete", "ruleupdate", "ruledelete"}
    /\ result \in {"none", "ok", "err"}
    /\ snapObj \in Snaps \cup {None} /\ bkObj \in Backups \cup {None}
    /\ certObj \in Certs \cup {None} /\ ruleObj \in Rules \cup {None}
    /\ newId \in Snaps \cup Certs \cup {None}
    /\ newRule \in Rules \cup {None}
    /\ kind \in Kinds

(* The caller holds objects it listed earlier, of resources that existed; *)
(* the resources of the other kinds are left empty.                        *)
Init ==
    /\ kind \in Kinds
    /\ user \in {Me, NoUser}
    /\ snaps \in IF kind = "snap" THEN SUBSET Snaps ELSE {{}}
    /\ snapOwner \in IF kind = "snap" THEN [Snaps -> {Me, Other}]
                                      ELSE {[s \in Snaps |-> Other]}
    /\ backups \in IF kind = "backup" THEN SUBSET Backups ELSE {{}}
    /\ restored = [i \in Instances |-> None]
    /\ certs \in IF kind = "cert" THEN SUBSET Certs ELSE {{}}
    /\ rules \in IF kind = "rule" THEN SUBSET Rules ELSE {{}}
    /\ pc = "idle" /\ lastOp = "none" /\ result = "none"
    /\ snapObj \in {s \in snaps : snapOwner[s] = Me} \cup {None}
    /\ bkObj \in backups \cup {None}
    /\ certObj \in certs \cup {None}
    /\ ruleObj \in rules \cup {None}
    /\ newId = None /\ newRule = None

Return(r) == result' = r /\ pc' = "idle"

\* An operation of one call: it starts and ends in the same step.
Single(op) == pc = "idle" /\ lastOp' = op /\ UNCHANGED newId

-----------------------------------------------------------------------------
(* Snapshots                                                               *)

\* getSnapshots(id, ""): DescribeSnapshots of the id, filtered on the
\* client's owner id (the name filter is never set by these callers).
GetSnapshots(id) == {s \in snaps : s = id /\ snapOwner[s] = user}

(* SDisk.CreateISnapshot: createSnapshot (CreateSnapshot) returns the new   *)
(* id, an error returns; then GetISnapshotById of it.                      *)
CreateISnapshot ==
    /\ pc = "idle"
    /\ lastOp' = "snapcreate"
    /\ \E s \in Snaps \ snaps, o \in Outcomes(<<"Create", "Snapshot">>, TRUE) :
          /\ IF Applied(o) THEN snaps' = snaps \cup {s} /\ snapOwner' = [snapOwner EXCEPT ![s] = Me]
                           ELSE UNCHANGED <<snaps, snapOwner>>
          /\ IF o = "ok" THEN pc' = "snap_get" /\ newId' = s /\ result' = "none"
                         ELSE Return("err") /\ UNCHANGED newId
    /\ UNCHANGED <<user, backups, restored, certs, rules, objs, newRule>>

\* GetISnapshotById: getSnapshots(id, ""); exactly one is the snapshot.
GetISnapshotById ==
    /\ pc = "snap_get"
    /\ \E o \in Outcomes(<<"Describe", "Snapshots">>, TRUE) :
          IF o = "ok" /\ Cardinality(GetSnapshots(newId)) = 1
          THEN \E s \in GetSnapshots(newId) : snapObj' = s /\ Return("ok")
          ELSE Return("err") /\ UNCHANGED snapObj
    /\ newId' = None
    /\ UNCHANGED <<user, cloud, lastOp, bkObj, certObj, ruleObj, newRule>>

\* SSnapshot.Refresh: getSnapshots(self.SnapshotId, ""); with exactly one
\* snapshot back the object is overlaid with it, else ErrNotFound.
SnapshotRefresh ==
    /\ Single("snaprefresh") /\ snapObj # None
    /\ \E o \in Outcomes(<<"Describe", "Snapshots">>, TRUE) :
          IF o = "ok" /\ Cardinality(GetSnapshots(snapObj)) = 1
          THEN \E s \in GetSnapshots(snapObj) : snapObj' = s /\ result' = "ok"
          ELSE result' = "err" /\ UNCHANGED snapObj
    /\ UNCHANGED <<user, cloud, pc, bkObj, certObj, ruleObj, newRule>>

\* SSnapshot.Delete: deleteSnapshot (DeleteSnapshot).
SnapshotDelete ==
    /\ Single("snapdelete") /\ snapObj # None
    /\ \E o \in Outcomes(<<"Delete", "Snapshot">>, snapObj \in snaps) :
          /\ snaps' = IF Applied(o) THEN snaps \ {snapObj} ELSE snaps
          /\ result' = IF o = "ok" THEN "ok" ELSE "err"
    /\ UNCHANGED <<user, snapOwner, backups, restored, certs, rules, pc, objs,
                   newRule>>

-----------------------------------------------------------------------------
(* Instance backups                                                        *)

(* getInstanceBackups(instanceId, backupId): DescribeInstanceBackups of    *)
(* the instance; the backup with the id if it is there, else every backup  *)
(* of the instance.                                                        *)
GetInstanceBackups(inst, id) ==
    LET ret == {b \in backups : BackupInstance[b] = inst}
    IN  IF id \in ret THEN {id} ELSE ret

\* createInstanceBackup: BackupInstance of an instance; the new id is returned.
CreateInstanceBackup ==
    /\ Single("bkcreate")
    /\ \E b \in Backups \ backups, o \in Outcomes(<<"Backup", "Instance">>, TRUE) :
          /\ backups' = IF Applied(o) THEN backups \cup {b} ELSE backups
          /\ result' = IF o = "ok" THEN "ok" ELSE "err"
    /\ UNCHANGED <<user, snaps, snapOwner, restored, certs, rules, pc, objs,
                   newRule>>

(* SInstanceBackup.Refresh: getInstanceBackups(self.InstanceId,            *)
(* self.BackupId); with exactly one backup back the object is overlaid     *)
(* with it (jsonutils.Update), else ErrNotFound.                           *)
BackupRefresh ==
    /\ Single("bkrefresh") /\ bkObj # None
    /\ \E o \in Outcomes(<<"Describe", "InstanceBackups">>, TRUE) :
          LET ret == GetInstanceBackups(BackupInstance[bkObj], bkObj) IN
          IF o = "ok" /\ Cardinality(ret) = 1
          THEN \E b \in ret : bkObj' = b /\ result' = "ok"
          ELSE result' = "err" /\ UNCHANGED bkObj
    /\ UNCHANGED <<user, cloud, pc, snapObj, certObj, ruleObj, newRule>>

\* restoreInstanceBackup(self.BackupId): RestoreFromInstanceBackup.
BackupRestore ==
    /\ Single("bkrestore") /\ bkObj # None
    /\ \E o \in Outcomes(<<"Restore", "FromInstanceBackup">>, bkObj \in backups) :
          /\ restored' = IF Applied(o) THEN [restored EXCEPT ![BackupInstance[bkObj]] = bkObj]
                                       ELSE restored
          /\ result' = IF o = "ok" THEN "ok" ELSE "err"
    /\ UNCHANGED <<user, snaps, snapOwner, backups, certs, rules, pc, objs, newRule>>

\* SInstanceBackup.Delete: deleteInstanceBackup (DeleteInstanceBackup).
BackupDelete ==
    /\ Single("bkdelete") /\ bkObj # None
    /\ \E o \in Outcomes(<<"Delete", "InstanceBackup">>, bkObj \in backups) :
          /\ backups' = IF Applied(o) THEN backups \ {bkObj} ELSE backups
          /\ result' = IF o = "ok" THEN "ok" ELSE "err"
    /\ UNCHANGED <<user, snaps, snapOwner, restored, certs, rules, pc, objs,
                   newRule>>

\* Another user deletes a backup.
OtherDeleteBackup(b) ==
    /\ b \in backups
    /\ backups' = backups \ {b}
    /\ UNCHANGED <<user, snaps, snapOwner, restored, certs, rules, pc, lastOp,
                   result, objs, newId, newRule>>

-----------------------------------------------------------------------------
(* Load balancer certificates                                              *)

\* GetILoadBalancerCertificates: ListServerCertificates, keeping those whose
\* OwnerId is the client's owner id (the account's own certificates).
GetILoadBalancerCertificates == IF user = Me THEN certs ELSE {}

\* GetILoadBalancerCertificateById: the listed certificate with the id.
FindCert(id) == {c \in GetILoadBalancerCertificates : c = id}

(* CreateILoadBalancerCertificate: UploadServerCertificate (an error       *)
(* returns), the ServerCertificateId of the reply, then                    *)
(* GetILoadBalancerCertificateById of it.                                  *)
CreateILoadBalancerCertificate ==
    /\ pc = "idle"
    /\ lastOp' = "certcreate"
    /\ \E c \in Certs \ certs, o \in Outcomes(<<"Upload", "ServerCertificate">>, TRUE) :
          /\ certs' = IF Applied(o) THEN certs \cup {c} ELSE certs
          /\ IF o = "ok" THEN pc' = "cert_get" /\ newId' = c /\ result' = "none"
                         ELSE Return("err") /\ UNCHANGED newId
    /\ UNCHANGED <<user, snaps, snapOwner, backups, restored, rules, objs, newRule>>

CertGet ==
    /\ pc = "cert_get"
    /\ \E o \in Outcomes(<<"List", "ServerCertificates">>, TRUE) :
          IF o = "ok" /\ FindCert(newId) # {}
          THEN \E c \in FindCert(newId) : certObj' = c /\ Return("ok")
          ELSE Return("err") /\ UNCHANGED certObj
    /\ newId' = None
    /\ UNCHANGED <<user, cloud, lastOp, snapObj, bkObj, ruleObj, newRule>>

\* SElbCertificate.Refresh: GetILoadBalancerCertificateById(self.GetId()),
\* then the object is overlaid with it.
CertRefresh ==
    /\ Single("certrefresh") /\ certObj # None
    /\ \E o \in Outcomes(<<"List", "ServerCertificates">>, TRUE) :
          IF o = "ok" /\ FindCert(certObj) # {}
          THEN \E c \in FindCert(certObj) : certObj' = c /\ result' = "ok"
          ELSE result' = "err" /\ UNCHANGED certObj
    /\ UNCHANGED <<user, cloud, pc, snapObj, bkObj, ruleObj, newRule>>

\* SElbCertificate.Delete: deleteElbCertificate (DeleteServerCertificate).
CertDelete ==
    /\ Single("certdelete") /\ certObj # None
    /\ \E o \in Outcomes(<<"Delete", "ServerCertificate">>, certObj \in certs) :
          /\ certs' = IF Applied(o) THEN certs \ {certObj} ELSE certs
          /\ result' = IF o = "ok" THEN "ok" ELSE "err"
    /\ UNCHANGED <<user, snaps, snapOwner, backups, restored, rules, pc, objs,
                   newRule>>

-----------------------------------------------------------------------------
(* Security group rule                                                     *)

\* SSecurityGroupRule.Update(opts), first call: DeleteSecurityGroupRule of
\* the rule itself, its error dropped.
RuleUpdate(n) ==
    /\ pc = "idle" /\ ruleObj # None
    /\ lastOp' = "ruleupdate"
    /\ \E o \in Outcomes(<<"Revoke", "SecurityGroupIngress">>, ruleObj \in rules) :
          rules' = IF Applied(o) THEN rules \ {ruleObj} ELSE rules
    /\ pc' = "rule_create" /\ newRule' = n
    /\ UNCHANGED <<user, snaps, snapOwner, backups, restored, certs, result, objs,
                   newId>>

\* Update, second call: CreateSecurityGroupRules of the options; its error
\* is Update's.  The cloud refuses a rule the group already has.
RuleCreate ==
    /\ pc = "rule_create"
    /\ \E o \in Outcomes(<<"Authorize", "SecurityGroupIngress">>, newRule \notin rules) :
          /\ rules' = IF Applied(o) THEN rules \cup {newRule} ELSE rules
          /\ Return(IF o = "ok" THEN "ok" ELSE "err")
    /\ UNCHANGED <<user, snaps, snapOwner, backups, restored, certs, lastOp, objs,
                   newId, newRule>>

\* SSecurityGroupRule.Delete: DeleteSecurityGroupRule.
RuleDelete ==
    /\ Single("ruledelete") /\ ruleObj # None
    /\ \E o \in Outcomes(<<"Revoke", "SecurityGroupIngress">>, ruleObj \in rules) :
          /\ rules' = IF Applied(o) THEN rules \ {ruleObj} ELSE rules
          /\ result' = IF o = "ok" THEN "ok" ELSE "err"
    /\ UNCHANGED <<user, snaps, snapOwner, backups, restored, certs, pc, objs,
                   newRule>>

Next ==
    /\ \/ kind = "snap" /\ \/ CreateISnapshot \/ GetISnapshotById
                           \/ SnapshotRefresh \/ SnapshotDelete
       \/ kind = "backup" /\ \/ CreateInstanceBackup \/ BackupRefresh
                             \/ BackupRestore \/ BackupDelete
                             \/ \E b \in Backups : OtherDeleteBackup(b)
       \/ kind = "cert" /\ \/ CreateILoadBalancerCertificate \/ CertGet
                           \/ CertRefresh \/ CertDelete
       \/ kind = "rule" /\ \/ \E n \in Rules : RuleUpdate(n)
                           \/ RuleCreate \/ RuleDelete
    /\ UNCHANGED kind

Spec == Init /\ [][Next]_vars

-----------------------------------------------------------------------------
(* Properties                                                              *)

\* The same of an instance backup's Refresh.
BackupRefreshKeepsId == [][lastOp' = "bkrefresh" => bkObj' = bkObj]_vars

=============================================================================
