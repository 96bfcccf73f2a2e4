------------------------------ MODULE ElbBackend ------------------------------
(***************************************************************************)
(* The members of one BingoCloud target group, as the client changes them  *)
(* (loadbalancer_backend_group.go, loadbalancer_backend.go): a backend is  *)
(* a target id on a port with a weight.  The client holds one SElbBackend  *)
(* object, obtained from a listing or from AddBackendServer, and changes   *)
(* its port and weight with SyncConf.  Other users of the cloud register   *)
(* and deregister targets of the same group at any time.                   *)
(***************************************************************************)
EXTENDS BingoInvoke, Naturals, FiniteSets

CONSTANTS
    Targets,    \* target ids (instances, interfaces or addresses)
    Ports,      \* backend ports
    Weights,    \* backend weights
    None

Pairs == Targets \X Ports
Backend == [id : Targets, port : Ports, weight : Weights]

VARIABLES
    reg,        \* the cloud: the weight of each registered <<target, port>>, 0 if not
    grp,        \* the cloud: the target group still exists
    pc,         \* the client's step in its current operation
    lastOp,     \* the operation the client ran last
    req,        \* arguments of the running AddBackendServer / SyncConf
    obj,        \* the client's SElbBackend object (its Target), or None
    todo,       \* RemoveElbBackends: the listed backends not removed yet
    rmSnap,     \* ghost: what RemoveElbBackends listed
    result,     \* the error result of the last operation
    touchedObj, \* ghost: {obj.id} if other users changed it since obj was read
    touchedRm   \* ghost: listed pairs other users changed during RemoveElbBackends

vars == <<reg, grp, pc, lastOp, req, obj, todo, rmSnap, result, touchedObj,
          touchedRm>>
ghosts == <<touchedObj, touchedRm>>

\* The backends DescribeTargetHealth lists for the group.
Listed == {[id |-> x[1], port |-> x[2], weight |-> reg[x]] :
              x \in {y \in Pairs : reg[y] # 0}}

TypeOK ==
    /\ reg \in [Pairs -> {0} \cup Weights]
    /\ grp \in BOOLEAN
    /\ pc \in {"idle", "add_register", "get_group", "get_health",
               "sync_remove", "sync_old", "sync_add", "sync_new",
               "rm_list", "rm_each"}
    /\ lastOp \in {"none", "list", "add", "remove", "sync", "removeall", "delete",
                  "refresh"}
    /\ req \in Backend \cup {None}
    /\ obj \in Backend \cup {None}
    /\ todo \subseteq Pairs /\ rmSnap \subseteq Pairs
    /\ result \in {"none", "ok", "err"}
    /\ touchedObj \subseteq Targets /\ touchedRm \subseteq Pairs

Init ==
    /\ reg \in [Pairs -> {0} \cup Weights]
    /\ grp = TRUE
    /\ pc = "idle"
    /\ lastOp = "none"
    /\ req = None
    /\ obj = None
    /\ todo = {} /\ rmSnap = {}
    /\ result = "none"
    /\ touchedObj = {} /\ touchedRm = {}

\* Ending an operation: the error result, back to idle.
Return(r) == result' = r /\ pc' = "idle"

\* Starting an operation from idle.
Begin(op, next) == pc = "idle" /\ pc' = next /\ lastOp' = op

\* The cloud's side of RegisterTargets / DeregisterTargets.
Register(x, w) == reg' = [reg EXCEPT ![x] = w]
Deregister(x) == reg' = [reg EXCEPT ![x] = 0]

-----------------------------------------------------------------------------
(* SElbBackendGroup.GetILoadbalancerBackends: one DescribeTargetHealth;     *)
(* the caller keeps one of the backends it returns.                        *)
GetILoadbalancerBackends ==
    /\ Begin("list", "idle")
    /\ \E o \in Outcomes(<<"Describe", "TargetHealth">>, grp) :
          IF o = "ok" /\ Listed # {}
          THEN \E b \in Listed : obj' = b /\ touchedObj' = {} /\ result' = "ok"
          ELSE /\ result' = (IF o = "ok" THEN "ok" ELSE "err")
               /\ UNCHANGED <<obj, touchedObj>>
    /\ UNCHANGED <<reg, grp, req, todo, rmSnap, touchedRm>>

(* AddBackendServer(targetId, weight, port): AddElbBackend (RegisterTargets), *)
(* then GetELbBackend(genElbBackendId(...)): DescribeTargetGroups to load   *)
(* the group, DescribeTargetHealth filtered on the target, and the entry    *)
(* whose id matches.                                                       *)
AddBackendServer(t, w, p) ==
    /\ Begin("add", "add_register")
    /\ result' = "none"
    /\ req' = [id |-> t, port |-> p, weight |-> w]
    /\ UNCHANGED <<reg, grp, obj, todo, rmSnap, ghosts>>

AddRegister ==
    /\ pc = "add_register"
    /\ \E o \in Outcomes(<<"Register", "Targets">>, grp) :
          /\ IF Applied(o) THEN Register(<<req.id, req.port>>, req.weight)
                           ELSE UNCHANGED reg
          /\ IF o = "ok" THEN pc' = "get_group" /\ UNCHANGED result
                         ELSE Return("err")
    /\ UNCHANGED <<grp, lastOp, req, obj, todo, rmSnap, ghosts>>

\* GetELbBackend, first call: GetElbBackendGroup (DescribeTargetGroups).
GetBackendGroup ==
    /\ pc = "get_group"
    /\ \E o \in Outcomes(<<"Describe", "TargetGroups">>, TRUE) :
          IF o = "ok" /\ grp THEN pc' = "get_health" /\ UNCHANGED result
                             ELSE Return("err")
    /\ UNCHANGED <<reg, grp, lastOp, req, obj, todo, rmSnap, ghosts>>

\* Mutant: no check that an entry with the requested id came back.
GetBackendHealthNoCheck ==
    /\ pc = "get_health"
    /\ \E o \in Outcomes(<<"Describe", "TargetHealth">>, grp) :
          IF o = "ok"
          THEN /\ obj' = [req EXCEPT !.weight = reg[<<req.id, req.port>>]]
               /\ touchedObj' = {}
               /\ Return("ok")
          ELSE Return("err") /\ UNCHANGED <<obj, touchedObj>>
    /\ UNCHANGED <<reg, grp, lastOp, req, todo, rmSnap, touchedRm>>

\* GetELbBackend, second call: DescribeTargetHealth filtered on the target
\* and port, and the entry whose GetGlobalId is the requested id.
GetBackendHealth ==
    /\ pc = "get_health"
    /\ \E o \in Outcomes(<<"Describe", "TargetHealth">>, grp) :
          IF o = "ok" /\ reg[<<req.id, req.port>>] # 0
          THEN /\ obj' = [req EXCEPT !.weight = reg[<<req.id, req.port>>]]
               /\ touchedObj' = {}
               /\ Return("ok")
          ELSE Return("err") /\ UNCHANGED <<obj, touchedObj>>
    /\ UNCHANGED <<reg, grp, lastOp, req, todo, rmSnap, touchedRm>>

\* SElbBackend.Refresh: GetELbBackend of the object's own id, then the
\* object is overlaid with what it returns.
Refresh ==
    /\ obj # None
    /\ Begin("refresh", "get_group")
    /\ result' = "none"
    /\ req' = obj
    /\ UNCHANGED <<reg, grp, obj, todo, rmSnap, ghosts>>

\* RemoveBackendServer: RemoveElbBackend, one DeregisterTargets.
RemoveBackendServer(t, p) ==
    /\ Begin("remove", "idle")
    /\ \E o \in Outcomes(<<"Deregister", "Targets">>, grp) :
          /\ IF Applied(o) THEN Deregister(<<t, p>>) ELSE UNCHANGED reg
          /\ result' = IF o = "ok" THEN "ok" ELSE "err"
    /\ UNCHANGED <<grp, req, obj, todo, rmSnap, ghosts>>

\* SElbBackendGroup.Delete: DeleteTargetGroup.
Delete ==
    /\ Begin("delete", "idle")
    /\ \E o \in Outcomes(<<"Delete", "TargetGroup">>, grp) :
          /\ grp' = (grp /\ ~Applied(o))
          /\ result' = IF o = "ok" THEN "ok" ELSE "err"
    /\ UNCHANGED <<reg, req, obj, todo, rmSnap, ghosts>>

(* SElbBackend.SyncConf(port, weight) through region.SyncElbBackend:       *)
(* RemoveElbBackend of the object's target on its current port, a listing, *)
(* AddElbBackend on the new port, a second listing, and the loop meant to  *)
(* return the backend missing from the first listing; its exist flag is    *)
(* never set, so the first backend of the second listing is returned.      *)
(* SyncConf then overlays the object with it (jsonutils.Update).           *)
SyncConf(p, w) ==
    /\ obj # None
    /\ Begin("sync", "sync_remove")
    /\ result' = "none"
    /\ req' = [id |-> obj.id, port |-> p, weight |-> w]
    /\ UNCHANGED <<reg, grp, obj, todo, rmSnap, ghosts>>

\* Mutant: the old registration is never removed.
SyncRemoveSkipped ==
    /\ pc = "sync_remove"
    /\ pc' = "sync_old"
    /\ UNCHANGED <<reg, grp, lastOp, req, obj, todo, rmSnap, result, ghosts>>

SyncRemove ==
    /\ pc = "sync_remove"
    /\ \E o \in Outcomes(<<"Deregister", "Targets">>, grp) :
          /\ IF Applied(o) THEN Deregister(<<obj.id, obj.port>>) ELSE UNCHANGED reg
          /\ IF o = "ok" THEN pc' = "sync_old" /\ UNCHANGED result
                         ELSE Return("err")
    /\ UNCHANGED <<grp, lastOp, req, obj, todo, rmSnap, ghosts>>

SyncOld ==
    /\ pc = "sync_old"
    /\ \E o \in Outcomes(<<"Describe", "TargetHealth">>, grp) :
          IF o = "ok" THEN pc' = "sync_add" /\ UNCHANGED result
                      ELSE Return("err")
    /\ UNCHANGED <<reg, grp, lastOp, req, obj, todo, rmSnap, ghosts>>

SyncAdd ==
    /\ pc = "sync_add"
    /\ \E o \in Outcomes(<<"Register", "Targets">>, grp) :
          /\ IF Applied(o) THEN Register(<<req.id, req.port>>, req.weight)
                           ELSE UNCHANGED reg
          /\ IF o = "ok" THEN pc' = "sync_new" /\ UNCHANGED result
                         ELSE Return("err")
    /\ UNCHANGED <<grp, lastOp, req, obj, todo, rmSnap, ghosts>>

SyncNew ==
    /\ pc = "sync_new"
    /\ \E o \in Outcomes(<<"Describe", "TargetHealth">>, grp) :
          IF o = "ok" /\ Listed # {}
          THEN \E b \in Listed : obj' = b /\ touchedObj' = {} /\ Return("ok")
          ELSE Return("err") /\ UNCHANGED <<obj, touchedObj>>
    /\ UNCHANGED <<reg, grp, lastOp, req, todo, rmSnap, touchedRm>>

(* region.RemoveElbBackends: list the group, then RemoveElbBackend each    *)
(* listed backend in the order listed, stopping at the first error.        *)
RemoveElbBackends ==
    /\ Begin("removeall", "rm_list")
    /\ result' = "none"
    /\ UNCHANGED <<reg, grp, req, obj, todo, rmSnap, ghosts>>

RmList ==
    /\ pc = "rm_list"
    /\ \E o \in Outcomes(<<"Describe", "TargetHealth">>, grp) :
          LET xs == {x \in Pairs : reg[x] # 0} IN
          IF o # "ok" THEN Return("err") /\ UNCHANGED <<todo, rmSnap, touchedRm>>
          ELSE IF xs = {} THEN Return("ok") /\ UNCHANGED <<todo, rmSnap, touchedRm>>
          ELSE /\ todo' = xs /\ rmSnap' = xs /\ touchedRm' = {}
               /\ pc' = "rm_each" /\ UNCHANGED result
    /\ UNCHANGED <<reg, grp, lastOp, req, obj, touchedObj>>

\* Leaving the loop: the ghosts of the listing are dropped.
RmReturn(r) == Return(r) /\ todo' = {} /\ rmSnap' = {} /\ touchedRm' = {}

\* Mutant: the loop returns after the first removal.
RmEachOnce ==
    /\ pc = "rm_each"
    /\ \E x \in todo, o \in Outcomes(<<"Deregister", "Targets">>, grp) :
          /\ IF Applied(o) THEN Deregister(x) ELSE UNCHANGED reg
          /\ RmReturn(IF o = "ok" THEN "ok" ELSE "err")
    /\ UNCHANGED <<grp, lastOp, req, obj, touchedObj>>

RmEach ==
    /\ pc = "rm_each"
    /\ \E x \in todo, o \in Outcomes(<<"Deregister", "Targets">>, grp) :
          /\ IF Applied(o) THEN Deregister(x) ELSE UNCHANGED reg
          /\ IF o = "ok" /\ todo # {x}
             THEN todo' = todo \ {x} /\ UNCHANGED <<pc, result, rmSnap, touchedRm>>
             ELSE RmReturn(IF o = "ok" THEN "ok" ELSE "err")
    /\ UNCHANGED <<grp, lastOp, req, obj, touchedObj>>

-----------------------------------------------------------------------------
(* Other users of the cloud change the group's members.                    *)
Touch(x) ==
    /\ touchedObj' = IF obj # None /\ x[1] = obj.id THEN {x[1]} ELSE touchedObj
    /\ touchedRm' = IF pc = "rm_each" /\ x \in rmSnap THEN touchedRm \cup {x}
                                                      ELSE touchedRm

OtherRegister(x, w) ==
    /\ grp /\ reg[x] # w
    /\ Register(x, w) /\ Touch(x)
    /\ UNCHANGED <<grp, pc, lastOp, req, obj, todo, rmSnap, result>>

OtherDeregister(x) ==
    /\ grp /\ reg[x] # 0
    /\ Deregister(x) /\ Touch(x)
    /\ UNCHANGED <<grp, pc, lastOp, req, obj, todo, rmSnap, result>>

Client ==
    \/ GetILoadbalancerBackends
    \/ \E t \in Targets, w \in Weights, p \in Ports : AddBackendServer(t, w, p)
    \/ AddRegister \/ Refresh \/ GetBackendGroup \/ GetBackendHealth
    \/ \E t \in Targets, p \in Ports : RemoveBackendServer(t, p)
    \/ Delete
    \/ \E p \in Ports, w \in Weights : SyncConf(p, w)
    \/ SyncRemove \/ SyncOld \/ SyncAdd \/ SyncNew
    \/ RemoveElbBackends \/ RmList \/ RmEach

Next ==
    \/ Client
    \/ \E x \in Pairs : OtherDeregister(x) \/ \E w \in Weights : OtherRegister(x, w)

Spec == Init /\ [][Next]_vars

-----------------------------------------------------------------------------
(* Properties                                                              *)

\* SyncConf as the interface means it: when it succeeds, the object it was
\* called on describes its own target on the requested port.
SyncReturnsSynced ==
    (pc = "idle" /\ lastOp = "sync" /\ result = "ok")
        => obj.id = req.id /\ obj.port = req.port

\* When SyncElbBackend succeeds and no other user touched the target since
\* the object was read, the target is registered on the new port with the
\* new weight and no longer on the port the object had: the deregistration
\* comes before the registration, so a weight-only change keeps the target.
SyncMovesTarget ==
    [][(pc = "sync_new" /\ pc' = "idle" /\ result' = "ok"
           /\ req.id \notin touchedObj)
        => /\ reg'[<<req.id, req.port>>] = req.weight
           /\ obj.port # req.port => reg'[<<req.id, obj.port>>] = 0]_vars

\* When RemoveElbBackends succeeds, every backend it listed is deregistered,
\* unless another user registered it again meanwhile.
RemoveAllClears ==
    [][(pc = "rm_each" /\ pc' = "idle" /\ result' = "ok")
        => \A x \in rmSnap \ touchedRm : reg'[x] = 0]_vars

=============================================================================
