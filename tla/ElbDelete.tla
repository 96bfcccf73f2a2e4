------------------------------ MODULE ElbDelete ------------------------------
(***************************************************************************)
(* SRegion.DeleteElb(id) (loadbalancer.go): the load balancer is looked up, *)
(* its listeners listed, the target group of each listener listed and      *)
(* deleted, and then the load balancer itself.  The account owns target   *)
(* groups that other load balancers' listeners use.                        *)
(***************************************************************************)
EXTENDS BingoInvoke, Naturals, Sequences, FiniteSets

CONSTANTS
    Groups,         \* the account's target groups
    LbListeners     \* GetBackendGroupId of each listener of the load balancer:
                    \* a group, or "" for a listener that forwards to none

ASSUME LbListeners \in Seq(Groups \cup {""})

VARIABLES
    groups,     \* the cloud: target groups that exist
    lb,         \* the cloud: the load balancer exists
    pc,         \* DeleteElb's step
    li,         \* GetILoadBalancerBackendGroups: the next listener
    elbgs,      \* the backend groups collected, in order
    di,         \* the next of elbgs to delete
    result      \* how DeleteElb ended

vars == <<groups, lb, pc, li, elbgs, di, result>>

TypeOK ==
    /\ groups \subseteq Groups
    /\ lb \in BOOLEAN
    /\ pc \in {"get", "listeners", "groups", "delete", "lb", "done"}
    /\ li \in 1..(Len(LbListeners) + 1)
    /\ elbgs \in Seq(Groups)
    /\ di \in 1..(Len(elbgs) + 1)
    /\ result \in {"none", "ok", "err"}

Init ==
    /\ groups \in SUBSET Groups
    /\ lb = TRUE
    /\ pc = "get" /\ li = 1 /\ elbgs = <<>> /\ di = 1 /\ result = "none"

Return(r) == pc' = "done" /\ result' = r

-----------------------------------------------------------------------------
\* GetILoadBalancerById: DescribeLoadBalancers of the id and the owner.
GetILoadBalancerById ==
    /\ pc = "get"
    /\ \E o \in Outcomes(<<"Describe", "LoadBalancers">>, TRUE) :
          IF o = "ok" /\ lb THEN pc' = "listeners" /\ UNCHANGED result
                            ELSE Return("err")
    /\ UNCHANGED <<groups, lb, li, elbgs, di>>

\* GetILoadBalancerListeners: GetElbListeners of the load balancer.
GetILoadBalancerListeners ==
    /\ pc = "listeners"
    /\ \E o \in Outcomes(<<"Describe", "Listeners">>, TRUE) :
          IF o = "ok" THEN pc' = "groups" /\ UNCHANGED result ELSE Return("err")
    /\ UNCHANGED <<groups, lb, li, elbgs, di>>

\* The groups DescribeTargetGroups returns for a group id and the owner:
\* that group if it exists, or every group of the owner for an empty id.
GroupsOf(id) == IF id = "" THEN groups ELSE groups \cap {id}

\* Some order of a set, as the cloud lists it.
Orders(S) == {s \in [1..Cardinality(S) -> S] : \A i, j \in DOMAIN s : s[i] = s[j] => i = j}

(* GetILoadBalancerBackendGroups' loop: GetElbBackendGroups of each        *)
(* listener's GetBackendGroupId(); an error returns.                       *)
GetElbBackendGroups ==
    /\ pc = "groups"
    /\ IF li > Len(LbListeners)
       THEN pc' = "delete" /\ UNCHANGED <<li, elbgs, result>>
       ELSE \E o \in Outcomes(<<"Describe", "TargetGroups">>, TRUE) :
               IF o # "ok" THEN Return("err") /\ UNCHANGED <<li, elbgs>>
               ELSE /\ \E part \in Orders(GroupsOf(LbListeners[li])) :
                          elbgs' = elbgs \o part
                    /\ li' = li + 1 /\ UNCHANGED <<pc, result>>
    /\ UNCHANGED <<groups, lb, di>>

\* elbg.Delete of each collected group (DeleteTargetGroup); its error is dropped.
DeleteTargetGroup ==
    /\ pc = "delete"
    /\ IF di > Len(elbgs)
       THEN pc' = "lb" /\ UNCHANGED <<groups, di>>
       ELSE \E o \in Outcomes(<<"Delete", "TargetGroup">>, elbgs[di] \in groups) :
               /\ groups' = IF Applied(o) THEN groups \ {elbgs[di]} ELSE groups
               /\ di' = di + 1 /\ UNCHANGED pc
    /\ UNCHANGED <<lb, li, elbgs, result>>

\* DeleteLoadBalancer; its error is DeleteElb's.
DeleteLoadBalancer ==
    /\ pc = "lb"
    /\ \E o \in Outcomes(<<"Delete", "LoadBalancer">>, lb) :
          /\ lb' = (lb /\ ~Applied(o))
          /\ Return(IF o = "ok" THEN "ok" ELSE "err")
    /\ UNCHANGED <<groups, li, elbgs, di>>

Next ==
    \/ GetILoadBalancerById \/ GetILoadBalancerListeners
    \/ GetElbBackendGroups \/ DeleteTargetGroup \/ DeleteLoadBalancer

Spec == Init /\ [][Next]_vars

-----------------------------------------------------------------------------
(* Properties                                                              *)

\* The spec (section 7): errors propagate up the call stack and none is
\* suppressed.  So a DeleteElb that returns success has deleted every
\* backend group it collected from the listeners.
DeleteElbRemovesItsGroups ==
    (pc = "done" /\ result = "ok") => \A i \in DOMAIN elbgs : elbgs[i] \notin groups

=============================================================================
