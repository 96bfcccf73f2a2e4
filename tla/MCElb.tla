------------------------------- MODULE MCElb -------------------------------
(***************************************************************************)
(* One model-checking run for the three load-balancer models, which share *)
(* no state: a behaviour runs either the members of one target group      *)
(* (ElbBackend: two targets, two ports, two weights), or one DeleteElb     *)
(* (ElbDelete: four listeners, two of them on one target group and one on  *)
(* none, and a third group the account uses elsewhere), or one            *)
(* certificate object (ElbCert: three uploads, the first two under one    *)
(* name).  part says which; the other models stay in their initial states. *)
(***************************************************************************)
EXTENDS TLC

CONSTANTS Targets, Ports, Weights, None, ReadOnly, g1, g2, g3, c1, c2, c3

VARIABLES reg, grp, pc, lastOp, req, obj, todo, rmSnap, result, touchedObj,
          touchedRm, groups, lb, dpc, li, elbgs, di, dresult, live, used, oid,
          body, parsed, ret, part

bvars == <<reg, grp, pc, lastOp, req, obj, todo, rmSnap, result, touchedObj,
           touchedRm>>
dvars == <<groups, lb, dpc, li, elbgs, di, dresult>>
cvars == <<live, used, oid, body, parsed, ret>>

\* "lost" is left out of the members' faults: there a request lost before
\* the cloud has exactly the effect of an API error.
B == INSTANCE ElbBackend WITH Faults <- {"apierr", "noreply"}
D == INSTANCE ElbDelete WITH pc <- dpc, result <- dresult,
                             Groups <- {g1, g2, g3}, LbListeners <- <<g1, g2, g1, "">>,
                             Faults <- {"apierr", "lost", "noreply"}
\* c1 and c2 are uploads under one name, c3 under another.
C == INSTANCE ElbCert WITH Ids <- {c1, c2, c3},
                           nameOf <- [c \in {c1, c2, c3} |-> IF c = c3 THEN "n2" ELSE "n1"],
                           bodyOf <- [c \in {c1, c2, c3} |->
                                        CASE c = c1 -> "b1" [] c = c2 -> "b2" [] OTHER -> "b3"],
                           Empty <- "", Faults <- {"apierr", "lost", "noreply"}

\* The certificate model, idle: one live certificate, nothing cached.
CIdle == live = {c1} /\ used = {c1} /\ oid = c1 /\ body = "" /\ parsed = None /\ ret = "none"

Init ==
    \/ part = "members" /\ B!Init /\ D!Init /\ groups = {} /\ CIdle
    \/ part = "delete" /\ D!Init /\ B!Init /\ reg = [x \in B!Pairs |-> 0] /\ CIdle
    \/ part = "cert" /\ C!Init /\ B!Init /\ reg = [x \in B!Pairs |-> 0]
                   /\ D!Init /\ groups = {}

Next ==
    \/ part = "members" /\ B!Next /\ UNCHANGED <<dvars, cvars, part>>
    \/ part = "delete" /\ D!Next /\ UNCHANGED <<bvars, cvars, part>>
    \/ part = "cert" /\ C!Next /\ UNCHANGED <<bvars, dvars, part>>

Spec == Init /\ [][Next]_<<bvars, dvars, cvars, part>>

\* The targets are interchangeable: no definition names one.
TargetSymmetry == Permutations(Targets)

TypeOK == B!TypeOK /\ C!TypeOK
SyncMovesTarget == B!SyncMovesTarget
RemoveAllClears == B!RemoveAllClears
\* ElbCert: the cached cert is always the parse of the cached body.
ParsedMatchesBody == C!ParsedMatchesBody

\* ElbDelete: a DeleteElb that succeeds deleted every group it collected.
DeleteElbRemovesItsGroups == D!DeleteElbRemovesItsGroups
=============================================================================
