------------------------------ MODULE DiskReset ------------------------------
(***************************************************************************)
(* SDisk.Reset(snapshotId) (disk.go): a new volume is created from the     *)
(* snapshot, waited for, moved onto every instance in the old disk's       *)
(* AttachmentSet in its place, and the old volume is deleted.  Instances   *)
(* may be terminated meanwhile, and the new volume may come up available  *)
(* or in error.  The model is one Reset call of one disk object read       *)
(* while the volume had its initial attachments.                          *)
(***************************************************************************)
EXTENDS BingoInvoke, Naturals, Sequences, SequencesExt, FiniteSets

CONSTANTS
    Instances,  \* instances the old volume may be attached to
    Old,        \* the volume being reset
    New,        \* the volume Reset creates
    None

Vols == {Old, New}

VARIABLES
    exists,     \* the cloud: volumes that exist
    status,     \* the cloud: the new volume's status
    attached,   \* the cloud: the volumes attached to each instance
    live,       \* the cloud: instances not terminated
    pc,         \* Reset's step
    atts,       \* the disk object's AttachmentSet, in its order
    k,          \* the loop's position in atts
    inst,       \* the instance GetInstances returned for atts[k]
    result,     \* how Reset ended
    startAtt    \* ghost: the instances the old volume was attached to at the start

vars == <<exists, status, attached, live, pc, atts, k, inst, result, startAtt>>
cloud == <<exists, status, attached, live>>

AttachedTo(v) == {i \in Instances : v \in attached[i]}

TypeOK ==
    /\ exists \subseteq Vols
    /\ status \in {"creating", "available", "error"}
    /\ attached \in [Instances -> SUBSET Vols]
    /\ live \subseteq Instances
    /\ pc \in {"create", "wait", "loop", "detach", "attach", "delete", "done"}
    /\ atts \in Seq(Instances)
    /\ k \in 1..(Len(atts) + 1)
    /\ inst \in Instances \cup {None}
    /\ result \in {"none", "ok", "err"}
    /\ startAtt \subseteq Instances

Init ==
    /\ exists = {Old}
    /\ status = "creating"
    /\ live = Instances
    /\ \E s \in SUBSET Instances :
          /\ attached = [i \in Instances |-> IF i \in s THEN {Old} ELSE {}]
          /\ atts \in SetToSeqs(s)
          /\ startAtt = s
    /\ pc = "create" /\ k = 1 /\ inst = None /\ result = "none"

Return(r) == pc' = "done" /\ result' = r

-----------------------------------------------------------------------------
\* CreateIDisk: CreateVolume in the disk's storage, from the snapshot.
Create ==
    /\ pc = "create"
    /\ \E o \in Outcomes(<<"Create", "Volume">>, TRUE) :
          /\ exists' = IF Applied(o) THEN exists \cup {New} ELSE exists
          /\ IF o = "ok" THEN pc' = "wait" /\ UNCHANGED result ELSE Return("err")
    /\ UNCHANGED <<status, attached, live, atts, k, inst, startAtt>>

\* Mutant: WaitStatus polls for as long as the volume is not ready.
WaitNoTimeout ==
    /\ pc = "wait"
    /\ \E o \in Outcomes(<<"Describe", "Volumes">>, TRUE) :
          IF o # "ok" THEN Return("err")
          ELSE status = "available" /\ pc' = "loop" /\ UNCHANGED result
    /\ UNCHANGED <<cloud, atts, k, inst, startAtt>>

(* cloudprovider.WaitStatus(newDisk, DISK_READY, 5s, 3600s): Refresh       *)
(* (GetDisk, one DescribeVolumes) until GetStatus is ready ("available" or *)
(* "in-use"); a Refresh error returns it, and so does the timeout.  Polls  *)
(* that see the volume still creating change nothing and are left out.     *)
WaitStatus ==
    /\ pc = "wait"
    /\ \E o \in Outcomes(<<"Describe", "Volumes">>, TRUE) :
          IF o # "ok" THEN Return("err")
          ELSE IF status = "available" THEN pc' = "loop" /\ UNCHANGED result
          ELSE Return("err")
    /\ UNCHANGED <<cloud, atts, k, inst, startAtt>>

(* The loop over AttachmentSet: GetInstances(attachment.InstanceId); an    *)
(* error returns, no instance breaks out of the loop, and after the last   *)
(* attachment the old volume is deleted.                                   *)
LoopGet ==
    /\ pc = "loop"
    /\ IF k > Len(atts)
       THEN pc' = "delete" /\ UNCHANGED <<inst, result>>
       ELSE \E o \in Outcomes(<<"Describe", "Instances">>, TRUE) :
               IF o # "ok" THEN Return("err") /\ UNCHANGED inst
               ELSE IF atts[k] \notin live THEN pc' = "delete" /\ UNCHANGED <<inst, result>>
               ELSE pc' = "detach" /\ inst' = atts[k] /\ UNCHANGED result
    /\ UNCHANGED <<cloud, atts, k, startAtt>>

\* DetachVolume of the old volume from the instance.
Detach ==
    /\ pc = "detach"
    /\ \E o \in Outcomes(<<"Detach", "Volume">>, inst \in live /\ Old \in attached[inst]) :
          /\ attached' = IF Applied(o) THEN [attached EXCEPT ![inst] = @ \ {Old}]
                                       ELSE attached
          /\ IF o = "ok" THEN pc' = "attach" /\ UNCHANGED result ELSE Return("err")
    /\ UNCHANGED <<exists, status, live, atts, k, inst, startAtt>>

\* Mutant: an AttachVolume error is dropped and the loop goes on.
AttachErrIgnored ==
    /\ pc = "attach"
    /\ \E o \in Outcomes(<<"Attach", "Volume">>,
                         inst \in live /\ New \in exists /\ status = "available") :
          /\ attached' = IF Applied(o) THEN [attached EXCEPT ![inst] = @ \cup {New}]
                                       ELSE attached
          /\ pc' = "loop" /\ k' = k + 1 /\ UNCHANGED result
    /\ UNCHANGED <<exists, status, live, atts, inst, startAtt>>

\* Mutant: the new volume is not attached.
AttachSkipped ==
    /\ pc = "attach"
    /\ pc' = "loop" /\ k' = k + 1
    /\ UNCHANGED <<cloud, atts, inst, result, startAtt>>

(* nextDeviceName of the instance's block devices as GetInstances saw them, *)
(* then AttachVolume of the new volume on that device.                     *)
Attach ==
    /\ pc = "attach"
    /\ \E o \in Outcomes(<<"Attach", "Volume">>,
                         inst \in live /\ New \in exists /\ status = "available") :
          /\ attached' = IF Applied(o) THEN [attached EXCEPT ![inst] = @ \cup {New}]
                                       ELSE attached
          /\ IF o = "ok" THEN pc' = "loop" /\ k' = k + 1 /\ UNCHANGED result
                         ELSE Return("err") /\ UNCHANGED k
    /\ UNCHANGED <<exists, status, live, atts, inst, startAtt>>

\* self.Delete: DeleteVolume of the old volume; the cloud refuses an attached one.
Delete ==
    /\ pc = "delete"
    /\ \E o \in Outcomes(<<"Delete", "Volume">>, AttachedTo(Old) = {}) :
          /\ exists' = IF Applied(o) THEN exists \ {Old} ELSE exists
          /\ Return(IF o = "ok" THEN "ok" ELSE "err")
    /\ UNCHANGED <<status, attached, live, atts, k, inst, startAtt>>

-----------------------------------------------------------------------------
(* The cloud: an instance is terminated (its volumes detach); the new      *)
(* volume finishes creating, available or in error.                        *)
Terminate(i) ==
    /\ i \in live
    /\ live' = live \ {i}
    /\ attached' = [attached EXCEPT ![i] = {}]
    /\ UNCHANGED <<exists, status, pc, atts, k, inst, result, startAtt>>

Settle ==
    /\ New \in exists /\ status = "creating"
    /\ status' \in {"available", "error"}
    /\ UNCHANGED <<exists, attached, live, pc, atts, k, inst, result, startAtt>>

Reset == Create \/ WaitStatus \/ LoopGet \/ Detach \/ Attach \/ Delete

Next == Reset \/ Settle \/ \E i \in Instances : Terminate(i)

\* Every step of Reset is a synchronous call bounded by the HTTP timeout,
\* and WaitStatus by its own; the cloud's changes owe nothing.
Spec == Init /\ [][Next]_vars /\ WF_vars(Reset)

-----------------------------------------------------------------------------
(* Properties                                                              *)

\* A Reset that succeeds leaves the new volume attached to every instance
\* the old one was attached to and that still runs.
ResetMovesAttachments ==
    (pc = "done" /\ result = "ok") => \A i \in startAtt \cap live : New \in attached[i]

\* Reset detaches the old volume from an instance before it attaches the new
\* one, and returns at the first error: so at any time, and after any error,
\* at most one running instance that had the old volume has neither volume.
Bare == {i \in startAtt \cap live : attached[i] \cap Vols = {}}
ResetLeavesAtMostOneBare == Cardinality(Bare) <= 1

\* Reset returns: the AttachmentSet loop is finite and WaitStatus times out.
ResetTerminates == <>(pc = "done")

=============================================================================
