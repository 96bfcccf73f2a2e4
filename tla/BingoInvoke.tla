----------------------------- MODULE BingoInvoke -----------------------------
(***************************************************************************)
(* One call of SBingoCloudClient.invoke (bingo.go), the function every     *)
(* BingoCloud operation goes through.  An API action name is modelled by   *)
(* its verb, the prefix invoke tests, and its noun: <<"Describe",          *)
(* "Volumes">> stands for "DescribeVolumes".  Request encoding, signing,   *)
(* XML conversion and the unwrapping of "<Action>Response" are data        *)
(* transformations and are left out; what is kept is which calls are      *)
(* refused before a request is sent, and, for a call that is sent, whether *)
(* the cloud acted on it and whether the caller sees success.              *)
(***************************************************************************)

CONSTANTS
    ReadOnly,   \* cpcfg.ReadOnly of the account
    Faults      \* the failures the network and the cloud may produce

FaultKinds == {"apierr", "lost", "noreply"}
\*  "apierr"  : the reply carries Response.Errors.Error.Code (sBingoError)
\*  "lost"    : httputils.Request fails before the cloud acted
\*  "noreply" : the cloud acted, then the 5 minute timeout, io.ReadAll,
\*              xj.Convert or jsonutils.Parse failed

ASSUME ReadOnly \in BOOLEAN /\ Faults \subseteq FaultKinds

ReadVerbs == {"Get", "List", "Describe"}

\* strings.HasPrefix(action, prefix) for one of the three read prefixes.
HasReadPrefix(action) == action[1] \in ReadVerbs

\* The guard at the top of invoke: on a read-only account an action whose
\* name starts with a read prefix is refused before any request is built.
RejectedReadOnly(action) == ReadOnly /\ HasReadPrefix(action)

\* The outcomes a call can have.  accepted says whether the cloud, in its
\* current state, carries the action out; a refused action comes back as a
\* provider error, or is lost on the way.
Outcomes(action, accepted) ==
    IF RejectedReadOnly(action) THEN {"readonly"}
    ELSE IF accepted THEN {"ok"} \cup Faults
    ELSE {"apierr"} \cup (Faults \cap {"lost"})

\* The cloud acted on the call: success, or a reply lost after the fact.
Applied(o) == o \in {"ok", "noreply"}

=============================================================================
