------------------------------- MODULE ElbCert -------------------------------
(***************************************************************************)
(* One SElbCertificate object (loadbalancer_cert.go) the caller holds,     *)
(* with its two lazy caches: CertificateBody, which GetPublickKey fetches  *)
(* by ServerCertificateName when it is "", and the parsed x509 cert, which *)
(* ParsePublicKey keeps in the unexported field cert.  The object came     *)
(* from ListServerCertificates, whose metadata carries no body.  Other     *)
(* sessions of the account delete certificates and upload new ones, and a  *)
(* new one may take the name of a deleted one.  A certificate is an upload *)
(* record: an id with the name and the body it was uploaded with.  Bodies  *)
(* are PEM certificates; x509 parsing is left out.                         *)
(***************************************************************************)
EXTENDS BingoInvoke

CONSTANTS
    Ids,        \* ServerCertificateId of every upload
    nameOf,     \* the ServerCertificateName of each
    bodyOf,     \* the CertificateBody of each
    Empty,      \* ""
    None        \* a nil cert

Bodies == {bodyOf[c] : c \in Ids}
Keys == Bodies \cup {Empty}

VARIABLES
    live,       \* the cloud: certificates that exist
    used,       \* the cloud: ids uploaded so far
    oid,        \* the object's ServerCertificateId (its name is nameOf[oid])
    body,       \* the object's CertificateBody
    parsed,     \* the object's cert: the body it was parsed from, or None
    ret         \* what the caller's last call returned

vars == <<live, used, oid, body, parsed, ret>>

TypeOK ==
    /\ live \subseteq used /\ used \subseteq Ids /\ oid \in Ids
    /\ body \in Keys /\ parsed \in Bodies \cup {None}
    /\ ret \in Keys \cup {"ok", "err", "none"}

\* The certificates of name n that exist; the cloud keeps names unique.
Named(n) == {c \in live : nameOf[c] = n}

NamesUnique(S) == \A c, d \in S : nameOf[c] = nameOf[d] => c = d

\* The caller listed the object from a cloud with unique names.
Init ==
    /\ live \in {S \in SUBSET Ids : S # {} /\ NamesUnique(S)}
    /\ used = live /\ oid \in live
    /\ body = Empty /\ parsed = None /\ ret = "none"

-----------------------------------------------------------------------------
\* GetServerCertificate of ServerCertificateName: the body of the
\* certificate now holding the object's name, or "" after an error, which
\* GetPublickKey logs.
FetchBody(o) == IF o = "ok" THEN {bodyOf[c] : c \in Named(nameOf[oid])} ELSE {Empty}

(* GetPublickKey returning k: the cached CertificateBody, or, when it is   *)
(* "", the body fetched by name, which Unmarshal stores in the object.     *)
GetKey(k) ==
    \/ body # Empty /\ k = body /\ UNCHANGED body
    \/ /\ body = Empty
       /\ \E o \in Outcomes(<<"Get", "ServerCertificate">>, Named(nameOf[oid]) # {}) :
             k \in FetchBody(o)
       /\ body' = k

\* GetPublickKey, and GetFingerprint, which hashes what it returns.
GetPublickKey ==
    /\ \E k \in Keys : GetKey(k) /\ ret' = k
    /\ UNCHANGED <<live, used, oid, parsed>>

(* ParsePublicKey, and GetCommonName and GetSubjectAlternativeNames, which *)
(* read the cert it returns: the cached cert, or GetPublickKey parsed and  *)
(* kept; an empty key is an error.                                         *)
ParsePublicKey ==
    /\ IF parsed # None
       THEN ret' = parsed /\ UNCHANGED <<body, parsed>>
       ELSE \E k \in Keys :
               /\ GetKey(k)
               /\ parsed' = IF k = Empty THEN None ELSE k
               /\ ret' = IF k = Empty THEN "err" ELSE k
    /\ UNCHANGED <<live, used, oid>>

\* Mutant: the overlay of Refresh writes the listing's empty body over the
\* cached one.
RefreshClears ==
    /\ \E o \in Outcomes(<<"List", "ServerCertificates">>, TRUE) :
          IF o = "ok" /\ oid \in live THEN body' = Empty /\ ret' = "ok"
                                      ELSE ret' = "err" /\ UNCHANGED body
    /\ UNCHANGED <<live, used, oid, parsed>>

(* Refresh: GetILoadBalancerCertificateById(GetId()) lists the            *)
(* certificates and finds the id; jsonutils.Update overlays the object    *)
(* with the listed metadata, which has the same id and name and no body,  *)
(* and leaves the unexported cert alone.                                   *)
Refresh ==
    /\ \E o \in Outcomes(<<"List", "ServerCertificates">>, TRUE) :
          ret' = IF o = "ok" /\ oid \in live THEN "ok" ELSE "err"
    /\ UNCHANGED <<live, used, oid, body, parsed>>

\* Delete: deleteElbCertificate(GetName()), DeleteServerCertificate of the
\* name, which removes whichever certificate holds that name now.
Delete ==
    /\ \E o \in Outcomes(<<"Delete", "ServerCertificate">>, Named(nameOf[oid]) # {}) :
          /\ live' = IF Applied(o) THEN live \ Named(nameOf[oid]) ELSE live
          /\ ret' = IF o = "ok" THEN "ok" ELSE "err"
    /\ UNCHANGED <<used, oid, body, parsed>>

\* Another session uploads certificate c (UploadServerCertificate); a name
\* in use is refused.
OtherUpload(c) ==
    /\ c \notin used /\ Named(nameOf[c]) = {}
    /\ live' = live \cup {c} /\ used' = used \cup {c}
    /\ UNCHANGED <<oid, body, parsed, ret>>

\* Another session deletes certificate c.
OtherDelete(c) ==
    /\ c \in live /\ live' = live \ {c}
    /\ UNCHANGED <<used, oid, body, parsed, ret>>

Next ==
    \/ GetPublickKey \/ ParsePublicKey \/ Refresh \/ Delete
    \/ \E c \in Ids : OtherUpload(c) \/ OtherDelete(c)

Spec == Init /\ [][Next]_vars

-----------------------------------------------------------------------------
(* Properties                                                              *)

(* GetFingerprint hashes CertificateBody and GetCommonName reads the       *)
(* cached cert: whatever Refresh, Delete and other sessions do in between, *)
(* a parsed cert is the parse of the body the object still holds, so both  *)
(* describe one certificate.                                               *)
ParsedMatchesBody == parsed # None => parsed = body

=============================================================================
