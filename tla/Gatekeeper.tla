----------------------------- MODULE Gatekeeper -----------------------------
(***************************************************************************)
(* Signed evidence bundles, how the attestor makes one, and what the Go    *)
(* Gatekeeper answers to a request that carries one.  The Gatekeeper keeps *)
(* no state: its answer is a function of the request and of its clock.     *)
(*                                                                         *)
(* A digest is modelled by what it is the digest of.  A signature is a     *)
(* record of the key and of the digest it was made over; who holds no key  *)
(* can carry one about but not make one.                                   *)
(***************************************************************************)
EXTENDS Evidence, Integers

CONSTANTS
    ReleaseIds,
    EscapedIds,        \* release ids holding <, > or &
    Sources,           \* source trees, standing for their SHA-256
    Policies,          \* policy revisions, standing for their SHA-256
    ExecutionIds,
    Keys, KeyIds,
    KeyIdOf,           \* the key_id a signer prints for its key
    TrustedKey,        \* the Gatekeeper's public key
    TrustedKeyId,      \* its configured key id, NoKeyId when unset
    NoKeyId,
    ZeroDigest,        \* a well-formed digest of nothing in particular
    FutureTolerance,   \* 30 seconds in the code
    MaxTtl,            \* 900 seconds in the code
    Ttl                \* DEFAULT_TTL_SECONDS, 300 in the code

ASSUME GatekeeperAssumption ==
    /\ EscapedIds \subseteq ReleaseIds
    /\ KeyIdOf \in [Keys -> KeyIds]
    /\ TrustedKey \in Keys
    /\ TrustedKeyId \in KeyIds \union {NoKeyId}
    /\ FutureTolerance \in Nat /\ MaxTtl \in Nat /\ Ttl \in Nat
    /\ Ttl > 0 /\ Ttl <= MaxTtl
    /\ ZeroDigest \notin Findings

\* `nonce` is unique exactly when `execution_id` is, so one field stands for
\* both; `unknown` holds JSON members that are not in the schema.
Bundles ==
    [release_id : ReleaseIds, source : Sources, policy : Policies,
     execution_id : ExecutionIds, issued_at : Int, expires_at : Int,
     execution_count : Nat, unknown : SUBSET {"authority"},
     results : SUBSET [finding_id : FindingIds, severity : Severities,
                       failed : BOOLEAN, blocking_eligible : BOOLEAN,
                       evidence_digest : Findings \union {ZeroDigest}]]

Digests == [bundle : Bundles, html_escaped : BOOLEAN]

Signatures == [key : Keys, digest : Digests]

SignedBundles ==
    [bundle : Bundles, bundle_sha256 : Digests, signature : Signatures, key_id : KeyIds]

Opinions == {"NONE", "ALL_GO"}

Requests ==
    [release_id : ReleaseIds, source : Sources, policy : Policies,
     signed : SignedBundles, opinions : Opinions]

Codes == {"CONTEXT_MISMATCH", "UNTRUSTED_ISSUER", "DIGEST_MISMATCH",
          "SIGNATURE_INVALID", "NOT_YET_VALID", "EVIDENCE_EXPIRED",
          "BUNDLE_INVALID"}

Responses ==
    [accepted : BOOLEAN, decision : Decisions \union {"REJECTED"},
     code : Codes \union {""}]

----------------------------------------------------------------------------
(* The attestor's half.                                                    *)

\* Python's canonical JSON: every character of an id is written as it is.
PythonCanonical(bundle) == [bundle |-> bundle, html_escaped |-> FALSE]

NewBundle(release, source, policy, execution, now, count, findings) ==
    [release_id |-> release, source |-> source, policy |-> policy,
     execution_id |-> execution, issued_at |-> now, expires_at |-> now + Ttl,
     execution_count |-> count, unknown |-> {},
     results |-> BundleResults(findings)]

Sign(bundle, key) ==
    [bundle |-> bundle,
     bundle_sha256 |-> PythonCanonical(bundle),
     signature |-> [key |-> key, digest |-> PythonCanonical(bundle)],
     key_id |-> KeyIdOf[key]]

----------------------------------------------------------------------------
(* The Gatekeeper's half.                                                  *)

\* Decoding into the Go struct drops what the schema does not name.
Decoded(bundle) == [bundle EXCEPT !.unknown = {}]

\* json.Marshal writes <, > and & as \u003c, \u003e and \u0026.
GoCanonical(bundle) ==
    [bundle |-> bundle, html_escaped |-> bundle.release_id \in EscapedIds]

SameContext(bundle, req) ==
    /\ bundle.release_id = req.release_id
    /\ bundle.source = req.source
    /\ bundle.policy = req.policy

\* A bug: the context is taken from the bundle, so it always agrees.
VerifyNoContext(req, clock) ==
    LET bundle == Decoded(req.signed.bundle)
    IN  IF req.signed.bundle_sha256 # GoCanonical(bundle) THEN "DIGEST_MISMATCH"
        ELSE IF req.signed.signature.key # TrustedKey
                \/ req.signed.signature.digest # GoCanonical(bundle)
             THEN "SIGNATURE_INVALID"
        ELSE IF bundle.expires_at <= clock THEN "EVIDENCE_EXPIRED"
        ELSE ""

\* A bug: the time window is looked at before the digest.
VerifyTimeFirst(req, clock) ==
    LET bundle == Decoded(req.signed.bundle)
    IN  IF ~SameContext(bundle, req) THEN "CONTEXT_MISMATCH"
        ELSE IF bundle.expires_at <= clock THEN "EVIDENCE_EXPIRED"
        ELSE IF req.signed.bundle_sha256 # GoCanonical(bundle) THEN "DIGEST_MISMATCH"
        ELSE IF req.signed.signature # [key |-> TrustedKey, digest |-> GoCanonical(bundle)]
             THEN "SIGNATURE_INVALID"
        ELSE ""

\* A bug: a bundle is still accepted in the second it expires.
VerifyExpiryOffByOne(req, clock) ==
    LET bundle == Decoded(req.signed.bundle)
    IN  IF ~SameContext(bundle, req) THEN "CONTEXT_MISMATCH"
        ELSE IF req.signed.bundle_sha256 # GoCanonical(bundle) THEN "DIGEST_MISMATCH"
        ELSE IF req.signed.signature # [key |-> TrustedKey, digest |-> GoCanonical(bundle)]
             THEN "SIGNATURE_INVALID"
        ELSE IF bundle.expires_at < clock THEN "EVIDENCE_EXPIRED"
        ELSE ""

\* Verifier.Verify: the rejection code, "" when the bundle is accepted.  The
\* tests for an unknown schema and for missing or malformed context fields are
\* the ones left out: no client builds such a request.
Verify(req, clock) ==
    LET signed == req.signed
        bundle == Decoded(signed.bundle)
        digest == GoCanonical(bundle)
    IN  IF ~SameContext(bundle, req) THEN "CONTEXT_MISMATCH"
        ELSE IF TrustedKeyId # NoKeyId /\ signed.key_id # TrustedKeyId
             THEN "UNTRUSTED_ISSUER"
        ELSE IF signed.bundle_sha256 # digest THEN "DIGEST_MISMATCH"
        ELSE IF signed.signature # [key |-> TrustedKey, digest |-> digest]
             THEN "SIGNATURE_INVALID"
        ELSE IF bundle.issued_at > clock + FutureTolerance THEN "NOT_YET_VALID"
        ELSE IF \/ bundle.expires_at <= clock
                \/ bundle.expires_at - bundle.issued_at > MaxTtl
             THEN "EVIDENCE_EXPIRED"
        ELSE IF bundle.execution_count < 1 \/ DuplicateFinding(bundle.results)
             THEN "BUNDLE_INVALID"
        ELSE ""

\* A bug: unanimous agents settle it.
DecideVerifiedByVote(req, clock) ==
    IF Verify(req, clock) # ""
    THEN [accepted |-> FALSE, decision |-> "REJECTED", code |-> Verify(req, clock)]
    ELSE [accepted |-> TRUE, code |-> "",
          decision |-> IF req.opinions = "ALL_GO" THEN "GO"
                       ELSE GoDecide(req.signed.bundle.results)]

\* DecideVerified: the opinions in the request are counted and not read.
DecideVerified(req, clock) ==
    IF Verify(req, clock) # ""
    THEN [accepted |-> FALSE, decision |-> "REJECTED", code |-> Verify(req, clock)]
    ELSE [accepted |-> TRUE, code |-> "",
          decision |-> GoDecide(Decoded(req.signed.bundle).results)]
=============================================================================
