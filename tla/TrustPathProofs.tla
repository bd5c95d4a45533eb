--------------------------- MODULE TrustPathProofs ---------------------------
(* The trust path never lets more through than the truth about a source    *)
(* allows, for any number of calls, sources, policies, keys, checks and    *)
(* clock leads, and implements the release authority.                      *)
EXTENDS TrustPath, EvidenceProofs, FiniteSetTheorems

----------------------------------------------------------------------------
(* Types of what the attestor and the Gatekeeper compute.                  *)

Results ==
    [finding_id : FindingIds, severity : Severities, failed : BOOLEAN,
     blocking_eligible : BOOLEAN, evidence_digest : Findings \union {ZeroDigest}]

LEMMA ResultTyped ==
    ASSUME NEW f \in Findings
    PROVE  CheckResult(f) \in Results
<1>1. Blocking(f) \in BOOLEAN
  BY DEF Blocking
<1>2. f.finding_id \in FindingIds /\ f.severity \in Severities
  BY DEF Findings
<1>3. QED
  BY <1>1, <1>2 DEF CheckResult, Results

LEMMA RunTyped ==
    ASSUME NEW failing \in SUBSET Checks, NEW timeouts
    PROVE  BundleResults(RunFindings(failing, timeouts)) \in SUBSET Results
<1>1. \A f \in RunFindings(failing, timeouts) : f \in Findings
  <2>1. ASSUME NEW k \in failing
        PROVE  FindingFor(k, k \in timeouts) \in Findings
    <3>1. (k \in timeouts) \in BOOLEAN
      OBVIOUS
    <3>2. QED
      BY <3>1, FindingTyped, Zenon
  <2>2. QED
    BY <2>1 DEF RunFindings
<1>2. QED
  BY <1>1, ResultTyped DEF BundleResults

LEMMA BundlesAre ==
    Bundles = [release_id : ReleaseIds, source : Sources, policy : Policies,
               execution_id : ExecutionIds, issued_at : Int, expires_at : Int,
               execution_count : Nat, unknown : SUBSET {"authority"},
               results : SUBSET Results]
BY DEF Bundles, Results

LEMMA SignedTyped ==
    ASSUME NEW bundle \in Bundles, NEW key \in Keys
    PROVE  Sign(bundle, key) \in SignedBundles
<1>1. PythonCanonical(bundle) \in Digests
  BY DEF PythonCanonical, Digests
<1>2. KeyIdOf[key] \in KeyIds
  BY GatekeeperAssumption
<1>3. [key |-> key, digest |-> PythonCanonical(bundle)] \in Signatures
  BY <1>1 DEF Signatures
<1>4. QED
  BY <1>1, <1>2, <1>3 DEF Sign, SignedBundles

LEMMA BundleTyped ==
    ASSUME NEW release \in ReleaseIds, NEW source \in Sources, NEW policy \in Policies,
           NEW execution \in ExecutionIds, NEW t \in Nat,
           NEW failing \in SUBSET Checks, NEW timeouts
    PROVE  NewBundle(release, source, policy, execution, t,
                     Cardinality(CommandsOf[policy]), RunFindings(failing, timeouts))
             \in Bundles
<1>1. Cardinality(CommandsOf[policy]) \in Nat
  BY TrustPathAssumption, FS_CardinalityType
<1>2. BundleResults(RunFindings(failing, timeouts)) \in SUBSET Results
  BY RunTyped
<1>3. t \in Int /\ t + Ttl \in Int
  BY GatekeeperAssumption
<1>4. QED
  BY <1>1, <1>2, <1>3, BundlesAre DEF NewBundle

LEMMA CarriedTyped ==
    ASSUME NEW kind, NEW s \in SignedBundles
    PROVE  \A x \in Carried(kind, s) : x \in SignedBundles /\ x.signature = s.signature
<1>1. s.bundle \in Bundles
  BY DEF SignedBundles
<1>2. s.bundle.results \in SUBSET Results
  BY <1>1, BundlesAre
<1>3. ASSUME NEW results \in SUBSET Results
      PROVE  /\ WithResults(s, results) \in SignedBundles
             /\ WithResults(s, results).signature = s.signature
  <2>1. [s.bundle EXCEPT !.results = results] \in Bundles
    BY <1>1, BundlesAre
  <2>2. WithResults(s, results) = [s EXCEPT !.bundle = [s.bundle EXCEPT !.results = results]]
    BY DEF WithResults, SignedBundles
  <2>3. QED
    BY <2>1, <2>2 DEF SignedBundles
<1>4. ASSUME NEW r \in s.bundle.results
      PROVE  /\ [r EXCEPT !.severity = "INFO"] \in Results
             /\ [r EXCEPT !.evidence_digest = ZeroDigest] \in Results
  <2>1. r \in Results
    BY <1>2
  <2>2. QED
    BY <2>1 DEF Results, Severities
<1>5. /\ [s EXCEPT !.bundle.unknown = {"authority"}] \in SignedBundles
      /\ [s EXCEPT !.bundle.unknown = {"authority"}].signature = s.signature
  <2>1. [s.bundle EXCEPT !.unknown = {"authority"}] \in Bundles
    BY <1>1, BundlesAre
  <2>2. QED
    BY <2>1 DEF SignedBundles
<1>6. CASE kind = "downgrade_severity"
  <2> DEFINE changed(r) == (s.bundle.results \ {r}) \union {[r EXCEPT !.severity = "INFO"]}
  <2>1. ASSUME NEW r \in s.bundle.results
        PROVE  changed(r) \in SUBSET Results
    BY <1>2, <1>4
  <2>2. Carried(kind, s) = {WithResults(s, changed(r)) : r \in s.bundle.results}
    BY <1>6 DEF Carried
  <2> HIDE DEF changed
  <2>3. QED
    BY <2>1, <2>2, <1>3
<1>7. CASE kind = "tamper_evidence_digest"
  <2> DEFINE changed(r) == (s.bundle.results \ {r}) \union {[r EXCEPT !.evidence_digest = ZeroDigest]}
  <2>1. ASSUME NEW r \in s.bundle.results
        PROVE  changed(r) \in SUBSET Results
    BY <1>2, <1>4
  <2>2. Carried(kind, s) = {WithResults(s, changed(r)) : r \in s.bundle.results}
    BY <1>7 DEF Carried
  <2> HIDE DEF changed
  <2>3. QED
    BY <2>1, <2>2, <1>3
<1>8. CASE kind \notin {"downgrade_severity", "tamper_evidence_digest"}
  <2>1. {} \in SUBSET Results
    OBVIOUS
  <2>2. QED
    BY <1>8, <2>1, <1>3, <1>5 DEF Carried
<1>9. QED
  BY <1>6, <1>7, <1>8

LEMMA ResponseTyped ==
    ASSUME NEW req, NEW clock
    PROVE  /\ DecideVerified(req, clock) \in Responses
           /\ DecideVerified(req, clock).accepted <=> Verify(req, clock) = ""
           /\ DecideVerified(req, clock).accepted
                => DecideVerified(req, clock).decision \in Decisions
<1>1. Verify(req, clock) \in Codes \union {""}
  BY DEF Verify, Codes
<1>2. GoDecide(Decoded(req.signed.bundle).results) \in Decisions
  BY DecisionsTyped
<1>3. CASE Verify(req, clock) = ""
  BY <1>2, <1>3 DEF DecideVerified, Responses
<1>4. CASE Verify(req, clock) # ""
  BY <1>1, <1>4 DEF DecideVerified, Responses
<1>5. QED
  BY <1>3, <1>4

----------------------------------------------------------------------------
(* What the Gatekeeper's acceptance means.                                 *)

LEMMA AcceptedDecision ==
    ASSUME NEW req, NEW clock, Verify(req, clock) = ""
    PROVE  DecideVerified(req, clock).decision = GoDecide(Decoded(req.signed.bundle).results)
BY DEF DecideVerified

LEMMA AcceptanceMeans ==
    ASSUME NEW req, NEW clock, Verify(req, clock) = ""
    PROVE  LET bundle == Decoded(req.signed.bundle)
           IN  /\ SameContext(bundle, req)
               /\ req.signed.signature = [key |-> TrustedKey, digest |-> GoCanonical(bundle)]
               /\ ~(bundle.issued_at > clock + FutureTolerance)
               /\ ~(bundle.expires_at <= clock)
BY DEF Verify

----------------------------------------------------------------------------
(* The attestor.                                                           *)

LEMMA JobTyped ==
    ASSUME NEW j \in Jobs
    PROVE  j.release \in ReleaseIds /\ j.source \in Sources
BY TrustPathAssumption DEF Jobs

LEMMA ClockTyped ==
    ASSUME TypeOK
    PROVE  now \in Nat /\ lead.attestor \in Nat /\ lead.gatekeeper \in Nat
BY TrustPathAssumption DEF TypeOK

LEMMA AttestationIsHonest ==
    ASSUME TypeOK,
           NEW c \in Calls, NEW slot \in Slots,
           NEW release \in ReleaseIds, NEW source \in Sources,
           NEW a \in Attestable(c, slot, release, source)
    PROVE  /\ a \in Attestations
           /\ HonestAttestation(a)
           /\ a.signed.bundle.release_id = release
           /\ a.signed.bundle.source = source
           /\ a.signed.bundle.execution_id = <<c, slot>>
<1> DEFINE policy == attestor.policy
<1>1. PICK timeouts \in SUBSET (CommandsOf[policy] \intersect Flaky) :
         a = Attestation(c, slot, release, source,
                         FailingUnder(source, policy) \union timeouts, timeouts)
  BY DEF Attestable
<1> DEFINE failing == FailingUnder(source, policy) \union timeouts
           t == now + lead.attestor
           bundle == NewBundle(release, source, policy, <<c, slot>>, t,
                               Cardinality(CommandsOf[policy]),
                               RunFindings(failing, timeouts))
<1>2. policy \in Policies /\ attestor.key \in Keys
  BY TrustPathAssumption DEF TypeOK
<1>3. failing \in SUBSET Checks /\ timeouts \in SUBSET Checks
  <2>1. Failing[source] \in SUBSET Checks
    BY TrustPathAssumption
  <2>2. QED
    BY <2>1, TrustPathAssumption DEF FailingUnder
<1>4. now \in Nat /\ lead.attestor \in Nat /\ t \in Nat
  BY ClockTyped
<1>5. <<c, slot>> \in ExecutionIds
  BY TrustPathAssumption
<1>6. bundle \in Bundles
  BY <1>2, <1>3, <1>4, <1>5, BundleTyped
<1>7. Sign(bundle, attestor.key) \in SignedBundles
  BY <1>2, <1>6, SignedTyped
<1>8. a = [signed |-> Sign(bundle, attestor.key), failing |-> failing,
           timeouts |-> timeouts, made |-> now]
  BY <1>1 DEF Attestation
<1>9. a \in Attestations
  BY <1>3, <1>4, <1>7, <1>8 DEF Attestations
<1>10. /\ bundle.release_id = release /\ bundle.source = source
       /\ bundle.policy = policy /\ bundle.execution_id = <<c, slot>>
       /\ bundle.issued_at = t /\ bundle.expires_at = t + Ttl
       /\ bundle.results = BundleResults(RunFindings(failing, timeouts))
  BY DEF NewBundle
<1> HIDE DEF bundle
<1>11. /\ a.signed.bundle = bundle
       /\ a.signed.signature.digest = PythonCanonical(bundle)
       /\ a.failing = failing /\ a.timeouts = timeouts /\ a.made = now
  BY <1>8 DEF Sign
<1>12. HonestAttestation(a)
  BY <1>10, <1>11 DEF HonestAttestation
<1>13. QED
  BY <1>9, <1>10, <1>11, <1>12

----------------------------------------------------------------------------
(* The inductive invariant.                                                *)

\* Steps that neither sign nor carry a bundle leave three conjuncts alone.
LEMMA EvidenceFrame ==
    ASSUME IInv, UNCHANGED <<lead, issued, signed, net, replies>>
    PROVE  IssuedAreHonest' /\ CarriedAreUnforged' /\ RepliesAreComputed'
<1>1. IssuedAreHonest'
  BY DEF IInv, IssuedAreHonest, HonestAttestation
<1>2. CarriedAreUnforged'
  BY DEF IInv, CarriedAreUnforged, Unforged
<1>3. RepliesAreComputed'
  BY DEF IInv, RepliesAreComputed
<1>4. QED
  BY <1>1, <1>2, <1>3

LEMMA InitInvariant == Init => IInv
<1> SUFFICES ASSUME Init PROVE IInv
  OBVIOUS
<1>1. TypeOK
  BY TrustPathAssumption DEF Init, TypeOK, Stages
<1>2. CallsCarryBundles /\ IssuedAreHonest /\ CarriedAreUnforged /\ RepliesAreComputed
  BY DEF Init, CallsCarryBundles, IssuedAreHonest, CarriedAreUnforged, RepliesAreComputed
<1>3. QED
  BY <1>1, <1>2 DEF IInv

\* A carried bundle stays unforged while the attestor signs more.
LEMMA UnforgedStable ==
    ASSUME NEW s, Unforged(s), issued \subseteq issued'
    PROVE  Unforged(s)'
BY DEF Unforged

\* What may come to be carried in a step, and need not have been before.
LEMMA CarriedFrame ==
    ASSUME IInv, issued \subseteq issued', UNCHANGED <<lead, replies>>,
           \A a \in issued' \ issued : HonestAttestation(a),
           \A s : (\E c \in Calls : s = signed'[c] /\ s # signed[c]) => Unforged(s)',
           \A m \in net' \ net : Unforged(m.req.signed)'
    PROVE  IssuedAreHonest' /\ CarriedAreUnforged' /\ RepliesAreComputed'
<1>1. IssuedAreHonest'
  BY DEF IInv, IssuedAreHonest, HonestAttestation
<1>2. ASSUME NEW c \in Calls, NEW s, s = signed'[c], s # None
      PROVE  Unforged(s)'
  <2>1. CASE s = signed[c]
    <3>1. Unforged(s)
      BY <1>2, <2>1 DEF IInv, CarriedAreUnforged
    <3>2. QED
      BY <3>1, UnforgedStable
  <2>2. CASE s # signed[c]
    BY <1>2, <2>2
  <2>3. QED
    BY <2>1, <2>2
<1>3. \A m \in net' : Unforged(m.req.signed)'
  <2>1. ASSUME NEW m \in net
        PROVE  Unforged(m.req.signed)'
    BY UnforgedStable DEF IInv, CarriedAreUnforged
  <2>2. QED
    BY <2>1
<1>4. \A r \in replies' : Unforged(r.req.signed)'
  BY UnforgedStable DEF IInv, CarriedAreUnforged
<1>5. RepliesAreComputed'
  BY DEF IInv, RepliesAreComputed
<1>6. \A c \in Calls : (signed[c] # None => Unforged(signed[c]))'
  BY <1>2 DEF Unforged
<1>7. QED
  BY <1>1, <1>3, <1>4, <1>5, <1>6 DEF CarriedAreUnforged

LEMMA StartStep ==
    ASSUME IInv, NEW c \in Calls, Start(c)
    PROVE  IInv'
<1>1. TypeOK'
  BY DEF IInv, TypeOK, Start, GoTo, Stages
<1>2. CallsCarryBundles'
  <2>1. PICK j \in Jobs : job' = [job EXCEPT ![c] = j]
    BY DEF Start
  <2>2. j # None
    BY TrustPathAssumption
  <2>3. QED
    BY <2>1, <2>2 DEF IInv, TypeOK, Start, GoTo, CallsCarryBundles
<1>3. QED
  BY <1>1, <1>2, EvidenceFrame DEF IInv, Start

LEMMA AttestStep ==
    ASSUME IInv, NEW c \in Calls, Attest(c)
    PROVE  IInv'
<1>1. job[c] \in Jobs
  BY DEF IInv, CallsCarryBundles, TypeOK, Attest
<1>2. PICK a \in Attestable(c, "current", job[c].release, job[c].source) :
         issued' = issued \union {a} /\ signed' = [signed EXCEPT ![c] = a.signed]
  BY DEF Attest
<1>3. a \in Attestations /\ HonestAttestation(a)
  BY <1>1, JobTyped, AttestationIsHonest DEF IInv, Slots
<1>4. a.signed \in SignedBundles /\ a.signed # None
  BY <1>3, TrustPathAssumption DEF Attestations
<1>5. TypeOK'
  BY <1>2, <1>3, <1>4 DEF IInv, TypeOK, Attest, GoTo, AfterAttest, Stages
<1>6. CallsCarryBundles'
  BY <1>1, <1>2, <1>4, TrustPathAssumption
     DEF IInv, TypeOK, CallsCarryBundles, Attest, GoTo, AfterAttest
<1>7. \A d \in Calls : signed'[d] # signed[d] => signed'[d] = a.signed
  BY <1>2 DEF IInv, TypeOK
<1>8. Unforged(a.signed)'
  BY <1>2 DEF Unforged
<1>9. \A s : (\E d \in Calls : s = signed'[d] /\ s # signed[d]) => Unforged(s)'
  BY <1>7, <1>8
<1>10. IssuedAreHonest' /\ CarriedAreUnforged' /\ RepliesAreComputed'
  BY <1>2, <1>3, <1>9, CarriedFrame DEF Attest
<1>11. QED
  BY <1>5, <1>6, <1>10 DEF IInv

\* What a demo signs itself is a bundle like any other, under an untrusted key.
LEMMA LocalIsUntrusted ==
    ASSUME TypeOK, NEW c \in Calls, NEW slot \in Slots,
           NEW release \in ReleaseIds, NEW source \in Sources,
           NEW s \in LocallySigned(c, slot, release, source)
    PROVE  s \in SignedBundles /\ s # None /\ Unforged(s)'
<1>1. PICK policy \in Policies :
         s \in {Sign(NewBundle(release, source, policy, <<c, slot>>, now,
                               Cardinality(CommandsOf[policy]),
                               RunFindings(f \union (Failing[source] \intersect PlatformChecks), {})),
                     DemoKey) : f \in {{}, CommandsOf[policy]}}
  BY DEF LocallySigned
<1>2. PICK failing \in {{}, CommandsOf[policy]} :
         s = Sign(NewBundle(release, source, policy, <<c, slot>>, now,
                            Cardinality(CommandsOf[policy]),
                            RunFindings(failing \union (Failing[source] \intersect PlatformChecks), {})),
                  DemoKey)
  BY <1>1
<1> DEFINE seen == failing \union (Failing[source] \intersect PlatformChecks)
           bundle == NewBundle(release, source, policy, <<c, slot>>, now,
                               Cardinality(CommandsOf[policy]), RunFindings(seen, {}))
<1>3. seen \in SUBSET Checks
  <2>1. CommandsOf[policy] \in SUBSET Checks /\ Failing[source] \in SUBSET Checks
    BY TrustPathAssumption
  <2>2. QED
    BY <2>1
<1>4. <<c, slot>> \in ExecutionIds /\ DemoKey \in Keys
  BY TrustPathAssumption
<1>5. bundle \in Bundles
  BY <1>3, <1>4, ClockTyped, BundleTyped
<1>6. Sign(bundle, DemoKey) \in SignedBundles
  BY <1>4, <1>5, SignedTyped
<1>7. Sign(bundle, DemoKey).signature.key # TrustedKey
  BY TrustPathAssumption DEF Sign
<1>8. s = Sign(bundle, DemoKey)
  BY <1>2
<1> HIDE DEF bundle
<1>9. QED
  BY <1>6, <1>7, <1>8, TrustPathAssumption DEF Unforged

LEMMA SignLocallyStep ==
    ASSUME IInv, NEW c \in Calls, SignLocally(c)
    PROVE  IInv'
<1>1. job[c] \in Jobs
  BY DEF IInv, CallsCarryBundles, TypeOK, SignLocally
<1>2. PICK s \in LocallySigned(c, "current", job[c].release, job[c].source) :
         signed' = [signed EXCEPT ![c] = s]
  BY DEF SignLocally
<1>3. s \in SignedBundles /\ s # None /\ Unforged(s)'
  BY <1>1, JobTyped, LocalIsUntrusted DEF IInv, Slots
<1>4. TypeOK'
  BY <1>2, <1>3 DEF IInv, TypeOK, SignLocally, GoTo, Stages
<1>5. CallsCarryBundles'
  BY <1>1, <1>2, <1>3, TrustPathAssumption
     DEF IInv, TypeOK, CallsCarryBundles, SignLocally, GoTo
<1>6. \A d \in Calls : signed'[d] # signed[d] => signed'[d] = s
  BY <1>2 DEF IInv, TypeOK
<1>7. \A t : (\E d \in Calls : t = signed'[d] /\ t # signed[d]) => Unforged(t)'
  BY <1>3, <1>6
<1>8. IssuedAreHonest' /\ CarriedAreUnforged' /\ RepliesAreComputed'
  BY <1>7, CarriedFrame DEF SignLocally
<1>9. QED
  BY <1>4, <1>5, <1>8 DEF IInv

\* The request of a call is well typed whatever bundle it carries.
LEMMA RequestTyped ==
    ASSUME NEW c \in Calls, NEW j \in Jobs, NEW current \in SignedBundles,
           NEW s \in SignedBundles
    PROVE  [call |-> c,
            req |-> [release_id |-> j.release, source |-> j.source,
                     policy |-> current.bundle.policy,
                     signed |-> s, opinions |-> "ALL_GO"]] \in Messages
<1>1. current.bundle.policy \in Policies
  BY DEF SignedBundles, Bundles
<1>2. QED
  BY <1>1, JobTyped DEF Messages, Requests, Opinions

LEMMA ReplayLocallyStep ==
    ASSUME IInv, NEW c \in Calls, ReplayLocally(c)
    PROVE  IInv'
<1>1. job[c] \in Jobs
  BY DEF IInv, CallsCarryBundles, TypeOK, ReplayLocally
<1>2. PICK s \in LocallySigned(c, "current", job[c].release, job[c].source),
           previous \in LocallySigned(c, "previous", PreviousRelease, PreviousSource) :
         /\ signed' = [signed EXCEPT ![c] = s]
         /\ net' = net \union
               {[call |-> c,
                 req |-> [release_id |-> job[c].release, source |-> job[c].source,
                          policy |-> s.bundle.policy,
                          signed |-> previous, opinions |-> "ALL_GO"]]}
  BY DEF ReplayLocally
<1>3. s \in SignedBundles /\ s # None /\ Unforged(s)'
  BY <1>1, JobTyped, LocalIsUntrusted DEF IInv, Slots
<1>4. previous \in SignedBundles /\ Unforged(previous)'
  BY TrustPathAssumption, LocalIsUntrusted DEF IInv, Slots
<1> DEFINE message == [call |-> c,
                       req |-> [release_id |-> job[c].release, source |-> job[c].source,
                                policy |-> s.bundle.policy,
                                signed |-> previous, opinions |-> "ALL_GO"]]
<1>5. message \in Messages
  BY <1>1, <1>3, <1>4, RequestTyped
<1>6. net' = net \union {message} /\ message.req.signed = previous
  BY <1>2
<1> HIDE DEF message
<1>7. TypeOK'
  BY <1>2, <1>3, <1>5, <1>6 DEF IInv, TypeOK, ReplayLocally, GoTo, Stages
<1>8. CallsCarryBundles'
  BY <1>1, <1>2, <1>3, TrustPathAssumption
     DEF IInv, TypeOK, CallsCarryBundles, ReplayLocally, GoTo
<1>9. \A d \in Calls : signed'[d] # signed[d] => signed'[d] = s
  BY <1>2 DEF IInv, TypeOK
<1>10. \A t : (\E d \in Calls : t = signed'[d] /\ t # signed[d]) => Unforged(t)'
  BY <1>3, <1>9
<1>11. \A m \in net' \ net : Unforged(m.req.signed)'
  BY <1>4, <1>6
<1>12. IssuedAreHonest' /\ CarriedAreUnforged' /\ RepliesAreComputed'
  BY <1>10, <1>11, CarriedFrame DEF ReplayLocally
<1>13. QED
  BY <1>7, <1>8, <1>12 DEF IInv

LEMMA AttestPreviousStep ==
    ASSUME IInv, NEW c \in Calls, AttestPrevious(c)
    PROVE  IInv'
<1>1. job[c] \in Jobs /\ signed[c] \in SignedBundles
  BY DEF IInv, CallsCarryBundles, TypeOK, AttestPrevious
<1> DEFINE message(s) ==
               [call |-> c,
                req |-> [release_id |-> job[c].release, source |-> job[c].source,
                         policy |-> signed[c].bundle.policy,
                         signed |-> s, opinions |-> "ALL_GO"]]
<1>2. PICK a \in Attestable(c, "previous", PreviousRelease, PreviousSource) :
         issued' = issued \union {a} /\ net' = net \union {message(a.signed)}
  BY DEF AttestPrevious
<1>3. a \in Attestations /\ HonestAttestation(a)
  BY TrustPathAssumption, AttestationIsHonest DEF IInv, Slots
<1>4. a.signed \in SignedBundles
  BY <1>3 DEF Attestations
<1>5. message(a.signed) \in Messages
  BY <1>1, <1>4, RequestTyped
<1>6. message(a.signed).req.signed = a.signed
  OBVIOUS
<1> HIDE DEF message
<1>7. TypeOK'
  BY <1>2, <1>3, <1>5 DEF IInv, TypeOK, AttestPrevious, GoTo, Stages
<1>8. CallsCarryBundles'
  BY DEF IInv, TypeOK, CallsCarryBundles, AttestPrevious, GoTo
<1>9. Unforged(a.signed)'
  BY <1>2 DEF Unforged
<1>10. \A m \in net' \ net : Unforged(m.req.signed)'
  BY <1>2, <1>6, <1>9
<1>11. \A s : (\E d \in Calls : s = signed'[d] /\ s # signed[d]) => Unforged(s)'
  BY DEF AttestPrevious
<1>12. IssuedAreHonest' /\ CarriedAreUnforged' /\ RepliesAreComputed'
  BY <1>2, <1>3, <1>10, <1>11, CarriedFrame DEF AttestPrevious
<1>13. QED
  BY <1>7, <1>8, <1>12 DEF IInv

LEMMA AttestFailsStep ==
    ASSUME IInv, NEW c \in Calls, AttestFails(c)
    PROVE  IInv'
<1>1. job[c] \in Jobs
  BY DEF IInv, CallsCarryBundles, TypeOK, AttestFails
<1>2. CASE UNCHANGED issued
  <2>1. TypeOK'
    BY <1>2 DEF IInv, TypeOK, AttestFails, GoTo, Stages
  <2>2. CallsCarryBundles'
    BY DEF IInv, TypeOK, CallsCarryBundles, AttestFails, GoTo
  <2>3. QED
    BY <1>2, <2>1, <2>2, EvidenceFrame DEF IInv, AttestFails
<1>3. CASE issued' # issued
  <2>1. \E a : a \in Attestations /\ HonestAttestation(a) /\ issued' = issued \union {a}
    <3>1. CASE stage[c] = "attest"
      <4>1. PICK a \in Attestable(c, "current", job[c].release, job[c].source) :
               issued' = issued \union {a}
        BY <1>3, <3>1 DEF AttestFails
      <4>2. QED
        BY <1>1, <4>1, JobTyped, AttestationIsHonest DEF IInv, Slots
    <3>2. CASE stage[c] # "attest"
      <4>1. PICK a \in Attestable(c, "previous", PreviousRelease, PreviousSource) :
               issued' = issued \union {a}
        BY <1>3, <3>2 DEF AttestFails
      <4>2. QED
        BY <4>1, TrustPathAssumption, AttestationIsHonest DEF IInv, Slots
    <3>3. QED
      BY <3>1, <3>2
  <2>2. PICK a : a \in Attestations /\ HonestAttestation(a) /\ issued' = issued \union {a}
    BY <2>1
  <2>3. TypeOK'
    BY <2>2 DEF IInv, TypeOK, AttestFails, GoTo, Stages
  <2>4. CallsCarryBundles'
    BY DEF IInv, TypeOK, CallsCarryBundles, AttestFails, GoTo
  <2>5. \A s : (\E d \in Calls : s = signed'[d] /\ s # signed[d]) => Unforged(s)'
    BY DEF AttestFails
  <2>6. IssuedAreHonest' /\ CarriedAreUnforged' /\ RepliesAreComputed'
    BY <2>2, <2>5, CarriedFrame DEF AttestFails
  <2>7. QED
    BY <2>3, <2>4, <2>6 DEF IInv
<1>4. QED
  BY <1>2, <1>3

LEMMA SendStep ==
    ASSUME IInv, NEW c \in Calls, Send(c)
    PROVE  IInv'
<1>1. job[c] \in Jobs /\ signed[c] \in SignedBundles /\ signed[c] # None
  BY DEF IInv, CallsCarryBundles, TypeOK, Send
<1> DEFINE message(s) ==
               [call |-> c,
                req |-> [release_id |-> job[c].release, source |-> job[c].source,
                         policy |-> signed[c].bundle.policy,
                         signed |-> s, opinions |-> "ALL_GO"]]
<1>2. PICK s \in Carried(job[c].kind, signed[c]) : net' = net \union {message(s)}
  BY DEF Send
<1>3. s \in SignedBundles /\ s.signature = signed[c].signature
  BY <1>1, CarriedTyped
<1>4. message(s) \in Messages
  BY <1>1, <1>3, RequestTyped
<1>5. message(s).req.signed = s
  OBVIOUS
<1> HIDE DEF message
<1>6. TypeOK'
  BY <1>2, <1>4 DEF IInv, TypeOK, Send, GoTo, Stages
<1>7. CallsCarryBundles'
  BY DEF IInv, TypeOK, CallsCarryBundles, Send, GoTo
<1>8. Unforged(s)
  BY <1>1, <1>3 DEF IInv, CarriedAreUnforged, Unforged
<1>9. \A m \in net' \ net : Unforged(m.req.signed)'
  BY <1>2, <1>5, <1>8, UnforgedStable DEF Send
<1>10. \A t : (\E d \in Calls : t = signed'[d] /\ t # signed[d]) => Unforged(t)'
  BY DEF Send
<1>11. IssuedAreHonest' /\ CarriedAreUnforged' /\ RepliesAreComputed'
  BY <1>9, <1>10, CarriedFrame DEF Send
<1>12. QED
  BY <1>6, <1>7, <1>11 DEF IInv

LEMMA HandleStep ==
    ASSUME IInv, NEW m \in net, Handle(m)
    PROVE  IInv'
<1> DEFINE reply == [call |-> m.call, req |-> m.req, at |-> now,
                     response |-> DecideVerified(m.req, now + lead.gatekeeper)]
<1>1. replies' = replies \union {reply}
  BY DEF Handle
<1>2. m \in Messages /\ now \in Nat
  BY ClockTyped DEF IInv, TypeOK
<1>3. reply \in [call : Calls, req : Requests, response : Responses, at : Nat]
  BY <1>2, ResponseTyped DEF Messages
<1>4. TypeOK'
  BY <1>1, <1>3 DEF IInv, TypeOK, Handle, callVars
<1>5. CallsCarryBundles'
  BY DEF IInv, CallsCarryBundles, Handle, callVars
<1>6. IssuedAreHonest'
  BY DEF IInv, IssuedAreHonest, HonestAttestation, Handle
<1>7. CarriedAreUnforged'
  <2>1. reply.req.signed = m.req.signed
    OBVIOUS
  <2>2. Unforged(m.req.signed)
    BY DEF IInv, CarriedAreUnforged
  <2> HIDE DEF reply
  <2>3. QED
    BY <1>1, <2>1, <2>2 DEF IInv, CarriedAreUnforged, Unforged, Handle, callVars
<1>8. RepliesAreComputed'
  BY <1>1 DEF IInv, RepliesAreComputed, Handle
<1>9. QED
  BY <1>4, <1>5, <1>6, <1>7, <1>8 DEF IInv

LEMMA ReceiveStep ==
    ASSUME IInv, NEW c \in Calls, Receive(c)
    PROVE  IInv'
<1>1. PICK r \in replies :
         /\ r.call = c
         /\ answer' = [answer EXCEPT ![c] = r.response]
         /\ GoTo(c, IF job[c].kind # "proof" THEN "done"
                    ELSE IF r.response.accepted THEN "verdict"
                    ELSE "failed")
  BY DEF Receive
<1>2. r.response \in Responses /\ r.response # None
  BY TrustPathAssumption DEF IInv, TypeOK
<1>3. r.response.accepted => r.response.decision \in Decisions
  BY ResponseTyped DEF IInv, RepliesAreComputed
<1>4. TypeOK'
  BY <1>1, <1>2 DEF IInv, TypeOK, Receive, GoTo, Stages
<1>5. CallsCarryBundles'
  BY <1>1, <1>2, <1>3 DEF IInv, TypeOK, CallsCarryBundles, Receive, GoTo
<1>6. QED
  BY <1>4, <1>5, EvidenceFrame DEF IInv, Receive

LEMMA PersistStep ==
    ASSUME IInv, NEW c \in Calls, Persist(c) \/ PersistFails(c)
    PROVE  IInv'
<1>1. stage[c] = "verdict"
  BY DEF Persist, PersistFails
<1>2. /\ signed[c] \in SignedBundles
      /\ answer[c].decision \in Decisions
  BY <1>1 DEF IInv, CallsCarryBundles, TypeOK
<1>3. Entry(c) \in [call : Calls, decision : Decisions, signed : SignedBundles]
  BY <1>2 DEF Entry
<1>4. ledger' \in {ledger, ledger \union {Entry(c)}}
  BY DEF Persist, PersistFails
<1>5. TypeOK'
  BY <1>3, <1>4 DEF IInv, TypeOK, Persist, PersistFails, GoTo, Stages
<1>6. CallsCarryBundles'
  BY DEF IInv, TypeOK, CallsCarryBundles, Persist, PersistFails, GoTo
<1>7. QED
  BY <1>5, <1>6, EvidenceFrame DEF IInv, Persist, PersistFails

\* The steps of a call that only move it on.
LEMMA MoveStep ==
    ASSUME IInv, NEW c \in Calls, CheckPins(c) \/ NothingToAttack(c) \/ Timeout(c)
    PROVE  IInv'
<1>1. TypeOK'
  BY DEF IInv, TypeOK, CheckPins, NothingToAttack, Timeout, GoTo, Stages
<1>2. CallsCarryBundles'
  BY DEF IInv, TypeOK, CallsCarryBundles, CheckPins, NothingToAttack, Timeout, GoTo
<1>3. QED
  BY <1>1, <1>2, EvidenceFrame DEF IInv, CheckPins, NothingToAttack, Timeout

\* Redeployments, the passing of time, and steps that change nothing.
LEMMA EnvironmentStep ==
    ASSUME IInv, Redeploy \/ Tick \/ UNCHANGED vars
    PROVE  IInv'
<1>1. TypeOK'
  BY TrustPathAssumption DEF IInv, TypeOK, Redeploy, Tick, vars, callVars
<1>2. CallsCarryBundles'
  BY DEF IInv, CallsCarryBundles, Redeploy, Tick, vars, callVars
<1>3. QED
  BY <1>1, <1>2, EvidenceFrame DEF IInv, Redeploy, Tick, vars, callVars

LEMMA StepInvariant == IInv /\ [Next]_vars => IInv'
<1> SUFFICES ASSUME IInv, [Next]_vars PROVE IInv'
  OBVIOUS
<1>1. ASSUME NEW c \in Calls, CallStep(c)
      PROVE  IInv'
  BY <1>1, StartStep, AttestStep, AttestPreviousStep, AttestFailsStep, SignLocallyStep,
     ReplayLocallyStep,
     SendStep, ReceiveStep, PersistStep, MoveStep DEF CallStep
<1>2. ASSUME NEW m \in net, Handle(m)
      PROVE  IInv'
  BY <1>2, HandleStep
<1>3. QED
  BY <1>1, <1>2, EnvironmentStep DEF Next

THEOREM Invariance == Spec => []IInv
<1>1. QED
  BY InitInvariant, StepInvariant, PTL DEF Spec

\* Every state has the types the modules declare.
THEOREM TypeCorrect == Spec => []TypeOK
<1>1. IInv => TypeOK
  BY DEF IInv
<1>2. QED
  BY <1>1, Invariance, PTL

----------------------------------------------------------------------------
(* Safety.                                                                 *)

\* What was accepted is, but for members outside the schema, what the attestor
\* signed: the bridge from the Gatekeeper's arithmetic to what was observed.
LEMMA AcceptedWasAttested ==
    ASSUME IInv, NEW r \in AcceptedReplies
    PROVE  \E a \in issued :
              /\ a.signed.bundle = Decoded(r.req.signed.bundle)
              /\ a.signed.bundle.release_id = r.req.release_id
              /\ a.signed.bundle.source = r.req.source
              /\ a.signed.bundle.policy = r.req.policy
              /\ r.response.decision = DecisionFor(a.failing)
              /\ ~(a.signed.bundle.issued_at > r.at + lead.gatekeeper + FutureTolerance)
              /\ ~(a.signed.bundle.expires_at <= r.at + lead.gatekeeper)
<1> DEFINE clock == r.at + lead.gatekeeper
           bundle == Decoded(r.req.signed.bundle)
<1>1. r \in replies /\ r.response.accepted
  BY DEF AcceptedReplies
<1>2. r.response = DecideVerified(r.req, clock)
  BY <1>1 DEF IInv, RepliesAreComputed
<1>3. Verify(r.req, clock) = ""
  BY <1>1, <1>2, ResponseTyped
<1>4. /\ SameContext(bundle, r.req)
      /\ r.req.signed.signature = [key |-> TrustedKey, digest |-> GoCanonical(bundle)]
      /\ ~(bundle.issued_at > clock + FutureTolerance)
      /\ ~(bundle.expires_at <= clock)
  BY <1>3, AcceptanceMeans
<1>5. r.response.decision = GoDecide(bundle.results)
  BY <1>2, <1>3, AcceptedDecision
<1>6. Unforged(r.req.signed)
  BY <1>1 DEF IInv, CarriedAreUnforged
<1>7. PICK a \in issued : a.signed.signature = r.req.signed.signature
  BY <1>4, <1>6 DEF Unforged
<1>8. HonestAttestation(a)
  BY DEF IInv, IssuedAreHonest
<1>9. PythonCanonical(a.signed.bundle) = GoCanonical(bundle)
  BY <1>4, <1>7, <1>8 DEF HonestAttestation
<1>10. a.signed.bundle = bundle
  BY <1>9 DEF PythonCanonical, GoCanonical
<1>11. bundle.results = BundleResults(RunFindings(a.failing, a.timeouts))
  BY <1>8, <1>10 DEF HonestAttestation
<1>12. r.response.decision = DecisionFor(a.failing)
  BY <1>5, <1>11, GatesDecideOnFailures
<1> HIDE DEF bundle
<1>13. QED
  BY <1>4, <1>10, <1>12 DEF SameContext, bundle

LEMMA NoDecisionAboveTruthHolds == IInv => NoDecisionAboveTruth
<1> SUFFICES ASSUME IInv, NEW r \in AcceptedReplies
             PROVE  Permissiveness[r.response.decision]
                      <= Permissiveness[DecisionFor(FailingUnder(r.req.source, r.req.policy))]
  BY DEF NoDecisionAboveTruth
<1>1. PICK a \in issued :
         /\ a.signed.bundle.source = r.req.source
         /\ a.signed.bundle.policy = r.req.policy
         /\ r.response.decision = DecisionFor(a.failing)
  BY AcceptedWasAttested
<1>2. FailingUnder(r.req.source, r.req.policy) \subseteq a.failing
  BY <1>1 DEF IInv, IssuedAreHonest, HonestAttestation
<1>3. QED
  BY <1>1, <1>2, DecisionMonotone

\* No client, network or clock can make the Gatekeeper accept a decision more
\* permissive than the failures of the source call for.
THEOREM TrustPathSafety == Spec => []NoDecisionAboveTruth
<1>1. QED
  BY Invariance, NoDecisionAboveTruthHolds, PTL

LEMMA FreshWhenAcceptedHolds == IInv => FreshWhenAccepted
<1> SUFFICES ASSUME IInv, NEW r \in AcceptedReplies
             PROVE  \E a \in issued :
                       /\ a.signed.bundle.execution_id = r.req.signed.bundle.execution_id
                       /\ r.at + lead.gatekeeper < a.made + lead.attestor + Ttl
                       /\ a.made + lead.attestor <= r.at + lead.gatekeeper + FutureTolerance
  BY DEF FreshWhenAccepted
<1>1. PICK a \in issued :
         /\ a.signed.bundle = Decoded(r.req.signed.bundle)
         /\ ~(a.signed.bundle.issued_at > r.at + lead.gatekeeper + FutureTolerance)
         /\ ~(a.signed.bundle.expires_at <= r.at + lead.gatekeeper)
  BY AcceptedWasAttested
<1>2. /\ a.signed.bundle.issued_at = a.made + lead.attestor
      /\ a.signed.bundle.expires_at = a.made + lead.attestor + Ttl
  BY DEF IInv, IssuedAreHonest, HonestAttestation
<1>3. r \in replies /\ r.req.signed.bundle \in Bundles /\ r.at \in Nat /\ a.made \in Nat
  BY DEF AcceptedReplies, IInv, TypeOK, Requests, SignedBundles, Attestations
<1>4. a.signed.bundle.execution_id = r.req.signed.bundle.execution_id
  BY <1>1, <1>3 DEF Decoded, Bundles
<1>5. lead.attestor \in Nat /\ lead.gatekeeper \in Nat /\ Ttl \in Nat /\ FutureTolerance \in Nat
  BY ClockTyped, GatekeeperAssumption DEF IInv
<1>6. QED
  BY <1>1, <1>2, <1>3, <1>4, <1>5

\* Whatever the delays, an accepted decision is about evidence less than a TTL
\* old, up to the difference of the two clocks.
THEOREM TrustPathFreshness == Spec => []FreshWhenAccepted
<1>1. QED
  BY Invariance, FreshWhenAcceptedHolds, PTL

----------------------------------------------------------------------------
(* The trust path implements the release authority.                        *)

\* Every attestation of a call uses an execution id of its own, and the call
\* has left the stage in which it asked for it.
ExecutionsAreFresh ==
    \A a \in issued :
        \E c \in Calls, slot \in Slots :
            /\ a.signed.bundle.execution_id = <<c, slot>>
            /\ stage[c] \notin {"idle", "attest"}
            /\ slot = "previous" => stage[c] # "attest_previous"

LEMMA InitFresh == Init => ExecutionsAreFresh
BY DEF Init, ExecutionsAreFresh

\* A call never goes back to a stage in which it asks for an attestation.
LEMMA StagesAdvance ==
    ASSUME IInv, [Next]_vars, NEW c \in Calls
    PROVE  /\ stage[c] \notin {"idle", "attest"} => stage'[c] \notin {"idle", "attest"}
           /\ stage[c] \notin {"idle", "attest", "attest_previous"} =>
                stage'[c] \notin {"idle", "attest", "attest_previous"}
<1>1. stage \in [Calls -> Stages]
  BY DEF IInv, TypeOK
<1>2. CASE UNCHANGED stage
  BY <1>2
<1>3. ASSUME NEW d \in Calls, CallStep(d)
      PROVE  \/ UNCHANGED stage
             \/ \E s \in Stages :
                   /\ stage' = [stage EXCEPT ![d] = s]
                   /\ s # "idle"
                   /\ s = "attest" => stage[d] = "idle"
                   /\ s = "attest_previous" => stage[d] = "attest"
  BY <1>3 DEF CallStep, Start, Attest, AttestPrevious, AttestFails, SignLocally, ReplayLocally,
              CheckPins, Send, NothingToAttack, Receive, Timeout, Persist, PersistFails,
              GoTo, AfterAttest, Stages
<1>4. ASSUME NEW d \in Calls, CallStep(d)
      PROVE  /\ stage[c] \notin {"idle", "attest"} => stage'[c] \notin {"idle", "attest"}
             /\ stage[c] \notin {"idle", "attest", "attest_previous"} =>
                  stage'[c] \notin {"idle", "attest", "attest_previous"}
  BY <1>1, <1>3, <1>4
<1>5. CASE (\E m \in net : Handle(m)) \/ Redeploy \/ Tick \/ UNCHANGED vars
  BY <1>2, <1>5 DEF Handle, Redeploy, Tick, vars, callVars
<1>6. QED
  BY <1>4, <1>5 DEF Next

\* Who signs in a step, and for which execution.
LEMMA WhatIsIssued ==
    ASSUME IInv, [Next]_vars, issued' # issued
    PROVE  \E c \in Calls, slot \in Slots, a \in Attestations :
              /\ issued' = issued \union {a}
              /\ HonestAttestation(a)
              /\ a.signed.bundle.execution_id = <<c, slot>>
              /\ stage[c] = IF slot = "current" THEN "attest" ELSE "attest_previous"
              /\ stage'[c] \notin {"idle", "attest", "attest_previous"}
                   \/ (slot = "current" /\ stage'[c] = "attest_previous")
              /\ UNCHANGED <<lead, replies>>
<1>1. PICK c \in Calls : Attest(c) \/ AttestPrevious(c) \/ AttestFails(c)
  BY DEF Next, CallStep, Start, SignLocally, ReplayLocally, CheckPins, Send, NothingToAttack, Receive,
         Timeout, Persist, PersistFails, Handle, Redeploy, Tick, vars
<1>2. stage \in [Calls -> Stages] /\ UNCHANGED <<lead, replies>>
  BY <1>1 DEF IInv, TypeOK, Attest, AttestPrevious, AttestFails
<1>3. job[c] \in Jobs
  BY <1>1 DEF IInv, CallsCarryBundles, TypeOK, Attest, AttestPrevious, AttestFails
<1>4. CASE /\ stage[c] = "attest"
           /\ \E a \in Attestable(c, "current", job[c].release, job[c].source) :
                 issued' = issued \union {a}
           /\ \/ GoTo(c, AfterAttest(c)) \/ GoTo(c, "failed")
  <2>1. PICK a \in Attestable(c, "current", job[c].release, job[c].source) :
           issued' = issued \union {a}
    BY <1>4
  <2>2. /\ a \in Attestations /\ HonestAttestation(a)
        /\ a.signed.bundle.execution_id = <<c, "current">>
    BY <1>3, JobTyped, AttestationIsHonest DEF IInv, Slots
  <2>3. stage'[c] \in {"pin", "attest_previous", "consult", "failed"}
    BY <1>2, <1>4 DEF GoTo, AfterAttest
  <2>4. "current" \in Slots
    BY DEF Slots
  <2>5. QED
    BY <1>2, <1>4, <2>1, <2>2, <2>3, <2>4
<1>5. CASE /\ stage[c] = "attest_previous"
           /\ \E a \in Attestable(c, "previous", PreviousRelease, PreviousSource) :
                 issued' = issued \union {a}
           /\ \/ GoTo(c, "waiting") \/ GoTo(c, "failed")
  <2>1. PICK a \in Attestable(c, "previous", PreviousRelease, PreviousSource) :
           issued' = issued \union {a}
    BY <1>5
  <2>2. /\ a \in Attestations /\ HonestAttestation(a)
        /\ a.signed.bundle.execution_id = <<c, "previous">>
    BY TrustPathAssumption, AttestationIsHonest DEF IInv, Slots
  <2>3. stage'[c] \in {"waiting", "failed"}
    BY <1>2, <1>5 DEF GoTo
  <2>4. "previous" \in Slots
    BY DEF Slots
  <2>5. QED
    BY <1>2, <1>5, <2>1, <2>2, <2>3, <2>4
<1>6. QED
  BY <1>1, <1>4, <1>5 DEF Attest, AttestPrevious, AttestFails

LEMMA StepFresh == IInv /\ ExecutionsAreFresh /\ [Next]_vars => ExecutionsAreFresh'
<1> SUFFICES ASSUME IInv, ExecutionsAreFresh, [Next]_vars PROVE ExecutionsAreFresh'
  OBVIOUS
<1>1. ASSUME NEW a \in issued
      PROVE  \E c \in Calls, slot \in Slots :
                /\ a.signed.bundle.execution_id = <<c, slot>>
                /\ stage'[c] \notin {"idle", "attest"}
                /\ slot = "previous" => stage'[c] # "attest_previous"
  <2>1. PICK c \in Calls, slot \in Slots :
           /\ a.signed.bundle.execution_id = <<c, slot>>
           /\ stage[c] \notin {"idle", "attest"}
           /\ slot = "previous" => stage[c] # "attest_previous"
    BY DEF ExecutionsAreFresh
  <2>2. QED
    BY <2>1, StagesAdvance
<1>2. CASE issued' = issued
  BY <1>1, <1>2 DEF ExecutionsAreFresh
<1>3. CASE issued' # issued
  <2>1. PICK c \in Calls, slot \in Slots, a \in Attestations :
              /\ issued' = issued \union {a}
              /\ a.signed.bundle.execution_id = <<c, slot>>
              /\ stage'[c] \notin {"idle", "attest", "attest_previous"}
                   \/ (slot = "current" /\ stage'[c] = "attest_previous")
    BY <1>3, WhatIsIssued
  <2>2. QED
    BY <1>1, <2>1 DEF ExecutionsAreFresh
<1>4. QED
  BY <1>2, <1>3

----------------------------------------------------------------------------
LEMMA AcceptedWasAttestedState ==
    IInv => \A r \in AcceptedReplies :
               \E a \in issued :
                  /\ a.signed.bundle = Decoded(r.req.signed.bundle)
                  /\ a.signed.bundle.release_id = r.req.release_id
                  /\ a.signed.bundle.source = r.req.source
                  /\ a.signed.bundle.policy = r.req.policy
                  /\ r.response.decision = DecisionFor(a.failing)
BY AcceptedWasAttested

LEMMA ObserveRefined ==
    ASSUME IInv, ExecutionsAreFresh, [Next]_vars, issued' # issued
    PROVE  Authority!Observe
<1>1. PICK c \in Calls, slot \in Slots, a \in Attestations :
              /\ issued' = issued \union {a}
              /\ HonestAttestation(a)
              /\ a.signed.bundle.execution_id = <<c, slot>>
              /\ stage[c] = IF slot = "current" THEN "attest" ELSE "attest_previous"
              /\ UNCHANGED <<lead, replies>>
  BY WhatIsIssued
<1>2. Fact(a) \in Authority!Facts
  BY DEF Fact, Authority!Facts, Attestations, SignedBundles, Bundles
<1>3. FailingUnder(Fact(a).source, Fact(a).policy) \subseteq Fact(a).failing
  BY <1>1 DEF Fact, HonestAttestation
<1>4. \A b \in issued : Fact(b).execution # Fact(a).execution
  BY <1>1 DEF Fact, ExecutionsAreFresh, Slots
<1>5. {Fact(x) : x \in issued'} = {Fact(x) : x \in issued} \union {Fact(a)}
  BY <1>1
<1>6. {Judgement(r) : r \in AcceptedReplies'} = {Judgement(r) : r \in AcceptedReplies}
  BY <1>1 DEF AcceptedReplies
<1>7. QED
  BY <1>2, <1>3, <1>4, <1>5, <1>6 DEF Authority!Observe

LEMMA AcceptedNext ==
    ASSUME IInv, ExecutionsAreFresh, [Next]_vars
    PROVE  \A r \in AcceptedReplies' :
              /\ \E a \in issued' :
                    /\ a.signed.bundle = Decoded(r.req.signed.bundle)
                    /\ a.signed.bundle.release_id = r.req.release_id
                    /\ a.signed.bundle.source = r.req.source
                    /\ a.signed.bundle.policy = r.req.policy
                    /\ r.response.decision = DecisionFor(a.failing)
              /\ r.req.signed.bundle \in Bundles
<1>1. IInv'
  BY StepInvariant
<1>2. (IInv => \A r \in AcceptedReplies :
                \E a \in issued :
                    /\ a.signed.bundle = Decoded(r.req.signed.bundle)
                    /\ a.signed.bundle.release_id = r.req.release_id
                    /\ a.signed.bundle.source = r.req.source
                    /\ a.signed.bundle.policy = r.req.policy
                    /\ r.response.decision = DecisionFor(a.failing))'
  BY AcceptedWasAttestedState, PTL
<1>3. \A r \in AcceptedReplies' : r.req.signed.bundle \in Bundles
  BY <1>1 DEF IInv, TypeOK, AcceptedReplies, Requests, SignedBundles
<1>4. QED
  BY <1>1, <1>2, <1>3

LEMMA JudgeRefined ==
    ASSUME IInv, ExecutionsAreFresh, NEW m \in net, Handle(m)
    PROVE  \/ Authority!Judge
           \/ UNCHANGED <<{Fact(a) : a \in issued}, {Judgement(r) : r \in AcceptedReplies}>>
<1> DEFINE reply == [call |-> m.call, req |-> m.req, at |-> now,
                     response |-> DecideVerified(m.req, now + lead.gatekeeper)]
<1>1. replies' = replies \union {reply} /\ issued' = issued
  BY DEF Handle
<1> HIDE DEF reply
<1>2. CASE ~reply.response.accepted
  <2>1. AcceptedReplies' = AcceptedReplies
    BY <1>1, <1>2 DEF AcceptedReplies
  <2>2. QED
    BY <1>1, <2>1
<1>3. CASE reply.response.accepted
  <2>1. AcceptedReplies' = AcceptedReplies \union {reply}
    BY <1>1, <1>3 DEF AcceptedReplies
  <2>2. [Next]_vars
    BY DEF Next
  <2>3. PICK a \in issued :
           /\ a.signed.bundle = Decoded(reply.req.signed.bundle)
           /\ a.signed.bundle.release_id = reply.req.release_id
           /\ a.signed.bundle.source = reply.req.source
           /\ a.signed.bundle.policy = reply.req.policy
           /\ reply.response.decision = DecisionFor(a.failing)
    BY <1>1, <2>1, <2>2, AcceptedNext
  <2>4. reply.req.signed.bundle \in Bundles
    BY <2>1, <2>2, AcceptedNext
  <2>5. a.signed.bundle.execution_id = reply.req.signed.bundle.execution_id
    BY <2>3, <2>4 DEF Decoded, Bundles
  <2>6. Judgement(reply) =
           [release |-> Fact(a).release, source |-> Fact(a).source, policy |-> Fact(a).policy,
            execution |-> Fact(a).execution, decision |-> DecisionFor(Fact(a).failing)]
    BY <2>3, <2>5 DEF Judgement, Fact
  <2>7. {Judgement(r) : r \in AcceptedReplies'}
          = {Judgement(r) : r \in AcceptedReplies} \union {Judgement(reply)}
    BY <2>1
  <2>8. Authority!Judge
    BY <1>1, <2>6, <2>7 DEF Authority!Judge, Authority!DecisionFor, DecisionFor
  <2>9. QED
    BY <2>8
<1>4. QED
  BY <1>2, <1>3

\* Only the Gatekeeper makes replies, and it signs nothing.
LEMMA StepRefined ==
    ASSUME IInv, ExecutionsAreFresh, [Next]_vars
    PROVE  \/ Authority!Next
           \/ UNCHANGED <<{Fact(a) : a \in issued}, {Judgement(r) : r \in AcceptedReplies}>>
<1>1. CASE issued' # issued
  BY <1>1, ObserveRefined DEF Authority!Next
<1>2. CASE \E m \in net : Handle(m)
  BY <1>2, JudgeRefined DEF Authority!Next
<1>3. CASE issued' = issued /\ ~ \E m \in net : Handle(m)
  <2>1. replies' = replies
    BY <1>3 DEF Next, CallStep, Start, Attest, AttestPrevious, AttestFails, SignLocally, ReplayLocally,
                CheckPins, Send, NothingToAttack, Receive, Timeout, Persist, PersistFails,
                Redeploy, Tick, vars
  <2>2. AcceptedReplies' = AcceptedReplies
    BY <2>1 DEF AcceptedReplies
  <2>3. QED
    BY <1>3, <2>2
<1>4. QED
  BY <1>1, <1>2, <1>3

LEMMA InitRefined == Init => Authority!Init
BY DEF Init, Authority!Init, AcceptedReplies

\* The trust path implements the release authority: the attestor's signature is
\* its Observe, an acceptance by the Gatekeeper is its Judge, and nothing a
\* client, the network, a clock or a redeployment does is visible to it.
THEOREM TrustPathImplementsAuthority == Spec => ImplementsAuthority
<1>1. Spec => []IInv
  BY Invariance
<1>2. Spec => []ExecutionsAreFresh
  BY <1>1, InitFresh, StepFresh, PTL DEF Spec
<1>3. IInv /\ ExecutionsAreFresh /\ [Next]_vars =>
        [Authority!Next]_<<{Fact(a) : a \in issued}, {Judgement(r) : r \in AcceptedReplies}>>
  BY StepRefined
<1>4. QED
  BY <1>1, <1>2, <1>3, InitRefined, PTL DEF Spec, ImplementsAuthority, Authority!Spec

\* No two attestations are of one execution.
AttestedOnce ==
    \A a, b \in issued :
        a.signed.bundle.execution_id = b.signed.bundle.execution_id => a = b

LEMMA StepAttestedOnce ==
    ASSUME IInv, ExecutionsAreFresh, AttestedOnce, [Next]_vars
    PROVE  AttestedOnce'
<1>1. CASE issued' = issued
  BY <1>1 DEF AttestedOnce
<1>2. CASE issued' # issued
  <2>1. PICK c \in Calls, slot \in Slots, a \in Attestations :
                /\ issued' = issued \union {a}
                /\ a.signed.bundle.execution_id = <<c, slot>>
                /\ stage[c] = IF slot = "current" THEN "attest" ELSE "attest_previous"
    BY <1>2, WhatIsIssued
  <2>2. \A b \in issued : b.signed.bundle.execution_id # a.signed.bundle.execution_id
    BY <2>1 DEF ExecutionsAreFresh, Slots
  <2>3. QED
    BY <2>1, <2>2 DEF AttestedOnce
<1>3. QED
  BY <1>1, <1>2

\* What the authority promises of one execution, the trust path keeps: however
\* often a bundle is presented, altered or delayed, and to whichever revision,
\* every acceptance of it says the same (ReleaseAuthority, attestation.go:36-104).
THEOREM OneJudgementTheorem == Spec => []Authority!OneJudgementPerExecution
<1>1. Init => AttestedOnce
  BY DEF Init, AttestedOnce
<1>2. IInv /\ AttestedOnce => Authority!OneJudgementPerExecution
  <2> SUFFICES ASSUME IInv, AttestedOnce, NEW r1 \in AcceptedReplies, NEW r2 \in AcceptedReplies,
                      Judgement(r1).execution = Judgement(r2).execution
               PROVE  Judgement(r1) = Judgement(r2)
    BY DEF Authority!OneJudgementPerExecution
  <2>1. ASSUME NEW r \in AcceptedReplies
        PROVE  \E a \in issued :
                  Judgement(r) = [release |-> Fact(a).release, source |-> Fact(a).source,
                                  policy |-> Fact(a).policy, execution |-> Fact(a).execution,
                                  decision |-> DecisionFor(Fact(a).failing)]
    <3>1. PICK a \in issued :
             /\ a.signed.bundle = Decoded(r.req.signed.bundle)
             /\ a.signed.bundle.release_id = r.req.release_id
             /\ a.signed.bundle.source = r.req.source
             /\ a.signed.bundle.policy = r.req.policy
             /\ r.response.decision = DecisionFor(a.failing)
      BY AcceptedWasAttestedState
    <3>2. r.req.signed.bundle \in Bundles
      BY DEF IInv, TypeOK, AcceptedReplies, Requests, SignedBundles
    <3>3. a.signed.bundle.execution_id = r.req.signed.bundle.execution_id
      BY <3>1, <3>2 DEF Decoded, Bundles
    <3>4. QED
      BY <3>1, <3>3 DEF Judgement, Fact
  <2>2. PICK a1 \in issued :
           Judgement(r1) = [release |-> Fact(a1).release, source |-> Fact(a1).source,
                            policy |-> Fact(a1).policy, execution |-> Fact(a1).execution,
                            decision |-> DecisionFor(Fact(a1).failing)]
    BY <2>1
  <2>3. PICK a2 \in issued :
           Judgement(r2) = [release |-> Fact(a2).release, source |-> Fact(a2).source,
                            policy |-> Fact(a2).policy, execution |-> Fact(a2).execution,
                            decision |-> DecisionFor(Fact(a2).failing)]
    BY <2>1
  <2>4. Fact(a1).execution = Fact(a2).execution
    BY <2>2, <2>3
  <2>5. a1 = a2
    BY <2>4 DEF AttestedOnce, Fact
  <2>6. QED
    BY <2>2, <2>3, <2>5
<1>3. Spec => []IInv
  BY Invariance
<1>4. Spec => []ExecutionsAreFresh
  BY <1>3, InitFresh, StepFresh, PTL DEF Spec
<1>5. IInv /\ ExecutionsAreFresh /\ AttestedOnce /\ [Next]_vars => AttestedOnce'
  BY StepAttestedOnce
<1>6. QED
  BY <1>1, <1>2, <1>3, <1>4, <1>5, PTL DEF Spec

----------------------------------------------------------------------------
(* What a call sends, and what it records.                                 *)

\* A call whose request is out; it neither signs nor sends anything any more.
Sent(c) == stage[c] \in {"waiting", "verdict", "done", "failed"}

\* What a call has attested is about its job, and nobody has altered it.
BundleFits(c) ==
    /\ signed[c].bundle.release_id = job[c].release
    /\ signed[c].bundle.source = job[c].source
    /\ signed[c].bundle.unknown = {}
    /\ signed[c].bundle_sha256 = signed[c].signature.digest

Pinned(s, pin) ==
    pin.policy \in {None, s.bundle.policy} /\ pin.key_id = s.key_id

\* The bundle is one the attestor signed.
Attested(s) == \E a \in issued : a.signed = s

BundlesFit ==
    \A c \in Calls :
        /\ stage[c] \in {"attest_previous", "pin", "consult"} => BundleFits(c)
        /\ stage[c] = "attest_previous" => job[c].kind = "replay_previous_go"
        /\ stage[c] = "pin" => job[c].kind = "proof"
        /\ stage[c] = "consult" => job[c].kind # "replay_previous_go"
        /\ (stage[c] \in {"pin", "consult", "waiting", "verdict"} /\ job[c].kind = "proof")
              => Attested(signed[c])
        /\ (stage[c] \in {"consult", "waiting", "verdict"} /\ job[c].kind = "proof")
              => Pinned(signed[c], job[c].pin)

\* A request is about the job of its call.  A proof carries the bundle it will
\* record; an altered bundle keeps everything but its results, the digest it
\* was signed with included; a replayed one is of another release.
RequestFits(c, req) ==
    /\ Sent(c)
    /\ req.release_id = job[c].release /\ req.source = job[c].source
    /\ job[c].kind = "proof" =>
          req.signed = signed[c] /\ req.policy = signed[c].bundle.policy
    /\ job[c].kind \in {"downgrade_severity", "tamper_evidence_digest"} =>
          /\ req.signed.bundle.release_id = req.release_id
          /\ req.signed.bundle.source = req.source
          /\ req.signed.bundle.policy = req.policy
          /\ req.signed.bundle.unknown = {}
          /\ req.signed.bundle_sha256 = req.signed.signature.digest
    /\ job[c].kind = "replay_previous_go" => req.signed.bundle.release_id = PreviousRelease

RequestsFit ==
    /\ \A m \in net : RequestFits(m.call, m.req)
    /\ \A r \in replies : RequestFits(r.call, r.req)

\* A verdict to be recorded is one the Gatekeeper gave to this call.
VerdictsWereGiven ==
    \A c \in Calls : stage[c] = "verdict" =>
        /\ job[c].kind = "proof"
        /\ \E r \in AcceptedReplies : r.call = c /\ r.response = answer[c]

LedgerIsKept ==
    /\ \A e \in ledger :
          /\ stage[e.call] \in {"done", "failed"}
          /\ e = Entry(e.call)
          /\ job[e.call].kind = "proof"
          /\ Pinned(e.signed, job[e.call].pin)
          /\ Attested(e.signed)
          /\ \E r \in AcceptedReplies :
                /\ r.req.signed = e.signed
                /\ r.req.source = job[e.call].source
                /\ r.req.policy = e.signed.bundle.policy
                /\ r.response.decision = e.decision
    /\ \A c \in Calls :
          (stage[c] = "done" /\ job[c].kind = "proof") => \E e \in ledger : e.call = c

LEMMA InitRecorded == Init => BundlesFit /\ RequestsFit /\ VerdictsWereGiven /\ LedgerIsKept
BY DEF Init, BundlesFit, RequestsFit, VerdictsWereGiven, LedgerIsKept, AcceptedReplies

\* Once its request is out a call keeps its job and its bundle, and once it
\* is done, its answer.
LEMMA SentFrame ==
    ASSUME IInv, [Next]_vars, NEW c \in Calls, Sent(c)
    PROVE  /\ Sent(c)' /\ job'[c] = job[c] /\ signed'[c] = signed[c]
           /\ stage[c] # "waiting" => answer'[c] = answer[c] /\ stage'[c] # "waiting"
           /\ stage[c] \in {"done", "failed"} => stage'[c] = stage[c]
<1>1. /\ stage \in [Calls -> Stages] /\ job \in [Calls -> Jobs \union {None}]
      /\ signed \in [Calls -> SignedBundles \union {None}]
      /\ answer \in [Calls -> Responses \union {None}]
  BY DEF IInv, TypeOK
<1>2. ASSUME NEW d \in Calls,
             Start(d) \/ Attest(d) \/ AttestPrevious(d) \/ AttestFails(d) \/ SignLocally(d)
                \/ ReplayLocally(d) \/ CheckPins(d) \/ Send(d) \/ NothingToAttack(d)
      PROVE  /\ d # c
             /\ stage'[c] = stage[c] /\ job'[c] = job[c]
             /\ signed'[c] = signed[c] /\ answer'[c] = answer[c]
  BY <1>1, <1>2 DEF Sent, Start, Attest, AttestPrevious, AttestFails, SignLocally,
              ReplayLocally, CheckPins, Send, NothingToAttack, GoTo
<1>3. ASSUME NEW d \in Calls,
             Receive(d) \/ Timeout(d) \/ Persist(d) \/ PersistFails(d)
      PROVE  /\ Sent(c)' /\ job'[c] = job[c] /\ signed'[c] = signed[c]
             /\ stage[c] # "waiting" => answer'[c] = answer[c] /\ stage'[c] # "waiting"
             /\ stage[c] \in {"done", "failed"} => stage'[c] = stage[c]
  BY <1>1, <1>3 DEF Sent, Receive, Timeout, Persist, PersistFails, GoTo
<1>4. CASE (\E m \in net : Handle(m)) \/ Redeploy \/ Tick \/ UNCHANGED vars
  BY <1>4 DEF Sent, Handle, Redeploy, Tick, vars, callVars
<1>5. QED
  BY <1>2, <1>3, <1>4 DEF Next, CallStep, Sent

LEMMA CarriedKeeps ==
    ASSUME NEW kind, NEW s \in SignedBundles, NEW x \in Carried(kind, s)
    PROVE  /\ kind = "proof" => x = s
           /\ kind \in {"downgrade_severity", "tamper_evidence_digest"} =>
                 /\ x.bundle.release_id = s.bundle.release_id
                 /\ x.bundle.source = s.bundle.source
                 /\ x.bundle.policy = s.bundle.policy
                 /\ x.bundle.unknown = s.bundle.unknown
                 /\ x.bundle_sha256 = s.bundle_sha256
                 /\ x.signature = s.signature
<1>1. ASSUME NEW results
      PROVE  LET y == WithResults(s, results)
             IN  /\ y.bundle.release_id = s.bundle.release_id
                 /\ y.bundle.source = s.bundle.source
                 /\ y.bundle.policy = s.bundle.policy
                 /\ y.bundle.unknown = s.bundle.unknown
                 /\ y.bundle_sha256 = s.bundle_sha256
                 /\ y.signature = s.signature
  BY DEF WithResults, SignedBundles, Bundles
<1>2. CASE kind \in {"downgrade_severity", "tamper_evidence_digest"}
  <2>1. \E results : x = WithResults(s, results)
    BY <1>2 DEF Carried
  <2>2. QED
    BY <1>1, <1>2, <2>1
<1>3. CASE kind \notin {"downgrade_severity", "tamper_evidence_digest"}
  BY <1>3 DEF Carried
<1>4. QED
  BY <1>2, <1>3

\* What is signed, by the attestor or a demo, is signed as it is.
LEMMA SignedIntact ==
    ASSUME NEW bundle, NEW key
    PROVE  /\ Sign(bundle, key).bundle = bundle
           /\ Sign(bundle, key).bundle_sha256 = Sign(bundle, key).signature.digest
BY DEF Sign

LEMMA AttestedIntact ==
    ASSUME NEW c, NEW slot, NEW release, NEW source,
           NEW a \in Attestable(c, slot, release, source)
    PROVE  /\ a.signed.bundle.release_id = release
           /\ a.signed.bundle.source = source
           /\ a.signed.bundle.unknown = {}
           /\ a.signed.bundle_sha256 = a.signed.signature.digest
<1>1. PICK failing, timeouts : a = Attestation(c, slot, release, source, failing, timeouts)
  BY DEF Attestable
<1>2. PICK bundle : /\ a.signed = Sign(bundle, attestor.key)
                    /\ bundle.release_id = release /\ bundle.source = source
                    /\ bundle.unknown = {}
  BY <1>1 DEF Attestation, NewBundle
<1>3. QED
  BY <1>2, SignedIntact

LEMMA LocallyIntact ==
    ASSUME NEW c, NEW slot, NEW release, NEW source,
           NEW s \in LocallySigned(c, slot, release, source)
    PROVE  /\ s.bundle.release_id = release
           /\ s.bundle.source = source
           /\ s.bundle.unknown = {}
           /\ s.bundle_sha256 = s.signature.digest
<1>1. PICK policy \in Policies :
         s \in {Sign(NewBundle(release, source, policy, <<c, slot>>, now,
                               Cardinality(CommandsOf[policy]),
                               RunFindings(f \union (Failing[source] \intersect PlatformChecks), {})),
                     DemoKey) : f \in {{}, CommandsOf[policy]}}
  BY DEF LocallySigned
<1>2. PICK bundle : /\ s = Sign(bundle, DemoKey)
                    /\ bundle.release_id = release /\ bundle.source = source
                    /\ bundle.unknown = {}
  BY <1>1 DEF NewBundle
<1>3. QED
  BY <1>2, SignedIntact

\* What was signed stays signed.
LEMMA IssuedGrow ==
    ASSUME [Next]_vars
    PROVE  issued \subseteq issued'
BY DEF Next, CallStep, Start, Attest, AttestPrevious, AttestFails, SignLocally, ReplayLocally,
       CheckPins, Send, NothingToAttack, Receive, Timeout, Persist, PersistFails, Handle,
       Redeploy, Tick, vars

\* A step of one call leaves the others alone.
LEMMA OthersFrame ==
    ASSUME IInv, NEW c \in Calls, CallStep(c), NEW d \in Calls, d # c
    PROVE  /\ stage'[d] = stage[d] /\ job'[d] = job[d]
           /\ signed'[d] = signed[d] /\ answer'[d] = answer[d]
BY DEF IInv, TypeOK, CallStep, Start, Attest, AttestPrevious, AttestFails, SignLocally,
       ReplayLocally, CheckPins, Send, NothingToAttack, Receive, Timeout, Persist,
       PersistFails, GoTo

LEMMA EnvironmentFrame ==
    ASSUME (\E m \in net : Handle(m)) \/ Redeploy \/ Tick \/ UNCHANGED vars
    PROVE  UNCHANGED <<callVars, net, ledger>> /\ replies \subseteq replies'
BY DEF Handle, Redeploy, Tick, vars, callVars

LEMMA StepBundles == IInv /\ BundlesFit /\ [Next]_vars => BundlesFit'
<1> DEFINE Fit(c) ==
        /\ stage[c] \in {"attest_previous", "pin", "consult"} => BundleFits(c)
        /\ stage[c] = "attest_previous" => job[c].kind = "replay_previous_go"
        /\ stage[c] = "pin" => job[c].kind = "proof"
        /\ stage[c] = "consult" => job[c].kind # "replay_previous_go"
        /\ (stage[c] \in {"pin", "consult", "waiting", "verdict"} /\ job[c].kind = "proof")
              => Attested(signed[c])
        /\ (stage[c] \in {"consult", "waiting", "verdict"} /\ job[c].kind = "proof")
              => Pinned(signed[c], job[c].pin)
<1> SUFFICES ASSUME IInv, BundlesFit, [Next]_vars, NEW c \in Calls
             PROVE  Fit(c)'
  BY DEF BundlesFit
<1>1. Fit(c)
  BY DEF BundlesFit
<1>2. /\ stage \in [Calls -> Stages] /\ job \in [Calls -> Jobs \union {None}]
      /\ signed \in [Calls -> SignedBundles \union {None}]
  BY DEF IInv, TypeOK
<1>3. CASE stage'[c] = stage[c] /\ job'[c] = job[c] /\ signed'[c] = signed[c]
  BY <1>1, <1>3, IssuedGrow DEF BundleFits, Pinned, Attested
<1>4. CASE CallStep(c)
  <2>1. CASE Attest(c)
    <3>1. PICK a \in Attestable(c, "current", job[c].release, job[c].source) :
             issued' = issued \union {a} /\ signed' = [signed EXCEPT ![c] = a.signed]
      BY <2>1 DEF Attest
    <3>2. signed'[c] = a.signed /\ job'[c] = job[c] /\ stage'[c] = AfterAttest(c)
      BY <1>2, <2>1, <3>1 DEF Attest, GoTo
    <3>3. BundleFits(c)' /\ Attested(signed[c])'
      BY <3>1, <3>2, AttestedIntact DEF BundleFits, Attested
    <3>4. QED
      BY <3>2, <3>3 DEF AfterAttest
  <2>2. CASE SignLocally(c)
    <3>1. PICK s \in LocallySigned(c, "current", job[c].release, job[c].source) :
             signed' = [signed EXCEPT ![c] = s]
      BY <2>2 DEF SignLocally
    <3>2. /\ signed'[c] = s /\ job'[c] = job[c] /\ stage'[c] = "consult"
          /\ job[c].kind \notin {"proof", "replay_previous_go"}
      BY <1>2, <2>2, <3>1 DEF SignLocally, GoTo
    <3>3. BundleFits(c)'
      BY <3>1, <3>2, LocallyIntact DEF BundleFits
    <3>4. QED
      BY <3>2, <3>3
  <2>3. CASE ReplayLocally(c)
    BY <1>2, <2>3 DEF ReplayLocally, GoTo
  <2>4. CASE CheckPins(c)
    BY <1>1, <1>2, <2>4, IssuedGrow DEF CheckPins, GoTo, BundleFits, Pinned, Attested
  <2>5. CASE AttestPrevious(c) \/ Send(c)
    BY <1>1, <1>2, <2>5, IssuedGrow DEF AttestPrevious, Send, GoTo, Pinned, Attested
  <2>6. CASE Receive(c) \/ Timeout(c) \/ Persist(c) \/ PersistFails(c) \/ NothingToAttack(c)
              \/ AttestFails(c) \/ Start(c)
    BY <1>1, <1>2, <2>6, IssuedGrow
       DEF Receive, Timeout, Persist, PersistFails, NothingToAttack, AttestFails, Start,
           GoTo, Pinned, Attested
  <2>7. QED
    BY <1>4, <2>1, <2>2, <2>3, <2>4, <2>5, <2>6 DEF CallStep
<1>5. CASE \E d \in Calls : d # c /\ CallStep(d)
  BY <1>3, <1>5, OthersFrame
<1>6. CASE (\E m \in net : Handle(m)) \/ Redeploy \/ Tick \/ UNCHANGED vars
  BY <1>3, <1>6, EnvironmentFrame DEF callVars
<1>7. QED
  BY <1>4, <1>5, <1>6 DEF Next

LEMMA RequestStays ==
    ASSUME IInv, [Next]_vars, NEW c \in Calls, NEW req, RequestFits(c, req)
    PROVE  RequestFits(c, req)'
BY SentFrame DEF RequestFits

\* The request a step puts on the network.
LEMMA NewRequest ==
    ASSUME IInv, BundlesFit, NEW c \in Calls, CallStep(c), NEW m \in net' \ net
    PROVE  m.call = c /\ RequestFits(c, m.req)'
<1>1. /\ stage \in [Calls -> Stages] /\ job \in [Calls -> Jobs \union {None}]
      /\ signed \in [Calls -> SignedBundles \union {None}]
  BY DEF IInv, TypeOK
<1>2. CASE AttestPrevious(c)
  <2>1. PICK a \in Attestable(c, "previous", PreviousRelease, PreviousSource) :
           m = [call |-> c,
                req |-> [release_id |-> job[c].release, source |-> job[c].source,
                         policy |-> signed[c].bundle.policy,
                         signed |-> a.signed, opinions |-> "ALL_GO"]]
    BY <1>2 DEF AttestPrevious
  <2>2. /\ stage'[c] = "waiting" /\ job'[c] = job[c]
        /\ job[c].kind = "replay_previous_go"
    BY <1>1, <1>2 DEF AttestPrevious, GoTo, BundlesFit
  <2>3. a.signed.bundle.release_id = PreviousRelease
    BY AttestedIntact
  <2>4. QED
    BY <2>1, <2>2, <2>3 DEF RequestFits, Sent
<1>3. CASE ReplayLocally(c)
  <2>1. PICK s, previous \in LocallySigned(c, "previous", PreviousRelease, PreviousSource) :
           m = [call |-> c,
                req |-> [release_id |-> job[c].release, source |-> job[c].source,
                         policy |-> s.bundle.policy,
                         signed |-> previous, opinions |-> "ALL_GO"]]
    BY <1>3 DEF ReplayLocally
  <2>2. /\ stage'[c] = "waiting" /\ job'[c] = job[c]
        /\ job[c].kind = "replay_previous_go"
    BY <1>1, <1>3 DEF ReplayLocally, GoTo
  <2>3. previous.bundle.release_id = PreviousRelease
    BY LocallyIntact
  <2>4. QED
    BY <2>1, <2>2, <2>3 DEF RequestFits, Sent
<1>4. CASE Send(c)
  <2>1. PICK s \in Carried(job[c].kind, signed[c]) :
           m = [call |-> c,
                req |-> [release_id |-> job[c].release, source |-> job[c].source,
                         policy |-> signed[c].bundle.policy,
                         signed |-> s, opinions |-> "ALL_GO"]]
    BY <1>4 DEF Send
  <2>2. /\ stage'[c] = "waiting" /\ job'[c] = job[c] /\ signed'[c] = signed[c]
        /\ stage[c] = "consult"
    BY <1>1, <1>4 DEF Send, GoTo
  <2>3. signed[c] \in SignedBundles /\ BundleFits(c)
    BY <2>2, <1>1 DEF IInv, CallsCarryBundles, BundlesFit
  <2>4. /\ job[c].kind = "proof" => s = signed[c]
        /\ job[c].kind \in {"downgrade_severity", "tamper_evidence_digest"} =>
              /\ s.bundle.release_id = signed[c].bundle.release_id
              /\ s.bundle.source = signed[c].bundle.source
              /\ s.bundle.policy = signed[c].bundle.policy
              /\ s.bundle.unknown = signed[c].bundle.unknown
              /\ s.bundle_sha256 = signed[c].bundle_sha256
              /\ s.signature = signed[c].signature
    BY <2>3, CarriedKeeps
  <2>5. job[c].kind # "replay_previous_go"
    BY <2>2 DEF BundlesFit
  <2>6. QED
    BY <2>1, <2>2, <2>3, <2>4, <2>5 DEF RequestFits, Sent, BundleFits
<1>5. CASE UNCHANGED net
  BY <1>5
<1>6. QED
  BY <1>2, <1>3, <1>4, <1>5
     DEF CallStep, Start, Attest, AttestFails, SignLocally, CheckPins, NothingToAttack,
         Receive, Timeout, Persist, PersistFails

LEMMA StepRequests == IInv /\ BundlesFit /\ RequestsFit /\ [Next]_vars => RequestsFit'
<1> SUFFICES ASSUME IInv, BundlesFit, RequestsFit, [Next]_vars
             PROVE  RequestsFit'
  OBVIOUS
<1>1. ASSUME NEW m \in net, m \in Messages
      PROVE  RequestFits(m.call, m.req)'
  BY <1>1, RequestStays DEF RequestsFit, Messages
<1>2. \A m \in net : RequestFits(m.call, m.req)'
  BY <1>1 DEF IInv, TypeOK
<1>3. \A r \in replies : r.call \in Calls
  BY DEF IInv, TypeOK
<1>4. \A r \in replies : RequestFits(r.call, r.req)'
  BY <1>3, RequestStays DEF RequestsFit
<1>5. CASE \E c \in Calls : CallStep(c)
  <2>1. replies' = replies
    BY <1>5 DEF CallStep, Start, Attest, AttestPrevious, AttestFails, SignLocally,
           ReplayLocally, CheckPins, Send, NothingToAttack, Receive, Timeout, Persist,
           PersistFails
  <2>2. \A m \in net' \ net : RequestFits(m.call, m.req)'
    BY <1>5, NewRequest
  <2>3. QED
    BY <1>2, <1>4, <2>1, <2>2 DEF RequestsFit
<1>6. CASE \E m \in net : Handle(m)
  <2>1. PICK m \in net : Handle(m)
    BY <1>6
  <2>2. net' = net /\ \A r \in replies' \ replies : r.call = m.call /\ r.req = m.req
    BY <2>1 DEF Handle
  <2>3. QED
    BY <1>2, <1>4, <2>2 DEF RequestsFit
<1>7. CASE Redeploy \/ Tick \/ UNCHANGED vars
  BY <1>2, <1>4, <1>7 DEF RequestsFit, Redeploy, Tick, vars
<1>8. QED
  BY <1>5, <1>6, <1>7 DEF Next

\* Replies are never taken back.
LEMMA RepliesGrow ==
    ASSUME [Next]_vars
    PROVE  replies \subseteq replies' /\ AcceptedReplies \subseteq AcceptedReplies'
BY DEF AcceptedReplies, Next, CallStep, Start, Attest, AttestPrevious, AttestFails,
       SignLocally, ReplayLocally, CheckPins, Send, NothingToAttack, Receive, Timeout,
       Persist, PersistFails, Handle, Redeploy, Tick, vars

LEMMA StepVerdicts ==
    IInv /\ VerdictsWereGiven /\ [Next]_vars => VerdictsWereGiven'
<1> SUFFICES ASSUME IInv, VerdictsWereGiven, [Next]_vars,
                    NEW c \in Calls, stage'[c] = "verdict"
             PROVE  /\ job'[c].kind = "proof"
                    /\ \E r \in AcceptedReplies' : r.call = c /\ r.response = answer'[c]
  BY DEF VerdictsWereGiven
<1>1. /\ stage \in [Calls -> Stages] /\ answer \in [Calls -> Responses \union {None}]
  BY DEF IInv, TypeOK
<1>2. CASE stage[c] = "verdict"
  BY <1>2, SentFrame, RepliesGrow DEF VerdictsWereGiven, Sent
<1>3. CASE Receive(c)
  BY <1>1, <1>3 DEF Receive, GoTo, AcceptedReplies
<1>4. CASE CallStep(c) /\ ~Receive(c) /\ stage[c] # "verdict"
  BY <1>1, <1>4 DEF CallStep, Start, Attest, AttestPrevious, AttestFails, SignLocally,
     ReplayLocally, CheckPins, Send, NothingToAttack, Timeout, Persist, PersistFails,
     GoTo, AfterAttest
<1>5. CASE stage'[c] = stage[c]
  BY <1>2, <1>5
<1>6. CASE \E d \in Calls : d # c /\ CallStep(d)
  BY <1>5, <1>6, OthersFrame
<1>7. CASE (\E m \in net : Handle(m)) \/ Redeploy \/ Tick \/ UNCHANGED vars
  BY <1>5, <1>7, EnvironmentFrame DEF callVars
<1>8. QED
  BY <1>2, <1>3, <1>4, <1>6, <1>7 DEF Next

\* What is recorded, by a write that is confirmed or one that is not.
LEMMA EntryIsVerified ==
    ASSUME IInv, BundlesFit, RequestsFit, VerdictsWereGiven, NEW c \in Calls,
           stage[c] = "verdict"
    PROVE  /\ Entry(c).call = c
           /\ job[c].kind = "proof"
           /\ Pinned(Entry(c).signed, job[c].pin)
           /\ Attested(Entry(c).signed)
           /\ \E r \in AcceptedReplies :
                 /\ r.req.signed = Entry(c).signed
                 /\ r.req.source = job[c].source
                 /\ r.req.policy = Entry(c).signed.bundle.policy
                 /\ r.response.decision = Entry(c).decision
<1>1. PICK r \in AcceptedReplies : r.call = c /\ r.response = answer[c]
  BY DEF VerdictsWereGiven
<1>2. job[c].kind = "proof"
  BY DEF VerdictsWereGiven
<1>3. /\ r.req.signed = signed[c] /\ r.req.source = job[c].source
      /\ r.req.policy = signed[c].bundle.policy
  BY <1>1, <1>2 DEF RequestsFit, RequestFits, AcceptedReplies
<1>4. Pinned(signed[c], job[c].pin) /\ Attested(signed[c])
  BY <1>2 DEF BundlesFit
<1>5. QED
  BY <1>1, <1>2, <1>3, <1>4 DEF Entry

LEMMA StepLedger ==
    IInv /\ BundlesFit /\ RequestsFit /\ VerdictsWereGiven /\ LedgerIsKept /\ [Next]_vars
      => LedgerIsKept'
<1> SUFFICES ASSUME IInv, BundlesFit, RequestsFit, VerdictsWereGiven, LedgerIsKept,
                    [Next]_vars
             PROVE  LedgerIsKept'
  OBVIOUS
<1> DEFINE Kept(e) ==
        /\ stage[e.call] \in {"done", "failed"}
        /\ e = Entry(e.call)
        /\ job[e.call].kind = "proof"
        /\ Pinned(e.signed, job[e.call].pin)
        /\ Attested(e.signed)
        /\ \E r \in AcceptedReplies :
              /\ r.req.signed = e.signed
              /\ r.req.source = job[e.call].source
              /\ r.req.policy = e.signed.bundle.policy
              /\ r.response.decision = e.decision
<1>1. /\ stage \in [Calls -> Stages] /\ job \in [Calls -> Jobs \union {None}]
      /\ signed \in [Calls -> SignedBundles \union {None}]
  BY DEF IInv, TypeOK
<1>2. ASSUME NEW e \in ledger
      PROVE  Kept(e)'
  <2>1. e.call \in Calls /\ Kept(e)
    BY DEF LedgerIsKept, IInv, TypeOK
  <2>2. Sent(e.call) /\ stage[e.call] # "waiting"
    BY <2>1 DEF Sent
  <2>3. /\ stage'[e.call] = stage[e.call] /\ job'[e.call] = job[e.call]
        /\ signed'[e.call] = signed[e.call] /\ answer'[e.call] = answer[e.call]
    BY <2>1, <2>2, SentFrame
  <2>4. QED
    BY <2>1, <2>3, RepliesGrow, IssuedGrow DEF Entry, Pinned, Attested
<1>3. CASE \E c \in Calls : Persist(c) \/ PersistFails(c)
  <2>1. PICK c \in Calls : Persist(c) \/ PersistFails(c)
    BY <1>3
  <2>2. /\ stage[c] = "verdict" /\ stage'[c] \in {"done", "failed"}
        /\ job' = job /\ signed' = signed /\ answer' = answer /\ replies' = replies
        /\ ledger \subseteq ledger' /\ ledger' \subseteq ledger \union {Entry(c)}
        /\ stage'[c] = "done" => Entry(c) \in ledger'
        /\ \A d \in Calls : d # c => stage'[d] = stage[d]
    BY <1>1, <2>1 DEF Persist, PersistFails, GoTo
  <2>3. AcceptedReplies' = AcceptedReplies /\ Entry(c)' = Entry(c)
    BY <2>2 DEF AcceptedReplies, Entry
  <2>4. ASSUME NEW e, e = Entry(c)
        PROVE  Kept(e)'
    <3>1. /\ e.call = c /\ job[c].kind = "proof"
          /\ Pinned(e.signed, job[c].pin) /\ Attested(e.signed)
          /\ \E r \in AcceptedReplies :
                /\ r.req.signed = e.signed
                /\ r.req.source = job[c].source
                /\ r.req.policy = e.signed.bundle.policy
                /\ r.response.decision = e.decision
      BY <2>2, <2>4, EntryIsVerified
    <3>2. stage'[e.call] \in {"done", "failed"} /\ e = Entry(e.call)'
      BY <2>2, <2>3, <2>4, <3>1 DEF Entry
    <3>3. Pinned(e.signed, job[c].pin)' /\ Attested(e.signed)'
      BY <2>2, <3>1, IssuedGrow DEF Pinned, Attested
    <3>4. QED
      BY <2>2, <2>3, <3>1, <3>2, <3>3
  <2>5. \A e \in ledger' : Kept(e)'
    BY <1>2, <2>2, <2>4
  <2>6. \A d \in Calls :
           (stage'[d] = "done" /\ job'[d].kind = "proof") => \E e \in ledger' : e.call = d
    BY <2>2 DEF LedgerIsKept, Entry
  <2>7. QED
    BY <2>5, <2>6 DEF LedgerIsKept
<1>4. CASE ~(\E c \in Calls : Persist(c) \/ PersistFails(c))
  <2>1. ledger' = ledger
    BY <1>4 DEF Next, CallStep, Start, Attest, AttestPrevious, AttestFails, SignLocally,
           ReplayLocally, CheckPins, Send, NothingToAttack, Receive, Timeout,
           Handle, Redeploy, Tick, vars
  <2>2. ASSUME NEW c \in Calls, stage'[c] = "done", job'[c].kind = "proof"
        PROVE  stage[c] = "done" /\ job[c].kind = "proof"
    <3>1. CASE stage'[c] = stage[c]
      BY <2>2, <3>1, SentFrame DEF Sent
    <3>2. CASE CallStep(c)
      BY <1>1, <1>4, <2>2, <3>2 DEF CallStep, Start, Attest, AttestPrevious, AttestFails,
         SignLocally, ReplayLocally, CheckPins, Send, NothingToAttack, Receive, Timeout,
         GoTo, AfterAttest
    <3>3. CASE \E d \in Calls : d # c /\ CallStep(d)
      BY <3>1, <3>3, OthersFrame
    <3>4. CASE (\E m \in net : Handle(m)) \/ Redeploy \/ Tick \/ UNCHANGED vars
      BY <3>1, <3>4, EnvironmentFrame DEF callVars
    <3>5. QED
      BY <3>2, <3>3, <3>4 DEF Next
  <2>3. QED
    BY <1>2, <2>1, <2>2 DEF LedgerIsKept
<1>5. QED
  BY <1>3, <1>4

\* Attacks, requests, verdicts and the ledger: inductive together with IInv.
RecordInv ==
    /\ IInv
    /\ BundlesFit
    /\ RequestsFit
    /\ VerdictsWereGiven
    /\ LedgerIsKept

THEOREM RecordInvariance == Spec => []RecordInv
<1>1. Init => RecordInv
  BY InitInvariant, InitRecorded DEF RecordInv
<1>2. RecordInv /\ [Next]_vars => RecordInv'
  BY StepInvariant, StepBundles, StepRequests, StepVerdicts, StepLedger DEF RecordInv
<1>3. QED
  BY <1>1, <1>2, PTL DEF Spec

\* The ledger holds only verdicts the Gatekeeper gave on the bundle recorded with
\* them, which the attestor signed for that source and which is as the orchestrator
\* pins it: the key always, the policy where one is pinned (cloudproof.py 105-193).
THEOREM LedgerTheorem == Spec => []LedgerHoldsVerifiedVerdicts
<1>1. RecordInv => LedgerHoldsVerifiedVerdicts
  BY DEF RecordInv, LedgerIsKept, LedgerHoldsVerifiedVerdicts, Pinned, Attested
<1>2. QED
  BY <1>1, RecordInvariance, PTL

\* A proof that reports success is recorded, and none is recorded twice
\* (cloudproof.py 193, 216; firestore.py 67).
THEOREM ProofTheorem == Spec => []ProofIsRecorded
<1>1. RecordInv => ProofIsRecorded
  BY DEF RecordInv, LedgerIsKept, ProofIsRecorded
<1>2. QED
  BY <1>1, RecordInvariance, PTL

\* What Verify says of an altered bundle, and of one that is about something else.
LEMMA RejectedAs ==
    ASSUME NEW req, NEW clock
    PROVE  /\ Verify(req, clock) # "" => DecideVerified(req, clock).code = Verify(req, clock)
           /\ ~SameContext(Decoded(req.signed.bundle), req) => Verify(req, clock) = "CONTEXT_MISMATCH"
           /\ (/\ SameContext(Decoded(req.signed.bundle), req)
               /\ req.signed.key_id = TrustedKeyId
               /\ req.signed.bundle_sha256 # GoCanonical(Decoded(req.signed.bundle)))
                 => Verify(req, clock) = "DIGEST_MISMATCH"
<1>1. Verify(req, clock) # "" => DecideVerified(req, clock).code = Verify(req, clock)
  BY DEF DecideVerified
<1>2. QED
  BY <1>1 DEF Verify

LEMMA AttacksAreNamedHolds == RecordInv => AttacksAreNamed
<1> SUFFICES ASSUME RecordInv, NEW r \in replies
             PROVE  /\ (/\ job[r.call].kind \in {"downgrade_severity", "tamper_evidence_digest"}
                        /\ r.req.signed.key_id = TrustedKeyId
                        /\ r.req.signed.bundle # r.req.signed.signature.digest.bundle)
                          => r.response.code = "DIGEST_MISMATCH"
                    /\ job[r.call].kind = "replay_previous_go"
                          => r.response.code = "CONTEXT_MISMATCH"
  BY DEF AttacksAreNamed
<1> DEFINE clock == r.at + lead.gatekeeper
           bundle == r.req.signed.bundle
<1>1. /\ r.response = DecideVerified(r.req, clock)
      /\ RequestFits(r.call, r.req)
      /\ r.call \in Calls /\ r.req \in Requests
  BY DEF RecordInv, RequestsFit, IInv, RepliesAreComputed, TypeOK
<1>2. bundle \in Bundles
  BY <1>1 DEF Requests, SignedBundles
<1>3. Verify(r.req, clock) # "" => r.response.code = Verify(r.req, clock)
  BY <1>1, RejectedAs
<1>4. ASSUME job[r.call].kind \in {"downgrade_severity", "tamper_evidence_digest"},
             r.req.signed.key_id = TrustedKeyId,
             bundle # r.req.signed.signature.digest.bundle
      PROVE  r.response.code = "DIGEST_MISMATCH"
  <2>1. /\ bundle.release_id = r.req.release_id /\ bundle.source = r.req.source
        /\ bundle.policy = r.req.policy /\ bundle.unknown = {}
        /\ r.req.signed.bundle_sha256 = r.req.signed.signature.digest
    BY <1>1, <1>4 DEF RequestFits
  <2>2. Decoded(bundle) = bundle
    BY <1>2, <2>1 DEF Decoded, Bundles
  <2>3. SameContext(bundle, r.req)
    BY <2>1 DEF SameContext
  <2>4. r.req.signed.bundle_sha256 # GoCanonical(bundle)
    BY <1>4, <2>1 DEF GoCanonical
  <2>5. Verify(r.req, clock) = "DIGEST_MISMATCH"
    BY <1>4, <2>2, <2>3, <2>4, RejectedAs
  <2>6. QED
    BY <1>3, <2>5
<1>5. ASSUME job[r.call].kind = "replay_previous_go"
      PROVE  r.response.code = "CONTEXT_MISMATCH"
  <2>1. r.call \in Calls /\ job[r.call] \in Jobs
    BY <1>1 DEF RecordInv, IInv, TypeOK, CallsCarryBundles, RequestFits, Sent
  <2>2. job[r.call].release = AttackRelease
    BY <1>5, <2>1 DEF Jobs
  <2>3. bundle.release_id = PreviousRelease /\ r.req.release_id = AttackRelease
    BY <1>1, <1>5, <2>2 DEF RequestFits
  <2>4. Decoded(bundle).release_id # r.req.release_id
    BY <1>2, <2>3, TrustPathAssumption DEF Decoded, Bundles
  <2>5. Verify(r.req, clock) = "CONTEXT_MISMATCH"
    BY <2>4, RejectedAs DEF SameContext
  <2>6. QED
    BY <1>3, <2>5
<1>6. QED
  BY <1>4, <1>5

\* An altered attested bundle is always reported as altered and a replayed one
\* as foreign, late or not (attestation.go 64-126, attacks.py 13-74).
THEOREM AttackTheorem == Spec => []AttacksAreNamed
<1>1. QED
  BY RecordInvariance, AttacksAreNamedHolds, PTL

-----------------------------------------------------------------------------
(* Progress: what CallsEnd rests on besides fairness.                      *)

\* The stages a call may still pass through.
Rank == [idle |-> 7, attest |-> 6, attest_previous |-> 5, pin |-> 4, consult |-> 3,
         waiting |-> 2, verdict |-> 1, done |-> 0, failed |-> 0]

LEMMA StepForward ==
    ASSUME IInv, NEW c \in Calls, CallStep(c)
    PROVE  Rank[stage'[c]] < Rank[stage[c]]
<1>1. stage \in [Calls -> Stages] /\ stage[c] \in Stages
  BY DEF IInv, TypeOK
<1>2. ASSUME NEW s, GoTo(c, s)
      PROVE  stage'[c] = s
  BY <1>1, <1>2 DEF GoTo
<1>3. CASE Start(c)
  BY <1>2, <1>3 DEF Start, Rank
<1>4. CASE Attest(c)
  <2>1. stage[c] = "attest" /\ stage'[c] \in {"pin", "attest_previous", "consult"}
    BY <1>2, <1>4 DEF Attest, AfterAttest
  <2>2. QED
    BY <2>1 DEF Rank
<1>5. CASE AttestPrevious(c)
  BY <1>2, <1>5 DEF AttestPrevious, Rank
<1>6. CASE AttestFails(c)
  BY <1>2, <1>6 DEF AttestFails, Rank
<1>7. CASE SignLocally(c)
  BY <1>2, <1>7 DEF SignLocally, Rank
<1>8. CASE ReplayLocally(c)
  BY <1>2, <1>8 DEF ReplayLocally, Rank
<1>9. CASE CheckPins(c)
  <2>1. stage[c] = "pin" /\ stage'[c] \in {"consult", "failed"}
    BY <1>2, <1>9 DEF CheckPins
  <2>2. QED
    BY <2>1 DEF Rank
<1>10. CASE Send(c)
  BY <1>2, <1>10 DEF Send, Rank
<1>11. CASE NothingToAttack(c)
  BY <1>2, <1>11 DEF NothingToAttack, Rank
<1>12. CASE Receive(c)
  <2>1. stage[c] = "waiting" /\ stage'[c] \in {"done", "verdict", "failed"}
    BY <1>2, <1>12 DEF Receive
  <2>2. QED
    BY <2>1 DEF Rank
<1>13. CASE Timeout(c)
  BY <1>2, <1>13 DEF Timeout, Rank
<1>14. CASE Persist(c) \/ PersistFails(c)
  BY <1>2, <1>14 DEF Persist, PersistFails, Rank
<1>15. QED
  BY <1>3, <1>4, <1>5, <1>6, <1>7, <1>8, <1>9, <1>10, <1>11, <1>12, <1>13, <1>14 DEF CallStep

\* No call goes back: whatever answers, is lost or is redeployed, each of its steps
\* brings it nearer to its end, the steps of others leave it where it is, and a call
\* that ended stays so: neither cloudproof.py nor attacks.py retries anything.
THEOREM CallsGoForward ==
    Spec => [][\A c \in Calls :
                  \/ stage'[c] = stage[c]
                  \/ CallStep(c) /\ Rank[stage'[c]] < Rank[stage[c]]]_vars
<1> DEFINE Forward(c) == \/ stage'[c] = stage[c]
                         \/ CallStep(c) /\ Rank[stage'[c]] < Rank[stage[c]]
<1>1. ASSUME IInv, Next, NEW c \in Calls
      PROVE  Forward(c)
  <2>1. CASE CallStep(c)
    BY <1>1, <2>1, StepForward
  <2>2. CASE \E d \in Calls : d # c /\ CallStep(d)
    BY <1>1, <2>2, OthersFrame
  <2>3. CASE (\E m \in net : Handle(m)) \/ Redeploy \/ Tick
    BY <2>3, EnvironmentFrame DEF callVars
  <2>4. QED
    BY <1>1, <2>1, <2>2, <2>3 DEF Next
<1>2. IInv /\ [Next]_vars => [\A c \in Calls : Forward(c)]_vars
  BY <1>1
<1>3. Spec => []IInv
  BY Invariance
<1>4. QED
  BY <1>2, <1>3, PTL DEF Spec

-----------------------------------------------------------------------------
(* What a call asks.                                                       *)

\* A call puts one request, and only that is ever answered.
OneRequest ==
    /\ \A m1, m2 \in net : m1.call = m2.call => m1 = m2
    /\ \A r \in replies : \E m \in net : m.call = r.call /\ m.req = r.req

\* A step puts at most one request, for a call that had none out.
LEMMA OneMoreRequest ==
    ASSUME IInv, RequestsFit, NEW c \in Calls, CallStep(c)
    PROVE  \/ net' = net
           \/ /\ \A m \in net : m.call # c
              /\ \E req : net' = net \union {[call |-> c, req |-> req]}
<1>1. CASE AttestPrevious(c) \/ ReplayLocally(c) \/ Send(c)
  <2>1. ~Sent(c)
    BY <1>1 DEF AttestPrevious, ReplayLocally, Send, Sent
  <2>2. \A m \in net : m.call # c
    BY <2>1 DEF RequestsFit, RequestFits
  <2>3. \E req : net' = net \union {[call |-> c, req |-> req]}
    BY <1>1 DEF AttestPrevious, ReplayLocally, Send
  <2>4. QED
    BY <2>2, <2>3
<1>2. QED
  BY <1>1 DEF CallStep, Start, Attest, AttestFails, SignLocally, CheckPins, NothingToAttack,
              Receive, Timeout, Persist, PersistFails

\* However often the network delivers it and however late, what the Gatekeeper
\* answers is the one request its call put (gatekeeper.py:87-150).
THEOREM OneRequestTheorem == Spec => []OneRequest
<1>1. Init => OneRequest
  BY DEF Init, OneRequest
<1>2. IInv /\ RecordInv /\ OneRequest /\ [Next]_vars => OneRequest'
  <2> SUFFICES ASSUME IInv, RequestsFit, OneRequest, [Next]_vars PROVE OneRequest'
    BY DEF RecordInv
  <2>1. CASE \E c \in Calls : CallStep(c)
    <3>1. PICK c \in Calls : CallStep(c)
      BY <2>1
    <3>2. replies' = replies
      BY <3>1 DEF CallStep, Start, Attest, AttestPrevious, AttestFails, SignLocally,
         ReplayLocally, CheckPins, Send, NothingToAttack, Receive, Timeout, Persist, PersistFails
    <3>3. CASE net' = net
      BY <3>2, <3>3 DEF OneRequest
    <3>4. CASE /\ \A m \in net : m.call # c
               /\ \E req : net' = net \union {[call |-> c, req |-> req]}
      BY <3>2, <3>4 DEF OneRequest
    <3>5. QED
      BY <3>1, <3>3, <3>4, OneMoreRequest
  <2>2. CASE \E m \in net : Handle(m)
    <3>1. PICK m \in net : Handle(m)
      BY <2>2
    <3>2. net' = net /\ \A r \in replies' \ replies : r.call = m.call /\ r.req = m.req
      BY <3>1 DEF Handle
    <3>3. QED
      BY <3>2 DEF OneRequest
  <2>3. CASE Redeploy \/ Tick \/ UNCHANGED vars
    BY <2>3 DEF Redeploy, Tick, vars, OneRequest
  <2>4. QED
    BY <2>1, <2>2, <2>3 DEF Next
<1>3. Spec => []IInv
  BY Invariance
<1>4. QED
  BY <1>1, <1>2, <1>3, RecordInvariance, PTL DEF Spec
=============================================================================
