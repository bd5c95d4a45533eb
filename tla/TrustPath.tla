------------------------------ MODULE TrustPath ------------------------------
(***************************************************************************)
(* The cloud trust path: clients have a fixture attested, carry the signed *)
(* bundle to the Go Gatekeeper over a network that loses and repeats       *)
(* requests, and the release proof records the verdict in the ledger.      *)
(* The clients are the cloud release proof (infrastructure/cloudproof.py), *)
(* the attack suites of the demos (webmcp/attacks.py, interfaces/api.py)   *)
(* and any other caller of the two services.                               *)
(*                                                                         *)
(* Each process has a clock of its own; `lead` is how far the attestor's   *)
(* and the Gatekeeper's run ahead of `now`.                                *)
(***************************************************************************)
EXTENDS Gatekeeper, FiniteSets

CONSTANTS
    Calls,             \* client calls
    Failing,           \* the checks that do fail on each source
    CommandsOf,        \* the commands of each policy revision
    Flaky,             \* commands that may time out though they would pass
    Configurations,    \* policy pins and keys the attestor may be deployed with
    Leads,             \* the clock leads the two services may have
    Pins,              \* what the orchestrator may be told to expect: a policy
                       \* revision, or None, and a key id
    DemoKey,           \* the throwaway key of an offline demo
    ProofRelease, AttackRelease, PreviousRelease,
    AttackSource, PreviousSource,
    Attacks,           \* the attacks the suites are asked to run
    MaxTime,           \* bound on `now`
    MaxReplies,        \* bound on the number of responses
    None

AttackNames == {"downgrade_severity", "delete_blocker", "tamper_evidence_digest",
                "forge_authority", "replay_previous_go", "forged_repo_go",
                "prompt_injection", "force_agents_go"}

Kinds == {"proof", "direct"} \union AttackNames

\* A proof reads the orchestrator's settings when it starts.
Jobs ==
    [kind : {"proof"}, release : {ProofRelease}, source : Sources, pin : Pins]
      \union [kind : {"direct"}, release : ReleaseIds, source : Sources]
      \union [kind : Attacks, release : {AttackRelease}, source : {AttackSource}]

Stages == {"idle", "attest", "attest_previous", "pin", "consult", "waiting",
           "verdict", "done", "failed"}

\* Two attestations at most are made for a call, each with ids of its own.
Slots == {"current", "previous"}

ASSUME TrustPathAssumption ==
    /\ ExecutionIds = Calls \X Slots
    /\ Failing \in [Sources -> SUBSET Checks]
    /\ CommandsOf \in [Policies -> SUBSET (Checks \ PlatformChecks)]
    /\ \A p \in Policies : CommandsOf[p] # {} /\ IsFiniteSet(CommandsOf[p])
    /\ Flaky \subseteq Checks \ PlatformChecks
    /\ Configurations \subseteq [policy : Policies, key : Keys \ {DemoKey}]
    /\ Leads \subseteq [attestor : Nat, gatekeeper : Nat]
    /\ Pins \subseteq [policy : Policies \union {None}, key_id : KeyIds]
    /\ DemoKey \in Keys /\ DemoKey # TrustedKey
    /\ {ProofRelease, AttackRelease, PreviousRelease} \subseteq ReleaseIds
    /\ PreviousRelease # AttackRelease
    /\ {AttackSource, PreviousSource} \subseteq Sources
    /\ Attacks \subseteq AttackNames
    /\ MaxTime \in Nat /\ MaxReplies \in Nat
    /\ None \notin SignedBundles /\ None \notin Responses /\ None \notin Jobs
    /\ None \notin Policies

VARIABLES
    now, lead,
    attestor,   \* the attestor's configuration: its policy pin and its key
    issued,     \* history: what the attestor signed, what it saw, and when
    stage, job, \* of each call
    signed,     \* the bundle each call carries
    answer,     \* the Gatekeeper's response each call received
    net,        \* requests on the way to the Gatekeeper
    replies,    \* history: every response the Gatekeeper gave
    ledger      \* release reports

callVars == <<stage, job, signed, answer>>

vars == <<now, lead, attestor, issued, stage, job, signed, answer, net, replies, ledger>>

Attestations ==
    [signed : SignedBundles, failing : SUBSET Checks, timeouts : SUBSET Checks, made : Nat]

Messages == [call : Calls, req : Requests]

TypeOK ==
    /\ now \in 0..MaxTime
    /\ lead \in Leads
    /\ attestor \in Configurations
    /\ issued \subseteq Attestations
    /\ stage \in [Calls -> Stages]
    /\ job \in [Calls -> Jobs \union {None}]
    /\ signed \in [Calls -> SignedBundles \union {None}]
    /\ answer \in [Calls -> Responses \union {None}]
    /\ net \subseteq Messages
    /\ replies \subseteq [call : Calls, req : Requests, response : Responses, at : Nat]
    /\ ledger \subseteq [call : Calls, decision : Decisions, signed : SignedBundles]

Init ==
    /\ now = 0
    /\ lead \in Leads
    /\ attestor \in Configurations
    /\ issued = {}
    /\ stage = [c \in Calls |-> "idle"]
    /\ job = [c \in Calls |-> None]
    /\ signed = [c \in Calls |-> None]
    /\ answer = [c \in Calls |-> None]
    /\ net = {} /\ replies = {} /\ ledger = {}

\* The checks that fail on a source under a policy: the platform's rules always
\* run, the commands only if the policy has them.
FailingUnder(source, policy) == Failing[source] \intersect (PlatformChecks \union CommandsOf[policy])

GoTo(c, s) == stage' = [stage EXCEPT ![c] = s]

----------------------------------------------------------------------------
(* The attestor.                                                           *)

\* One request to the attestor by call c: the fixture's hash is checked, the
\* policy is read under the attestor's own pin, the engine runs, and the bundle
\* is signed.  What fails is what does fail and commands that timed out.
Attestation(c, slot, release, source, failing, timeouts) ==
    [signed |-> Sign(NewBundle(release, source, attestor.policy, <<c, slot>>,
                               now + lead.attestor,
                               Cardinality(CommandsOf[attestor.policy]),
                               RunFindings(failing, timeouts)),
                     attestor.key),
     failing |-> failing, timeouts |-> timeouts, made |-> now]

Attestable(c, slot, release, source) ==
    {Attestation(c, slot, release, source,
                 FailingUnder(source, attestor.policy) \union timeouts, timeouts) :
        timeouts \in SUBSET (CommandsOf[attestor.policy] \intersect Flaky)}

\* A new revision of the attestor is deployed, with another pin or key.
Redeploy ==
    /\ attestor' \in Configurations /\ attestor' # attestor
    /\ UNCHANGED <<now, lead, issued, callVars, net, replies, ledger>>

----------------------------------------------------------------------------
(* A call, up to its request.                                              *)

Start(c) ==
    /\ stage[c] = "idle"
    /\ \E j \in Jobs :
          /\ job' = [job EXCEPT ![c] = j]
          /\ GoTo(c, "attest")
    /\ UNCHANGED <<now, lead, attestor, issued, signed, answer, net, replies, ledger>>

\* Where a call goes once it has its bundle.
AfterAttest(c) ==
    IF job[c].kind = "proof" THEN "pin"
    ELSE IF job[c].kind = "replay_previous_go" THEN "attest_previous"
    ELSE "consult"

\* The attestor answers.
Attest(c) ==
    /\ stage[c] = "attest"
    /\ \E a \in Attestable(c, "current", job[c].release, job[c].source) :
          /\ issued' = issued \union {a}
          /\ signed' = [signed EXCEPT ![c] = a.signed]
    /\ GoTo(c, AfterAttest(c))
    /\ UNCHANGED <<now, lead, attestor, job, answer, net, replies, ledger>>

\* The replay attack has the fixed source attested for the release before, and
\* carries that bundle; the policy it claims is still the current bundle's.
AttestPrevious(c) ==
    /\ stage[c] = "attest_previous"
    /\ \E a \in Attestable(c, "previous", PreviousRelease, PreviousSource) :
          /\ issued' = issued \union {a}
          /\ net' = net \union
                {[call |-> c,
                  req |-> [release_id |-> job[c].release, source |-> job[c].source,
                           policy |-> signed[c].bundle.policy,
                           signed |-> a.signed, opinions |-> "ALL_GO"]]}
    /\ GoTo(c, "waiting")
    /\ UNCHANGED <<now, lead, attestor, job, signed, answer, replies, ledger>>

\* The attestor refuses or fails, or its answer is lost: in the last case it
\* has signed all the same.
AttestFails(c) ==
    /\ stage[c] \in {"attest", "attest_previous"}
    /\ \/ UNCHANGED issued
       \/ LET possible ==
                   IF stage[c] = "attest"
                   THEN Attestable(c, "current", job[c].release, job[c].source)
                   ELSE Attestable(c, "previous", PreviousRelease, PreviousSource)
          IN  \E lost \in possible : issued' = issued \union {lost}
    /\ GoTo(c, "failed")
    /\ UNCHANGED <<now, lead, attestor, job, signed, answer, net, replies, ledger>>

\* What the demos sign with a throwaway key of their own when they have no
\* attestor URL: what an executor that returns one preset code says.
LocallySigned(c, slot, release, source) ==
    UNION {{Sign(NewBundle(release, source, policy, <<c, slot>>, now,
                           Cardinality(CommandsOf[policy]),
                           RunFindings(failing \union (Failing[source] \intersect PlatformChecks),
                                       {})),
                 DemoKey) :
               failing \in {{}, CommandsOf[policy]}} : policy \in Policies}

SignLocally(c) ==
    /\ stage[c] = "attest" /\ job[c].kind \notin {"proof", "replay_previous_go"}
    /\ \E s \in LocallySigned(c, "current", job[c].release, job[c].source) :
          signed' = [signed EXCEPT ![c] = s]
    /\ GoTo(c, "consult")
    /\ UNCHANGED <<now, lead, attestor, issued, job, answer, net, replies, ledger>>

\* The replay attack of such a demo, which has but the one policy.
ReplayLocally(c) ==
    /\ stage[c] = "attest" /\ job[c].kind = "replay_previous_go"
    /\ \E s \in LocallySigned(c, "current", job[c].release, job[c].source),
          previous \in LocallySigned(c, "previous", PreviousRelease, PreviousSource) :
          /\ previous.bundle.policy = s.bundle.policy
          /\ signed' = [signed EXCEPT ![c] = s]
          /\ net' = net \union
                {[call |-> c,
                  req |-> [release_id |-> job[c].release, source |-> job[c].source,
                           policy |-> s.bundle.policy,
                           signed |-> previous, opinions |-> "ALL_GO"]]}
    /\ GoTo(c, "waiting")
    /\ UNCHANGED <<now, lead, attestor, issued, job, answer, replies, ledger>>

\* A bug: the policy pin is not compared.
CheckPinsKeyOnly(c) ==
    /\ stage[c] = "pin"
    /\ GoTo(c, IF signed[c].key_id = job[c].pin.key_id THEN "consult" ELSE "failed")
    /\ UNCHANGED <<now, lead, attestor, issued, job, signed, answer, net, replies, ledger>>

\* The orchestrator compares the bundle with its own pins.  It must have a key to
\* expect; it need not have a policy, and then takes the one the attestor used.
CheckPins(c) ==
    /\ stage[c] = "pin"
    /\ LET pin == job[c].pin
       IN  GoTo(c, IF /\ pin.policy \in {None, signed[c].bundle.policy}
                      /\ pin.key_id = signed[c].key_id
                   THEN "consult" ELSE "failed")
    /\ UNCHANGED <<now, lead, attestor, issued, job, signed, answer, net, replies, ledger>>

WithResults(s, results) == [s EXCEPT !.bundle.results = results]

\* What a call sends for the bundle it has.  The first result is some result:
\* they are sorted by a hash.
Carried(kind, s) ==
    LET results == s.bundle.results
    IN  IF kind = "downgrade_severity"
        THEN {WithResults(s, (results \ {r}) \union {[r EXCEPT !.severity = "INFO"]}) :
                 r \in results}
        ELSE IF kind = "tamper_evidence_digest"
        THEN {WithResults(s, (results \ {r}) \union {[r EXCEPT !.evidence_digest = ZeroDigest]}) :
                 r \in results}
        ELSE IF kind = "delete_blocker" THEN {WithResults(s, {})}
        ELSE IF kind = "forge_authority" THEN {[s EXCEPT !.bundle.unknown = {"authority"}]}
        ELSE {s}

\* Memory and the advisory fleet have answered or failed, which changes
\* nothing here but the time; the request goes out with every agent voting GO.
Send(c) ==
    /\ stage[c] = "consult"
    /\ \E s \in Carried(job[c].kind, signed[c]) :
          net' = net \union
              {[call |-> c,
                req |-> [release_id |-> job[c].release, source |-> job[c].source,
                         policy |-> signed[c].bundle.policy,
                         signed |-> s, opinions |-> "ALL_GO"]]}
    /\ GoTo(c, "waiting")
    /\ UNCHANGED <<now, lead, attestor, issued, job, signed, answer, replies, ledger>>

\* An attack on the first result of a bundle that has none: an IndexError.
NothingToAttack(c) ==
    /\ stage[c] = "consult" /\ Carried(job[c].kind, signed[c]) = {}
    /\ GoTo(c, "failed")
    /\ UNCHANGED <<now, lead, attestor, issued, job, signed, answer, net, replies, ledger>>

----------------------------------------------------------------------------
(* The Gatekeeper, and what becomes of its answer.                         *)

\* A request that was sent reaches the Gatekeeper: at any time after, once,
\* never, or again, since the same bundle may be put to it any number of times.
Handle(m) ==
    /\ Cardinality(replies) < MaxReplies
    /\ replies' = replies \union
          {[call |-> m.call, req |-> m.req, at |-> now,
            response |-> DecideVerified(m.req, now + lead.gatekeeper)]}
    /\ UNCHANGED <<now, lead, attestor, issued, callVars, net, ledger>>

\* A bug: the client does not look at `accepted`.
ReceiveAny(c) ==
    /\ stage[c] = "waiting"
    /\ \E r \in replies :
          /\ r.call = c
          /\ answer' = [answer EXCEPT ![c] = r.response]
          /\ GoTo(c, IF job[c].kind = "proof" THEN "verdict" ELSE "done")
    /\ UNCHANGED <<now, lead, attestor, issued, job, signed, net, replies, ledger>>

\* The response arrives in time.  The proof raises GatekeeperRejected on a
\* rejection; an attack suite reports whichever it got.
Receive(c) ==
    /\ stage[c] = "waiting"
    /\ \E r \in replies :
          /\ r.call = c
          /\ answer' = [answer EXCEPT ![c] = r.response]
          /\ GoTo(c, IF job[c].kind # "proof" THEN "done"
                     ELSE IF r.response.accepted THEN "verdict"
                     ELSE "failed")
    /\ UNCHANGED <<now, lead, attestor, issued, job, signed, net, replies, ledger>>

\* A bug: the client gives up only on a call that was answered.
TimeoutIfAnswered(c) ==
    /\ stage[c] = "waiting" /\ \E r \in replies : r.call = c
    /\ GoTo(c, "failed")
    /\ UNCHANGED <<now, lead, attestor, issued, job, signed, answer, net, replies, ledger>>

\* The client gives up; an answer that comes later has nobody to go to.
Timeout(c) ==
    /\ stage[c] = "waiting"
    /\ GoTo(c, "failed")
    /\ UNCHANGED <<now, lead, attestor, issued, job, signed, answer, net, replies, ledger>>

----------------------------------------------------------------------------
(* The ledger.                                                             *)

Entry(c) == [call |-> c, decision |-> answer[c].decision, signed |-> signed[c]]

\* A bug: a failed write is reported as a proof.
PersistUnchecked(c) ==
    /\ stage[c] = "verdict"
    /\ ledger' \in {ledger, ledger \union {Entry(c)}}
    /\ GoTo(c, "done")
    /\ UNCHANGED <<now, lead, attestor, issued, job, signed, answer, net, replies>>

\* The provenance is signed and the report created.
Persist(c) ==
    /\ stage[c] = "verdict"
    /\ ledger' = ledger \union {Entry(c)}
    /\ GoTo(c, "done")
    /\ UNCHANGED <<now, lead, attestor, issued, job, signed, answer, net, replies>>

\* The signer or the database fails, the latter before or after it committed.
PersistFails(c) ==
    /\ stage[c] = "verdict"
    /\ ledger' \in {ledger, ledger \union {Entry(c)}}
    /\ GoTo(c, "failed")
    /\ UNCHANGED <<now, lead, attestor, issued, job, signed, answer, net, replies>>

Tick ==
    /\ now < MaxTime
    /\ now' = now + 1
    /\ UNCHANGED <<lead, attestor, issued, callVars, net, replies, ledger>>

----------------------------------------------------------------------------
CallStep(c) ==
    \/ Start(c) \/ Attest(c) \/ AttestPrevious(c) \/ AttestFails(c) \/ SignLocally(c)
    \/ ReplayLocally(c)
    \/ CheckPins(c) \/ Send(c) \/ NothingToAttack(c)
    \/ Receive(c) \/ Timeout(c) \/ Persist(c) \/ PersistFails(c)

Next ==
    \/ \E c \in Calls : CallStep(c)
    \/ \E m \in net : Handle(m)
    \/ Redeploy
    \/ Tick

\* Nobody has to start a call, redeploy, or let the network deliver, and
\* nothing bounds the agents a proof consults.  Every HTTP call has a timeout,
\* and the rest of a call is a computation.
Fairness ==
    \A c \in Calls :
        /\ WF_vars(Attest(c) \/ AttestPrevious(c) \/ AttestFails(c))
        /\ WF_vars(CheckPins(c))
        /\ WF_vars((stage[c] = "consult" /\ job[c].kind # "proof") /\ (Send(c) \/ NothingToAttack(c)))
        /\ WF_vars(Timeout(c))
        /\ WF_vars(Persist(c) \/ PersistFails(c))

Spec == Init /\ [][Next]_vars /\ Fairness

----------------------------------------------------------------------------
(* Safety.                                                                 *)

AcceptedReplies == {r \in replies : r.response.accepted}

\* No accepted decision is more permissive than the checks that really fail on
\* the source it is about, under the policy it is about, call for: whoever
\* asked, whatever bundle was carried, altered or replayed, and however the
\* agents voted (verdict.go 84-134, attestation.go 64-126, attacks.py 13-74).
NoDecisionAboveTruth ==
    \A r \in AcceptedReplies :
        Permissiveness[r.response.decision]
          <= Permissiveness[DecisionFor(FailingUnder(r.req.source, r.req.policy))]

\* An accepted decision is about evidence that is fresh: in true time, and by
\* no more than the difference of the two clocks, less than a TTL has gone by
\* since the attestor signed it (attestation.go 97-107).
FreshWhenAccepted ==
    \A r \in AcceptedReplies :
        \E a \in issued :
            /\ a.signed.bundle.execution_id = r.req.signed.bundle.execution_id
            /\ r.at + lead.gatekeeper < a.made + lead.attestor + Ttl
            /\ a.made + lead.attestor <= r.at + lead.gatekeeper + FutureTolerance

\* What the demos and the deployment script assert of the attacks: an altered
\* attested bundle is always reported as altered and a replayed one as foreign,
\* late or not (deploy/cloud-proof.sh; tests/test_go_gatekeeper_a2a.py:154,165).
AttacksAreNamed ==
    \A r \in replies :
        LET kind == job[r.call].kind
        IN  /\ (/\ kind \in {"downgrade_severity", "tamper_evidence_digest"}
                /\ r.req.signed.key_id = TrustedKeyId
                /\ r.req.signed.bundle # r.req.signed.signature.digest.bundle)
                  => r.response.code = "DIGEST_MISMATCH"
            /\ kind = "replay_previous_go" => r.response.code = "CONTEXT_MISMATCH"

\* The ledger holds a proof's verdict only as the Gatekeeper gave it, under the
\* policy and on the bundle recorded with it, which the attestor signed for this
\* very source under the key, and where the orchestrator pins one the policy, it
\* expects.  Without a pin the policy is whichever the attestor was deployed with
\* (cloudproof.py 105-193; settings.py 50-60 demands no pin).
LedgerHoldsVerifiedVerdicts ==
    \A e \in ledger :
        /\ job[e.call].kind = "proof"
        /\ job[e.call].pin.policy # None => e.signed.bundle.policy = job[e.call].pin.policy
        /\ e.signed.key_id = job[e.call].pin.key_id
        /\ \E a \in issued : a.signed = e.signed
        /\ \E r \in AcceptedReplies :
              /\ r.req.signed = e.signed
              /\ r.req.source = job[e.call].source
              /\ r.req.policy = e.signed.bundle.policy
              /\ r.response.decision = e.decision

\* A proof that reports success is in the ledger, and no call is there twice
\* (cloudproof.py 193, 216 "ledger_persisted"; firestore.py 67 create).
ProofIsRecorded ==
    \A c \in Calls :
        /\ (stage[c] = "done" /\ job[c].kind = "proof") => \E e \in ledger : e.call = c
        /\ \A e1, e2 \in ledger : (e1.call = c /\ e2.call = c) => e1 = e2

\* A fresh bundle of the attestor, carried as it is, is never said to differ
\* from its own digest (attestation.go 43-44: the canonical form matches
\* Python's json.dumps).
HonestBundlesMatchTheirDigest ==
    \A r \in replies :
        job[r.call].kind = "direct" => r.response.code # "DIGEST_MISMATCH"

----------------------------------------------------------------------------
(* Why NoDecisionAboveTruth holds: the invariant that is inductive.        *)

\* What the attestor signs is what it saw, and it saw every failure.
HonestAttestation(a) ==
    LET bundle == a.signed.bundle
    IN  /\ a.signed.signature.digest = PythonCanonical(bundle)
        /\ bundle.results = BundleResults(RunFindings(a.failing, a.timeouts))
        /\ FailingUnder(bundle.source, bundle.policy) \subseteq a.failing
        /\ bundle.issued_at = a.made + lead.attestor
        /\ bundle.expires_at = a.made + lead.attestor + Ttl

IssuedAreHonest == \A a \in issued : HonestAttestation(a)

\* A bundle's signature under the trusted key was made by the attestor.
Unforged(s) ==
    s.signature.key = TrustedKey =>
        \E a \in issued : a.signed.signature = s.signature

CarriedAreUnforged ==
    /\ \A c \in Calls : signed[c] # None => Unforged(signed[c])
    /\ \A m \in net : Unforged(m.req.signed)
    /\ \A r \in replies : Unforged(r.req.signed)

\* The Gatekeeper said what its function says, at the time it said it.
RepliesAreComputed ==
    \A r \in replies : r.response = DecideVerified(r.req, r.at + lead.gatekeeper)

\* A call that is past its attestation has a job and a bundle.
CallsCarryBundles ==
    \A c \in Calls :
        /\ stage[c] # "idle" => job[c] # None
        /\ stage[c] \in {"attest_previous", "pin", "consult", "waiting"} => signed[c] # None
        /\ stage[c] = "verdict" =>
              /\ signed[c] # None /\ answer[c] # None
              /\ answer[c].accepted /\ answer[c].decision \in Decisions

IInv ==
    /\ TypeOK
    /\ CallsCarryBundles
    /\ IssuedAreHonest
    /\ CarriedAreUnforged
    /\ RepliesAreComputed

----------------------------------------------------------------------------
(* Liveness.                                                               *)

\* A call whose request is out ends, whether or not anything ever answers
\* (gatekeeper.py 87, 150: the timeout of urlopen); one without agents to
\* consult ends once it is started (attestor.py 9, 39).
CallsEnd ==
    \A c \in Calls :
        /\ (stage[c] \in {"waiting", "verdict"}) ~> (stage[c] \in {"done", "failed"})
        /\ (stage[c] = "attest" /\ job[c].kind # "proof") ~> (stage[c] \in {"done", "failed"})

----------------------------------------------------------------------------
(* What the trust path implements.                                         *)

Fact(a) ==
    [release |-> a.signed.bundle.release_id, source |-> a.signed.bundle.source,
     policy |-> a.signed.bundle.policy, execution |-> a.signed.bundle.execution_id,
     failing |-> a.failing]

Judgement(r) ==
    [release |-> r.req.release_id, source |-> r.req.source, policy |-> r.req.policy,
     execution |-> r.req.signed.bundle.execution_id, decision |-> r.response.decision]

Authority == INSTANCE ReleaseAuthority
    WITH evidence <- {Fact(a) : a \in issued},
         judgements <- {Judgement(r) : r \in AcceptedReplies}

\* Whatever its clients do, the trust path is a release authority: it judges
\* only what was attested, for the release, source and policy it was attested
\* for, once and for all as the failures attested call for.
ImplementsAuthority == Authority!Spec
=============================================================================
