--------------------------- MODULE EvidenceProofs ---------------------------
(* What the two gates decide, for every set of checks and every policy.    *)
EXTENDS Evidence, Naturals, TLAPS

\* The Go Gatekeeper, reading only the signed projection, decides as the Python
\* reference gate does on the findings (gatekeeper.py 43-64, verdict.go 84-134),
\* whatever the findings are.
THEOREM GatesAgreeOnAllFindings ==
    ASSUME NEW findings
    PROVE  GoDecide(BundleResults(findings)) = JudgeDecide(findings)
<1> DEFINE results == BundleResults(findings)
           hits(severities) ==
               \E r \in results :
                   r.failed /\ r.blocking_eligible /\ r.severity \in severities
           some(severities) ==
               \E f \in findings : f.severity \in severities /\ Blocking(f)
<1>1. ASSUME NEW severities
      PROVE  hits(severities) <=> some(severities)
  <2>1. ASSUME NEW f
        PROVE  /\ CheckResult(f).failed
               /\ CheckResult(f).severity = f.severity
               /\ CheckResult(f).blocking_eligible <=> Blocking(f)
    BY DEF CheckResult
  <2>2. \A f \in findings : CheckResult(f) \in results
    BY DEF BundleResults
  <2>3. \A r \in results : \E f \in findings : r = CheckResult(f)
    BY DEF BundleResults
  <2> HIDE DEF results
  <2>4. QED
    BY <2>1, <2>2, <2>3
<1>2. hits({"HIGH", "CRITICAL"}) <=> some({"HIGH", "CRITICAL"})
  BY <1>1
<1>3. hits({"MEDIUM"}) <=> some({"MEDIUM"})
  BY <1>1
<1> HIDE DEF results
<1>4. QED
  BY <1>2, <1>3 DEF GoDecide, JudgeDecide, results

\* A finding blocks exactly when the policy says its check does.
LEMMA FindingBlocks ==
    ASSUME NEW k, NEW t
    PROVE  /\ Blocking(FindingFor(k, t)) <=> BlockingOf[k]
           /\ FindingFor(k, t).severity = SeverityOf[k]
<1> DEFINE e == [authority |-> IF k \in PlatformChecks
                               THEN "PLATFORM" ELSE "ORGANIZATION_POLICY",
                 reproducible |-> ~t,
                 blocking_eligible |-> BlockingOf[k]]
<1>1. FindingFor(k, t).evidence = {e} /\ FindingFor(k, t).severity = SeverityOf[k]
  BY DEF FindingFor
<1>2. Authoritative(e)
  BY DEF Authoritative
<1>3. e.blocking_eligible = BlockingOf[k]
  OBVIOUS
<1> HIDE DEF e
<1>4. QED
  BY <1>1, <1>2, <1>3 DEF Blocking, BlockingEvidence

\* What is written down for a failing check is a finding (engine.py:88-123).
LEMMA FindingTyped ==
    ASSUME NEW k \in Checks, NEW t \in BOOLEAN
    PROVE  FindingFor(k, t) \in Findings
<1> DEFINE e == [authority |-> IF k \in PlatformChecks
                               THEN "PLATFORM" ELSE "ORGANIZATION_POLICY",
                 reproducible |-> ~t,
                 blocking_eligible |-> BlockingOf[k]]
<1>1. e \in EvidenceRecords
  <2>1. (~t) \in BOOLEAN /\ BlockingOf[k] \in BOOLEAN
    BY ChecksAssumption
  <2>2. (IF k \in PlatformChecks THEN "PLATFORM" ELSE "ORGANIZATION_POLICY") \in Authorities
    BY DEF Authorities
  <2>3. QED
    BY <2>1, <2>2 DEF EvidenceRecords
<1>2. {e} \in SUBSET EvidenceRecords
  BY <1>1
<1>3. FindingIdOf[k] \in FindingIds /\ SeverityOf[k] \in Severities
  BY ChecksAssumption DEF FindingIds
<1>4. FindingFor(k, t) = [check |-> k, finding_id |-> FindingIdOf[k],
                          severity |-> SeverityOf[k], evidence |-> {e}]
  BY DEF FindingFor
<1> HIDE DEF e
<1>5. QED
  BY <1>2, <1>3, <1>4 DEF Findings

\* Both gates decide on the record of a run as the definition says of the
\* checks that failed in it, timeouts included (engine.py 88-123).
THEOREM GatesDecideOnFailures ==
    ASSUME NEW failing, NEW timeouts
    PROVE  /\ JudgeDecide(RunFindings(failing, timeouts)) = DecisionFor(failing)
           /\ GoDecide(BundleResults(RunFindings(failing, timeouts))) = DecisionFor(failing)
<1> DEFINE findings == RunFindings(failing, timeouts)
           some(severities) ==
               \E f \in findings : f.severity \in severities /\ Blocking(f)
           blocks(severities) ==
               \E k \in failing : SeverityOf[k] \in severities /\ BlockingOf[k]
<1>1. ASSUME NEW severities
      PROVE  some(severities) <=> blocks(severities)
  <2>1. ASSUME NEW k \in failing
        PROVE  FindingFor(k, k \in timeouts) \in findings
    BY DEF RunFindings
  <2>2. ASSUME NEW f \in findings
        PROVE  \E k \in failing : f = FindingFor(k, k \in timeouts)
    BY DEF RunFindings
  <2> HIDE DEF findings
  <2>3. QED
    BY <2>1, <2>2, FindingBlocks
<1>2. some({"HIGH", "CRITICAL"}) <=> blocks({"HIGH", "CRITICAL"})
  BY <1>1
<1>3. some({"MEDIUM"}) <=> blocks({"MEDIUM"})
  BY <1>1
<1> HIDE DEF findings
<1>4. JudgeDecide(findings) = DecisionFor(failing)
  BY <1>2, <1>3 DEF JudgeDecide, DecisionFor
<1>5. QED
  BY <1>4, GatesAgreeOnAllFindings DEF findings

\* More failures never make a decision more permissive.
LEMMA DecisionMonotone ==
    ASSUME NEW fewer, NEW more, fewer \subseteq more
    PROVE  Permissiveness[DecisionFor(more)] <= Permissiveness[DecisionFor(fewer)]
<1> DEFINE blocks(failing, severities) ==
               \E k \in failing : SeverityOf[k] \in severities /\ BlockingOf[k]
<1>1. blocks(fewer, {"HIGH", "CRITICAL"}) => blocks(more, {"HIGH", "CRITICAL"})
  OBVIOUS
<1>2. blocks(fewer, {"MEDIUM"}) => blocks(more, {"MEDIUM"})
  OBVIOUS
<1>3. /\ Permissiveness["NO_GO"] = 0
      /\ Permissiveness["CONDITIONAL_GO"] = 1
      /\ Permissiveness["GO"] = 2
  BY DEF Permissiveness, Decisions
<1> HIDE DEF blocks
<1>4. ASSUME NEW failing
      PROVE  DecisionFor(failing) = IF blocks(failing, {"HIGH", "CRITICAL"}) THEN "NO_GO"
                                    ELSE IF blocks(failing, {"MEDIUM"}) THEN "CONDITIONAL_GO"
                                    ELSE "GO"
  BY DEF DecisionFor, blocks
<1>5. QED
  BY <1>1, <1>2, <1>3, <1>4

LEMMA DecisionsTyped ==
    ASSUME NEW results
    PROVE  GoDecide(results) \in Decisions
  BY DEF GoDecide, Decisions
=============================================================================
