------------------------------ MODULE Evidence ------------------------------
(***************************************************************************)
(* Findings, the evidence they carry, and the two deterministic gates that *)
(* turn them into a decision: the Python reference gate, which reads the   *)
(* findings themselves, and the Go Gatekeeper, which reads only the check  *)
(* results of a signed bundle.  There is no state here.                    *)
(*                                                                         *)
(* A check is a command of the organization policy or one match of a       *)
(* platform secret rule.  A SHA-256 over a value is modelled by the value  *)
(* itself, so two digests are equal exactly when the values are.           *)
(***************************************************************************)
CONSTANTS
    Checks,           \* every check that can fail on some source
    PlatformChecks,   \* those that are matches of a platform rule
    SeverityOf,       \* the severity a policy gives each check
    BlockingOf,       \* blocking_on_failure of each check
    FindingIdOf       \* the identity a finding prints: a truncated hash, so
                      \* two checks may share one

Severities == {"INFO", "LOW", "MEDIUM", "HIGH", "CRITICAL"}

Decisions == {"GO", "CONDITIONAL_GO", "NO_GO"}

Authorities == {"PLATFORM", "ORGANIZATION_POLICY", "MODEL_ADVISORY"}

FindingIds == {FindingIdOf[k] : k \in Checks}

ASSUME ChecksAssumption ==
    /\ PlatformChecks \subseteq Checks
    /\ SeverityOf \in [Checks -> Severities]
    /\ BlockingOf \in [Checks -> BOOLEAN]
    /\ DOMAIN FindingIdOf = Checks
    /\ \A k \in PlatformChecks : SeverityOf[k] = "HIGH" /\ BlockingOf[k]

EvidenceRecords ==
    [authority : Authorities, reproducible : BOOLEAN, blocking_eligible : BOOLEAN]

Findings ==
    [check : Checks, finding_id : FindingIds, severity : Severities,
     evidence : SUBSET EvidenceRecords]

----------------------------------------------------------------------------
(* What the engine and the scanner write down when a check fails.          *)

\* A rule match or a failed command.  A timed-out command is a failure whose
\* evidence is not reproducible; nothing downstream reads that flag.
FindingFor(k, timedOut) ==
    [check |-> k,
     finding_id |-> FindingIdOf[k],
     severity |-> SeverityOf[k],
     evidence |-> {[authority |-> IF k \in PlatformChecks
                                  THEN "PLATFORM" ELSE "ORGANIZATION_POLICY",
                    reproducible |-> ~timedOut,
                    blocking_eligible |-> BlockingOf[k]]}]

\* What an evaluation records when exactly `failing` failed.
RunFindings(failing, timeouts) == {FindingFor(k, k \in timeouts) : k \in failing}

Authoritative(e) == e.authority \in {"PLATFORM", "ORGANIZATION_POLICY"}

BlockingEvidence(f) ==
    {e \in f.evidence : Authoritative(e) /\ e.blocking_eligible}

Blocking(f) == BlockingEvidence(f) # {}

----------------------------------------------------------------------------
(* The Python reference gate.                                              *)

JudgeIgnoringMedium(findings) ==
    IF \E f \in findings : f.severity \in {"HIGH", "CRITICAL"} /\ Blocking(f)
    THEN "NO_GO" ELSE "GO"

JudgeDecide(findings) ==
    LET some(severities) ==
            \E f \in findings : f.severity \in severities /\ Blocking(f)
    IN  IF some({"HIGH", "CRITICAL"}) THEN "NO_GO"
        ELSE IF some({"MEDIUM"}) THEN "CONDITIONAL_GO"
        ELSE "GO"

----------------------------------------------------------------------------
(* The projection that is signed, and the Go gate that reads it.           *)

CheckResults ==
    [finding_id : FindingIds, severity : Severities, failed : BOOLEAN,
     blocking_eligible : BOOLEAN, evidence_digest : Findings]

CheckResult(f) ==
    [finding_id |-> f.finding_id,
     severity |-> f.severity,
     failed |-> TRUE,
     blocking_eligible |-> Blocking(f),
     evidence_digest |-> f]

\* The bundle holds the results sorted by finding_id; as a set, the order is
\* canonical already.
BundleResults(findings) == {CheckResult(f) : f \in findings}

DuplicateFinding(results) ==
    \E r1, r2 \in results : r1 # r2 /\ r1.finding_id = r2.finding_id

GoDecideHighOnly(results) ==
    IF \E r \in results : r.failed /\ r.blocking_eligible /\ r.severity = "CRITICAL"
    THEN "NO_GO" ELSE "GO"

GoDecide(results) ==
    LET some(severities) ==
            \E r \in results :
                r.failed /\ r.blocking_eligible /\ r.severity \in severities
    IN  IF some({"HIGH", "CRITICAL"}) THEN "NO_GO"
        ELSE IF some({"MEDIUM"}) THEN "CONDITIONAL_GO"
        ELSE "GO"

----------------------------------------------------------------------------
(* What a decision about a source means, stated on the checks that fail    *)
(* on it and not on any record of them: the definition the two gates are   *)
(* compared with.                                                          *)

DecisionFor(failing) ==
    LET blocks(severities) ==
            \E k \in failing : SeverityOf[k] \in severities /\ BlockingOf[k]
    IN  IF blocks({"HIGH", "CRITICAL"}) THEN "NO_GO"
        ELSE IF blocks({"MEDIUM"}) THEN "CONDITIONAL_GO"
        ELSE "GO"

\* How much each decision lets through.
Permissiveness ==
    [d \in Decisions |-> IF d = "NO_GO" THEN 0 ELSE IF d = "CONDITIONAL_GO" THEN 1 ELSE 2]
=============================================================================
