------------------------- MODULE ReleaseEngineProofs -------------------------
(***************************************************************************)
(* A report decides on what was observed, for any checks, policies,        *)
(* advisor and gatekeeper.                                                 *)
(*                                                                         *)
(* The argument follows the seal.  Until it is taken the live findings are *)
(* the record of the failures seen; from then on the sealed copy is, and   *)
(* the live ones are it again wherever a comparison has just been passed.  *)
(***************************************************************************)
EXTENDS ReleaseEngine, EvidenceProofs

Observed == {FindingFor(o.check, o.timed_out) : o \in failed}

\* What the call has established on its way to each stage.
Recorded ==
    /\ stage \in {"execute", "advise"} => findings = Observed
    /\ stage \in {"advise", "check_seal", "decide", "report"} =>
          sealed = Observed /\ index = Len(setup.commands)
    /\ stage = "decide" => findings = sealed
    /\ stage = "report" => verdict = JudgeDecide(Observed) /\ advisory # "UNREADABLE"
    /\ stage # "done" => report = None

ReportIsObserved ==
    report # None =>
        /\ report.decision = JudgeDecide(Observed)
        /\ report.execution_count = Len(setup.commands)
        /\ report.findings = Observed

IInv == TypeOK /\ Recorded /\ ReportIsObserved

-----------------------------------------------------------------------------
(* The operators.                                                          *)

\* Whoever alters a finding leaves a finding.
LEMMA TamperedTyped ==
    ASSUME findings \subseteq Findings, NEW live \in {findings} \union Tampered
    PROVE  live \subseteq Findings
<1>1. ASSUME NEW f \in Findings, NEW g \in Altered(f)
      PROVE  g \in Findings
  <2>1. [f EXCEPT !.severity = "LOW"] \in Findings
    BY DEF Findings, Severities
  <2>2. [f EXCEPT !.evidence = {}] \in Findings
    BY DEF Findings
  <2>3. QED
    BY <2>1, <2>2 DEF Altered
<1>2. QED
  BY <1>1 DEF Tampered

\* The reference gate decides on the record of a run as the definition says of
\* the checks that failed, each of them possibly by a timeout.
LEMMA JudgeDecidesOnObserved == JudgeDecide(Observed) = DecisionFor(FailedChecks)
<1> DEFINE some(severities) ==
               \E f \in Observed : f.severity \in severities /\ Blocking(f)
           blocks(severities) ==
               \E k \in FailedChecks : SeverityOf[k] \in severities /\ BlockingOf[k]
<1>1. ASSUME NEW severities
      PROVE  some(severities) <=> blocks(severities)
  <2>1. \A o \in failed : FindingFor(o.check, o.timed_out) \in Observed
    BY DEF Observed
  <2>2. \A f \in Observed : \E o \in failed : f = FindingFor(o.check, o.timed_out)
    BY DEF Observed
  <2>3. \A o \in failed : o.check \in FailedChecks
    BY DEF FailedChecks
  <2>4. \A k \in FailedChecks : \E o \in failed : k = o.check
    BY DEF FailedChecks
  <2>5. QED
    BY <2>1, <2>2, <2>3, <2>4, FindingBlocks
<1>2. some({"HIGH", "CRITICAL"}) <=> blocks({"HIGH", "CRITICAL"})
  BY <1>1
<1>3. some({"MEDIUM"}) <=> blocks({"MEDIUM"})
  BY <1>1
<1>4. QED
  BY <1>2, <1>3 DEF JudgeDecide, DecisionFor

LEMMA JudgeTyped ==
    ASSUME NEW evidence
    PROVE  JudgeDecide(evidence) \in Decisions
BY DEF JudgeDecide, Decisions

\* A command of a policy is a check.
LEMMA CommandIsCheck ==
    ASSUME TypeOK, index < Len(setup.commands)
    PROVE  /\ setup.commands[index + 1] \in Checks
           /\ index + 1 \in 0..Len(setup.commands)
<1>1. /\ setup.commands \in Seq(Checks \ PlatformChecks)
      /\ index \in 0..Len(setup.commands)
  BY EngineAssumption DEF TypeOK
<1>2. QED
  BY <1>1

\* What one more failing check adds to the record.
LEMMA ObservedGrows ==
    ASSUME NEW k, NEW t, failed' = failed \union {[check |-> k, timed_out |-> t]}
    PROVE  Observed' = Observed \union {FindingFor(k, t)}
<1> DEFINE o == [check |-> k, timed_out |-> t]
<1>1. FindingFor(o.check, o.timed_out) = FindingFor(k, t)
  OBVIOUS
<1>2. Observed' = {FindingFor(x.check, x.timed_out) : x \in failed \union {o}}
  BY DEF Observed
<1> HIDE DEF o
<1>3. QED
  BY <1>1, <1>2 DEF Observed

-----------------------------------------------------------------------------
(* The invariant.                                                          *)

LEMMA InitInv == Init => IInv
<1> SUFFICES ASSUME Init PROVE IInv
  OBVIOUS
<1>1. TypeOK
  <2>1. setup.commands \in Seq(Checks \ PlatformChecks)
    BY EngineAssumption DEF Init
  <2>2. 0 \in 0..Len(setup.commands)
    BY <2>1
  <2>3. QED
    BY <2>2 DEF Init, TypeOK, Stages, Advisories
<1>2. Recorded /\ ReportIsObserved
  BY DEF Init, Recorded, ReportIsObserved
<1>3. QED
  BY <1>1, <1>2 DEF IInv

LEMMA ScanInv == IInv /\ Scan => IInv'
<1> SUFFICES ASSUME IInv, Scan PROVE IInv'
  OBVIOUS
<1>1. PICK matches \in SUBSET PlatformChecks :
          /\ failed' = {[check |-> k, timed_out |-> FALSE] : k \in matches}
          /\ findings' = {FindingFor(k, FALSE) : k \in matches}
  BY DEF Scan
<1> DEFINE seen(k) == [check |-> k, timed_out |-> FALSE]
<1>2. \A k : seen(k).check = k /\ seen(k).timed_out = FALSE
  OBVIOUS
<1>3. \A k \in Checks : seen(k) \in [check : Checks, timed_out : BOOLEAN]
  OBVIOUS
<1>4. failed' = {seen(k) : k \in matches}
  BY <1>1
<1> HIDE DEF seen
<1>5. TypeOK'
  <2>1. failed' \subseteq [check : Checks, timed_out : BOOLEAN]
    BY <1>3, <1>4, ChecksAssumption
  <2>2. findings' \subseteq Findings
    BY <1>1, ChecksAssumption, FindingTyped
  <2>3. QED
    BY <2>1, <2>2 DEF IInv, TypeOK, Scan, Stages
<1>6. findings' = Observed'
  <2>1. \A k : FindingFor(seen(k).check, seen(k).timed_out) = FindingFor(k, FALSE)
    BY <1>2
  <2>2. Observed' = {FindingFor(o.check, o.timed_out) : o \in {seen(k) : k \in matches}}
    BY <1>4 DEF Observed
  <2>3. \A x : x \in Observed' <=> \E k \in matches : x = FindingFor(k, FALSE)
    BY <2>1, <2>2
  <2>4. QED
    BY <1>1, <2>3
<1>7. Recorded' /\ ReportIsObserved'
  BY <1>6 DEF IInv, Recorded, ReportIsObserved, Scan
<1>8. QED
  BY <1>5, <1>7 DEF IInv

LEMMA ExecuteInv == IInv /\ Execute => IInv'
<1> SUFFICES ASSUME IInv, Execute PROVE IInv'
  OBVIOUS
<1> DEFINE k == setup.commands[index + 1]
<1>1. PICK outcome \in {"passed", "failed", "timed_out"} :
          IF outcome = "passed"
          THEN UNCHANGED <<failed, findings>>
          ELSE /\ failed' = failed \union {[check |-> k, timed_out |-> outcome = "timed_out"]}
               /\ findings' = findings \union {FindingFor(k, outcome = "timed_out")}
  BY DEF Execute
<1>2. k \in Checks /\ index' \in 0..Len(setup.commands)
  BY CommandIsCheck DEF IInv, Execute
<1>3. /\ stage = "execute" /\ stage' = "execute" /\ setup' = setup
      /\ sealed' = sealed /\ advisory' = advisory /\ verdict' = verdict
      /\ report' = report /\ error' = error /\ report = None
  BY DEF Execute, IInv, Recorded
<1> HIDE DEF k
<1>4. CASE outcome = "passed"
  <2>1. Observed' = Observed /\ findings' = findings /\ failed' = failed
    BY <1>1, <1>4 DEF Observed
  <2>2. TypeOK'
    BY <1>2, <1>3, <2>1 DEF IInv, TypeOK
  <2>3. Recorded' /\ ReportIsObserved'
    BY <1>3, <2>1 DEF IInv, Recorded, ReportIsObserved
  <2>4. QED
    BY <2>2, <2>3 DEF IInv
<1>5. CASE outcome # "passed"
  <2> DEFINE t == outcome = "timed_out"
  <2>1. t \in BOOLEAN
    OBVIOUS
  <2>2. /\ failed' = failed \union {[check |-> k, timed_out |-> t]}
        /\ findings' = findings \union {FindingFor(k, t)}
    BY <1>1, <1>5
  <2> HIDE DEF t
  <2>3. Observed' = Observed \union {FindingFor(k, t)}
    BY <2>2, ObservedGrows
  <2>4. TypeOK'
    <3>1. FindingFor(k, t) \in Findings
      BY <1>2, <2>1, FindingTyped
    <3>2. findings' \subseteq Findings
      BY <2>2, <3>1 DEF IInv, TypeOK
    <3>3. failed' \subseteq [check : Checks, timed_out : BOOLEAN]
      BY <1>2, <2>1, <2>2 DEF IInv, TypeOK
    <3>4. QED
      BY <1>2, <1>3, <3>2, <3>3 DEF IInv, TypeOK
  <2>5. findings' = Observed'
    BY <1>3, <2>2, <2>3 DEF IInv, Recorded
  <2>6. Recorded' /\ ReportIsObserved'
    BY <1>3, <2>5 DEF Recorded, ReportIsObserved
  <2>7. QED
    BY <2>4, <2>6 DEF IInv
<1>6. QED
  BY <1>4, <1>5

\* The steps that leave the policy, the failures and the live findings alone:
\* what was observed is still that.
LEMMA QuietInv ==
    IInv /\ (ExecutorRaises \/ Seal \/ NoAdvisor \/ CheckSeal) => IInv'
<1> SUFFICES ASSUME IInv, ExecutorRaises \/ Seal \/ NoAdvisor \/ CheckSeal
             PROVE  IInv'
  OBVIOUS
<1>1. Observed' = Observed /\ setup' = setup
  BY DEF Observed, ExecutorRaises, Seal, NoAdvisor, CheckSeal
<1>2. CASE ExecutorRaises
  <2>1. TypeOK'
    BY <1>2 DEF IInv, TypeOK, ExecutorRaises, Raise, Stages, Errors
  <2>2. Recorded' /\ ReportIsObserved'
    BY <1>1, <1>2 DEF IInv, Recorded, ReportIsObserved, ExecutorRaises, Raise
  <2>3. QED
    BY <2>1, <2>2 DEF IInv
<1>3. CASE Seal
  <2>1. TypeOK'
    BY <1>3 DEF IInv, TypeOK, Seal, Stages
  <2>2. Recorded' /\ ReportIsObserved'
    BY <1>1, <1>3 DEF IInv, Recorded, ReportIsObserved, Seal
  <2>3. QED
    BY <2>1, <2>2 DEF IInv
<1>4. CASE NoAdvisor
  <2>1. TypeOK'
    BY <1>4 DEF IInv, TypeOK, NoAdvisor, Stages
  <2>2. Recorded' /\ ReportIsObserved'
    BY <1>1, <1>4 DEF IInv, Recorded, ReportIsObserved, NoAdvisor
  <2>3. QED
    BY <2>1, <2>2 DEF IInv
<1>5. CASE CheckSeal
  <2>1. TypeOK'
    BY <1>5 DEF IInv, TypeOK, CheckSeal, Raise, Stages, Errors
  <2>2. Recorded' /\ ReportIsObserved'
    BY <1>1, <1>5 DEF IInv, Recorded, ReportIsObserved, CheckSeal, Raise
  <2>3. QED
    BY <2>1, <2>2 DEF IInv
<1>6. QED
  BY <1>2, <1>3, <1>4, <1>5

\* An advisor may alter what it can reach, never the failures or the seal.
LEMMA AdvisorInv == IInv /\ (Advise \/ AdvisorRaisesTamper) => IInv'
<1> SUFFICES ASSUME IInv, Advise \/ AdvisorRaisesTamper PROVE IInv'
  OBVIOUS
<1>1. /\ Observed' = Observed /\ setup' = setup /\ stage = "advise"
      /\ findings' \in {findings} \union Tampered
  BY DEF Observed, Advise, AdvisorRaisesTamper
<1>2. findings' \subseteq Findings
  BY <1>1, TamperedTyped DEF IInv, TypeOK
<1>3. CASE Advise
  <2>1. TypeOK'
    BY <1>2, <1>3 DEF IInv, TypeOK, Advise, Stages, Advisories
  <2>2. Recorded' /\ ReportIsObserved'
    BY <1>1, <1>3 DEF IInv, Recorded, ReportIsObserved, Advise
  <2>3. QED
    BY <2>1, <2>2 DEF IInv
<1>4. CASE AdvisorRaisesTamper
  <2>1. TypeOK'
    BY <1>2, <1>4 DEF IInv, TypeOK, AdvisorRaisesTamper, Raise, Stages, Errors
  <2>2. Recorded' /\ ReportIsObserved'
    BY <1>1, <1>4 DEF IInv, Recorded, ReportIsObserved, AdvisorRaisesTamper, Raise
  <2>3. QED
    BY <2>1, <2>2 DEF IInv
<1>5. QED
  BY <1>3, <1>4

\* A gatekeeper refuses, or decides on the sealed evidence and may alter the
\* live findings afterwards.
LEMMA DecideCases ==
    ASSUME TypeOK, Decide
    PROVE  \/ \E exception \in {"RuntimeError", "AttributeError"} :
                 Raise(exception) /\ UNCHANGED <<verdict, findings>>
           \/ /\ advisory # "UNREADABLE" /\ verdict' = JudgeDecide(findings)
              /\ findings' \in {findings} \union Tampered
              /\ stage' = "report" /\ error' = error
<1>0. CASE advisory = "UNREADABLE"
  <2>1. Raise("AttributeError") /\ UNCHANGED <<verdict, findings>>
    BY <1>0, Zenon DEF Decide
  <2>2. QED
    BY <2>1
<1>1. \/ setup.gatekeeper = "remote"
      \/ setup.gatekeeper = "noncompliant"
      \/ setup.gatekeeper = "local"
      \/ setup.gatekeeper = "tampering"
  BY DEF TypeOK, Gatekeepers
<1>2. CASE advisory # "UNREADABLE" /\ setup.gatekeeper = "remote"
  <2>1. Raise("RuntimeError") /\ UNCHANGED <<verdict, findings>>
    BY <1>2, Zenon DEF Decide
  <2>2. QED
    BY <2>1
<1>3. CASE advisory # "UNREADABLE" /\ setup.gatekeeper = "noncompliant"
  <2>1. Raise("RuntimeError") /\ UNCHANGED <<verdict, findings>>
    BY <1>3, Zenon DEF Decide
  <2>2. QED
    BY <2>1
<1>4. CASE /\ advisory # "UNREADABLE"
           /\ setup.gatekeeper = "local" \/ setup.gatekeeper = "tampering"
  <2>1. /\ advisory # "UNREADABLE" /\ setup.gatekeeper # "remote" /\ setup.gatekeeper # "noncompliant"
        /\ setup.gatekeeper \in {"local", "tampering"}
    BY <1>4
  <2>2. /\ verdict' = JudgeDecide(findings)
        /\ findings' \in IF setup.gatekeeper = "local" THEN {findings}
                         ELSE {findings} \union Tampered
        /\ stage' = "report" /\ UNCHANGED error
    BY <2>1, Zenon DEF Decide
  <2>3. QED
    BY <1>4, <2>2
<1>5. QED
  BY <1>0, <1>1, <1>2, <1>3, <1>4

LEMMA DecideInv == IInv /\ Decide => IInv'
<1> SUFFICES ASSUME IInv, Decide PROVE IInv'
  OBVIOUS
<1>1. /\ Observed' = Observed /\ stage = "decide"
      /\ setup' = setup /\ index' = index /\ failed' = failed
      /\ sealed' = sealed /\ advisory' = advisory /\ report' = report
  BY DEF Decide, Observed
<1>2. report = None /\ sealed = Observed /\ findings = Observed
      /\ index = Len(setup.commands)
  BY <1>1 DEF IInv, Recorded
<1>3. CASE \E exception \in {"RuntimeError", "AttributeError"} :
              Raise(exception) /\ UNCHANGED <<verdict, findings>>
  <2>1. TypeOK'
    BY <1>1, <1>3 DEF IInv, TypeOK, Raise, Stages, Errors
  <2>2. Recorded' /\ ReportIsObserved'
    BY <1>1, <1>2, <1>3 DEF Recorded, ReportIsObserved, Raise
  <2>3. QED
    BY <2>1, <2>2 DEF IInv
<1>4. CASE /\ advisory # "UNREADABLE" /\ verdict' = JudgeDecide(findings)
           /\ findings' \in {findings} \union Tampered
           /\ stage' = "report" /\ error' = error
  <2>1. TypeOK'
    <3>1. findings' \subseteq Findings
      BY <1>4, TamperedTyped DEF IInv, TypeOK
    <3>2. verdict' \in Decisions
      BY <1>4, JudgeTyped
    <3>3. QED
      BY <1>1, <1>4, <3>1, <3>2 DEF IInv, TypeOK, Stages
  <2>2. Recorded' /\ ReportIsObserved'
    BY <1>1, <1>2, <1>4 DEF Recorded, ReportIsObserved
  <2>3. QED
    BY <2>1, <2>2 DEF IInv
<1>5. QED
  BY <1>3, <1>4, DecideCases DEF IInv

LEMMA ReportInv == IInv /\ Report => IInv'
<1> SUFFICES ASSUME IInv, Report PROVE IInv'
  OBVIOUS
<1>1. /\ Observed' = Observed /\ stage = "report"
      /\ setup' = setup /\ index' = index /\ failed' = failed
      /\ findings' = findings /\ sealed' = sealed /\ advisory' = advisory
      /\ verdict' = verdict
  BY DEF Report, Observed
<1>2. /\ report = None /\ sealed = Observed
      /\ index = Len(setup.commands) /\ verdict = JudgeDecide(Observed)
      /\ advisory # "UNREADABLE"
  BY <1>1 DEF IInv, Recorded
<1>3. CASE findings # sealed
  <2>1. stage' = "failed" /\ error' = "EvidenceIntegrityError" /\ report' = report
    BY <1>3 DEF Report, Raise
  <2>2. TypeOK'
    BY <1>1, <2>1 DEF IInv, TypeOK, Stages, Errors
  <2>3. Recorded' /\ ReportIsObserved'
    BY <1>1, <1>2, <2>1 DEF Recorded, ReportIsObserved
  <2>4. QED
    BY <2>2, <2>3 DEF IInv
<1>4. CASE findings = sealed /\ advisory = "NOT_JSON"
  <2>1. stage' = "failed" /\ error' = "TypeError" /\ report' = report
    BY <1>4 DEF Report, Raise
  <2>2. TypeOK'
    BY <1>1, <2>1 DEF IInv, TypeOK, Stages, Errors
  <2>3. Recorded' /\ ReportIsObserved'
    BY <1>1, <1>2, <2>1 DEF Recorded, ReportIsObserved
  <2>4. QED
    BY <2>2, <2>3 DEF IInv
<1>5. CASE findings = sealed /\ advisory # "NOT_JSON"
  <2>1. /\ report' = [decision |-> verdict, findings |-> findings,
                      execution_count |-> index, evidence_sha256 |-> sealed,
                      advisory |-> advisory]
        /\ stage' = "done" /\ error' = error
    BY <1>5 DEF Report
  <2>2. report' \in Reports
    <3>1. verdict \in Decisions
      BY <1>2, JudgeTyped
    <3>2. findings \in SUBSET Findings /\ sealed \in SUBSET Findings
      BY <1>5 DEF IInv, TypeOK
    <3>3. index \in Nat
      BY DEF IInv, TypeOK
    <3>4. advisory \in {"NONE", "OPINIONS", "UNAVAILABLE"}
      BY <1>2, <1>5 DEF IInv, TypeOK, Advisories
    <3>5. QED
      BY <2>1, <3>1, <3>2, <3>3, <3>4 DEF Reports
  <2>3. TypeOK'
    BY <1>1, <2>1, <2>2 DEF IInv, TypeOK, Stages
  <2>4. Recorded' /\ ReportIsObserved'
    BY <1>1, <1>2, <1>5, <2>1 DEF Recorded, ReportIsObserved
  <2>5. QED
    BY <2>3, <2>4 DEF IInv
<1>6. QED
  BY <1>3, <1>4, <1>5

LEMMA NextInv == IInv /\ [Next]_vars => IInv'
<1> SUFFICES ASSUME IInv, [Next]_vars PROVE IInv'
  OBVIOUS
<1>1. CASE Next
  BY <1>1, ScanInv, ExecuteInv, QuietInv, AdvisorInv, DecideInv, ReportInv DEF Next
<1>2. CASE UNCHANGED vars
  BY <1>2 DEF vars, IInv, TypeOK, Recorded, ReportIsObserved, Observed
<1>3. QED
  BY <1>1, <1>2

LEMMA EngineInvariant == Spec => []IInv
<1>1. QED
  BY InitInv, NextInv, PTL DEF Spec

-----------------------------------------------------------------------------
(* The theorems.                                                           *)

\* The state of a call has its type at every stage, on every error path
\* (engine.py:70-165).
THEOREM EngineTypeCorrect == Spec => []TypeOK
<1>1. IInv => TypeOK
  BY DEF IInv
<1>2. QED
  BY <1>1, EngineInvariant, PTL

\* A report decides on exactly the failures seen on the way, whatever the
\* advisor and the gatekeeper did to the objects they could reach
\* (engine.py:88-165, domain/release.py:42-54).
THEOREM ReportTheorem == Spec => []ReportDecidesOnObservation
<1>1. IInv => ReportDecidesOnObservation
  BY JudgeDecidesOnObserved DEF IInv, ReportIsObserved, ReportDecidesOnObservation, Observed
<1>2. QED
  BY <1>1, EngineInvariant, PTL

\* The Go gate, given what a report would have signed, decides as the report
\* does (gatekeeper.py:43-64, verdict.go:84-134).
THEOREM ReportedGatesAgree == Spec => []GatesAgree
<1>1. IInv => GatesAgree
  BY GatesAgreeOnAllFindings DEF IInv, ReportIsObserved, GatesAgree
<1>2. QED
  BY <1>1, EngineInvariant, PTL

\* No gatekeeper is asked about evidence that changed after the seal: a verdict
\* is never computed from it (engine.py:135-138).
THEOREM SealGuardsTheVerdict == Spec => NoVerdictOnTamperedEvidence
<1>1. IInv /\ [Next]_vars => [verdict' # verdict => findings = sealed]_vars
  <2> SUFFICES ASSUME IInv, Next, verdict' # verdict
               PROVE  findings = sealed
    BY DEF vars
  <2>1. Decide
    BY DEF Next, Scan, Execute, ExecutorRaises, Seal, NoAdvisor, Advise,
           AdvisorRaisesTamper, CheckSeal, Report
  <2>2. stage = "decide"
    BY <2>1 DEF Decide
  <2>3. QED
    BY <2>2 DEF IInv, Recorded
<1>2. QED
  BY <1>1, EngineInvariant, PTL DEF Spec, NoVerdictOnTamperedEvidence

-----------------------------------------------------------------------------
(* Progress: what CallEnds rests on besides fairness.                      *)

\* The steps a call has left: its commands, and what comes after them.
StepsLeft ==
    CASE stage = "scan" -> 6 + Len(setup.commands) - index
      [] stage = "execute" -> 5 + Len(setup.commands) - index
      [] stage = "advise" -> 4
      [] stage = "check_seal" -> 3
      [] stage = "decide" -> 2
      [] stage = "report" -> 1
      [] OTHER -> 0

LEMMA StepsTyped == TypeOK => StepsLeft \in Nat
<1> SUFFICES ASSUME TypeOK PROVE StepsLeft \in Nat
  OBVIOUS
<1> DEFINE k == Len(setup.commands)
<1>1. k \in Nat /\ index \in 0..k
  <2>1. setup.commands \in Seq(Checks \ PlatformChecks)
    BY EngineAssumption DEF TypeOK
  <2>2. QED
    BY <2>1 DEF TypeOK
<1> HIDE DEF k
<1>2. k - index \in Nat
  BY <1>1
<1>3. 6 + k - index \in Nat /\ 5 + k - index \in Nat
  BY <1>1, <1>2
<1>4. QED
  BY <1>3 DEF StepsLeft, TypeOK, Stages, k

\* No call runs in circles: every step, an exception included, leaves fewer than
\* there were, so a call makes at most six more steps than it has commands
\* (engine.py:88-165).
THEOREM CallIsBounded ==
    Spec => [](StepsLeft \in Nat) /\ [][StepsLeft' < StepsLeft]_vars
<1>1. ASSUME IInv, Next
      PROVE  StepsLeft' < StepsLeft
  <2>1. TypeOK
    BY <1>1 DEF IInv
  <2> DEFINE k == Len(setup.commands)
  <2>3. k \in Nat /\ index \in 0..k
    <3>1. setup.commands \in Seq(Checks \ PlatformChecks)
      BY <2>1, EngineAssumption DEF TypeOK
    <3>2. QED
      BY <2>1, <3>1 DEF TypeOK
  <2>4. CASE Scan
    <3>1. stage = "scan" /\ stage' = "execute" /\ setup' = setup /\ index' = index
      BY <2>4 DEF Scan
    <3>2. StepsLeft = 6 + k - index /\ StepsLeft' = 5 + k - index
      BY <3>1 DEF StepsLeft
    <3> HIDE DEF k
    <3>3. QED
      BY <2>3, <3>2
  <2>5. CASE Execute
    BY <2>3, <2>5 DEF Execute, StepsLeft
  <2>6. CASE ExecutorRaises
    BY <2>3, <2>6 DEF ExecutorRaises, Raise, StepsLeft
  <2>7. CASE Seal
    BY <2>3, <2>7 DEF Seal, StepsLeft
  <2>8. CASE NoAdvisor \/ Advise \/ AdvisorRaisesTamper
    BY <2>8 DEF NoAdvisor, Advise, AdvisorRaisesTamper, Raise, StepsLeft
  <2>9. CASE CheckSeal
    BY <2>9 DEF CheckSeal, Raise, StepsLeft
  <2>10. CASE Decide
    <3>1. stage = "decide" /\ stage' \in {"failed", "report"}
      BY <2>1, <2>10, DecideCases DEF Decide, Raise
    <3>2. QED
      BY <3>1 DEF StepsLeft
  <2>11. CASE Report
    BY <2>11 DEF Report, Raise, StepsLeft
  <2>12. QED
    BY <1>1, <2>4, <2>5, <2>6, <2>7, <2>8, <2>9, <2>10, <2>11 DEF Next
<1>2. IInv /\ [Next]_vars =>
        [StepsLeft' < StepsLeft]_vars
  BY <1>1
<1>3. IInv => StepsLeft \in Nat
  BY StepsTyped DEF IInv
<1>4. QED
  BY <1>2, <1>3, EngineInvariant, PTL DEF Spec

\* The advisor's failure is known only once it has had its turn.
AdvisedLate == stage \in {"scan", "execute", "advise"} => advisory = "NONE"

\* A call of the local gatekeeper whose advisor failed and left the evidence alone.
Unadvised ==
    advisory = "UNAVAILABLE" /\ findings = sealed /\ setup.gatekeeper = "local"

\* An advisor that is unavailable has no say: a call that it left without opinions
\* goes on to the local gatekeeper and its report as if it had not been asked, and
\* cannot fail any more (engine.py:167-190).
THEOREM UnavailableHasNoSay ==
    Spec => [][Unadvised /\ stage # "failed" => Unadvised' /\ stage' # "failed"]_vars
<1>1. Init => AdvisedLate
  BY DEF Init, AdvisedLate
<1>2. AdvisedLate /\ IInv /\ [Next]_vars => AdvisedLate'
  <2> SUFFICES ASSUME AdvisedLate, IInv, [Next]_vars PROVE AdvisedLate'
    OBVIOUS
  <2>1. CASE Decide
    BY <2>1, DecideCases DEF IInv, AdvisedLate, Decide, Raise
  <2>2. CASE UNCHANGED vars
    BY <2>2 DEF vars, AdvisedLate
  <2>3. QED
    BY <2>1, <2>2 DEF AdvisedLate, Next, Scan, Execute, ExecutorRaises, Seal, NoAdvisor, Advise,
                      AdvisorRaisesTamper, CheckSeal, Report, Raise
<1>3. ASSUME IInv, AdvisedLate, Next, Unadvised, stage # "failed"
      PROVE  Unadvised' /\ stage' # "failed"
  <2>1. stage \notin {"scan", "execute", "advise"}
    BY <1>3 DEF AdvisedLate, Unadvised
  <2>2. CASE CheckSeal
    BY <1>3, <2>2 DEF CheckSeal, Unadvised
  <2>3. CASE Decide
    <3>1. advisory # "UNREADABLE" /\ setup.gatekeeper = "local" /\ setup.gatekeeper # "remote"
          /\ setup.gatekeeper # "noncompliant" /\ setup.gatekeeper \in {"local", "tampering"}
      BY <1>3 DEF Unadvised
    <3>2. findings' \in {findings} /\ stage' = "report"
      BY <2>3, <3>1, Zenon DEF Decide
    <3>3. QED
      BY <1>3, <2>3, <3>2 DEF Decide, Unadvised
  <2>4. CASE Report
    BY <1>3, <2>4 DEF Report, Unadvised
  <2>5. QED
    BY <1>3, <2>1, <2>2, <2>3, <2>4 DEF Next, Scan, Execute, ExecutorRaises, Seal, NoAdvisor,
       Advise, AdvisorRaisesTamper
<1>4. IInv /\ AdvisedLate /\ [Next]_vars =>
        [Unadvised /\ stage # "failed" => Unadvised' /\ stage' # "failed"]_vars
  BY <1>3
<1>5. QED
  BY <1>1, <1>2, <1>4, EngineInvariant, PTL DEF Spec
=============================================================================
