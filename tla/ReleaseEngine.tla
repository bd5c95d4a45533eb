---------------------------- MODULE ReleaseEngine ----------------------------
(***************************************************************************)
(* One call of ReleaseEngine.evaluate: collect evidence, seal it, let an   *)
(* advisor look at a projection of it, check the seal, ask a gatekeeper,   *)
(* build the report.  The executor, the advisor and the gatekeeper are     *)
(* parameters of the class, so each may fail or misbehave in the ways the  *)
(* code provides for.                                                      *)
(***************************************************************************)
EXTENDS Evidence, Naturals, Sequences

CONSTANTS
    PolicyCommands,   \* the command lists a policy may have
    None

Gatekeepers == {"local", "remote", "noncompliant", "tampering"}

Advisors == {"none", "present"}

Stages == {"scan", "execute", "advise", "check_seal", "decide", "report",
           "done", "failed"}

Errors == {"SandboxUnavailable", "EvidenceTamperError", "RuntimeError",
           "EvidenceIntegrityError", "AttributeError", "TypeError"}

\* What the advisory stage may return.  "UNREADABLE" is no mapping, "NOT_JSON" one
\* with a value in it that is not of a JSON type.
Advisories == {"NONE", "OPINIONS", "UNAVAILABLE", "UNREADABLE", "NOT_JSON"}

ASSUME EngineAssumption ==
    /\ PolicyCommands # {}
    /\ \A p \in PolicyCommands :
          /\ p \in Seq(Checks \ PlatformChecks) /\ p # <<>>
          /\ \A i, j \in DOMAIN p : p[i] = p[j] => i = j

VARIABLES
    setup,      \* the policy, the advisor and the gatekeeper of the call
    stage,
    index,      \* commands executed so far: executions
    failed,     \* history: the checks seen to fail, and whether by a timeout
    findings,   \* the live Finding objects
    sealed,     \* sealed_fingerprint, None before the seal
    advisory,   \* what the advisory stage returned
    verdict,    \* the gatekeeper's decision, None before it is asked
    report,     \* the ReleaseReport, None when there is none
    error       \* the exception that ended the call

vars == <<setup, stage, index, failed, findings, sealed, advisory, verdict,
          report, error>>

Reports == [decision : Decisions, findings : SUBSET Findings,
            execution_count : Nat, evidence_sha256 : SUBSET Findings,
            advisory : {"NONE", "OPINIONS", "UNAVAILABLE"}]

TypeOK ==
    /\ setup \in [commands : PolicyCommands, advisor : Advisors, gatekeeper : Gatekeepers]
    /\ stage \in Stages
    /\ index \in 0..Len(setup.commands)
    /\ failed \subseteq [check : Checks, timed_out : BOOLEAN]
    /\ findings \subseteq Findings
    /\ sealed \in (SUBSET Findings) \union {None}
    /\ advisory \in Advisories
    /\ verdict \in Decisions \union {None}
    /\ report \in Reports \union {None}
    /\ error \in Errors \union {None}

Init ==
    /\ setup \in [commands : PolicyCommands, advisor : Advisors, gatekeeper : Gatekeepers]
    /\ stage = "scan"
    /\ index = 0
    /\ failed = {}
    /\ findings = {}
    /\ sealed = None
    /\ advisory = "NONE"
    /\ verdict = None
    /\ report = None
    /\ error = None

Raise(exception) == stage' = "failed" /\ error' = exception

----------------------------------------------------------------------------
(* Evidence.                                                               *)

\* scan_platform_rules: any set of rule matches.
Scan ==
    /\ stage = "scan"
    /\ \E matches \in SUBSET PlatformChecks :
          /\ failed' = {[check |-> k, timed_out |-> FALSE] : k \in matches}
          /\ findings' = {FindingFor(k, FALSE) : k \in matches}
    /\ stage' = "execute"
    /\ UNCHANGED <<setup, index, sealed, advisory, verdict, report, error>>

\* One command of the policy, a bug: a timeout taken for a pass.
ExecuteTimeoutPasses ==
    /\ stage = "execute" /\ index < Len(setup.commands)
    /\ index' = index + 1
    /\ \E outcome \in {"passed", "failed", "timed_out"} :
          LET k == setup.commands[index + 1]
          IN  /\ failed' = IF outcome = "passed" THEN failed
                           ELSE failed \union {[check |-> k, timed_out |-> outcome = "timed_out"]}
              /\ findings' = IF outcome = "failed" THEN findings \union {FindingFor(k, FALSE)}
                             ELSE findings
    /\ UNCHANGED <<setup, stage, sealed, advisory, verdict, report, error>>

\* One command of the policy: passed, or recorded as a finding.
Execute ==
    /\ stage = "execute" /\ index < Len(setup.commands)
    /\ index' = index + 1
    /\ \E outcome \in {"passed", "failed", "timed_out"} :
          LET k == setup.commands[index + 1]
              t == outcome = "timed_out"
          IN  IF outcome = "passed"
              THEN UNCHANGED <<failed, findings>>
              ELSE /\ failed' = failed \union {[check |-> k, timed_out |-> t]}
                   /\ findings' = findings \union {FindingFor(k, t)}
    /\ UNCHANGED <<setup, stage, sealed, advisory, verdict, report, error>>

\* The executor refuses: no sandbox binary, or a cwd outside the repository.
ExecutorRaises ==
    /\ stage = "execute" /\ index < Len(setup.commands)
    /\ Raise("SandboxUnavailable")
    /\ UNCHANGED <<setup, index, failed, findings, sealed, advisory, verdict, report>>

\* The commands are done: nothing below may change what was observed.
Seal ==
    /\ stage = "execute" /\ index = Len(setup.commands)
    /\ sealed' = findings
    /\ stage' = "advise"
    /\ UNCHANGED <<setup, index, failed, findings, advisory, verdict, report, error>>

----------------------------------------------------------------------------
(* The advisory stage.                                                     *)

\* The live objects after someone who holds a reference to one has altered
\* it: its severity lowered, or its evidence dropped.
Altered(f) == {[f EXCEPT !.severity = "LOW"], [f EXCEPT !.evidence = {}]} \ {f}

Tampered == UNION {{(findings \ {f}) \union {g} : g \in Altered(f)} : f \in findings}

NoAdvisor ==
    /\ stage = "advise" /\ setup.advisor = "none"
    /\ stage' = "check_seal"
    /\ UNCHANGED <<setup, index, failed, findings, sealed, advisory, verdict, report, error>>

\* A bug: the failure of an advisor is let through.
AdviseAborts ==
    /\ stage = "advise" /\ setup.advisor = "present"
    /\ advisory' \in {"OPINIONS", "UNAVAILABLE"}
    /\ stage' = IF advisory' = "UNAVAILABLE" THEN "failed" ELSE "check_seal"
    /\ error' = IF advisory' = "UNAVAILABLE" THEN "RuntimeError" ELSE error
    /\ UNCHANGED <<setup, index, failed, findings, sealed, verdict, report>>

\* The advisor returns, something of the right form or not, or raises.  It gets
\* plain data, so it should leave the findings alone; the seal is there for the one
\* that does not.
Advise ==
    /\ stage = "advise" /\ setup.advisor = "present"
    /\ advisory' \in Advisories \ {"NONE"}
    /\ findings' \in {findings} \union Tampered
    /\ stage' = "check_seal"
    /\ UNCHANGED <<setup, index, failed, sealed, verdict, report, error>>

\* An advisor that notices the tampering itself: the one exception of its own
\* that is not turned into UNAVAILABLE.
AdvisorRaisesTamper ==
    /\ stage = "advise" /\ setup.advisor = "present"
    /\ findings' \in {findings} \union Tampered
    /\ Raise("EvidenceTamperError")
    /\ UNCHANGED <<setup, index, failed, sealed, advisory, verdict, report>>

\* A bug: the comparison was lost.
CheckSealSkipped ==
    /\ stage = "check_seal"
    /\ stage' = "decide"
    /\ UNCHANGED <<setup, index, failed, findings, sealed, advisory, verdict, report, error>>

CheckSeal ==
    /\ stage = "check_seal"
    /\ IF findings # sealed
       THEN Raise("EvidenceTamperError")
       ELSE stage' = "decide" /\ UNCHANGED error
    /\ UNCHANGED <<setup, index, failed, findings, sealed, advisory, verdict, report>>

----------------------------------------------------------------------------
(* The decision and the report.                                            *)

\* A bug: what the remote client says of unsigned findings is taken for a verdict.
DecideTakesRejection ==
    /\ stage = "decide"
    /\ verdict' = IF setup.gatekeeper = "remote" THEN "REJECTED" ELSE JudgeDecide(findings)
    /\ stage' = "report"
    /\ UNCHANGED <<setup, index, failed, findings, sealed, advisory, report, error>>

\* The opinions are read from what the advisor returned, outside the handler of
\* its failures, and the gatekeeper is asked.  "tampering" is one that alters a finding after
\* it has decided, "noncompliant" one that reports a model in its decision,
\* "remote" the A2A client, which takes no unsigned findings.
Decide ==
    /\ stage = "decide"
    /\ CASE advisory = "UNREADABLE" ->
              /\ Raise("AttributeError") /\ UNCHANGED <<verdict, findings>>
         [] advisory # "UNREADABLE" /\ setup.gatekeeper = "remote" ->
              /\ Raise("RuntimeError") /\ UNCHANGED <<verdict, findings>>
         [] advisory # "UNREADABLE" /\ setup.gatekeeper = "noncompliant" ->
              /\ Raise("RuntimeError") /\ UNCHANGED <<verdict, findings>>
         [] advisory # "UNREADABLE" /\ setup.gatekeeper \in {"local", "tampering"} ->
              /\ verdict' = JudgeDecide(findings)
              /\ findings' \in IF setup.gatekeeper = "local" THEN {findings}
                               ELSE {findings} \union Tampered
              /\ stage' = "report" /\ UNCHANGED error
    /\ UNCHANGED <<setup, index, failed, sealed, advisory, report>>

\* ReleaseReport.__post_init__ computes the digest again and compares, and takes
\* JSON data only.
Report ==
    /\ stage = "report"
    /\ IF findings # sealed
       THEN Raise("EvidenceIntegrityError") /\ UNCHANGED report
       ELSE IF advisory = "NOT_JSON"
       THEN Raise("TypeError") /\ UNCHANGED report
       ELSE /\ report' = [decision |-> verdict, findings |-> findings,
                          execution_count |-> index, evidence_sha256 |-> sealed,
                          advisory |-> advisory]
            /\ stage' = "done" /\ UNCHANGED error
    /\ UNCHANGED <<setup, index, failed, findings, sealed, advisory, verdict>>

----------------------------------------------------------------------------
Next == \/ Scan \/ Execute \/ ExecutorRaises \/ Seal
        \/ NoAdvisor \/ Advise \/ AdvisorRaisesTamper
        \/ CheckSeal \/ Decide \/ Report

\* The call is one thread, every command has a timeout, and the gate is a
\* computation or an HTTP call with a timeout.  Nothing bounds the advisor, so
\* nothing is assumed of it.
Spec ==
    /\ Init /\ [][Next]_vars
    /\ WF_vars(Scan \/ Execute \/ ExecutorRaises \/ Seal)
    /\ WF_vars(NoAdvisor \/ CheckSeal \/ Decide \/ Report)

----------------------------------------------------------------------------
(* Properties.                                                             *)

FailedChecks == {o.check : o \in failed}

\* A report decides on exactly what was observed: every command of the policy
\* ran, and the decision is the one the failures seen on the way call for,
\* whatever the advisor and the gatekeeper did to the objects they could reach
\* (engine.py 88-165, domain/release.py 42-54).
ReportDecidesOnObservation ==
    report # None =>
        /\ report.decision = DecisionFor(FailedChecks)
        /\ report.execution_count = Len(setup.commands)
        /\ report.findings = {FindingFor(o.check, o.timed_out) : o \in failed}

\* No gatekeeper is asked about evidence that changed after the seal
\* (engine.py 135-138): a verdict is never computed from it.
NoVerdictOnTamperedEvidence ==
    [][verdict' # verdict => findings = sealed]_vars

\* The two gates agree: the Go gate, which reads the projection that is
\* signed, decides as the reference gate does on the findings themselves
\* (gatekeeper.py 43-64 "mirrors its deterministic policy"; verdict.go 84-134).
GatesAgree ==
    report # None => GoDecide(BundleResults(report.findings)) = report.decision

\* Once the advisor has returned, or when there is none, the call ends; and
\* one whose advisor failed without touching the evidence ends in a report,
\* because the advisor has no say (engine.py 167-190).
CallEnds ==
    /\ (stage = "check_seal") ~> (stage \in {"done", "failed"})
    /\ (setup.advisor = "none") ~> (stage \in {"done", "failed"})
    /\ (/\ advisory = "UNAVAILABLE" /\ findings = sealed
        /\ setup.gatekeeper = "local") ~> (report # None)
=============================================================================
