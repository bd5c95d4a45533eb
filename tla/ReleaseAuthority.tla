--------------------------- MODULE ReleaseAuthority ---------------------------
(***************************************************************************)
(* What a release authority promises, whoever runs it: it observes         *)
(* releases, and it judges what it observed.  No clock, no key, no client. *)
(***************************************************************************)
EXTENDS Evidence

CONSTANTS ReleaseIds, Sources, Policies, ExecutionIds,
          FailingUnder(_, _)   \* the checks that fail on a source under a policy

VARIABLES evidence, judgements

Facts ==
    [release : ReleaseIds, source : Sources, policy : Policies,
     execution : ExecutionIds, failing : SUBSET Checks]

Init == evidence = {} /\ judgements = {}

\* An execution observes every check that fails, and perhaps more: a check that
\* could not be seen to pass counts as failed.
Observe ==
    \E f \in Facts :
        /\ FailingUnder(f.source, f.policy) \subseteq f.failing
        /\ \A e \in evidence : e.execution # f.execution
        /\ evidence' = evidence \union {f}
        /\ UNCHANGED judgements

\* A judgement is of an observation and says what its failures call for.
Judge ==
    \E f \in evidence :
        /\ judgements' = judgements \union
              {[release |-> f.release, source |-> f.source, policy |-> f.policy,
                execution |-> f.execution, decision |-> DecisionFor(f.failing)]}
        /\ UNCHANGED evidence

Next == Observe \/ Judge

Spec == Init /\ [][Next]_<<evidence, judgements>>

\* Two judgements of one execution are the same judgement.
OneJudgementPerExecution ==
    \A j1, j2 \in judgements : j1.execution = j2.execution => j1 = j2
=============================================================================
