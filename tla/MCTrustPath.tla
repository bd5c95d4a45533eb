----------------------------- MODULE MCTrustPath -----------------------------
(* Two sources, one with a high, a medium and a secret check failing and   *)
(* one clean; a strict policy and one that lacks the high check; a trusted *)
(* key, the key of the next rotation and the demo's key.                   *)
EXTENDS TrustPath, TLC

CONSTANTS vulnerable, fixed, strict, lax, cloudKey, nextKey, demoKey,
          secret, high, med, proofRel, attackRel, prevRel, ampRel

MCChecks == {secret, high, med}
MCPlatformChecks == {secret}
MCSeverityOf == (secret :> "HIGH" @@ high :> "HIGH" @@ med :> "MEDIUM")
MCBlockingOf == [k \in MCChecks |-> TRUE]
MCFindingIdOf == [k \in MCChecks |-> k]
MCFailing == (vulnerable :> {high, med} @@ fixed :> {})
MCCommandsOf == [p \in Policies |-> IF p = strict THEN {high, med} ELSE {med}]
MCFlaky == {med}
MCExecutionIds == Calls \X {"current", "previous"}
MCKeyIdOf == [k \in Keys |-> k]
MCPin == [policy |-> strict, key_id |-> cloudKey]
MCPins == {MCPin, [policy |-> None, key_id |-> cloudKey]}
MCOnePin == {MCPin}

MCConfigurations == {[policy |-> strict, key |-> cloudKey],
                     [policy |-> lax, key |-> cloudKey],
                     [policy |-> strict, key |-> nextKey]}
MCConfiguration == {[policy |-> strict, key |-> cloudKey]}

\* The attestor's clock ahead by more than the tolerance, and the Gatekeeper's.
MCLeads == {[attestor |-> 2, gatekeeper |-> 0], [attestor |-> 0, gatekeeper |-> 1]}
MCLead == {[attestor |-> 1, gatekeeper |-> 0]}
=============================================================================
