--------------------------- MODULE MCReleaseEngine ---------------------------
(* One secret rule and five commands, one for each way a severity and the  *)
(* blocking flag can weigh on the decision; policies of one to four of     *)
(* them, and of any order where order could matter.                        *)
EXTENDS ReleaseEngine, TLC

CONSTANTS secret, crit, high, med, low, soft

MCChecks == {secret, crit, high, med, low, soft}
MCPlatformChecks == {secret}
MCSeverityOf == (secret :> "HIGH" @@ crit :> "CRITICAL" @@ high :> "HIGH"
                 @@ med :> "MEDIUM" @@ low :> "LOW" @@ soft :> "CRITICAL")
MCBlockingOf == [k \in MCChecks |-> k # soft]

\* crit and soft print the same truncated identity.
MCFindingIdOf == [k \in MCChecks |-> IF k = crit THEN soft ELSE k]

MCPolicyCommands ==
    {<<high>>, <<med, low>>, <<low, med>>, <<soft, med>>, <<crit, soft, med>>,
     <<low, high, soft, med>>}
=============================================================================
