------------------------- MODULE MCWebMCPRemediation -------------------------
(* Two clients on either of two scenarios.  A fixture is clean or holds a   *)
(* secret; one may change from clean to leaking and back, the other leaks.  *)
EXTENDS WebMCPRemediation, TLC

CONSTANTS secret, high, tenant, path, clean, leaking

MCChecks == {secret, high}
MCPlatformChecks == {secret}
MCSeverityOf == [k \in MCChecks |-> "HIGH"]
MCBlockingOf == [k \in MCChecks |-> TRUE]
MCFindingIdOf == [k \in MCChecks |-> k]
MCShipped == [s \in Scenarios |-> IF s = tenant THEN clean ELSE leaking]
MCMatchesIn ==
    [x \in Sources |-> IF x[2] = clean THEN {} ELSE {secret}]
=============================================================================
