----------------------------- MODULE MCAgentSeal -----------------------------
(* Two entries, one of them blocking; every variant alone, the batteries   *)
(* that let one variant's threads and failures meet the next, and the      *)
(* thirteen of default_variants in their order.                            *)
EXTENDS AgentSeal, TLC

MCEvidence == << [blocking |-> TRUE, body |-> "collected"],
                 [blocking |-> FALSE, body |-> "collected"] >>

DefaultVariants ==
    <<"erase", "downgrade", "drop-one", "flood", "duplicate", "reorder",
      "erase-then-raise", "deferred", "concurrent", "force-go",
      "poisoned-memory", "forge-authority", "forge-policy">>

MCBatteries ==
    {<<>>, DefaultVariants, <<"deferred", "erase-then-raise">>,
     <<"concurrent", "deferred">>, <<"force-go", "reorder">>}
      \union {<<v>> : v \in Behaviours}
=============================================================================
