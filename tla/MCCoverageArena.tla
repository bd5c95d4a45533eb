---------------------------- MODULE MCCoverageArena ----------------------------
(* Benchmarks of four candidates, each of one of the kinds the repository's   *)
(* benchmark files hold under one operator or another, of a kind that only a  *)
(* gap of the gates lets through, or a source that does not load.  The order  *)
(* of a benchmark tells nothing, so the kinds are listed in one order.        *)
EXTENDS CoverageArena, TLC

Kind(wrong, features) == [loads |-> TRUE, wrong |-> wrong, features |-> features]

Unloadable == [loads |-> FALSE, wrong |-> {}, features |-> {}]

TenantKinds ==
    <<Unloadable,
      Kind({}, {"signature", "identity"}),                        \* direct-equality
      Kind({}, {"signature"}),                                    \* explicit-guard
      Kind({}, {}),                                               \* alias-renaming
      Kind({"capitalized", "case"}, {"signature"}),               \* casefold-equality
      Kind({"unicode-normalization"}, {"signature", "identity"}), \* nfkc-equality, direct
      Kind({"unicode-confusable"}, {"signature", "identity"}),    \* through every gate
      Kind({"same-initial"}, {"signature", "identity"})>>         \* safe for the oracle

PathKinds ==
    <<Unloadable,
      Kind({}, {"signature", "commonpath", "unquote"}),
      Kind({}, {"signature", "relpath", "unquote"}),
      Kind({}, {"signature", "unquote"}),
      Kind(EscapingPaths, {"signature"}),                         \* allow-all
      Kind(EscapingPaths \ {"dotdot-one"}, {"signature"}),        \* literal-dotdot-only
      Kind({"absolute-inside", "nul-byte", "relative-base"},
           {"signature", "commonpath", "unquote"})>>              \* resolved-only

Sorted(n) == {s \in [1..4 -> 1..n] : \A i \in 1..3 : s[i] <= s[i + 1]}

\* Enough candidates to reject a hypothesis at the level of 1/20: a that escape
\* the first revision only, b the first two, c that the second revision
\* overblocks and d the third.
Large(a, b, c, d) ==
    [i \in 1..(a + b + c + d) |->
        CASE i <= a -> TenantKinds[5]
          [] a < i /\ i <= a + b -> TenantKinds[6]
          [] a + b < i /\ i <= a + b + c -> TenantKinds[4]
          [] OTHER -> TenantKinds[3]]

MCBenchmarks ==
    {[challenge |-> "cross-tenant", candidates |-> [i \in 1..4 |-> TenantKinds[s[i]]]] :
        s \in Sorted(Len(TenantKinds))}
      \union
    {[challenge |-> "path-traversal", candidates |-> [i \in 1..4 |-> PathKinds[s[i]]]] :
        s \in Sorted(Len(PathKinds))}
      \union
    {[challenge |-> "cross-tenant", candidates |-> c] :
        c \in {Large(8, 0, 7, 0), Large(8, 0, 0, 8), Large(4, 4, 0, 7)}}
=============================================================================
