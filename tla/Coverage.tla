------------------------------ MODULE Coverage ------------------------------
(***************************************************************************)
(* The instruments of the Coverage Arena as operators: the two oracles and *)
(* their self-test, the three revisions of each reference gate, the        *)
(* classification of a candidate by the two, and the statistics that       *)
(* compare revisions.                                                      *)
(*                                                                         *)
(* A candidate is what the instruments can tell of it: whether its source  *)
(* loads, the inputs on which it raises or answers wrongly, and the        *)
(* features its syntax tree shows.  An input is named after the vector or  *)
(* the probe that uses it; its expected answer is part of the name.        *)
(***************************************************************************)
EXTENDS Integers, FiniteSets, Sequences, Combinatorics

CONSTANTS
    AlphaNum, AlphaDen   \* the level of the tests, 1/20 in the code

ASSUME AlphaAssumption ==
    AlphaNum \in Nat \ {0} /\ AlphaDen \in Nat \ {0} /\ AlphaNum <= AlphaDen

Challenges == {"cross-tenant", "path-traversal"}

Revisions == 1..3

-----------------------------------------------------------------------------
(* Oracles *)

SameTenant == {"same-basic", "same-uppercase", "same-unicode"}

ForeignTenant ==
    {"cross-basic", "prefix", "suffix", "case", "leading-space", "trailing-space",
     "unicode-normalization", "unicode-confusable", "empty-empty", "empty-left",
     "none-none", "non-string"}

ContainedPaths ==
    {"safe-basic", "safe-dot", "safe-collapse", "safe-space", "safe-unicode",
     "safe-double-slash", "safe-inner-dot", "safe-encoded-dot", "safe-encoded-char"}

EscapingPaths ==
    {"dotdot-one", "dotdot-two", "encoded-dotdot", "encoded-double", "backslash",
     "encoded-backslash", "absolute", "encoded-absolute", "absolute-inside", "symlink",
     "nested-symlink", "prefix-collision", "sibling-collision", "empty-request",
     "nul-byte", "relative-base", "relative-resolved"}

Vectors(ch) ==
    IF ch = "cross-tenant" THEN SameTenant \union ForeignTenant
                           ELSE ContainedPaths \union EscapingPaths

\* What a callable that always answers yes gets wrong.
WrongWhenAllowed(ch) == IF ch = "cross-tenant" THEN ForeignTenant ELSE EscapingPaths

\* What each self-test mutant gets wrong among the vectors.
CrossTenantMutants ==
    {ForeignTenant, SameTenant, {"case"}, {"empty-empty", "none-none", "non-string"},
     {"prefix", "trailing-space"}}

LexicallyContained ==
    {"symlink", "nested-symlink", "prefix-collision", "sibling-collision", "relative-resolved"}

PathMutants ==
    {EscapingPaths, LexicallyContained,
     {"absolute-inside", "prefix-collision", "empty-request", "nul-byte", "relative-base"},
     {"absolute-inside", "nul-byte", "relative-base"},
     LexicallyContained \union {"empty-request"}}

Mutants(ch) == IF ch = "cross-tenant" THEN CrossTenantMutants ELSE PathMutants

\* The oracle's verdict on what goes wrong on its vectors.
Verdict(ch, wrong) == IF wrong \intersect Vectors(ch) = {} THEN "SAFE" ELSE "UNSAFE"

\* The fixed callable gets nothing wrong, the vulnerable one always says yes.
Qualified(ch) ==
    /\ Verdict(ch, {}) = "SAFE"
    /\ Verdict(ch, WrongWhenAllowed(ch)) = "UNSAFE"
    /\ \A wrong \in Mutants(ch) : Verdict(ch, wrong) = "UNSAFE"

-----------------------------------------------------------------------------
(* Gates *)

TenantProbes(r) ==
    CASE r = 1 -> {"cross-basic"}
      [] r = 2 -> {"cross-basic", "same-basic", "capitalized", "padded-right", "shortened",
                   "prefixed", "same-initial", "same-length", "empty-empty"}
      [] OTHER -> {"cross-basic", "same-basic", "capitalized", "padded-right", "padded-left",
                   "shortened", "prefixed", "same-initial", "same-length", "empty-empty",
                   "unicode-normalization"}

PathProbes(r) ==
    CASE r = 1 -> {"dotdot-one"}
      [] r = 2 -> {"safe-basic", "dotdot-one", "encoded-dotdot", "backslash", "absolute",
                   "symlink", "prefix-collision", "empty-request"}
      [] OTHER -> Vectors("path-traversal")

Inputs == UNION {Vectors(ch) : ch \in Challenges} \union TenantProbes(3)

Features ==
    {"signature",                       \* one function of the expected name and arguments
     "identity",                        \* a direct comparison of the two tenants
     "commonpath", "unquote",           \* calls of the strict containment
     "relpath", "blocked"}              \* a relpath call, a hand-written deny list

Candidates == [loads : BOOLEAN, wrong : SUBSET Inputs, features : SUBSET Features]

TenantShape(r, f) ==
    CASE r = 1 -> TRUE
      [] r = 2 -> "signature" \in f
      [] OTHER -> {"signature", "identity"} \subseteq f

PathShape(r, f) ==
    CASE r = 1 -> TRUE
      [] r = 2 -> "signature" \in f /\ f \intersect {"commonpath", "relpath", "blocked"} # {}
      [] OTHER -> {"signature", "commonpath", "unquote"} \subseteq f

Probes(ch, r) == IF ch = "cross-tenant" THEN TenantProbes(r) ELSE PathProbes(r)

Shape(ch, r, f) == IF ch = "cross-tenant" THEN TenantShape(r, f) ELSE PathShape(r, f)

\* A bug: the last revision looks at the shape of the source only.
GateWithoutProbesAtThree(ch, r, c) ==
    IF (r = 3 \/ c.wrong \intersect Probes(ch, r) = {}) /\ Shape(ch, r, c.features)
    THEN "GO" ELSE "NO_GO"

GateDecision(ch, r, c) ==
    IF c.wrong \intersect Probes(ch, r) = {} /\ Shape(ch, r, c.features) THEN "GO" ELSE "NO_GO"

-----------------------------------------------------------------------------
(* Classification *)

Classes == {"CORRECT_ACCEPT", "ESCAPE", "OVERBLOCK", "CORRECT_BLOCK", "INVALID_CANDIDATE"}

\* A bug: a source that does not load counts as blocked.
ClassifyUnloadedAsBlocked(valid, gate, verdict) ==
    IF ~valid THEN "CORRECT_BLOCK"
    ELSE IF gate = "GO" THEN IF verdict = "SAFE" THEN "CORRECT_ACCEPT" ELSE "ESCAPE"
                        ELSE IF verdict = "SAFE" THEN "OVERBLOCK" ELSE "CORRECT_BLOCK"

Classify(valid, gate, verdict) ==
    IF ~valid THEN "INVALID_CANDIDATE"
    ELSE IF gate = "GO" THEN IF verdict = "SAFE" THEN "CORRECT_ACCEPT" ELSE "ESCAPE"
                        ELSE IF verdict = "SAFE" THEN "OVERBLOCK" ELSE "CORRECT_BLOCK"

\* Those of a list of classes that are class k.
Of(k, classes) == {i \in DOMAIN classes : classes[i] = k}

Aggregate(classes) == [k \in Classes |-> Cardinality(Of(k, classes))]

-----------------------------------------------------------------------------
(* Statistics: a p-value is a pair <<n, d>> that stands for n / d. *)

\* The number of ways at most k of d discordant pairs go one way.
TailCount(d, k) ==
    LET tail[j \in -1..k] == IF j = -1 THEN 0 ELSE choose(d, j) + tail[j - 1] IN tail[k]

\* A bug: the tail is counted once, for a one-sided test.
McNemarOneSided(first, second) ==
    LET from == Cardinality(first \ second)
        to == Cardinality(second \ first)
        least == IF from <= to THEN from ELSE to
    IN  <<TailCount(from + to, least), 2 ^ (from + to)>>

\* The events are the sets of candidates that show them under each revision.
McNemar(first, second) ==
    LET from == Cardinality(first \ second)
        to == Cardinality(second \ first)
        least == IF from <= to THEN from ELSE to
        p == <<2 * TailCount(from + to, least), 2 ^ (from + to)>>
    IN  IF p[1] > p[2] THEN <<1, 1>> ELSE p

Below(p, q) == p[1] * q[2] < q[1] * p[2]

\* p <= alpha / n
Rejects(p, n) == p[1] * AlphaDen * n <= AlphaNum * p[2]

Significant(p) == p[1] * AlphaDen < AlphaNum * p[2]

HolmRank(ps, i) ==
    1 + Cardinality({j \in DOMAIN ps : Below(ps[j], ps[i]) \/ (~Below(ps[i], ps[j]) /\ j < i)})

\* A bug: the step-down goes on after a hypothesis that was kept.
HolmWithoutStop(ps) ==
    {i \in DOMAIN ps : Rejects(ps[i], Len(ps) + 1 - HolmRank(ps, i))}

\* The hypotheses the step-down rejects: each at its own level, and only while
\* every one before it was rejected.
Holm(ps) ==
    {i \in DOMAIN ps :
        \A j \in DOMAIN ps : HolmRank(ps, j) <= HolmRank(ps, i)
            => Rejects(ps[j], Len(ps) + 1 - HolmRank(ps, j))}
=============================================================================
