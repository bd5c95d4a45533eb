------------------------------ MODULE Minimizer ------------------------------
(***************************************************************************)
(* minimize_lines: the reduction of a counterexample by chunks of lines,   *)
(* under a budget of evaluations and of time, as minimize_counterexample   *)
(* calls it.  A source is the sequence of its lines, a line its number in  *)
(* the original.  The predicate is any function of the source: its value   *)
(* is chosen when a source is first evaluated and remembered.  Time may    *)
(* run out between any two looks at the clock, and stays run out.          *)
(***************************************************************************)
EXTENDS Integers, Sequences

CONSTANTS
    MaxLines,        \* bound on the lines of the original
    Budgets          \* the max_evaluations a caller may allow

ASSUME MinimizerAssumption ==
    /\ MaxLines \in Nat \ {0}
    /\ Budgets \subseteq Nat \ {0}   \* MinimizationBudget.__post_init__

Lines == 1..MaxLines

VARIABLES
    budget,        \* max_evaluations of this call
    at,            \* where the loops stand
    original,      \* its lines
    lines,         \* those that are left
    n, chunk,      \* the granularity, and the lines of a chunk at it
    start,         \* where the next chunk to leave out begins, from 0
    evaluations,
    expired,       \* whether the seconds of the budget have passed
    completed,
    accepted, rejected,   \* history: what the predicate said
    status

search == <<budget, original, lines, n, chunk, start, completed>>
searchVars == <<at, search, evaluations, expired, accepted, rejected, status>>

Statuses == {"MINIMAL_UNDER_CONFIGURED_GRANULARITY", "REDUCED_COUNTEREXAMPLE"}

SearchTypeOK ==
    /\ at \in {"original", "while", "for", "chunk", "else", "finish", "verify",
               "returned", "refused"}
    /\ budget \in Budgets
    /\ original \in Seq(Lines) /\ lines \in Seq(Lines)
    /\ Len(lines) <= Len(original)
    /\ n \in Nat /\ n >= 2 /\ chunk \in Nat \ {0} /\ start \in Nat
    /\ evaluations \in 0..budget
    /\ expired \in BOOLEAN /\ completed \in BOOLEAN
    /\ accepted \subseteq Seq(Lines) /\ rejected \subseteq Seq(Lines)
    /\ status \in Statuses \union {"NONE"}

SearchInit ==
    /\ budget \in Budgets /\ at = "original"
    /\ \E k \in Lines : original = [i \in 1..k |-> i]
    /\ lines = original
    /\ n = 2 /\ chunk = 1 /\ start = 0
    /\ evaluations = 0 /\ expired = FALSE /\ completed = TRUE
    /\ accepted = {} /\ rejected = {}
    /\ status = "NONE"

WithinBudget == evaluations < budget /\ ~expired

\* lines[:k] + lines[k + size:]
Without(s, k, size) == SubSeq(s, 1, k) \o SubSeq(s, k + size + 1, Len(s))

Reduced == Without(lines, start, chunk)

\* The predicate says yes or no of s, as it did before.
SaysYes(s) == s \notin rejected /\ accepted' = accepted \union {s} /\ UNCHANGED rejected
SaysNo(s) == s \notin accepted /\ rejected' = rejected \union {s} /\ UNCHANGED accepted

\* evaluate looks at the clock again, and then counts.
Counts == WithinBudget /\ evaluations' = evaluations + 1

Skips == ~WithinBudget /\ UNCHANGED <<evaluations, accepted, rejected>>

\* The original must escape, or there is nothing to reduce.
EvaluateOriginal ==
    /\ at = "original"
    /\ \/ Counts /\ SaysYes(original) /\ at' = "while"
       \/ Counts /\ SaysNo(original) /\ at' = "refused"
       \/ Skips /\ at' = "refused"
    /\ UNCHANGED <<search, expired, status>>

\* The head of the while loop, and the chunks of a pass.  The ceiling of
\* Len(lines) / n is at least one.
BeginPass ==
    /\ at = "while"
    /\ \/ /\ Len(lines) < 2 /\ at' = "finish"
          /\ UNCHANGED search
       \/ /\ Len(lines) >= 2 /\ ~WithinBudget
          /\ at' = "finish" /\ completed' = FALSE
          /\ UNCHANGED <<budget, original, lines, n, chunk, start>>
       \/ /\ Len(lines) >= 2 /\ WithinBudget
          /\ at' = "for" /\ start' = 0
          /\ chunk' = (Len(lines) + n - 1) \div n
          /\ UNCHANGED <<budget, original, lines, n, completed>>
    /\ UNCHANGED <<evaluations, expired, accepted, rejected, status>>

\* The head of the for loop.
NextChunk ==
    /\ at = "for"
    /\ \/ /\ start >= Len(lines) /\ at' = "else"
          /\ UNCHANGED completed
       \/ /\ start < Len(lines) /\ ~WithinBudget
          /\ at' = "finish" /\ completed' = FALSE
       \/ /\ start < Len(lines) /\ WithinBudget
          /\ at' = "chunk"
          /\ UNCHANGED completed
    /\ UNCHANGED <<budget, original, lines, n, chunk, start, evaluations, expired, accepted,
                   rejected, status>>

\* A bug: the chunk is gone before the predicate is asked.
TryChunkFirst ==
    /\ at = "chunk"
    /\ lines' = Reduced
    /\ \/ Counts /\ SaysYes(Reduced) /\ at' = "while"
       \/ Counts /\ SaysNo(Reduced) /\ at' = "for"
    /\ start' = start + chunk
    /\ UNCHANGED <<budget, original, n, chunk, completed, expired, status>>

\* A bug: the granularity falls below two chunks.
TryChunkCoarser ==
    /\ at = "chunk"
    /\ \/ /\ Counts /\ SaysYes(Reduced)
          /\ lines' = Reduced /\ n' = n - 1
          /\ at' = "while"
          /\ UNCHANGED start
       \/ /\ \/ Counts /\ SaysNo(Reduced)
             \/ Skips
          /\ start' = start + chunk /\ at' = "for"
          /\ UNCHANGED <<lines, n>>
    /\ UNCHANGED <<budget, original, chunk, completed, expired, status>>

TryChunk ==
    /\ at = "chunk"
    /\ \/ /\ Counts /\ SaysYes(Reduced)
          /\ lines' = Reduced /\ n' = IF n > 3 THEN n - 1 ELSE 2
          /\ at' = "while"
          /\ UNCHANGED start
       \/ /\ \/ Counts /\ SaysNo(Reduced)
             \/ Skips
          /\ start' = start + chunk /\ at' = "for"
          /\ UNCHANGED <<lines, n>>
    /\ UNCHANGED <<budget, original, chunk, completed, expired, status>>

\* A bug: a pass with chunks of two lines may be the last.
RefineEarly ==
    /\ at = "else"
    /\ IF 2 * n >= Len(lines)
       THEN at' = "finish" /\ UNCHANGED n
       ELSE at' = "while" /\ n' = 2 * n
    /\ UNCHANGED <<budget, original, lines, chunk, start, completed, evaluations, expired,
                   accepted, rejected, status>>

\* A bug: the granularity is halved.
RefineDown ==
    /\ at = "else"
    /\ IF n >= Len(lines)
       THEN at' = "finish" /\ UNCHANGED n
       ELSE at' = "while" /\ n' = IF n > 3 THEN n \div 2 ELSE 2
    /\ UNCHANGED <<budget, original, lines, chunk, start, completed, evaluations, expired,
                   accepted, rejected, status>>

\* A pass without a reduction: the last one, or finer chunks.
Refine ==
    /\ at = "else"
    /\ IF n >= Len(lines)
       THEN at' = "finish" /\ UNCHANGED n
       ELSE at' = "while" /\ n' = IF 2 * n > Len(lines) THEN Len(lines) ELSE 2 * n
    /\ UNCHANGED <<budget, original, lines, chunk, start, completed, evaluations, expired,
                   accepted, rejected, status>>

Finish ==
    /\ at = "finish"
    /\ status' = IF ~completed \/ ~WithinBudget
                 THEN "REDUCED_COUNTEREXAMPLE"
                 ELSE "MINIMAL_UNDER_CONFIGURED_GRANULARITY"
    /\ at' = "verify"
    /\ UNCHANGED <<search, evaluations, expired, accepted, rejected>>

\* minimize_counterexample asks the predicate once more, outside the budget, and
\* hears what it said before.
VerifyEscape ==
    /\ at = "verify"
    /\ at' = IF lines \in accepted THEN "returned" ELSE "refused"
    /\ UNCHANGED <<search, evaluations, expired, accepted, rejected, status>>

\* The seconds run out.
Expire ==
    /\ ~expired /\ expired' = TRUE
    /\ UNCHANGED <<at, search, evaluations, accepted, rejected, status>>

Step ==
    \/ EvaluateOriginal \/ BeginPass \/ NextChunk \/ TryChunk \/ Refine \/ Finish
    \/ VerifyEscape

SearchNext == Step \/ Expire

SearchSpec == SearchInit /\ [][SearchNext]_searchVars /\ WF_searchVars(Step)

----------------------------------------------------------------------------
(* Properties.                                                             *)

\* What is returned escapes, whenever the search was cut short, and keeps the
\* order of the original: the service's own check of it cannot fail
\* (minimizer.py 83-89; coverage_service.py 179-182).
ReturnedIsAnEscape ==
    /\ at \in {"while", "for", "chunk", "else", "finish", "verify", "returned"} =>
          /\ lines \in accepted
          /\ \A i, j \in DOMAIN lines : i < j => lines[i] < lines[j]
    /\ at = "refused" => status = "NONE"

\* "Only a completed search receives MINIMAL_UNDER_CONFIGURED_GRANULARITY"
\* (docs/COVERAGE_ARENA.md 179): no line of such a source can be left out.  Of a
\* source of one line, leaving it out is not tried.
MinimalMeansMinimal ==
    status = "MINIMAL_UNDER_CONFIGURED_GRANULARITY" /\ Len(lines) >= 2 =>
        \A k \in 0..(Len(lines) - 1) : Without(lines, k, 1) \in rejected

\* A source of k lines costs no more than k (k + 4) / 2 evaluations, so the 128 of
\* the service cut no source of fourteen lines or fewer short
\* (coverage_service.py 177).
CostIsQuadratic == 2 * evaluations <= Len(original) * (Len(original) + 4)
=============================================================================
