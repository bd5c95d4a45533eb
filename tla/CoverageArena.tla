---------------------------- MODULE CoverageArena ----------------------------
(***************************************************************************)
(* One challenge of the Coverage Arena: measurements of a benchmark under  *)
(* three revisions of a gate, each candidate gated and the gate's answer   *)
(* signed before the oracle judges it; the cache of finished measurements  *)
(* and the calls of the service that read it.  The two challenges share    *)
(* nothing but a cache whose keys hold the challenge.                      *)
(*                                                                         *)
(* The oracle takes the snapshot it is handed, by the runner or by whoever *)
(* keeps signed snapshots: one of another candidate or revision, altered,  *)
(* or signed with another key.  A digest is the record it is taken of; a   *)
(* signature is the record and the key.                                    *)
(***************************************************************************)
EXTENDS Coverage

CONSTANTS
    Benchmarks,      \* records of a challenge and a list of candidates
    None

ASSUME BenchmarkAssumption ==
    Benchmarks \subseteq [challenge : Challenges, candidates : Seq(Candidates)]

ASSUME NoneAssumption == None \notin Revisions

VARIABLES
    benchmark,   \* the benchmark measured
    running,     \* the measurement under way
    snapshots,   \* the snapshots the gate has signed
    results,     \* the results the oracle has signed
    cache,       \* the finished measurement of each revision, or None
    answer       \* the last answer of the service

vars == <<benchmark, running, snapshots, results, cache, answer>>

challenge == benchmark.challenge

Ids == DOMAIN benchmark.candidates

\* The identity of one measurement: the candidate and the revision; challenge,
\* fixture, benchmark, oracle and runner are those of the benchmark.
Contexts == [candidate : Ids, revision : Revisions]

Snapshots ==
    [context : Contexts, gate : {"GO", "NO_GO"}, sequence : {1, 2}, oracle_present : BOOLEAN]

\* What is signed, by whom, and what it is attached to.
Signed(payload, key) == [payload |-> payload, signed |-> payload, key |-> key]

SignedSnapshots == [payload : Snapshots, signed : Snapshots, key : {"gate", "other"}]

Results == [context : Contexts, snapshot : Snapshots, verdict : {"SAFE", "UNSAFE"}]

Measurements == [Ids -> Classes]

Receipts == [classes : Measurements, counts : [Classes -> Nat]]

Runs == {None} \union
    [revision : Revisions, at : {"load", "oracle"}, next : Nat, classes : Seq(Classes)]

\* A comparison of two revisions by one metric: the p-value, and whether it is
\* rejected before and after the correction.
Comparisons ==
    [metric : {"ESCAPE", "OVERBLOCK"}, from : Revisions, to : Revisions,
     only_from : Nat, only_to : Nat, p : Nat \X Nat, raw : BOOLEAN, corrected : BOOLEAN]

Answers ==
    {None}
      \union [tool : {"inspect"}, revision : Revisions, counts : [Classes -> Nat]]
      \union [tool : {"find"}, revision : Revisions, ids : SUBSET Ids]
      \union [tool : {"minimize"}, candidate : Ids, revision : Revisions \union {None}]
      \union [tool : {"compare"}, points : [Revisions -> [Classes -> Nat]],
              comparisons : Seq(Comparisons)]

TypeOK ==
    /\ benchmark \in [challenge : Challenges, candidates : Seq(Candidates)]
    /\ running \in Runs
    /\ snapshots \subseteq SignedSnapshots
    /\ results \subseteq Results
    /\ cache \in [Revisions -> {None} \union Receipts]
    /\ answer \in Answers

Init ==
    /\ benchmark \in Benchmarks
    /\ running = None /\ answer = None
    /\ snapshots = {} /\ results = {}
    /\ cache = [r \in Revisions |-> None]

-----------------------------------------------------------------------------
(* The runner, and the oracle behind the gate's signature *)

Candidate(i) == benchmark.candidates[i]

\* _coverage_run of a revision the cache does not hold.  An oracle that fails
\* its self-test measures nothing.
StartRun(r) ==
    /\ running = None /\ cache[r] = None
    /\ Qualified(challenge)
    /\ running' = [revision |-> r, at |-> "load", next |-> 1, classes |-> <<>>]
    /\ answer' = None
    /\ UNCHANGED <<benchmark, snapshots, results, cache>>

AtCandidate(at) == running # None /\ running.at = at /\ running.next \in Ids

Observed(class) ==
    running' = [running EXCEPT !.at = "load", !.next = @ + 1, !.classes = Append(@, class)]

\* A source that does not load is recorded as invalid, and neither gate nor
\* oracle sees it.
LoadFails ==
    /\ AtCandidate("load") /\ ~Candidate(running.next).loads
    /\ Observed(Classify(FALSE, None, None))
    /\ UNCHANGED <<benchmark, snapshots, results, cache, answer>>

\* A bug: the two parts of the identity change places.
ContextSwapped(i, r) == [candidate |-> r, revision |-> i]

ContextOf(i, r) == [candidate |-> i, revision |-> r]

SnapshotOf(i, r) ==
    [context |-> ContextOf(i, r), gate |-> GateDecision(challenge, r, Candidate(i)),
     sequence |-> 1, oracle_present |-> FALSE]

\* The gate decides and its decision is signed.
Gate ==
    /\ AtCandidate("load") /\ Candidate(running.next).loads
    /\ snapshots' = snapshots \union {Signed(SnapshotOf(running.next, running.revision), "gate")}
    /\ running' = [running EXCEPT !.at = "oracle"]
    /\ UNCHANGED <<benchmark, results, cache, answer>>

\* A bug: the context of the snapshot is not compared.
AcceptsAnyContext(s, context) ==
    /\ s.payload.sequence = 1 /\ ~s.payload.oracle_present
    /\ s.signed = s.payload /\ s.key = "gate"

\* verify_signed_gate_snapshot
Accepts(s, context) ==
    /\ s.payload.sequence = 1 /\ ~s.payload.oracle_present
    /\ s.payload.context = context
    /\ s.signed = s.payload /\ s.key = "gate"

ResultFor(s, context) ==
    [context |-> context, snapshot |-> s.payload,
     verdict |-> Verdict(challenge, Candidate(context.candidate).wrong)]

\* evaluate_after_gate_snapshot with what the gate has just signed.
Oracle ==
    /\ AtCandidate("oracle")
    /\ LET context == ContextOf(running.next, running.revision)
           s == Signed(SnapshotOf(running.next, running.revision), "gate")
       IN  /\ Accepts(s, context)
           /\ results' = results \union {ResultFor(s, context)}
           /\ Observed(Classify(TRUE, s.payload.gate, ResultFor(s, context).verdict))
    /\ UNCHANGED <<benchmark, snapshots, cache, answer>>

OtherDecision(g) == IF g = "GO" THEN "NO_GO" ELSE "GO"

\* Copies of a signed snapshot with one field changed.
AlteredCopies(s) ==
    {[payload |-> p, signed |-> s.signed, key |-> s.key] :
        p \in {[s.payload EXCEPT !.gate = OtherDecision(s.payload.gate)],
               [s.payload EXCEPT !.sequence = 2],
               [s.payload EXCEPT !.oracle_present = TRUE]}}

\* Snapshots the gate did not sign.
Foreign(r) ==
    {Signed([context |-> ContextOf(i, r), gate |-> g, sequence |-> 1, oracle_present |-> FALSE],
            "other") : i \in Ids, g \in {"GO", "NO_GO"}}

\* The same call with a snapshot from elsewhere; one refused changes nothing.
OracleIsHanded ==
    /\ AtCandidate("oracle")
    /\ \E s \in snapshots
            \union AlteredCopies(Signed(SnapshotOf(running.next, running.revision), "gate"))
            \union Foreign(running.revision),
          i \in {j \in Ids : Candidate(j).loads} :
         LET context == ContextOf(i, running.revision) IN
         /\ Accepts(s, context)
         /\ results' = results \union {ResultFor(s, context)}
    /\ UNCHANGED <<benchmark, running, snapshots, cache, answer>>

\* The counts are signed with their scope and the run is cached.
SignReceipt ==
    /\ running # None /\ running.next > Len(benchmark.candidates)
    /\ cache' = [cache EXCEPT ![running.revision] =
                    [classes |-> running.classes, counts |-> Aggregate(running.classes)]]
    /\ running' = None
    /\ UNCHANGED <<benchmark, snapshots, results, answer>>

-----------------------------------------------------------------------------
(* The service.  A finished measurement never changes, so what is read from *)
(* the cache in one call is read at once.                                   *)

Idle == running = None

Reply(a) == answer' = a /\ UNCHANGED <<benchmark, running, snapshots, results, cache>>

Inspect(r) ==
    /\ Idle /\ cache[r] # None
    /\ Reply([tool |-> "inspect", revision |-> r, counts |-> cache[r].counts])

Escapes(r) == Of("ESCAPE", cache[r].classes)

FindCounterexamples(r) ==
    /\ Idle /\ cache[r] # None
    /\ Reply([tool |-> "find", revision |-> r, ids |-> Escapes(r)])

\* A bug: only the default revision is searched for the escape.
MinimizeAtDefaultRevision(i) ==
    /\ Idle /\ cache[3] # None
    /\ Reply([tool |-> "minimize", candidate |-> i,
                 revision |-> IF i \in Escapes(3) THEN 3 ELSE None])

\* The revisions are searched in order, each measured when it is reached, up to
\* the first at which the candidate escapes.
MinimizeCounterexample(i) ==
    /\ Idle
    /\ \/ \E r \in Revisions :
            /\ \A q \in 1..r : cache[q] # None
            /\ i \in Escapes(r) /\ \A q \in 1..(r - 1) : i \notin Escapes(q)
            /\ Reply([tool |-> "minimize", candidate |-> i, revision |-> r])
       \/ /\ \A q \in Revisions : cache[q] # None /\ i \notin Escapes(q)
          /\ Reply([tool |-> "minimize", candidate |-> i, revision |-> None])

\* The class of a candidate in a measurement of revision r.
ClassOf(r, i) ==
    LET c == Candidate(i) IN
    Classify(c.loads, GateDecision(challenge, r, c), Verdict(challenge, c.wrong))

Measure(r) == [i \in Ids |-> ClassOf(r, i)]

\* The six hypotheses of a comparison: two metrics, three pairs of revisions.
Metric(k) == IF k <= 3 THEN "ESCAPE" ELSE "OVERBLOCK"

Pair(k) == <<<<1, 2>>, <<2, 3>>, <<1, 3>>>>[((k - 1) % 3) + 1]

\* compare_gate_revisions measures the three revisions afresh, past the cache.
\* Whether a candidate is in the population of a metric is the oracle's answer,
\* the same under every revision, so the pairs always match.
CompareGateRevisions ==
    /\ Idle /\ Qualified(challenge)
    /\ LET measured == [r \in Revisions |-> Measure(r)]
           from(k) == Of(Metric(k), measured[Pair(k)[1]])
           to(k) == Of(Metric(k), measured[Pair(k)[2]])
           p == [k \in 1..6 |-> McNemar(from(k), to(k))]
       IN  Reply([tool |-> "compare", points |-> [r \in Revisions |-> Aggregate(measured[r])],
                    comparisons |-> [k \in 1..6 |->
                        [metric |-> Metric(k), from |-> Pair(k)[1], to |-> Pair(k)[2],
                         only_from |-> Cardinality(from(k) \ to(k)),
                         only_to |-> Cardinality(to(k) \ from(k)), p |-> p[k],
                         raw |-> Significant(p[k]), corrected |-> k \in Holm(p)]]])

Next ==
    \/ \E r \in Revisions : StartRun(r) \/ Inspect(r) \/ FindCounterexamples(r)
    \/ LoadFails \/ Gate \/ Oracle \/ OracleIsHanded \/ SignReceipt
    \/ \E i \in Ids : MinimizeCounterexample(i)
    \/ CompareGateRevisions

Spec == Init /\ [][Next]_vars

-----------------------------------------------------------------------------
(* Properties *)

\* The oracle judges a candidate only when the gate has committed itself: every
\* result names a snapshot the gate signed, of the same candidate under the same
\* revision, and a candidate is never judged behind two different answers of the
\* gate (protocol.py:184-230, docs/COVERAGE_ARENA.md's ordering protocol).
OracleFollowsGate ==
    \A result \in results :
        /\ result.snapshot.context = result.context
        /\ Signed(result.snapshot, "gate") \in snapshots
        /\ \A other \in results : other.context = result.context => other = result

\* What a receipt says was measured: every candidate of the benchmark once, those
\* that do not load as invalid, the rest divided by the oracle alone, whatever
\* the gate says (runner.py:146-216, receipt.py:162-165).
ReceiptCoversTheBenchmark ==
    \A r \in Revisions : cache[r] # None =>
        LET n == cache[r].counts
            safe == {i \in Ids : Candidate(i).loads
                                   /\ Candidate(i).wrong \intersect Vectors(challenge) = {}}
        IN  /\ n["INVALID_CANDIDATE"] = Cardinality({i \in Ids : ~Candidate(i).loads})
            /\ n["CORRECT_ACCEPT"] + n["OVERBLOCK"] = Cardinality(safe)
            /\ n["INVALID_CANDIDATE"] + n["CORRECT_ACCEPT"] + n["OVERBLOCK"]
                 + n["ESCAPE"] + n["CORRECT_BLOCK"] = Len(benchmark.candidates)

\* A stricter revision never lets an escape through that a laxer one blocked, nor
\* accepts what the laxer one overblocked: the frontier of COVERAGE_ARENA.md is
\* monotone for every candidate, not only in the counts
\* (reference_policy.py:57-148, path_reference_policy.py:53-156).
FrontierIsMonotone ==
    \A q, r \in Revisions :
        (q < r /\ cache[q] # None /\ cache[r] # None) =>
            /\ Escapes(r) \subseteq Escapes(q)
            /\ Of("OVERBLOCK", cache[q].classes) \subseteq Of("OVERBLOCK", cache[r].classes)

\* A counterexample that find_counterexamples lists can be minimized: the search
\* finds it, and no later than the revision that lists it
\* (coverage_service.py:144-171).
ListedCanBeMinimized ==
    (answer # None /\ answer.tool = "minimize") =>
        \A r \in Revisions :
            (cache[r] # None /\ answer.candidate \in Escapes(r)) =>
                answer.revision # None /\ answer.revision <= r

\* The p-value of a comparison is that of the exact two-sided sign test: twice the
\* share of the splits of the discordant pairs that are at least as lopsided, and
\* at most one (assessment.py:102-127).
McNemarIsExact ==
    (answer # None /\ answer.tool = "compare") =>
        \A k \in DOMAIN answer.comparisons :
            LET c == answer.comparisons[k]
                d == c.only_from + c.only_to
                lopsided == {split \in SUBSET (1..d) :
                               \/ Cardinality(split) <= c.only_from /\ Cardinality(split) <= c.only_to
                               \/ Cardinality(split) >= c.only_from /\ Cardinality(split) >= c.only_to}
            IN  c.p[1] * 2 ^ d = Cardinality(lopsided) * c.p[2]

\* A hypothesis is rejected after correction exactly when every set of hypotheses
\* it belongs to is rejected by a Bonferroni test of its own, and then it was
\* rejected before the correction too (assessment.py:129-161, comparison.py:89-109).
HolmIsClosedTesting ==
    (answer # None /\ answer.tool = "compare") =>
        LET cs == answer.comparisons IN
        \A k \in DOMAIN cs :
            /\ cs[k].corrected <=>
                 \A J \in SUBSET (DOMAIN cs) :
                    k \in J => \E j \in J : Rejects(cs[j].p, Cardinality(J))
            /\ cs[k].corrected => cs[k].raw
=============================================================================
