# Release Sentinel in TLA+

Release Sentinel decides whether a release may go out. Checks run against a
source tree, what they find becomes *evidence*, the evidence is sealed and
signed, and a deterministic gatekeeper turns it into `GO`, `CONDITIONAL_GO` or
`NO_GO`. Language-model agents may look at the evidence and give opinions; no
opinion may change a decision. This directory models that claim and what it
rests on, checks the models with TLC and proves the central theorems with TLAPS.

Paths below are relative to the repository; `rs/` stands for
`src/release_sentinel/`.

## The system

| part | state it keeps | operations | what makes it correct |
|---|---|---|---|
| evidence domain (`rs/domain`, `rs/release/judge.py`) | none | findings, blocking evidence, the Python gate | the decision is the one the failed checks call for |
| release engine (`rs/release/engine.py`) | the findings of one evaluation and their seal | scan, execute, seal, advise, decide, report | the report decides on exactly what was observed, whatever an advisor or a gatekeeper does to the objects |
| Go Gatekeeper (`gatekeeper/`) | none: key, clock | verify a signed bundle, decide | accepts only what the trusted key signed, for the same release, source and policy, in its time window; agrees with the Python gate |
| attestor (`rs/interfaces/attestor_api.py`, `rs/operations/attestation.py`) | policy pin and signing key | evaluate a fixture, build and sign a bundle | signs what it saw, under the policy it names |
| cloud proof (`rs/infrastructure/cloudproof.py`) | the ledger | attest, compare pins, consult agents, ask, record | records a verdict only as the Gatekeeper gave it on the evidence it is pinned to |
| attack demonstrations (`rs/webmcp/attacks.py`, `rs/interfaces/api.py`) | none | eight attacks on a signed bundle | every attack is stopped, for the reason it is said to be |
| WebMCP remediation (`rs/webmcp/remediation_service.py`) | proposals and candidates, in memory | propose, rebuild, re-verify | a verdict is about the candidate's own source; fails closed; recovers from a restart by its next_action hints |
| Arena page (`rs/interfaces/static/arena.js`) | last proposal, candidate, verdict, human check | the buttons, the guided demo, tools of a browser agent | what is shown together belongs together, whatever order responses arrive in |
| Coverage Arena (`rs/coverage`, `rs/webmcp/coverage_service.py`) | finished measurements, in memory; signed snapshots and receipts | measure a revision, inspect, compare, list escapes, minimize | the oracle judges only behind the gate's signed answer; receipts account for every candidate; a listed escape can be minimized and still escapes |
| remediation coordinator (`rs/remediation`) | none but the working directory it reads | hash, evaluate, ask a model, validate, copy, write, evaluate afresh | what is judged as a repair is what was proposed over what was hashed |
| rebuild (`rs/rebuild`) | none | a second writer of candidates | only its tests use it |
| parity fleet (`rs/parity`) | none | probe several builds, compare | disagreement is reported, not averaged |
| AgentSeal (`packages/agentseal`) | none between two checks | seal, run stages, check, certify | a certificate verifies exactly when no stage moved an artifact |
| public challenge (`rs/public_challenge`, `challenge/`) | none | evaluate submitted gates in a container | - |
| policy (`rs/policy`) | revisions, created once | build, put, get | a revision never changes; its store is a dictionary only tests use |
| agents, telemetry, CLI, deployment scripts | - | - | they decide nothing |

The parts interact by HTTP calls (client to attestor, to Gatekeeper, page to
service), by the signed bundle that travels between them, by the ledger and, in
one process, by references to live `Finding` objects. What is hard about it:

- the engine hands out live objects and asks afterwards whether they changed;
- the bundle outlives the call that made it, so it can be altered, replayed,
  repeated or simply arrive late;
- four processes with their own clocks, policy pins and keys are redeployed one
  by one;
- two gates in two languages must decide alike on two representations;
- calls time out while the other side goes on;
- a working directory is read several times, and anyone may write to it between
  two reads;
- an untrusted stage may leave a thread behind that writes to the evidence later.

`PROJECT.json` lists these at their lines under "hazards", with the properties
that would catch each going wrong.

## The modules

    Evidence               findings, blocking evidence, both gates (no state)
      EvidenceProofs       the gates agree; types of findings
      ReleaseEngine        one evaluation                     MCReleaseEngine
        ReleaseEngineProofs        what a report decides on
      Gatekeeper           bundles, signing, Verify, DecideVerified (no state)
        TrustPath          clients, attestor, network, Gatekeeper, ledger
                                                              MCTrustPath
          TrustPathProofs  safety, freshness, the ledger, the refinement
      ReleaseAuthority     abstract: observe, judge
      WebMCPRemediation    proposals, candidates, verdicts    MCWebMCPRemediation
        WebMCPRemediationProofs    verdicts, memory, recovery
    ArenaBrowser           what the page shows of them        MCArenaBrowser
      ArenaBrowserProofs   what is shown belongs together; what a stop leaves
    Coverage               oracles, gates, statistics (no state)
      CoverageArena        runs, snapshots, receipts, service MCCoverageArena
    Minimizer              reduction of a counterexample      MCMinimizer
        CoverageProofs     of both: the frontier, receipts, statistics, answers;
                           the search, its result and its cost
    RemediationCoordinator one repair of a live directory     MCRemediationCoordinator
      RemediationCoordinatorProofs what is judged is what was staged
    AgentSeal              a check, its threads, its certificate
                                                              MCAgentSeal
      AgentSealProofs      what gets past sealed_stage

**Evidence.** A *check* is a policy command or one match of a platform secret
rule; it has a severity, a blocking flag and the (truncated, so possibly shared)
identity its finding prints. `FindingFor` is what the engine or the scanner
writes for a failed check; `JudgeDecide` is `DeterministicJudge.decide`,
`CheckResult` the projection that is signed and `GoDecide` the second half of
`DecideVerified` in Go. `DecisionFor` is the reference: the decision a set of
failing checks calls for, with no findings in between. A hash is modelled by the
value it is the hash of, except for the finding ids, whose truncation matters.

**ReleaseEngine.** `stage` is the program counter of `_evaluate`. The executor,
the advisor and the gatekeeper are parameters of the class, so each is chosen in
`Init` among what the code provides for: commands that pass, fail or time out, an
executor that refuses (`ExecutorRaises`), an advisor that is absent, returns,
raises, alters live findings (`Altered`, `Tampered`), detects tampering itself or
returns what is no mapping or cannot be written as JSON (`Advisories`; the first fails
the call in `Decide`, the second in `Report`), and a gatekeeper that is local, remote, reports a model in its decision, or
alters a finding after deciding. `failed` is a history variable: what was seen to
fail, independent of the objects anyone can alter.

**Gatekeeper.** `Verify` has the tests of `attestation.go` in the code's order,
`DecideVerified` adds the decision. A signature is a record of key and digest:
anybody can carry one, only the holder of a key makes one. `PythonCanonical` and
`GoCanonical` are the two JSON encodings, which differ in `<`, `>` and `&`.

**TrustPath.** Each call in `Calls` runs one job: a cloud proof, one of the
attacks, or any other request (`direct`). `stage[c]` is where its code stands.
`Attest` is the attestor's whole handler, `SignLocally` and `ReplayLocally` the
demo fallback with a throwaway key, `CheckPins` to `Send` the orchestrator or the
attack, `Handle` the Gatekeeper, which may get a request late, again or never,
`Receive` and `Timeout` the client, `Persist` and `PersistFails` the ledger. What the
orchestrator expects is one of `Pins`, a policy and a key, where the policy may be unset:
cloud proof demands none, and `CheckPins` compares the policy only if there is one.
`Redeploy` changes the attestor's pin or key at any time, `Tick` is time; each
service's clock leads `now` by a constant. `issued` and `replies` are histories.

**ReleaseAuthority** is what all of that promises: observations, and judgements
of observations. `TrustPath!Authority` maps signed bundles to observations and
accepted replies to judgements.

**WebMCPRemediation.** Each client makes the three calls in turn and does what an
error's `next_action` says (`step`); its request runs in a thread of its own
(`handler`), between whose reads and writes of `proposals` and `candidates`
everything else may happen. `ReverifyHash`, `ReverifyScan` and `ReverifyExecute`
are the three times `evaluate_fixture` reads the fixture, which `Edit` may change
in between, and change back: every fixture has its `Shipped` content at first, those in
`Edited` take on any of `Versions`, at most `MaxEdits` times. Each of the three reads is
one step, so a fixture of several files is never seen half edited, and a read that fails
because a file has just vanished is left out. An identifier is the hash of its record, so
the record stands for it. In judged mode `ReverifySign` is the signature, which may fail
with an exception nobody maps, `GatekeeperAnswers` a verdict, and `GatekeeperFails` the
503 that a Gatekeeper gives rise to when it is gone, too slow or rejects the evidence.
`Restart` is the container with its Gatekeeper, `GatekeeperDies` the process that
`deploy/webmcp-entrypoint.sh` starts and does not watch. `since`, `first`, `last` and
`meanwhile` are histories: how often the fixture had been edited at a read, and how often
between two. Calls with a foreign digest are refused without a change of state and are
not made.

**ArenaBrowser.** The page's `state`, its verdict rail and its human proof card,
written by the buttons and by the guided demo. An action is the code between two
awaits: `Click` or `GuidedRun` reads the arguments and sends, `Answer` is the
server, `Deliver` renders what arrives over whatever is there. All nine steps of the demo
are modelled by the requests they send, the attack suite with one for each attack of the
catalog and the search for a counterexample with the minimization of one that was found
(`Following`), which the page sends without another look at its stop flag. What the
release, trust, attack, coverage and counterexample panels show of the answers is left
out, and so are the buttons of those panels. The server is the external view of the
module above: it answers with the fixtures as they are or with an error.

**Minimizer.** `at` is the place in the nested loops of `minimize_lines`. The
predicate is any function: what it says of a source is chosen when it is first
asked and remembered in `accepted` and `rejected`. `Expire` may happen between any
two looks at the clock, so `evaluate` may skip (`Skips`) what the loop thought was
within the budget.

**Coverage.** The instruments, as operators. `Vectors` and `OracleMutants` are the
inputs and the self-test of each oracle, `Probes` and `Shape` what each of the three
gate revisions tries and asks of the source, `Classify` the five classes, `McNemar`,
`Holm` and `Significant` the comparison of revisions with p-values as exact
fractions. A candidate is what the instruments can tell of it: whether it loads, the
inputs it gets wrong and the features its syntax shows.

**CoverageArena.** One challenge and its cache. `StartRun` to `SignReceipt` is
`run_reference_coverage`: `LoadFails` and `Gate` are the runner's, `Oracle` is
`evaluate_after_gate_snapshot` with the snapshot just signed, and `OracleIsHanded`
the same call with one of another candidate or revision, altered, or signed with
another key. `Inspect`, `FindCounterexamples`, `MinimizeCounterexample` and
`CompareGateRevisions` are the service's calls; the reduction the third one starts is
`Minimizer`.

**RemediationCoordinator.** One `run`. The repository is read four times, a file at a
time (`List`, `Read`): for its hash, by the evaluation, for the comparison with the
base, and for the copy; between any two of these reads `Edit` lets others change, add,
remove or link a file. The copy has a listing of its own (`Scan`), which decides what is
taken for a symlink: one that was a file then is followed (`Contents`), and what has
vanished since, or is no longer the link it was, ends the copy. A listing is one step, and
the staged tree is the run's own: nobody else writes to it. `Propose` is a model that may name any paths, `RemediatorRaises`
and `EvaluatorRaises` are the failures the coordinator does not handle.
`touched` is a history: how far the run was when others last changed each file.

**AgentSeal.** One `check_no_influence`: the control run, then every variant of a
battery, each repeated as told. `Stage` does what `hostile.py` does to the evidence
it reaches; `ThreadClears`, `DeadlinePasses` and `Join` are the threads that two
variants start; `Return` and `SealBreaks` are `sealed_stage`, which fingerprints its
input before and after. `FingerprintRaces` is the mapping that is emptied while it is
being fingerprinted, `PipelineRaises` a failure of the pipeline itself. A pipeline
hands its stage the live evidence, a sealed projection, or a projection and, by a
closure, the live evidence too.

## The runs

| run | instance | checks |
|---|---|---|
| `release_engine` | one secret rule, five commands (one for each way severity and flag weigh), six policies of one to four commands, two checks with the same printed id | `TypeOK`, `ReportDecidesOnObservation`, `GatesAgree`, `NoVerdictOnTamperedEvidence`, `CallEnds` |
| `trust_path` | one call of any job, two sources, a strict and a lax policy, three keys, with and without a policy pin, clocks that lead either way, at most two answers (`MaxReplies`), four seconds (`MaxTime`), a TTL of 2 | `TypeOK`, `NoDecisionAboveTruth`, `FreshWhenAccepted`, `AttacksAreNamed`, `LedgerHoldsVerifiedVerdicts`, `ImplementsAuthority` |
| `trust_path_live` | two calls at once, no time | `ProofIsRecorded`, `CallsEnd` |
| `trust_path_escaped` | as `trust_path`, with a release id holding `&` | `HonestBundlesMatchTheirDigest`, violated |
| `webmcp_remediation` | two clients on either of two scenarios, two edits of one fixture, the second of which takes the first back, one restart, one lost response, signatures and judgements that fail, judged mode or not | `TypeOK`, `VerdictIsAboutTheCandidate`, `JudgedVerdictsAreTheGatekeepers`, `KnownUntilRestart`, `StuckOnlyOnChange`, `ClientsFinish` |
| `arena` | two scenarios, one edit of one fixture, two attacks in the catalog, one request of the buttons beside the demo's, any number of requests in a row | `TypeOK`, `VerifiedIsWhatIsShown`, `StopStops`, `CheckResolves`, `GuidedEnds` |
| `arena_rail`, `arena_card` | the same | `RailVerdictIsCurrent`, `CardShowsOneCandidate`, violated |
| `coverage_arena` | both challenges; every benchmark of four candidates out of eight kinds of tenant guard and seven of path guard; three of fifteen candidates | `TypeOK`, `OracleFollowsGate`, `ReceiptCoversTheBenchmark`, `FrontierIsMonotone`, `ListedCanBeMinimized`, `McNemarIsExact`, `HolmIsClosedTesting` |
| `agentseal` | two entries, every pipeline, eighteen batteries, up to two runs of a variant and two failures | `TypeOK`, `VerifiedMeansUnmoved`, `OnlyDeferredPassesTheGuard` |
| `remediation_coordinator` | an application and a new file on the allowlist, a library off it, a path outside; at most two changed files (`MaxChanged`, sixteen in the code), two changes by others (`MaxEdits`) | `TypeOK`, `RepairIsJudgedAsStaged` |
| `minimizer` | sources of one to eight lines, every predicate, budgets of 8 and 50 evaluations | `SearchTypeOK`, `ReturnedIsAnEscape`, `MinimalMeansMinimal`, `CostIsQuadratic` |

Why the bounds are enough: TTL, tolerance and `MaxTtl` are shrunk together so
that a bundle can be young, in its last second and expired within the run, and
so that a clock may lead by more than the tolerance; two answers per run let the
same request be accepted and then expire, or be answered after its client left;
calls share nothing but the attestor's configuration, so one call with two
attestations exercises every check the proofs then extend to any number. The
calls stop when done and a failed call has no successor: deadlock is off for that
reason. Two clients are the fewest that share the dictionaries. Two edits put a change
between any two of the three reads, or a change before the scan and its reversal after it;
that only one of the two fixtures is edited loses nothing, since either may be the one a
client works on. With a restart and a lost response besides, every recovery the hints
promise is taken. Two attacks make the suite go on after its first request; a catalog
without any, or that did not load, ends the step at once and is the proofs' to cover. The
page cannot tell a late
answer of its own from one of the demo's, so one of each under way covers every
overtaking of two answers. Eight lines take the reduction through granularities
two, four and eight and back, and with fewer lines through passes whose last chunk is
short; eight evaluations cut many searches of five lines and more, fifty none.

Four candidates let every two kinds meet in one benchmark, and a candidate's class
depends on nothing but itself; the fifteen-candidate benchmarks are there for the
statistics, which reject nothing at the level of 1/20 on fewer than six discordant
pairs: among their hypotheses are some rejected after the correction, some only before
it, and some kept.
Two entries are the fewest whose order,
number and contents can each be changed alone; a second run of a variant and two failures
let an influence precede or follow a failure, and batteries of two let one variant's
threads meet the next. The coordinator compares file by file, so three files, one of
each kind, and one more change than it takes to get past the comparison unseen are
all the cases there are; `MaxChanged` is below the number of paths a model may name,
so that a proposal can be too large.

**Fairness.** `ReleaseEngine` is fair to its own thread (each command has a
timeout and the gate is a computation or a bounded HTTP call) and not to the
advisor, which nothing bounds. `TrustPath` is fair to the steps a client's own
timeouts force (`Timeout`, the attestor client's 30 s, the persistence step) and
not to the delivery of requests or answers, nor to the agents a proof consults.
`WebMCPRemediation` is fair to handlers (computations and bounded calls) and
assumes a client that goes on as told. A 503 tells the client to call again, so it
assumes besides that a Gatekeeper which is asked again and again answers in the end
(`SF` on `GatekeeperAnswers`): one that rejects or is late every time would keep a client
going round for ever. It is not fair to the Gatekeeper's survival, so `ClientsFinish`
excepts its death. `ArenaBrowser` assumes that a fetch
is answered or fails, and that timers fire. `Minimizer` has no liveness property:
an evaluation runs a candidate's code, which nothing bounds. `CoverageArena`,
`RemediationCoordinator` and `AgentSeal` have none for the same reason: each runs
candidates, models or stages of strangers without a limit.

**The findings.**

- `trust_path_escaped` ends, after five states, in an honest and fresh bundle
  rejected with `DIGEST_MISMATCH`: Go's `json.Marshal` escapes `<`, `>` and `&` and
  the attestor's `json.dumps` does not, although the comment at
  `attestation.go:43-44` says that the two match. It fails closed.
- `arena_rail`: propose, rebuild, re-verify, and propose and rebuild for the other
  scenario. `renderCandidate` (`arena.js:245`) resets the card but not the rail, so
  "FRESH PROOF" and the first verdict stand beside the second hash, while the demo
  says that nothing is inherited (`arena.js:425-426`).
- `arena_card`: a re-verification answered after another candidate was rendered
  fills the card with that candidate's hash and its own verdict
  (`arena.js:256-277`). The human check then refuses it (`VerifiedIsWhatIsShown`).

**What the models show besides**, for which no run is kept:

- a stage that reaches the live evidence past its arguments and writes after it has
  returned is not seen by `sealed_stage`, whose second fingerprint is taken by then
  (`stage.py:34-45`), although its docstring (22-24) counts a deferred mutation among
  those that raise. `OnlyDeferredPassesTheGuard` names it as the one exception; the
  check that runs around it does report the influence.
- a variant that fails once and is sealed in its repetition stays `ERROR`, and one
  that fails and then breaks the seal is `BLOCKED` (`check.py:113-141`).
  `VerifiedMeansUnmoved` reads the error a result records: a check that dropped the error
  of an earlier run would not break it.
- a change made after the coordinator's comparison with the base has read the file is
  merged into the repair without a word (`remediation/service.py:87-106`), and when the
  first evaluation says GO there is no comparison at all. `RepairIsJudgedAsStaged`
  excepts a file changed at any time from the beginning of that comparison on (`Late`), so
  it does not say which of its reads came first.
- a fixture changed after its first hash and changed back before its last is judged by
  what the scan saw in between, under the hash of the other content, and no check
  notices (`demo_runtime.py:57-62`, `demo.py:33-35`).
  `VerdictIsAboutTheCandidate` names this as the one exception.
- a client whose evidence cannot be signed gets an unmapped exception without a
  next_action, because the signature is made outside the `try`
  (`remediation_service.py:169-173`): the second reason in `StuckOnlyOnChange`.
- a proof without a policy pin may enter the ledger under whatever policy the attestor was
  deployed with (`cloudproof.py:109`, `settings.py:50-60`).
- a guided demo stopped in its attack suite goes on through the catalog, and one stopped
  while it searches for a counterexample goes on to minimize it (`arena.js:61-64, 404-411`);
  `StopStops` says that it does no more than that.

## What is proved

From the constants' assumptions, which the runs' modules check, for every value of the
constants:

- `EvidenceProofs!GatesAgreeOnAllFindings`, `GatesDecideOnFailures`: the two gates
  decide alike on any findings, and on recorded findings as the failures call for.

- `ReleaseEngineProofs`: `EngineTypeCorrect`, `ReportTheorem`, `ReportedGatesAgree`,
  `SealGuardsTheVerdict`. The invariant (`Recorded`) follows the seal: until it is taken
  the live findings are the record of the failures seen; from then on the sealed copy
  is, and the live ones are it again wherever a comparison has just been passed. A
  report therefore holds what was observed (`ReportIsObserved`), and decides on it by
  `JudgeDecidesOnObserved`. What `CallEnds` rests on besides fairness is proved too:
  `CallIsBounded`, by the number of steps a call has left (`StepsLeft`), and
  `UnavailableHasNoSay`, that an advisor's failure cannot make a call fail.

- `TrustPathProofs!Invariance`: `IInv` is an invariant. `NoDecisionAboveTruth` is
  not inductive alone: that a reply is right depends on the signature in its
  request having been made by the attestor (`CarriedAreUnforged`), on what the
  attestor signed being all it saw fail (`IssuedAreHonest`), on the reply being
  what `DecideVerified` says (`RepliesAreComputed`) and on a call past its
  attestation having a bundle (`CallsCarryBundles`). `TypeCorrect`, `TrustPathSafety`
  and `TrustPathFreshness` follow: an accepted reply's bundle equals the signed one by
  the digest comparison, so it has an attestation behind it (`AcceptedWasAttested`);
  the checks attested include those that really fail, and a decision on more failures
  is never more permissive (`DecisionMonotone`).
- `TrustPathImplementsAuthority`, in the same module: with the additional invariant
  that execution ids are used once (`ExecutionsAreFresh`), every step observes, judges
  or stutters. `OneJudgementTheorem` carries the authority's own promise back to the code:
  no two attestations are of one execution (`AttestedOnce`), so all acceptances of a
  bundle, repeated, late or altered, say the same. `OneRequestTheorem`: a call puts one
  request, because one that is out keeps it from putting another, and every answer is to
  that one. `CallsGoForward`, the part of `CallsEnd` that needs no fairness: a call's own
  steps lower its `Rank` and nobody else's steps move it.
- `LedgerTheorem`, `ProofTheorem`, `AttackTheorem`: what a call sends is about its job
  (`RequestsFit`) because what it has attested is (`BundlesFit`), and stays so, since
  once its request is out a call keeps its job and its bundle (`SentFrame`); a verdict
  to be recorded was given to this call (`VerdictsWereGiven`), and an entry is what its
  call holds for good (`LedgerIsKept`). The attacks are named because an altered bundle
  keeps the digest it was signed with, and `Verify` looks at it before the clock.

- `WebMCPRemediationProofs`: `RemediationTypeCorrect`, `VerdictTheorem`,
  `JudgedTheorem`, `MemoryTheorem`, `StuckTheorem`. The three reads of a handler come in
  the order of the edits between them (`ReadsInOrder`). Two reads with no edit between
  them see one content and two with exactly one see different ones (`ReadsAgree`), so if a
  handler's hashes agree and its scan saw something else, there were at least two edits. A
  handler works on what its waiting client holds (`WaitsFor`), which is known until a
  restart (`GivenBefore`), and a client is stuck only once its fixture was edited after it
  proposed or its evidence could not be signed (`StuckWithReason`). `ClientsGoForward` is
  the part of `ClientsFinish` that needs no fairness. A client has 11 steps before it at
  first, 14 more for every restart still to come and 13 for every lost response
  (`StepsLeft`): what it must do again because a restart forgot its proposal or its
  candidate costs less than that restart is counted for. Each of its requests lowers the
  measure and nobody else raises it, with one exception that the statement names: a
  judgement that fails, whether the Gatekeeper is gone, late or rejects the evidence,
  takes its client back to the call it has just made, by twelve steps at most
  (`GoesRound`).

- `ArenaBrowserProofs`: `PageTypeCorrect`, `ShownTheorem`, `StopTheorem`. While a verdict
  is held, the card shows it and the candidate (`ShownTogether`): every other rendering
  hides the card and forgets both verdict and proof. That there is a candidate when a
  verdict arrives follows from the requests: one is sent only with a candidate, which is
  never taken back (`AskedOfACandidate`). `NobodyWaitsInVain` and `DemoGoesForward` are
  what `CheckResolves` and `GuidedEnds` rest on besides fairness: a card that says it is
  checking, and a demo that waits, have their request or its answer under way
  (`CheckIsUnderWay`, `DemoWaits`), and a started demo has 36 steps of its own before it
  and two for each attack of the catalog, none exactly when it is off, whatever fails in
  them. `StopTheorem` holds because a stopped demo begins no step, and a step under way
  follows one request by at most the next of the same suite or search.

- `CoverageProofs`, the instruments and the service: `OracleFollowsGateTheorem`,
  `FrontierTheorem`, `MinimizableTheorem`, `ReceiptTheorem`, `McNemarTheorem`,
  `HolmTheorem`, `ArenaTypeCorrect`, and `PathGateThreeLetsNothingEscape` for any candidate
  whatever.
  - The gates are nested: a stricter revision has the probes of a laxer one and more
    (`ProbesGrow`) and a tighter shape (`ShapesTighten`). With the invariant that a
    measurement is a function of benchmark and revision, the nesting of the gates is that
    of the measurements, and the first revision at which a candidate escapes is no later
    than any that lists it. A receipt's counts add up because the classes partition the
    candidates (`ClassesPartition`).
  - A p-value is a running sum of quotients of factorials. That a quotient is a number of
    splits (`ChooseCounts`) is Pascal's rule on sets (`OneMorePair`) with its weights
    (`PascalProduct`), by induction on their size; the sum then counts one tail
    (`TailCounts`), complementing splits turns it into the other (`TurnedRound`), and
    together they are the splits as lopsided as the one observed (`LopsidedCounted`).
  - Holm's ranks are a strict order (`RankIsAnOrder`), since fractions are compared by
    one (`FractionOrder`) and ties are broken by position; rejection is monotone in the
    p-value and in the number of hypotheses (`RejectsMonotone`), so the set that decides
    for a hypothesis is that of everything not ranked before it (`ClosedTesting`).
    `HolmTheorem` alone assumes something of the level, that it is the 1/20 of the code:
    the step-down rejects at p <= alpha and the flag before the correction says p < alpha,
    and the two agree because no power of two is a multiple of twenty (`NoTwentieth`). At
    a level of 1/16 a comparison could be marked after the correction and not before.

- `CoverageProofs`, the search, for sources of any length, any budget, clock and predicate:
  `SearchTypeCorrect`, `ReducedSourceEscapes`, `MinimalSourceIsMinimal`,
  `SearchIsQuadratic`. That the result escapes is nearly inductive; that it is minimal
  needs what a pass has been refused so far (`PassInv`): in a pass of single lines that is
  still within its budget, every line passed over was rejected. A last pass leaves out
  single lines because the granularity has reached the length (`OneLineChunks`), and a
  budget once exhausted stays so, which is why a chunk that was skipped cannot hide in a
  result called minimal. `LeavingOut` says what remains of a source without a chunk. For
  the cost, `Ahead` bounds what a search may still ask from a length and a granularity;
  `CostInv` says that what has been asked and what is ahead stay within the bound, a
  reduction being paid for by the lines it removes (`PaysForAReduction`) and a refused pass
  by the granularity it doubles (`PaysForAPass`). An earlier bound, k (k + 3) / 2, holds
  on all the sources TLC reaches and not of all: the proof attempt led to a search of
  171 evaluations on 17 lines, and the property now states k (k + 4) / 2.
  `SearchGoesForward`: each step of the search is `Closer` to its end, in the order of
  phase, lines, granularity and place in the pass, so a search whose evaluations all
  return ends even where its budget never stops it.

- `RemediationCoordinatorProofs`: `CoordinatorTypeCorrect`, `RepairTheorem`. `Unnoticed`
  says of each stage that a file is as the run last saw it, unless it was touched after
  the comparison with the base had begun; `Progress` what a run has established.
  `RunGoesForward`: each step of a run leaves fewer stages or fewer files of the read it
  is in, and no step of others moves the run.

- `AgentSealProofs`: `GuardTheorem`, `CertificateTheorem`, `CheckTypeCorrect`. A thread
  outlives its stage only if it is the deferred one (`Threads`); past the second
  fingerprint nothing has moved unless such a thread is alive (`Unmoved`); so all other
  guarded runs build one and the same artifact, the control run's (`Baselined`,
  `Control`). For the certificate `ReportInv` says that each result is `Weighed` against
  the artifacts produced so far, that an artifact apart from the control's is in some
  result (`NothingForgotten`), and that results and battery advance together (`InStep`).
  The types need that the pipeline's list refers to entries that are there, whatever a
  stage does to it (`EvidenceTyped`). `CheckGoesForward`: a check moves on in the
  battery, the repeats or the run with every step but those of a stage's own thread and
  of the clock.

The provers have no induction over data. Where a proof needs induction on numbers, it
takes the least counterexample: `LeastNumber` and `Inductive` follow from the
well-foundedness of `<`, and `Recursion` shows that the factorials exist at all.

Each component with a course to run has thus a theorem that it goes forward
(`CallIsBounded`, `CallsGoForward`, `ClientsGoForward`, `DemoGoesForward`,
`SearchGoesForward`, `RunGoesForward`, `CheckGoesForward`): a measure in the natural
numbers, or several in a lexicographic order, that its own steps lower and no other step
raises. What they leave to TLC is that a step is taken at all.

Only model-checked: liveness under fairness, which the prover does not do (`CallEnds`,
`CallsEnd`, `ClientsFinish`, `CheckResolves`, `GuidedEnds`), and the three findings, which
are violations. Every invariant and every property of a step that a passing run checks is
also a theorem.

## Plan

What is left:

1. What the service promises of a candidate as an abstract specification of
   `WebMCPRemediation`, implemented by it and assumed by `ArenaBrowser`, whose server
   answers as if it were never restarted.
2. The A2A version negotiation, in front of `Handle`.

## Not modelled

- Cryptography and hashing: taken as perfect, except where a hash is truncated. A
  digest being the digest of one value only is an assumption of every theorem above.
- The parity fleet: one pass that reads the verdicts of several builds and compares
  them, without state or concurrency. `GatesAgree` states, where it matters, the
  agreement it looks for.
- The public challenge: an offline evaluation in a container, process I/O around the
  classification that `Coverage` has.
- The rebuild package, the escape corpus, `coverage/hunt.py`, the policy store and the
  agent registry: only their own tests call them, or they are one dictionary.
- Wilson intervals (nothing decides on them), the KMS signer, and how a feature is found
  in a syntax tree: a candidate is given with its features.
- The sandbox and the model-backed fleet: external I/O whose outcomes are chosen freely.
- Telemetry, the CLI, the control center, formatting and argument parsing: they decide
  nothing.
