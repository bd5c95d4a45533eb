------------------------------ MODULE AgentSeal ------------------------------
(***************************************************************************)
(* One call of agentseal's check_no_influence and the certificate of its   *)
(* report.  A pipeline collects evidence, calls an untrusted stage on it   *)
(* and builds an artifact from it; the check runs the pipeline once with a *)
(* well-behaved stage and then with every hostile variant, and compares    *)
(* the artifacts.  Two of the variants write from a thread of their own.   *)
(* The pipelines are those of the package's README and tests.  They        *)
(* collect fresh evidence on every run, so the thread of an earlier run    *)
(* writes to objects nobody reads any more.                                *)
(***************************************************************************)
EXTENDS Naturals, Sequences, FiniteSets

CONSTANTS
    Evidence,      \* the entries a pipeline collects
    Batteries,     \* the sequences of variants a check may be given
    MaxRepeat,     \* the largest repeat of a check
    MaxFailures,   \* the pipeline's own failures in one check
    None

Behaviours == {"erase", "downgrade", "drop-one", "flood", "duplicate", "reorder",
               "erase-then-raise", "deferred", "concurrent", "force-go",
               "poisoned-memory", "forge-authority", "forge-policy"}

\* How a pipeline calls its stage: with the live evidence, through sealed_stage,
\* or through sealed_stage around a stage that reaches the evidence past its
\* arguments; and whether what the stage says goes into the artifact.
Pipelines == [stage : {"bare", "sealed", "closing"}, output : BOOLEAN]

Entries == [blocking : BOOLEAN, body : {"collected", "benign", "forged", "cleared"}]

Forged == [blocking |-> FALSE, body |-> "forged"]

Cleared == [blocking |-> FALSE, body |-> "cleared"]

\* What a stage may say, "exception" if it raises instead.
Advices == {"baseline", "force-go", "poisoned-memory", "forge-authority", "forge-policy",
            "hostile", "exception"}

\* An artifact's output field: the advice, or what is there without one.
Outputs == Advices \union {"nothing", "unused"}

ASSUME AgentSealAssumption ==
    /\ Evidence \in Seq([blocking : BOOLEAN, body : {"collected"}])
    /\ Batteries \subseteq Seq(Behaviours)
    /\ MaxRepeat \in Nat /\ MaxFailures \in Nat
    /\ None \notin [results : Seq(Entries), blockers : Nat, output : Outputs]

VARIABLES
    setup,        \* the pipeline, the battery and the repeat of the check
    turn,         \* the variant under test, 0 for the baseline stage
    runs,         \* runs of that variant that have ended
    at,           \* where the check is
    list,         \* the live list of evidence: the entries it refers to
    entries,      \* the live entries
    hand,         \* the thread that may still write to them
    returned,     \* what the stage returned, or "exception"
    counted,      \* what the pipeline has read of the evidence: its blockers
    copied,       \* and its own copy of the list
    probe,        \* digest and error of the variant so far
    baseline,     \* the digest of the baseline's artifact
    results,      \* one VariantResult per variant tested
    certificate,
    produced,     \* history: the digests of all artifacts of hostile runs
    failures      \* the pipeline's own failures so far

check == <<setup, turn, runs, probe, baseline, results, produced, failures>>

vars == <<setup, turn, runs, at, list, entries, hand, returned, counted, copied,
          probe, baseline, results, certificate, produced, failures>>

NoProbe == [digest |-> None, error |-> FALSE]

Battery == setup.battery

Variant == IF turn = 0 THEN "baseline" ELSE Battery[turn]

\* max(1, repeat), a bug: the repeat as it is given.
AttemptsAsGiven == setup.repeat

Attempts == IF setup.repeat = 0 THEN 1 ELSE setup.repeat

Init ==
    /\ setup \in [pipeline : Pipelines, battery : Batteries, repeat : 0..MaxRepeat]
    /\ turn = 0 /\ runs = 0 /\ at = "collect"
    /\ list = <<>> /\ entries = <<>> /\ hand = "none"
    /\ returned = "nothing" /\ counted = 0 /\ copied = <<>>
    /\ probe = NoProbe /\ baseline = None
    /\ results = <<>> /\ certificate = None
    /\ produced = {} /\ failures = 0

----------------------------------------------------------------------------
(* What the variants do to the containers they reach.                      *)

\* The containers a stage finds from its arguments: a sealed projection has none.
Reaches == setup.pipeline.stage # "sealed"

OnEntries(Change(_)) == entries' = [k \in DOMAIN entries |-> Change(entries[k])]

Erase == list' = <<>> /\ UNCHANGED entries

Downgrade == OnEntries(LAMBDA e : [blocking |-> FALSE, body |-> "benign"]) /\ UNCHANGED list

DropOne ==
    /\ list' = IF list = <<>> THEN list ELSE SubSeq(list, 1, Len(list) - 1)
    /\ UNCHANGED entries

\* The forged entry is appended to the list before the walk goes on into it.
Flood ==
    /\ list' = Append(list, Len(entries) + 1)
    /\ entries' = Append([k \in DOMAIN entries |-> [entries[k] EXCEPT !.body = "forged"]], Forged)

Duplicate ==
    /\ list' = IF list = <<>> THEN list ELSE Append(list, list[1])
    /\ UNCHANGED entries

Reorder ==
    /\ list' = [k \in DOMAIN list |-> list[Len(list) + 1 - k]]
    /\ UNCHANGED entries

Touch(behaviour) ==
    \/ behaviour \in {"erase", "erase-then-raise"} /\ Erase
    \/ behaviour = "downgrade" /\ Downgrade
    \/ behaviour = "drop-one" /\ DropOne
    \/ behaviour = "flood" /\ Flood
    \/ behaviour = "duplicate" /\ Duplicate
    \/ behaviour = "reorder" /\ Reorder

Touching == {"erase", "erase-then-raise", "downgrade", "drop-one", "flood", "duplicate", "reorder"}

\* The variants that only touch evidence all return the same advice.
Advice(behaviour) ==
    CASE behaviour = "erase-then-raise" -> "exception"
      [] behaviour \in {"baseline", "force-go", "poisoned-memory", "forge-authority",
                        "forge-policy"} -> behaviour
      [] OTHER -> "hostile"

----------------------------------------------------------------------------
(* One run of the pipeline.                                                *)

\* Fresh evidence; sealed_stage, if there is one, takes its fingerprint now.
Collect ==
    /\ at = "collect"
    /\ at' = "stage"
    /\ list' = [k \in DOMAIN Evidence |-> k]
    /\ entries' = Evidence
    /\ hand' = "none" /\ returned' = "nothing" /\ counted' = 0 /\ copied' = <<>>
    /\ UNCHANGED <<check, certificate>>

Stage ==
    /\ at = "stage"
    /\ IF Reaches /\ Variant \in Touching THEN Touch(Variant)
       ELSE UNCHANGED <<list, entries>>
    /\ hand' = IF Reaches /\ Variant \in {"deferred", "concurrent"} THEN Variant ELSE "none"
    /\ returned' = Advice(Variant)
    /\ at' = IF Variant = "concurrent" THEN "sleeping" ELSE "returning"
    /\ UNCHANGED <<check, counted, copied, certificate>>

\* The second thread of "deferred" or "concurrent" clears a container it holds.
ThreadClears ==
    /\ hand # "none"
    /\ \/ list # <<>> /\ Erase
       \/ \E k \in DOMAIN entries :
             /\ entries[k] # Cleared
             /\ entries' = [entries EXCEPT ![k] = Cleared]
             /\ UNCHANGED list
    /\ UNCHANGED <<check, at, hand, returned, counted, copied, certificate>>

\* The deferred thread stops at its deadline, wherever the pipeline is by then.
DeadlinePasses ==
    /\ hand = "deferred" /\ hand' = "none"
    /\ UNCHANGED <<check, at, list, entries, returned, counted, copied, certificate>>

\* The concurrent thread is stopped and joined before its stage returns.
Join ==
    /\ at = "sleeping" /\ at' = "returning" /\ hand' = "none"
    /\ UNCHANGED <<check, list, entries, returned, counted, copied, certificate>>

Moved == list # [k \in DOMAIN Evidence |-> k] \/ entries # Evidence

\* The stage returns to the pipeline; an ordinary exception is swallowed.
Return ==
    /\ at = "returning"
    /\ setup.pipeline.stage = "bare" \/ ~Moved
    /\ at' = "count"
    /\ UNCHANGED <<check, list, entries, hand, returned, counted, copied, certificate>>

\* The pipeline reads its evidence twice, and whatever it built is fingerprinted.
Count ==
    /\ at = "count" /\ at' = "copy"
    /\ counted' = Cardinality({k \in DOMAIN list : entries[list[k]].blocking})
    /\ UNCHANGED <<check, list, entries, hand, returned, copied, certificate>>

Copy ==
    /\ at = "copy" /\ at' = "fingerprint"
    /\ copied' = list
    /\ UNCHANGED <<check, list, entries, hand, returned, counted, certificate>>

Digest ==
    [results |-> [k \in DOMAIN copied |-> entries[copied[k]]],
     blockers |-> counted,
     output |-> IF setup.pipeline.output THEN returned ELSE "unused"]

----------------------------------------------------------------------------
(* The check around the runs.                                              *)

live == <<list, entries, hand, returned, counted, copied>>

\* The verdict on a variant, and on to the next.
Record(digest, influenced, error, blocked) ==
    /\ results' = Append(results, [digest |-> digest, influenced |-> influenced,
                                   error |-> error, blocked |-> blocked])
    /\ turn' = turn + 1 /\ runs' = 0 /\ probe' = NoProbe
    /\ at' = IF turn = Len(Battery) THEN "reported" ELSE "collect"
    /\ UNCHANGED <<setup, baseline>>

\* A run that settles nothing is repeated while there are runs left.
Repeat(digest, error) ==
    \/ /\ runs + 1 < Attempts
       /\ runs' = runs + 1 /\ at' = "collect"
       /\ probe' = [digest |-> digest, error |-> error]
       /\ UNCHANGED <<setup, turn, baseline, results>>
    \/ /\ runs + 1 >= Attempts
       /\ Record(digest, FALSE, error, FALSE)

\* The control run: its exception is the caller's.
BaselineDone ==
    /\ at = "fingerprint" /\ turn = 0
    /\ baseline' = Digest
    /\ turn' = 1
    /\ at' = IF Battery = <<>> THEN "reported" ELSE "collect"
    /\ UNCHANGED <<live, setup, runs, probe, results, certificate, produced, failures>>

\* A hostile run ends with an artifact, a bug: the last run's digest decides.
CompareLastRunOnly ==
    /\ at = "fingerprint" /\ turn > 0
    /\ produced' = produced \union {[turn |-> turn, digest |-> Digest]}
    /\ IF Digest # baseline /\ runs + 1 >= Attempts
       THEN Record(Digest, TRUE, probe.error, FALSE)
       ELSE Repeat(Digest, probe.error)
    /\ UNCHANGED <<live, certificate, failures>>

\* A hostile run ends with an artifact: an influence, or nothing yet.
Compare ==
    /\ at = "fingerprint" /\ turn > 0
    /\ produced' = produced \union {[turn |-> turn, digest |-> Digest]}
    /\ IF Digest # baseline
       THEN Record(Digest, TRUE, probe.error, FALSE)
       ELSE Repeat(Digest, probe.error)
    /\ UNCHANGED <<live, certificate, failures>>

\* sealed_stage finds its input altered, a bug: only when the stage returned.
SealBreaksOnReturnOnly ==
    /\ at = "returning" /\ setup.pipeline.stage # "bare" /\ Moved
    /\ IF returned = "exception"
       THEN at' = "count" /\ UNCHANGED <<setup, turn, runs, probe, baseline, results>>
       ELSE Record(None, FALSE, TRUE, TRUE)
    /\ UNCHANGED <<live, certificate, produced, failures>>

\* sealed_stage finds its input altered, whether the stage returned or raised:
\* no artifact is produced, and the variant counts as blocked.
SealBreaks ==
    /\ at = "returning" /\ setup.pipeline.stage # "bare" /\ Moved
    /\ Record(None, FALSE, TRUE, TRUE)
    /\ UNCHANGED <<live, certificate, produced, failures>>

\* The pipeline itself raises: fatal under the baseline, an error under a variant.
PipelineRaises ==
    /\ at = "collect" /\ failures < MaxFailures
    /\ failures' = failures + 1
    /\ IF turn = 0
       THEN at' = "raised" /\ UNCHANGED <<setup, turn, runs, probe, baseline, results>>
       ELSE Repeat(None, TRUE)
    /\ UNCHANGED <<live, certificate, produced>>

\* A mapping that the other thread empties while it is being fingerprinted
\* raises: inside sealed_stage as an exception of the stage, which the pipeline
\* swallows, afterwards as a failure of the run.
FingerprintRaces ==
    /\ hand = "deferred"
    /\ \E k \in DOMAIN entries :
          entries[k] # Cleared /\ entries' = [entries EXCEPT ![k] = Cleared]
    /\ \/ /\ at = "returning" /\ setup.pipeline.stage = "closing"
          /\ at' = "count" /\ returned' = "exception"
          /\ UNCHANGED <<setup, turn, runs, probe, baseline, results>>
       \/ /\ at = "fingerprint" /\ copied # <<>>
          /\ Repeat(None, TRUE) /\ UNCHANGED returned
    /\ UNCHANGED <<list, hand, counted, copied, certificate, produced, failures>>

----------------------------------------------------------------------------
(* The report and its certificate.                                         *)

Status(r) ==
    CASE r.influenced -> "INFLUENCED"
      [] ~r.influenced /\ r.blocked -> "BLOCKED"
      [] ~r.influenced /\ ~r.blocked /\ r.error -> "ERROR"
      [] OTHER -> "SEALED"

Sealed ==
    /\ results # <<>>
    /\ \A k \in DOMAIN results : Status(results[k]) \in {"SEALED", "BLOCKED"}

BuildCertificate ==
    [baseline |-> baseline,
     interventions |-> [k \in DOMAIN results |-> [outcome |-> Status(results[k]),
                                                  digest |-> results[k].digest]]]

Verifies(c) ==
    /\ c.interventions # <<>>
    /\ \A k \in DOMAIN c.interventions :
          LET item == c.interventions[k]
          IN  \/ item.outcome = "SEALED" /\ item.digest = c.baseline
              \/ item.outcome = "BLOCKED" /\ item.digest = None

Certify ==
    /\ at = "reported" /\ at' = "certified"
    /\ certificate' = BuildCertificate
    /\ UNCHANGED <<live, check>>

Ended == at \in {"certified", "raised"} /\ UNCHANGED vars

Next ==
    \/ Collect \/ Stage \/ ThreadClears \/ DeadlinePasses \/ Join
    \/ Return \/ Count \/ Copy
    \/ BaselineDone \/ Compare \/ SealBreaks \/ PipelineRaises \/ FingerprintRaces
    \/ Certify \/ Ended

Spec == Init /\ [][Next]_vars

----------------------------------------------------------------------------
(* Properties.                                                             *)

Digests == [results : Seq(Entries), blockers : Nat, output : Outputs]

Results == [digest : Digests \union {None}, influenced : BOOLEAN, error : BOOLEAN,
            blocked : BOOLEAN]

\* The state of a check (check.py:90-141): no variant is run more often than the
\* check was told to, and none is missing from the results.
TypeOK ==
    /\ setup \in [pipeline : Pipelines, battery : Batteries, repeat : 0..MaxRepeat]
    /\ at \in {"collect", "stage", "sleeping", "returning", "count", "copy",
               "fingerprint", "reported", "certified", "raised"}
    /\ turn \in 0..(Len(Battery) + 1)
    /\ runs \in 0..(Attempts - 1)
    /\ entries \in Seq(Entries)
    /\ list \in Seq(DOMAIN entries)
    /\ hand \in {"none", "deferred", "concurrent"}
    /\ returned \in Outputs
    /\ counted \in Nat
    /\ copied \in Seq(DOMAIN entries)
    /\ probe \in [digest : Digests \union {None}, error : BOOLEAN]
    /\ baseline \in Digests \union {None}
    /\ results \in Seq(Results)
    /\ turn > 0 => Len(results) = turn - 1
    /\ produced \subseteq [turn : 1..Len(Battery), digest : Digests]
    /\ failures \in 0..MaxFailures

\* A certificate verifies exactly when the report is sealed, and then no run of
\* any variant, the repeated ones included, gave an artifact other than the
\* baseline's; a report without influence or failure does get one (check.py:107-141,
\* certificate.py:64-107).
VerifiedMeansUnmoved ==
    certificate # None =>
        /\ Verifies(certificate) <=> Sealed
        /\ Verifies(certificate) <=>
              /\ Battery # <<>>
              /\ \A p \in produced : p.digest = baseline
              /\ \A k \in DOMAIN results : results[k].error => results[k].blocked

\* Behind sealed_stage a stage changes no artifact built without its output, even
\* when it raises or writes from another thread; the one exception is a stage
\* that reaches the live evidence past its arguments and writes after it has
\* returned, when the second fingerprint is already taken (stage.py:34-45).
OnlyDeferredPassesTheGuard ==
    \A p \in produced :
        setup.pipeline.stage # "bare" /\ ~setup.pipeline.output /\ p.digest # baseline
            => setup.pipeline.stage = "closing" /\ Battery[p.turn] = "deferred"
=============================================================================
