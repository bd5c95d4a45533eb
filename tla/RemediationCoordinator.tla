------------------------ MODULE RemediationCoordinator ------------------------
(***************************************************************************)
(* One RemediationCoordinator.run: hash and evaluate a repository, let an  *)
(* untrusted model propose file contents, build a repaired copy and        *)
(* evaluate that from scratch.  The repository is a working directory:     *)
(* whoever else works in it, an editor or a command the evaluation runs,   *)
(* may change it between any two reads, and the coordinator reads it four  *)
(* times, a file at a time.                                                *)
(***************************************************************************)
EXTENDS Naturals, FiniteSets

CONSTANTS
    Files,        \* the paths of the repository, present or not
    Paths,        \* the paths a model may name
    Allowed,      \* the explicit write allowlist
    Texts,        \* contents that fit the size limit
    Oversized,    \* one that does not
    Absent,       \* what a path without a file holds
    Link,         \* what a path with a symlink holds
    Approved,     \* the trees of which the evaluator says GO
    MaxChanged,   \* _MAX_CHANGED_FILES
    MaxEdits,     \* changes by others during one run
    None

Trees == [Files -> Texts \union {Absent, Link}]

\* What a model answers: contents for any set of paths.
Proposals == UNION {[P -> Texts \union {Oversized}] : P \in SUBSET Paths}

ASSUME CoordinatorAssumption ==
    /\ Allowed \subseteq Files \intersect Paths /\ Allowed # {}
    /\ IsFiniteSet(Paths)
    /\ Absent # Link /\ {Absent, Link, Oversized} \intersect Texts = {}
    /\ Approved \subseteq Trees
    /\ MaxChanged \in Nat /\ MaxEdits \in Nat
    /\ None \notin Trees \union Proposals \union {"GO", "NO_GO"}

VARIABLES
    source,       \* the repository
    at,           \* where the run is
    unread,       \* the files that the present read has still to look at
    seen,         \* what it has seen: of a file to be copied, whether it is a symlink
    original,     \* the tree of original_sha
    before,       \* the decision on the original
    changes,      \* the proposal, once validated
    staged,       \* the tree in the temporary directory
    outcome,      \* the RemediationOutcome
    remediator,   \* the adapter of a model, or any other callable
    touched,      \* history: where the run was when others last changed a file
    edits

run == <<at, unread, seen, original, before, changes, staged, outcome>>

others == <<source, touched, edits>>

vars == <<source, at, unread, seen, original, before, changes, staged, outcome,
          remediator, touched, edits>>

Hashing == {"hashing", "checking"}

Reading == Hashing \union {"evaluating", "copying"}

Unseen == [f \in Files |-> Absent]

Init ==
    /\ source \in Trees
    /\ at = "hash" /\ unread = {} /\ seen = Unseen
    /\ original = None /\ before = None /\ changes = None
    /\ staged = None /\ outcome = None
    /\ remediator \in {"adapter", "callable"}
    /\ touched = [f \in Files |-> "never"] /\ edits = 0

Reject == at' = "rejected" /\ UNCHANGED <<unread, seen, original, before, changes, staged, outcome>>

HasLink(tree) == \E f \in Files : tree[f] = Link

----------------------------------------------------------------------------
(* Reading the repository.                                                 *)

\* _safe_files: a symlink rejects the run; only the files listed are read.
List ==
    /\ at \in {"hash", "check"}
    /\ IF HasLink(source) THEN Reject
       ELSE /\ at' = IF at = "hash" THEN "hashing" ELSE "checking"
            /\ unread' = {f \in Files : source[f] # Absent}
            /\ seen' = Unseen
            /\ UNCHANGED <<original, before, changes, staged, outcome>>
    /\ UNCHANGED <<others, remediator>>

\* What reading a file gives.  A copy has been told by the listing which files are
\* symlinks, and takes those as they are; every other symlink is followed.  A file
\* that is gone gives nothing, except to the evaluator, who looks for himself.
Contents(f) ==
    IF at = "evaluating" THEN {source[f]}
    ELSE IF seen[f] = Link THEN {source[f]} \intersect {Link}
    ELSE IF source[f] = Link THEN Texts
    ELSE {source[f]} \ {Absent}

\* One file is read, if there is one; a symlink may lead nowhere.
Read(f) ==
    /\ at \in Reading /\ f \in unread
    /\ \/ /\ \E content \in Contents(f) : seen' = [seen EXCEPT ![f] = content]
          /\ unread' = unread \ {f}
          /\ UNCHANGED <<at, original, before, changes, staged, outcome>>
       \/ /\ Contents(f) = {} \/ (source[f] = Link /\ seen[f] # Link)
          /\ Reject
    /\ UNCHANGED <<others, remediator>>

Decision(tree) == IF tree \in Approved THEN "GO" ELSE "NO_GO"

Hashed ==
    /\ at = "hashing" /\ unread = {}
    /\ original' = seen
    /\ at' = "evaluating" /\ unread' = Files /\ seen' = Unseen
    /\ UNCHANGED <<before, changes, staged, outcome, others, remediator>>

\* A GO needs no repair, and no model is asked.
Evaluated ==
    /\ at = "evaluating" /\ unread = {}
    /\ before' = Decision(seen)
    /\ IF seen \in Approved
       THEN /\ at' = "done"
            /\ outcome' = [original |-> original, repaired |-> None, before |-> "GO",
                           after |-> None, changes |-> None]
       ELSE at' = "think" /\ UNCHANGED outcome
    /\ UNCHANGED <<unread, seen, original, changes, staged, others, remediator>>

----------------------------------------------------------------------------
(* The proposal.                                                           *)

\* parse_remediation_output: the adapter of a model raises on these itself.
Parses(answer) == answer # <<>> /\ DOMAIN answer \subseteq Allowed

Valid(answer) ==
    /\ DOMAIN answer # {} /\ Cardinality(DOMAIN answer) <= MaxChanged
    /\ DOMAIN answer \subseteq Allowed
    /\ \A p \in DOMAIN answer : answer[p] # Oversized

Propose(answer) ==
    /\ at = "think"
    /\ remediator = "adapter" => Parses(answer)
    /\ IF Valid(answer)
       THEN /\ changes' = answer /\ at' = "check"
            /\ UNCHANGED <<unread, seen, original, before, staged, outcome>>
       ELSE Reject
    /\ UNCHANGED <<others, remediator>>

\* The model fails, or its adapter cannot parse what it says.
RemediatorRaises ==
    /\ at = "think"
    /\ Reject
    /\ UNCHANGED <<others, remediator>>

----------------------------------------------------------------------------
(* materialize_repair.                                                     *)

\* A bug: the base of the proposal is not compared with the current source.
BaseIsNotChecked ==
    /\ at = "checking" /\ unread = {}
    /\ at' = "guard"
    /\ UNCHANGED <<unread, seen, original, before, changes, staged, outcome, others, remediator>>

BaseChecked ==
    /\ at = "checking" /\ unread = {}
    /\ IF seen = original
       THEN at' = "guard" /\ UNCHANGED <<unread, seen, original, before, changes, staged, outcome>>
       ELSE Reject
    /\ UNCHANGED <<others, remediator>>

\* Symlinks are looked for once more before the tree is copied.
Guard ==
    /\ at = "guard"
    /\ IF HasLink(source) THEN Reject
       ELSE at' = "scan" /\ UNCHANGED <<unread, seen, original, before, changes, staged, outcome>>
    /\ UNCHANGED <<others, remediator>>

\* copytree lists the files, and which of them are symlinks.
Scan ==
    /\ at = "scan" /\ at' = "copying"
    /\ unread' = {f \in Files : source[f] # Absent}
    /\ seen' = [f \in Files |-> IF source[f] = Link THEN Link ELSE Absent]
    /\ UNCHANGED <<original, before, changes, staged, outcome, others, remediator>>

Copied ==
    /\ at = "copying" /\ unread = {}
    /\ staged' = seen /\ at' = "write"
    /\ UNCHANGED <<unread, seen, original, before, changes, outcome, others, remediator>>

\* A symlink in the way leads out of the staging root.
Write ==
    /\ at = "write"
    /\ IF \E p \in DOMAIN changes : staged[p] = Link THEN Reject
       ELSE /\ staged' = [f \in Files |-> IF f \in DOMAIN changes THEN changes[f] ELSE staged[f]]
            /\ at' = "rehash"
            /\ UNCHANGED <<unread, seen, original, before, changes, outcome>>
    /\ UNCHANGED <<others, remediator>>

\* A bug: the repaired tree is hashed without the look for symlinks.
RehashFollowsLinks ==
    /\ at = "rehash"
    /\ IF staged = original THEN Reject
       ELSE at' = "reevaluate" /\ UNCHANGED <<unread, seen, original, before, changes, staged, outcome>>
    /\ UNCHANGED <<others, remediator>>

Rehash ==
    /\ at = "rehash"
    /\ IF HasLink(staged) \/ staged = original THEN Reject
       ELSE at' = "reevaluate" /\ UNCHANGED <<unread, seen, original, before, changes, staged, outcome>>
    /\ UNCHANGED <<others, remediator>>

\* The staged tree is private, and evaluated from scratch.
Reevaluate ==
    /\ at = "reevaluate" /\ at' = "done"
    /\ outcome' = [original |-> original, repaired |-> staged, before |-> before,
                   after |-> Decision(staged), changes |-> changes]
    /\ UNCHANGED <<unread, seen, original, before, changes, staged, others, remediator>>

\* The evaluator raises.
EvaluatorRaises ==
    /\ at \in {"evaluating", "reevaluate"}
    /\ Reject
    /\ UNCHANGED <<others, remediator>>

----------------------------------------------------------------------------

\* Somebody else changes, adds, removes or links a file.
Edit(f) ==
    /\ at \notin {"done", "rejected"} /\ edits < MaxEdits
    /\ edits' = edits + 1
    /\ \E content \in (Texts \union {Absent, Link}) \ {source[f]} :
          source' = [source EXCEPT ![f] = content]
    /\ touched' = [touched EXCEPT ![f] = at]
    /\ UNCHANGED <<run, remediator>>

Ended == at \in {"done", "rejected"} /\ UNCHANGED vars

Next ==
    \/ List \/ \E f \in Files : Read(f)
    \/ Hashed \/ Evaluated
    \/ \E answer \in Proposals : Propose(answer)
    \/ RemediatorRaises
    \/ BaseChecked \/ Guard \/ Scan \/ Copied \/ Write \/ Rehash \/ Reevaluate
    \/ EvaluatorRaises
    \/ \E f \in Files : Edit(f)
    \/ Ended

Spec == Init /\ [][Next]_vars

----------------------------------------------------------------------------
(* Properties.                                                             *)

Stages == {"hash", "hashing", "evaluating", "think", "check", "checking", "guard",
           "scan", "copying", "write", "rehash", "reevaluate", "done", "rejected"}

Outcomes ==
    [original : Trees, repaired : Trees \union {None}, before : {"GO", "NO_GO"},
     after : {"GO", "NO_GO", None}, changes : Proposals \union {None}]

Linkless == {tree \in Trees : ~HasLink(tree)}

\* The state of a run; no tree with a symlink is ever hashed or evaluated as a
\* repair, whenever the symlink was made (service.py:24-31, 90-106).
TypeOK ==
    /\ source \in Trees /\ seen \in Trees
    /\ at \in Stages /\ unread \subseteq Files
    /\ original \in Linkless \union {None}
    /\ before \in {"GO", "NO_GO", None}
    /\ changes \in Proposals \union {None}
    /\ staged \in Trees \union {None}
    /\ at = "reevaluate" => staged \in Linkless
    /\ outcome \in Outcomes \union {None}
    /\ remediator \in {"adapter", "callable"}
    /\ touched \in [Files -> Stages \union {"never"}]
    /\ edits \in 0..MaxEdits

\* From where on a change is too late for the comparison with the base.
Late == {"checking", "guard", "scan", "copying", "write", "rehash", "reevaluate"}

\* A repair is judged by a fresh evaluation of the very tree that is hashed: what
\* was proposed, on allowed paths only, over what was hashed at first.  A change
\* made while the evaluator or the model was at work is neither merged into the
\* repair nor lost under it; only one made after the comparison of the base has
\* read the file goes unnoticed (service.py:76-109, 143-191).
RepairIsJudgedAsStaged ==
    outcome # None /\ outcome.after # None =>
        /\ outcome.before = "NO_GO"
        /\ outcome.after = Decision(outcome.repaired)
        /\ outcome.repaired # outcome.original
        /\ DOMAIN outcome.changes \subseteq Allowed
        /\ \A f \in Files :
              \/ touched[f] \in Late
              \/ /\ source[f] = outcome.original[f]
                 /\ outcome.repaired[f] = IF f \in DOMAIN outcome.changes
                                          THEN outcome.changes[f] ELSE source[f]
=============================================================================
