--------------------- MODULE RemediationCoordinatorProofs ---------------------
(***************************************************************************)
(* What is judged as a repair is what was hashed, for any files, contents, *)
(* allowlist, evaluator and number of changes by others.                   *)
(*                                                                         *)
(* The argument follows the four reads of the repository.  Between them a  *)
(* file is either as the run last saw it, or somebody changed it later     *)
(* than the comparison of the base: Unnoticed says so of each stage.       *)
(***************************************************************************)
EXTENDS RemediationCoordinator, TLAPS

Proposed == {"check", "checking", "guard", "scan", "copying", "write", "rehash", "reevaluate"}

Compared == {"guard", "scan", "copying", "write", "rehash", "reevaluate"}

\* What a run has established on its way to each stage.
Progress ==
    /\ at \in Hashing => \A f \in Files : seen[f] # Link
    /\ at \in {"evaluating", "think"} \union Proposed => original \in Linkless
    /\ at \in {"think"} \union Proposed => before = "NO_GO"
    /\ at \in Proposed => changes \in Proposals /\ Valid(changes)
    /\ at \in {"write", "rehash", "reevaluate"} => staged \in Trees
    /\ at = "reevaluate" => staged # original
    /\ at # "done" => outcome = None

Unnoticed ==
    /\ at = "checking" => \A f \in Files : source[f] = Link => touched[f] \in Late
    /\ at \in {"checking", "copying"} =>
          \A f \in Files \ unread : touched[f] \in Late \/ seen[f] = source[f]
    /\ at \in Compared =>
          \A f \in Files : touched[f] \in Late \/ original[f] = source[f]
    /\ at = "write" =>
          \A f \in Files : touched[f] \in Late \/ staged[f] = source[f]
    /\ at \in {"rehash", "reevaluate"} =>
          \A f \in Files : \/ touched[f] \in Late
                           \/ staged[f] = IF f \in DOMAIN changes THEN changes[f] ELSE source[f]

IInv == TypeOK /\ Progress /\ Unnoticed /\ RepairIsJudgedAsStaged

-----------------------------------------------------------------------------

\* A valid proposal has contents that fit, for paths of the allowlist only
\* (service.py:59-73).
LEMMA ValidContents ==
    ASSUME NEW c \in Proposals, Valid(c)
    PROVE  /\ DOMAIN c \subseteq Allowed
           /\ \A p \in DOMAIN c : c[p] \in Texts
BY DEF Proposals, Valid

\* Writing a valid proposal over a tree gives a tree (service.py:96-105).
LEMMA WriteGivesTree ==
    ASSUME NEW c \in Proposals, Valid(c), NEW tree \in Trees
    PROVE  [f \in Files |-> IF f \in DOMAIN c THEN c[f] ELSE tree[f]] \in Trees
BY ValidContents DEF Trees

\* Reading a file keeps what is seen a tree.
LEMMA SeenIsTree ==
    ASSUME NEW f \in Files, NEW tree \in Trees, NEW content \in Texts \union {Absent, Link}
    PROVE  [tree EXCEPT ![f] = content] \in Trees
BY DEF Trees

LEMMA UnseenIsTree == Unseen \in Trees
BY DEF Unseen, Trees

LEMMA InitInv == Init => IInv
<1> SUFFICES ASSUME Init PROVE IInv
    OBVIOUS
<1>1. TypeOK
    BY UnseenIsTree, CoordinatorAssumption DEF Init, TypeOK, Stages
<1>2. Progress /\ Unnoticed /\ RepairIsJudgedAsStaged
    BY DEF Init, Progress, Unnoticed, RepairIsJudgedAsStaged, Hashing, Proposed, Compared
<1> QED BY <1>1, <1>2 DEF IInv

-----------------------------------------------------------------------------
(* The steps.                                                              *)

\* A rejection ends the run, and leaves nothing to be said of it.
LEMMA RejectKeeps ==
    ASSUME IInv, at # "done", Reject, UNCHANGED <<others, remediator>>
    PROVE  IInv'
<1>1. TypeOK'
    BY DEF IInv, TypeOK, Reject, others, Stages, Linkless, HasLink, Trees, Outcomes
<1>2. Progress' /\ Unnoticed' /\ RepairIsJudgedAsStaged'
    BY DEF IInv, Progress, Unnoticed, RepairIsJudgedAsStaged, Reject, Hashing, Proposed, Compared
<1> QED BY <1>1, <1>2 DEF IInv

LEMMA ListKeeps ==
    ASSUME IInv, List
    PROVE  IInv'
<1>1. CASE HasLink(source)
    BY <1>1, RejectKeeps DEF List
<1>2. CASE ~HasLink(source)
    <2>1. /\ at \in {"hash", "check"}
          /\ at' = IF at = "hash" THEN "hashing" ELSE "checking"
          /\ unread' = {f \in Files : source[f] # Absent}
          /\ seen' = Unseen
          /\ UNCHANGED <<original, before, changes, staged, outcome, source, touched, edits, remediator>>
        BY <1>2 DEF List, others
    <2>2. TypeOK'
        BY <2>1, UnseenIsTree DEF IInv, TypeOK, Stages
    <2>3. Progress'
        BY <2>1, CoordinatorAssumption DEF IInv, Progress, Hashing, Proposed, Unseen
    <2>4. Unnoticed'
        BY <1>2, <2>1, CoordinatorAssumption DEF Unnoticed, Compared, Unseen, HasLink
    <2>5. RepairIsJudgedAsStaged'
        BY <2>1 DEF IInv, RepairIsJudgedAsStaged, Progress
    <2> QED BY <2>2, <2>3, <2>4, <2>5 DEF IInv
<1> QED BY <1>1, <1>2

LEMMA ReadKeeps ==
    ASSUME IInv, NEW f \in Files, Read(f)
    PROVE  IInv'
<1>1. CASE Reject
    BY <1>1, RejectKeeps DEF Read, Reading, Hashing
<1>2. ASSUME NEW content \in Contents(f), seen' = [seen EXCEPT ![f] = content],
             unread' = unread \ {f},
             UNCHANGED <<at, original, before, changes, staged, outcome>>
      PROVE  IInv'
    <2>1. /\ at \in Reading /\ f \in unread
          /\ UNCHANGED <<source, touched, edits, remediator>>
        BY DEF Read, others
    <2>2. content \in Texts \union {Absent, Link} /\ (at \in Hashing => content # Link)
        BY CoordinatorAssumption DEF Contents, IInv, TypeOK, Trees, Progress, Hashing
    <2>3. seen' \in Trees
        BY <1>2, <2>2, SeenIsTree DEF IInv, TypeOK
    <2>4. TypeOK'
        BY <1>2, <2>1, <2>3 DEF IInv, TypeOK
    <2>5. Progress'
        <3>1. at \in Hashing => \A g \in Files : seen'[g] # Link
            BY <1>2, <2>2 DEF IInv, TypeOK, Trees, Progress
        <3>2. Valid(changes)' <=> Valid(changes)
            BY <1>2 DEF Valid
        <3> QED BY <1>2, <2>1, <3>1, <3>2 DEF IInv, Progress
    <2>6. Unnoticed'
        \* A file that is a symlink now was none when the base was compared.
        <3>1. at \in {"checking", "copying"} /\ source[f] = Link => touched[f] \in Late
            BY DEF IInv, Unnoticed, Progress, Linkless, HasLink, Proposed, Compared
        <3>2. at \in {"checking", "copying"} => touched[f] \in Late \/ content = source[f]
            BY <1>2, <3>1 DEF Contents
        <3>3. ASSUME at \in {"checking", "copying"}, NEW g \in Files \ unread'
              PROVE  touched[g] \in Late \/ seen'[g] = source[g]
            BY <1>2, <3>2, <3>3 DEF IInv, TypeOK, Trees, Unnoticed
        <3> QED BY <1>2, <2>1, <3>3 DEF IInv, Unnoticed
    <2>7. RepairIsJudgedAsStaged'
        BY <1>2, <2>1 DEF IInv, RepairIsJudgedAsStaged, Decision
    <2> QED BY <2>4, <2>5, <2>6, <2>7 DEF IInv
<1> QED BY <1>1, <1>2 DEF Read

LEMMA HashedKeeps ==
    ASSUME IInv, Hashed
    PROVE  IInv'
<1>1. seen \in Linkless
    BY DEF IInv, TypeOK, Progress, Hashed, Hashing, Linkless, HasLink
<1>2. TypeOK'
    BY <1>1, UnseenIsTree DEF IInv, TypeOK, Hashed, others, Stages
<1>3. Progress' /\ Unnoticed' /\ RepairIsJudgedAsStaged'
    BY <1>1 DEF IInv, Progress, Unnoticed, RepairIsJudgedAsStaged, Hashed, others,
                Hashing, Proposed, Compared
<1> QED BY <1>2, <1>3 DEF IInv

LEMMA EvaluatedKeeps ==
    ASSUME IInv, Evaluated
    PROVE  IInv'
<1>0. original \in Trees /\ at = "evaluating" /\ outcome = None
    BY DEF IInv, Progress, Evaluated, Linkless
<1>1. CASE seen \in Approved
    <2>1. /\ at' = "done" /\ before' = "GO"
          /\ outcome' = [original |-> original, repaired |-> None, before |-> "GO",
                         after |-> None, changes |-> None]
          /\ UNCHANGED <<unread, seen, original, changes, staged, source, touched, edits, remediator>>
        BY <1>1 DEF Evaluated, Decision, others
    <2>2. outcome' \in Outcomes
        BY <1>0, <2>1 DEF Outcomes
    <2>3. TypeOK'
        BY <2>1, <2>2 DEF IInv, TypeOK, Stages
    <2>4. Progress' /\ Unnoticed'
        BY <2>1 DEF Progress, Unnoticed, Hashing, Proposed, Compared
    <2>5. RepairIsJudgedAsStaged'
        BY <2>1 DEF RepairIsJudgedAsStaged
    <2> QED BY <2>3, <2>4, <2>5 DEF IInv
<1>2. CASE seen \notin Approved
    <2>1. /\ at' = "think" /\ before' = "NO_GO"
          /\ UNCHANGED <<outcome, unread, seen, original, changes, staged, source, touched, edits, remediator>>
        BY <1>2 DEF Evaluated, Decision, others
    <2>2. TypeOK'
        BY <2>1 DEF IInv, TypeOK, Stages
    <2>3. Progress' /\ Unnoticed' /\ RepairIsJudgedAsStaged'
        BY <1>0, <2>1 DEF IInv, Progress, Unnoticed, RepairIsJudgedAsStaged, Hashing, Proposed, Compared
    <2> QED BY <2>2, <2>3 DEF IInv
<1> QED BY <1>1, <1>2

LEMMA ProposeKeeps ==
    ASSUME IInv, NEW answer \in Proposals, Propose(answer)
    PROVE  IInv'
<1>1. CASE ~Valid(answer)
    BY <1>1, RejectKeeps DEF Propose
<1>2. CASE Valid(answer)
    <2>1. /\ at = "think" /\ changes' = answer /\ at' = "check"
          /\ UNCHANGED <<unread, seen, original, before, staged, outcome, source, touched, edits, remediator>>
        BY <1>2 DEF Propose, others
    <2>2. TypeOK'
        BY <2>1 DEF IInv, TypeOK, Stages
    <2>3. Valid(changes)'
        BY <1>2, <2>1 DEF Valid
    <2>4. Progress' /\ Unnoticed' /\ RepairIsJudgedAsStaged'
        BY <2>1, <2>3 DEF IInv, Progress, Unnoticed, RepairIsJudgedAsStaged, Hashing, Proposed, Compared
    <2> QED BY <2>2, <2>4 DEF IInv
<1> QED BY <1>1, <1>2

\* The comparison of the base: every file is as it was hashed, or was changed
\* after it was read for this comparison.
LEMMA BaseCheckedKeeps ==
    ASSUME IInv, BaseChecked
    PROVE  IInv'
<1>1. CASE seen # original
    BY <1>1, RejectKeeps DEF BaseChecked
<1>2. CASE seen = original
    <2>1. /\ at = "checking" /\ unread = {} /\ at' = "guard"
          /\ UNCHANGED <<unread, seen, original, before, changes, staged, outcome, source, touched, edits,
                         remediator>>
        BY <1>2 DEF BaseChecked, others
    <2>2. TypeOK'
        BY <2>1 DEF IInv, TypeOK, Stages
    <2>3. \A f \in Files : touched[f] \in Late \/ original[f] = source[f]
        BY <1>2, <2>1 DEF IInv, Unnoticed
    <2>4. Valid(changes)'
        BY <2>1 DEF IInv, Progress, Proposed, Valid
    <2>5. Progress' /\ Unnoticed' /\ RepairIsJudgedAsStaged'
        BY <2>1, <2>3, <2>4 DEF IInv, Progress, Unnoticed, RepairIsJudgedAsStaged, Hashing, Proposed, Compared
    <2> QED BY <2>2, <2>5 DEF IInv
<1> QED BY <1>1, <1>2

LEMMA GuardKeeps ==
    ASSUME IInv, Guard
    PROVE  IInv'
<1>1. CASE HasLink(source)
    BY <1>1, RejectKeeps DEF Guard
<1>2. CASE ~HasLink(source)
    <2>1. /\ at = "guard" /\ at' = "scan"
          /\ UNCHANGED <<unread, seen, original, before, changes, staged, outcome, source, touched,
                         edits, remediator>>
        BY <1>2 DEF Guard, others
    <2>2. TypeOK'
        BY <2>1 DEF IInv, TypeOK, Stages
    <2>3. Valid(changes)'
        BY <2>1 DEF IInv, Progress, Proposed, Valid
    <2>4. Progress' /\ Unnoticed' /\ RepairIsJudgedAsStaged'
        BY <2>1, <2>3 DEF IInv, Progress, Unnoticed, RepairIsJudgedAsStaged, Hashing, Proposed, Compared
    <2> QED BY <2>2, <2>4 DEF IInv
<1> QED BY <1>1, <1>2

\* What the listing leaves out is not there.
LEMMA ScanKeeps ==
    ASSUME IInv, Scan
    PROVE  IInv'
<1>1. /\ at = "scan" /\ at' = "copying" /\ unread' = {f \in Files : source[f] # Absent}
      /\ seen' = [f \in Files |-> IF source[f] = Link THEN Link ELSE Absent]
      /\ UNCHANGED <<original, before, changes, staged, outcome, source, touched, edits, remediator>>
    BY DEF Scan, others
<1>2. seen' \in Trees
    BY <1>1 DEF Trees
<1>3. TypeOK'
    BY <1>1, <1>2 DEF IInv, TypeOK, Stages
<1>4. Valid(changes)'
    BY <1>1 DEF IInv, Progress, Proposed, Valid
<1>5. \A f \in Files \ unread' : seen'[f] = source[f]
    BY <1>1, CoordinatorAssumption
<1>6. Progress' /\ Unnoticed' /\ RepairIsJudgedAsStaged'
    BY <1>1, <1>4, <1>5 DEF IInv, Progress, Unnoticed, RepairIsJudgedAsStaged, Hashing, Proposed, Compared
<1> QED BY <1>3, <1>6 DEF IInv

LEMMA CopiedKeeps ==
    ASSUME IInv, Copied
    PROVE  IInv'
<1>1. /\ at = "copying" /\ unread = {} /\ staged' = seen /\ at' = "write"
      /\ UNCHANGED <<unread, seen, original, before, changes, outcome, source, touched, edits, remediator>>
    BY DEF Copied, others
<1>2. TypeOK'
    BY <1>1 DEF IInv, TypeOK, Stages
<1>3. \A f \in Files : touched[f] \in Late \/ seen[f] = source[f]
    BY <1>1 DEF IInv, Unnoticed
<1>4. Valid(changes)' /\ seen \in Trees
    BY <1>1 DEF IInv, Progress, Proposed, Valid, TypeOK
<1>5. Progress' /\ Unnoticed' /\ RepairIsJudgedAsStaged'
    BY <1>1, <1>3, <1>4 DEF IInv, Progress, Unnoticed, RepairIsJudgedAsStaged, Hashing, Proposed, Compared
<1> QED BY <1>2, <1>5 DEF IInv

LEMMA WriteKeeps ==
    ASSUME IInv, Write
    PROVE  IInv'
<1>1. CASE \E p \in DOMAIN changes : staged[p] = Link
    BY <1>1, RejectKeeps DEF Write
<1>2. CASE ~\E p \in DOMAIN changes : staged[p] = Link
    <2>1. /\ at = "write" /\ at' = "rehash"
          /\ staged' = [f \in Files |-> IF f \in DOMAIN changes THEN changes[f] ELSE staged[f]]
          /\ UNCHANGED <<unread, seen, original, before, changes, outcome, source, touched, edits, remediator>>
        BY <1>2 DEF Write, others
    <2>2. changes \in Proposals /\ Valid(changes) /\ staged \in Trees
        BY <2>1 DEF IInv, Progress, Proposed
    <2>3. staged' \in Trees
        BY <2>1, <2>2, WriteGivesTree
    <2>4. TypeOK'
        BY <2>1, <2>3 DEF IInv, TypeOK, Stages
    <2>5. Valid(changes)'
        BY <2>1, <2>2 DEF Valid
    <2>6. \A f \in Files : \/ touched[f] \in Late
                           \/ staged'[f] = IF f \in DOMAIN changes THEN changes[f] ELSE source[f]
        BY <2>1 DEF IInv, Unnoticed
    <2>7. Progress' /\ Unnoticed' /\ RepairIsJudgedAsStaged'
        BY <2>1, <2>2, <2>3, <2>5, <2>6
           DEF IInv, Progress, Unnoticed, RepairIsJudgedAsStaged, Hashing, Proposed, Compared
    <2> QED BY <2>4, <2>7 DEF IInv
<1> QED BY <1>1, <1>2

LEMMA RehashKeeps ==
    ASSUME IInv, Rehash
    PROVE  IInv'
<1>1. CASE HasLink(staged) \/ staged = original
    BY <1>1, RejectKeeps DEF Rehash
<1>2. CASE ~(HasLink(staged) \/ staged = original)
    <2>1. /\ at = "rehash" /\ at' = "reevaluate"
          /\ UNCHANGED <<unread, seen, original, before, changes, staged, outcome, source, touched, edits,
                         remediator>>
        BY <1>2 DEF Rehash, others
    <2>2. staged \in Linkless
        BY <1>2, <2>1 DEF IInv, Progress, Linkless
    <2>3. TypeOK'
        BY <2>1, <2>2 DEF IInv, TypeOK, Stages
    <2>4. Valid(changes)'
        BY <2>1 DEF IInv, Progress, Proposed, Valid
    <2>5. Progress' /\ Unnoticed' /\ RepairIsJudgedAsStaged'
        BY <1>2, <2>1, <2>4 DEF IInv, Progress, Unnoticed, RepairIsJudgedAsStaged, Hashing, Proposed, Compared
    <2> QED BY <2>3, <2>5 DEF IInv
<1> QED BY <1>1, <1>2

\* The outcome: what was read, written and compared on the way comes together.
LEMMA ReevaluateKeeps ==
    ASSUME IInv, Reevaluate
    PROVE  IInv'
<1>1. /\ at = "reevaluate" /\ at' = "done"
      /\ outcome' = [original |-> original, repaired |-> staged, before |-> before,
                     after |-> Decision(staged), changes |-> changes]
      /\ UNCHANGED <<unread, seen, original, before, changes, staged, source, touched, edits, remediator>>
    BY DEF Reevaluate, others
<1>2. /\ original \in Trees /\ staged \in Trees /\ changes \in Proposals /\ Valid(changes)
      /\ before = "NO_GO" /\ staged # original
    BY <1>1 DEF IInv, Progress, Proposed, Linkless
<1>3. outcome' \in Outcomes
    BY <1>1, <1>2 DEF Outcomes, Decision
<1>4. TypeOK'
    BY <1>1, <1>3 DEF IInv, TypeOK, Stages
<1>5. Progress' /\ Unnoticed'
    BY <1>1 DEF Progress, Unnoticed, Hashing, Proposed, Compared
<1>6. RepairIsJudgedAsStaged'
    <2>1. \A f \in Files :
             \/ touched[f] \in Late
             \/ /\ source[f] = original[f]
                /\ staged[f] = IF f \in DOMAIN changes THEN changes[f] ELSE source[f]
        BY <1>1 DEF IInv, Unnoticed, Compared
    <2>2. DOMAIN changes \subseteq Allowed
        BY <1>2, ValidContents
    <2> QED BY <1>1, <1>2, <2>1, <2>2 DEF RepairIsJudgedAsStaged, Decision
<1> QED BY <1>4, <1>5, <1>6 DEF IInv

\* Whoever changes a file once the base is being compared leaves his mark.
LEMMA EditKeeps ==
    ASSUME IInv, NEW f \in Files, Edit(f)
    PROVE  IInv'
<1>1. PICK content \in Texts \union {Absent, Link} : source' = [source EXCEPT ![f] = content]
    BY DEF Edit
<1>2. /\ at # "done" /\ edits < MaxEdits /\ edits' = edits + 1
      /\ touched' = [touched EXCEPT ![f] = at]
      /\ UNCHANGED <<at, unread, seen, original, before, changes, staged, outcome, remediator>>
    BY DEF Edit, run
<1>3. TypeOK'
    <2>1. source' \in Trees
        BY <1>1, SeenIsTree DEF IInv, TypeOK
    <2>2. edits' \in 0..MaxEdits
        BY <1>2, CoordinatorAssumption DEF IInv, TypeOK
    <2>3. touched' \in [Files -> Stages \union {"never"}]
        BY <1>2 DEF IInv, TypeOK
    <2> QED BY <1>2, <2>1, <2>2, <2>3 DEF IInv, TypeOK
<1>4. Progress'
    BY <1>2 DEF IInv, Progress
<1>5. Unnoticed'
    <2>1. \A g \in Files : g # f => source'[g] = source[g] /\ touched'[g] = touched[g]
        BY <1>1, <1>2 DEF IInv, TypeOK, Trees
    <2>2. at \in Late => touched'[f] \in Late
        BY <1>2 DEF IInv, TypeOK
    <2>3. at \in {"checking", "copying", "write"} \union Compared => at \in Late
        BY DEF Late, Compared
    <2> QED BY <1>2, <2>1, <2>2, <2>3 DEF IInv, Unnoticed, Compared
<1>6. RepairIsJudgedAsStaged'
    BY <1>2 DEF IInv, Progress, RepairIsJudgedAsStaged
<1> QED BY <1>3, <1>4, <1>5, <1>6 DEF IInv

LEMMA StutterKeeps ==
    ASSUME IInv, UNCHANGED vars
    PROVE  IInv'
<1>1. Valid(changes)' <=> Valid(changes)
    BY DEF vars, Valid
<1> QED BY <1>1 DEF IInv, TypeOK, Progress, Unnoticed, RepairIsJudgedAsStaged, vars, Decision

LEMMA NextInv == IInv /\ [Next]_vars => IInv'
<1> SUFFICES ASSUME IInv, [Next]_vars PROVE IInv'
    OBVIOUS
<1>1. CASE List
    BY <1>1, ListKeeps
<1>2. ASSUME NEW f \in Files, Read(f) PROVE IInv'
    BY <1>2, ReadKeeps
<1>3. CASE Hashed
    BY <1>3, HashedKeeps
<1>4. CASE Evaluated
    BY <1>4, EvaluatedKeeps
<1>5. ASSUME NEW answer \in Proposals, Propose(answer) PROVE IInv'
    BY <1>5, ProposeKeeps
<1>6. CASE RemediatorRaises
    BY <1>6, RejectKeeps DEF RemediatorRaises
<1>7. CASE BaseChecked
    BY <1>7, BaseCheckedKeeps
<1>8. CASE Guard
    BY <1>8, GuardKeeps
<1>9. CASE Copied
    BY <1>9, CopiedKeeps
<1>10. CASE Write
    BY <1>10, WriteKeeps
<1>11. CASE Rehash
    BY <1>11, RehashKeeps
<1>12. CASE Reevaluate
    BY <1>12, ReevaluateKeeps
<1>13. CASE EvaluatorRaises
    BY <1>13, RejectKeeps DEF EvaluatorRaises
<1>14. ASSUME NEW f \in Files, Edit(f) PROVE IInv'
    BY <1>14, EditKeeps
<1>15. CASE Ended \/ UNCHANGED vars
    BY <1>15, StutterKeeps DEF Ended
<1>16. CASE Scan
    BY <1>16, ScanKeeps
<1> QED
    BY <1>1, <1>2, <1>3, <1>4, <1>5, <1>6, <1>7, <1>8, <1>9, <1>10, <1>11, <1>12, <1>13,
       <1>14, <1>15, <1>16 DEF Next

-----------------------------------------------------------------------------

\* The state of a run is well formed, and no tree with a symlink is hashed or
\* evaluated as a repair, for any repository and whoever else works in it
\* (service.py:24-31, 90-106).
THEOREM CoordinatorTypeCorrect == Spec => []TypeOK
<1>1. IInv => TypeOK
    BY DEF IInv
<1> QED BY InitInv, NextInv, <1>1, PTL DEF Spec

\* What is judged as a repair is the tree that is hashed: the proposal over the
\* source first hashed, unless others changed a file after the comparison of the
\* base had read it (service.py:76-109, 143-191).
THEOREM RepairTheorem == Spec => []RepairIsJudgedAsStaged
<1>1. IInv => RepairIsJudgedAsStaged
    BY DEF IInv
<1> QED BY InitInv, NextInv, <1>1, PTL DEF Spec

-----------------------------------------------------------------------------
(* Progress: neither others nor the model can keep a run from its end.     *)

\* The stages that are left.
StagesLeft ==
    CASE at = "hash" -> 12
      [] at = "hashing" -> 11
      [] at = "evaluating" -> 10
      [] at = "think" -> 9
      [] at = "check" -> 8
      [] at = "checking" -> 7
      [] at = "guard" -> 6
      [] at = "scan" -> 5
      [] at = "copying" -> 4
      [] at = "write" -> 3
      [] at = "rehash" -> 2
      [] at = "reevaluate" -> 1
      [] OTHER -> 0

\* On to a later stage, or to fewer files in the same read.
GoesOn ==
    \/ StagesLeft' < StagesLeft
    \/ at' = at /\ \E f \in unread : unread' = unread \ {f}

LEMMA StageAt ==
    /\ at = "hash" => StagesLeft = 12
    /\ at = "hashing" => StagesLeft = 11
    /\ at = "evaluating" => StagesLeft = 10
    /\ at = "think" => StagesLeft = 9
    /\ at = "check" => StagesLeft = 8
    /\ at = "checking" => StagesLeft = 7
    /\ at = "guard" => StagesLeft = 6
    /\ at = "scan" => StagesLeft = 5
    /\ at = "copying" => StagesLeft = 4
    /\ at = "write" => StagesLeft = 3
    /\ at = "rehash" => StagesLeft = 2
    /\ at = "reevaluate" => StagesLeft = 1
    /\ at \in {"done", "rejected"} => StagesLeft = 0
BY DEF StagesLeft

LEMMA StageNext ==
    /\ at' = "hashing" => StagesLeft' = 11
    /\ at' = "evaluating" => StagesLeft' = 10
    /\ at' = "think" => StagesLeft' = 9
    /\ at' = "check" => StagesLeft' = 8
    /\ at' = "checking" => StagesLeft' = 7
    /\ at' = "guard" => StagesLeft' = 6
    /\ at' = "scan" => StagesLeft' = 5
    /\ at' = "copying" => StagesLeft' = 4
    /\ at' = "write" => StagesLeft' = 3
    /\ at' = "rehash" => StagesLeft' = 2
    /\ at' = "reevaluate" => StagesLeft' = 1
    /\ at' \in {"done", "rejected"} => StagesLeft' = 0
BY DEF StagesLeft

\* Up to the proposal.
LEMMA ReadingGoesOn ==
    ASSUME List \/ (\E f \in Files : Read(f)) \/ Hashed \/ Evaluated
    PROVE  GoesOn
<1>1. CASE List
  <2>1. \/ at = "hash" /\ at' \in {"hashing", "rejected"}
        \/ at = "check" /\ at' \in {"checking", "rejected"}
    BY <1>1 DEF List, Reject
  <2> QED
    BY <2>1, StageAt, StageNext DEF GoesOn
<1>2. ASSUME NEW f \in Files, Read(f) PROVE GoesOn
  <2>1. at \in Reading /\ f \in unread
        /\ (at' = "rejected" \/ (at' = at /\ unread' = unread \ {f}))
    BY <1>2, Zenon DEF Read, Reject
  <2>2. CASE at' = "rejected"
    BY <2>1, <2>2, StageAt, StageNext DEF GoesOn, Reading, Hashing
  <2> QED
    BY <2>1, <2>2 DEF GoesOn
<1>3. CASE Hashed
  BY <1>3, StageAt, StageNext DEF Hashed, GoesOn
<1>4. CASE Evaluated
  <2>1. at = "evaluating" /\ at' \in {"done", "think"}
    BY <1>4 DEF Evaluated
  <2> QED
    BY <2>1, StageAt, StageNext DEF GoesOn
<1> QED
  BY <1>1, <1>2, <1>3, <1>4

\* From the proposal on.
LEMMA RepairGoesOn ==
    ASSUME \/ \E answer \in Proposals : Propose(answer)
           \/ RemediatorRaises \/ BaseChecked \/ Guard \/ Scan \/ Copied
           \/ Write \/ Rehash \/ Reevaluate \/ EvaluatorRaises
    PROVE  GoesOn
<1>1. ASSUME NEW answer \in Proposals, Propose(answer) PROVE GoesOn
  <2>1. at = "think" /\ at' \in {"check", "rejected"}
    BY <1>1 DEF Propose, Reject
  <2> QED
    BY <2>1, StageAt, StageNext DEF GoesOn
<1>2. CASE RemediatorRaises
  BY <1>2, StageAt, StageNext DEF RemediatorRaises, Reject, GoesOn
<1>3. CASE BaseChecked
  <2>1. at = "checking" /\ at' \in {"guard", "rejected"}
    BY <1>3 DEF BaseChecked, Reject
  <2> QED
    BY <2>1, StageAt, StageNext DEF GoesOn
<1>4. CASE Guard
  <2>1. at = "guard" /\ at' \in {"scan", "rejected"}
    BY <1>4 DEF Guard, Reject
  <2> QED
    BY <2>1, StageAt, StageNext DEF GoesOn
<1>5. CASE Copied
  BY <1>5, StageAt, StageNext DEF Copied, GoesOn
<1>6. CASE Write
  <2>1. at = "write" /\ at' \in {"rehash", "rejected"}
    BY <1>6 DEF Write, Reject
  <2> QED
    BY <2>1, StageAt, StageNext DEF GoesOn
<1>7. CASE Rehash
  <2>1. at = "rehash" /\ at' \in {"reevaluate", "rejected"}
    BY <1>7 DEF Rehash, Reject
  <2> QED
    BY <2>1, StageAt, StageNext DEF GoesOn
<1>8. CASE Reevaluate
  BY <1>8, StageAt, StageNext DEF Reevaluate, GoesOn
<1>9. CASE EvaluatorRaises
  <2>1. at \in {"evaluating", "reevaluate"} /\ at' = "rejected"
    BY <1>9 DEF EvaluatorRaises, Reject
  <2> QED
    BY <2>1, StageAt, StageNext DEF GoesOn
<1>10. CASE Scan
  BY <1>10, StageAt, StageNext DEF Scan, GoesOn
<1> QED
  BY <1>1, <1>2, <1>3, <1>4, <1>5, <1>6, <1>7, <1>8, <1>9, <1>10

\* A run is not stopped and not taken back by what others do to the files while it
\* reads them: each of its own steps leaves fewer stages or fewer files of the list
\* taken when the read began, and a step of others leaves the run as it is
\* (service.py:76-109, 143-191).
THEOREM RunGoesForward ==
    Spec => [][\/ GoesOn
               \/ UNCHANGED run /\ \E f \in Files : Edit(f)]_vars
<1>1. [Next]_vars => [GoesOn \/ (UNCHANGED run /\ \E f \in Files : Edit(f))]_vars
  <2> SUFFICES ASSUME Next, vars' # vars
               PROVE  GoesOn \/ (UNCHANGED run /\ \E f \in Files : Edit(f))
    OBVIOUS
  <2>1. CASE List \/ (\E f \in Files : Read(f)) \/ Hashed \/ Evaluated
    BY <2>1, ReadingGoesOn
  <2>2. CASE \/ \E answer \in Proposals : Propose(answer)
             \/ RemediatorRaises \/ BaseChecked \/ Guard \/ Scan \/ Copied
             \/ Write \/ Rehash \/ Reevaluate \/ EvaluatorRaises
    BY <2>2, RepairGoesOn
  <2>3. ASSUME NEW f \in Files, Edit(f)
        PROVE  UNCHANGED run /\ \E g \in Files : Edit(g)
    <3>1. UNCHANGED run
      BY <2>3 DEF Edit
    <3> QED
      BY <2>3, <3>1
  <2>4. ~Ended
    BY DEF Ended
  <2> QED
    BY <2>1, <2>2, <2>3, <2>4, Zenon DEF Next
<1> QED
  BY <1>1, PTL DEF Spec
=============================================================================
