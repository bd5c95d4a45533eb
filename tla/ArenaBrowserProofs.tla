------------------------- MODULE ArenaBrowserProofs -------------------------
(***************************************************************************)
(* What a visitor may rely on, for any number of scenarios, buttons under  *)
(* way and edits, and for every order of the answers.                      *)
(*                                                                         *)
(* The argument: a verdict is on the page only together with the card that *)
(* shows it, and the card's hashes are those of the candidate at the       *)
(* moment, because a new candidate takes the verdict away (ShownTogether). *)
(* A proof that is checked is therefore compared with what is shown,       *)
(* whichever request it answers.  That there is a candidate when a verdict *)
(* arrives follows from the requests: one is sent only with a candidate,   *)
(* and a candidate is never taken back (AskedOfACandidate).                *)
(***************************************************************************)
EXTENDS ArenaBrowser, Integers, TLAPS

\* The requests under way, each with the argument and the answers of its tool.
Sent ==
    [tool : {"propose"}, arg : Scenarios, answer : {None, Failed} \union Proposals]
      \union [tool : {"rebuild"}, arg : Proposals, answer : {None, Failed} \union Candidates]
      \union [tool : {"reverify"}, arg : Candidates, answer : {None, Failed} \union Results]
      \union [tool : {"verify"}, arg : Scenarios, answer : {None, Failed} \union Proofs]
      \union [tool : {"run_attack"}, arg : Attacks, answer : {None, Failed} \union Reports]
      \union [tool : DemoTools \ {"run_attack"}, arg : {None},
              answer : {None, Failed} \union Reports]

PageTyped ==
    /\ proposal \in Proposals \union {None}
    /\ candidate \in Candidates \union {None}
    /\ reverify \in Results \union {None} /\ rail \in Results \union {None}
    /\ humanProof \in Proofs \union {None}
    /\ card \in [visible : BOOLEAN, old : Scenarios \union {None},
                 new : Sources \union {None}, verdict : Results \union {None},
                 status : Statuses]

GuidedTyped ==
    guided \in [at : DOMAIN GuidedSteps, aborted : BOOLEAN,
                phase : {"off", "pause", "waiting", "shown"}]

AskedOfACandidate ==
    \A i \in Slots :
        request[i] # None /\ request[i].tool \in {"reverify", "verify"} => candidate # None

ShownTogether ==
    reverify # None =>
        /\ candidate # None
        /\ card.visible /\ card.verdict = reverify
        /\ card.new = candidate.source /\ card.old = candidate.scenario

IInv ==
    /\ version \in [Scenarios -> 0..MaxVersion]
    /\ request \in [Slots -> Sent \union {None}]
    /\ PageTyped /\ GuidedTyped
    /\ AskedOfACandidate /\ ShownTogether
    /\ VerifiedIsWhatIsShown

-----------------------------------------------------------------------------
(* What the parts of a step keep.                                          *)

LEMMA SentIsSomething == \A r \in Sent : r # None
<1>1. Sent \subseteq Requests
  BY DEF Sent, Requests, Tools, DemoTools
<1>2. QED
  BY <1>1, NullAssumption

\* A request is sent with an argument of its tool.
LEMMA SentTyped ==
    ASSUME NEW i \in Slots, NEW tool \in Tools, Call(i, tool),
           PageTyped, request \in [Slots -> Sent \union {None}]
    PROVE  /\ request' \in [Slots -> Sent \union {None}]
           /\ request' = [request EXCEPT ![i] = request'[i]]
           /\ request'[i] \in Sent /\ request'[i].tool = tool
           /\ tool \in {"reverify", "verify"} => candidate # None
<1>1. ASSUME NEW arg, Send(i, tool, arg), [tool |-> tool, arg |-> arg, answer |-> None] \in Sent
      PROVE  /\ request' \in [Slots -> Sent \union {None}]
             /\ request' = [request EXCEPT ![i] = request'[i]]
             /\ request'[i] \in Sent /\ request'[i].tool = tool
  BY <1>1 DEF Send
<1>2. CASE tool = "propose"
  <2>1. PICK s \in Scenarios : Send(i, tool, s)
    BY <1>2 DEF Call
  <2>2. [tool |-> tool, arg |-> s, answer |-> None] \in Sent
    BY <1>2 DEF Sent
  <2>3. QED
    BY <1>1, <1>2, <2>1, <2>2
<1>3. CASE tool = "rebuild"
  <2>1. proposal \in Proposals /\ Send(i, tool, proposal)
    BY <1>3 DEF Call, PageTyped
  <2>2. [tool |-> tool, arg |-> proposal, answer |-> None] \in Sent
    BY <1>3, <2>1 DEF Sent
  <2>3. QED
    BY <1>1, <1>3, <2>1, <2>2
<1>4. CASE tool = "reverify"
  <2>1. candidate \in Candidates /\ candidate # None /\ Send(i, tool, candidate)
    BY <1>4 DEF Call, PageTyped
  <2>2. [tool |-> tool, arg |-> candidate, answer |-> None] \in Sent
    BY <1>4, <2>1 DEF Sent
  <2>3. QED
    BY <1>1, <2>1, <2>2
<1>5. CASE tool = "verify"
  <2>1. reverify \in Results /\ candidate # None /\ Send(i, tool, reverify.proof)
    BY <1>5 DEF Call, PageTyped
  <2>2. reverify.proof \in Scenarios
    BY <2>1 DEF Results
  <2>3. [tool |-> tool, arg |-> reverify.proof, answer |-> None] \in Sent
    BY <1>5, <2>2 DEF Sent
  <2>4. QED
    BY <1>1, <2>1, <2>3
<1>6. QED
  BY <1>2, <1>3, <1>4, <1>5 DEF Tools

\* Sending leaves what is shown alone, except that a check under way is shown as
\* one.
LEMMA CallKeepsPage ==
    ASSUME IInv, NEW i \in Slots, NEW tool \in Tools, Call(i, tool)
    PROVE  PageTyped' /\ ShownTogether' /\ VerifiedIsWhatIsShown' /\ candidate' = candidate
<1>1. CASE UNCHANGED page
  BY <1>1 DEF page, IInv, PageTyped, ShownTogether, VerifiedIsWhatIsShown
<1>2. CASE /\ card' = [card EXCEPT !.status = "VERIFYING"]
           /\ UNCHANGED <<proposal, candidate, reverify, humanProof, rail>>
  <2>1. /\ card'.status = "VERIFYING" /\ card'.visible = card.visible
        /\ card'.verdict = card.verdict /\ card'.new = card.new /\ card'.old = card.old
    BY <1>2 DEF IInv, PageTyped
  <2>2. PageTyped'
    BY <1>2 DEF IInv, PageTyped, Statuses
  <2>3. QED
    BY <1>2, <2>1, <2>2 DEF IInv, ShownTogether, VerifiedIsWhatIsShown
<1>3. QED
  BY <1>1, <1>2 DEF Call

\* The demo's own tools are called with an attack or without an argument.
LEMMA GuidedSentTyped ==
    ASSUME NEW tool \in Tools \union DemoTools, GuidedSend(tool),
           PageTyped, request \in [Slots -> Sent \union {None}]
    PROVE  /\ request' \in [Slots -> Sent \union {None}]
           /\ request' = [request EXCEPT !["demo"] = request'["demo"]]
           /\ request'["demo"] \in Sent /\ request'["demo"].tool = tool
           /\ tool \in {"reverify", "verify"} => candidate # None
           /\ tool = "run_attack" => request'["demo"].arg.attack = 1
<1>1. "demo" \in Slots
  BY DEF Slots
<1>2. CASE Call("demo", tool)
  <2>1. tool \in Tools
    BY <1>2 DEF Call, Tools
  <2>2. tool # "run_attack"
    BY <2>1 DEF Tools
  <2>3. QED
    BY <1>1, <1>2, <2>1, <2>2, SentTyped
<1>3. CASE /\ tool \in DemoTools /\ (tool = "run_attack" => NumAttacks > 0)
           /\ Send("demo", tool, IF tool = "run_attack" THEN [attack |-> 1] ELSE None)
  <2> DEFINE arg == IF tool = "run_attack" THEN [attack |-> 1] ELSE None
             r == [tool |-> tool, arg |-> arg, answer |-> None]
  <2>1. r \in Sent
    <3>1. CASE tool = "run_attack"
      <4>1. 1 \in 1..NumAttacks
        BY <1>3, <3>1, ArenaAssumption
      <4>2. [attack |-> 1] \in Attacks
        BY <4>1 DEF Attacks
      <4>3. QED
        BY <3>1, <4>2 DEF Sent
    <3>2. CASE tool # "run_attack"
      BY <1>3, <3>2 DEF Sent
    <3>3. QED
      BY <3>1, <3>2
  <2>2. request' = [request EXCEPT !["demo"] = r]
    BY <1>3 DEF Send
  <2>3. r.tool = tool /\ (tool = "run_attack" => r.arg.attack = 1)
    OBVIOUS
  <2>4. tool \notin {"reverify", "verify"}
    BY <1>3 DEF DemoTools
  <2> HIDE DEF r
  <2>5. request'["demo"] = r
    BY <1>1, <2>2
  <2>6. QED
    BY <2>1, <2>2, <2>3, <2>4, <2>5
<1>4. QED
  BY <1>2, <1>3 DEF GuidedSend

LEMMA GuidedSendKeepsPage ==
    ASSUME IInv, NEW tool \in Tools \union DemoTools, GuidedSend(tool)
    PROVE  PageTyped' /\ ShownTogether' /\ VerifiedIsWhatIsShown' /\ candidate' = candidate
<1>1. CASE Call("demo", tool)
  BY <1>1, CallKeepsPage DEF Slots, Call, Tools
<1>2. CASE UNCHANGED page
  BY <1>2 DEF page, IInv, PageTyped, ShownTogether, VerifiedIsWhatIsShown
<1>3. QED
  BY <1>1, <1>2 DEF GuidedSend

\* Once there is a candidate, requests of one may be sent.
LEMMA AskingStays ==
    ASSUME IInv, NEW i \in Slots, NEW r, request' = [request EXCEPT ![i] = r],
           r # None /\ r.tool \in {"reverify", "verify"} => candidate # None,
           candidate # None => candidate' # None
    PROVE  AskedOfACandidate'
<1>1. \A j \in Slots : request'[j] = IF j = i THEN r ELSE request[j]
  BY DEF IInv
<1>2. QED
  BY <1>1 DEF IInv, AskedOfACandidate

\* What the server answers fits the request.
LEMMA AnswersTyped ==
    ASSUME NEW r \in Sent, NEW a \in Answers(r), version \in [Scenarios -> 0..MaxVersion]
    PROVE  /\ [r EXCEPT !.answer = a] \in Sent
           /\ a \in {Failed} \union Proposals \union Candidates \union Results \union Proofs
                        \union Reports
<1>1. \A s \in Scenarios : SourceNow(s) \in Sources
  BY DEF SourceNow, Sources
<1>2. CASE a = Failed
  BY <1>2 DEF Sent
<1>3. CASE a # Failed /\ r.tool = "propose"
  <2>1. r \in [tool : {"propose"}, arg : Scenarios, answer : {None, Failed} \union Proposals]
    BY <1>3 DEF Sent, DemoTools
  <2>2. a = [scenario |-> r.arg, target |-> SourceNow(r.arg)]
    BY <1>3 DEF Answers
  <2>3. a \in Proposals
    BY <1>1, <2>1, <2>2 DEF Proposals
  <2>4. QED
    BY <2>1, <2>3 DEF Sent
<1>4. CASE a # Failed /\ r.tool = "rebuild"
  <2>1. r \in [tool : {"rebuild"}, arg : Proposals, answer : {None, Failed} \union Candidates]
    BY <1>4 DEF Sent, DemoTools
  <2>2. a = [scenario |-> r.arg.scenario, source |-> r.arg.target]
    BY <1>4 DEF Answers
  <2>3. a \in Candidates
    BY <2>1, <2>2 DEF Candidates, Proposals
  <2>4. QED
    BY <2>1, <2>3 DEF Sent
<1>5. CASE a # Failed /\ r.tool = "reverify"
  <2>1. r \in [tool : {"reverify"}, arg : Candidates, answer : {None, Failed} \union Results]
    BY <1>5 DEF Sent, DemoTools
  <2>2. a = [proof |-> r.arg.scenario, source |-> r.arg.source]
    BY <1>5 DEF Answers
  <2>3. a \in Results
    BY <2>1, <2>2 DEF Candidates, Results
  <2>4. QED
    BY <2>1, <2>3 DEF Sent
<1>6. CASE a # Failed /\ r.tool = "verify"
  <2>1. r \in [tool : {"verify"}, arg : Scenarios, answer : {None, Failed} \union Proofs]
    BY <1>6 DEF Sent, DemoTools
  <2>2. PICK b \in BOOLEAN : a = [proof |-> r.arg, source |-> SourceNow(r.arg), sound |-> b]
    BY <1>6 DEF Answers
  <2>3. a \in Proofs
    BY <1>1, <2>1, <2>2 DEF Proofs
  <2>4. QED
    BY <2>1, <2>3 DEF Sent
<1>7. CASE a # Failed /\ r.tool \in DemoTools
  <2>1. a \in Reports
    <3>1. r.tool \notin Tools
      BY <1>7 DEF DemoTools, Tools
    <3>2. [escape |-> FALSE] \in Reports
      BY DEF Reports
    <3>3. a \in Reports \union {[escape |-> FALSE]}
      BY <1>7, <3>1 DEF Answers, Tools
    <3>4. QED
      BY <3>2, <3>3
  <2>2. [r EXCEPT !.answer = a] \in Sent
    <3>1. CASE r.tool = "run_attack"
      <4>1. r \in [tool : {"run_attack"}, arg : Attacks, answer : {None, Failed} \union Reports]
        BY <3>1 DEF Sent
      <4>2. QED
        BY <2>1, <4>1 DEF Sent
    <3>2. CASE r.tool # "run_attack"
      <4>1. r \in [tool : DemoTools \ {"run_attack"}, arg : {None},
                   answer : {None, Failed} \union Reports]
        BY <1>7, <3>2 DEF Sent, DemoTools
      <4>2. QED
        BY <2>1, <4>1 DEF Sent
    <3>3. QED
      BY <3>1, <3>2
  <2>3. QED
    BY <2>1, <2>2
<1>8. r.tool \in {"propose", "rebuild", "reverify", "verify"} \union DemoTools
  BY DEF Sent, DemoTools
<1>9. QED
  BY <1>2, <1>3, <1>4, <1>5, <1>6, <1>7, <1>8

\* What is rendered is what the request asked for, or its failure.
LEMMA RenderedTyped ==
    ASSUME NEW r \in Sent, r.answer # None
    PROVE  \/ r.answer = Failed
           \/ r.tool = "propose" /\ r.answer \in Proposals
           \/ r.tool = "rebuild" /\ r.answer \in Candidates
           \/ r.tool = "reverify" /\ r.answer \in Results
           \/ r.tool = "verify" /\ r.answer \in Proofs
           \/ r.tool \in DemoTools
BY DEF Sent, DemoTools

\* What a step sends next is a request of its own tools, and fewer are left.
LEMMA RequestsLeftTyped ==
    ASSUME NEW r \in Sent, r # None
    PROVE  /\ RequestsLeft(r) \in Nat /\ RequestsLeft(r) >= 1
           /\ r.tool = "run_attack" => RequestsLeft(r) = 1 + NumAttacks - r.arg.attack
<1>1. CASE r.tool = "run_attack"
  <2>1. r.arg.attack \in 1..NumAttacks
    BY <1>1 DEF Sent, Attacks
  <2>2. RequestsLeft(r) = 1 + NumAttacks - r.arg.attack
    BY <1>1 DEF RequestsLeft
  <2>3. QED
    BY <2>1, <2>2, ArenaAssumption
<1>2. CASE r.tool # "run_attack"
  BY <1>2 DEF RequestsLeft
<1>3. QED
  BY <1>1, <1>2

LEMMA FollowingTyped ==
    ASSUME NEW r \in Sent, r # None
    PROVE  /\ Following(r) \in Sent \union {None}
           /\ Following(r) # None =>
                 /\ Following(r).tool \in DemoTools /\ Following(r).answer = None
                 /\ RequestsLeft(Following(r)) < RequestsLeft(r)
<1>1. CASE r.answer # Failed /\ r.tool = "run_attack" /\ r.arg.attack < NumAttacks
  <2> DEFINE next == [tool |-> "run_attack", arg |-> [attack |-> r.arg.attack + 1],
                      answer |-> None]
  <2>1. Following(r) = next
    BY <1>1 DEF Following
  <2>2. r.arg.attack \in 1..NumAttacks
    BY <1>1 DEF Sent, Attacks
  <2>3. r.arg.attack + 1 \in 1..NumAttacks
    BY <1>1, <2>2, ArenaAssumption
  <2>4. [attack |-> r.arg.attack + 1] \in Attacks
    BY <2>3 DEF Attacks
  <2>5. next \in Sent
    BY <2>4 DEF Sent
  <2>6. next # None => RequestsLeft(next) = NumAttacks - r.arg.attack
    BY <2>2, ArenaAssumption DEF RequestsLeft
  <2>7. RequestsLeft(r) = 1 + NumAttacks - r.arg.attack
    BY <1>1, RequestsLeftTyped
  <2>8. QED
    BY <2>1, <2>2, <2>5, <2>6, <2>7, ArenaAssumption DEF DemoTools
<1>2. CASE /\ r.answer # Failed /\ r.tool = "find_counterexamples" /\ r.answer.escape
  <2> DEFINE next == [tool |-> "minimize_counterexample", arg |-> None, answer |-> None]
  <2>1. Following(r) = next
    BY <1>2 DEF Following
  <2>2. next \in Sent
    BY DEF Sent, DemoTools
  <2>3. next # None => RequestsLeft(next) = 1
    BY DEF RequestsLeft
  <2>4. RequestsLeft(r) = 2
    BY <1>2 DEF RequestsLeft
  <2>5. QED
    BY <2>1, <2>2, <2>3, <2>4 DEF DemoTools
<1>3. CASE Following(r) = None
  BY <1>3
<1>4. QED
  BY <1>1, <1>2, <1>3 DEF Following

\* A card without a verdict says nothing of a candidate.
LEMMA HiddenTyped == Hidden \in [visible : BOOLEAN, old : Scenarios \union {None},
                                 new : Sources \union {None}, verdict : Results \union {None},
                                 status : Statuses]
BY DEF Hidden, Statuses

LEMMA HidingKeepsPage ==
    ASSUME IInv, HideCard, UNCHANGED rail,
           proposal' \in Proposals \union {None}, candidate' \in Candidates \union {None}
    PROVE  PageTyped' /\ ShownTogether' /\ VerifiedIsWhatIsShown'
<1>1. card' = Hidden /\ card'.status = "UNVERIFIED BY HUMAN" /\ reverify' = None /\ humanProof' = None
  BY DEF HideCard, Hidden
<1>2. PageTyped'
  BY <1>1, HiddenTyped DEF IInv, PageTyped
<1>3. QED
  BY <1>1, <1>2 DEF ShownTogether, VerifiedIsWhatIsShown

\* A status other than a verification changes nothing of what is shown.
LEMMA ShowKeepsPage ==
    ASSUME IInv, NEW status \in Statuses, Show(status), status # "VERIFIED BY HUMAN",
           humanProof' \in Proofs \union {None},
           UNCHANGED <<proposal, candidate, reverify, rail>>
    PROVE  PageTyped' /\ ShownTogether' /\ VerifiedIsWhatIsShown'
<1>1. /\ card'.status = status /\ card'.visible = card.visible
      /\ card'.verdict = card.verdict /\ card'.new = card.new /\ card'.old = card.old
  BY DEF Show, IInv, PageTyped
<1>2. PageTyped'
  BY DEF Show, IInv, PageTyped
<1>3. QED
  BY <1>1, <1>2 DEF IInv, ShownTogether, VerifiedIsWhatIsShown

\* The verdict and the card that shows it appear together (arena.js 256-277).
LEMMA VerdictKeepsPage ==
    ASSUME IInv, NEW x \in Results, RenderReverify(x), candidate # None
    PROVE  PageTyped' /\ ShownTogether' /\ VerifiedIsWhatIsShown'
<1>1. /\ card' = [visible |-> TRUE, verdict |-> x, status |-> "UNVERIFIED BY HUMAN",
                  old |-> candidate.scenario, new |-> candidate.source]
      /\ reverify' = x /\ humanProof' = None /\ rail' = x
      /\ UNCHANGED <<proposal, candidate>>
  BY DEF RenderReverify
<1>2. candidate.scenario \in Scenarios /\ candidate.source \in Sources
  BY DEF IInv, PageTyped, Candidates
<1>3. PageTyped'
  BY <1>1, <1>2 DEF IInv, PageTyped, Statuses
<1>4. QED
  BY <1>1, <1>3 DEF ShownTogether, VerifiedIsWhatIsShown

\* Only a sound proof of the source that is shown, with its verdict still there,
\* is shown as verified (arena.js 288-315).
LEMMA ProofKeepsPage ==
    ASSUME IInv, NEW x \in Proofs, x # None, CheckProof(x)
    PROVE  PageTyped' /\ ShownTogether' /\ VerifiedIsWhatIsShown'
<1> DEFINE verified == /\ x.source = candidate.source /\ reverify # None
                       /\ x.source = reverify.source /\ x.sound
<1>1. /\ Show(IF verified THEN "VERIFIED BY HUMAN" ELSE "VERIFICATION FAILED")
      /\ humanProof' = x \/ (~verified /\ humanProof' = humanProof)
      /\ UNCHANGED <<proposal, candidate, reverify, rail>>
  <2> DEFINE rebuilt == x.source = candidate.source
             throws  == rebuilt /\ reverify = None
             matches == rebuilt /\ ~throws /\ x.source = reverify.source
  <2>1. /\ humanProof' = IF throws THEN humanProof ELSE x
        /\ Show(IF matches /\ x.sound THEN "VERIFIED BY HUMAN" ELSE "VERIFICATION FAILED")
        /\ UNCHANGED <<proposal, candidate, reverify, rail>>
    BY DEF CheckProof
  <2>2. (matches /\ x.sound) <=> verified
    BY DEF Proofs
  <2>3. throws => ~verified
    OBVIOUS
  <2>4. CASE verified
    BY <2>1, <2>2, <2>3, <2>4
  <2>5. CASE ~verified
    BY <2>1, <2>2, <2>3, <2>5
  <2>6. QED
    BY <2>4, <2>5
<1>2. humanProof' \in Proofs \union {None}
  BY <1>1 DEF IInv, PageTyped
<1>3. CASE ~verified
  BY <1>1, <1>2, <1>3, ShowKeepsPage DEF Statuses
<1>4. CASE verified
  <2>1. card' = [card EXCEPT !.status = "VERIFIED BY HUMAN"] /\ humanProof' = x
    BY <1>1, <1>4 DEF Show
  <2>2. /\ card'.visible = card.visible /\ card'.verdict = card.verdict
        /\ card'.new = card.new /\ card'.old = card.old
    BY <2>1 DEF IInv, PageTyped
  <2>3. PageTyped'
    BY <1>1, <1>2, <2>1 DEF IInv, PageTyped, Statuses
  <2>4. ShownTogether' /\ card.visible /\ card.verdict = reverify
        /\ card.new = candidate.source /\ card.old = candidate.scenario
    BY <1>1, <1>4, <2>2 DEF IInv, ShownTogether
  <2>5. QED
    BY <1>1, <1>4, <2>1, <2>2, <2>3, <2>4 DEF VerifiedIsWhatIsShown
<1>5. QED
  BY <1>3, <1>4

LEMMA RenderKeepsPage ==
    ASSUME IInv, NEW i \in Slots, request[i] # None, request[i].answer # None,
           Render(request[i])
    PROVE  /\ PageTyped' /\ ShownTogether' /\ VerifiedIsWhatIsShown'
           /\ candidate # None => candidate' # None
<1> DEFINE r == request[i]
<1>1. r \in Sent /\ r.answer # None
  BY DEF IInv
<1>2. r.tool \in {"reverify", "verify"} => candidate # None
  BY DEF IInv, AskedOfACandidate
<1>3. Render(r)
  OBVIOUS
<1> HIDE DEF r
<1>4. CASE r.answer = Failed
  <2>1. RenderError(r.tool)
    BY <1>3, <1>4 DEF Render
  <2>2. CASE UNCHANGED page
    BY <2>2 DEF page, IInv, PageTyped, ShownTogether, VerifiedIsWhatIsShown
  <2>3. CASE Show("VERIFICATION FAILED")
             /\ UNCHANGED <<proposal, candidate, reverify, humanProof, rail>>
    BY <2>3, ShowKeepsPage DEF IInv, PageTyped, Statuses
  <2>4. QED
    BY <2>1, <2>2, <2>3 DEF RenderError
<1>5. CASE r.answer # Failed /\ r.tool = "propose" /\ r.answer \in Proposals
  <2>1. RenderProposal(r.answer)
    BY <1>3, <1>5 DEF Render, DemoTools
  <2>2. QED
    BY <1>5, <2>1, HidingKeepsPage DEF RenderProposal, IInv, PageTyped
<1>6. CASE r.answer # Failed /\ r.tool = "rebuild" /\ r.answer \in Candidates
  <2>1. RenderCandidate(r.answer)
    BY <1>3, <1>6 DEF Render, DemoTools
  <2>2. r.answer # None
    BY <1>1
  <2>3. PageTyped' /\ ShownTogether' /\ VerifiedIsWhatIsShown'
    BY <1>6, <2>1, HidingKeepsPage DEF RenderCandidate, IInv, PageTyped
  <2>4. QED
    BY <2>1, <2>2, <2>3 DEF RenderCandidate
<1>7. CASE r.answer # Failed /\ r.tool = "reverify" /\ r.answer \in Results
  <2>1. RenderReverify(r.answer)
    BY <1>3, <1>7 DEF Render, DemoTools
  <2>2. QED
    BY <1>2, <1>7, <2>1, VerdictKeepsPage DEF RenderReverify
<1>8. CASE r.answer # Failed /\ r.tool = "verify" /\ r.answer \in Proofs
  <2>1. CheckProof(r.answer)
    BY <1>3, <1>8 DEF Render, DemoTools
  <2>2. QED
    BY <1>1, <1>8, <2>1, ProofKeepsPage DEF CheckProof
<1>9. CASE r.answer # Failed /\ r.tool \in DemoTools
  <2>1. UNCHANGED page
    BY <1>3, <1>9 DEF Render
  <2>2. QED
    BY <2>1 DEF page, IInv, PageTyped, ShownTogether, VerifiedIsWhatIsShown
<1>10. QED
  BY <1>1, <1>4, <1>5, <1>6, <1>7, <1>8, <1>9, RenderedTyped

-----------------------------------------------------------------------------
(* The invariant, one action at a time.                                    *)

LEMMA InitInv == Init => IInv
<1> SUFFICES ASSUME Init PROVE IInv
  OBVIOUS
<1>1. version \in [Scenarios -> 0..MaxVersion]
  BY ArenaAssumption DEF Init
<1>2. request \in [Slots -> Sent \union {None}] /\ \A i \in Slots : request[i] = None
  BY DEF Init
<1>3. PageTyped /\ card.status = "UNVERIFIED BY HUMAN"
  BY HiddenTyped DEF Init, PageTyped, Hidden
<1>4. GuidedTyped
  BY DEF Init, GuidedTyped, GuidedSteps
<1>5. ShownTogether
  BY DEF Init, ShownTogether
<1>6. QED
  BY <1>1, <1>2, <1>3, <1>4, <1>5 DEF IInv, AskedOfACandidate, VerifiedIsWhatIsShown

LEMMA CallInv ==
    ASSUME IInv, NEW i \in Slots, NEW tool \in Tools, Call(i, tool), UNCHANGED version,
           GuidedTyped'
    PROVE  IInv'
<1>1. /\ PageTyped' /\ ShownTogether' /\ VerifiedIsWhatIsShown' /\ candidate' = candidate
  BY CallKeepsPage
<1>2. /\ request' \in [Slots -> Sent \union {None}]
      /\ request' = [request EXCEPT ![i] = request'[i]]
      /\ request'[i].tool \in {"reverify", "verify"} => candidate # None
  BY SentTyped DEF IInv
<1>3. AskedOfACandidate'
  BY <1>1, <1>2, AskingStays
<1>4. QED
  BY <1>1, <1>2, <1>3 DEF IInv

LEMMA ClickInv ==
    ASSUME IInv, NEW i \in Clicks, NEW tool \in Tools, Click(i, tool) PROVE IInv'
<1>1. i \in Slots /\ GuidedTyped'
  BY DEF Slots, Click, IInv, GuidedTyped
<1>2. QED
  BY <1>1, CallInv DEF Click

LEMMA AnswerInv == ASSUME IInv, NEW i \in Slots, Answer(i) PROVE IInv'
<1>1. PICK a \in Answers(request[i]) : request' = [request EXCEPT ![i].answer = a]
  BY DEF Answer
<1> DEFINE r == [request[i] EXCEPT !.answer = a]
<1>2. request[i] \in Sent /\ request[i] # None
  BY DEF IInv, Answer
<1>3. r \in Sent /\ r.tool = request[i].tool
  <2>1. r \in Sent
    BY <1>1, <1>2, AnswersTyped DEF IInv
  <2>2. r.tool = request[i].tool
    BY <1>2 DEF Sent
  <2>3. QED
    BY <2>1, <2>2
<1>4. request' = [request EXCEPT ![i] = r]
  BY <1>1 DEF IInv
<1>5. UNCHANGED <<version, page, guided>>
  BY DEF Answer
<1> HIDE DEF r
<1>6. PageTyped' /\ GuidedTyped' /\ ShownTogether' /\ VerifiedIsWhatIsShown'
  <2>1. PageTyped /\ GuidedTyped /\ ShownTogether /\ VerifiedIsWhatIsShown
    BY DEF IInv
  <2>2. /\ UNCHANGED <<proposal, candidate, reverify, humanProof, rail>>
        /\ UNCHANGED card /\ UNCHANGED guided
    BY <1>5 DEF page
  <2>3. PageTyped'
    BY <2>1, <2>2 DEF PageTyped
  <2>4. GuidedTyped'
    BY <2>1, <2>2 DEF GuidedTyped
  <2>5. ShownTogether' /\ VerifiedIsWhatIsShown'
    BY <2>1, <2>2 DEF ShownTogether, VerifiedIsWhatIsShown
  <2>6. QED
    BY <2>3, <2>4, <2>5
<1>7. request' \in [Slots -> Sent \union {None}]
  BY <1>3, <1>4 DEF IInv
<1>8. AskedOfACandidate'
  BY <1>2, <1>3, <1>4, <1>5, AskingStays DEF page, IInv, AskedOfACandidate
<1>9. QED
  BY <1>5, <1>6, <1>7, <1>8 DEF IInv

LEMMA DeliverInv == ASSUME IInv, NEW i \in Slots, Deliver(i) PROVE IInv'
<1>1. /\ request[i] # None /\ request[i].answer # None /\ Render(request[i])
      /\ request' = [request EXCEPT ![i] = Following(request[i])] /\ UNCHANGED version
      /\ guided' = guided \/ guided' = [guided EXCEPT !.phase = "shown"]
  BY DEF Deliver
<1>2. /\ PageTyped' /\ ShownTogether' /\ VerifiedIsWhatIsShown'
      /\ candidate # None => candidate' # None
  BY <1>1, RenderKeepsPage
<1>3. GuidedTyped'
  BY <1>1 DEF IInv, GuidedTyped
<1>4. /\ Following(request[i]) \in Sent \union {None}
      /\ Following(request[i]) # None => Following(request[i]).tool \in DemoTools
  BY <1>1, FollowingTyped DEF IInv
<1>5. request' \in [Slots -> Sent \union {None}]
  BY <1>1, <1>4 DEF IInv
<1>6. {"reverify", "verify"} \intersect DemoTools = {}
  BY DEF DemoTools
<1>7. AskedOfACandidate'
  BY <1>1, <1>2, <1>4, <1>6, AskingStays
<1>8. QED
  BY <1>1, <1>2, <1>3, <1>5, <1>7 DEF IInv

\* The demo's own flags, and an edit of a fixture, are nothing of the page's.
LEMMA BesideThePage ==
    ASSUME IInv, UNCHANGED <<page, request>>, GuidedTyped',
           version' \in [Scenarios -> 0..MaxVersion]
    PROVE  IInv'
BY DEF page, IInv, PageTyped, AskedOfACandidate, ShownTogether, VerifiedIsWhatIsShown

LEMMA GuidedStepsTyped ==
    /\ DOMAIN GuidedSteps = 1..9 /\ Len(GuidedSteps) = 9
    /\ \A k \in 1..9 : GuidedSteps[k] \in Tools \union DemoTools
BY DEF GuidedSteps, Tools, DemoTools

LEMMA GuidedInv ==
    ASSUME IInv, GuidedStart \/ GuidedStop \/ GuidedRun \/ GuidedNext PROVE IInv'
<1>1. /\ GuidedTyped /\ DOMAIN GuidedSteps = 1..9 /\ Len(GuidedSteps) = 9
      /\ \A k \in 1..9 : GuidedSteps[k] \in Tools \union DemoTools
  BY GuidedStepsTyped DEF IInv
<1>2. version' = version /\ version' \in [Scenarios -> 0..MaxVersion]
  BY DEF IInv, GuidedStart, GuidedStop, GuidedRun, GuidedNext
<1>3. GuidedTyped'
  <2>1. CASE GuidedStart
    BY <1>1, <2>1 DEF GuidedStart, GuidedTyped
  <2>2. CASE GuidedStop
    BY <1>1, <2>2 DEF GuidedStop, GuidedTyped
  <2>3. CASE GuidedRun
    BY <1>1, <2>3 DEF GuidedRun, GuidedCall, GuidedTyped
  <2>4. CASE GuidedNext
    <3>1. guided.at # 9 => guided.at + 1 \in 1..9
      BY <1>1 DEF GuidedTyped
    <3>2. QED
      BY <1>1, <2>4, <3>1 DEF GuidedNext, GuidedTyped
  <2>5. QED
    BY <2>1, <2>2, <2>3, <2>4
<1>4. CASE UNCHANGED <<page, request>>
  BY <1>2, <1>3, <1>4, BesideThePage
<1>5. CASE GuidedSend(GuidedSteps[guided.at])
  <2>1. "demo" \in Slots /\ GuidedSteps[guided.at] \in Tools \union DemoTools
    BY <1>1 DEF Slots, GuidedTyped
  <2>2. /\ PageTyped' /\ ShownTogether' /\ VerifiedIsWhatIsShown' /\ candidate' = candidate
    BY <1>5, <2>1, GuidedSendKeepsPage
  <2>3. /\ request' \in [Slots -> Sent \union {None}]
        /\ request' = [request EXCEPT !["demo"] = request'["demo"]]
        /\ request'["demo"].tool \in {"reverify", "verify"} => candidate # None
    BY <1>5, <2>1, GuidedSentTyped DEF IInv
  <2>4. AskedOfACandidate'
    BY <2>1, <2>2, <2>3, AskingStays
  <2>5. QED
    BY <1>2, <1>3, <2>2, <2>3, <2>4 DEF IInv
<1>6. QED
  BY <1>4, <1>5 DEF GuidedStart, GuidedStop, GuidedRun, GuidedNext, GuidedCall

LEMMA EditInv == ASSUME IInv, NEW s \in Scenarios, Edit(s) PROVE IInv'
<1>1. version' \in [Scenarios -> 0..MaxVersion]
  <2>1. version[s] \in 0..MaxVersion /\ version[s] < MaxVersion
    BY DEF IInv, Edit
  <2>2. version[s] + 1 \in 0..MaxVersion
    BY <2>1, ArenaAssumption
  <2>3. QED
    BY <2>2 DEF IInv, Edit
<1>2. QED
  BY <1>1, BesideThePage DEF Edit, IInv, GuidedTyped

LEMMA NextInv == IInv /\ [Next]_vars => IInv'
<1> SUFFICES ASSUME IInv, [Next]_vars PROVE IInv'
  OBVIOUS
<1>1. CASE UNCHANGED vars
  BY <1>1, BesideThePage DEF vars, IInv, GuidedTyped
<1>2. CASE Next
  BY <1>2, ClickInv, AnswerInv, DeliverInv, GuidedInv, EditInv DEF Next
<1>3. QED
  BY <1>1, <1>2

-----------------------------------------------------------------------------
(* Theorems.                                                               *)

\* The page's state, its requests and the demo, in every reachable state
\* (arena.js 1-30).
THEOREM PageInvariant == Spec => []IInv
<1>1. Init => IInv
  BY InitInv
<1>2. IInv /\ [Next]_vars => IInv'
  BY NextInv
<1>3. QED
  BY <1>1, <1>2, PTL DEF Spec

\* Whatever arrives when, the page's fields hold what they are named for
\* (arena.js 1-30).
THEOREM PageTypeCorrect == Spec => []TypeOK
<1>1. Sent \subseteq Requests
  BY DEF Sent, Requests, Tools, DemoTools
<1>2. IInv => TypeOK
  BY <1>1 DEF IInv, PageTyped, GuidedTyped, TypeOK
<1>3. QED
  BY <1>2, PageInvariant, PTL

\* However requests overtake one another, VERIFIED BY HUMAN stands only beside
\* one candidate, its verdict and a sound proof of the same source (arena.js
\* 288-302).
THEOREM ShownTheorem == Spec => []VerifiedIsWhatIsShown
<1>1. IInv => VerifiedIsWhatIsShown
  BY DEF IInv
<1>2. QED
  BY <1>1, PageInvariant, PTL

\* What the demo has under way is its own affair: no button gives it a request, and
\* an answer leaves it fewer than before.
LEMMA DemoRequest ==
    ASSUME IInv, NEW i \in Slots, Answer(i) \/ Deliver(i)
    PROVE  IF i # "demo" THEN request'["demo"] = request["demo"]
           ELSE RequestsLeft(request'["demo"]) <= RequestsLeft(request["demo"])
<1>1. "demo" \in Slots /\ DOMAIN request = Slots
  BY DEF Slots, IInv
<1>2. CASE i # "demo"
  BY <1>1, <1>2 DEF Answer, Deliver
<1>3. CASE i = "demo"
  <2> DEFINE r == request["demo"]
  <2>1. r \in Sent /\ r # None
    BY <1>1, <1>3 DEF Answer, Deliver, IInv
  <2>2. CASE Answer(i)
    <3>1. PICK a \in Answers(r) : request' = [request EXCEPT !["demo"].answer = a]
      BY <1>3, <2>2 DEF Answer
    <3>2. request'["demo"] = [r EXCEPT !.answer = a]
      BY <1>1, <3>1
    <3>3. [r EXCEPT !.answer = a].tool = r.tool /\ [r EXCEPT !.answer = a].arg = r.arg
      BY <2>1 DEF Sent
    <3>4. [r EXCEPT !.answer = a] \in Sent
      BY <2>1, AnswersTyped DEF IInv
    <3>5. [r EXCEPT !.answer = a] # None
      BY <3>4, SentIsSomething
    <3> HIDE DEF r
    <3>6. RequestsLeft([r EXCEPT !.answer = a]) = RequestsLeft(r)
      BY <2>1, <3>3, <3>5 DEF RequestsLeft
    <3>7. QED
      BY <1>3, <2>1, <3>2, <3>6, RequestsLeftTyped DEF r
  <2>3. CASE Deliver(i)
    <3>1. request'["demo"] = Following(r)
      BY <1>1, <1>3, <2>3 DEF Deliver
    <3>2. RequestsLeft(r) \in Nat /\ RequestsLeft(r) >= 1
      BY <2>1, RequestsLeftTyped
    <3>3. CASE Following(r) = None
      BY <1>3, <3>1, <3>2, <3>3 DEF RequestsLeft
    <3>4. CASE Following(r) # None
      <4>1. Following(r) \in Sent /\ RequestsLeft(Following(r)) < RequestsLeft(r)
        BY <2>1, <3>4, FollowingTyped
      <4>2. RequestsLeft(Following(r)) \in Nat
        BY <3>4, <4>1, RequestsLeftTyped
      <4>3. QED
        BY <1>3, <3>1, <3>2, <4>1, <4>2
    <3>5. QED
      BY <3>3, <3>4
  <2>4. QED
    BY <2>2, <2>3
<1>4. QED
  BY <1>2, <1>3

\* No button and no answer starts a step of the demo, the demo looks at the flag
\* after every pause, and what it still sends once it was stopped, of the suite or
\* the counterexample it was stopped in, only becomes less (arena.js 375-388,
\* 404-411, 479-484).
THEOREM StopTheorem == Spec => StopStops
<1> DEFINE Less == RequestsLeft(request'["demo"]) <= RequestsLeft(request["demo"])
<1>1. ASSUME IInv, [Next]_vars, guided.aborted PROVE Less
  <2>1. "demo" \in Slots /\ "demo" \notin Clicks /\ DOMAIN request = Slots
    BY <1>1, ArenaAssumption DEF Slots, IInv
  <2>2. RequestsLeft(request["demo"]) \in Nat
    BY <1>1, <2>1, RequestsLeftTyped DEF IInv, RequestsLeft
  <2>3. ASSUME request'["demo"] = request["demo"] PROVE Less
    BY <2>2, <2>3
  <2>4. ASSUME NEW i \in Clicks, NEW tool \in Tools, Click(i, tool) PROVE Less
    <3>1. i \in Slots /\ Call(i, tool)
      BY <2>4 DEF Click, Slots
    <3>2. request' = [request EXCEPT ![i] = request'[i]]
      BY <1>1, <3>1, SentTyped DEF IInv
    <3>3. request'["demo"] = request["demo"]
      BY <2>1, <3>2
    <3>4. QED
      BY <2>3, <3>3
  <2>5. ASSUME NEW i \in Slots, Answer(i) \/ Deliver(i) PROVE Less
    BY <1>1, <2>3, <2>5, DemoRequest
  <2>6. ASSUME UNCHANGED request PROVE Less
    BY <2>3, <2>6
  <2>7. QED
    BY <1>1, <2>4, <2>5, <2>6
    DEF Next, vars, GuidedStart, GuidedStop, GuidedRun, GuidedNext, Edit
<1>2. IInv /\ [Next]_vars => [guided.aborted => Less]_vars
  BY <1>1
<1>3. QED
  BY <1>2, PageInvariant, PTL DEF Spec, StopStops
-----------------------------------------------------------------------------
(* Progress: what GuidedEnds and CheckResolves rest on besides fairness.    *)

\* The demo waits for exactly as long as a request of its own is under way.
DemoWaits == guided.phase = "waiting" <=> request["demo"] # None

\* A check that is shown as under way is.
CheckIsUnderWay ==
    card.status = "VERIFYING" =>
        \E i \in Slots : request[i] # None /\ request[i].tool = "verify"

LEMMA AnswersAreSomething ==
    ASSUME NEW r \in Sent, version \in [Scenarios -> 0..MaxVersion]
    PROVE  \A a \in Answers(r) : a # None
BY AnswersTyped, NullAssumption

\* A call is shown as a check only if it is one.
LEMMA CallUnderWay ==
    ASSUME IInv, CheckIsUnderWay, NEW i \in Slots, NEW tool \in Tools, Call(i, tool),
           request[i] = None
    PROVE  CheckIsUnderWay' /\ request'[i] # None
<1>1. /\ request' = [request EXCEPT ![i] = request'[i]]
      /\ request'[i] \in Sent /\ request'[i].tool = tool
  BY SentTyped DEF IInv
<1>2. request'[i] # None
  BY <1>1, SentIsSomething
<1>3. CASE tool = "verify"
  BY <1>1, <1>2, <1>3 DEF CheckIsUnderWay
<1>4. CASE tool # "verify"
  <2>1. card' = card
    BY <1>4 DEF Call, page
  <2>2. \A j \in Slots \ {i} : request'[j] = request[j]
    BY <1>1 DEF IInv
  <2>3. ASSUME NEW j \in Slots, request[j] # None
        PROVE  request'[j] = request[j]
    BY <2>2, <2>3
  <2>4. ASSUME card'.status = "VERIFYING"
        PROVE  \E j \in Slots : request'[j] # None /\ request'[j].tool = "verify"
    <3>1. PICK j \in Slots : request[j] # None /\ request[j].tool = "verify"
      BY <2>1, <2>4 DEF CheckIsUnderWay
    <3>2. request'[j] = request[j]
      BY <2>3, <3>1
    <3>3. QED
      BY <3>1, <3>2
  <2>5. QED
    BY <1>2, <2>4 DEF CheckIsUnderWay
<1>5. QED
  BY <1>2, <1>3, <1>4

\* What the demo's own tools send is no check.
LEMMA GuidedSendUnderWay ==
    ASSUME IInv, CheckIsUnderWay, NEW tool \in Tools \union DemoTools, GuidedSend(tool),
           request["demo"] = None
    PROVE  CheckIsUnderWay' /\ request'["demo"] # None
<1>1. /\ request' = [request EXCEPT !["demo"] = request'["demo"]]
      /\ request'["demo"] \in Sent
  BY GuidedSentTyped DEF IInv
<1>2. request'["demo"] # None /\ "demo" \in Slots
  BY <1>1, SentIsSomething DEF Slots
<1>3. CASE Call("demo", tool)
  BY <1>2, <1>3, CallUnderWay DEF Call, Tools
<1>4. CASE UNCHANGED page
  <2>1. \A j \in Slots \ {"demo"} : request'[j] = request[j]
    BY <1>1 DEF IInv
  <2>2. \A j \in Slots : request[j] # None => request'[j] = request[j]
    BY <2>1
  <2>3. card' = card
    BY <1>4 DEF page
  <2>4. QED
    BY <1>2, <2>2, <2>3 DEF CheckIsUnderWay
<1>5. QED
  BY <1>3, <1>4 DEF GuidedSend

\* An answer that is rendered leaves no check behind that is shown and not there.
LEMMA RenderUnderWay ==
    ASSUME IInv, CheckIsUnderWay, NEW i \in Slots, request[i] # None, Render(request[i])
    PROVE  card'.status = "VERIFYING" =>
              card.status = "VERIFYING" /\ request[i].tool # "verify"
<1> DEFINE r == request[i]
<1>1. r \in Sent /\ r.tool \in Tools \union DemoTools /\ PageTyped
  BY DEF IInv, Sent, Tools, DemoTools
<1>2. ASSUME NEW status \in Statuses, Show(status) PROVE card'.status = status
  BY <1>1, <1>2 DEF Show, PageTyped
<1>3. {"VERIFIED BY HUMAN", "VERIFICATION FAILED"} \subseteq Statuses
  BY DEF Statuses
<1>4. Hidden.status # "VERIFYING"
  BY DEF Hidden
<1> HIDE DEF r
<1>5. CASE r.answer = Failed
  <2>1. RenderError(r.tool)
    BY <1>5 DEF Render, r
  <2>2. CASE r.tool = "verify"
    BY <1>2, <1>3, <2>1, <2>2 DEF RenderError
  <2>3. CASE r.tool # "verify"
    BY <2>1, <2>3 DEF RenderError, page, r
  <2>4. QED
    BY <2>2, <2>3
<1>6. CASE r.answer # Failed
  <2>1. CASE r.tool = "propose"
    <3>1. RenderProposal(r.answer)
      BY <1>6, <2>1 DEF Render, DemoTools, r
    <3>2. QED
      BY <1>4, <3>1 DEF RenderProposal, HideCard
  <2>2. CASE r.tool = "rebuild"
    <3>1. RenderCandidate(r.answer)
      BY <1>6, <2>2 DEF Render, DemoTools, r
    <3>2. QED
      BY <1>4, <3>1 DEF RenderCandidate, HideCard
  <2>3. CASE r.tool = "reverify"
    <3>1. RenderReverify(r.answer)
      BY <1>6, <2>3 DEF Render, DemoTools, r
    <3>2. card'.status = "UNVERIFIED BY HUMAN"
      BY <3>1 DEF RenderReverify
    <3>3. QED
      BY <3>2
  <2>4. CASE r.tool = "verify"
    <3>1. CheckProof(r.answer)
      BY <1>6, <2>4 DEF Render, DemoTools, r
    <3>2. Show("VERIFIED BY HUMAN") \/ Show("VERIFICATION FAILED")
      BY <3>1 DEF CheckProof
    <3>3. QED
      BY <1>2, <1>3, <3>2
  <2>5. CASE r.tool \in DemoTools
    BY <1>6, <2>5 DEF Render, DemoTools, page, r
  <2>6. QED
    BY <1>1, <2>1, <2>2, <2>3, <2>4, <2>5 DEF Tools
<1>7. QED
  BY <1>5, <1>6

LEMMA DeliverUnderWay ==
    ASSUME IInv, CheckIsUnderWay, NEW i \in Slots, Deliver(i) PROVE CheckIsUnderWay'
<1>1. /\ request[i] # None /\ Render(request[i])
      /\ \A j \in Slots \ {i} : request'[j] = request[j]
  BY DEF Deliver, IInv
<1>2. card'.status = "VERIFYING" => card.status = "VERIFYING" /\ request[i].tool # "verify"
  BY <1>1, RenderUnderWay
<1>3. QED
  BY <1>1, <1>2 DEF CheckIsUnderWay

LEMMA AnswerUnderWay ==
    ASSUME IInv, NEW i \in Slots, Answer(i)
    PROVE  /\ request'[i] # None /\ request'[i].tool = request[i].tool
           /\ request'[i].answer # None
           /\ \A j \in Slots \ {i} : request'[j] = request[j]
<1>1. request[i] \in Sent /\ request[i] # None
  BY DEF IInv, Answer
<1>2. PICK a \in Answers(request[i]) : request' = [request EXCEPT ![i].answer = a]
  BY DEF Answer
<1>3. [request[i] EXCEPT !.answer = a] \in Sent
  BY <1>1, AnswersTyped DEF IInv
<1>4. request'[i] = [request[i] EXCEPT !.answer = a]
  BY <1>2 DEF IInv
<1>5. \A j \in Slots \ {i} : request'[j] = request[j]
  BY <1>2 DEF IInv
<1>6. request'[i].tool = request[i].tool /\ request'[i].answer = a
  BY <1>1, <1>4 DEF Sent
<1>7. a # None
  BY <1>1, AnswersAreSomething DEF IInv
<1>8. QED
  BY <1>3, <1>4, <1>5, <1>6, <1>7, SentIsSomething

LEMMA ProgressInit == Init => DemoWaits /\ CheckIsUnderWay
<1> SUFFICES ASSUME Init PROVE DemoWaits /\ CheckIsUnderWay
  OBVIOUS
<1>1. request["demo"] = None /\ guided.phase = "off"
  BY DEF Init, Slots
<1>2. card.status = "UNVERIFIED BY HUMAN"
  BY DEF Init, Hidden
<1>3. QED
  BY <1>1, <1>2 DEF DemoWaits, CheckIsUnderWay

LEMMA DemoInSlots == IInv => "demo" \in Slots /\ "demo" \notin Clicks
BY ArenaAssumption DEF Slots

\* The demo sends a request of its own when it starts to wait, and only then.
LEMMA GuidedUnderWay ==
    ASSUME IInv, DemoWaits, CheckIsUnderWay, GuidedRun
    PROVE  DemoWaits' /\ CheckIsUnderWay'
<1>1. /\ guided.phase = "pause" /\ request["demo"] = None
      /\ "demo" \in Slots /\ GuidedSteps[guided.at] \in Tools \union DemoTools
  BY GuidedStepsTyped DEF GuidedRun, DemoWaits, Slots, IInv, GuidedTyped
<1>2. CASE guided' = [guided EXCEPT !.phase = "off"] /\ UNCHANGED <<page, request>>
  BY <1>1, <1>2 DEF DemoWaits, CheckIsUnderWay, IInv, GuidedTyped, page
<1>3. CASE guided' = [guided EXCEPT !.phase = "shown"] /\ UNCHANGED <<page, request>>
  BY <1>1, <1>3 DEF DemoWaits, CheckIsUnderWay, IInv, GuidedTyped, page
<1>4. CASE /\ GuidedSend(GuidedSteps[guided.at])
           /\ guided' = [guided EXCEPT !.phase = "waiting"]
  <2>1. CheckIsUnderWay' /\ request'["demo"] # None
    BY <1>1, <1>4, GuidedSendUnderWay
  <2>2. guided'.phase = "waiting"
    BY <1>4 DEF IInv, GuidedTyped
  <2>3. QED
    BY <2>1, <2>2 DEF DemoWaits
<1>5. QED
  BY <1>2, <1>3, <1>4 DEF GuidedRun, GuidedCall

LEMMA ProgressNext ==
    ASSUME IInv, DemoWaits, CheckIsUnderWay, [Next]_vars
    PROVE  DemoWaits' /\ CheckIsUnderWay'
<1>1. "demo" \in Slots /\ "demo" \notin Clicks
  BY DemoInSlots
<1>2. ASSUME NEW i \in Clicks, NEW tool \in Tools, Click(i, tool)
      PROVE  DemoWaits' /\ CheckIsUnderWay'
  <2>1. /\ i \in Slots /\ i # "demo" /\ request[i] = None /\ Call(i, tool)
        /\ UNCHANGED guided
    BY <1>1, <1>2 DEF Slots, Click
  <2>2. request' = [request EXCEPT ![i] = request'[i]]
    BY <2>1, SentTyped DEF IInv
  <2>3. request'["demo"] = request["demo"]
    BY <1>1, <2>1, <2>2 DEF IInv
  <2>4. DemoWaits'
    BY <2>1, <2>3 DEF DemoWaits
  <2>5. CheckIsUnderWay'
    BY <2>1, CallUnderWay
  <2>6. QED
    BY <2>4, <2>5
<1>3. ASSUME NEW i \in Slots, Answer(i) PROVE DemoWaits' /\ CheckIsUnderWay'
  <2>1. /\ request'[i] # None /\ request'[i].tool = request[i].tool
        /\ \A j \in Slots \ {i} : request'[j] = request[j]
    BY <1>3, AnswerUnderWay
  <2>2. request[i] # None /\ UNCHANGED card /\ UNCHANGED guided
    BY <1>3 DEF Answer, page
  <2>3. \A j \in Slots : /\ request'[j] # None <=> request[j] # None
                         /\ request'[j].tool = request[j].tool
    BY <2>1, <2>2
  <2>4. DemoWaits'
    BY <1>1, <2>2, <2>3 DEF DemoWaits
  <2>5. CheckIsUnderWay'
    BY <2>2, <2>3 DEF CheckIsUnderWay
  <2>6. QED
    BY <2>4, <2>5
<1>4. ASSUME NEW i \in Slots, Deliver(i) PROVE DemoWaits' /\ CheckIsUnderWay'
  <2>1. CASE i = "demo"
    <3>1. request'["demo"] = Following(request["demo"]) /\ guided.phase = "waiting"
      BY <1>1, <1>4, <2>1 DEF Deliver, DemoWaits, IInv
    <3>2. guided'.phase = "waiting" <=> Following(request["demo"]) # None
      BY <1>4, <2>1, <3>1 DEF Deliver, IInv, GuidedTyped
    <3>3. QED
      BY <1>4, <3>1, <3>2, DeliverUnderWay DEF DemoWaits
  <2>2. CASE i # "demo"
    <3>1. guided' = guided /\ request'["demo"] = request["demo"]
      BY <1>1, <1>4, <2>2 DEF Deliver, IInv
    <3>2. QED
      BY <1>4, <3>1, DeliverUnderWay DEF DemoWaits
  <2>3. QED
    BY <2>1, <2>2
<1>5. CASE GuidedRun
  BY <1>5, GuidedUnderWay
<1>6. CASE GuidedStart \/ GuidedStop \/ GuidedNext
  <2>1. UNCHANGED request /\ UNCHANGED card
    BY <1>6 DEF GuidedStart, GuidedStop, GuidedNext, page
  <2>2. guided'.phase = "waiting" <=> guided.phase = "waiting"
    <3>1. GuidedTyped
      BY DEF IInv
    <3>2. CASE GuidedStart
      BY <3>1, <3>2 DEF GuidedStart, GuidedTyped
    <3>3. CASE GuidedStop
      BY <3>1, <3>3 DEF GuidedStop, GuidedTyped
    <3>4. CASE GuidedNext
      BY <3>1, <3>4 DEF GuidedNext, GuidedTyped
    <3>5. QED
      BY <1>6, <3>2, <3>3, <3>4
  <2>3. QED
    BY <2>1, <2>2 DEF DemoWaits, CheckIsUnderWay
<1>7. CASE UNCHANGED <<card, request, guided>>
  BY <1>7 DEF DemoWaits, CheckIsUnderWay
<1>8. QED
  BY <1>2, <1>3, <1>4, <1>5, <1>6, <1>7 DEF Next, vars, page, Edit

\* The requests a step sends if nothing fails.
ToSend(k) ==
    CASE GuidedSteps[k] = "run_attack" -> NumAttacks
      [] GuidedSteps[k] = "find_counterexamples" -> 2
      [] OTHER -> 1

\* What is left of a step of the demo: its pause, each of its requests with the
\* answer, and the pause behind it.
PhaseLeft ==
    CASE guided.phase = "pause" -> 2 + 2 * ToSend(guided.at)
      [] guided.phase = "waiting" ->
            2 * RequestsLeft(request["demo"]) + (IF request["demo"].answer = None THEN 1 ELSE 0)
      [] OTHER -> 1

\* What the steps behind step k come to: four each, two more for the counterexample
\* and two for each attack of the suite.
StepsBehind(k) ==
    4 * (9 - k) + (IF k < 5 THEN 2 ELSE 0) + (IF k < 3 THEN 2 * NumAttacks - 2 ELSE 0)

StepsLeft == IF guided.phase = "off" THEN 0 ELSE StepsBehind(guided.at) + PhaseLeft

\* What takes the demo on.
GuidedStep == GuidedRun \/ Answer("demo") \/ Deliver("demo") \/ GuidedNext

LEMMA DemoTyped ==
    IInv => /\ Len(GuidedSteps) = 9 /\ guided.at \in 1..9
            /\ guided.phase \in {"off", "pause", "waiting", "shown"}
            /\ guided = [at |-> guided.at, aborted |-> guided.aborted,
                         phase |-> guided.phase]
BY GuidedStepsTyped DEF IInv, GuidedTyped

LEMMA ToSendValue ==
    ASSUME NEW k \in 1..9
    PROVE  ToSend(k) = IF k = 3 THEN NumAttacks ELSE IF k = 5 THEN 2 ELSE 1
BY DEF ToSend, GuidedSteps

LEMMA StepsBehindTyped == ASSUME NEW k \in 1..9 PROVE StepsBehind(k) \in Nat
BY ArenaAssumption DEF StepsBehind

\* Step k + 1 costs its own pauses and requests.
LEMMA StepsBehindNext ==
    ASSUME NEW k \in 1..8 PROVE StepsBehind(k) = StepsBehind(k + 1) + 2 + 2 * ToSend(k + 1)
<1>1. ToSend(k + 1) = IF k = 2 THEN NumAttacks ELSE IF k = 4 THEN 2 ELSE 1
  BY ToSendValue
<1>2. QED
  BY <1>1, ArenaAssumption DEF StepsBehind

\* While it waits, the demo has a request under way.
LEMMA PhaseLeftTyped ==
    ASSUME IInv, DemoWaits PROVE PhaseLeft \in Nat /\ PhaseLeft >= 1
<1>1. guided.at \in 1..9 /\ guided.phase \in {"off", "pause", "waiting", "shown"}
  BY DemoTyped
<1>2. CASE guided.phase = "pause"
  <2>1. ToSend(guided.at) \in Nat
    BY <1>1, ToSendValue, ArenaAssumption
  <2>2. PhaseLeft = 2 + 2 * ToSend(guided.at)
    BY <1>2 DEF PhaseLeft
  <2>3. QED
    BY <2>1, <2>2
<1>3. CASE guided.phase = "waiting"
  <2>1. request["demo"] \in Sent /\ request["demo"] # None
    BY <1>3 DEF DemoWaits, IInv, Slots
  <2>2. RequestsLeft(request["demo"]) \in Nat /\ RequestsLeft(request["demo"]) >= 1
    BY <2>1, RequestsLeftTyped
  <2>3. PhaseLeft = 2 * RequestsLeft(request["demo"])
                      + (IF request["demo"].answer = None THEN 1 ELSE 0)
    BY <1>3 DEF PhaseLeft
  <2>4. QED
    BY <2>2, <2>3
<1>4. CASE guided.phase \in {"off", "shown"}
  BY <1>4 DEF PhaseLeft
<1>5. QED
  BY <1>1, <1>2, <1>3, <1>4

LEMMA StepsLeftTyped ==
    ASSUME IInv, DemoWaits PROVE StepsLeft \in Nat /\ (StepsLeft = 0 <=> guided.phase = "off")
<1>1. PhaseLeft \in Nat /\ PhaseLeft >= 1
  BY PhaseLeftTyped
<1>2. guided.at \in 1..9
  BY DemoTyped
<1>3. StepsBehind(guided.at) \in Nat
  BY <1>2, StepsBehindTyped
<1>4. QED
  BY <1>1, <1>3 DEF StepsLeft

LEMMA StepsLeftTypedNext ==
    (IInv /\ DemoWaits)' => (PhaseLeft \in Nat /\ StepsLeft \in Nat)'
<1>1. IInv /\ DemoWaits => PhaseLeft \in Nat /\ StepsLeft \in Nat
  BY PhaseLeftTyped, StepsLeftTyped
<1>2. QED
  BY <1>1, PTL

\* Later in the same step, or off.
LEMMA LaterInStep ==
    ASSUME IInv, DemoWaits, IInv', DemoWaits', guided.phase # "off", guided'.at = guided.at,
           guided'.phase = "off" \/ PhaseLeft' < PhaseLeft
    PROVE  StepsLeft' < StepsLeft
<1>1. StepsBehind(guided.at) \in Nat
  BY DemoTyped, StepsBehindTyped
<1>2. /\ PhaseLeft \in Nat /\ PhaseLeft >= 1 /\ PhaseLeft' \in Nat
  BY PhaseLeftTyped, StepsLeftTypedNext
<1>3. StepsLeft = StepsBehind(guided.at) + PhaseLeft
  BY DEF StepsLeft
<1>4. StepsLeft' = IF guided'.phase = "off" THEN 0 ELSE StepsBehind(guided.at) + PhaseLeft'
  BY DEF StepsLeft, StepsBehind
<1>5. QED
  BY <1>1, <1>2, <1>3, <1>4

\* The request a step begins with is the first of those it may send.
LEMMA RunGoesOn ==
    ASSUME IInv, DemoWaits, IInv', DemoWaits', GuidedRun PROVE StepsLeft' < StepsLeft
<1>1. guided.phase = "pause" /\ GuidedTyped /\ guided.at \in 1..9
  BY DemoTyped DEF GuidedRun, IInv
<1> DEFINE tool == GuidedSteps[guided.at]
<1>2. PhaseLeft = 2 + 2 * ToSend(guided.at) /\ ToSend(guided.at) \in Nat
  BY <1>1, ToSendValue, ArenaAssumption DEF PhaseLeft
<1>3. guided'.at = guided.at
  BY <1>1 DEF GuidedRun, GuidedCall, GuidedTyped
<1>4. CASE guided'.phase = "off"
  BY <1>1, <1>3, <1>4, LaterInStep
<1>5. CASE guided'.phase = "shown"
  <2>1. PhaseLeft' = 1
    BY <1>5 DEF PhaseLeft
  <2>2. QED
    BY <1>1, <1>2, <1>3, <2>1, LaterInStep
<1>6. CASE GuidedSend(tool) /\ guided'.phase = "waiting"
  <2>1. tool \in Tools \union DemoTools
    BY <1>1, GuidedStepsTyped
  <2>2. /\ request'["demo"] \in Sent /\ request'["demo"].tool = tool
        /\ tool = "run_attack" => request'["demo"].arg.attack = 1
    BY <1>6, <2>1, GuidedSentTyped DEF IInv
  <2>3. request'["demo"] # None
    BY <2>2, SentIsSomething
  <2> HIDE DEF tool
  <2>4. RequestsLeft(request'["demo"]) =
            CASE tool = "run_attack" -> NumAttacks
              [] tool = "find_counterexamples" -> 2
              [] OTHER -> 1
    BY <2>2, <2>3, ArenaAssumption DEF RequestsLeft
  <2>5. RequestsLeft(request'["demo"]) = ToSend(guided.at)
    BY <2>4 DEF ToSend, tool
  <2>6. PhaseLeft' \in {2 * ToSend(guided.at), 2 * ToSend(guided.at) + 1}
    <3>1. PhaseLeft' = 2 * RequestsLeft(request'["demo"])
                         + (IF request'["demo"].answer = None THEN 1 ELSE 0)
      BY <1>6 DEF PhaseLeft, RequestsLeft
    <3>2. QED
      BY <1>2, <2>5, <3>1
  <2>7. QED
    BY <1>1, <1>2, <1>3, <2>6, LaterInStep
<1>7. QED
  BY <1>1, <1>4, <1>5, <1>6 DEF GuidedRun, GuidedCall, GuidedTyped

LEMMA NextGoesOn == ASSUME IInv, DemoWaits, GuidedNext PROVE StepsLeft' < StepsLeft
<1>1. /\ guided.phase = "shown" /\ GuidedTyped
      /\ Len(GuidedSteps) = 9 /\ guided.at \in 1..9
  BY DemoTyped DEF GuidedNext, IInv
<1>2. StepsLeft = StepsBehind(guided.at) + 1 /\ StepsBehind(guided.at) \in Nat
  BY <1>1, StepsBehindTyped DEF StepsLeft, PhaseLeft
<1>3. CASE guided' = [guided EXCEPT !.phase = "off"]
  <2>1. StepsLeft' = 0
    BY <1>1, <1>3 DEF StepsLeft, GuidedTyped
  <2>2. QED
    BY <1>2, <2>1
<1>4. CASE /\ guided.at # 9
           /\ guided' = [guided EXCEPT !.phase = "pause", !.at = @ + 1]
  <2>1. guided'.phase = "pause" /\ guided'.at = guided.at + 1
    BY <1>1, <1>4 DEF GuidedTyped
  <2>2. StepsLeft' = StepsBehind(guided.at + 1) + (2 + 2 * ToSend(guided.at + 1))
    BY <2>1 DEF StepsLeft, PhaseLeft, StepsBehind, ToSend
  <2>3. guided.at \in 1..8 /\ guided.at + 1 \in 1..9
    BY <1>1, <1>4
  <2>4. StepsBehind(guided.at + 1) \in Nat /\ ToSend(guided.at + 1) \in Nat
    BY <2>3, StepsBehindTyped, ToSendValue, ArenaAssumption
  <2>5. StepsBehind(guided.at) = StepsBehind(guided.at + 1) + 2 + 2 * ToSend(guided.at + 1)
    BY <2>3, StepsBehindNext
  <2>6. QED
    BY <1>2, <2>2, <2>4, <2>5
<1>5. QED
  BY <1>1, <1>3, <1>4 DEF GuidedNext

\* The answer of the demo's own request, given and rendered, after which the step
\* has its next request or is over.
LEMMA AnswerGoesOn ==
    ASSUME IInv, DemoWaits, IInv', DemoWaits', Answer("demo") \/ Deliver("demo")
    PROVE  StepsLeft' < StepsLeft
<1> DEFINE r == request["demo"]
<1>1. /\ guided.phase = "waiting" /\ "demo" \in Slots /\ GuidedTyped
      /\ r \in Sent /\ r # None
  BY DEF Answer, Deliver, DemoWaits, Slots, IInv
<1>2. RequestsLeft(r) \in Nat /\ RequestsLeft(r) >= 1
  BY <1>1, RequestsLeftTyped
<1>3. PhaseLeft = 2 * RequestsLeft(r) + (IF r.answer = None THEN 1 ELSE 0)
  BY <1>1 DEF PhaseLeft
<1>4. ASSUME guided'.phase = "waiting"
      PROVE  PhaseLeft' = 2 * RequestsLeft(request'["demo"])
                            + (IF request'["demo"].answer = None THEN 1 ELSE 0)
  BY <1>4 DEF PhaseLeft, RequestsLeft
<1>5. CASE Answer("demo")
  <2>1. request'["demo"].answer # None /\ guided' = guided /\ r.answer = None
    BY <1>1, <1>5, AnswerUnderWay DEF Answer
  <2>2. RequestsLeft(request'["demo"]) <= RequestsLeft(r)
    BY <1>1, <1>5, DemoRequest
  <2>3. request'["demo"] \in Sent /\ request'["demo"] # None
    BY <1>1, <1>5, AnswerUnderWay DEF IInv
  <2>4. RequestsLeft(request'["demo"]) \in Nat
    BY <2>3, RequestsLeftTyped
  <2>5. PhaseLeft' = 2 * RequestsLeft(request'["demo"])
    BY <1>1, <1>4, <2>1, <2>4
  <2> HIDE DEF r
  <2>6. PhaseLeft' < PhaseLeft
    BY <1>2, <1>3, <2>1, <2>2, <2>4, <2>5
  <2>7. QED
    BY <1>1, <2>1, <2>6, LaterInStep
<1>6. CASE Deliver("demo")
  <2>1. r.answer # None /\ request'["demo"] = Following(r) /\ guided'.at = guided.at
        /\ guided'.phase = IF Following(r) = None THEN "shown" ELSE "waiting"
    BY <1>1, <1>6 DEF Deliver, IInv, GuidedTyped
  <2>2. PhaseLeft = 2 * RequestsLeft(r)
    BY <1>2, <1>3, <2>1
  <2>3. CASE Following(r) = None
    <3>1. PhaseLeft' = 1
      BY <2>1, <2>3 DEF PhaseLeft
    <3>2. QED
      BY <1>1, <1>2, <2>1, <2>2, <3>1, LaterInStep
  <2>4. CASE Following(r) # None
    <3>1. Following(r) \in Sent /\ RequestsLeft(Following(r)) < RequestsLeft(r)
          /\ Following(r).answer = None
      BY <1>1, <2>4, FollowingTyped
    <3>2. RequestsLeft(Following(r)) \in Nat
      BY <2>4, <3>1, RequestsLeftTyped
    <3>3. PhaseLeft' = 2 * RequestsLeft(Following(r)) + 1
      BY <1>4, <2>1, <2>4, <3>1
    <3>4. QED
      BY <1>1, <1>2, <2>1, <2>2, <3>1, <3>2, <3>3, LaterInStep
  <2>5. QED
    BY <2>3, <2>4
<1>7. QED
  BY <1>5, <1>6

\* Buttons, their answers and edits are nothing to the demo, and stopping it does
\* not take it back.
LEMMA OthersGoOn ==
    ASSUME IInv, guided.phase # "off", [Next]_vars, ~GuidedStep
    PROVE  StepsLeft' = StepsLeft
<1>1. "demo" \in Slots /\ "demo" \notin Clicks
  BY DemoInSlots
<1>2. ASSUME guided'.phase = guided.phase, guided'.at = guided.at,
             request'["demo"] = request["demo"]
      PROVE  StepsLeft' = StepsLeft
  BY <1>2 DEF StepsLeft, PhaseLeft, StepsBehind, ToSend, RequestsLeft
<1>3. ASSUME NEW i \in Clicks, NEW tool \in Tools, Click(i, tool)
      PROVE  guided' = guided /\ request'["demo"] = request["demo"]
  <2>1. /\ i \in Slots /\ i # "demo" /\ Call(i, tool) /\ guided' = guided
    BY <1>1, <1>3 DEF Slots, Click
  <2>2. request' = [request EXCEPT ![i] = request'[i]]
    BY <2>1, SentTyped DEF IInv
  <2>3. QED
    BY <1>1, <2>1, <2>2 DEF IInv
<1>4. ASSUME NEW i \in Slots, Answer(i) \/ Deliver(i)
      PROVE  guided' = guided /\ request'["demo"] = request["demo"]
  <2>1. i # "demo"
    BY <1>4 DEF GuidedStep
  <2>2. QED
    BY <1>1, <1>4, <2>1 DEF Answer, Deliver, IInv
<1>5. CASE GuidedStop
  <2>1. /\ guided'.phase = guided.phase /\ guided'.at = guided.at
        /\ request' = request
    BY <1>5 DEF GuidedStop, IInv, GuidedTyped
  <2>2. QED
    BY <1>2, <2>1
<1>6. CASE UNCHANGED <<request, guided>>
  BY <1>2, <1>6
<1>7. ~GuidedStart /\ ~GuidedRun /\ ~GuidedNext
  BY DEF GuidedStart, GuidedStep
<1>8. QED
  BY <1>2, <1>3, <1>4, <1>5, <1>6, <1>7 DEF Next, vars, Edit

\* The demo waits only for a request of its own, and the card shows a check as
\* under way only while one is: neither waits for an answer that cannot come
\* (arena.js 285, 316-318, 484-490).
THEOREM NobodyWaitsInVain == Spec => [](DemoWaits /\ CheckIsUnderWay)
<1> DEFINE Inv == DemoWaits /\ CheckIsUnderWay
<1>1. Init => Inv
  BY ProgressInit
<1>2. IInv /\ Inv /\ [Next]_vars => Inv'
  BY ProgressNext
<1> HIDE DEF Inv
<1>3. Spec => []Inv
  BY <1>1, <1>2, PageInvariant, PTL DEF Spec
<1>4. QED
  BY <1>3 DEF Inv

\* A started demo has thirty-six steps of its own before it, and two for each attack
\* of the catalog.  Each of them brings it nearer to its end, whichever of its
\* requests fail, and nothing that buttons, their answers, edits or its stopping do
\* takes it back (arena.js 479-508).
THEOREM DemoGoesForward ==
    Spec => /\ [](StepsLeft \in Nat /\ (StepsLeft = 0 <=> guided.phase = "off"))
            /\ [][IF guided.phase = "off"
                  THEN GuidedStart => StepsLeft' = 36 + 2 * NumAttacks
                  ELSE /\ StepsLeft' <= StepsLeft
                       /\ GuidedStep => StepsLeft' < StepsLeft]_vars
<1>1. IInv /\ DemoWaits => StepsLeft \in Nat /\ (StepsLeft = 0 <=> guided.phase = "off")
  BY StepsLeftTyped
<1>2. ASSUME IInv, DemoWaits, CheckIsUnderWay, [Next]_vars, guided.phase # "off"
      PROVE  /\ StepsLeft' <= StepsLeft
             /\ GuidedStep => StepsLeft' < StepsLeft
  <2>1. IInv' /\ DemoWaits'
    BY <1>2, NextInv, ProgressNext
  <2>2. StepsLeft \in Nat /\ StepsLeft' \in Nat
    BY <1>2, <2>1, StepsLeftTyped, StepsLeftTypedNext
  <2>3. GuidedStep => StepsLeft' < StepsLeft
    BY <1>2, <2>1, RunGoesOn, NextGoesOn, AnswerGoesOn DEF GuidedStep
  <2>4. ~GuidedStep => StepsLeft' = StepsLeft
    BY <1>2, OthersGoOn
  <2>5. QED
    BY <2>2, <2>3, <2>4
<1>3. ASSUME GuidedStart PROVE StepsLeft' = 36 + 2 * NumAttacks
  <2>1. guided'.phase = "pause" /\ guided'.at = 1
    BY <1>3 DEF GuidedStart
  <2>2. StepsLeft' = StepsBehind(1) + (2 + 2 * ToSend(1))
    BY <2>1 DEF StepsLeft, PhaseLeft, StepsBehind, ToSend
  <2>3. ToSend(1) = 1 /\ StepsBehind(1) = 32 + 2 * NumAttacks
    BY ToSendValue, ArenaAssumption DEF StepsBehind
  <2>4. QED
    BY <2>2, <2>3, ArenaAssumption
<1>4. IInv /\ DemoWaits /\ CheckIsUnderWay /\ [Next]_vars
        => [IF guided.phase = "off"
            THEN GuidedStart => StepsLeft' = 36 + 2 * NumAttacks
            ELSE /\ StepsLeft' <= StepsLeft
                 /\ GuidedStep => StepsLeft' < StepsLeft]_vars
  BY <1>2, <1>3
<1>5. QED
  BY <1>1, <1>4, PageInvariant, NobodyWaitsInVain, PTL DEF Spec
=============================================================================
