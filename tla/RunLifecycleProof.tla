-------------------------- MODULE RunLifecycleProof --------------------------
(***************************************************************************)
(* Theorems about RunLifecycle, for every value of its constants: any      *)
(* contracts, any cuts of them, any number of texts, gates and kills.      *)
(***************************************************************************)
EXTENDS RunLifecycle, TLAPS

-----------------------------------------------------------------------------
(* Steps                                                                   *)

\* The plot commands.
PlotStep(c) == RefineBegin(c) \/ RefineEnd(c) \/ ApproveBegin(c) \/ ApproveEnd(c)

\* The commands that are about one run.
RunStep(r) ==
  \/ CutBegin(r) \/ CutProgress(r) \/ SpawnChild(r) \/ ExecutorReturns(r)
  \/ CutUnwinds(r) \/ KillCut(r) \/ HeartbeatBeats(r)
  \/ ChildPrints(r) \/ ChildExits(r) \/ MinutePasses(r)
  \/ SweepMove(r)
  \/ GateBegin(r) \/ GateEnd(r) \/ ProofBegin(r) \/ ProofEnd(r)
  \/ WorkspaceDrifts(r)

\* A step is a plot command, a command about one run, or a quarantine's listing.
LEMMA Steps ==
  ASSUME [Next]_vars
  PROVE  \/ \E c \in Contract : PlotStep(c)
         \/ \E r \in Run : RunStep(r)
         \/ SweepBegin
         \/ UNCHANGED vars
BY DEF Next, PlotStep, RunStep

\* A command about one run touches no contract.
LEMMA RunLeavesPlot ==
  ASSUME NEW r \in Run, RunStep(r)
  PROVE  UNCHANGED plotVars
BY DEF RunStep, CutBegin, CutProgress, CutRefused, CutOpen, CutStart, StartupFailed, Handoff,
   CutSeal, CutHeartbeat, CutReceipt, CutUnwound, SpawnChild, ExecutorReturns, CutUnwinds,
   KillCut, HeartbeatBeats, ChildPrints, ChildExits, MinutePasses, SweepMove, GateBegin,
   GateEnd, ProofBegin, ProofEnd, WorkspaceDrifts, CutUnchanged, plotVars

-----------------------------------------------------------------------------
(* Texts of a contract                                                     *)

\* No command in flight holds or makes a text that is newer than it may be.
TextsBounded ==
  \A c \in Contract : /\ approving[c] <= contract[c].text
                      /\ c \in refining => contract[c].text < MaxTexts

\* The plot commands keep their own types, and texts within their bound.
LEMMA PlotTypes ==
  ASSUME TypeOK, TextsBounded, NEW c \in Contract, PlotStep(c)
  PROVE  TypeOK' /\ TextsBounded'
<1> USE LifecycleAssumption DEF LifecycleAssumption
<1>1. /\ contract \in [Contract -> [status : {"draft", "approved"}, text : Text]]
      /\ refining \subseteq Contract /\ approving \in [Contract -> 0 .. MaxTexts]
      /\ overtaken \subseteq Contract
      /\ contract[c].text \in 1 .. MaxTexts /\ approving[c] \in 0 .. MaxTexts
  BY DEF TypeOK, Text
<1>2. ASSUME contract' \in [Contract -> [status : {"draft", "approved"}, text : Text]],
             refining' \subseteq Contract, approving' \in [Contract -> 0 .. MaxTexts],
             overtaken' \subseteq Contract,
             UNCHANGED <<runVars, archived, cut, gateVars, sweep, drifted, spent>>
      PROVE  TypeOK'
  BY <1>2 DEF TypeOK, runVars, gateVars
<1>3. CASE RefineBegin(c)
  <2>1. TypeOK'
    BY <1>1, <1>2, <1>3 DEF RefineBegin
  <2>2. TextsBounded'
    BY <1>1, <1>3 DEF RefineBegin, TextsBounded
  <2> QED BY <2>1, <2>2
<1>4. CASE RefineEnd(c)
  <2>1. CASE UNCHANGED contract
    BY <1>1, <1>2, <1>4, <2>1 DEF RefineEnd, TextsBounded
  <2>2. CASE contract' = [contract EXCEPT ![c] = [status |-> "draft", text |-> @.text + 1]]
    <3>1. contract[c].text + 1 \in Text
      BY <1>1, <1>4 DEF RefineEnd, TextsBounded, Text
    <3>2. contract' \in [Contract -> [status : {"draft", "approved"}, text : Text]]
      BY <1>1, <2>2, <3>1
    <3>3. /\ contract'[c].text = contract[c].text + 1
          /\ \A d \in Contract : d # c => contract'[d] = contract[d]
      BY <1>1, <2>2
    <3>4. TypeOK'
      BY <1>1, <1>2, <1>4, <3>2 DEF RefineEnd
    <3>5. TextsBounded'
      BY <1>1, <1>4, <3>1, <3>3 DEF RefineEnd, TextsBounded
    <3> QED BY <3>4, <3>5
  <2> QED BY <1>4, <2>1, <2>2 DEF RefineEnd
<1>5. CASE ApproveBegin(c)
  <2>1. approving' = [approving EXCEPT ![c] = contract[c].text]
    BY <1>5 DEF ApproveBegin
  <2>2. TypeOK'
    BY <1>1, <1>2, <1>5, <2>1 DEF ApproveBegin
  <2>3. TextsBounded'
    BY <1>1, <1>5, <2>1 DEF ApproveBegin, TextsBounded
  <2> QED BY <2>2, <2>3
<1>6. CASE ApproveEnd(c)
  <2>1. approving' \in [Contract -> 0 .. MaxTexts] /\ \A d \in Contract : approving'[d] <= approving[d]
    BY <1>1, <1>6 DEF ApproveEnd
  <2>2. CASE UNCHANGED contract
    <3>1. TypeOK'
      BY <1>1, <1>2, <1>6, <2>1, <2>2 DEF ApproveEnd
    <3>2. TextsBounded'
      BY <1>1, <1>6, <2>1, <2>2 DEF ApproveEnd, TextsBounded
    <3> QED BY <3>1, <3>2
  <2>3. CASE contract' = [contract EXCEPT ![c] = [status |-> "approved", text |-> approving[c]]]
    <3>1. approving[c] \in Text /\ approving'[c] = 0
      BY <1>1, <1>6 DEF ApproveEnd, Text
    <3>2. contract' \in [Contract -> [status : {"draft", "approved"}, text : Text]]
      BY <1>1, <2>3, <3>1
    <3>3. /\ contract'[c].text = approving[c]
          /\ \A d \in Contract : d # c => contract'[d] = contract[d] /\ approving'[d] = approving[d]
      BY <1>1, <1>6, <2>3 DEF ApproveEnd
    <3>4. TypeOK'
      BY <1>1, <1>2, <1>6, <2>1, <3>2 DEF ApproveEnd
    <3>5. TextsBounded'
      BY <1>1, <1>6, <3>1, <3>3 DEF ApproveEnd, TextsBounded, Text
    <3> QED BY <3>4, <3>5
  <2> QED BY <1>6, <2>2, <2>3 DEF ApproveEnd
<1> QED BY <1>3, <1>4, <1>5, <1>6 DEF PlotStep

-----------------------------------------------------------------------------
(* The inductive invariant.  Its parts are about one run each.             *)

\* A receipt and what gate made of it are about a cut that is over, and agree with it.
Recorded(r) ==
  /\ receipt[r] # "none" => cut[r].at = "over" /\ receipt[r] = cut[r].result
  /\ gate[r] # NoGate => cut[r].at = "over" /\ gate[r].receipt = cut[r].result
  /\ decision[r] # NoDecision => cut[r].at = "over"
  /\ decision[r].verdict = "accept" => cut[r].result = "success" /\ decision[r].checks = "pass"
  /\ prover[r] # NoDecision \/ proof[r] # NoProof => decision[r] # NoDecision

\* A result is what the executor reported until cut seals it; then a success is one with
\* changes, or of entry points that were as asked beforehand.
Judged(r) == receipt[r] # "none" \/ gate[r] # NoGate \/ decision[r] # NoDecision

Earned(r) ==
  /\ cut[r].at = "executed" /\ cut[r].result = "success" =>
       cut[r].report \in {"changed", "empty", "satisfied"}
  /\ (cut[r].at \in {"sealed", "closed"} \/ Judged(r)) /\ cut[r].result = "success" =>
       cut[r].report \in {"changed", "satisfied"}

\* A gate judges the text its run was executed from.
SameText(r) ==
  /\ gate[r] # NoGate => gate[r].text = cut[r].text
  /\ decision[r] # NoDecision => decision[r].text = cut[r].text

\* A contract that a cut was made of stays as it was read.
Frozen(r) ==
  cut[r].at # "idle" => contract[ContractOf[r]] = [status |-> "approved", text |-> cut[r].text]

\* Only a cut that executes has a living child, unless it unwound or was killed; a child
\* that is dead and has been silent for a minute belongs to a cut that is over.
Audible(r) ==
  /\ child[r] = "alive" => cut[r].at \in {"executing", "unwinding", "over"}
  /\ child[r] = "dead" /\ quiet[r] => cut[r].at = "over"

\* run.json has its last status from CutSeal on, and the receipt repeats it.
Ended(r) ==
  /\ cut[r].at \in {"executed", "sealed", "closed"} => cut[r].result # "none"
  /\ cut[r].at \in {"sealed", "closed"} \/ receipt[r] # "none" =>
       runfile[r] = IF cut[r].result = "success" THEN "finished" ELSE "failed"

\* What a quarantine has listed or moved is over and never had a receipt.
Buried(r) ==
  /\ r \in sweep => runfile[r] = "running"
  /\ r \in archived => runfile[r] = "none"
  /\ r \in sweep \cup archived => cut[r].at = "over" /\ receipt[r] = "none"

\* What gate and proof have read is still there.
Kept(r) ==
  /\ gate[r] # NoGate \/ decision[r] # NoDecision => receipt[r] # "none"
  /\ gate[r].valid \/ decision[r].verdict = "accept" => context[r]
  /\ proof[r].sealed.verdict = "accept" => context[r]

\* As long as no approve overtook a refine, what a plot command is under way for is a draft.
PlotDrafts ==
  \A c \in Contract \ overtaken :
    c \in refining \/ approving[c] # 0 => contract[c].status = "draft"

Inv       == TypeOK /\ TextsBounded /\ \A r \in Run : Recorded(r) /\ Earned(r)
HeardInv  == \A r \in Run \ unheard : Audible(r) /\ Ended(r) /\ Buried(r) /\ Kept(r)
FrozenInv == PlotDrafts /\ \A r \in Run : ContractOf[r] \notin overtaken => Frozen(r) /\ SameText(r)
-----------------------------------------------------------------------------
(* Types of the files of a run                                             *)

Result  == {"none", "success", "failure"}
Report  == {"none", "changed", "empty", "satisfied", "failure"}
CutType == [at : Place, text : 0 .. MaxTexts, report : Report, result : Result]

\* Moving a cut changes its place and nothing else.
LEMMA AtMoves ==
  ASSUME cut \in [Run -> CutType], NEW r \in Run, NEW place \in Place, At(r, place)
  PROVE  /\ cut' \in [Run -> CutType]
         /\ cut'[r] = [at |-> place, text |-> cut[r].text, report |-> cut[r].report,
                       result |-> cut[r].result]
         /\ \A q \in Run : q # r => cut'[q] = cut[q]
<1> DEFINE moved == [at |-> place, text |-> cut[r].text, report |-> cut[r].report,
                     result |-> cut[r].result]
<1>1. cut[r] = [at |-> cut[r].at, text |-> cut[r].text, report |-> cut[r].report,
                result |-> cut[r].result]
      /\ moved \in CutType
  BY DEF CutType
<1>2. [cut[r] EXCEPT !.at = place] = moved
  BY <1>1
<1>3. cut' = [cut EXCEPT ![r] = moved]
  BY <1>2 DEF At
<1> QED
  BY <1>1, <1>3

\* The same for the steps that record a result, and what the executor reported.
EndsAt(r, place, result) == cut' = [cut EXCEPT ![r].at = place, ![r].result = result]

ReportsAt(r, place, report, result) ==
  cut' = [cut EXCEPT ![r].at = place, ![r].report = report, ![r].result = result]

LEMMA ReportMoves ==
  ASSUME cut \in [Run -> CutType], NEW r \in Run, NEW place \in Place, NEW report \in Report,
         NEW result \in Result, ReportsAt(r, place, report, result)
  PROVE  /\ cut' \in [Run -> CutType]
         /\ cut'[r] = [at |-> place, text |-> cut[r].text, report |-> report, result |-> result]
         /\ \A q \in Run : q # r => cut'[q] = cut[q]
<1> DEFINE moved == [at |-> place, text |-> cut[r].text, report |-> cut[r].report,
                     result |-> cut[r].result]
           ended == [at |-> place, text |-> cut[r].text, report |-> report, result |-> result]
<1>1. cut[r] = [at |-> cut[r].at, text |-> cut[r].text, report |-> cut[r].report,
                result |-> cut[r].result]
      /\ ended \in CutType
  BY DEF CutType
<1>2. [cut[r] EXCEPT !.at = place] = moved
  BY <1>1
<1>3. [[moved EXCEPT !.report = report] EXCEPT !.result = result] = ended
  <2> DEFINE between == [at |-> place, text |-> cut[r].text, report |-> report,
                         result |-> cut[r].result]
  <2>1. [moved EXCEPT !.report = report] = between
    OBVIOUS
  <2>2. [between EXCEPT !.result = result] = ended
    OBVIOUS
  <2> QED
    BY <2>1, <2>2
<1> HIDE DEF ended
<1>4. cut' = [cut EXCEPT ![r] = ended]
  BY <1>2, <1>3 DEF ReportsAt
<1>5. cut' \in [Run -> CutType] /\ cut'[r] = ended /\ \A q \in Run : q # r => cut'[q] = cut[q]
  BY <1>1, <1>4
<1> QED
  BY <1>5 DEF ended

LEMMA ResultMoves ==
  ASSUME cut \in [Run -> CutType], NEW r \in Run, NEW place \in Place, NEW result \in Result,
         EndsAt(r, place, result)
  PROVE  /\ cut' \in [Run -> CutType]
         /\ cut'[r] = [at |-> place, text |-> cut[r].text, report |-> cut[r].report,
                       result |-> result]
         /\ \A q \in Run : q # r => cut'[q] = cut[q]
<1> DEFINE moved == [at |-> place, text |-> cut[r].text, report |-> cut[r].report,
                     result |-> cut[r].result]
           ended == [at |-> place, text |-> cut[r].text, report |-> cut[r].report,
                     result |-> result]
<1>1. cut[r] = [at |-> cut[r].at, text |-> cut[r].text, report |-> cut[r].report,
                result |-> cut[r].result]
      /\ ended \in CutType
  BY DEF CutType
<1>2. [cut[r] EXCEPT !.at = place] = moved
  BY <1>1
<1>3. [moved EXCEPT !.result = result] = ended
  OBVIOUS
<1> HIDE DEF ended
<1>4. cut' = [cut EXCEPT ![r] = ended]
  BY <1>2, <1>3 DEF EndsAt
<1>5. cut' \in [Run -> CutType] /\ cut'[r] = ended /\ \A q \in Run : q # r => cut'[q] = cut[q]
  BY <1>1, <1>4
<1> QED
  BY <1>5 DEF ended

\* Where the cut of a run goes with each of its steps, and the result it then holds.
Moves(r, place, result) ==
  /\ cut'[r].at = place /\ cut'[r].text = cut[r].text /\ cut'[r].report = cut[r].report
  /\ cut'[r].result = result

Reports(r) ==
  /\ cut'[r].at = "executed" /\ cut'[r].text = cut[r].text /\ cut'[r].result # "none"
  /\ cut'[r].result = "success" => cut'[r].report \in {"changed", "empty", "satisfied"}

Seals(r, result) ==
  /\ Moves(r, "sealed", result)
  /\ runfile'[r] = IF result = "success" THEN "finished" ELSE "failed"
  /\ cut[r].result # "none" => result # "none"
  /\ result = "success" => cut[r].result = "success" /\ cut[r].report # "empty"

LEMMA CutMoves ==
  ASSUME TypeOK, NEW r \in Run
  PROVE  /\ CutRefused(r) => Moves(r, "over", cut[r].result)
         /\ CutOpen(r) => Moves(r, "opened", cut[r].result)
         /\ CutStart(r) => Moves(r, "started", cut[r].result)
         /\ StartupFailed(r) => Moves(r, "sealed", "failure")
         /\ Handoff(r) => Moves(r, "executing", cut[r].result)
         /\ ExecutorReturns(r) => Reports(r) /\ cut' \in [Run -> CutType]
         /\ CutSeal(r) => \E result \in Result : Seals(r, result)
         /\ CutHeartbeat(r) => Moves(r, "closed", cut[r].result)
         /\ CutUnwinds(r) => Moves(r, "unwinding", cut[r].result)
         /\ CutReceipt(r) \/ CutUnwound(r) \/ KillCut(r) => Moves(r, "over", cut[r].result)
<1>a. cut \in [Run -> CutType]
  BY DEF TypeOK, CutType, Result, Report
<1>1. ASSUME NEW place \in Place, At(r, place) PROVE Moves(r, place, cut[r].result)
  <2>1. cut'[r] = [at |-> place, text |-> cut[r].text, report |-> cut[r].report,
                   result |-> cut[r].result]
    BY <1>a, <1>1, AtMoves
  <2> QED
    BY <2>1 DEF Moves
<1>2. ASSUME NEW place \in Place, NEW result \in Result,
             EndsAt(r, place, result)
      PROVE  Moves(r, place, result)
  <2>1. cut'[r] = [at |-> place, text |-> cut[r].text, report |-> cut[r].report,
                   result |-> result]
    BY <1>a, <1>2, ResultMoves
  <2> QED
    BY <2>1 DEF Moves
<1>3. {"over", "opened", "started", "sealed", "executing", "executed", "closed", "unwinding"}
        \subseteq Place
      /\ {"success", "failure"} = Result \ {"none"}
  BY DEF Place, Result
<1>4. ASSUME CutSeal(r) PROVE \E result \in Result : Seals(r, result)
  <2> DEFINE end == RejectEmpty(cut[r].result, cut[r].report = "empty")
  <2>1. /\ runfile' = [runfile EXCEPT ![r] = IF end.run = "success" THEN "finished" ELSE "failed"]
        /\ cut' = [cut EXCEPT ![r].at = "sealed", ![r].result = end.receipt]
    BY <1>4 DEF CutSeal
  <2>2. /\ end.receipt \in Result /\ end.run = end.receipt
        /\ cut[r].result # "none" => end.receipt # "none"
        /\ end.receipt = "success" => cut[r].result = "success" /\ cut[r].report # "empty"
    BY <1>a DEF RejectEmpty, CutType, Result
  <2> HIDE DEF end
  <2>3. Moves(r, "sealed", end.receipt)
    BY <1>2, <1>3, <2>1, <2>2 DEF EndsAt
  <2>4. runfile'[r] = IF end.receipt = "success" THEN "finished" ELSE "failed"
    BY <2>1, <2>2 DEF TypeOK
  <2>5. Seals(r, end.receipt)
    BY <2>2, <2>3, <2>4 DEF Seals
  <2> QED
    BY <2>2, <2>5
<1>5. ASSUME ExecutorReturns(r) PROVE Reports(r) /\ cut' \in [Run -> CutType]
  <2>1. PICK report \in {"changed", "empty", "satisfied", "failure"} :
          cut' = [cut EXCEPT ![r].at = "executed", ![r].report = report,
                             ![r].result = IF report = "failure" THEN "failure" ELSE "success"]
    BY <1>5 DEF ExecutorReturns
  <2>2. PICK result \in Result : result = IF report = "failure" THEN "failure" ELSE "success"
    BY DEF Result
  <2>3. ReportsAt(r, "executed", report, result) /\ report \in Report
    BY <2>1, <2>2 DEF ReportsAt, Report
  <2>4. /\ cut' \in [Run -> CutType]
        /\ cut'[r] = [at |-> "executed", text |-> cut[r].text, report |-> report, result |-> result]
    BY <1>a, <1>3, <2>3, ReportMoves
  <2> QED
    BY <2>2, <2>4 DEF Reports
<1>6. StartupFailed(r) => Moves(r, "sealed", "failure")
  BY <1>2, <1>3 DEF StartupFailed, EndsAt
<1>7. CutRefused(r) \/ CutReceipt(r) \/ CutUnwound(r) \/ KillCut(r) => Moves(r, "over", cut[r].result)
  BY <1>1, <1>3 DEF CutRefused, CutReceipt, CutUnwound, KillCut
<1>8. /\ CutOpen(r) => Moves(r, "opened", cut[r].result)
      /\ CutStart(r) => Moves(r, "started", cut[r].result)
      /\ Handoff(r) => Moves(r, "executing", cut[r].result)
      /\ CutHeartbeat(r) => Moves(r, "closed", cut[r].result)
      /\ CutUnwinds(r) => Moves(r, "unwinding", cut[r].result)
  BY <1>1, <1>3 DEF CutOpen, CutStart, Handoff, CutHeartbeat, CutUnwinds
<1> QED
  BY <1>4, <1>5, <1>6, <1>7, <1>8

\* A command about one run keeps the types.
LEMMA RunTypes ==
  ASSUME TypeOK, NEW r \in Run, RunStep(r)
  PROVE  TypeOK'
<1> USE LifecycleAssumption DEF LifecycleAssumption, plotVars, runVars, gateVars, CutUnchanged
<1>a. cut \in [Run -> CutType]
  BY DEF TypeOK, CutType, Result, Report
<1>b. TypeOK' <=> TypeOK' /\ cut' \in [Run -> CutType]
  BY DEF TypeOK, CutType, Result, Report
<1>1. CASE CutBegin(r)
  <2>1. cut' \in [Run -> CutType]
    <3> DEFINE text    == contract[ContractOf[r]].text
               claimed == [at |-> "claimed", text |-> text, report |-> "none", result |-> "none"]
    <3>1. text \in 0 .. MaxTexts
      BY DEF TypeOK, Text
    <3>2. cut' = [cut EXCEPT ![r] = [Idle EXCEPT !.at = "claimed", !.text = text]]
      BY <1>1 DEF CutBegin
    <3> HIDE DEF text
    <3>3. [Idle EXCEPT !.at = "claimed", !.text = text] = claimed
      <4> DEFINE taken == [at |-> "claimed", text |-> 0, report |-> "none", result |-> "none"]
      <4>1. [Idle EXCEPT !.at = "claimed"] = taken
        BY DEF Idle
      <4>2. [taken EXCEPT !.text = text] = claimed
        OBVIOUS
      <4> QED
        BY <4>1, <4>2
    <3>4. claimed \in CutType
      BY <3>1 DEF CutType, Place, Result, Report
    <3> QED
      BY <1>a, <3>2, <3>3, <3>4
  <2> QED
    BY <1>1, <2>1 DEF CutBegin, TypeOK, CutType, Result, Report
<1>2. CASE CutRefused(r)
  <2>1. cut' \in [Run -> CutType]
    BY <1>a, <1>2, AtMoves DEF CutRefused, Place
  <2> QED
    BY <1>2, <2>1 DEF CutRefused, TypeOK, CutType, Result, Report
<1>3. CASE CutStart(r)
  <2>1. cut' \in [Run -> CutType]
    BY <1>a, <1>3, AtMoves DEF CutStart, Place
  <2> QED
    BY <1>3, <2>1 DEF CutStart, TypeOK, CutType, Result, Report
<1>4. CASE StartupFailed(r)
  <2>1. cut' \in [Run -> CutType]
    BY <1>a, <1>4, ResultMoves DEF EndsAt, StartupFailed, Place, Result
  <2> QED
    BY <1>4, <2>1 DEF StartupFailed, TypeOK, CutType, Result, Report
<1>5. CASE Handoff(r)
  <2>1. cut' \in [Run -> CutType]
    BY <1>a, <1>5, AtMoves DEF Handoff, Place
  <2> QED
    BY <1>5, <2>1 DEF Handoff, TypeOK, CutType, Result, Report
<1>6. CASE CutSeal(r)
  <2> DEFINE end == RejectEmpty(cut[r].result, cut[r].report = "empty")
  <2>1. cut' = [cut EXCEPT ![r].at = "sealed", ![r].result = end.receipt]
    BY <1>6 DEF CutSeal
  <2>2. end.receipt \in Result
    BY <1>a DEF RejectEmpty, CutType, Result
  <2> HIDE DEF end
  <2>3. cut' \in [Run -> CutType]
    BY <1>a, <2>1, <2>2, ResultMoves DEF EndsAt, Place
  <2> QED
    BY <1>6, <2>3 DEF CutSeal, TypeOK, CutType, Result, Report
<1>7. CASE CutHeartbeat(r)
  <2>1. cut' \in [Run -> CutType]
    BY <1>a, <1>7, AtMoves DEF CutHeartbeat, Place
  <2> QED
    BY <1>7, <2>1 DEF CutHeartbeat, TypeOK, CutType, Result, Report
<1>8. CASE CutReceipt(r)
  <2>1. cut' \in [Run -> CutType]
    BY <1>a, <1>8, AtMoves DEF CutReceipt, Place
  <2> QED
    BY <1>8, <2>1 DEF CutReceipt, TypeOK, CutType, Result, Report
<1>9. CASE SpawnChild(r)
  BY <1>9 DEF SpawnChild, TypeOK
<1>10. CASE ExecutorReturns(r)
  <2>1. cut' \in [Run -> CutType]
    BY <1>10, CutMoves
  <2> QED
    BY <1>10, <2>1 DEF ExecutorReturns, TypeOK, CutType, Result, Report
<1>11. CASE CutUnwinds(r)
  <2>1. cut' \in [Run -> CutType]
    BY <1>a, <1>11, AtMoves DEF CutUnwinds, Place
  <2> QED
    BY <1>11, <2>1 DEF CutUnwinds, TypeOK, CutType, Result, Report
<1>12. CASE KillCut(r)
  <2>1. cut' \in [Run -> CutType]
    BY <1>a, <1>12, AtMoves DEF KillCut, Place
  <2>2. spent' \in [gates : Nat, kills : Nat]
    <3>1. spent \in [gates : Nat, kills : Nat] /\ spent' = [spent EXCEPT !.kills = @ + 1]
      BY <1>12 DEF KillCut, TypeOK
    <3>2. spent.kills + 1 \in Nat
      BY <3>1
    <3> QED
      BY <3>1, <3>2
  <2> QED
    BY <1>12, <2>1, <2>2 DEF KillCut, TypeOK, CutType, Result, Report
<1>13. CASE ChildPrints(r)
  BY <1>13 DEF ChildPrints, TypeOK
<1>14. CASE ChildExits(r)
  BY <1>14 DEF ChildExits, Unheard, TypeOK
<1>15. CASE MinutePasses(r)
  BY <1>15 DEF MinutePasses, Unheard, TypeOK
<1>16. CASE SweepMove(r)
  BY <1>16 DEF SweepMove, TypeOK
<1>17. CASE GateBegin(r)
  <2>1. gate' \in [Run -> [text : 0 .. MaxTexts, receipt : {"none", "success", "failure"},
                           valid : BOOLEAN]]
    <3>1. /\ contract[ContractOf[r]].text \in 0 .. MaxTexts
          /\ receipt[r] \in {"none", "success", "failure"}
          /\ (context[r] /\ r \notin drifted) \in BOOLEAN
      BY DEF TypeOK, Text
    <3> QED
      BY <1>17, <3>1 DEF GateBegin, TypeOK
  <2>2. spent' \in [gates : Nat, kills : Nat]
    <3>1. spent \in [gates : Nat, kills : Nat] /\ spent' = [spent EXCEPT !.gates = @ + 1]
      BY <1>17 DEF GateBegin, TypeOK
    <3>2. spent.gates + 1 \in Nat
      BY <3>1
    <3> QED
      BY <3>1, <3>2
  <2> QED
    BY <1>17, <2>1, <2>2 DEF GateBegin, TypeOK
<1>18. CASE GateEnd(r)
  <2>1. gate' \in [Run -> [text : 0 .. MaxTexts, receipt : {"none", "success", "failure"},
                           valid : BOOLEAN]]
    BY <1>18 DEF GateEnd, TypeOK, NoGate
  <2>2. decision' \in [Run -> DecisionType]
    <3>1. decision[r].rev + 1 \in Nat /\ gate[r].text \in 0 .. MaxTexts
      BY DEF TypeOK, DecisionType
    <3>2. \A checks \in Checks : Judge(gate[r], checks) \in Verdict
      BY DEF Judge, Verdict
    <3>3. decision \in [Run -> DecisionType]
      BY DEF TypeOK
    <3>4. ASSUME NEW checks \in Checks
          PROVE  [verdict |-> Judge(gate[r], checks), checks |-> checks, text |-> gate[r].text,
                  rev |-> decision[r].rev + 1] \in DecisionType
      BY <3>1, <3>2 DEF DecisionType
    <3> QED
      BY <1>18, <3>3, <3>4 DEF GateEnd
  <2> QED
    BY <1>18, <2>1, <2>2 DEF GateEnd, TypeOK
<1>19. CASE ProofBegin(r)
  BY <1>19 DEF ProofBegin, TypeOK
<1>20. CASE ProofEnd(r)
  <2>1. NoDecision \in DecisionType
    BY DEF NoDecision, DecisionType
  <2>2. proof' \in [Run -> [read : DecisionType, sealed : DecisionType]]
    <3>1. /\ proof \in [Run -> [read : DecisionType, sealed : DecisionType]]
          /\ [read |-> prover[r], sealed |-> decision[r]]
                \in [read : DecisionType, sealed : DecisionType]
      BY DEF TypeOK
    <3>2. \/ UNCHANGED proof
          \/ proof' = [proof EXCEPT ![r] = [read |-> prover[r], sealed |-> decision[r]]]
      BY <1>20 DEF ProofEnd
    <3> QED
      BY <3>1, <3>2
  <2> QED
    BY <1>20, <2>1, <2>2 DEF ProofEnd, TypeOK
<1>21. CASE WorkspaceDrifts(r)
  BY <1>21 DEF WorkspaceDrifts, TypeOK
<1>22. CASE CutOpen(r)
  <2>1. cut' \in [Run -> CutType]
    BY <1>a, <1>22, AtMoves DEF CutOpen, Place
  <2> QED
    BY <1>22, <2>1 DEF CutOpen, TypeOK, CutType, Result, Report
<1>23. CASE CutUnwound(r)
  <2>1. cut' \in [Run -> CutType]
    BY <1>a, <1>23, AtMoves DEF CutUnwound, Place
  <2> QED
    BY <1>23, <2>1 DEF CutUnwound, TypeOK, CutType, Result, Report
<1>24. CASE HeartbeatBeats(r)
  BY <1>24 DEF HeartbeatBeats, TypeOK
<1> QED
  BY <1>1, <1>2, <1>3, <1>4, <1>5, <1>6, <1>7, <1>8, <1>9, <1>10, <1>11, <1>12, <1>13, <1>14,
     <1>15, <1>16, <1>17, <1>18, <1>19, <1>20, <1>21, <1>22, <1>23, <1>24
  DEF RunStep, CutProgress

-----------------------------------------------------------------------------
(* What a step does to one run                                             *)

\* A command about one run leaves everything of the other runs alone.
LEMMA Local ==
  ASSUME TypeOK, NEW r \in Run, RunStep(r), NEW q \in Run, q # r
  PROVE  /\ contract' = contract
         /\ cut'[q] = cut[q] /\ receipt'[q] = receipt[q] /\ runfile'[q] = runfile[q]
         /\ context'[q] = context[q] /\ child'[q] = child[q] /\ quiet'[q] = quiet[q]
         /\ gate'[q] = gate[q] /\ decision'[q] = decision[q]
         /\ prover'[q] = prover[q] /\ proof'[q] = proof[q]
         /\ (q \in sweep' <=> q \in sweep) /\ (q \in archived' <=> q \in archived)
         /\ (q \in unheard' <=> q \in unheard) /\ overtaken' = overtaken
<1> USE DEF TypeOK, plotVars, runVars, gateVars, CutUnchanged, At
<1>1. CASE CutBegin(r)
  BY <1>1 DEF CutBegin
<1>2. CASE CutRefused(r)
  BY <1>2 DEF CutRefused
<1>3. CASE CutStart(r)
  BY <1>3 DEF CutStart
<1>4. CASE StartupFailed(r)
  BY <1>4 DEF StartupFailed
<1>5. CASE Handoff(r)
  BY <1>5 DEF Handoff
<1>6. CASE CutSeal(r)
  BY <1>6 DEF CutSeal
<1>7. CASE CutHeartbeat(r)
  BY <1>7 DEF CutHeartbeat
<1>8. CASE CutReceipt(r)
  BY <1>8 DEF CutReceipt
<1>9. CASE SpawnChild(r)
  BY <1>9 DEF SpawnChild
<1>10. CASE ExecutorReturns(r)
  BY <1>10 DEF ExecutorReturns
<1>11. CASE CutUnwinds(r)
  BY <1>11 DEF CutUnwinds
<1>12. CASE KillCut(r)
  BY <1>12 DEF KillCut
<1>13. CASE ChildPrints(r)
  BY <1>13 DEF ChildPrints
<1>14. CASE ChildExits(r)
  BY <1>14 DEF ChildExits, Unheard
<1>15. CASE MinutePasses(r)
  BY <1>15 DEF MinutePasses, Unheard
<1>16. CASE SweepMove(r)
  BY <1>16 DEF SweepMove
<1>17. CASE GateBegin(r)
  BY <1>17 DEF GateBegin
<1>18. CASE GateEnd(r)
  BY <1>18 DEF GateEnd
<1>19. CASE ProofBegin(r)
  BY <1>19 DEF ProofBegin
<1>20. CASE ProofEnd(r)
  BY <1>20 DEF ProofEnd
<1>21. CASE WorkspaceDrifts(r)
  BY <1>21 DEF WorkspaceDrifts
<1>22. CASE CutOpen(r)
  BY <1>22 DEF CutOpen
<1>23. CASE CutUnwound(r)
  BY <1>23 DEF CutUnwound
<1>24. CASE HeartbeatBeats(r)
  BY <1>24 DEF HeartbeatBeats
<1> QED
  BY <1>1, <1>2, <1>3, <1>4, <1>5, <1>6, <1>7, <1>8, <1>9, <1>10, <1>11, <1>12, <1>13, <1>14,
     <1>15, <1>16, <1>17, <1>18, <1>19, <1>20, <1>21, <1>22, <1>23, <1>24
  DEF RunStep, CutProgress

-----------------------------------------------------------------------------
(* Steps keep the invariant                                                *)

\* A command about one run keeps its receipt, gate and decision in agreement with the cut.
LEMMA RecordedStep ==
  ASSUME TypeOK, NEW r \in Run, Recorded(r), RunStep(r)
  PROVE  Recorded(r)'
<1> USE DEF plotVars, runVars, gateVars, CutUnchanged
<1>a. /\ cut \in [Run -> CutType] /\ receipt \in [Run -> Result]
      /\ gate \in [Run -> [text : 0 .. MaxTexts, receipt : Result, valid : BOOLEAN]]
      /\ decision \in [Run -> DecisionType]
  BY DEF TypeOK, CutType, Result, Report
<1>1. CASE CutBegin(r)
  <2>1. cut[r].at = "idle" /\ UNCHANGED <<receipt, gate, decision, prover, proof>>
    BY <1>1 DEF CutBegin
  <2> QED
    BY <2>1 DEF Recorded, NoDecision
<1>2. CASE CutRefused(r)
  BY <1>a, <1>2, CutMoves DEF CutRefused, Recorded, Moves
<1>3. CASE CutStart(r)
  BY <1>a, <1>3, CutMoves DEF CutStart, Recorded, Moves
<1>4. CASE StartupFailed(r)
  <2>1. cut[r].at # "over" /\ UNCHANGED <<receipt, gate, decision, prover, proof>>
    BY <1>4 DEF StartupFailed
  <2> QED
    BY <2>1 DEF Recorded, NoDecision
<1>5. CASE Handoff(r)
  BY <1>a, <1>5, CutMoves DEF Handoff, Recorded, Moves
<1>6. CASE CutSeal(r)
  <2>1. cut[r].at # "over" /\ UNCHANGED <<receipt, gate, decision, prover, proof>>
    BY <1>6 DEF CutSeal
  <2> QED
    BY <2>1 DEF Recorded, NoDecision
<1>7. CASE CutHeartbeat(r)
  BY <1>a, <1>7, CutMoves DEF CutHeartbeat, Recorded, Moves
<1>8. CASE CutReceipt(r)
  BY <1>a, <1>8, CutMoves DEF CutReceipt, Recorded, Moves
<1>9. CASE SpawnChild(r)
  BY <1>a, <1>9 DEF SpawnChild, Recorded
<1>10. CASE ExecutorReturns(r)
  <2>1. cut[r].at # "over" /\ UNCHANGED <<receipt, gate, decision, prover, proof>>
    BY <1>10 DEF ExecutorReturns
  <2> QED
    BY <2>1 DEF Recorded, NoDecision
<1>11. CASE CutUnwinds(r)
  BY <1>a, <1>11, CutMoves DEF CutUnwinds, Recorded, Moves
<1>12. CASE KillCut(r)
  BY <1>a, <1>12, CutMoves DEF KillCut, Recorded, Moves
<1>13. CASE ChildPrints(r)
  BY <1>a, <1>13 DEF ChildPrints, Recorded
<1>14. CASE ChildExits(r)
  BY <1>a, <1>14 DEF ChildExits, Unheard, Recorded
<1>15. CASE MinutePasses(r)
  BY <1>a, <1>15 DEF MinutePasses, Unheard, Recorded
<1>16. CASE SweepMove(r)
  BY <1>a, <1>16 DEF SweepMove, Recorded
<1>17. CASE GateBegin(r)
  <2>1. /\ receipt[r] # "none" /\ UNCHANGED <<cut, receipt, decision, prover, proof>>
        /\ gate'[r].receipt = receipt[r]
    BY <1>a, <1>17 DEF GateBegin, ReceiptThere
  <2> QED
    BY <2>1 DEF Recorded
<1>18. CASE GateEnd(r)
  <2>1. /\ gate[r] # NoGate /\ gate'[r] = NoGate /\ UNCHANGED <<cut, receipt>>
        /\ UNCHANGED <<prover, proof>>
    BY <1>a, <1>18 DEF GateEnd
  <2>2. CASE UNCHANGED decision
    BY <2>1, <2>2 DEF Recorded
  <2>3. ASSUME NEW checks \in Checks,
               decision' = [decision EXCEPT ![r] =
                 [verdict |-> Judge(gate[r], checks), checks |-> checks, text |-> gate[r].text,
                  rev |-> @.rev + 1]]
        PROVE  Recorded(r)'
    <3>1. decision'[r].verdict = Judge(gate[r], checks) /\ decision'[r].checks = checks
      BY <1>a, <2>3
    <3>2. /\ Judge(gate[r], checks) # "none"
          /\ Judge(gate[r], checks) = "accept" => gate[r].receipt = "success" /\ checks = "pass"
      BY DEF Judge
    <3> QED
      BY <2>1, <3>1, <3>2 DEF Recorded, NoDecision
  <2> QED
    BY <1>18, <2>2, <2>3 DEF GateEnd
<1>19. CASE ProofBegin(r)
  BY <1>a, <1>19 DEF ProofBegin, Recorded
<1>20. CASE ProofEnd(r)
  BY <1>a, <1>20 DEF ProofEnd, Recorded
<1>21. CASE WorkspaceDrifts(r)
  BY <1>a, <1>21 DEF WorkspaceDrifts, Recorded
<1>22. CASE CutOpen(r)
  BY <1>a, <1>22, CutMoves DEF CutOpen, Recorded, Moves
<1>23. CASE CutUnwound(r)
  BY <1>a, <1>23, CutMoves DEF CutUnwound, Recorded, Moves
<1>24. CASE HeartbeatBeats(r)
  BY <1>a, <1>24 DEF HeartbeatBeats, Recorded
<1> QED
  BY <1>1, <1>2, <1>3, <1>4, <1>5, <1>6, <1>7, <1>8, <1>9, <1>10, <1>11, <1>12, <1>13, <1>14,
     <1>15, <1>16, <1>17, <1>18, <1>19, <1>20, <1>21, <1>22, <1>23, <1>24
  DEF RunStep, CutProgress

\* A success that is sealed or judged was reported, and was not without changes.
LEMMA EarnedStep ==
  ASSUME TypeOK, NEW r \in Run, Recorded(r), Earned(r), RunStep(r)
  PROVE  Earned(r)'
<1> USE DEF plotVars, runVars, gateVars, CutUnchanged
<1>a. receipt \in [Run -> Result] /\ cut \in [Run -> CutType]
  BY DEF TypeOK, CutType, Result, Report
<1>1. CASE CutBegin(r)
  <2>1. cut[r].at = "idle" /\ cut'[r].at = "claimed" /\ UNCHANGED <<receipt, gate, decision>>
    BY <1>a, <1>1 DEF CutBegin, Idle
  <2> QED
    BY <2>1 DEF Recorded, Earned, Judged, NoDecision
<1>2. CASE CutRefused(r) \/ CutOpen(r) \/ CutStart(r) \/ Handoff(r) \/ CutUnwinds(r) \/ CutUnwound(r)
           \/ KillCut(r)
  <2>1. /\ cut[r].at # "over" /\ UNCHANGED <<receipt, gate, decision>>
        /\ cut'[r].at \in {"over", "opened", "started", "executing", "unwinding"}
    BY <1>2, CutMoves DEF CutRefused, CutOpen, CutStart, Handoff, CutUnwinds, CutUnwound, KillCut,
       Moves
  <2> QED
    BY <2>1 DEF Recorded, Earned, Judged, NoDecision
<1>3. CASE StartupFailed(r)
  BY <1>3, CutMoves DEF Moves, Earned
<1>4. CASE ExecutorReturns(r)
  <2>1. cut[r].at # "over" /\ UNCHANGED <<receipt, gate, decision>> /\ Reports(r)
    BY <1>4, CutMoves DEF ExecutorReturns
  <2> QED
    BY <2>1 DEF Reports, Recorded, Earned, Judged, NoDecision
<1>5. CASE CutSeal(r)
  <2>1. PICK result \in Result : Seals(r, result)
    BY <1>5, CutMoves
  <2>2. cut[r].at = "executed"
    BY <1>5 DEF CutSeal
  <2> QED
    BY <2>1, <2>2 DEF Seals, Moves, Earned
<1>6. CASE CutHeartbeat(r) \/ CutReceipt(r)
  <2>1. cut[r].at \in {"sealed", "closed"} /\ cut'[r].report = cut[r].report
        /\ cut'[r].result = cut[r].result /\ cut'[r].at \in {"closed", "over"}
    BY <1>6, CutMoves DEF CutHeartbeat, CutReceipt, Moves
  <2> QED
    BY <2>1 DEF Earned
<1>7. CASE SweepMove(r)
  <2>1. UNCHANGED <<cut, gate, decision>> /\ (receipt'[r] # "none" => receipt[r] # "none")
    BY <1>a, <1>7 DEF SweepMove
  <2> QED
    BY <2>1 DEF Earned, Judged
<1>8. CASE GateBegin(r) \/ GateEnd(r)
  <2>1. UNCHANGED <<cut, receipt>> /\ (receipt[r] # "none" \/ gate[r] # NoGate)
    BY <1>8 DEF GateBegin, GateEnd, ReceiptThere
  <2> QED
    BY <2>1 DEF Earned, Judged, Recorded
<1>9. CASE \/ SpawnChild(r) \/ HeartbeatBeats(r) \/ ChildPrints(r) \/ ChildExits(r)
           \/ MinutePasses(r) \/ ProofBegin(r) \/ ProofEnd(r) \/ WorkspaceDrifts(r)
  <2>1. UNCHANGED <<cut, receipt, gate, decision>>
    BY <1>9 DEF SpawnChild, HeartbeatBeats, ChildPrints, ChildExits, MinutePasses, ProofBegin,
       ProofEnd, WorkspaceDrifts
  <2> QED
    BY <2>1 DEF Earned, Judged
<1> QED
  BY <1>1, <1>2, <1>3, <1>4, <1>5, <1>6, <1>7, <1>8, <1>9 DEF RunStep, CutProgress

\* What was unheard stays so.
LEMMA Grows ==
  ASSUME NEW r \in Run, RunStep(r)
  PROVE  unheard \subseteq unheard'
<1>1. CASE ChildExits(r) \/ MinutePasses(r)
  BY <1>1 DEF ChildExits, MinutePasses, Unheard
<1>2. CASE ~(ChildExits(r) \/ MinutePasses(r))
  <2>1. unheard' = unheard
    BY <1>2 DEF RunStep, CutBegin, CutProgress, CutRefused, CutOpen, CutStart, StartupFailed, Handoff,
       CutSeal, CutHeartbeat, CutReceipt, CutUnwound, SpawnChild, ExecutorReturns, CutUnwinds,
       KillCut, HeartbeatBeats, ChildPrints, SweepMove, GateBegin, GateEnd, ProofBegin, ProofEnd,
       WorkspaceDrifts, runVars
  <2> QED BY <2>1
<1> QED BY <1>1, <1>2

\* A child is alive only under a cut that executes, whatever is killed, and a cut whose
\* child is dead and silent while it works becomes unheard.
LEMMA AudibleStep ==
  ASSUME TypeOK, NEW r \in Run, Audible(r), RunStep(r), r \notin unheard'
  PROVE  Audible(r)'
<1> USE DEF plotVars, runVars, gateVars, CutUnchanged
<1>a. /\ cut \in [Run -> CutType] /\ receipt \in [Run -> Result]
      /\ gate \in [Run -> [text : 0 .. MaxTexts, receipt : Result, valid : BOOLEAN]]
      /\ decision \in [Run -> DecisionType]
  BY DEF TypeOK, CutType, Result, Report
<1>b. /\ DOMAIN runfile = Run /\ DOMAIN context = Run /\ DOMAIN child = Run /\ DOMAIN quiet = Run
      /\ DOMAIN prover = Run /\ DOMAIN proof = Run
      /\ context \in [Run -> BOOLEAN] /\ quiet \in [Run -> BOOLEAN]
  BY DEF TypeOK
<1>1. CASE CutBegin(r)
  BY <1>a, <1>b, <1>1 DEF CutBegin, Audible
<1>2. CASE CutRefused(r)
  BY <1>a, <1>b, <1>2, CutMoves DEF CutRefused, Audible, Moves
<1>3. CASE CutStart(r)
  BY <1>a, <1>b, <1>3, CutMoves DEF CutStart, Audible, Moves
<1>4. CASE StartupFailed(r)
  BY <1>a, <1>b, <1>4, CutMoves DEF StartupFailed, Audible, Moves
<1>5. CASE Handoff(r)
  BY <1>a, <1>b, <1>5, CutMoves DEF Handoff, Audible, Moves
<1>6. CASE CutSeal(r)
  BY <1>a, <1>b, <1>6, CutMoves DEF CutSeal, Audible, Moves
<1>7. CASE CutHeartbeat(r)
  BY <1>a, <1>b, <1>7, CutMoves DEF CutHeartbeat, Audible, Moves
<1>8. CASE CutReceipt(r)
  BY <1>a, <1>b, <1>8, CutMoves DEF CutReceipt, Audible, Moves
<1>9. CASE SpawnChild(r)
  BY <1>a, <1>b, <1>9 DEF SpawnChild, Audible
<1>10. CASE ExecutorReturns(r)
  BY <1>a, <1>b, <1>10, CutMoves DEF ExecutorReturns, Audible, Moves
<1>11. CASE CutUnwinds(r)
  BY <1>a, <1>b, <1>11, CutMoves DEF CutUnwinds, Audible, Moves
<1>12. CASE KillCut(r)
  BY <1>a, <1>b, <1>12, CutMoves DEF KillCut, Audible, Moves
<1>13. CASE ChildPrints(r)
  BY <1>a, <1>b, <1>13 DEF ChildPrints, Audible
<1>14. CASE ChildExits(r)
  BY <1>a, <1>b, <1>14 DEF ChildExits, Unheard, Audible
<1>15. CASE MinutePasses(r)
  BY <1>a, <1>b, <1>15 DEF MinutePasses, Unheard, Audible
<1>16. CASE SweepMove(r)
  BY <1>a, <1>b, <1>16 DEF SweepMove, Audible
<1>17. CASE GateBegin(r)
  BY <1>a, <1>b, <1>17 DEF GateBegin, Audible
<1>18. CASE GateEnd(r)
  BY <1>a, <1>b, <1>18 DEF GateEnd, Audible
<1>19. CASE ProofBegin(r)
  BY <1>a, <1>b, <1>19 DEF ProofBegin, Audible
<1>20. CASE ProofEnd(r)
  BY <1>a, <1>b, <1>20 DEF ProofEnd, Audible
<1>21. CASE WorkspaceDrifts(r)
  BY <1>a, <1>b, <1>21 DEF WorkspaceDrifts, Audible
<1>22. CASE CutOpen(r)
  BY <1>a, <1>b, <1>22, CutMoves DEF CutOpen, Audible, Moves
<1>23. CASE CutUnwound(r)
  BY <1>a, <1>b, <1>23, CutMoves DEF CutUnwound, Audible, Moves
<1>24. CASE HeartbeatBeats(r)
  BY <1>a, <1>b, <1>24 DEF HeartbeatBeats, Audible
<1> QED
  BY <1>1, <1>2, <1>3, <1>4, <1>5, <1>6, <1>7, <1>8, <1>9, <1>10, <1>11, <1>12, <1>13, <1>14,
     <1>15, <1>16, <1>17, <1>18, <1>19, <1>20, <1>21, <1>22, <1>23, <1>24
  DEF RunStep, CutProgress

\* Sealing, closing and writing the receipt agree on the result.
LEMMA EndedStep ==
  ASSUME TypeOK, NEW r \in Run, Recorded(r), Ended(r), Buried(r), RunStep(r)
  PROVE  Ended(r)'
<1> USE DEF plotVars, runVars, gateVars, CutUnchanged
<1>a. /\ cut \in [Run -> CutType] /\ receipt \in [Run -> Result]
      /\ gate \in [Run -> [text : 0 .. MaxTexts, receipt : Result, valid : BOOLEAN]]
      /\ decision \in [Run -> DecisionType]
  BY DEF TypeOK, CutType, Result, Report
<1>b. /\ DOMAIN runfile = Run /\ DOMAIN context = Run /\ DOMAIN child = Run /\ DOMAIN quiet = Run
      /\ DOMAIN prover = Run /\ DOMAIN proof = Run
      /\ context \in [Run -> BOOLEAN] /\ quiet \in [Run -> BOOLEAN]
  BY DEF TypeOK
<1>1. CASE CutBegin(r)
  BY <1>a, <1>b, <1>1 DEF CutBegin, Ended, Recorded, Buried
<1>2. CASE CutRefused(r)
  BY <1>a, <1>b, <1>2, CutMoves DEF CutRefused, Ended, Recorded, Buried, Moves
<1>3. CASE CutStart(r)
  BY <1>a, <1>b, <1>3, CutMoves DEF CutStart, Ended, Recorded, Buried, Moves
<1>4. CASE StartupFailed(r)
  BY <1>a, <1>b, <1>4, CutMoves DEF StartupFailed, Ended, Recorded, Buried, Moves
<1>5. CASE Handoff(r)
  BY <1>a, <1>b, <1>5, CutMoves DEF Handoff, Ended, Recorded, Buried, Moves
<1>6. CASE CutSeal(r)
  <2>1. PICK result \in Result : Seals(r, result)
    BY <1>6, CutMoves
  <2>2. cut[r].result # "none"
    BY <1>6 DEF CutSeal, Ended
  <2> QED
    BY <2>1, <2>2 DEF Seals, Moves, Ended
<1>7. CASE CutHeartbeat(r)
  BY <1>a, <1>b, <1>7, CutMoves DEF CutHeartbeat, Ended, Recorded, Buried, Moves
<1>8. CASE CutReceipt(r)
  BY <1>a, <1>b, <1>8, CutMoves DEF CutReceipt, Ended, Recorded, Buried, Moves
<1>9. CASE SpawnChild(r)
  BY <1>a, <1>b, <1>9 DEF SpawnChild, Ended, Recorded, Buried
<1>10. CASE ExecutorReturns(r)
  <2>1. /\ cut[r].at = "executing" /\ UNCHANGED <<receipt, runfile>> /\ Reports(r)
    BY <1>10, CutMoves DEF ExecutorReturns
  <2> QED
    BY <1>a, <2>1 DEF Reports, Ended, Recorded
<1>11. CASE CutUnwinds(r)
  BY <1>a, <1>b, <1>11, CutMoves DEF CutUnwinds, Ended, Recorded, Buried, Moves
<1>12. CASE KillCut(r)
  BY <1>a, <1>b, <1>12, CutMoves DEF KillCut, Ended, Recorded, Buried, Moves
<1>13. CASE ChildPrints(r)
  BY <1>a, <1>b, <1>13 DEF ChildPrints, Ended, Recorded, Buried
<1>14. CASE ChildExits(r)
  BY <1>a, <1>b, <1>14 DEF ChildExits, Unheard, Ended, Recorded, Buried
<1>15. CASE MinutePasses(r)
  BY <1>a, <1>b, <1>15 DEF MinutePasses, Unheard, Ended, Recorded, Buried
<1>16. CASE SweepMove(r)
  BY <1>a, <1>b, <1>16 DEF SweepMove, Ended, Recorded, Buried
<1>17. CASE GateBegin(r)
  BY <1>a, <1>b, <1>17 DEF GateBegin, Ended, Recorded, Buried
<1>18. CASE GateEnd(r)
  BY <1>a, <1>b, <1>18 DEF GateEnd, Ended, Recorded, Buried
<1>19. CASE ProofBegin(r)
  BY <1>a, <1>b, <1>19 DEF ProofBegin, Ended, Recorded, Buried
<1>20. CASE ProofEnd(r)
  BY <1>a, <1>b, <1>20 DEF ProofEnd, Ended, Recorded, Buried
<1>21. CASE WorkspaceDrifts(r)
  BY <1>a, <1>b, <1>21 DEF WorkspaceDrifts, Ended, Recorded, Buried
<1>22. CASE CutOpen(r)
  BY <1>a, <1>b, <1>22, CutMoves DEF CutOpen, Ended, Recorded, Buried, Moves
<1>23. CASE CutUnwound(r)
  BY <1>a, <1>b, <1>23, CutMoves DEF CutUnwound, Ended, Recorded, Buried, Moves
<1>24. CASE HeartbeatBeats(r)
  BY <1>a, <1>b, <1>24 DEF HeartbeatBeats, Ended, Recorded, Buried
<1> QED
  BY <1>1, <1>2, <1>3, <1>4, <1>5, <1>6, <1>7, <1>8, <1>9, <1>10, <1>11, <1>12, <1>13, <1>14,
     <1>15, <1>16, <1>17, <1>18, <1>19, <1>20, <1>21, <1>22, <1>23, <1>24
  DEF RunStep, CutProgress

\* A run that a quarantine has listed or moved gets no receipt any more.
LEMMA BuriedStep ==
  ASSUME TypeOK, NEW r \in Run, Recorded(r), Buried(r), RunStep(r)
  PROVE  Buried(r)'
<1> USE DEF plotVars, runVars, gateVars, CutUnchanged
<1>a. /\ cut \in [Run -> CutType] /\ receipt \in [Run -> Result]
      /\ gate \in [Run -> [text : 0 .. MaxTexts, receipt : Result, valid : BOOLEAN]]
      /\ decision \in [Run -> DecisionType]
  BY DEF TypeOK, CutType, Result, Report
<1>b. /\ DOMAIN runfile = Run /\ DOMAIN context = Run /\ DOMAIN child = Run /\ DOMAIN quiet = Run
      /\ DOMAIN prover = Run /\ DOMAIN proof = Run
      /\ context \in [Run -> BOOLEAN] /\ quiet \in [Run -> BOOLEAN]
  BY DEF TypeOK
<1>1. CASE CutBegin(r)
  BY <1>a, <1>b, <1>1 DEF CutBegin, Recorded, Buried
<1>2. CASE CutRefused(r)
  BY <1>a, <1>b, <1>2, CutMoves DEF CutRefused, Recorded, Buried, Moves
<1>3. CASE CutStart(r)
  BY <1>a, <1>b, <1>3, CutMoves DEF CutStart, Recorded, Buried, Moves
<1>4. CASE StartupFailed(r)
  BY <1>a, <1>b, <1>4, CutMoves DEF StartupFailed, Recorded, Buried, Moves
<1>5. CASE Handoff(r)
  BY <1>a, <1>b, <1>5, CutMoves DEF Handoff, Recorded, Buried, Moves
<1>6. CASE CutSeal(r)
  BY <1>a, <1>b, <1>6, CutMoves DEF CutSeal, Recorded, Buried, Moves
<1>7. CASE CutHeartbeat(r)
  BY <1>a, <1>b, <1>7, CutMoves DEF CutHeartbeat, Recorded, Buried, Moves
<1>8. CASE CutReceipt(r)
  BY <1>a, <1>b, <1>8, CutMoves DEF CutReceipt, Recorded, Buried, Moves
<1>9. CASE SpawnChild(r)
  BY <1>a, <1>b, <1>9 DEF SpawnChild, Recorded, Buried
<1>10. CASE ExecutorReturns(r)
  BY <1>a, <1>b, <1>10, CutMoves DEF ExecutorReturns, Recorded, Buried, Moves
<1>11. CASE CutUnwinds(r)
  BY <1>a, <1>b, <1>11, CutMoves DEF CutUnwinds, Recorded, Buried, Moves
<1>12. CASE KillCut(r)
  BY <1>a, <1>b, <1>12, CutMoves DEF KillCut, Recorded, Buried, Moves
<1>13. CASE ChildPrints(r)
  BY <1>a, <1>b, <1>13 DEF ChildPrints, Recorded, Buried
<1>14. CASE ChildExits(r)
  BY <1>a, <1>b, <1>14 DEF ChildExits, Unheard, Recorded, Buried
<1>15. CASE MinutePasses(r)
  BY <1>a, <1>b, <1>15 DEF MinutePasses, Unheard, Recorded, Buried
<1>16. CASE SweepMove(r)
  BY <1>a, <1>b, <1>16 DEF SweepMove, Recorded, Buried
<1>17. CASE GateBegin(r)
  BY <1>a, <1>b, <1>17 DEF GateBegin, Recorded, Buried
<1>18. CASE GateEnd(r)
  BY <1>a, <1>b, <1>18 DEF GateEnd, Recorded, Buried
<1>19. CASE ProofBegin(r)
  BY <1>a, <1>b, <1>19 DEF ProofBegin, Recorded, Buried
<1>20. CASE ProofEnd(r)
  BY <1>a, <1>b, <1>20 DEF ProofEnd, Recorded, Buried
<1>21. CASE WorkspaceDrifts(r)
  BY <1>a, <1>b, <1>21 DEF WorkspaceDrifts, Recorded, Buried
<1>22. CASE CutOpen(r)
  BY <1>a, <1>b, <1>22, CutMoves DEF CutOpen, Recorded, Buried, Moves
<1>23. CASE CutUnwound(r)
  BY <1>a, <1>b, <1>23, CutMoves DEF CutUnwound, Recorded, Buried, Moves
<1>24. CASE HeartbeatBeats(r)
  BY <1>a, <1>b, <1>24 DEF HeartbeatBeats, Recorded, Buried
<1> QED
  BY <1>1, <1>2, <1>3, <1>4, <1>5, <1>6, <1>7, <1>8, <1>9, <1>10, <1>11, <1>12, <1>13, <1>14,
     <1>15, <1>16, <1>17, <1>18, <1>19, <1>20, <1>21, <1>22, <1>23, <1>24
  DEF RunStep, CutProgress

\* What gate and proof have read stays until the run is moved, and then they had read nothing.
LEMMA KeptStep ==
  ASSUME TypeOK, NEW r \in Run, Recorded(r), Ended(r), Buried(r), Kept(r), RunStep(r)
  PROVE  Kept(r)'
<1> USE DEF plotVars, runVars, gateVars, CutUnchanged
<1>a. /\ cut \in [Run -> CutType] /\ receipt \in [Run -> Result]
      /\ gate \in [Run -> [text : 0 .. MaxTexts, receipt : Result, valid : BOOLEAN]]
      /\ decision \in [Run -> DecisionType]
  BY DEF TypeOK, CutType, Result, Report
<1>b. /\ DOMAIN runfile = Run /\ DOMAIN context = Run /\ DOMAIN child = Run /\ DOMAIN quiet = Run
      /\ DOMAIN prover = Run /\ DOMAIN proof = Run
      /\ context \in [Run -> BOOLEAN] /\ quiet \in [Run -> BOOLEAN]
  BY DEF TypeOK
<1>1. CASE CutBegin(r)
  BY <1>a, <1>b, <1>1 DEF CutBegin, Kept, Buried
<1>2. CASE CutRefused(r)
  BY <1>a, <1>b, <1>2, CutMoves DEF CutRefused, Kept, Buried, Moves
<1>3. CASE CutStart(r)
  BY <1>a, <1>b, <1>3, CutMoves DEF CutStart, Kept, Buried, Moves
<1>4. CASE StartupFailed(r)
  BY <1>a, <1>b, <1>4, CutMoves DEF StartupFailed, Kept, Buried, Moves
<1>5. CASE Handoff(r)
  BY <1>a, <1>b, <1>5, CutMoves DEF Handoff, Kept, Buried, Moves
<1>6. CASE CutSeal(r)
  BY <1>a, <1>b, <1>6, CutMoves DEF CutSeal, Kept, Buried, Moves
<1>7. CASE CutHeartbeat(r)
  BY <1>a, <1>b, <1>7, CutMoves DEF CutHeartbeat, Kept, Buried, Moves
<1>8. CASE CutReceipt(r)
  <2>1. receipt'[r] # "none"
    BY <1>a, <1>8 DEF CutReceipt, Ended
  <2>2. UNCHANGED <<gate, decision, prover, proof, context>>
    BY <1>8 DEF CutReceipt
  <2> QED
    BY <2>1, <2>2 DEF Kept
<1>9. CASE SpawnChild(r)
  BY <1>a, <1>b, <1>9 DEF SpawnChild, Kept, Buried
<1>10. CASE ExecutorReturns(r)
  BY <1>a, <1>b, <1>10, CutMoves DEF ExecutorReturns, Kept, Buried, Moves
<1>11. CASE CutUnwinds(r)
  BY <1>a, <1>b, <1>11, CutMoves DEF CutUnwinds, Kept, Buried, Moves
<1>12. CASE KillCut(r)
  BY <1>a, <1>b, <1>12, CutMoves DEF KillCut, Kept, Buried, Moves
<1>13. CASE ChildPrints(r)
  BY <1>a, <1>b, <1>13 DEF ChildPrints, Kept, Buried
<1>14. CASE ChildExits(r)
  BY <1>a, <1>b, <1>14 DEF ChildExits, Unheard, Kept, Buried
<1>15. CASE MinutePasses(r)
  BY <1>a, <1>b, <1>15 DEF MinutePasses, Unheard, Kept, Buried
<1>16. CASE SweepMove(r)
  <2>1. receipt[r] = "none" /\ UNCHANGED <<gate, decision, prover, proof>>
    BY <1>16 DEF SweepMove, Buried
  <2>2. gate[r] = NoGate /\ decision[r] = NoDecision /\ prover[r] = NoDecision /\ proof[r] = NoProof
    BY <2>1 DEF Kept, Recorded
  <2> QED
    BY <2>1, <2>2 DEF Kept, NoGate, NoDecision, NoProof
<1>17. CASE GateBegin(r)
  <2>1. /\ receipt[r] # "none" /\ UNCHANGED <<receipt, context, decision, prover, proof>>
        /\ gate'[r].valid => context[r]
    BY <1>a, <1>b, <1>17 DEF GateBegin, ReceiptThere
  <2> QED
    BY <2>1 DEF Kept
<1>18. CASE GateEnd(r)
  <2>1. /\ gate[r] # NoGate /\ gate'[r] = NoGate /\ UNCHANGED <<receipt, context, prover, proof>>
        /\ decision'[r].verdict = "accept" => decision[r].verdict = "accept" \/ gate[r].valid
        /\ decision'[r] = NoDecision => decision[r] = NoDecision
    <3>1. CASE UNCHANGED decision
      BY <1>a, <1>18, <3>1 DEF GateEnd
    <3>2. ASSUME NEW checks \in Checks,
                 decision' = [decision EXCEPT ![r] =
                   [verdict |-> Judge(gate[r], checks), checks |-> checks,
                    text |-> gate[r].text, rev |-> @.rev + 1]]
          PROVE  decision'[r].verdict = Judge(gate[r], checks)
      BY <1>a, <3>2
    <3>3. \A checks \in Checks : Judge(gate[r], checks) # "none"
                               /\ (Judge(gate[r], checks) = "accept" => gate[r].valid)
      BY DEF Judge
    <3> QED
      BY <1>a, <1>18, <3>1, <3>2, <3>3 DEF GateEnd, NoDecision
  <2> QED
    BY <2>1 DEF Kept, NoGate
<1>19. CASE ProofBegin(r)
  BY <1>a, <1>b, <1>19 DEF ProofBegin, Kept, Buried
<1>20. CASE ProofEnd(r)
  <2>1. /\ UNCHANGED <<receipt, context, gate, decision>>
        /\ proof'[r] = proof[r] \/ proof'[r].sealed = decision[r]
    BY <1>b, <1>20 DEF ProofEnd
  <2> QED
    BY <2>1 DEF Kept
<1>21. CASE WorkspaceDrifts(r)
  BY <1>a, <1>b, <1>21 DEF WorkspaceDrifts, Kept, Buried
<1>22. CASE CutOpen(r)
  BY <1>a, <1>b, <1>22, CutMoves DEF CutOpen, Kept, Buried, Moves
<1>23. CASE CutUnwound(r)
  BY <1>a, <1>b, <1>23, CutMoves DEF CutUnwound, Kept, Buried, Moves
<1>24. CASE HeartbeatBeats(r)
  BY <1>a, <1>b, <1>24 DEF HeartbeatBeats, Kept, Buried
<1> QED
  BY <1>1, <1>2, <1>3, <1>4, <1>5, <1>6, <1>7, <1>8, <1>9, <1>10, <1>11, <1>12, <1>13, <1>14,
     <1>15, <1>16, <1>17, <1>18, <1>19, <1>20, <1>21, <1>22, <1>23, <1>24
  DEF RunStep, CutProgress

\* A command about one run leaves it with the text it was executed from.
LEMMA TextStep ==
  ASSUME TypeOK, NEW r \in Run, Recorded(r), Frozen(r), SameText(r), RunStep(r)
  PROVE  Frozen(r)' /\ SameText(r)'
<1> USE DEF plotVars, runVars, gateVars, CutUnchanged
<1>a. /\ cut \in [Run -> CutType]
      /\ gate \in [Run -> [text : 0 .. MaxTexts, receipt : Result, valid : BOOLEAN]]
      /\ decision \in [Run -> DecisionType]
  BY DEF TypeOK, CutType, Result, Report
<1>1. CASE CutBegin(r)
  <2>1. /\ cut[r].at = "idle" /\ UNCHANGED <<contract, gate, decision>>
        /\ contract[ContractOf[r]].status = "approved"
        /\ cut'[r].text = contract[ContractOf[r]].text
    BY <1>a, <1>1 DEF CutBegin, Idle
  <2>2. contract[ContractOf[r]] \in [status : {"draft", "approved"}, text : Text]
    BY LifecycleAssumption DEF LifecycleAssumption, TypeOK
  <2>3. contract[ContractOf[r]] = [status |-> "approved", text |-> cut'[r].text]
    BY <2>1, <2>2
  <2>4. gate[r] = NoGate /\ decision[r] = NoDecision
    BY <2>1 DEF Recorded
  <2> QED
    BY <2>1, <2>3, <2>4 DEF Frozen, SameText
<1>2. CASE \/ CutRefused(r) \/ CutOpen(r) \/ CutStart(r) \/ StartupFailed(r) \/ Handoff(r)
           \/ CutSeal(r) \/ CutHeartbeat(r) \/ CutReceipt(r) \/ ExecutorReturns(r)
           \/ CutUnwinds(r) \/ CutUnwound(r) \/ KillCut(r)
  <2>1. cut'[r].text = cut[r].text
    BY <1>2, CutMoves DEF Moves, Reports, Seals
  <2>2. cut[r].at # "idle" /\ UNCHANGED <<contract, gate, decision>>
    BY <1>2 DEF CutRefused, CutOpen, CutStart, StartupFailed, Handoff, CutSeal, CutHeartbeat,
       CutReceipt, ExecutorReturns, CutUnwinds, CutUnwound, KillCut
  <2> QED
    BY <2>1, <2>2 DEF Frozen, SameText
<1>3. CASE \/ SpawnChild(r) \/ HeartbeatBeats(r) \/ ChildPrints(r) \/ ChildExits(r)
           \/ MinutePasses(r) \/ SweepMove(r) \/ ProofBegin(r) \/ ProofEnd(r) \/ WorkspaceDrifts(r)
  <2>1. UNCHANGED <<contract, cut, gate, decision>>
    BY <1>3 DEF SpawnChild, HeartbeatBeats, ChildPrints, ChildExits, MinutePasses, SweepMove, ProofBegin,
       ProofEnd, WorkspaceDrifts
  <2> QED
    BY <2>1 DEF Frozen, SameText
<1>4. CASE GateBegin(r)
  <2>1. /\ receipt[r] # "none" /\ UNCHANGED <<contract, cut, decision>>
        /\ gate'[r].text = contract[ContractOf[r]].text
    BY <1>a, <1>4 DEF GateBegin, ReceiptThere
  <2>2. contract[ContractOf[r]].text = cut[r].text
    BY <2>1 DEF Recorded, Frozen
  <2> QED
    BY <2>1, <2>2 DEF Frozen, SameText
<1>5. CASE GateEnd(r)
  <2>1. /\ gate[r] # NoGate /\ gate'[r] = NoGate /\ UNCHANGED <<contract, cut>>
        /\ decision'[r] = decision[r] \/ decision'[r].text = gate[r].text
    BY <1>a, <1>5 DEF GateEnd
  <2> QED
    BY <2>1 DEF Frozen, SameText
<1> QED
  BY <1>1, <1>2, <1>3, <1>4, <1>5 DEF RunStep, CutProgress

\* Unless an approve overtook a refine, no plot command changes a contract that was approved.
LEMMA PlotKeepsApproved ==
  ASSUME TypeOK, PlotDrafts, NEW c \in Contract, PlotStep(c)
  PROVE  /\ PlotDrafts' /\ overtaken \subseteq overtaken'
         /\ \A d \in Contract \ overtaken' : contract[d].status = "approved" => contract'[d] = contract[d]
<1> USE DEF TypeOK, PlotDrafts
<1>1. CASE RefineBegin(c)
  BY <1>1 DEF RefineBegin, Refinable
<1>2. CASE RefineEnd(c)
  <2>1. /\ c \in refining /\ refining' = refining \ {c} /\ UNCHANGED <<approving, overtaken>>
        /\ \A d \in Contract \ {c} : contract'[d] = contract[d]
        /\ contract'[c] = contract[c] \/ contract'[c].status = "draft"
    BY <1>2 DEF RefineEnd
  <2> QED BY <2>1
<1>3. CASE ApproveBegin(c)
  BY <1>3 DEF ApproveBegin
<1>4. CASE ApproveEnd(c)
  <2>1. /\ approving[c] # 0 /\ approving'[c] = 0 /\ UNCHANGED refining
        /\ \A d \in Contract \ {c} : contract'[d] = contract[d] /\ approving'[d] = approving[d]
    BY <1>4 DEF ApproveEnd
  <2>2. CASE UNCHANGED <<contract, overtaken>>
    BY <2>1, <2>2
  <2>3. CASE overtaken' = IF c \in refining THEN overtaken \cup {c} ELSE overtaken
    BY <2>1, <2>3
  <2> QED BY <1>4, <2>2, <2>3 DEF ApproveEnd
<1> QED
  BY <1>1, <1>2, <1>3, <1>4 DEF PlotStep

-----------------------------------------------------------------------------
(* Invariants                                                              *)

\* What gate, decision and receipt say of a run agrees with its cut after every step.
LEMMA Invariant == Spec => []Inv
<1>1. Init => Inv
  <2> SUFFICES ASSUME Init PROVE Inv
    OBVIOUS
  <2> USE LifecycleAssumption DEF LifecycleAssumption, Init
  <2>1. TypeOK
    BY DEF TypeOK, Idle, NoGate, NoDecision, NoProof, Place, DecisionType, Text
  <2>2. TextsBounded
    BY DEF TextsBounded
  <2>3. \A r \in Run : Recorded(r) /\ Earned(r)
    BY DEF Recorded, Earned, Judged, Idle, NoGate, NoDecision
  <2> QED
    BY <2>1, <2>2, <2>3 DEF Inv
<1>2. Inv /\ [Next]_vars => Inv'
  <2> SUFFICES ASSUME Inv, [Next]_vars PROVE Inv'
    OBVIOUS
  <2> USE DEF Inv
  <2>1. ASSUME NEW c \in Contract, PlotStep(c) PROVE Inv'
    <3>1. UNCHANGED <<cut, receipt, gate, decision, prover, proof>>
      BY <2>1 DEF PlotStep, RefineBegin, RefineEnd, ApproveBegin, ApproveEnd, runVars, gateVars
    <3>2. \A r \in Run : Recorded(r)' /\ Earned(r)'
      BY <3>1 DEF Recorded, Earned, Judged
    <3> QED
      BY <2>1, <3>2, PlotTypes
  <2>2. ASSUME NEW r \in Run, RunStep(r) PROVE Inv'
    <3>1. TypeOK'
      BY <2>2, RunTypes
    <3>2. TextsBounded'
      BY <2>2, RunLeavesPlot DEF plotVars, TextsBounded
    <3>3. ASSUME NEW q \in Run PROVE Recorded(q)' /\ Earned(q)'
      <4>1. CASE q = r
        BY <2>2, <4>1, RecordedStep, EarnedStep
      <4>2. CASE q # r
        BY <2>2, <4>2, Local DEF Recorded, Earned, Judged
      <4> QED
        BY <4>1, <4>2
    <3> QED
      BY <3>1, <3>2, <3>3
  <2>3. CASE SweepBegin
    <3>1. UNCHANGED <<plotVars, runVars, archived, cut, gateVars, drifted, spent>> /\ sweep' \subseteq Run
      BY <2>3 DEF SweepBegin
    <3> QED
      BY <3>1 DEF plotVars, runVars, gateVars, TypeOK, TextsBounded, Recorded, Earned, Judged
  <2>4. CASE UNCHANGED vars
    BY <2>4 DEF vars, plotVars, runVars, gateVars, TypeOK, TextsBounded, Recorded, Earned, Judged
  <2> QED
    BY <2>1, <2>2, <2>3, <2>4, Steps
<1> QED
  BY <1>1, <1>2, PTL DEF Spec

\* Of a run whose cut was always heard, a quarantine lists only what is over, and so every
\* file that gate and proof rest on stays.
LEMMA HeardInvariant == Spec => []HeardInv
<1>1. Init => HeardInv
  BY DEF Init, HeardInv, Audible, Ended, Buried, Kept, Idle, NoGate, NoDecision, NoProof
<1>2. Inv /\ HeardInv /\ [Next]_vars => HeardInv'
  <2> SUFFICES ASSUME Inv, HeardInv, [Next]_vars PROVE HeardInv'
    OBVIOUS
  <2> USE DEF Inv, HeardInv
  <2>1. ASSUME NEW c \in Contract, PlotStep(c) PROVE HeardInv'
    <3>1. UNCHANGED <<runVars, archived, cut, gateVars, sweep>>
      BY <2>1 DEF PlotStep, RefineBegin, RefineEnd, ApproveBegin, ApproveEnd
    <3> QED
      BY <3>1 DEF runVars, gateVars, Audible, Ended, Buried, Kept
  <2>2. ASSUME NEW r \in Run, RunStep(r), NEW q \in Run, q \notin unheard'
        PROVE  Audible(q)' /\ Ended(q)' /\ Buried(q)' /\ Kept(q)'
    <3>1. q \notin unheard
      BY <2>2, Grows
    <3>2. CASE q = r
      BY <2>2, <3>1, <3>2, AudibleStep, EndedStep, BuriedStep, KeptStep
    <3>3. CASE q # r
      <4>1. (Audible(q) => Audible(q)') /\ (Ended(q) => Ended(q)')
        BY <2>2, <3>3, Local DEF Audible, Ended
      <4>2. (Buried(q) => Buried(q)') /\ (Kept(q) => Kept(q)')
        BY <2>2, <3>3, Local DEF Buried, Kept
      <4> QED
        BY <3>1, <4>1, <4>2
    <3> QED
      BY <3>2, <3>3
  <2>3. CASE SweepBegin
    <3>1. /\ UNCHANGED <<runVars, archived, cut, gateVars>>
          /\ \A r \in sweep' : runfile[r] = "running" /\ receipt[r] = "none" /\ Stale(r)
      BY <2>3 DEF SweepBegin, SafeToArchive
    <3>2. \A r \in Run \ unheard : r \in sweep' => cut[r].at = "over"
      BY <3>1 DEF Stale, Audible
    <3>3. \A r \in Run \ unheard' : Audible(r)' /\ Ended(r)' /\ Kept(r)'
      BY <3>1 DEF runVars, gateVars, Audible, Ended, Kept
    <3>4. \A r \in Run \ unheard' : Buried(r)'
      BY <3>1, <3>2 DEF runVars, Buried
    <3> QED
      BY <3>3, <3>4
  <2>4. CASE UNCHANGED vars
    BY <2>4 DEF vars, runVars, gateVars, Audible, Ended, Buried, Kept
  <2> QED
    BY <2>1, <2>2, <2>3, <2>4, Steps
<1> QED
  BY <1>1, <1>2, Invariant, PTL DEF Spec

\* As long as no approve overtook a refine of it, the text of a contract is that of every
\* cut made of it.
LEMMA FrozenInvariant == Spec => []FrozenInv
<1>1. Init => FrozenInv
  BY DEF Init, FrozenInv, PlotDrafts, Frozen, SameText, Idle
<1>2. Inv /\ FrozenInv /\ [Next]_vars => FrozenInv'
  <2> SUFFICES ASSUME Inv, FrozenInv, [Next]_vars PROVE FrozenInv'
    OBVIOUS
  <2> USE DEF Inv, FrozenInv
  <2>1. ASSUME NEW c \in Contract, PlotStep(c) PROVE FrozenInv'
    <3>1. UNCHANGED <<cut, gate, decision>>
      BY <2>1 DEF PlotStep, RefineBegin, RefineEnd, ApproveBegin, ApproveEnd, gateVars
    <3>2. /\ PlotDrafts' /\ overtaken \subseteq overtaken'
          /\ \A d \in Contract \ overtaken' :
               contract[d].status = "approved" => contract'[d] = contract[d]
      BY <2>1, PlotKeepsApproved
    <3>3. ASSUME NEW r \in Run, ContractOf[r] \notin overtaken' PROVE Frozen(r)' /\ SameText(r)'
      <4>1. ContractOf[r] \in Contract \ overtaken'
        BY <3>3, LifecycleAssumption DEF LifecycleAssumption
      <4>2. Frozen(r) /\ SameText(r)
        BY <3>2, <3>3
      <4>3. cut[r].at # "idle" => contract'[ContractOf[r]] = contract[ContractOf[r]]
        BY <3>2, <4>1, <4>2 DEF Frozen
      <4> QED
        BY <3>1, <4>2, <4>3 DEF Frozen, SameText
    <3> QED
      BY <3>2, <3>3
  <2>2. ASSUME NEW r \in Run, RunStep(r) PROVE FrozenInv'
    <3>1. UNCHANGED <<contract, refining, approving, overtaken>>
      BY <2>2, RunLeavesPlot DEF plotVars
    <3>2. ASSUME NEW q \in Run, ContractOf[q] \notin overtaken PROVE Frozen(q)' /\ SameText(q)'
      <4>1. CASE q = r
        BY <2>2, <3>2, <4>1, TextStep
      <4>2. CASE q # r
        BY <2>2, <3>2, <4>2, Local DEF Frozen, SameText
      <4> QED
        BY <4>1, <4>2
    <3> QED
      BY <3>1, <3>2 DEF PlotDrafts
  <2>3. CASE SweepBegin \/ UNCHANGED vars
    <3>1. UNCHANGED <<plotVars, cut, gateVars>>
      BY <2>3 DEF SweepBegin, vars
    <3> QED
      BY <3>1 DEF plotVars, gateVars, PlotDrafts, Frozen, SameText
  <2> QED
    BY <2>1, <2>2, <2>3, Steps
<1> QED
  BY <1>1, <1>2, Invariant, PTL DEF Spec

-----------------------------------------------------------------------------
(* Theorems                                                                *)

\* Every file and every command in flight keeps its type, with overlapping plot commands
\* and quarantines of working runs too.
THEOREM TypeCorrect == Spec => []TypeOK
<1>1. Inv => TypeOK
  BY DEF Inv
<1> QED
  BY <1>1, Invariant, PTL

\* A receipt and the run.json next to it tell the same outcome, wherever a cut was killed
\* (cut_run writes them at different times), unless the cut was unheard: then a quarantine
\* may move run.json away under it.
THEOREM ReceiptsAgree == Spec => []ReceiptAgrees
<1>1. Inv /\ HeardInv => ReceiptAgrees
  BY DEF Inv, HeardInv, Recorded, Ended, ReceiptAgrees
<1> QED
  BY <1>1, Invariant, HeardInvariant, PTL

\* No crash, quarantine, repeated gate or overlapping plot command leads gate_run to an
\* accept without an executor's success with changes (or entry points that were as asked
\* beforehand) and checks that pass; what the accept rests on stays, if the cut was heard.
THEOREM AcceptsAreEarned == Spec => []AcceptEarned
<1>1. Inv /\ HeardInv => AcceptEarned
  <2> SUFFICES ASSUME Inv, HeardInv, NEW r \in Run, decision[r].verdict = "accept"
               PROVE  /\ cut[r].at = "over" /\ cut[r].report \in {"changed", "satisfied"}
                      /\ decision[r].checks = "pass"
                      /\ r \notin unheard => /\ receipt[r] = "success"
                                             /\ runfile[r] = "finished" /\ context[r]
    BY DEF AcceptEarned
  <2>1. decision[r] # NoDecision
    BY DEF NoDecision
  <2>2. /\ cut[r].at = "over" /\ cut[r].result = "success" /\ decision[r].checks = "pass"
        /\ receipt[r] # "none" => receipt[r] = cut[r].result
    BY <2>1 DEF Inv, Recorded
  <2>3. cut[r].report \in {"changed", "satisfied"}
    BY <2>1, <2>2 DEF Inv, Earned, Judged
  <2>4. ASSUME r \notin unheard
        PROVE  receipt[r] = "success" /\ runfile[r] = "finished" /\ context[r]
    BY <2>1, <2>2, <2>4 DEF HeardInv, Ended, Kept
  <2> QED
    BY <2>2, <2>3, <2>4
<1> QED
  BY <1>1, Invariant, HeardInvariant, PTL

\* gate judges the text that was executed, for any number of cuts and gates of a contract
\* and any overlap of refines and approves, unless an approve overtook a refine: one that
\* checked for a draft before (refine_contract_with_options) and may write it after.
THEOREM ExecutedTextIsJudged == Spec => []OnlyOvertakenMisjudged
<1>1. FrozenInv => OnlyOvertakenMisjudged
  BY DEF FrozenInv, SameText, Misjudged, OnlyOvertakenMisjudged
<1> QED
  BY <1>1, FrozenInvariant, PTL

\* What quarantine_safe_stale_runs lists or moves away is over and stays without a receipt,
\* decision or proof, unless the run was unheard: its child ended and it was silent for a
\* minute while cut worked on.
THEOREM ArchivedRunsAreOver == Spec => []OnlyUnheardTaken
<1>1. Inv /\ HeardInv => OnlyUnheardTaken
  BY DEF Inv, HeardInv, Recorded, Buried, Kept, OnlyUnheardTaken, Over
<1> QED
  BY <1>1, Invariant, HeardInvariant, PTL

\* Whatever is gated again or quarantined, the files a proofpack refers to are there, unless
\* the cut was unheard.
THEOREM ProofpacksResolve == Spec => []ChainResolves
<1>1. Inv /\ HeardInv => ChainResolves
  <2> SUFFICES ASSUME Inv, HeardInv, NEW r \in Run, proof[r] # NoProof
               PROVE  /\ decision[r] # NoDecision
                      /\ r \notin unheard =>
                           /\ receipt[r] # "none" /\ runfile[r] # "none"
                           /\ (proof[r].sealed.verdict = "accept") => context[r]
    BY DEF ChainResolves
  <2>1. decision[r] # NoDecision
    BY DEF Inv, Recorded
  <2>2. ASSUME r \notin unheard
        PROVE  /\ receipt[r] # "none" /\ runfile[r] # "none"
               /\ (proof[r].sealed.verdict = "accept") => context[r]
    BY <2>1, <2>2 DEF HeardInv, Ended, Kept
  <2> QED
    BY <2>1, <2>2
<1> QED
  BY <1>1, Invariant, HeardInvariant, PTL

=============================================================================
