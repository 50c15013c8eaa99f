----------------------------- MODULE RunLifecycle -----------------------------
(***************************************************************************)
(* The life of a work item in the active workspace (crates/): a contract   *)
(* is refined and approved (plot), executed in an isolated change (cut),   *)
(* judged (gate), sealed in a proofpack (proof) and recorded.  Every       *)
(* command is a process of its own; they share the JSON files under .punk/ *)
(* and take no lock.  Each command that starts first moves runs it takes   *)
(* for dead out of .punk/runs (quarantine_safe_stale_runs).                *)
(***************************************************************************)
EXTENDS Integers, FiniteSets

CONSTANTS
  Contract, Run,
  ContractOf,      \* [Run -> Contract], the contract a cut is started on
  MaxTexts,        \* bound: versions of a contract's text
  MaxGates,        \* bound: `gate run` commands
  MaxKills         \* bound: killed cut processes

Verdict == {"accept", "block", "escalate"}
Checks  == {"pass", "fail", "unverified"}
Text    == 1 .. MaxTexts

ASSUME LifecycleAssumption ==
  /\ ContractOf \in [Run -> Contract]
  /\ MaxTexts \in Nat \ {0} /\ MaxGates \in Nat /\ MaxKills \in Nat

VARIABLES
  contract,   \* contracts/: status and text of each contract file
  refining, approving,  \* plot commands in flight; approving[c] is the text read
  runfile,    \* runs/<r>/run.json: status, or "none"
  context,    \* runs/<r>/verification-context.json exists and run.json names it
  heartbeat,  \* runs/<r>/heartbeat.json: state, or "none"
  quiet,      \* its last_progress_at is 60 seconds old
  child,      \* process named in runs/<r>/executor.json
  receipt,    \* runs/<r>/receipt.json: status, or "none"
  archived,   \* runs with a directory under archive/runs/
  cut,        \* the cut process of each run: where it is, text read, what the executor
              \* reported, result so far
  gate,       \* gate command in flight: what it read, or NoGate
  decision,   \* decisions/dec_<r>.json, or NoDecision
  prover,     \* proof command in flight: the decision it read, or NoDecision
  proof,      \* proofs/dec_<r>/proofpack.json: decision read and decision hashed
  sweep,      \* runs a quarantine has listed and not yet moved
  drifted,    \* the run's workspace differs from its frozen context
  spent,      \* gates and kills so far
  overtaken,  \* history: contracts approved while a refine of them was under way
  unheard     \* history: runs silent for a minute and their child ended while cut worked

plotVars == <<contract, refining, approving, overtaken>>
runVars  == <<runfile, context, heartbeat, quiet, child, receipt, unheard>>
gateVars == <<gate, decision, prover, proof>>
vars == <<plotVars, runVars, archived, cut, gateVars, sweep, drifted, spent>>

NoGate     == [text |-> 0, receipt |-> "none", valid |-> FALSE]
NoDecision == [verdict |-> "none", checks |-> "none", text |-> 0, rev |-> 0]
NoProof    == [read |-> NoDecision, sealed |-> NoDecision]
Idle       == [at |-> "idle", text |-> 0, report |-> "none", result |-> "none"]

Init ==
  /\ contract = [c \in Contract |-> [status |-> "draft", text |-> 1]]
  /\ refining = {} /\ approving = [c \in Contract |-> 0]
  /\ runfile = [r \in Run |-> "none"]
  /\ context = [r \in Run |-> FALSE]
  /\ heartbeat = [r \in Run |-> "none"]
  /\ quiet = [r \in Run |-> FALSE]
  /\ child = [r \in Run |-> "none"]
  /\ receipt = [r \in Run |-> "none"]
  /\ archived = {}
  /\ cut = [r \in Run |-> Idle]
  /\ gate = [r \in Run |-> NoGate]
  /\ decision = [r \in Run |-> NoDecision]
  /\ prover = [r \in Run |-> NoDecision]
  /\ proof = [r \in Run |-> NoProof]
  /\ sweep = {} /\ drifted = {}
  /\ spent = [gates |-> 0, kills |-> 0]
  /\ overtaken = {} /\ unheard = {}

-----------------------------------------------------------------------------
(* plot: the status is read at the start and written at the end, after the *)
(* drafter (refine) or the capability scan (approve).                      *)

\* Mutant: the status check is missing.
RefineAny(c) == TRUE

Refinable(c) == contract[c].status = "draft"

RefineBegin(c) ==
  /\ c \notin refining
  /\ contract[c].text < MaxTexts
  /\ Refinable(c)
  /\ refining' = refining \cup {c}
  /\ UNCHANGED <<contract, approving, overtaken, runVars, archived, cut, gateVars, sweep,
                 drifted, spent>>

\* A drafter failure or an invalid proposal leaves the file as it was; otherwise
\* a new text is written as a draft, whatever the file says by now.
RefineEnd(c) ==
  /\ c \in refining
  /\ refining' = refining \ {c}
  /\ \/ UNCHANGED contract
     \/ contract' = [contract EXCEPT ![c] = [status |-> "draft", text |-> @.text + 1]]
  /\ UNCHANGED <<approving, overtaken, runVars, archived, cut, gateVars, sweep, drifted,
                 spent>>

ApproveBegin(c) ==
  /\ approving[c] = 0
  /\ contract[c].status = "draft"
  /\ approving' = [approving EXCEPT ![c] = contract[c].text]
  /\ UNCHANGED <<contract, refining, overtaken, runVars, archived, cut, gateVars, sweep,
                 drifted, spent>>

\* The text that was read is written back as approved; or validation failed.
ApproveEnd(c) ==
  /\ approving[c] # 0
  /\ approving' = [approving EXCEPT ![c] = 0]
  /\ \/ UNCHANGED <<contract, overtaken>>
     \/ /\ contract' = [contract EXCEPT ![c] = [status |-> "approved", text |-> approving[c]]]
        /\ overtaken' = IF c \in refining THEN overtaken \cup {c} ELSE overtaken
  /\ UNCHANGED <<refining, runVars, archived, cut, gateVars, sweep, drifted, spent>>

-----------------------------------------------------------------------------
(* cut: one process per run                                                *)

CutUnchanged == UNCHANGED <<plotVars, archived, gateVars, sweep, drifted>>

\* Moves the cut process of r to a place; the rest of its memory is kept.
At(r, place) == cut' = [cut EXCEPT ![r].at = place]

\* Contract read; task file, isolated change and workspace follow.
CutBegin(r) ==
  LET c == contract[ContractOf[r]]
  IN  /\ cut[r].at = "idle"
      /\ c.status = "approved"
      /\ cut' = [cut EXCEPT ![r] = [Idle EXCEPT !.at = "claimed", !.text = c.text]]
      /\ UNCHANGED <<runVars, spent>> /\ CutUnchanged

\* The workspace could not be made: only task.json is left.
CutRefused(r) ==
  /\ cut[r].at = "claimed"
  /\ At(r, "over")
  /\ UNCHANGED <<runVars, spent>> /\ CutUnchanged

CutOpen(r) ==
  /\ cut[r].at = "claimed"
  /\ runfile' = [runfile EXCEPT ![r] = "running"]
  /\ At(r, "opened")
  /\ UNCHANGED <<context, heartbeat, quiet, child, receipt, unheard, spent>> /\ CutUnchanged

CutStart(r) ==
  /\ cut[r].at = "opened"
  /\ heartbeat' = [heartbeat EXCEPT ![r] = "running"]
  /\ At(r, "started")
  /\ UNCHANGED <<runfile, context, quiet, child, receipt, unheard, spent>> /\ CutUnchanged

\* The heartbeat thread rewrites its file four times a second until it is joined, and makes
\* the run directory again if it was moved away.
HeartbeatBeats(r) ==
  /\ cut[r].at \in {"started", "executing", "executed", "sealed"}
  /\ heartbeat[r] # "running"
  /\ heartbeat' = [heartbeat EXCEPT ![r] = "running"]
  /\ UNCHANGED <<runfile, context, quiet, child, receipt, unheard, cut, spent>>
  /\ CutUnchanged

\* run.started could not be appended: the run fails before the executor.
StartupFailed(r) ==
  /\ cut[r].at = "started"
  /\ runfile' = [runfile EXCEPT ![r] = "failed"]
  /\ cut' = [cut EXCEPT ![r].at = "sealed", ![r].result = "failure"]
  /\ UNCHANGED <<context, heartbeat, quiet, child, receipt, unheard, spent>> /\ CutUnchanged

Handoff(r) ==
  /\ cut[r].at = "started"
  /\ At(r, "executing")
  /\ UNCHANGED <<runVars, spent>> /\ CutUnchanged

\* An executor starts one child after another (plan, patch, retry), or none.
SpawnChild(r) ==
  /\ cut[r].at = "executing"
  /\ child[r] # "alive"
  /\ child' = [child EXCEPT ![r] = "alive"]
  /\ UNCHANGED <<runfile, context, heartbeat, quiet, receipt, unheard, cut, spent>>
  /\ CutUnchanged

\* What the executor reported: a success with or without changes (of a contract that asks
\* for some), a failure, or a failure because the entry points were changed before the run
\* as the contract asks: that one is taken for a success.
ExecutorReturns(r) ==
  /\ cut[r].at = "executing"
  /\ child[r] # "alive"
  /\ \E report \in {"changed", "empty", "satisfied", "failure"} :
       cut' = [cut EXCEPT ![r].at = "executed", ![r].report = report,
                          ![r].result = IF report = "failure" THEN "failure" ELSE "success"]
  /\ UNCHANGED <<runVars, spent>> /\ CutUnchanged

\* A panic of the executor, or an error between the first and the last run.json: the guard
\* of the heartbeat writes failed, then that of run.json; no receipt is written.
CutUnwinds(r) ==
  /\ cut[r].at \in {"opened", "started", "executing", "executed"}
  /\ heartbeat' = IF cut[r].at = "opened" THEN heartbeat
                  ELSE [heartbeat EXCEPT ![r] = "failed"]
  /\ At(r, "unwinding")
  /\ UNCHANGED <<runfile, context, quiet, child, receipt, unheard, spent>> /\ CutUnchanged

\* Mutant: run.json keeps the executor's own success.
RejectReceiptOnly(result, empty) ==
  [run |-> result, receipt |-> IF empty THEN "failure" ELSE result]

\* A success without observable changes is turned into a failure.
RejectEmpty(result, empty) ==
  [run |-> IF empty THEN "failure" ELSE result,
   receipt |-> IF empty THEN "failure" ELSE result]

\* verification-context.json, then run.json, which names it, with its final status.
CutSeal(r) ==
  LET end == RejectEmpty(cut[r].result, cut[r].report = "empty")
  IN  /\ cut[r].at = "executed"
      /\ runfile' = [runfile EXCEPT ![r] = IF end.run = "success" THEN "finished" ELSE "failed"]
      /\ cut' = [cut EXCEPT ![r].at = "sealed", ![r].result = end.receipt]
      /\ context' = [context EXCEPT ![r] = TRUE]
      /\ UNCHANGED <<heartbeat, quiet, child, receipt, unheard, spent>> /\ CutUnchanged

\* If the error was the write of the last run.json, the guard writes what that was to say.
CutUnwound(r) ==
  LET end == RejectEmpty(cut[r].result, cut[r].report = "empty")
  IN  /\ cut[r].at = "unwinding"
      /\ \/ /\ runfile' = [runfile EXCEPT ![r] = "failed"]
            /\ UNCHANGED context
         \/ /\ cut[r].result # "none"
            /\ runfile' = [runfile EXCEPT ![r] = IF end.run = "success" THEN "finished"
                                                 ELSE "failed"]
            /\ context' = [context EXCEPT ![r] = TRUE]
      /\ At(r, "over")
      /\ UNCHANGED <<heartbeat, quiet, child, receipt, unheard, spent>> /\ CutUnchanged

CutHeartbeat(r) ==
  /\ cut[r].at = "sealed"
  /\ heartbeat' = [heartbeat EXCEPT ![r] = IF runfile[r] = "finished" THEN "finished"
                                           ELSE "failed"]
  /\ At(r, "closed")
  /\ UNCHANGED <<runfile, context, quiet, child, receipt, unheard, spent>> /\ CutUnchanged

CutReceipt(r) ==
  /\ cut[r].at = "closed"
  /\ receipt' = [receipt EXCEPT ![r] = cut[r].result]
  /\ At(r, "over")
  /\ UNCHANGED <<runfile, context, heartbeat, quiet, child, unheard, spent>> /\ CutUnchanged

\* The process is killed: no guard runs, the executor's child may live on.
KillCut(r) ==
  /\ cut[r].at \notin {"idle", "over"}
  /\ spent.kills < MaxKills
  /\ spent' = [spent EXCEPT !.kills = @ + 1]
  /\ At(r, "over")
  /\ UNCHANGED runVars /\ CutUnchanged

\* The executor's child: prints, ends; and time passes without output.  The
\* heartbeat thread stops when it is told to and when its process is gone.
ChildPrints(r) ==
  /\ child[r] = "alive" /\ cut[r].at = "executing"
  /\ quiet' = [quiet EXCEPT ![r] = FALSE]
  /\ UNCHANGED <<runfile, context, heartbeat, child, receipt, unheard, cut, spent>>
  /\ CutUnchanged

\* Both may come first: the child's end or the minute of silence.
Unheard(r) == IF cut[r].at = "over" THEN unheard ELSE unheard \cup {r}

ChildExits(r) ==
  /\ child[r] = "alive"
  /\ child' = [child EXCEPT ![r] = "dead"]
  /\ unheard' = IF quiet[r] THEN Unheard(r) ELSE unheard
  /\ UNCHANGED <<runfile, context, heartbeat, quiet, receipt, cut, spent>> /\ CutUnchanged

MinutePasses(r) ==
  /\ heartbeat[r] = "running"
  /\ quiet' = [quiet EXCEPT ![r] = TRUE]
  /\ unheard' = IF child[r] = "dead" THEN Unheard(r) ELSE unheard
  /\ UNCHANGED <<runfile, context, heartbeat, child, receipt, cut, spent>> /\ CutUnchanged

-----------------------------------------------------------------------------
(* Start of any command: quarantine of stale runs                          *)

\* Mutants: the heartbeat or the child is not looked at.
StaleWhenFailed(r) == child[r] = "dead" /\ heartbeat[r] = "failed" /\ quiet[r]
StaleByClock(r)    == child[r] # "none" /\ heartbeat[r] = "running" /\ quiet[r]

Stale(r) == child[r] = "dead" /\ heartbeat[r] = "running" /\ quiet[r]

SafeToArchive(r) ==
  /\ runfile[r] = "running" /\ receipt[r] = "none"
  /\ decision[r] = NoDecision
  /\ Stale(r)

SweepBegin ==
  /\ sweep = {}
  /\ sweep' = {r \in Run : SafeToArchive(r)}
  /\ sweep' # {}
  /\ UNCHANGED <<plotVars, runVars, archived, cut, gateVars, drifted, spent>>

\* The whole directory is renamed, with whatever it holds by now.
SweepMove(r) ==
  /\ r \in sweep
  /\ sweep' = sweep \ {r}
  /\ archived' = archived \cup {r}
  /\ runfile' = [runfile EXCEPT ![r] = "none"]
  /\ context' = [context EXCEPT ![r] = FALSE]
  /\ heartbeat' = [heartbeat EXCEPT ![r] = "none"]
  /\ child' = [child EXCEPT ![r] = "none"]
  /\ receipt' = [receipt EXCEPT ![r] = "none"]
  /\ UNCHANGED <<plotVars, quiet, unheard, cut, gateVars, drifted, spent>>

-----------------------------------------------------------------------------
(* gate and proof                                                          *)

\* Mutant: a missing receipt.json is not an error.
ReceiptOptional(r) == TRUE

ReceiptThere(r) == receipt[r] # "none"

\* Run, receipt, contract and verification context are read; then checks run.
GateBegin(r) ==
  LET c == contract[ContractOf[r]]
  IN  /\ gate[r] = NoGate
      /\ spent.gates < MaxGates
      /\ runfile[r] # "none" /\ ReceiptThere(r)
      /\ c.status = "approved"
      /\ gate' = [gate EXCEPT ![r] = [text |-> c.text, receipt |-> receipt[r],
                                      valid |-> context[r] /\ r \notin drifted]]
      /\ spent' = [spent EXCEPT !.gates = @ + 1]
      /\ UNCHANGED <<plotVars, runVars, archived, cut, decision, prover, proof, sweep,
                     drifted>>

\* Mutants: the status of the checks is copied into the verdict; the receipt's status
\* is not part of the rule.
JudgeCopies(input, checks) ==
  IF input.receipt # "success" \/ ~input.valid THEN "block" ELSE checks

JudgeChecksOnly(input, checks) ==
  IF ~input.valid \/ checks = "fail" THEN "block"
  ELSE IF checks = "pass" THEN "accept" ELSE "escalate"

Judge(input, checks) ==
  IF input.receipt # "success" \/ ~input.valid \/ checks = "fail" THEN "block"
  ELSE IF checks = "pass" THEN "accept" ELSE "escalate"

\* The decision of an earlier gate is overwritten; or the command ends with an error
\* (a check or harness recipe that cannot be run) and leaves the decision alone.
GateEnd(r) ==
  /\ gate[r] # NoGate
  /\ \/ UNCHANGED decision
     \/ \E checks \in Checks :
          decision' = [decision EXCEPT ![r] =
            [verdict |-> Judge(gate[r], checks), checks |-> checks, text |-> gate[r].text,
             rev |-> @.rev + 1]]
  /\ gate' = [gate EXCEPT ![r] = NoGate]
  /\ UNCHANGED <<plotVars, runVars, archived, cut, prover, proof, sweep, drifted, spent>>

ProofBegin(r) ==
  /\ prover[r] = NoDecision
  /\ decision[r] # NoDecision
  /\ ReceiptThere(r)
  /\ prover' = [prover EXCEPT ![r] = decision[r]]
  /\ UNCHANGED <<plotVars, runVars, archived, cut, gate, decision, proof, sweep,
                 drifted, spent>>

\* Evidence comes from the decision read first, the hash from the file as it is now;
\* or a referenced file cannot be hashed and no proofpack is written.
ProofEnd(r) ==
  /\ prover[r] # NoDecision
  /\ \/ UNCHANGED proof
     \/ /\ ReceiptThere(r)
        /\ proof' = [proof EXCEPT ![r] = [read |-> prover[r], sealed |-> decision[r]]]
  /\ prover' = [prover EXCEPT ![r] = NoDecision]
  /\ UNCHANGED <<plotVars, runVars, archived, cut, gate, decision, sweep, drifted, spent>>

\* A user, a check or a surviving child changes files of the run's workspace.
WorkspaceDrifts(r) ==
  /\ r \notin drifted
  /\ context[r]
  /\ drifted' = drifted \cup {r}
  /\ UNCHANGED <<plotVars, runVars, archived, cut, gateVars, sweep, spent>>

-----------------------------------------------------------------------------
CutProgress(r) ==
  \/ CutRefused(r) \/ CutOpen(r) \/ CutStart(r) \/ StartupFailed(r) \/ Handoff(r)
  \/ CutSeal(r) \/ CutHeartbeat(r) \/ CutReceipt(r) \/ CutUnwound(r)

Next ==
  \/ \E c \in Contract : RefineBegin(c) \/ RefineEnd(c) \/ ApproveBegin(c) \/ ApproveEnd(c)
  \/ \E r \in Run :
       \/ CutBegin(r) \/ CutProgress(r) \/ SpawnChild(r) \/ ExecutorReturns(r)
       \/ CutUnwinds(r) \/ KillCut(r) \/ HeartbeatBeats(r)
       \/ ChildPrints(r) \/ ChildExits(r) \/ MinutePasses(r)
       \/ SweepMove(r)
       \/ GateBegin(r) \/ GateEnd(r) \/ ProofBegin(r) \/ ProofEnd(r)
       \/ WorkspaceDrifts(r)
  \/ SweepBegin

Spec == Init /\ [][Next]_vars

\* Cuts keep running; an executor ends each child by its timeout and makes finitely
\* many attempts; time passes; and some punk command is started again and again (each
\* starts with the sweep).  Nothing is assumed of plot, gate or proof.
FairSpec ==
  /\ Spec
  /\ WF_vars(SweepBegin)
  /\ \A r \in Run : /\ WF_vars(CutProgress(r))
                    /\ SF_vars(ExecutorReturns(r))
                    /\ WF_vars(ChildExits(r))
                    /\ WF_vars(MinutePasses(r))
                    /\ WF_vars(SweepMove(r))

-----------------------------------------------------------------------------
(* Properties                                                              *)

Place == {"idle", "claimed", "opened", "started", "executing", "executed", "sealed", "closed",
          "unwinding", "over"}
DecisionType == [verdict : Verdict \cup {"none"}, checks : Checks \cup {"none"},
                 text : 0 .. MaxTexts, rev : Nat]

\* Every file and every command in flight has its type.
TypeOK ==
  /\ contract \in [Contract -> [status : {"draft", "approved"}, text : Text]]
  /\ refining \subseteq Contract /\ overtaken \subseteq Contract
  /\ approving \in [Contract -> 0 .. MaxTexts]
  /\ runfile \in [Run -> {"none", "running", "finished", "failed"}]
  /\ context \in [Run -> BOOLEAN] /\ quiet \in [Run -> BOOLEAN]
  /\ heartbeat \in [Run -> {"none", "running", "finished", "failed"}]
  /\ child \in [Run -> {"none", "alive", "dead"}]
  /\ receipt \in [Run -> {"none", "success", "failure"}]
  /\ archived \subseteq Run /\ sweep \subseteq Run /\ drifted \subseteq Run
  /\ unheard \subseteq Run
  /\ cut \in [Run -> [at : Place, text : 0 .. MaxTexts,
                      report : {"none", "changed", "empty", "satisfied", "failure"},
                      result : {"none", "success", "failure"}]]
  /\ gate \in [Run -> [text : 0 .. MaxTexts, receipt : {"none", "success", "failure"},
                       valid : BOOLEAN]]
  /\ decision \in [Run -> DecisionType] /\ prover \in [Run -> DecisionType]
  /\ proof \in [Run -> [read : DecisionType, sealed : DecisionType]]
  /\ spent \in [gates : Nat, kills : Nat]

\* A receipt exists only next to a run.json that has ended, and the two agree on
\* the outcome: whoever reads the receipt first (gate) or the status first (the
\* ledger) comes to the same answer, wherever cut was killed.  Only files of a run that
\* a quarantine may have torn apart, because its cut was unheard, can tell two stories.
ReceiptAgrees ==
  \A r \in Run \ unheard : receipt[r] # "none" =>
    runfile[r] = IF receipt[r] = "success" THEN "finished" ELSE "failed"

\* An accept is of a run whose cut ended after its executor had reported a success with
\* changes, or that the entry points were as the contract asks beforehand, and whose checks
\* all passed in the gate that wrote the decision; and, unless its cut was unheard, the
\* receipt, the finished run.json and the frozen context it rests on are still there.  No
\* kill, quarantine, repeated gate or overlapping plot command leads to another accept.
AcceptEarned ==
  \A r \in Run : decision[r].verdict = "accept" =>
    /\ cut[r].at = "over" /\ cut[r].report \in {"changed", "satisfied"}
    /\ decision[r].checks = "pass"
    /\ r \notin unheard => receipt[r] = "success" /\ runfile[r] = "finished" /\ context[r]

\* "gate always evaluates frozen persisted inputs": the contract text a decision
\* judges is the text the run was executed from.
Misjudged(r) == decision[r] # NoDecision /\ decision[r].text # cut[r].text

JudgesExecutedText == \A r \in Run : ~Misjudged(r)

\* Where it is not, the contract was approved while a refine of it was under way: no other
\* order of refines, approves, cuts and gates has a run judged by a text it was not
\* executed from, overlaps in which the refine or the approve fails included.
OnlyOvertakenMisjudged == \A r \in Run : Misjudged(r) => ContractOf[r] \in overtaken

\* A quarantined run is over: its cut process has ended, and no receipt, decision
\* or proof is ever written for it in a directory that was moved away.
Over(r) == cut[r].at = "over" /\ runfile[r] = "none" /\ receipt[r] = "none"
           /\ decision[r] = NoDecision /\ proof[r] = NoProof

ArchivedIsOver == \A r \in archived : Over(r)

\* A quarantine that moves a run away before its cut was over has found it unheard: its
\* child had ended and a minute had passed without output while cut worked on.  A cut that
\* has a living child, or prints, or is past its heartbeat is never taken for dead, however
\* long ago the quarantine made its list.
OnlyUnheardTaken ==
  \A r \in Run \ unheard : /\ r \in archived => Over(r)
                          /\ r \in sweep => cut[r].at = "over" /\ receipt[r] = "none"

\* Every reference of a proofpack leads to a file: decision, receipt, run and, for
\* an accepted run, the frozen verification context, unless the cut was unheard.
ChainResolves ==
  \A r \in Run : proof[r] # NoProof =>
    /\ decision[r] # NoDecision
    /\ r \notin unheard =>
         /\ receipt[r] # "none" /\ runfile[r] # "none"
         /\ (proof[r].sealed.verdict = "accept") => context[r]

\* "Proofpack must point to immutable refs and hashes": the decision whose hash a
\* proofpack carries is the decision on disk.
ProofCurrent ==
  \A r \in Run : proof[r] # NoProof => proof[r].sealed = decision[r]

\* A run that reached its executor does not stay "running" for ever, also when its cut was
\* killed: it ends or a later command quarantines it.  The one way to stay is a cut killed
\* between the two guards of an unwinding: the heartbeat says failed and stale_run_reason
\* looks no further.
Stranded(r) == cut[r].at = "over" /\ heartbeat[r] = "failed"

RunSettles ==
  \A r \in Run : (runfile[r] = "running" /\ child[r] # "none")
                   ~> (runfile[r] # "running" \/ Stranded(r))
=============================================================================
