------------------------------ MODULE Incidents ------------------------------
(***************************************************************************)
(* What happens to a captured incident (crates/punk-orch): it is submitted *)
(* as an issue on GitHub, the issues are admitted or closed, and it is     *)
(* promoted to a contract in the repository that is to fix it, which is    *)
(* run and run again.  Every command is a process of its own; nothing      *)
(* locks a record, and gh is called between the writes of a record.        *)
(***************************************************************************)
EXTENDS Integers, Sequences, FiniteSets

CONSTANTS
  Incident, Submission, Promotion,
  Verdict,      \* [Incident -> Decision]: what the text of its reports amounts to
  Process,      \* commands that can be at work at the same time
  PageSize,     \* issues that one listing returns
  MaxCommands, MaxKills, MaxOthers   \* bounds: commands, kills, what others do on GitHub

Decision == {"close_now", "defer_after_core", "core_now"}

ASSUME IncidentsAssumption ==
  /\ Verdict \in [Incident -> Decision]
  /\ "none" \notin Submission
  /\ PageSize \in Nat
  /\ MaxCommands \in Nat /\ MaxKills \in Nat /\ MaxOthers \in Nat

VARIABLES
  sub,        \* .punk/submissions: the record of each submission
  issues,     \* issues and pull requests of the GitHub repository, by number
  admitted,   \* per issue: an admission record of it says "applied"
  source,     \* .punk/promotions of the repository with the incident
  target,     \* .punk/promotions of the repository to fix
  proofs,     \* history: complete cycles of each promotion, up to proof
  place,      \* history: where each promotion was rerun last: in the "source", in the
              \* "target", or "back" in the source after that
  proc,       \* commands at work
  unsure,     \* history: submissions and promotions that two commands worked on at
              \* once, or on which one was killed, lost an answer or failed to record
  used        \* commands, kills, pull requests and closings by hand so far

issueVars     == <<sub, issues, admitted>>
promotionVars == <<source, target, proofs, place>>
vars == <<issueVars, promotionVars, proc, unsure, used>>

Nobody == "none"
Idle   == [cmd |-> "none", at |-> "start"]
NoSub  == [state |-> "absent", incident |-> Nobody, issue |-> 0]
NoProm == [made |-> FALSE, attempts |-> 0, failed |-> FALSE, executed |-> FALSE]
NewProm == [NoProm EXCEPT !.made = TRUE]

Number == 1 .. Len(issues)
IssuesOf(i) == {n \in Number : issues[n].incident = i /\ ~issues[n].pull}

\* What a command works on.
Works(p, thing) == proc[p].cmd # "none" /\ proc[p].on = thing
Busy(thing)     == \E p \in Process : Works(p, thing)

\* Admissions are not kept track of.
Doubt(thing) == unsure \cup ({thing} \cap (Submission \cup Promotion))

Begin(p, state) ==
  /\ proc[p] = Idle /\ used.commands < MaxCommands
  /\ used' = [used EXCEPT !.commands = @ + 1]
  /\ proc' = [proc EXCEPT ![p] = state]
  /\ unsure' = IF Busy(state.on) THEN Doubt(state.on) ELSE unsure

Goto(p, at) == proc' = [proc EXCEPT ![p].at = at]
Ends(p)     == proc' = [proc EXCEPT ![p] = Idle]

-----------------------------------------------------------------------------
(* incident submit, incident resubmit                                      *)

\* A submission is prepared first; a second one of the same incident is allowed.
Submit(p, s, i) ==
  /\ sub[s] = NoSub
  /\ sub' = [sub EXCEPT ![s] = [NoSub EXCEPT !.state = "prepared", !.incident = i]]
  /\ \/ Begin(p, [cmd |-> "submit", on |-> s, at |-> "publish"])
     \/ \* without --publish
        /\ used.commands < MaxCommands
        /\ used' = [used EXCEPT !.commands = @ + 1]
        /\ UNCHANGED <<proc, unsure>>
  /\ UNCHANGED <<issues, admitted, promotionVars>>

\* Mutant: a published submission is published once more.
ResubmittableAny(s) == sub[s].state # "absent"

Resubmittable(s) == sub[s].state \notin {"absent", "submitted"}

Resubmit(p, s) ==
  /\ Resubmittable(s)
  /\ Begin(p, [cmd |-> "resubmit", on |-> s, at |-> "publish"])
  /\ UNCHANGED <<issueVars, promotionVars>>

Open(i, s, pull) ==
  [incident |-> i, by |-> s, pull |-> pull, open |-> TRUE,
   resolved |-> FALSE, label |-> "none"]

\* gh api --method POST: the issue is created and named by the answer; or is created
\* and the answer is lost or unreadable; or is not created.
Publish(p) ==
  LET s == proc[p].on
      new == Open(sub[s].incident, s, FALSE)
  IN  /\ proc[p].at = "publish"
      /\ \/ /\ issues' = Append(issues, new)
            /\ admitted' = Append(admitted, FALSE)
            /\ proc' = [proc EXCEPT ![p] =
                          [cmd |-> @.cmd, on |-> s, at |-> "published", issue |-> Len(issues')]]
            /\ UNCHANGED unsure
         \/ /\ issues' = Append(issues, new)
            /\ admitted' = Append(admitted, FALSE)
            /\ Goto(p, "failed")
            /\ unsure' = Doubt(s)
         \/ Goto(p, "failed") /\ UNCHANGED <<issues, admitted, unsure>>
      /\ UNCHANGED <<sub, promotionVars, used>>

\* Mutant: the answer is not waited for.
RecordPublishedAny(p) ==
  /\ proc[p].cmd \in {"submit", "resubmit"} /\ proc[p].at \in {"published", "failed"}
  /\ sub' = [sub EXCEPT ![proc[p].on].state = "submitted", ![proc[p].on].issue = Len(issues)]
  /\ Ends(p)
  /\ UNCHANGED <<issues, admitted, promotionVars, unsure, used>>

\* Mutant: the number of the next issue.
RecordPublishedNext(p) ==
  /\ proc[p].cmd \in {"submit", "resubmit"} /\ proc[p].at = "published"
  /\ sub' = [sub EXCEPT ![proc[p].on].state = "submitted", ![proc[p].on].issue = Len(issues) + 1]
  /\ Ends(p)
  /\ UNCHANGED <<issues, admitted, promotionVars, unsure, used>>

RecordPublished(p) ==
  /\ proc[p].cmd \in {"submit", "resubmit"} /\ proc[p].at = "published"
  /\ sub' = [sub EXCEPT ![proc[p].on].state = "submitted", ![proc[p].on].issue = proc[p].issue]
  /\ Ends(p)
  /\ UNCHANGED <<issues, admitted, promotionVars, unsure, used>>

RecordUnpublished(p) ==
  /\ proc[p].cmd \in {"submit", "resubmit"} /\ proc[p].at = "failed"
  /\ sub' = [sub EXCEPT ![proc[p].on].state = "publish_failed", ![proc[p].on].issue = 0]
  /\ Ends(p)
  /\ UNCHANGED <<issues, admitted, promotionVars, unsure, used>>

-----------------------------------------------------------------------------
(* issue admit                                                             *)

\* The latest issues and pull requests: one request, one page.
Listed == {n \in Number : n > Len(issues) - PageSize}

\* Mutant: any other issue of the incident makes this one a duplicate.
DuplicateOfAny(n) ==
  \E m \in Listed : m # n /\ ~issues[m].pull /\ issues[m].incident = issues[n].incident

Duplicate(n) ==
  \E m \in Listed : m < n /\ ~issues[m].pull /\ issues[m].incident = issues[n].incident

\* evaluate_incident_issue_admission
Assess(n) ==
  IF Duplicate(n) \/ ~issues[n].open \/ issues[n].resolved
  THEN "close_now" ELSE Verdict[issues[n].incident]

\* Fetches, lists, assesses and writes a preview.  The labels of the issue are those
\* fetched here.
Admit(p, n) ==
  /\ n \in Number /\ ~issues[n].pull
  /\ Begin(p, [cmd |-> "admit", on |-> n, at |-> "label",
               decision |-> Assess(n), resolved |-> issues[n].resolved])
  /\ UNCHANGED <<issueVars, promotionVars>>

\* All labels are replaced: those fetched, less an admission label, plus the new one;
\* then comes the comment, which may fail.
ApplyLabels(p) ==
  /\ proc[p].cmd = "admit" /\ proc[p].at = "label"
  /\ issues' = [issues EXCEPT ![proc[p].on].label = proc[p].decision,
                              ![proc[p].on].resolved = proc[p].resolved]
  /\ \E at \in {"failed", IF proc[p].decision = "close_now" THEN "close" ELSE "done"} : Goto(p, at)
  /\ UNCHANGED <<sub, admitted, promotionVars, unsure, used>>

CloseIssue(p) ==
  /\ proc[p].cmd = "admit" /\ proc[p].at = "close"
  /\ issues' = [issues EXCEPT ![proc[p].on].open = FALSE]
  /\ Goto(p, "done")
  /\ UNCHANGED <<sub, admitted, promotionVars, unsure, used>>

\* A call of gh fails: the label, the labels or the state.
AdmissionFails(p) ==
  /\ proc[p].cmd = "admit" /\ proc[p].at \in {"label", "close"}
  /\ Goto(p, "failed")
  /\ UNCHANGED <<issueVars, promotionVars, unsure, used>>

\* Mutant: the record says applied although a call failed.
RecordAdmissionAny(p) ==
  /\ proc[p].cmd = "admit" /\ proc[p].at \in {"done", "failed"}
  /\ admitted' = [admitted EXCEPT ![proc[p].on] = TRUE]
  /\ Ends(p)
  /\ UNCHANGED <<sub, issues, promotionVars, unsure, used>>

RecordAdmission(p) ==
  /\ proc[p].cmd = "admit" /\ proc[p].at \in {"done", "failed"}
  /\ admitted' = [admitted EXCEPT ![proc[p].on] = @ \/ proc[p].at = "done"]
  /\ Ends(p)
  /\ UNCHANGED <<sub, issues, promotionVars, unsure, used>>

\* Others at work on GitHub: a pull request that names the incident; a maintainer
\* who closes an issue, or labels it as a duplicate, invalid or the like.
OpenPull(i) ==
  /\ used.pulls + used.hand < MaxOthers
  /\ used' = [used EXCEPT !.pulls = @ + 1]
  /\ issues' = Append(issues, Open(i, Nobody, TRUE))
  /\ admitted' = Append(admitted, FALSE)
  /\ UNCHANGED <<sub, promotionVars, proc, unsure>>

ResolveByHand(n) ==
  /\ n \in Number /\ ~issues[n].pull
  /\ used.pulls + used.hand < MaxOthers
  /\ used' = [used EXCEPT !.hand = @ + 1]
  /\ \/ issues' = [issues EXCEPT ![n].open = FALSE]
     \/ issues' = [issues EXCEPT ![n].resolved = TRUE]
  /\ UNCHANGED <<sub, admitted, promotionVars, proc, unsure>>

-----------------------------------------------------------------------------
(* incident promote, incident rerun                                        *)

\* Drafts the contract in the target, then writes the record twice.
Promote(p, m) ==
  /\ ~source[m].made
  /\ Begin(p, [cmd |-> "promote", on |-> m, at |-> "copy", home |-> "source", copy |-> NewProm])
  /\ source' = [source EXCEPT ![m] = NewProm]
  /\ UNCHANGED <<issueVars, target, proofs, place>>

\* With --auto-run the command goes on as a rerun in the source does.  When the copy
\* cannot be written, the source keeps a record that the target has not.
WriteCopy(p) ==
  /\ proc[p].cmd = "promote" /\ proc[p].at = "copy"
  /\ \/ /\ target' = [target EXCEPT ![proc[p].on] = proc[p].copy]
        /\ \/ Ends(p)
           \/ proc' = [proc EXCEPT ![p].cmd = "rerun", ![p].at = "cycle", ![p].copy = NoProm]
     \/ Ends(p) /\ UNCHANGED target
  /\ UNCHANGED <<issueVars, source, proofs, place, unsure, used>>

\* The record in the repository a command runs in.
Home == {"source", "target"}
Record(m, home) == IF home = "source" THEN source[m] ELSE target[m]

\* Mutant: an executed promotion is executed again.
RerunnableAny(m, home) == Record(m, home).made

Rerunnable(m, home) == Record(m, home).made /\ ~Record(m, home).executed

\* Both repositories have a record, and the command goes by the one it runs in.
Rerun(p, m, home) ==
  /\ Rerunnable(m, home)
  /\ Begin(p, [cmd |-> "rerun", on |-> m, at |-> "cycle", home |-> home, copy |-> NoProm])
  /\ place' = [place EXCEPT ![m] =
                 IF home = "source" THEN IF @ = "source" THEN @ ELSE "back"
                 ELSE IF @ = "back" THEN @ ELSE "target"]
  /\ UNCHANGED <<issueVars, source, target, proofs>>

\* approve (a draft), cut, gate, proof in the target: all of it, or up to an error.
Cycle(p) ==
  LET m == proc[p].on
  IN  /\ proc[p].cmd = "rerun" /\ proc[p].at = "cycle"
      /\ \/ /\ proofs' = [proofs EXCEPT ![m] = @ + 1]
            /\ Goto(p, "record")
         \/ Goto(p, "fail") /\ UNCHANGED proofs
      /\ UNCHANGED <<issueVars, source, target, place, unsure, used>>

\* The command's own record is read again and written with the execution or the failure.
Executed(record) == [record EXCEPT !.attempts = @ + 1, !.failed = FALSE, !.executed = TRUE]
Failed(record)   == [record EXCEPT !.attempts = @ + 1, !.failed = TRUE]

RecordHome(p) ==
  LET m    == proc[p].on
      home == proc[p].home
      new  == IF proc[p].at = "record" THEN Executed(Record(m, home)) ELSE Failed(Record(m, home))
  IN  /\ proc[p].cmd = "rerun" /\ proc[p].at \in {"record", "fail"}
      /\ source' = IF home = "source" THEN [source EXCEPT ![m] = new] ELSE source
      /\ target' = IF home = "target" THEN [target EXCEPT ![m] = new] ELSE target
      /\ proc' = [proc EXCEPT ![p].at = IF @ = "record" THEN "recordCopy" ELSE "failCopy",
                              ![p].copy = new]
      /\ UNCHANGED <<issueVars, proofs, place, unsure, used>>

\* Mutant: the target gets the record as the command found it.
RecordTargetOld(p) ==
  LET m == proc[p].on
  IN  /\ proc[p].cmd = "rerun" /\ proc[p].at \in {"recordCopy", "failCopy"} /\ target[m].made
      /\ target' = [target EXCEPT ![m] = IF proc[p].at = "failCopy" THEN @ ELSE proc[p].copy]
      /\ Ends(p)
      /\ UNCHANGED <<issueVars, source, proofs, place, unsure, used>>

\* Then the target's: for a command that runs in the target, the same file once more.
RecordTarget(p) ==
  LET m == proc[p].on
  IN  /\ proc[p].cmd = "rerun" /\ proc[p].at \in {"recordCopy", "failCopy"} /\ target[m].made
      /\ target' = [target EXCEPT ![m] = proc[p].copy]
      /\ Ends(p)
      /\ UNCHANGED <<issueVars, source, proofs, place, unsure, used>>

\* A record is not found or not written, or an event cannot be appended after it: an
\* execution is then recorded as a failure on top, a failure is given up.
RecordFails(p) ==
  LET m == proc[p].on
      written == proc[p].at \in {"recordCopy", "failCopy"} /\ target[m].made
  IN  /\ proc[p].cmd = "rerun" /\ proc[p].at \in {"record", "fail", "recordCopy", "failCopy"}
      /\ \/ UNCHANGED target
         \/ written /\ target' = [target EXCEPT ![m] = proc[p].copy]
      /\ IF proc[p].at \in {"record", "recordCopy"} THEN Goto(p, "fail") ELSE Ends(p)
      /\ unsure' = IF proc[p].at = "recordCopy" THEN unsure ELSE Doubt(m)
      /\ UNCHANGED <<issueVars, source, proofs, place, used>>

-----------------------------------------------------------------------------
Kill(p) ==
  /\ proc[p] # Idle /\ used.kills < MaxKills
  /\ used' = [used EXCEPT !.kills = @ + 1]
  /\ Ends(p)
  /\ unsure' = Doubt(proc[p].on)
  /\ UNCHANGED <<issueVars, promotionVars>>

Init ==
  /\ sub = [s \in Submission |-> NoSub]
  /\ issues = <<>> /\ admitted = <<>>
  /\ source = [m \in Promotion |-> NoProm] /\ target = source
  /\ proofs = [m \in Promotion |-> 0] /\ place = [m \in Promotion |-> "source"]
  /\ proc = [p \in Process |-> Idle]
  /\ unsure = {}
  /\ used = [commands |-> 0, kills |-> 0, pulls |-> 0, hand |-> 0]

Next ==
  \/ \E p \in Process :
       \/ \E s \in Submission : Resubmit(p, s) \/ \E i \in Incident : Submit(p, s, i)
       \/ Publish(p) \/ RecordPublished(p) \/ RecordUnpublished(p)
       \/ \E n \in Number : Admit(p, n)
       \/ ApplyLabels(p) \/ CloseIssue(p) \/ AdmissionFails(p) \/ RecordAdmission(p)
       \/ \E m \in Promotion : Promote(p, m) \/ \E home \in Home : Rerun(p, m, home)
       \/ WriteCopy(p) \/ Cycle(p) \/ RecordHome(p) \/ RecordTarget(p) \/ RecordFails(p)
       \/ Kill(p)
  \/ \E i \in Incident : OpenPull(i)
  \/ \E n \in Number : ResolveByHand(n)

Spec == Init /\ [][Next]_vars

-----------------------------------------------------------------------------
(* Properties                                                              *)

PromotionType == [made : BOOLEAN, attempts : Nat, failed : BOOLEAN, executed : BOOLEAN]

\* Records, issues and commands have their types.
TypeOK ==
  /\ \A s \in Submission :
       /\ sub[s].state \in {"absent", "prepared", "submitted", "publish_failed"}
       /\ sub[s].incident \in Incident \cup {Nobody}
       /\ sub[s].issue \in Number \cup {0}
  /\ \A n \in Number :
       /\ issues[n].incident \in Incident /\ issues[n].by \in Submission \cup {Nobody}
       /\ issues[n].label \in Decision \cup {"none"}
       /\ {issues[n].pull, issues[n].open, issues[n].resolved, admitted[n]} \subseteq BOOLEAN
  /\ source \in [Promotion -> PromotionType] /\ target \in [Promotion -> PromotionType]
  /\ proofs \in [Promotion -> Nat] /\ place \in [Promotion -> {"source", "target", "back"}]
  /\ \A p \in Process : proc[p].cmd \in {"none", "submit", "resubmit", "admit", "promote", "rerun"}
  /\ unsure \subseteq Submission \cup Promotion

\* A submission recorded as submitted names an issue that was created for it and
\* describes its incident, whatever was retried, raced or killed on the way.
SubmittedNamesIssue ==
  \A s \in Submission : sub[s].state = "submitted" =>
    /\ sub[s].issue \in Number
    /\ issues[sub[s].issue].by = s
    /\ issues[sub[s].issue].incident = sub[s].incident

\* "to avoid accidental duplicate issues": a submission is published once, however
\* often it is retried, unless two commands publish it at once, or one of them was
\* killed, or the answer of gh was lost.
PublishedOnce ==
  \A s \in Submission \ unsure : Cardinality({n \in Number : issues[n].by = s}) <= 1

\* An incident is never lost to its own duplicates: the first issue of an incident that
\* is worth keeping stays open until a maintainer resolves an issue by hand, also
\* while several of them are admitted at once.
FirstIssueStays ==
  \A n \in Number :
    /\ ~issues[n].pull /\ Verdict[issues[n].incident] # "close_now" /\ used.hand = 0
    /\ \A m \in IssuesOf(issues[n].incident) : n <= m
    => issues[n].open

\* Admission leaves at most one open issue per incident once every issue of it is
\* admitted, as long as one page of the listing shows them all.
OneIssueOpen ==
  \A i \in Incident :
    Len(issues) <= PageSize /\ (\A n \in IssuesOf(i) : admitted[n]) =>
      Cardinality({n \in IssuesOf(i) : issues[n].open}) <= 1

\* "already has a completed execution": a promoted contract is taken through a complete
\* cycle once, its reruns end with the first proof, also when the repository it is rerun
\* in changes from the source to the target.  Not back again (the source never learns
\* what the target's commands did), and not when two reruns overlapped, one was killed,
\* or what it did could not be recorded.
ExecutedOnce == \A m \in Promotion \ unsure : place[m] # "back" => proofs[m] <= 1

\* Whenever no command works on a promotion, the target's record of it says whether it
\* was executed, failed attempts to write it included; and as long as it was rerun in
\* the source only, the source's record is the same.  Again unless a rerun came back
\* from the target to the source, two overlapped, one was killed, or what it did could
\* not be recorded.
CopiesAgree ==
  \A m \in Promotion \ unsure : ~Busy(m) /\ target[m].made =>
    /\ place[m] # "back" => (target[m].executed <=> proofs[m] = 1)
    /\ place[m] = "source" => source[m] = target[m]
=============================================================================
