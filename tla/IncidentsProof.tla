--------------------------- MODULE IncidentsProof ---------------------------
(***************************************************************************)
(* Theorems about Incidents, for every value of its constants: any number  *)
(* of incidents, submissions, promotions and commands at once, any page    *)
(* size, and any bounds on what users, GitHub and failures do.             *)
(***************************************************************************)
EXTENDS Incidents, SequenceTheorems, FiniteSetTheorems, TLAPS

Pub == {"submit", "resubmit"}
Run == {"promote", "rerun"}

-----------------------------------------------------------------------------
(* The inductive invariant                                                 *)

SubType   == [state : {"absent", "prepared", "submitted", "publish_failed"},
              incident : Incident \cup {Nobody}, issue : Nat]
IssueType == [incident : Incident, by : Submission \cup {Nobody}, pull : BOOLEAN,
              open : BOOLEAN, resolved : BOOLEAN, label : Decision \cup {"none"}]

PublishType   == [cmd : Pub, on : Submission, at : {"publish", "failed"}]
PublishedType == [cmd : Pub, on : Submission, at : {"published"}, issue : Nat]
AdmitType     == [cmd : {"admit"}, on : Nat, at : {"label", "close", "done", "failed"},
                  decision : Decision, resolved : BOOLEAN]
RunType       == [cmd : Run, on : Promotion,
                  at : {"copy", "cycle", "record", "fail", "recordCopy", "failCopy"},
                  home : Home, copy : PromotionType]
ProcType      == {Idle} \cup PublishType \cup PublishedType \cup AdmitType \cup RunType

Types ==
  /\ sub \in [Submission -> SubType]
  /\ issues \in Seq(IssueType)
  /\ admitted \in Seq(BOOLEAN) /\ Len(admitted) = Len(issues)
  /\ source \in [Promotion -> PromotionType] /\ target \in [Promotion -> PromotionType]
  /\ proofs \in [Promotion -> Nat] /\ place \in [Promotion -> {"source", "target", "back"}]
  /\ proc \in [Process -> ProcType]
  /\ unsure \subseteq Submission \cup Promotion
  /\ used \in [commands : Nat, kills : Nat, pulls : Nat, hand : Nat]

\* One command at a time works on what is not in doubt.
Alone ==
  \A t \in (Submission \cup Promotion) \ unsure : \A p, q \in Process :
    Works(p, t) /\ Works(q, t) => p = q

Publishes(p, s) == proc[p].cmd \in Pub /\ proc[p].on = s
Runs(p, m)      == proc[p].cmd \in Run /\ proc[p].on = m

\* A number a command was given is that of an issue of its submission.
Names(s, n) ==
  n \in Number /\ issues[n].by = s /\ issues[n].incident = sub[s].incident

Submissions ==
  \A s \in Submission :
    /\ sub[s].state = "absent" =>
         /\ \A n \in Number : issues[n].by # s
         /\ \A p \in Process : ~Publishes(p, s)
    /\ sub[s].state # "absent" => sub[s].incident \in Incident
    /\ sub[s].issue \in Number \cup {0}
    /\ sub[s].state = "submitted" => Names(s, sub[s].issue)
    /\ \A p \in Process : Publishes(p, s) /\ proc[p].at = "published" => Names(s, proc[p].issue)

\* A submission in no doubt has an issue only if it says so, or a command is about to.
Published ==
  \A s \in Submission \ unsure :
    /\ \A n, k \in Number : issues[n].by = s /\ issues[k].by = s => n = k
    /\ \A p \in Process : Publishes(p, s) => sub[s].state \in {"prepared", "publish_failed"}
    /\ /\ sub[s].state \in {"prepared", "publish_failed"}
       /\ \A p \in Process : ~(Publishes(p, s) /\ proc[p].at = "published")
       => \A n \in Number : issues[n].by # s

Promotions ==
  \A m \in Promotion : ~source[m].made =>
    /\ proofs[m] = 0 /\ place[m] = "source" /\ source[m] = target[m]
    /\ \A p \in Process : ~Runs(p, m)

\* The record that the last rerun went by.
Current(m) == IF place[m] = "target" THEN target[m] ELSE source[m]

\* What a command that runs a promotion in no doubt holds.
Holds(p, m) ==
  /\ proc[p].at = "copy" =>
       /\ proofs[m] = 0 /\ place[m] = "source" /\ ~target[m].made
       /\ proc[p].home = "source" /\ proc[p].copy = source[m]
  /\ proc[p].home = "source" => place[m] # "target"
  /\ proc[p].home = "target" => place[m] # "source"
  /\ proc[p].at = "cycle" /\ place[m] # "back" => proofs[m] = 0
  /\ proc[p].at = "record" /\ place[m] # "back" => proofs[m] = 1
  /\ proc[p].at \in {"recordCopy", "failCopy"} => proc[p].copy = Record(m, proc[p].home)

\* A promotion in no doubt was executed only if it says so, or a command is about to;
\* and as long as it was rerun in the source only, its copies differ only while a command
\* holds what to write.
Executions ==
  \A m \in Promotion \ unsure :
    /\ place[m] # "back" =>
         /\ proofs[m] <= 1
         /\ Current(m).executed => proofs[m] = 1
         /\ \/ proofs[m] = 0 \/ Current(m).executed
            \/ \E p \in Process : Runs(p, m) /\ proc[p].at = "record"
    /\ \A p \in Process : Runs(p, m) => Holds(p, m)
    /\ (\A p \in Process : ~Runs(p, m)) /\ place[m] = "source" /\ target[m].made =>
         source[m] = target[m]

First(n) == \A k \in IssuesOf(issues[n].incident) : n <= k

Admitting(p, n) == proc[p].cmd = "admit" /\ proc[p].on = n

Admissions ==
  /\ used.hand = 0 => /\ \A n \in Number : ~issues[n].resolved
                      /\ \A p \in Process : proc[p].cmd = "admit" => ~proc[p].resolved
  /\ \A p \in Process : proc[p].cmd = "admit" => proc[p].on \in Number
  /\ \A p \in Process : proc[p].cmd = "admit" /\ proc[p].at = "close" =>
       proc[p].decision = "close_now"
  /\ \A n \in Number :
       used.hand = 0 /\ ~issues[n].pull /\ First(n) /\ Verdict[issues[n].incident] # "close_now" =>
         /\ issues[n].open
         /\ \A p \in Process : Admitting(p, n) => proc[p].decision # "close_now"
  /\ \A n \in Number :
       Len(issues) <= PageSize /\ ~issues[n].pull /\ ~First(n) =>
         /\ admitted[n] => ~issues[n].open
         /\ \A p \in Process : Admitting(p, n) =>
              proc[p].decision = "close_now" /\ (proc[p].at = "done" => ~issues[n].open)

Inv == Types /\ Alone /\ Submissions /\ Published /\ Promotions /\ Executions /\ Admissions

-----------------------------------------------------------------------------
(* Commands                                                                *)

\* What a command does tells what it holds.
LEMMA Kinds ==
  ASSUME NEW r \in ProcType
  PROVE  /\ r.cmd \in {"none", "admit"} \cup Pub \cup Run
         /\ r.cmd = "none" => r = Idle
         /\ r.cmd \in Pub => r.on \in Submission /\ r \in PublishType \cup PublishedType
         /\ r.at = "publish" => r \in PublishType
         /\ r.at = "published" => r \in PublishedType
         /\ r.cmd = "admit" => r \in AdmitType
         /\ r.cmd \in Run => r \in RunType
         /\ r \in PublishType \cup PublishedType => r.cmd \in Pub
         /\ r \in AdmitType => r.cmd = "admit"
         /\ r \in RunType => r.cmd \in Run
<1>1. CASE r = Idle
  BY <1>1 DEF Idle, Pub, Run, PublishType, PublishedType, AdmitType, RunType
<1>2. CASE r \in PublishType
  BY <1>2 DEF PublishType, Pub, Run, AdmitType, RunType
<1>3. CASE r \in PublishedType
  BY <1>3 DEF PublishedType, Pub, Run, AdmitType, RunType
<1>4. CASE r \in AdmitType
  BY <1>4 DEF AdmitType, Pub, Run, PublishType, PublishedType, RunType
<1>5. CASE r \in RunType
  BY <1>5 DEF RunType, Pub, Run, PublishType, PublishedType, AdmitType
<1> QED BY <1>1, <1>2, <1>3, <1>4, <1>5 DEF ProcType

\* One command moves, the others stay.
LEMMA Moves ==
  ASSUME NEW p \in Process, NEW r \in ProcType, proc \in [Process -> ProcType],
         proc' = [proc EXCEPT ![p] = r]
  PROVE  /\ proc' \in [Process -> ProcType] /\ proc'[p] = r
         /\ \A q \in Process : q # p => proc'[q] = proc[q]
OBVIOUS

LEMMA GotoPublish ==
  ASSUME NEW r \in PublishType, NEW at \in {"publish", "failed"}
  PROVE  LET q == [r EXCEPT !.at = at]
         IN  q \in PublishType /\ q.cmd = r.cmd /\ q.on = r.on /\ q.at = at
BY DEF PublishType

LEMMA GotoAdmit ==
  ASSUME NEW r \in AdmitType, NEW at \in {"label", "close", "done", "failed"}
  PROVE  LET q == [r EXCEPT !.at = at]
         IN  /\ q \in AdmitType /\ q.cmd = r.cmd /\ q.on = r.on /\ q.at = at
             /\ q.decision = r.decision /\ (q.resolved => r.resolved)
BY DEF AdmitType

LEMMA GotoRun ==
  ASSUME NEW r \in RunType,
         NEW at \in {"copy", "cycle", "record", "fail", "recordCopy", "failCopy"}
  PROVE  LET q == [r EXCEPT !.at = at]
         IN  /\ q \in RunType /\ q.cmd = r.cmd /\ q.on = r.on /\ q.at = at
             /\ q.home = r.home /\ q.copy = r.copy
BY DEF RunType

\* A command that ends, or goes on with what it has, works beside no other.
LEMMA AloneGoesOn ==
  ASSUME Alone, NEW p \in Process, unsure \subseteq unsure',
         \A q \in Process : q # p => proc'[q] = proc[q],
         \/ proc'[p].cmd = "none"
         \/ proc[p].cmd # "none" /\ proc'[p].on = proc[p].on
  PROVE  Alone'
BY DEF Alone, Works

LEMMA AloneBegins ==
  ASSUME Types, Alone, NEW p \in Process, NEW state, Begin(p, state), proc'[p] = state,
         \A q \in Process : q # p => proc'[q] = proc[q]
  PROVE  Alone' /\ unsure \subseteq unsure' /\ unsure' \subseteq Submission \cup Promotion
<1>1. unsure \subseteq unsure' /\ unsure' \subseteq Submission \cup Promotion
  BY DEF Begin, Doubt, Types
<1>2. SUFFICES ASSUME NEW t \in (Submission \cup Promotion) \ unsure', NEW q \in Process, NEW k \in Process,
                      Works(q, t)', Works(k, t)'
               PROVE  q = k
  BY <1>1 DEF Alone
<1>3. t = state.on => ~Busy(t)
  BY DEF Begin, Doubt
<1>4. \A x \in Process : x # p => (Works(x, t)' <=> Works(x, t))
  BY DEF Works
<1>5. Works(p, t)' => t = state.on
  BY DEF Works
<1> QED BY <1>1, <1>2, <1>3, <1>4, <1>5 DEF Alone, Busy

-----------------------------------------------------------------------------
(* What a step of another part leaves alone                                *)

\* A command that is not publishing disturbs no submission.
LEMMA SubmissionsStay ==
  ASSUME Types, Submissions, Published, NEW p \in Process, unsure \subseteq unsure', sub' = sub,
         \A q \in Process : q # p => proc'[q] = proc[q],
         proc[p].cmd \notin Pub, proc'[p].cmd \notin Pub,
         Len(issues') = Len(issues),
         \A n \in Number : issues'[n].by = issues[n].by /\ issues'[n].incident = issues[n].incident
  PROVE  Submissions' /\ Published'
<1>1. Number' = Number
  BY DEF Number
<1>2. \A q \in Process : \A s : Publishes(q, s)' => Publishes(q, s) /\ proc'[q] = proc[q]
  BY DEF Publishes
<1>3. \A q \in Process : \A s : Publishes(q, s) => Publishes(q, s)' /\ proc'[q] = proc[q]
  BY DEF Publishes
<1>4. \A s, n : Names(s, n) => Names(s, n)'
  BY <1>1 DEF Names
<1>5. Submissions'
  BY <1>1, <1>2, <1>4 DEF Submissions
<1>6. Published'
  BY <1>1, <1>2, <1>3 DEF Published
<1> QED BY <1>5, <1>6

\* A command that is not running a promotion disturbs no promotion.
LEMMA PromotionsStay ==
  ASSUME Types, Promotions, Executions, NEW p \in Process, unsure \subseteq unsure',
         UNCHANGED promotionVars,
         \A q \in Process : q # p => proc'[q] = proc[q],
         proc[p].cmd \notin Run, proc'[p].cmd \notin Run
  PROVE  Promotions' /\ Executions'
<1> USE DEF promotionVars
<1>1. \A q \in Process : \A m : Runs(q, m)' => Runs(q, m) /\ proc'[q] = proc[q]
  BY DEF Runs
<1>2. \A q \in Process : \A m : Runs(q, m) => Runs(q, m)' /\ proc'[q] = proc[q]
  BY DEF Runs
<1>3. Promotions'
  BY <1>1 DEF Promotions
<1>4. Executions'
  BY <1>1, <1>2 DEF Executions, Holds, Current, Record
<1> QED BY <1>3, <1>4

\* A command that is not admitting disturbs no admission.
LEMMA AdmissionsStay ==
  ASSUME Types, Admissions, NEW p \in Process, UNCHANGED <<issues, admitted>>, used'.hand = used.hand,
         \A q \in Process : q # p => proc'[q] = proc[q],
         proc'[p].cmd # "admit"
  PROVE  Admissions'
<1>1. Number' = Number /\ \A n \in Number : First(n)' <=> First(n)
  BY DEF Number, First, IssuesOf
<1>2. \A q \in Process : proc'[q].cmd = "admit" => proc'[q] = proc[q]
  OBVIOUS
<1>3. \A q \in Process : \A n : Admitting(q, n)' => Admitting(q, n) /\ proc'[q] = proc[q]
  BY DEF Admitting
<1>4. \A n \in Number : First(n) = First(n)'
  BY <1>1 DEF First
<1> QED BY <1>1, <1>2, <1>3 DEF Admissions

\* A new issue is the last, and no first issue of an incident gets another place.
LEMMA IssueOpened ==
  ASSUME Types, NEW new \in IssueType, issues' = Append(issues, new),
         admitted' = Append(admitted, FALSE)
  PROVE  /\ issues' \in Seq(IssueType) /\ admitted' \in Seq(BOOLEAN)
         /\ Len(issues') = Len(issues) + 1 /\ Len(admitted') = Len(issues')
         /\ \A n \in Number : issues'[n] = issues[n] /\ (admitted'[n] <=> admitted[n])
         /\ issues'[Len(issues')] = new /\ ~admitted'[Len(issues')]
         /\ Len(issues') \notin Number /\ Number' = Number \cup {Len(issues')}
         /\ \A n \in Number : First(n)' <=> First(n)
<1>1. /\ issues' \in Seq(IssueType) /\ Len(issues') = Len(issues) + 1
      /\ \A n \in 1 .. Len(issues) : issues'[n] = issues[n]
      /\ issues'[Len(issues) + 1] = new
  BY AppendProperties DEF Types
<1>2. /\ admitted' \in Seq(BOOLEAN) /\ Len(admitted') = Len(admitted) + 1
      /\ \A n \in 1 .. Len(admitted) : admitted'[n] = admitted[n]
      /\ admitted'[Len(admitted) + 1] = FALSE
  <2>1. admitted \in Seq(BOOLEAN) /\ FALSE \in BOOLEAN
    BY DEF Types
  <2> QED BY <2>1, AppendProperties
<1>3. Len(issues) \in Nat /\ Len(admitted) = Len(issues)
  BY DEF Types
<1>4. Len(issues') \notin Number /\ Number' = Number \cup {Len(issues')}
  BY <1>1, <1>3 DEF Number
<1>5. ASSUME NEW n \in Number PROVE First(n)' <=> First(n)
  <2>1. issues'[n] = issues[n] /\ n \in Nat /\ n <= Len(issues')
    BY <1>1, <1>3, <1>5 DEF Number
  <2>2. \A k \in Number : k \in IssuesOf(issues[n].incident)' <=> k \in IssuesOf(issues[n].incident)
    BY <1>1, <1>3, <1>4 DEF Number, IssuesOf
  <2>3. \A i : IssuesOf(i) \subseteq Number /\ IssuesOf(i)' \subseteq Number \cup {Len(issues')}
    BY <1>4 DEF IssuesOf
  <2>4. First(n)' <=> \A k \in IssuesOf(issues[n].incident)' : n <= k
    BY <2>1 DEF First
  <2> QED BY <2>1, <2>2, <2>3, <2>4 DEF First
<1> QED BY <1>1, <1>2, <1>3, <1>4, <1>5 DEF Number

\* A change of labels or of the state of an issue leaves the rest of it.
LEMMA IssueChanged ==
  ASSUME Types, NEW n \in Number, NEW new \in IssueType, issues' = [issues EXCEPT ![n] = new],
         new.pull = issues[n].pull, new.by = issues[n].by, new.incident = issues[n].incident
  PROVE  /\ issues' \in Seq(IssueType) /\ Len(issues') = Len(issues) /\ Number' = Number
         /\ issues'[n] = new /\ \A k \in Number : k # n => issues'[k] = issues[k]
         /\ \A k \in Number : /\ issues'[k].by = issues[k].by
                              /\ issues'[k].incident = issues[k].incident
                              /\ issues'[k].pull = issues[k].pull
         /\ \A k \in Number : First(k)' <=> First(k)
<1>1. /\ issues' \in Seq(IssueType) /\ Len(issues') = Len(issues)
      /\ \A k \in 1 .. Len(issues) : issues'[k] = IF k = n THEN new ELSE issues[k]
  BY ExceptSeq DEF Types, Number
<1>2. Number' = Number
  BY <1>1 DEF Number
<1>3. \A k \in Number : /\ issues'[k].by = issues[k].by
                        /\ issues'[k].incident = issues[k].incident
                        /\ issues'[k].pull = issues[k].pull
  BY <1>1 DEF Number
<1>4. ASSUME NEW i PROVE IssuesOf(i)' = IssuesOf(i)
  BY <1>2, <1>3 DEF IssuesOf
<1>5. \A k \in Number : First(k)' <=> First(k)
  BY <1>2, <1>3, <1>4 DEF First
<1> QED BY <1>1, <1>2, <1>3, <1>5 DEF Number

-----------------------------------------------------------------------------
(* Every step keeps the invariant                                          *)

LEMMA UsedCommand ==
  ASSUME Types, used' = [used EXCEPT !.commands = @ + 1]
  PROVE  used' \in [commands : Nat, kills : Nat, pulls : Nat, hand : Nat] /\ used'.hand = used.hand
<1>1. used \in [commands : Nat, kills : Nat, pulls : Nat, hand : Nat]
  BY DEF Types
<1> HIDE DEF Types
<1>2. used.commands + 1 \in Nat
  BY <1>1
<1> QED BY <1>1, <1>2

LEMMA InitialState == Init => Inv
<1> SUFFICES ASSUME Init PROVE Inv
  OBVIOUS
<1> USE DEF Init
<1>1. Number = {} /\ Len(issues) = 0
  BY DEF Number
<1>2. Types
  <2>1. sub \in [Submission -> SubType]
    BY DEF NoSub, SubType
  <2>2. issues \in Seq(IssueType) /\ admitted \in Seq(BOOLEAN) /\ Len(admitted) = Len(issues)
    OBVIOUS
  <2>3. NoProm \in PromotionType
    BY DEF NoProm, PromotionType
  <2>4. proc \in [Process -> ProcType]
    BY DEF ProcType
  <2> QED BY <2>1, <2>2, <2>3, <2>4 DEF Types
<1>3. \A p \in Process : proc[p].cmd = "none"
  BY DEF Idle
<1>4. Alone
  BY <1>3 DEF Alone, Works
<1>5. Submissions /\ Published
  BY <1>1, <1>3 DEF Submissions, Published, Publishes, NoSub, Pub
<1>6. Promotions /\ Executions
  BY <1>3 DEF Promotions, Executions, Current, Runs, Run, NoProm
<1>7. Admissions
  BY <1>1, <1>3 DEF Admissions, Admitting
<1> QED BY <1>2, <1>4, <1>5, <1>6, <1>7 DEF Inv

\* A new submission is prepared, with or without a command that publishes it.
LEMMA SubmitKeeps ==
  ASSUME Inv, NEW p \in Process, NEW s \in Submission, NEW i \in Incident, Submit(p, s, i)
  PROVE  Inv'
<1> USE DEF Inv
<1> DEFINE state == [cmd |-> "submit", on |-> s, at |-> "publish"]
<1>1. /\ sub[s].state = "absent" /\ sub' \in [Submission -> SubType]
      /\ sub'[s].state = "prepared" /\ sub'[s].incident = i /\ sub'[s].issue = 0
      /\ \A t \in Submission : t # s => sub'[t] = sub[t]
  <2> DEFINE new == [NoSub EXCEPT !.state = "prepared", !.incident = i]
  <2>1. new \in SubType /\ new.state = "prepared" /\ new.incident = i /\ new.issue = 0
    BY DEF NoSub, SubType
  <2>2. sub \in [Submission -> SubType] /\ sub[s] = NoSub /\ sub' = [sub EXCEPT ![s] = new]
    BY DEF Submit, Types
  <2> HIDE DEF new
  <2>3. sub[s].state = "absent"
    BY <2>2 DEF NoSub
  <2> QED BY <2>1, <2>2, <2>3
<1>2. UNCHANGED <<issues, admitted, promotionVars>> /\ Number' = Number
  BY DEF Submit, Number
<1>3. \A n \in Number : issues[n].by # s
  BY <1>1 DEF Submissions
<1>4. \A q \in Process : ~Publishes(q, s)
  BY <1>1 DEF Submissions
<1>5. used' \in [commands : Nat, kills : Nat, pulls : Nat, hand : Nat] /\ used'.hand = used.hand
  <2>1. used' = [used EXCEPT !.commands = @ + 1]
    BY DEF Submit, Begin
  <2> QED BY <2>1, UsedCommand
<1>6. /\ proc' \in [Process -> ProcType] /\ \A q \in Process : q # p => proc'[q] = proc[q]
      /\ \/ proc[p] = Idle /\ proc'[p] = state
         \/ proc'[p] = proc[p]
      /\ Alone' /\ unsure \subseteq unsure' /\ unsure' \subseteq Submission \cup Promotion
  <2>1. CASE Begin(p, state)
    <3>1. state \in ProcType
      BY DEF ProcType, PublishType, Pub
    <3>2. /\ proc' \in [Process -> ProcType] /\ proc'[p] = state /\ proc[p] = Idle
          /\ \A q \in Process : q # p => proc'[q] = proc[q]
      BY <2>1, <3>1, Moves DEF Begin, Types
    <3> QED BY <2>1, <3>2, AloneBegins
  <2>2. CASE UNCHANGED <<proc, unsure>>
    BY <2>2 DEF Types, Alone, Works
  <2> QED BY <2>1, <2>2 DEF Submit
<1>7. Types'
  BY <1>1, <1>2, <1>5, <1>6 DEF Types, promotionVars
<1>8. Idle.cmd = "none" /\ state.cmd = "submit" /\ state.on = s /\ state.at = "publish"
  BY DEF Idle
<1> HIDE DEF state
<1>9. \A t \in Submission, q \in Process :
        t # s => (Publishes(q, t)' <=> Publishes(q, t)) /\ (Publishes(q, t)' => proc'[q] = proc[q])
  BY <1>6, <1>8 DEF Publishes, Pub
<1>10. \A q \in Process : Publishes(q, s)' => proc'[q].at = "publish"
  BY <1>4, <1>6, <1>8 DEF Publishes, Pub
<1>11. \A t \in Submission : \A n : t # s /\ Names(t, n) => Names(t, n)'
  BY <1>1, <1>2 DEF Names
<1>12. Submissions'
  <2> SUFFICES ASSUME NEW t \in Submission
               PROVE  /\ sub'[t].state = "absent" =>
                           /\ \A n \in Number : issues[n].by # t
                           /\ \A q \in Process : ~Publishes(q, t)'
                      /\ sub'[t].state # "absent" => sub'[t].incident \in Incident
                      /\ sub'[t].issue \in Number \cup {0}
                      /\ sub'[t].state = "submitted" => Names(t, sub[t].issue)'
                      /\ \A q \in Process : Publishes(q, t)' /\ proc'[q].at = "published" =>
                           Names(t, proc[q].issue)'
    BY <1>2 DEF Submissions
  <2>1. CASE t = s
    BY <1>1, <1>10, <2>1
  <2>2. CASE t # s
    BY <1>1, <1>9, <1>11, <2>2 DEF Submissions
  <2> QED BY <2>1, <2>2
<1>13. Published'
  <2> SUFFICES ASSUME NEW t \in Submission \ unsure'
               PROVE  /\ \A n, k \in Number : issues[n].by = t /\ issues[k].by = t => n = k
                      /\ \A q \in Process : Publishes(q, t)' => sub'[t].state \in {"prepared", "publish_failed"}
                      /\ /\ sub'[t].state \in {"prepared", "publish_failed"}
                         /\ \A q \in Process : ~(Publishes(q, t)' /\ proc'[q].at = "published")
                         => \A n \in Number : issues[n].by # t
    BY <1>2 DEF Published
  <2>1. CASE t = s
    BY <1>1, <1>3, <2>1
  <2>2. CASE t # s
    BY <1>1, <1>6, <1>9, <2>2 DEF Published
  <2> QED BY <2>1, <2>2
<1>14. Promotions' /\ Executions'
  <2>1. \A q \in Process : \A m : Runs(q, m)' <=> Runs(q, m)
    BY <1>6, <1>8 DEF Runs, Run
  <2>2. \A q \in Process : \A m : Runs(q, m) => proc'[q] = proc[q]
    BY <1>6, <1>8 DEF Runs, Run
  <2>3. Promotions'
    BY <1>2, <2>1 DEF Promotions, promotionVars
  <2>4. Executions'
    BY <1>2, <1>6, <2>1, <2>2 DEF Executions, Holds, Current, Record, promotionVars
  <2> QED BY <2>3, <2>4
<1>15. Admissions'
  <2>1. CASE proc'[p] = state
    BY <1>2, <1>5, <1>6, <1>8, <2>1, AdmissionsStay
  <2>2. CASE proc'[p] = proc[p]
    <3>1. proc' = proc
      BY <1>6, <2>2 DEF Types
    <3> QED BY <1>2, <1>5, <3>1 DEF Admissions, Number, First, IssuesOf, Admitting
  <2> QED BY <1>6, <2>1, <2>2
<1> QED BY <1>6, <1>7, <1>12, <1>13, <1>14, <1>15

\* A command that begins to work, and writes no record of a submission.
LEMMA ResubmitKeeps ==
  ASSUME Inv, NEW p \in Process, NEW s \in Submission, Resubmit(p, s)
  PROVE  Inv'
<1> USE DEF Inv
<1> DEFINE state == [cmd |-> "resubmit", on |-> s, at |-> "publish"]
<1>1. UNCHANGED <<issueVars, promotionVars>> /\ sub[s].state \notin {"absent", "submitted"}
      /\ Begin(p, state) /\ Number' = Number
  BY DEF Resubmit, Resubmittable, issueVars, Number
<1>2. state \in ProcType
  BY DEF ProcType, PublishType, Pub
<1>3. /\ proc' \in [Process -> ProcType] /\ proc'[p] = state /\ proc[p] = Idle
      /\ \A q \in Process : q # p => proc'[q] = proc[q]
  BY <1>1, <1>2, Moves DEF Begin, Types
<1>4. Alone' /\ unsure \subseteq unsure' /\ unsure' \subseteq Submission \cup Promotion
  BY <1>1, <1>3, AloneBegins
<1>5. used' \in [commands : Nat, kills : Nat, pulls : Nat, hand : Nat] /\ used'.hand = used.hand
  <2>1. used' = [used EXCEPT !.commands = @ + 1]
    BY <1>1 DEF Begin
  <2> QED BY <2>1, UsedCommand
<1>6. Types'
  BY <1>1, <1>3, <1>4, <1>5 DEF Types, promotionVars, issueVars
<1>7. Idle.cmd = "none" /\ state.cmd = "resubmit" /\ state.on = s /\ state.at = "publish"
  BY DEF Idle
<1>8. \A q \in Process : \A t : Publishes(q, t)' <=> Publishes(q, t) \/ (q = p /\ t = s)
  BY <1>3, <1>7 DEF Publishes, Pub
<1>9. \A q \in Process : \A t : Publishes(q, t) => proc'[q] = proc[q]
  BY <1>3, <1>7 DEF Publishes, Pub
<1>10. s \notin unsure' => \A q \in Process : ~Publishes(q, s)
  <2> SUFFICES ASSUME s \notin unsure', NEW q \in Process, Publishes(q, s) PROVE FALSE
    OBVIOUS
  <2>1. ~Busy(s)
    BY <1>1, <1>7 DEF Begin, Doubt
  <2> QED BY <2>1 DEF Busy, Works, Publishes, Pub
<1> HIDE DEF state
<1>11. \A t, n : Names(t, n) => Names(t, n)'
  BY <1>1 DEF Names, issueVars
<1>12. Submissions'
  BY <1>1, <1>3, <1>7, <1>8, <1>9, <1>11 DEF Submissions, issueVars
<1>13. Published'
  <2> SUFFICES ASSUME NEW t \in Submission \ unsure'
               PROVE  /\ \A n, k \in Number : issues[n].by = t /\ issues[k].by = t => n = k
                      /\ \A q \in Process : Publishes(q, t)' => sub[t].state \in {"prepared", "publish_failed"}
                      /\ /\ sub[t].state \in {"prepared", "publish_failed"}
                         /\ \A q \in Process : ~(Publishes(q, t)' /\ proc'[q].at = "published")
                         => \A n \in Number : issues[n].by # t
    BY <1>1 DEF Published, issueVars
  <2>1. sub[s].state \in {"prepared", "publish_failed"}
    BY <1>1 DEF Types, SubType
  <2> QED BY <1>3, <1>4, <1>7, <1>8, <1>9, <1>10, <2>1 DEF Published
<1>14. Promotions' /\ Executions'
  BY <1>1, <1>3, <1>4, <1>7, PromotionsStay DEF Pub, Run
<1>15. Admissions'
  BY <1>1, <1>3, <1>5, <1>7, AdmissionsStay DEF issueVars
<1> QED BY <1>4, <1>6, <1>12, <1>13, <1>14, <1>15

\* No admission knows of a new issue.
LEMMA AdmissionsSeeNoNew ==
  ASSUME Types, Admissions, NEW new \in IssueType, new.open, ~new.resolved,
         issues' = Append(issues, new), admitted' = Append(admitted, FALSE),
         \A q \in Process : proc'[q].cmd = "admit" => proc'[q] = proc[q],
         used'.hand = used.hand
  PROVE  Admissions'
<1>0. PICK last \in {Len(issues')} : TRUE
  OBVIOUS
<1>1. /\ last = Len(issues) + 1 /\ Len(issues) \in Nat
      /\ \A n \in Number : issues'[n] = issues[n] /\ (admitted'[n] <=> admitted[n])
      /\ issues'[last] = new /\ ~admitted'[last]
      /\ last \notin Number /\ Number' = Number \cup {last}
      /\ \A n \in Number : First(n)' <=> First(n)
  <2>1. Len(issues) \in Nat
    BY DEF Types
  <2> QED BY <1>0, <2>1, IssueOpened
<1>2. \A q \in Process : \A n : Admitting(q, n)' => Admitting(q, n) /\ proc'[q] = proc[q]
  BY DEF Admitting
<1>3. \A q \in Process : ~Admitting(q, last)'
  BY <1>1, <1>2 DEF Admissions, Admitting
<1>4. Len(issues') <= PageSize => Len(issues) <= PageSize
  BY <1>0, <1>1, IncidentsAssumption DEF IncidentsAssumption
<1>5. used'.hand = 0 => /\ \A n \in Number' : ~issues'[n].resolved
                        /\ \A q \in Process : proc'[q].cmd = "admit" => ~proc'[q].resolved
  <2> SUFFICES ASSUME used.hand = 0
               PROVE  /\ \A n \in Number' : ~issues'[n].resolved
                      /\ \A q \in Process : proc'[q].cmd = "admit" => ~proc'[q].resolved
    OBVIOUS
  <2>1. /\ \A n \in Number : ~issues[n].resolved
        /\ \A q \in Process : proc[q].cmd = "admit" => ~proc[q].resolved
    BY DEF Admissions
  <2>2. ASSUME NEW n \in Number' PROVE ~issues'[n].resolved
    <3>1. CASE n = last
      BY <1>1, <3>1
    <3>2. CASE n \in Number
      <4>1. issues'[n] = issues[n]
        BY <1>1, <3>2
      <4> QED BY <2>1, <3>2, <4>1
    <3> QED BY <1>1, <3>1, <3>2
  <2>3. ASSUME NEW q \in Process, proc'[q].cmd = "admit" PROVE ~proc'[q].resolved
    <3>1. proc'[q] = proc[q]
      BY <2>3
    <3> QED BY <2>1, <2>3, <3>1
  <2> QED BY <2>2, <2>3
<1>6. \A q \in Process : proc'[q].cmd = "admit" => proc'[q].on \in Number'
  BY <1>1 DEF Admissions
<1>7. \A q \in Process : proc'[q].cmd = "admit" /\ proc'[q].at = "close" =>
        proc'[q].decision = "close_now"
  BY DEF Admissions
<1>8. ASSUME NEW n \in Number', used'.hand = 0, ~issues'[n].pull, First(n)',
             Verdict[issues'[n].incident] # "close_now"
      PROVE  /\ issues'[n].open
             /\ \A q \in Process : Admitting(q, n)' => proc'[q].decision # "close_now"
  <2>1. CASE n = last
    BY <1>1, <1>3, <2>1
  <2>2. CASE n \in Number
    <3>1. issues'[n] = issues[n] /\ First(n)
      BY <1>1, <1>8, <2>2
    <3>2. issues[n].open /\ \A q \in Process : Admitting(q, n) => proc[q].decision # "close_now"
      BY <1>8, <2>2, <3>1 DEF Admissions
    <3> QED BY <1>2, <3>1, <3>2
  <2> QED BY <1>1, <2>1, <2>2
<1>9. ASSUME NEW n \in Number', Len(issues') <= PageSize, ~issues'[n].pull, ~First(n)'
      PROVE  /\ admitted'[n] => ~issues'[n].open
             /\ \A q \in Process : Admitting(q, n)' =>
                  proc'[q].decision = "close_now" /\ (proc'[q].at = "done" => ~issues'[n].open)
  <2>1. CASE n = last
    BY <1>1, <1>3, <2>1
  <2>2. CASE n \in Number
    <3>1. issues'[n] = issues[n] /\ ~First(n) /\ (admitted'[n] <=> admitted[n])
      BY <1>1, <1>9, <2>2
    <3>2. /\ admitted[n] => ~issues[n].open
          /\ \A q \in Process : Admitting(q, n) =>
               proc[q].decision = "close_now" /\ (proc[q].at = "done" => ~issues[n].open)
      BY <1>4, <1>9, <2>2, <3>1 DEF Admissions
    <3> QED BY <1>2, <3>1, <3>2
  <2> QED BY <1>1, <2>1, <2>2
<1> QED BY <1>5, <1>6, <1>7, <1>8, <1>9 DEF Admissions

\* Whatever the answer of gh, a new issue belongs to a submission that had none, or
\* that is in doubt.
LEMMA PublishKeeps == ASSUME Inv, NEW p \in Process, Publish(p) PROVE Inv'
<1> USE DEF Inv
<1>0. proc[p] \in PublishType /\ proc[p].at = "publish" /\ proc[p].cmd \in Pub
  BY Kinds DEF Publish, Types, PublishType
<1>a. PICK s \in Submission : s = proc[p].on
  BY <1>0 DEF PublishType
<1>1. /\ proc[p] \in PublishType /\ proc[p].at = "publish" /\ proc[p].cmd \in Pub
      /\ s = proc[p].on /\ Publishes(p, s)
  BY <1>0, <1>a DEF Publishes
<1> DEFINE new == Open(sub[s].incident, s, FALSE)
           published == [cmd |-> proc[p].cmd, on |-> s, at |-> "published", issue |-> Len(issues')]
<1>2. sub[s].state # "absent" /\ sub[s].incident \in Incident
  BY <1>1 DEF Submissions
<1>3. /\ new \in IssueType /\ new.by = s /\ new.incident = sub[s].incident
      /\ new.open /\ ~new.resolved
  BY <1>1, <1>2 DEF Open, IssueType
<1>4. UNCHANGED <<sub, promotionVars, used>> /\ used'.hand = used.hand
  BY DEF Publish
<1>5. \/ /\ issues' = Append(issues, new) /\ admitted' = Append(admitted, FALSE)
         /\ \/ proc' = [proc EXCEPT ![p] = published] /\ unsure' = unsure
            \/ Goto(p, "failed") /\ unsure' = Doubt(s)
      \/ Goto(p, "failed") /\ UNCHANGED <<issues, admitted, unsure>>
  BY <1>1 DEF Publish
<1>6. /\ proc' \in [Process -> ProcType] /\ \A q \in Process : q # p => proc'[q] = proc[q]
      /\ proc'[p].cmd = proc[p].cmd /\ proc'[p].on = s
      /\ \/ /\ proc'[p].at = "published" /\ proc'[p].issue = Len(issues')
            /\ issues' = Append(issues, new) /\ unsure' = unsure
         \/ proc'[p].at = "failed"
  <2>1. CASE proc' = [proc EXCEPT ![p] = published] /\ unsure' = unsure
             /\ issues' = Append(issues, new)
    <3>1. Len(issues') \in Nat
      BY <1>3, <2>1, AppendProperties DEF Types
    <3>2. /\ published \in ProcType /\ published.cmd = proc[p].cmd /\ published.on = s
          /\ published.at = "published" /\ published.issue = Len(issues')
      BY <1>1, <3>1 DEF ProcType, PublishedType
    <3> HIDE DEF published
    <3> QED BY <2>1, <3>2, Moves DEF Types
  <2>2. CASE Goto(p, "failed")
    <3> DEFINE r == [proc[p] EXCEPT !.at = "failed"]
    <3>1. r \in ProcType /\ r.cmd = proc[p].cmd /\ r.on = s /\ r.at = "failed"
      BY <1>1, GotoPublish DEF ProcType
    <3>2. proc' = [proc EXCEPT ![p] = r]
      BY <2>2 DEF Goto
    <3> HIDE DEF r
    <3> QED BY <3>1, <3>2, Moves DEF Types
  <2> QED BY <1>5, <2>1, <2>2
<1>7. unsure \subseteq unsure' /\ unsure' \subseteq Submission \cup Promotion
  BY <1>1, <1>5 DEF Doubt, Types
<1>8. Alone'
  BY <1>1, <1>6, <1>7, AloneGoesOn DEF Pub
<1> HIDE DEF new, published
<1>9. \A q \in Process : \A t : Publishes(q, t)' <=> Publishes(q, t)
  BY <1>1, <1>6 DEF Publishes
<1>10. \A q \in Process : \A t : Publishes(q, t) /\ q # p => proc'[q] = proc[q]
  BY <1>6
<1>11. \A t : Publishes(p, t) <=> t = s
  BY <1>1 DEF Publishes
<1>12. s \notin unsure => \A q \in Process : Publishes(q, s) => q = p
  BY <1>1 DEF Alone, Works, Publishes, Pub
<1>13. CASE issues' = Append(issues, new) /\ admitted' = Append(admitted, FALSE)
            /\ (s \notin unsure' => proc'[p].at = "published")
  <2> DEFINE last == Len(issues')
  <2>1. /\ issues' \in Seq(IssueType) /\ admitted' \in Seq(BOOLEAN) /\ Len(admitted') = Len(issues')
        /\ \A n \in Number : issues'[n] = issues[n]
        /\ issues'[last] = new /\ last \notin Number /\ Number' = Number \cup {last}
    BY <1>3, <1>13, IssueOpened
  <2>2. Types'
    BY <1>4, <1>6, <1>7, <2>1 DEF Types, promotionVars
  <2>3. \A t, n : Names(t, n) => Names(t, n)'
    BY <1>4, <2>1 DEF Names
  <2>4. proc'[p].at = "published" => Names(s, proc[p].issue)'
    BY <1>3, <1>4, <1>6, <2>1 DEF Names
  <2> HIDE DEF last
  <2>5. Submissions'
    <3> SUFFICES ASSUME NEW t \in Submission
                 PROVE  /\ sub[t].state = "absent" =>
                             /\ \A n \in Number' : issues'[n].by # t
                             /\ \A q \in Process : ~Publishes(q, t)'
                        /\ sub[t].state # "absent" => sub[t].incident \in Incident
                        /\ sub[t].issue \in Number' \cup {0}
                        /\ sub[t].state = "submitted" => Names(t, sub[t].issue)'
                        /\ \A q \in Process : Publishes(q, t)' /\ proc'[q].at = "published" =>
                             Names(t, proc[q].issue)'
      BY <1>4 DEF Submissions
    <3>1. sub[t].state = "absent" => t # s
      BY <1>2
    <3>2. \A q \in Process : Publishes(q, t)' /\ proc'[q].at = "published" => Names(t, proc[q].issue)'
      <4> SUFFICES ASSUME NEW q \in Process, Publishes(q, t)', proc'[q].at = "published"
                   PROVE  Names(t, proc[q].issue)'
        OBVIOUS
      <4>1. CASE q = p
        BY <1>9, <1>11, <2>4, <4>1
      <4>2. CASE q # p
        <5>1. Names(t, proc[q].issue) /\ proc'[q] = proc[q]
          BY <1>9, <1>10, <4>2 DEF Submissions
        <5>2. Names(t, proc[q].issue)' <=> /\ proc'[q].issue \in Number'
                                           /\ issues'[proc'[q].issue].by = t
                                           /\ issues'[proc'[q].issue].incident = sub'[t].incident
          BY DEF Names
        <5> QED BY <1>4, <2>1, <5>1, <5>2 DEF Names
      <4> QED BY <4>1, <4>2
    <3>3. sub[t].state = "submitted" => Names(t, sub[t].issue)'
      BY <1>4, <2>1 DEF Names, Submissions
    <3> QED BY <1>3, <1>9, <2>1, <3>1, <3>2, <3>3 DEF Submissions
  <2>6. Published'
    <3> SUFFICES ASSUME NEW t \in Submission \ unsure'
                 PROVE  /\ \A n, k \in Number' : issues'[n].by = t /\ issues'[k].by = t => n = k
                        /\ \A q \in Process : Publishes(q, t)' => sub[t].state \in {"prepared", "publish_failed"}
                        /\ /\ sub[t].state \in {"prepared", "publish_failed"}
                           /\ \A q \in Process : ~(Publishes(q, t)' /\ proc'[q].at = "published")
                           => \A n \in Number' : issues'[n].by # t
      BY <1>4 DEF Published
    <3>1. CASE t = s
      <4>1. s \notin unsure /\ proc'[p].at = "published"
        BY <1>7, <1>13, <3>1
      <4>2. \A n \in Number : issues[n].by # s
        BY <1>1, <1>12, <4>1 DEF Published
      <4> QED BY <1>1, <1>9, <2>1, <3>1, <4>1, <4>2 DEF Published
    <3>2. CASE t # s
      BY <1>3, <1>6, <1>7, <1>9, <1>11, <2>1, <3>2 DEF Published
    <3> QED BY <3>1, <3>2
  <2>7. Admissions'
    <3>1. \A q \in Process : proc'[q].cmd = "admit" => proc'[q] = proc[q]
      BY <1>1, <1>6 DEF Pub
    <3> QED BY <1>3, <1>4, <1>13, <3>1, AdmissionsSeeNoNew
  <2> QED BY <2>2, <2>5, <2>6, <2>7, <1>8, <1>1, <1>4, <1>6, <1>7, PromotionsStay DEF Pub, Run
<1>14. CASE proc'[p].at = "failed" /\ UNCHANGED <<issues, admitted, unsure>>
  <2>1. Types'
    BY <1>4, <1>6, <1>14 DEF Types, promotionVars
  <2>2. Number' = Number /\ \A t, n : Names(t, n) => Names(t, n)'
    BY <1>4, <1>14 DEF Names, Number
  <2>3. \A q \in Process : \A t : Publishes(q, t)' /\ proc'[q].at = "published" =>
          Publishes(q, t) /\ proc'[q] = proc[q]
    BY <1>6, <1>9, <1>14
  <2>4. Submissions'
    BY <1>4, <1>9, <1>14, <2>2, <2>3 DEF Submissions
  <2>5. Published'
    <3> SUFFICES ASSUME NEW t \in Submission \ unsure,
                        sub[t].state \in {"prepared", "publish_failed"},
                        \A q \in Process : ~(Publishes(q, t)' /\ proc'[q].at = "published")
                 PROVE  \A n \in Number : issues[n].by # t
      BY <1>4, <1>9, <1>14, <2>2 DEF Published
    <3>1. \A q \in Process : ~(Publishes(q, t) /\ proc[q].at = "published")
      BY <1>1, <1>6, <1>9
    <3> QED BY <3>1 DEF Published
  <2>6. Admissions'
    BY <1>1, <1>4, <1>6, <1>14, AdmissionsStay DEF Pub
  <2> QED BY <2>1, <2>4, <2>5, <2>6, <1>8, <1>1, <1>4, <1>6, <1>7, PromotionsStay DEF Pub, Run
<1> QED
  <2>1. Goto(p, "failed") => proc'[p].at = "failed"
    BY <1>1, GotoPublish DEF Goto, Types
  <2>2. proc' = [proc EXCEPT ![p] = published] => proc'[p].at = "published"
    BY DEF published, Types
  <2>3. unsure' = Doubt(s) => s \in unsure'
    BY <1>1 DEF Doubt
  <2> QED BY <1>5, <1>13, <1>14, <2>1, <2>2, <2>3

\* Writing down what became of a publication.
LEMMA RecordKeeps ==
  ASSUME Inv, NEW p \in Process, NEW s \in Submission, NEW new \in SubType, Publishes(p, s), Ends(p),
         \/ new.state = "submitted" /\ Names(s, new.issue)
         \/ new.state = "publish_failed" /\ new.issue = 0 /\ proc[p].at = "failed",
         new.incident = sub[s].incident, sub' = [sub EXCEPT ![s] = new],
         UNCHANGED <<issues, admitted, promotionVars, unsure, used>>
  PROVE  Inv'
<1> USE DEF Inv
<1>1. /\ sub' \in [Submission -> SubType] /\ sub'[s] = new
      /\ \A t \in Submission : t # s => sub'[t] = sub[t]
  BY DEF Types
<1>2. /\ proc' \in [Process -> ProcType] /\ \A q \in Process : q # p => proc'[q] = proc[q]
      /\ proc'[p] = Idle /\ proc'[p].cmd = "none" /\ proc[p].cmd \in Pub
  BY Moves DEF Ends, Types, ProcType, Idle, Publishes
<1>3. Types' /\ Alone'
  BY <1>1, <1>2, AloneGoesOn DEF Types, promotionVars
<1>4. /\ \A q \in Process : \A t : Publishes(q, t)' => Publishes(q, t) /\ proc'[q] = proc[q] /\ q # p
      /\ \A q \in Process : \A t : Publishes(q, t) /\ q # p => Publishes(q, t)' /\ proc'[q] = proc[q]
  BY <1>2 DEF Publishes, Pub
<1>5. Number' = Number /\ \A t \in Submission : \A k : Names(t, k) => Names(t, k)'
  BY <1>1 DEF Number, Names
<1>6. sub[s].state # "absent"
  BY DEF Submissions
<1>7. Submissions'
  <2> SUFFICES ASSUME NEW t \in Submission
               PROVE  /\ sub'[t].state = "absent" =>
                           /\ \A k \in Number : issues[k].by # t
                           /\ \A q \in Process : ~Publishes(q, t)'
                      /\ sub'[t].state # "absent" => sub'[t].incident \in Incident
                      /\ sub'[t].issue \in Number \cup {0}
                      /\ sub'[t].state = "submitted" => Names(t, sub[t].issue)'
                      /\ \A q \in Process : Publishes(q, t)' /\ proc'[q].at = "published" =>
                           Names(t, proc[q].issue)'
    BY <1>5 DEF Submissions
  <2>1. \A q \in Process : Publishes(q, t)' /\ proc'[q].at = "published" => Names(t, proc[q].issue)'
    BY <1>4, <1>5 DEF Submissions
  <2>2. CASE t = s
    <3>1. new.state = "submitted" => Names(s, new.issue)' /\ new.issue \in Number
      BY <1>5 DEF Names
    <3>2. new.issue \in Number \cup {0} /\ new.state # "absent"
      BY <3>1
    <3>3. new.state = "submitted" => Names(t, sub[t].issue)'
      BY <1>1, <2>2, <3>1
    <3>4. sub[s].incident \in Incident
      BY <1>6 DEF Submissions
    <3> QED BY <1>1, <2>1, <2>2, <3>2, <3>3, <3>4
  <2>3. CASE t # s
    <3>1. sub'[t] = sub[t]
      BY <1>1, <2>3
    <3>2. sub[t].state = "submitted" => Names(t, sub[t].issue)'
      BY <1>1, <2>3 DEF Submissions, Names, Number
    <3> QED BY <1>4, <2>1, <3>1, <3>2 DEF Submissions
  <2> QED BY <2>2, <2>3
<1>8. ASSUME NEW t \in Submission \ unsure
      PROVE  /\ \A k, l \in Number : issues[k].by = t /\ issues[l].by = t => k = l
             /\ \A q \in Process : Publishes(q, t)' => sub'[t].state \in {"prepared", "publish_failed"}
             /\ /\ sub'[t].state \in {"prepared", "publish_failed"}
                /\ \A q \in Process : ~(Publishes(q, t)' /\ proc'[q].at = "published")
                => \A k \in Number : issues[k].by # t
  <2>1. CASE t = s
    <3>1. \A q \in Process : Publishes(q, s) => q = p
      BY <2>1 DEF Alone, Works, Publishes, Pub
    <3>2. /\ \A k, l \in Number : issues[k].by = s /\ issues[l].by = s => k = l
          /\ proc[p].at = "failed" => \A k \in Number : issues[k].by # s
      BY <2>1, <3>1 DEF Published
    <3>3. \A q \in Process : ~Publishes(q, s)'
      BY <1>4, <3>1
    <3>4. new.state = "publish_failed" => proc[p].at = "failed"
      OBVIOUS
    <3>5. sub'[s].state \in {"prepared", "publish_failed"} => \A k \in Number : issues[k].by # s
      BY <1>1, <3>2, <3>4
    <3> QED BY <2>1, <3>2, <3>3, <3>5
  <2>2. CASE t # s
    <3>1. \A q \in Process : Publishes(q, t) => q # p
      BY <2>2 DEF Publishes
    <3> QED BY <1>1, <1>4, <2>2, <3>1 DEF Published
  <2> QED BY <2>1, <2>2
<1>11. Published'
  <2>1. Number' = Number /\ issues' = issues /\ unsure' = unsure
    BY <1>5
  <2> QED BY <1>8, <2>1 DEF Published
<1>9. Promotions' /\ Executions'
  BY <1>2, PromotionsStay DEF Pub, Run
<1>10. Admissions'
  BY <1>2, AdmissionsStay
<1> QED BY <1>3, <1>7, <1>11, <1>9, <1>10

LEMMA RecordPublishedKeeps == ASSUME Inv, NEW p \in Process, RecordPublished(p) PROVE Inv'
<1>1. PICK s \in Submission : s = proc[p].on /\ Publishes(p, s)
  BY Kinds DEF RecordPublished, Inv, Types, Pub, Publishes
<1>2. PICK n \in Nat : n = proc[p].issue /\ Names(s, n)
  BY <1>1 DEF RecordPublished, Inv, Submissions, Names, Number
<1> DEFINE new == [[sub[s] EXCEPT !.state = "submitted"] EXCEPT !.issue = n]
<1>3. sub \in [Submission -> SubType] /\ sub[s] \in SubType
  BY DEF Inv, Types
<1>4. new \in SubType /\ new.state = "submitted" /\ new.issue = n /\ new.incident = sub[s].incident
  BY <1>3 DEF SubType
<1>5. sub' = [sub EXCEPT ![s] = new]
  BY <1>1, <1>2, <1>3 DEF RecordPublished
<1>6. Ends(p) /\ UNCHANGED <<issues, admitted, promotionVars, unsure, used>>
  BY DEF RecordPublished
<1> HIDE DEF new
<1> QED BY <1>1, <1>2, <1>4, <1>5, <1>6, RecordKeeps

LEMMA RecordUnpublishedKeeps == ASSUME Inv, NEW p \in Process, RecordUnpublished(p) PROVE Inv'
<1>1. PICK s \in Submission : s = proc[p].on /\ Publishes(p, s)
  BY Kinds DEF RecordUnpublished, Inv, Types, Pub, Publishes
<1> DEFINE new == [[sub[s] EXCEPT !.state = "publish_failed"] EXCEPT !.issue = 0]
<1>3. sub \in [Submission -> SubType] /\ sub[s] \in SubType
  BY DEF Inv, Types
<1>4. new \in SubType /\ new.state = "publish_failed" /\ new.issue = 0 /\ new.incident = sub[s].incident
  BY <1>3 DEF SubType
<1>5. sub' = [sub EXCEPT ![s] = new]
  BY <1>1, <1>3 DEF RecordUnpublished
<1>6. /\ Ends(p) /\ proc[p].at = "failed"
      /\ UNCHANGED <<issues, admitted, promotionVars, unsure, used>>
  BY DEF RecordUnpublished
<1> HIDE DEF new
<1> QED BY <1>1, <1>4, <1>5, <1>6, RecordKeeps

-----------------------------------------------------------------------------
(* Admissions                                                              *)

\* What a step of an admission, or of GitHub, must not break.
LEMMA AdmissionStep ==
  ASSUME Inv, NEW p \in Process, Types', unsure \subseteq unsure', UNCHANGED <<sub, promotionVars>>,
         \A q \in Process : q # p => proc'[q] = proc[q],
         proc[p].cmd \notin Pub \cup Run, proc'[p].cmd \notin Pub \cup Run,
         Len(issues') = Len(issues),
         \A n \in Number : issues'[n].by = issues[n].by /\ issues'[n].incident = issues[n].incident,
         Alone', Admissions'
  PROVE  Inv'
<1>1. Submissions' /\ Published'
  BY SubmissionsStay DEF Inv
<1>2. Promotions' /\ Executions'
  BY PromotionsStay DEF Inv
<1> QED BY <1>1, <1>2 DEF Inv

\* The first issue of an incident has no duplicate before it, and any other has one on
\* the page.
LEMMA Assessed ==
  ASSUME Types, Admissions, NEW n \in Number, ~issues[n].pull
  PROVE  /\ Assess(n) \in Decision
         /\ used.hand = 0 /\ First(n) /\ Verdict[issues[n].incident] # "close_now" =>
              Assess(n) # "close_now"
         /\ Len(issues) <= PageSize /\ ~First(n) => Assess(n) = "close_now"
<1>1. issues[n].incident \in Incident /\ Verdict[issues[n].incident] \in Decision
  <2>1. issues[n] \in IssueType
    BY DEF Types, Number
  <2>2. issues[n].incident \in Incident
    BY <2>1 DEF IssueType
  <2> QED BY <2>2, IncidentsAssumption DEF IncidentsAssumption
<1>2. Assess(n) \in Decision
  BY <1>1 DEF Assess, Decision
<1>3. \A k \in Number : k \in Nat /\ k <= Len(issues) /\ n \in Nat /\ Len(issues) \in Nat
  BY DEF Number, Types
<1>4. ASSUME used.hand = 0, First(n), Verdict[issues[n].incident] # "close_now"
      PROVE  Assess(n) # "close_now"
  <2>1. ~Duplicate(n)
    BY <1>3, <1>4 DEF Duplicate, Listed, First, IssuesOf
  <2>2. issues[n].open /\ ~issues[n].resolved
    BY <1>4 DEF Admissions
  <2> QED BY <1>4, <2>1, <2>2 DEF Assess
<1>5. ASSUME Len(issues) <= PageSize, ~First(n) PROVE Assess(n) = "close_now"
  <2>1. PICK k \in IssuesOf(issues[n].incident) : ~(n <= k)
    BY <1>5 DEF First
  <2>2. k \in Number /\ issues[k].incident = issues[n].incident /\ ~issues[k].pull
    BY <2>1 DEF IssuesOf
  <2>3. k < n
    BY <1>3, <2>1, <2>2
  <2>4. k \in Nat /\ k >= 1 /\ Len(issues) \in Nat /\ PageSize \in Nat
    BY <2>2, IncidentsAssumption DEF IncidentsAssumption, Number, Types
  <2>5. k \in Listed
    BY <1>5, <2>2, <2>4 DEF Listed
  <2>6. Duplicate(n)
    BY <2>2, <2>3, <2>5 DEF Duplicate
  <2> QED BY <2>6 DEF Assess
<1> QED BY <1>2, <1>4, <1>5

LEMMA AdmitKeeps == ASSUME Inv, NEW p \in Process, NEW n, Admit(p, n) PROVE Inv'
<1> USE DEF Inv
<1> DEFINE state == [cmd |-> "admit", on |-> n, at |-> "label",
                     decision |-> Assess(n), resolved |-> issues[n].resolved]
<1>1. n \in Number /\ ~issues[n].pull /\ Begin(p, state) /\ UNCHANGED <<issueVars, promotionVars>>
  BY DEF Admit
<1>2. /\ state \in ProcType /\ state.cmd = "admit" /\ state.on = n /\ state.at = "label"
      /\ state.decision = Assess(n) /\ (state.resolved => issues[n].resolved)
  <2>1. n \in Nat /\ Assess(n) \in Decision
    BY <1>1, Assessed DEF Number
  <2>2. issues[n] \in IssueType
    BY <1>1 DEF Types, Number
  <2>3. issues[n].resolved \in BOOLEAN
    BY <2>2 DEF IssueType
  <2> QED BY <2>1, <2>3 DEF ProcType, AdmitType
<1> HIDE DEF state
<1>3. /\ proc' \in [Process -> ProcType] /\ proc'[p] = state /\ proc[p] = Idle /\ proc[p].cmd = "none"
      /\ \A q \in Process : q # p => proc'[q] = proc[q]
  BY <1>1, <1>2, Moves DEF Begin, Types, Idle
<1>4. Alone' /\ unsure \subseteq unsure' /\ unsure' \subseteq Submission \cup Promotion
  BY <1>1, <1>3, AloneBegins
<1>5. used' \in [commands : Nat, kills : Nat, pulls : Nat, hand : Nat] /\ used'.hand = used.hand
  <2>1. used' = [used EXCEPT !.commands = @ + 1]
    BY <1>1 DEF Begin
  <2> QED BY <2>1, UsedCommand
<1>6. Types'
  BY <1>1, <1>3, <1>4, <1>5 DEF Types, promotionVars, issueVars
<1>7. Number' = Number /\ \A k : First(k)' <=> First(k)
  BY <1>1 DEF issueVars, Number, First, IssuesOf
<1>8. \A q \in Process : \A k : Admitting(q, k)' <=> Admitting(q, k) \/ (q = p /\ k = n)
  BY <1>2, <1>3 DEF Admitting
<1>9. Admissions'
  <2>1. /\ used.hand = 0 => /\ Verdict[issues[n].incident] # "close_now" /\ First(n) => Assess(n) # "close_now"
                            /\ ~issues[n].resolved
        /\ Len(issues) <= PageSize /\ ~First(n) => Assess(n) = "close_now"
    BY <1>1, Assessed DEF Admissions
  <2>2. /\ used'.hand = 0 => /\ \A k \in Number' : ~issues'[k].resolved
                             /\ \A q \in Process : proc'[q].cmd = "admit" => ~proc'[q].resolved
        /\ \A q \in Process : proc'[q].cmd = "admit" => proc'[q].on \in Number'
        /\ \A q \in Process : proc'[q].cmd = "admit" /\ proc'[q].at = "close" =>
             proc'[q].decision = "close_now"
    BY <1>1, <1>2, <1>3, <1>5, <1>7, <2>1 DEF Admissions, issueVars
  <2>3. ASSUME NEW k \in Number', used'.hand = 0, ~issues'[k].pull, First(k)',
               Verdict[issues'[k].incident] # "close_now"
        PROVE  /\ issues'[k].open
               /\ \A q \in Process : Admitting(q, k)' => proc'[q].decision # "close_now"
    <3>1. issues[k].open /\ \A q \in Process : Admitting(q, k) => proc[q].decision # "close_now"
      BY <1>1, <1>5, <1>7, <2>3 DEF Admissions, issueVars
    <3>2. issues'[k].open
      BY <1>1, <3>1 DEF issueVars
    <3>3. k = n => Assess(n) # "close_now"
      BY <1>1, <1>5, <1>7, <2>1, <2>3 DEF issueVars
    <3>4. ASSUME NEW q \in Process, Admitting(q, k)' PROVE proc'[q].decision # "close_now"
      <4>1. CASE q = p
        BY <1>2, <1>3, <3>3, <3>4, <4>1 DEF Admitting
      <4>2. CASE q # p
        BY <1>3, <1>8, <3>1, <3>4, <4>2
      <4> QED BY <4>1, <4>2
    <3> QED BY <3>2, <3>4
  <2>4. ASSUME NEW k \in Number', Len(issues') <= PageSize, ~issues'[k].pull, ~First(k)'
        PROVE  /\ admitted'[k] => ~issues'[k].open
               /\ \A q \in Process : Admitting(q, k)' =>
                    proc'[q].decision = "close_now" /\ (proc'[q].at = "done" => ~issues'[k].open)
    <3>1. /\ admitted[k] => ~issues[k].open
          /\ \A q \in Process : Admitting(q, k) =>
               proc[q].decision = "close_now" /\ (proc[q].at = "done" => ~issues[k].open)
      BY <1>1, <1>7, <2>4 DEF Admissions, issueVars
    <3>2. admitted'[k] => ~issues'[k].open
      BY <1>1, <3>1 DEF issueVars
    <3>3. k = n => Assess(n) = "close_now"
      BY <1>1, <1>7, <2>1, <2>4 DEF issueVars
    <3>4. ASSUME NEW q \in Process, Admitting(q, k)'
          PROVE  proc'[q].decision = "close_now" /\ (proc'[q].at = "done" => ~issues'[k].open)
      <4>1. CASE q = p
        BY <1>2, <1>3, <3>3, <3>4, <4>1 DEF Admitting
      <4>2. CASE q # p
        <5>1. Admitting(q, k) /\ proc'[q] = proc[q] /\ issues' = issues
          BY <1>1, <1>3, <1>8, <3>4, <4>2 DEF issueVars
        <5>2. proc[q].decision = "close_now" /\ (proc[q].at = "done" => ~issues[k].open)
          BY <3>1, <5>1
        <5> QED BY <5>1, <5>2
      <4> QED BY <4>1, <4>2
    <3> QED BY <3>2, <3>4
  <2> QED BY <2>2, <2>3, <2>4 DEF Admissions
<1> QED BY <1>1, <1>2, <1>3, <1>4, <1>6, <1>9, AdmissionStep DEF issueVars, Pub, Run


\* An admission goes on with the issue it is about.
LEMMA AdmissionGoesOn ==
  ASSUME Inv, NEW p \in Process, NEW n \in Number, Admitting(p, n),
         NEW new \in IssueType, issues' = [issues EXCEPT ![n] = new],
         new.pull = issues[n].pull, new.by = issues[n].by, new.incident = issues[n].incident,
         new.open => issues[n].open,
         issues[n].open => new.open \/ proc[p].decision = "close_now",
         new.resolved => issues[n].resolved \/ proc[p].resolved,
         NEW r \in AdmitType, proc' = [proc EXCEPT ![p] = r],
         r.on = n, r.decision = proc[p].decision, r.resolved => proc[p].resolved,
         r.at = "close" => r.decision = "close_now",
         r.at = "done" /\ r.decision = "close_now" => ~new.open,
         UNCHANGED <<sub, admitted, promotionVars, unsure, used>>
  PROVE  Inv'
<1> USE DEF Inv
<1>1. /\ proc' \in [Process -> ProcType] /\ proc'[p] = r /\ r.cmd = "admit" /\ proc[p].cmd = "admit"
      /\ proc[p].on = n /\ \A q \in Process : q # p => proc'[q] = proc[q]
  <2>1. r \in ProcType /\ r.cmd = "admit"
    BY DEF ProcType, AdmitType
  <2> QED BY <2>1, Moves DEF Types, Admitting
<1>2. /\ issues' \in Seq(IssueType) /\ Len(issues') = Len(issues) /\ Number' = Number
      /\ issues'[n] = new /\ \A k \in Number : k # n => issues'[k] = issues[k]
      /\ \A k \in Number : /\ issues'[k].by = issues[k].by
                           /\ issues'[k].incident = issues[k].incident
                           /\ issues'[k].pull = issues[k].pull
      /\ \A k \in Number : First(k)' <=> First(k)
  BY IssueChanged
<1>3. Types' /\ Alone'
  BY <1>1, <1>2, AloneGoesOn DEF Types, promotionVars
<1>4. \A q \in Process : \A k : Admitting(q, k)' => Admitting(q, k)
  BY <1>1 DEF Admitting
<1>5. used'.hand = 0 => /\ \A k \in Number' : ~issues'[k].resolved
                        /\ \A q \in Process : proc'[q].cmd = "admit" => ~proc'[q].resolved
  <2> SUFFICES ASSUME used.hand = 0
               PROVE  /\ \A k \in Number : ~issues'[k].resolved
                      /\ \A q \in Process : proc'[q].cmd = "admit" => ~proc'[q].resolved
    BY <1>2
  <2>1. /\ \A k \in Number : ~issues[k].resolved
        /\ \A q \in Process : proc[q].cmd = "admit" => ~proc[q].resolved
    BY DEF Admissions
  <2>2. ~new.resolved /\ ~r.resolved
    BY <1>1, <2>1
  <2>3. ASSUME NEW k \in Number PROVE ~issues'[k].resolved
    <3>1. CASE k = n
      BY <1>2, <2>2, <3>1
    <3>2. CASE k # n
      <4>1. issues'[k] = issues[k]
        BY <1>2, <3>2
      <4> QED BY <2>1, <4>1
    <3> QED BY <3>1, <3>2
  <2>4. ASSUME NEW q \in Process, proc'[q].cmd = "admit" PROVE ~proc'[q].resolved
    <3>1. CASE q = p
      BY <1>1, <2>2, <3>1
    <3>2. CASE q # p
      <4>1. proc'[q] = proc[q]
        BY <1>1, <3>2
      <4> QED BY <2>1, <2>4, <4>1
    <3> QED BY <3>1, <3>2
  <2> QED BY <2>3, <2>4
<1>6. /\ \A q \in Process : proc'[q].cmd = "admit" => proc'[q].on \in Number'
      /\ \A q \in Process : proc'[q].cmd = "admit" /\ proc'[q].at = "close" =>
           proc'[q].decision = "close_now"
  BY <1>1, <1>2 DEF Admissions
<1>7. ASSUME NEW k \in Number', used'.hand = 0, ~issues'[k].pull, First(k)',
             Verdict[issues'[k].incident] # "close_now"
      PROVE  /\ issues'[k].open
             /\ \A q \in Process : Admitting(q, k)' => proc'[q].decision # "close_now"
  <2>1. k \in Number /\ ~issues[k].pull /\ First(k) /\ Verdict[issues[k].incident] # "close_now"
    BY <1>2, <1>7
  <2>2. issues[k].open /\ \A q \in Process : Admitting(q, k) => proc[q].decision # "close_now"
    BY <1>7, <2>1 DEF Admissions
  <2>3. issues'[k].open
    <3>1. CASE k = n
      BY <1>2, <2>2, <3>1
    <3>2. CASE k # n
      <4>1. issues'[k] = issues[k]
        BY <1>2, <2>1, <3>2
      <4> QED BY <2>2, <4>1
    <3> QED BY <3>1, <3>2
  <2>4. ASSUME NEW q \in Process, Admitting(q, k)' PROVE proc'[q].decision # "close_now"
    BY <1>1, <1>4, <2>2, <2>4
  <2> QED BY <2>3, <2>4
<1>8. ASSUME NEW k \in Number', Len(issues') <= PageSize, ~issues'[k].pull, ~First(k)'
      PROVE  /\ admitted'[k] => ~issues'[k].open
             /\ \A q \in Process : Admitting(q, k)' =>
                  proc'[q].decision = "close_now" /\ (proc'[q].at = "done" => ~issues'[k].open)
  <2>1. k \in Number /\ Len(issues) <= PageSize /\ ~issues[k].pull /\ ~First(k)
    BY <1>2, <1>8
  <2>2. /\ admitted[k] => ~issues[k].open
        /\ \A q \in Process : Admitting(q, k) =>
             proc[q].decision = "close_now" /\ (proc[q].at = "done" => ~issues[k].open)
    BY <2>1 DEF Admissions
  <2>3. issues'[k].open => issues[k].open
    <3>1. CASE k = n
      BY <1>2, <3>1
    <3>2. CASE k # n
      <4>1. issues'[k] = issues[k]
        BY <1>2, <2>1, <3>2
      <4> QED BY <4>1
    <3> QED BY <3>1, <3>2
  <2>4. ASSUME NEW q \in Process, Admitting(q, k)'
        PROVE  proc'[q].decision = "close_now" /\ (proc'[q].at = "done" => ~issues'[k].open)
    <3>1. CASE q = p
      <4>1. k = n /\ Admitting(p, n)
        BY <1>1, <2>4, <3>1 DEF Admitting
      <4>2. r.decision = "close_now"
        BY <2>2, <4>1
      <4> QED BY <1>1, <1>2, <3>1, <4>1, <4>2
    <3>2. CASE q # p
      <4>1. proc'[q] = proc[q] /\ Admitting(q, k)
        BY <1>1, <1>4, <2>4, <3>2
      <4>2. proc[q].decision = "close_now" /\ (proc[q].at = "done" => ~issues[k].open)
        BY <2>2, <4>1
      <4> QED BY <2>3, <4>1, <4>2
    <3> QED BY <3>1, <3>2
  <2> QED BY <2>2, <2>3, <2>4
<1>9. Admissions'
  BY <1>5, <1>6, <1>7, <1>8 DEF Admissions
<1> QED BY <1>1, <1>2, <1>3, <1>9, AdmissionStep DEF Pub, Run

LEMMA ApplyLabelsKeeps == ASSUME Inv, NEW p \in Process, ApplyLabels(p) PROVE Inv'
<1>1. PICK n \in Number : n = proc[p].on /\ Admitting(p, n)
  BY DEF ApplyLabels, Inv, Admissions, Admitting
<1>2. proc[p] \in AdmitType /\ issues[n] \in IssueType /\ issues \in Seq(IssueType)
  BY Kinds DEF ApplyLabels, Inv, Types, Number
<1>3. PICK d \in Decision : d = proc[p].decision
  BY <1>2 DEF AdmitType
<1>4. PICK b \in BOOLEAN : b = proc[p].resolved
  BY <1>2 DEF AdmitType
<1>5. PICK at \in {"close", "done", "failed"} :
        Goto(p, at) /\ (at = "close" => d = "close_now") /\ (at = "done" => d # "close_now")
  BY <1>3 DEF ApplyLabels
<1> DEFINE new == [[issues[n] EXCEPT !.label = d] EXCEPT !.resolved = b]
           r   == [proc[p] EXCEPT !.at = at]
<1>6. /\ new \in IssueType /\ new.pull = issues[n].pull /\ new.by = issues[n].by
      /\ new.incident = issues[n].incident
  BY <1>2 DEF IssueType
<1>7. (new.open <=> issues[n].open) /\ (new.resolved <=> b)
  BY <1>2 DEF IssueType
<1>8. /\ r \in AdmitType /\ r.on = n /\ r.at = at /\ r.decision = proc[p].decision
      /\ r.resolved => proc[p].resolved
  <2>1. at \in {"label", "close", "done", "failed"} /\ proc[p].on = n
    BY <1>1
  <2> HIDE DEF new
  <2> QED BY <1>2, <2>1, GotoAdmit
<1>9. issues' = [issues EXCEPT ![n] = new]
  BY <1>1, <1>2, <1>3, <1>4 DEF ApplyLabels, Number
<1>10. proc' = [proc EXCEPT ![p] = r] /\ UNCHANGED <<sub, admitted, promotionVars, unsure, used>>
  BY <1>5 DEF ApplyLabels, Goto
<1> HIDE DEF new, r
<1> QED BY <1>1, <1>3, <1>4, <1>5, <1>6, <1>7, <1>8, <1>9, <1>10, AdmissionGoesOn

LEMMA CloseIssueKeeps == ASSUME Inv, NEW p \in Process, CloseIssue(p) PROVE Inv'
<1>1. PICK n \in Number : n = proc[p].on /\ Admitting(p, n)
  BY DEF CloseIssue, Inv, Admissions, Admitting
<1>2. proc[p] \in AdmitType /\ issues[n] \in IssueType /\ issues \in Seq(IssueType)
  BY Kinds DEF CloseIssue, Inv, Types, Number
<1>3. proc[p].decision = "close_now"
  BY DEF CloseIssue, Inv, Admissions
<1> DEFINE new == [issues[n] EXCEPT !.open = FALSE]
           r   == [proc[p] EXCEPT !.at = "done"]
<1>4. /\ new \in IssueType /\ new.pull = issues[n].pull /\ new.by = issues[n].by
      /\ new.incident = issues[n].incident
  BY <1>2 DEF IssueType
<1>5. ~new.open /\ (new.resolved <=> issues[n].resolved)
  BY <1>2 DEF IssueType
<1>6. /\ r \in AdmitType /\ r.on = n /\ r.at = "done" /\ r.decision = proc[p].decision
      /\ r.resolved => proc[p].resolved
  BY <1>1, <1>2, GotoAdmit
<1>7. issues' = [issues EXCEPT ![n] = new]
  BY <1>1, <1>2 DEF CloseIssue, Number
<1>8. proc' = [proc EXCEPT ![p] = r] /\ UNCHANGED <<sub, admitted, promotionVars, unsure, used>>
  BY DEF CloseIssue, Goto
<1> HIDE DEF new, r
<1> QED BY <1>1, <1>3, <1>4, <1>5, <1>6, <1>7, <1>8, AdmissionGoesOn

LEMMA AdmissionFailsKeeps == ASSUME Inv, NEW p \in Process, AdmissionFails(p) PROVE Inv'
<1>1. PICK n \in Number : n = proc[p].on /\ Admitting(p, n)
  BY DEF AdmissionFails, Inv, Admissions, Admitting
<1>2. proc[p] \in AdmitType /\ issues[n] \in IssueType /\ issues \in Seq(IssueType)
  BY Kinds DEF AdmissionFails, Inv, Types, Number
<1> DEFINE r == [proc[p] EXCEPT !.at = "failed"]
<1>3. /\ r \in AdmitType /\ r.on = n /\ r.at = "failed" /\ r.decision = proc[p].decision
      /\ r.resolved => proc[p].resolved
  BY <1>1, <1>2, GotoAdmit
<1>4. issues' = [issues EXCEPT ![n] = issues[n]]
  BY <1>2 DEF AdmissionFails, issueVars
<1>5. proc' = [proc EXCEPT ![p] = r] /\ UNCHANGED <<sub, admitted, promotionVars, unsure, used>>
  BY DEF AdmissionFails, Goto, issueVars
<1> HIDE DEF r
<1> QED BY <1>1, <1>2, <1>3, <1>4, <1>5, AdmissionGoesOn

\* An issue is recorded as admitted when every call of gh was answered.
LEMMA RecordAdmissionKeeps == ASSUME Inv, NEW p \in Process, RecordAdmission(p) PROVE Inv'
<1> USE DEF Inv
<1>1. PICK n \in Number : n = proc[p].on /\ Admitting(p, n)
  BY DEF RecordAdmission, Admissions, Admitting
<1>2. /\ proc' \in [Process -> ProcType] /\ \A q \in Process : q # p => proc'[q] = proc[q]
      /\ proc'[p].cmd = "none" /\ proc[p].cmd = "admit"
  BY Moves DEF RecordAdmission, Ends, Types, ProcType, Idle
<1>3. UNCHANGED <<sub, issues, promotionVars, unsure, used>>
  BY DEF RecordAdmission
<1> DEFINE b == admitted[n] \/ proc[p].at = "done"
<1>4. admitted' = [admitted EXCEPT ![n] = b]
  BY <1>1 DEF RecordAdmission
<1>5. b \in BOOLEAN /\ admitted \in Seq(BOOLEAN) /\ n \in 1 .. Len(admitted)
  BY DEF Types, Number
<1>6. b => admitted[n] \/ proc[p].at = "done"
  OBVIOUS
<1> HIDE DEF b
<1>7. /\ admitted' \in Seq(BOOLEAN) /\ Len(admitted') = Len(admitted)
      /\ \A k \in 1 .. Len(admitted) : admitted'[k] = IF k = n THEN b ELSE admitted[k]
  BY <1>4, <1>5, ExceptSeq
<1>8. Types' /\ Alone'
  BY <1>2, <1>3, <1>7, AloneGoesOn DEF Types, promotionVars
<1>9. Number' = Number /\ \A k : First(k)' <=> First(k)
  BY <1>3 DEF Number, First, IssuesOf
<1>10. \A q \in Process : \A k : Admitting(q, k)' => Admitting(q, k) /\ proc'[q] = proc[q]
  BY <1>2 DEF Admitting
<1>11. /\ used'.hand = 0 => /\ \A k \in Number' : ~issues'[k].resolved
                            /\ \A q \in Process : proc'[q].cmd = "admit" => ~proc'[q].resolved
       /\ \A q \in Process : proc'[q].cmd = "admit" => proc'[q].on \in Number'
       /\ \A q \in Process : proc'[q].cmd = "admit" /\ proc'[q].at = "close" =>
            proc'[q].decision = "close_now"
  <2>1. \A q \in Process : proc'[q].cmd = "admit" => proc'[q] = proc[q]
    BY <1>2
  <2> QED BY <1>3, <1>9, <2>1 DEF Admissions
<1>12. ASSUME NEW k \in Number', used'.hand = 0, ~issues'[k].pull, First(k)',
              Verdict[issues'[k].incident] # "close_now"
       PROVE  /\ issues'[k].open
              /\ \A q \in Process : Admitting(q, k)' => proc'[q].decision # "close_now"
  <2>1. issues[k].open /\ \A q \in Process : Admitting(q, k) => proc[q].decision # "close_now"
    BY <1>3, <1>9, <1>12 DEF Admissions
  <2> QED BY <1>3, <1>10, <2>1
<1>13. ASSUME NEW k \in Number', Len(issues') <= PageSize, ~issues'[k].pull, ~First(k)'
       PROVE  /\ admitted'[k] => ~issues'[k].open
              /\ \A q \in Process : Admitting(q, k)' =>
                   proc'[q].decision = "close_now" /\ (proc'[q].at = "done" => ~issues'[k].open)
  <2>1. /\ admitted[k] => ~issues[k].open
        /\ \A q \in Process : Admitting(q, k) =>
             proc[q].decision = "close_now" /\ (proc[q].at = "done" => ~issues[k].open)
    BY <1>3, <1>9, <1>13 DEF Admissions
  <2>2. issues' = issues
    BY <1>3
  <2>3. admitted'[k] => ~issues[k].open
    <3>1. k \in 1 .. Len(admitted)
      BY <1>9 DEF Number, Types
    <3>2. CASE k = n
      <4>1. admitted'[k] => b
        BY <1>7, <3>1, <3>2
      <4> QED BY <1>1, <1>6, <2>1, <3>2, <4>1
    <3>3. CASE k # n
      <4>1. admitted'[k] = admitted[k]
        BY <1>7, <3>1, <3>3
      <4> QED BY <2>1, <4>1
    <3> QED BY <3>2, <3>3
  <2>4. ASSUME NEW q \in Process, Admitting(q, k)'
        PROVE  proc'[q].decision = "close_now" /\ (proc'[q].at = "done" => ~issues[k].open)
    <3>1. proc'[q] = proc[q] /\ Admitting(q, k)
      BY <1>10, <2>4
    <3>2. proc[q].decision = "close_now" /\ (proc[q].at = "done" => ~issues[k].open)
      BY <2>1, <3>1
    <3> QED BY <3>1, <3>2
  <2> QED BY <2>2, <2>3, <2>4
<1>14. Admissions'
  BY <1>11, <1>12, <1>13 DEF Admissions
<1> QED BY <1>2, <1>3, <1>8, <1>14, AdmissionStep DEF Pub, Run

LEMMA ResolveByHandKeeps == ASSUME Inv, NEW n, ResolveByHand(n) PROVE Inv'
<1> USE DEF Inv
<1>1. /\ n \in Number /\ UNCHANGED <<sub, admitted, promotionVars, proc, unsure>>
      /\ used' = [used EXCEPT !.hand = @ + 1]
  BY DEF ResolveByHand
<1>2. issues[n] \in IssueType /\ issues \in Seq(IssueType)
  BY <1>1 DEF Types, Number
<1>3. PICK new \in IssueType :
        /\ issues' = [issues EXCEPT ![n] = new]
        /\ new.pull = issues[n].pull /\ new.by = issues[n].by /\ new.incident = issues[n].incident
        /\ new.open => issues[n].open
  <2>1. CASE issues' = [issues EXCEPT ![n].open = FALSE]
    <3> DEFINE new == [issues[n] EXCEPT !.open = FALSE]
    <3>1. /\ new \in IssueType /\ new.pull = issues[n].pull /\ new.by = issues[n].by
          /\ new.incident = issues[n].incident
      BY <1>2 DEF IssueType
    <3>2. ~new.open
      BY <1>2 DEF IssueType
    <3>3. issues' = [issues EXCEPT ![n] = new]
      BY <2>1
    <3> HIDE DEF new
    <3> QED BY <3>1, <3>2, <3>3
  <2>2. CASE issues' = [issues EXCEPT ![n].resolved = TRUE]
    <3> DEFINE new == [issues[n] EXCEPT !.resolved = TRUE]
    <3>1. /\ new \in IssueType /\ new.pull = issues[n].pull /\ new.by = issues[n].by
          /\ new.incident = issues[n].incident
      BY <1>2 DEF IssueType
    <3>2. new.open <=> issues[n].open
      BY <1>2 DEF IssueType
    <3>3. issues' = [issues EXCEPT ![n] = new]
      BY <2>2
    <3> HIDE DEF new
    <3> QED BY <3>1, <3>2, <3>3
  <2> QED BY <2>1, <2>2 DEF ResolveByHand
<1>4. /\ issues' \in Seq(IssueType) /\ Len(issues') = Len(issues) /\ Number' = Number
      /\ issues'[n] = new /\ \A k \in Number : k # n => issues'[k] = issues[k]
      /\ \A k \in Number : /\ issues'[k].by = issues[k].by
                           /\ issues'[k].incident = issues[k].incident
                           /\ issues'[k].pull = issues[k].pull
      /\ \A k \in Number : First(k)' <=> First(k)
  BY <1>1, <1>3, IssueChanged
<1>5. used' \in [commands : Nat, kills : Nat, pulls : Nat, hand : Nat] /\ used'.hand # 0
  <2>1. used \in [commands : Nat, kills : Nat, pulls : Nat, hand : Nat]
    BY DEF Types
  <2>2. used.hand + 1 \in Nat /\ used.hand + 1 # 0
    BY <2>1
  <2> QED BY <1>1, <2>1, <2>2
<1>6. Types' /\ Alone'
  BY <1>1, <1>4, <1>5 DEF Types, Alone, Works, promotionVars
<1>7. \A t, k : Names(t, k) => Names(t, k)'
  BY <1>1, <1>4 DEF Names
<1>8. \A q, t : Publishes(q, t)' <=> Publishes(q, t)
  BY <1>1 DEF Publishes
<1>9. Submissions'
  BY <1>1, <1>4, <1>7, <1>8 DEF Submissions
<1>10. Published'
  BY <1>1, <1>4, <1>8 DEF Published
<1>11. Promotions' /\ Executions'
  BY <1>1 DEF Promotions, Executions, Holds, Current, Record, Runs, promotionVars
<1>12. ASSUME NEW k \in Number', Len(issues') <= PageSize, ~issues'[k].pull, ~First(k)'
       PROVE  /\ admitted'[k] => ~issues'[k].open
              /\ \A q \in Process : Admitting(q, k)' =>
                   proc'[q].decision = "close_now" /\ (proc'[q].at = "done" => ~issues'[k].open)
  <2>1. k \in Number /\ Len(issues) <= PageSize /\ ~issues[k].pull /\ ~First(k)
    BY <1>4, <1>12
  <2>2. /\ admitted[k] => ~issues[k].open
        /\ \A q \in Process : Admitting(q, k) =>
             proc[q].decision = "close_now" /\ (proc[q].at = "done" => ~issues[k].open)
    BY <2>1 DEF Admissions
  <2>3. issues'[k].open => issues[k].open
    <3>1. CASE k = n
      BY <1>3, <1>4, <3>1
    <3>2. CASE k # n
      <4>1. issues'[k] = issues[k]
        BY <1>4, <2>1, <3>2
      <4> QED BY <4>1
    <3> QED BY <3>1, <3>2
  <2>4. admitted' = admitted /\ \A q \in Process : (Admitting(q, k)' <=> Admitting(q, k)) /\ proc' = proc
    BY <1>1 DEF Admitting
  <2>5. ASSUME NEW q \in Process, Admitting(q, k)
        PROVE  proc[q].decision = "close_now" /\ (proc[q].at = "done" => ~issues'[k].open)
    <3>1. proc[q].decision = "close_now" /\ (proc[q].at = "done" => ~issues[k].open)
      BY <2>2, <2>5
    <3> QED BY <2>3, <3>1
  <2>6. admitted[k] => ~issues'[k].open
    BY <2>2, <2>3
  <2> QED BY <2>4, <2>5, <2>6
<1>13. Admissions'
  <2>1. /\ \A q \in Process : proc'[q].cmd = "admit" => proc'[q].on \in Number'
        /\ \A q \in Process : proc'[q].cmd = "admit" /\ proc'[q].at = "close" =>
             proc'[q].decision = "close_now"
    BY <1>1, <1>4 DEF Admissions
  <2> QED BY <1>5, <1>12, <2>1 DEF Admissions
<1> QED BY <1>6, <1>9, <1>10, <1>11, <1>13

\* A pull request is no issue, of no submission.
LEMMA OpenPullKeeps == ASSUME Inv, NEW i \in Incident, OpenPull(i) PROVE Inv'
<1> USE DEF Inv
<1> DEFINE new == Open(i, Nobody, TRUE)
<1>1. /\ issues' = Append(issues, new) /\ admitted' = Append(admitted, FALSE)
      /\ used' = [used EXCEPT !.pulls = @ + 1] /\ UNCHANGED <<sub, promotionVars, proc, unsure>>
  BY DEF OpenPull
<1>2. new \in IssueType /\ new.by = Nobody /\ new.open /\ ~new.resolved
  BY DEF Open, IssueType
<1>3. \A s \in Submission : s # Nobody
  BY IncidentsAssumption DEF IncidentsAssumption, Nobody
<1> HIDE DEF new
<1>4. PICK last \in {Len(issues')} : TRUE
  OBVIOUS
<1>5. /\ issues' \in Seq(IssueType) /\ admitted' \in Seq(BOOLEAN) /\ Len(admitted') = Len(issues')
      /\ \A n \in Number : issues'[n] = issues[n]
      /\ issues'[last] = new /\ Number' = Number \cup {last}
  BY <1>1, <1>2, <1>4, IssueOpened
<1>6. used' \in [commands : Nat, kills : Nat, pulls : Nat, hand : Nat] /\ used'.hand = used.hand
  <2>1. used \in [commands : Nat, kills : Nat, pulls : Nat, hand : Nat]
    BY DEF Types
  <2>2. used.pulls + 1 \in Nat
    BY <2>1
  <2> QED BY <1>1, <2>1, <2>2
<1>7. Types' /\ Alone'
  BY <1>1, <1>5, <1>6 DEF Types, Alone, Works, promotionVars
<1>8. \A t, k : Names(t, k) => Names(t, k)'
  BY <1>1, <1>5 DEF Names
<1>9. \A q, t : Publishes(q, t)' <=> Publishes(q, t)
  BY <1>1 DEF Publishes
<1>10. \A t \in Submission, n \in Number' : issues'[n].by = t => n \in Number /\ issues[n].by = t
  BY <1>2, <1>3, <1>5
<1>11. Submissions'
  BY <1>1, <1>5, <1>8, <1>9, <1>10 DEF Submissions
<1>12. Published'
  <2> SUFFICES ASSUME NEW t \in Submission \ unsure
               PROVE  /\ \A n, k \in Number' : issues'[n].by = t /\ issues'[k].by = t => n = k
                      /\ \A q \in Process : Publishes(q, t)' => sub[t].state \in {"prepared", "publish_failed"}
                      /\ /\ sub[t].state \in {"prepared", "publish_failed"}
                         /\ \A q \in Process : ~(Publishes(q, t)' /\ proc'[q].at = "published")
                         => \A n \in Number' : issues'[n].by # t
    BY <1>1 DEF Published
  <2>1. \A n, k \in Number' : issues'[n].by = t /\ issues'[k].by = t => n = k
    BY <1>10 DEF Published
  <2> QED BY <1>1, <1>9, <1>10, <2>1 DEF Published
<1>13. Promotions' /\ Executions'
  BY <1>1 DEF Promotions, Executions, Holds, Current, Record, Runs, promotionVars
<1>14. Admissions'
  BY <1>1, <1>2, <1>6, AdmissionsSeeNoNew
<1> QED BY <1>7, <1>11, <1>12, <1>13, <1>14

-----------------------------------------------------------------------------
(* Commands that end before their time                                     *)

\* What a killed command worked on is in doubt.
LEMMA KillKeeps == ASSUME Inv, NEW p \in Process, Kill(p) PROVE Inv'
<1> USE DEF Inv
<1>1. /\ proc[p] # Idle /\ used' = [used EXCEPT !.kills = @ + 1] /\ unsure' = Doubt(proc[p].on)
      /\ Ends(p) /\ UNCHANGED <<issueVars, promotionVars>>
  BY DEF Kill
<1>2. /\ proc' \in [Process -> ProcType] /\ \A q \in Process : q # p => proc'[q] = proc[q]
      /\ proc'[p].cmd = "none"
  BY <1>1, Moves DEF Ends, Types, ProcType, Idle
<1>3. unsure \subseteq unsure' /\ unsure' \subseteq Submission \cup Promotion
  BY <1>1 DEF Doubt, Types
<1>4. used' \in [commands : Nat, kills : Nat, pulls : Nat, hand : Nat] /\ used'.hand = used.hand
  <2>1. used \in [commands : Nat, kills : Nat, pulls : Nat, hand : Nat]
    BY DEF Types
  <2>2. used.kills + 1 \in Nat
    BY <2>1
  <2> QED BY <1>1, <2>1, <2>2
<1>5. Types' /\ Alone'
  BY <1>1, <1>2, <1>3, <1>4, AloneGoesOn DEF Types, promotionVars, issueVars
<1>6. /\ \A q \in Process : \A t : Publishes(q, t)' => Publishes(q, t) /\ proc'[q] = proc[q]
      /\ \A q \in Process, t \in Submission : Publishes(q, t) /\ t \notin unsure' =>
           Publishes(q, t)' /\ proc'[q] = proc[q]
  BY <1>1, <1>2 DEF Publishes, Pub, Doubt
<1>7. Number' = Number /\ \A t, n : Names(t, n) => Names(t, n)'
  BY <1>1 DEF Names, Number, issueVars
<1>8. Submissions'
  BY <1>1, <1>6, <1>7 DEF Submissions, issueVars
<1>9. Published'
  BY <1>1, <1>3, <1>6, <1>7 DEF Published, issueVars
<1>10. /\ \A q \in Process : \A m : Runs(q, m)' => Runs(q, m) /\ proc'[q] = proc[q]
       /\ \A q \in Process, m \in Promotion : Runs(q, m) /\ m \notin unsure' =>
            Runs(q, m)' /\ proc'[q] = proc[q]
  BY <1>1, <1>2 DEF Runs, Run, Doubt
<1>11. Promotions'
  BY <1>1, <1>10 DEF Promotions, promotionVars
<1>12. Executions'
  BY <1>1, <1>3, <1>10 DEF Executions, Holds, Current, Record, promotionVars
<1>13. Admissions'
  BY <1>1, <1>2, <1>4, AdmissionsStay DEF issueVars
<1> QED BY <1>5, <1>8, <1>9, <1>11, <1>12, <1>13

-----------------------------------------------------------------------------
(* Promotions                                                              *)

\* What a command must keep of the promotion it runs.
LEMMA RunStep ==
  ASSUME Inv, NEW p \in Process, NEW m \in Promotion, Types', Alone', unsure \subseteq unsure',
         UNCHANGED issueVars, used'.hand = used.hand,
         \A q \in Process : q # p => proc'[q] = proc[q],
         proc[p].cmd \in Run \cup {"none"}, proc'[p].cmd \in Run \cup {"none"},
         Runs(p, m) \/ proc[p].cmd = "none", Runs(p, m)' \/ proc'[p].cmd = "none",
         \A k \in Promotion : k # m => /\ source'[k] = source[k] /\ target'[k] = target[k]
                                       /\ proofs'[k] = proofs[k] /\ place'[k] = place[k],
         source'[m].made,
         m \notin unsure' =>
           /\ \A q \in Process : Runs(q, m)' => q = p
           /\ place'[m] # "back" =>
                /\ proofs'[m] <= 1
                /\ Current(m)'.executed => proofs'[m] = 1
                /\ proofs'[m] = 0 \/ Current(m)'.executed \/ (Runs(p, m)' /\ proc'[p].at = "record")
           /\ Runs(p, m)' => Holds(p, m)'
           /\ Runs(p, m)' \/ (place'[m] = "source" /\ target'[m].made => source'[m] = target'[m])
  PROVE  Inv'
<1> USE DEF Inv
<1>1. \A q \in Process : \A k : k # m => (Runs(q, k)' <=> Runs(q, k))
  BY DEF Runs, Run
<1>2. \A q \in Process : \A k : k # m /\ Runs(q, k) => proc'[q] = proc[q]
  BY DEF Runs, Run
<1>3. Promotions'
  BY <1>1 DEF Promotions
<1>4. \A k \in Promotion : k # m =>
        /\ Current(k)' = Current(k)
        /\ \A q \in Process : Runs(q, k) /\ Holds(q, k) => Holds(q, k)'
  BY <1>2 DEF Current, Holds, Record
<1>5. Executions'
  <2> SUFFICES ASSUME NEW k \in Promotion \ unsure'
               PROVE  /\ place'[k] # "back" =>
                           /\ proofs'[k] <= 1
                           /\ Current(k)'.executed => proofs'[k] = 1
                           /\ \/ proofs'[k] = 0 \/ Current(k)'.executed
                              \/ \E q \in Process : Runs(q, k)' /\ proc'[q].at = "record"
                      /\ \A q \in Process : Runs(q, k)' => Holds(q, k)'
                      /\ (\A q \in Process : ~Runs(q, k)') /\ place'[k] = "source" /\ target'[k].made =>
                           source'[k] = target'[k]
    BY DEF Executions
  <2>1. CASE k = m
    BY <2>1
  <2>2. CASE k # m
    BY <1>1, <1>2, <1>4, <2>2 DEF Executions
  <2> QED BY <2>1, <2>2
<1>6. Submissions' /\ Published'
  BY SubmissionsStay DEF issueVars, Run, Pub
<1>7. Admissions'
  BY AdmissionsStay DEF issueVars, Run
<1> QED BY <1>3, <1>5, <1>6, <1>7

\* Who runs a promotion that is in no doubt runs it alone, and holds what it must.
LEMMA RunsAlone ==
  ASSUME Alone, Executions, NEW m \in Promotion \ unsure, NEW p \in Process, Runs(p, m)
  PROVE  Holds(p, m) /\ \A q \in Process : Runs(q, m) => q = p
BY DEF Alone, Executions, Works, Runs, Run

\* So what is known of the promotion's proofs is known of that command.
LEMMA RunsProofs ==
  ASSUME Alone, Executions, NEW m \in Promotion \ unsure, NEW p \in Process, Runs(p, m),
         place[m] # "back"
  PROVE  /\ proofs[m] <= 1 /\ (Current(m).executed => proofs[m] = 1)
         /\ proofs[m] = 0 \/ Current(m).executed \/ proc[p].at = "record"
<1>1. \A q \in Process : Runs(q, m) => q = p
  BY RunsAlone
<1> QED BY <1>1 DEF Executions

LEMMA PromoteKeeps == ASSUME Inv, NEW p \in Process, NEW m \in Promotion, Promote(p, m) PROVE Inv'
<1> USE DEF Inv
<1> DEFINE state == [cmd |-> "promote", on |-> m, at |-> "copy", home |-> "source", copy |-> NewProm]
<1>1. /\ ~source[m].made /\ Begin(p, state) /\ source' = [source EXCEPT ![m] = NewProm]
      /\ UNCHANGED <<issueVars, target, proofs, place>>
  BY DEF Promote
<1>2. NewProm \in PromotionType /\ NewProm.made /\ ~NewProm.executed
  BY DEF NewProm, NoProm, PromotionType
<1>3. /\ state \in ProcType /\ state.cmd = "promote" /\ state.on = m /\ state.at = "copy"
      /\ state.home = "source" /\ state.copy = NewProm
  BY <1>2 DEF ProcType, RunType, Run, Home
<1> HIDE DEF state
<1>4. /\ proc' \in [Process -> ProcType] /\ proc'[p] = state /\ proc[p].cmd = "none"
      /\ \A q \in Process : q # p => proc'[q] = proc[q]
  BY <1>1, <1>3, Moves DEF Begin, Types, Idle
<1>5. Alone' /\ unsure \subseteq unsure' /\ unsure' \subseteq Submission \cup Promotion
  BY <1>1, <1>4, AloneBegins
<1>6. used' \in [commands : Nat, kills : Nat, pulls : Nat, hand : Nat] /\ used'.hand = used.hand
  <2>1. used' = [used EXCEPT !.commands = @ + 1]
    BY <1>1 DEF Begin
  <2> QED BY <2>1, UsedCommand
<1>7. /\ source' \in [Promotion -> PromotionType] /\ source'[m] = NewProm
      /\ \A k \in Promotion : k # m => source'[k] = source[k]
  BY <1>1, <1>2 DEF Types
<1>8. Types'
  BY <1>1, <1>4, <1>5, <1>6, <1>7 DEF Types, issueVars
<1>9. /\ proofs[m] = 0 /\ place[m] = "source" /\ ~target[m].made
      /\ \A q \in Process : ~Runs(q, m)
  BY <1>1 DEF Promotions
<1>10. Runs(p, m)' /\ \A q \in Process : Runs(q, m)' => q = p
  BY <1>3, <1>4, <1>9 DEF Runs, Run
<1>11. Holds(p, m)' /\ ~Current(m)'.executed
  BY <1>1, <1>2, <1>3, <1>4, <1>7, <1>9 DEF Holds, Current
<1> QED BY <1>1, <1>2, <1>3, <1>4, <1>5, <1>6, <1>7, <1>8, <1>9, <1>10, <1>11, RunStep DEF Run

\* A rerun goes by the record of the repository it runs in: in the source first or in
\* the target, that is the one every earlier rerun wrote to.
LEMMA RerunKeeps ==
  ASSUME Inv, NEW p \in Process, NEW m \in Promotion, NEW home \in Home, Rerun(p, m, home)
  PROVE  Inv'
<1> USE DEF Inv
<1> DEFINE state == [cmd |-> "rerun", on |-> m, at |-> "cycle", home |-> home, copy |-> NoProm]
           to == IF home = "source" THEN IF place[m] = "source" THEN "source" ELSE "back"
                 ELSE IF place[m] = "back" THEN "back" ELSE "target"
<1>1. /\ Record(m, home).made /\ ~Record(m, home).executed /\ Begin(p, state)
      /\ UNCHANGED <<issueVars, source, target, proofs>>
  BY DEF Rerun, Rerunnable
<1>2. /\ place' \in [Promotion -> {"source", "target", "back"}] /\ place'[m] = to
      /\ \A k \in Promotion : k # m => place'[k] = place[k]
  BY DEF Rerun, Types
<1>3. NoProm \in PromotionType
  BY DEF NoProm, PromotionType
<1>4. state \in ProcType /\ state.cmd = "rerun" /\ state.on = m /\ state.at = "cycle" /\ state.home = home
  BY <1>3 DEF ProcType, RunType, Run
<1> HIDE DEF state
<1>5. /\ proc' \in [Process -> ProcType] /\ proc'[p] = state /\ proc[p].cmd = "none"
      /\ \A q \in Process : q # p => proc'[q] = proc[q]
  BY <1>1, <1>4, Moves DEF Begin, Types, Idle
<1>6. Alone' /\ unsure \subseteq unsure' /\ unsure' \subseteq Submission \cup Promotion
  BY <1>1, <1>5, AloneBegins
<1>7. used' \in [commands : Nat, kills : Nat, pulls : Nat, hand : Nat] /\ used'.hand = used.hand
  <2>1. used' = [used EXCEPT !.commands = @ + 1]
    BY <1>1 DEF Begin
  <2> QED BY <2>1, UsedCommand
<1>8. Types'
  BY <1>1, <1>2, <1>5, <1>6, <1>7 DEF Types, issueVars
<1>9. m \notin unsure' => m \notin unsure /\ \A q \in Process : ~Runs(q, m)
  <2>1. m \notin unsure' => ~Busy(m)
    BY <1>1, <1>4 DEF Begin, Doubt
  <2> QED BY <1>6, <2>1 DEF Busy, Works, Runs, Run
<1>10. source[m].made
  BY <1>1 DEF Promotions, Record, Home
<1>11. ASSUME m \notin unsure', to # "back" PROVE proofs[m] = 0 /\ Current(m)' = Record(m, home)
  <2>1. place[m] \in {"source", "target", "back"}
    BY DEF Types
  <2>2. to = home /\ place[m] # "back"
    BY <1>11, <2>1 DEF Home
  <2>3. Current(m)' = Record(m, home)
    BY <1>1, <1>2, <2>2 DEF Current, Record, Home
  <2>4. Current(m) = Record(m, home)
    BY <1>1, <1>9, <1>11, <2>1, <2>2 DEF Executions, Current, Record, Home
  <2> QED BY <1>1, <1>9, <1>11, <2>2, <2>3, <2>4 DEF Executions
<1>12. Runs(p, m)' /\ \A q \in Process : Runs(q, m)' => Runs(q, m) \/ q = p
  BY <1>4, <1>5 DEF Runs, Run
<1>13. m \notin unsure' => Holds(p, m)'
  <2>1. place[m] \in {"source", "target", "back"}
    BY DEF Types
  <2>2. (home = "source" => to # "target") /\ (home = "target" => to # "source")
    BY <2>1
  <2> HIDE DEF to
  <2> QED BY <1>1, <1>2, <1>4, <1>5, <1>11, <2>2 DEF Holds
<1> HIDE DEF to
<1> QED BY <1>1, <1>2, <1>4, <1>5, <1>6, <1>7, <1>8, <1>9, <1>10, <1>11, <1>12, <1>13, RunStep DEF Run

\* The copy that a command carries reaches the target, or does not.
LEMMA WriteCopyKeeps == ASSUME Inv, NEW p \in Process, WriteCopy(p) PROVE Inv'
<1> USE DEF Inv
<1>1. proc[p] \in RunType /\ proc[p].at = "copy" /\ proc[p].cmd \in Run
  BY Kinds DEF WriteCopy, Types, Run
<1>2. PICK m \in Promotion : m = proc[p].on /\ Runs(p, m)
  BY <1>1 DEF RunType, Runs
<1>3. PICK c \in PromotionType : c = proc[p].copy
  BY <1>1 DEF RunType
<1> DEFINE go == [[[proc[p] EXCEPT !.cmd = "rerun"] EXCEPT !.at = "cycle"] EXCEPT !.copy = NoProm]
<1>4. /\ target' = [target EXCEPT ![m] = c] \/ (target' = target /\ Ends(p))
      /\ UNCHANGED <<issueVars, source, proofs, place, unsure, used>>
  BY <1>2, <1>3 DEF WriteCopy
<1>5. Ends(p) \/ proc' = [proc EXCEPT ![p] = go]
  BY DEF WriteCopy, Types
<1>6. go \in ProcType /\ go.cmd = "rerun" /\ go.at = "cycle" /\ go.on = m /\ go.home = proc[p].home
  BY <1>1, <1>2 DEF ProcType, RunType, Run, NoProm, PromotionType
<1>7. Idle \in ProcType /\ Idle.cmd = "none"
  BY DEF ProcType, Idle
<1> HIDE DEF go
<1>8. /\ proc' \in [Process -> ProcType] /\ \A q \in Process : q # p => proc'[q] = proc[q]
      /\ \/ proc'[p].cmd = "none"
         \/ /\ proc'[p].cmd = "rerun" /\ proc'[p].at = "cycle" /\ proc'[p].on = m
            /\ proc'[p].home = proc[p].home /\ proc'[p] = go
      /\ Ends(p) => proc'[p].cmd = "none"
  BY <1>5, <1>6, <1>7, Moves DEF Types, Ends
<1>9. /\ target' \in [Promotion -> PromotionType]
      /\ target'[m] = c \/ (target'[m] = target[m] /\ proc'[p].cmd = "none")
      /\ \A k \in Promotion : k # m => target'[k] = target[k]
  BY <1>4, <1>8 DEF Types
<1>10. Types' /\ Alone'
  BY <1>1, <1>2, <1>4, <1>8, <1>9, AloneGoesOn DEF Types, issueVars, Run
<1>11. source[m].made
  BY <1>2 DEF Promotions
<1>12. Runs(p, m)' <=> proc'[p].cmd = "rerun"
  BY <1>8 DEF Runs, Run
<1>13. ASSUME m \notin unsure
       PROVE  /\ \A q \in Process : Runs(q, m)' => q = p
              /\ proofs[m] = 0 /\ source[m] = c /\ place[m] = "source" /\ proc[p].home = "source"
              /\ ~source[m].executed /\ ~target[m].made
  <2>1. \A q \in Process : q # p => (Runs(q, m)' <=> Runs(q, m))
    BY <1>8 DEF Runs
  <2>2. Holds(p, m) /\ \A q \in Process : Runs(q, m) => q = p
    BY <1>2, <1>13, RunsAlone
  <2>3. Current(m).executed => proofs[m] = 1
    BY <1>1, <1>2, <1>13, <2>2, RunsProofs DEF Holds
  <2> QED BY <1>1, <1>3, <2>1, <2>2, <2>3 DEF Holds, Current
<1>14. ASSUME m \notin unsure PROVE Current(m)' = source[m] /\ (Runs(p, m)' => Holds(p, m)')
  BY <1>4, <1>8, <1>12, <1>13, <1>14 DEF Holds, Current
<1>15. m \notin unsure => Runs(p, m)' \/ (target'[m].made => source'[m] = target'[m])
  BY <1>4, <1>9, <1>13
<1> QED BY <1>1, <1>2, <1>4, <1>8, <1>9, <1>10, <1>11, <1>12, <1>13, <1>14, <1>15, RunStep DEF Run

LEMMA CycleKeeps == ASSUME Inv, NEW p \in Process, Cycle(p) PROVE Inv'
<1> USE DEF Inv
<1>1. proc[p] \in RunType /\ proc[p].at = "cycle" /\ proc[p].cmd \in Run
  BY Kinds DEF Cycle, Types, Run
<1>2. PICK m \in Promotion : m = proc[p].on /\ Runs(p, m)
  BY <1>1 DEF RunType, Runs
<1>3. PICK at \in {"record", "fail"} :
        /\ Goto(p, at) /\ UNCHANGED <<issueVars, source, target, place, unsure, used>>
        /\ \/ at = "record" /\ proofs' = [proofs EXCEPT ![m] = @ + 1]
           \/ at = "fail" /\ proofs' = proofs
  BY <1>2 DEF Cycle
<1> DEFINE r == [proc[p] EXCEPT !.at = at]
<1>4. r \in RunType /\ r.cmd = proc[p].cmd /\ r.on = m /\ r.at = at /\ r.home = proc[p].home
  <2>1. at \in {"copy", "cycle", "record", "fail", "recordCopy", "failCopy"}
    OBVIOUS
  <2> QED BY <1>1, <1>2, <2>1, GotoRun
<1>5. proc' = [proc EXCEPT ![p] = r]
  BY <1>3 DEF Goto
<1>6. r \in ProcType
  BY <1>4 DEF ProcType
<1> HIDE DEF r
<1>7. /\ proc' \in [Process -> ProcType] /\ \A q \in Process : q # p => proc'[q] = proc[q]
      /\ proc'[p].cmd = proc[p].cmd /\ proc'[p].on = m /\ proc'[p].at = at
      /\ proc'[p].home = proc[p].home
  BY <1>4, <1>5, <1>6, Moves DEF Types
<1>8. /\ proofs' \in [Promotion -> Nat] /\ proofs[m] \in Nat
      /\ (at = "record" => proofs'[m] = proofs[m] + 1) /\ (at = "fail" => proofs'[m] = proofs[m])
      /\ \A k \in Promotion : k # m => proofs'[k] = proofs[k]
  <2>1. proofs \in [Promotion -> Nat] /\ proofs[m] + 1 \in Nat
    BY DEF Types
  <2> QED BY <1>3, <2>1
<1>9. Types' /\ Alone'
  BY <1>1, <1>2, <1>3, <1>7, <1>8, AloneGoesOn DEF Types, issueVars, Run
<1>10. source[m].made
  BY <1>2 DEF Promotions
<1>11. Runs(p, m)'
  BY <1>1, <1>7 DEF Runs
<1>12. m \notin unsure => /\ \A q \in Process : Runs(q, m)' => q = p
                          /\ Holds(p, m) /\ (place[m] # "back" => proofs[m] = 0)
  <2>1. \A q \in Process : q # p => (Runs(q, m)' <=> Runs(q, m))
    BY <1>7 DEF Runs
  <2> QED BY <1>1, <1>2, <2>1, RunsAlone DEF Holds
<1>13. m \notin unsure /\ place[m] # "back" =>
         /\ proofs'[m] <= 1 /\ (proofs'[m] = 0 \/ at = "record") /\ (at = "record" => proofs'[m] = 1)
         /\ ~Current(m)'.executed
  <2>1. m \notin unsure /\ place[m] # "back" => ~Current(m).executed
    BY <1>2, <1>12, RunsProofs
  <2> QED BY <1>3, <1>8, <1>12, <2>1 DEF Current
<1>14. m \notin unsure => Holds(p, m)'
  BY <1>3, <1>7, <1>12, <1>13 DEF Holds
<1> QED BY <1>1, <1>2, <1>3, <1>7, <1>8, <1>9, <1>10, <1>11, <1>12, <1>13, <1>14, RunStep DEF Run

\* The record of an execution or of a failure, and the copy of it to come.
LEMMA RecordHomeKeeps == ASSUME Inv, NEW p \in Process, RecordHome(p) PROVE Inv'
<1> USE DEF Inv
<1>1. proc[p] \in RunType /\ proc[p].at \in {"record", "fail"} /\ proc[p].cmd \in Run
  BY Kinds DEF RecordHome, Types, Run
<1>2. PICK m \in Promotion : m = proc[p].on /\ Runs(p, m)
  BY <1>1 DEF RunType, Runs
<1>3. PICK home \in Home : home = proc[p].home
  BY <1>1 DEF RunType
<1> DEFINE old == Record(m, home)
           new == IF proc[p].at = "record" THEN Executed(old) ELSE Failed(old)
           at  == IF proc[p].at = "record" THEN "recordCopy" ELSE "failCopy"
           r   == [[proc[p] EXCEPT !.at = at] EXCEPT !.copy = new]
<1>4. old \in PromotionType /\ source[m] \in PromotionType /\ source[m].made
  BY <1>2 DEF Promotions, Types, Record
<1>5. new \in PromotionType /\ new.made = old.made
  <2>1. old.attempts + 1 \in Nat
    BY <1>4 DEF PromotionType
  <2> QED BY <1>4, <2>1 DEF Executed, Failed, PromotionType
<1>6. new.executed <=> old.executed \/ proc[p].at = "record"
  BY <1>4 DEF Executed, Failed, PromotionType
<1>7. /\ source' = IF home = "source" THEN [source EXCEPT ![m] = new] ELSE source
      /\ target' = IF home = "target" THEN [target EXCEPT ![m] = new] ELSE target
      /\ UNCHANGED <<issueVars, proofs, place, unsure, used>>
  BY <1>2, <1>3 DEF RecordHome
<1>8. at \in {"recordCopy", "failCopy"}
  OBVIOUS
<1>9. proc' = [proc EXCEPT ![p] = r]
  BY <1>2, <1>3 DEF RecordHome, Types
<1> HIDE DEF new, at
<1>10. r \in ProcType /\ r.cmd = proc[p].cmd /\ r.on = m /\ r.at = at /\ r.home = home /\ r.copy = new
  BY <1>1, <1>2, <1>3, <1>5, <1>8 DEF ProcType, RunType
<1> HIDE DEF r
<1>11. /\ proc' \in [Process -> ProcType] /\ \A q \in Process : q # p => proc'[q] = proc[q]
       /\ proc'[p].cmd = proc[p].cmd /\ proc'[p].on = m /\ proc'[p].at = at
       /\ proc'[p].home = home /\ proc'[p].copy = new
  BY <1>9, <1>10, Moves DEF Types
<1>12. /\ source' \in [Promotion -> PromotionType] /\ target' \in [Promotion -> PromotionType]
       /\ home = "source" => source'[m] = new
       /\ home = "target" => source'[m] = source[m] /\ target'[m] = new
       /\ \A k \in Promotion : k # m => source'[k] = source[k] /\ target'[k] = target[k]
  BY <1>5, <1>7 DEF Types
<1>13. Types' /\ Alone'
  BY <1>1, <1>2, <1>7, <1>11, <1>12, AloneGoesOn DEF Types, issueVars, Run
<1>14. source'[m].made
  <2>1. home = "source" => old = source[m]
    BY DEF Record
  <2> HIDE DEF old
  <2> QED BY <1>4, <1>5, <1>12, <2>1 DEF Home
<1>15. Runs(p, m)'
  BY <1>1, <1>11 DEF Runs
<1>16. m \notin unsure => /\ \A q \in Process : Runs(q, m)' => q = p
                          /\ Holds(p, m)
  <2>1. \A q \in Process : q # p => (Runs(q, m)' <=> Runs(q, m))
    BY <1>11 DEF Runs
  <2> QED BY <1>2, <2>1, RunsAlone
<1>17. Record(m, home)' = new
  BY <1>12 DEF Record, Home
<1>18. m \notin unsure => Holds(p, m)'
  BY <1>3, <1>7, <1>8, <1>11, <1>16, <1>17 DEF Holds
<1>19. ASSUME m \notin unsure, place[m] # "back"
       PROVE  /\ proofs[m] <= 1 /\ (Current(m)'.executed => proofs[m] = 1)
              /\ proofs[m] = 0 \/ Current(m)'.executed
  <2>1. place[m] = home
    <3>1. place[m] \in {"source", "target", "back"}
      BY DEF Types
    <3> QED BY <1>3, <1>16, <1>19, <3>1 DEF Holds, Home
  <2>2. Current(m) = old /\ Current(m)' = new
    BY <1>7, <1>12, <2>1 DEF Current, Record, Home
  <2>3. /\ proofs[m] <= 1 /\ (Current(m).executed => proofs[m] = 1)
        /\ proofs[m] = 0 \/ Current(m).executed \/ proc[p].at = "record"
    BY <1>2, <1>19, RunsProofs
  <2>4. proc[p].at = "record" => proofs[m] = 1
    BY <1>16, <1>19 DEF Holds
  <2> HIDE DEF old
  <2> QED BY <1>6, <2>2, <2>3, <2>4
<1> HIDE DEF old
<1> QED BY <1>1, <1>2, <1>7, <1>11, <1>12, <1>13, <1>14, <1>15, <1>16, <1>18, <1>19, RunStep DEF Run

\* Nothing but the copy is written to the target, and that is the command's own record.
LEMMA CopyKeeps ==
  ASSUME Inv, NEW p \in Process, NEW m \in Promotion \ unsure, Runs(p, m),
         proc[p].at \in {"recordCopy", "failCopy"},
         UNCHANGED <<source, place>>, target'[m] \in {target[m], proc[p].copy}
  PROVE  /\ place[m] # "back" => Current(m)' = Current(m)
         /\ (target'[m] = proc[p].copy /\ place[m] = "source") => source[m] = target'[m]
         /\ Holds(p, m)
<1>1. Holds(p, m) /\ place[m] \in {"source", "target", "back"}
  BY RunsAlone DEF Inv, Types
<1>2. proc[p].home \in Home
  <2>1. proc[p] \in RunType
    BY Kinds DEF Inv, Types, Runs
  <2> QED BY <2>1 DEF RunType
<1>3. proc[p].copy = Record(m, proc[p].home)
  BY <1>1 DEF Holds
<1>4. CASE proc[p].home = "source"
  <2>1. place[m] # "target" /\ proc[p].copy = source[m]
    BY <1>1, <1>3, <1>4 DEF Holds, Record
  <2> QED BY <1>1, <1>2, <1>3, <1>4, <2>1 DEF Current, Record
<1>5. CASE proc[p].home = "target"
  <2>1. place[m] # "source" /\ proc[p].copy = target[m]
    BY <1>1, <1>3, <1>5 DEF Holds, Record
  <2> QED BY <1>1, <1>2, <1>3, <1>5, <2>1 DEF Current, Record
<1> QED BY <1>2, <1>4, <1>5 DEF Home

LEMMA RecordTargetKeeps == ASSUME Inv, NEW p \in Process, RecordTarget(p) PROVE Inv'
<1> USE DEF Inv
<1>1. proc[p] \in RunType /\ proc[p].at \in {"recordCopy", "failCopy"} /\ proc[p].cmd \in Run
  BY Kinds DEF RecordTarget, Types, Run
<1>2. PICK m \in Promotion : m = proc[p].on /\ Runs(p, m)
  BY <1>1 DEF RunType, Runs
<1>3. PICK c \in PromotionType : c = proc[p].copy
  BY <1>1 DEF RunType
<1>4. /\ target' = [target EXCEPT ![m] = c] /\ Ends(p)
      /\ UNCHANGED <<issueVars, source, proofs, place, unsure, used>>
  BY <1>2, <1>3 DEF RecordTarget
<1>5. /\ proc' \in [Process -> ProcType] /\ \A q \in Process : q # p => proc'[q] = proc[q]
      /\ proc'[p].cmd = "none"
  BY <1>4, Moves DEF Ends, Types, ProcType, Idle
<1>6. /\ target' \in [Promotion -> PromotionType] /\ target'[m] = c
      /\ \A k \in Promotion : k # m => target'[k] = target[k]
  BY <1>4 DEF Types
<1>7. Types' /\ Alone'
  BY <1>4, <1>5, <1>6, AloneGoesOn DEF Types, issueVars
<1>8. source[m].made
  BY <1>2 DEF Promotions
<1>9. ~Runs(p, m)'
  BY <1>5 DEF Runs, Run
<1>10. m \notin unsure => \A q \in Process : Runs(q, m)' => q = p
  <2>1. \A q \in Process : q # p => (Runs(q, m)' <=> Runs(q, m))
    BY <1>5 DEF Runs
  <2> QED BY <1>2, <2>1, RunsAlone
<1>11. ASSUME m \notin unsure
       PROVE  /\ place[m] # "back" => Current(m)' = Current(m)
              /\ place[m] = "source" => source[m] = target'[m]
  BY <1>1, <1>2, <1>3, <1>4, <1>6, <1>11, CopyKeeps
<1>12. m \notin unsure /\ place[m] # "back" =>
         /\ proofs[m] <= 1 /\ (Current(m).executed => proofs[m] = 1)
         /\ proofs[m] = 0 \/ Current(m).executed
  BY <1>1, <1>2, RunsProofs
<1> QED BY <1>1, <1>2, <1>4, <1>5, <1>6, <1>7, <1>8, <1>9, <1>10, <1>11, <1>12, RunStep DEF Run

\* Only a failure to copy an executed record leaves a promotion in no doubt, and that
\* record says that it was executed.
LEMMA RecordFailsKeeps == ASSUME Inv, NEW p \in Process, RecordFails(p) PROVE Inv'
<1> USE DEF Inv
<1>1. /\ proc[p] \in RunType /\ proc[p].cmd \in Run
      /\ proc[p].at \in {"record", "fail", "recordCopy", "failCopy"}
  BY Kinds DEF RecordFails, Types, Run
<1>2. PICK m \in Promotion : m = proc[p].on /\ Runs(p, m)
  BY <1>1 DEF RunType, Runs
<1>3. PICK c \in PromotionType : c = proc[p].copy
  BY <1>1 DEF RunType
<1>4. /\ UNCHANGED target \/ target' = [target EXCEPT ![m] = c]
      /\ IF proc[p].at \in {"record", "recordCopy"} THEN Goto(p, "fail") ELSE Ends(p)
      /\ unsure' = IF proc[p].at = "recordCopy" THEN unsure ELSE Doubt(m)
      /\ UNCHANGED <<issueVars, source, proofs, place, used>>
  BY <1>2, <1>3 DEF RecordFails
<1> DEFINE r == [proc[p] EXCEPT !.at = "fail"]
<1>5. r \in ProcType /\ r.cmd = proc[p].cmd /\ r.on = m /\ r.at = "fail" /\ r.home = proc[p].home
  BY <1>1, <1>2, GotoRun DEF ProcType
<1>6. Goto(p, "fail") => proc' = [proc EXCEPT ![p] = r]
  BY DEF Goto
<1>7. Idle \in ProcType /\ Idle.cmd = "none"
  BY DEF ProcType, Idle
<1> HIDE DEF r
<1>8. /\ proc' \in [Process -> ProcType] /\ \A q \in Process : q # p => proc'[q] = proc[q]
      /\ \/ proc'[p].cmd = "none" /\ proc[p].at \notin {"record", "recordCopy"}
         \/ /\ proc'[p].cmd = proc[p].cmd /\ proc'[p].on = m /\ proc'[p].at = "fail"
            /\ proc'[p].home = proc[p].home
  BY <1>4, <1>5, <1>6, <1>7, Moves DEF Types, Ends
<1>9. /\ target' \in [Promotion -> PromotionType] /\ target'[m] \in {target[m], c}
      /\ \A k \in Promotion : k # m => target'[k] = target[k]
  BY <1>4 DEF Types
<1>10. /\ unsure \subseteq unsure' /\ unsure' \subseteq Submission \cup Promotion
       /\ m \notin unsure' => m \notin unsure /\ proc[p].at = "recordCopy"
  BY <1>4 DEF Doubt, Types
<1>11. Types' /\ Alone'
  BY <1>1, <1>2, <1>4, <1>8, <1>9, <1>10, AloneGoesOn DEF Types, issueVars, Run
<1>12. source[m].made
  BY <1>2 DEF Promotions
<1>13. Runs(p, m)' \/ proc'[p].cmd = "none"
  BY <1>1, <1>8 DEF Runs
<1>14. ASSUME m \notin unsure'
       PROVE  /\ \A q \in Process : Runs(q, m)' => q = p
              /\ Runs(p, m)' /\ proc'[p].at = "fail" /\ Holds(p, m)'
              /\ place[m] # "back" => Current(m)' = Current(m)
  <2>1. \A q \in Process : q # p => (Runs(q, m)' <=> Runs(q, m))
    BY <1>8 DEF Runs
  <2>2. m \notin unsure /\ proc[p].at = "recordCopy"
    BY <1>10, <1>14
  <2>3. \A q \in Process : Runs(q, m) => q = p
    BY <1>2, <2>2, RunsAlone
  <2>4. Runs(p, m)' /\ proc'[p].at = "fail" /\ proc'[p].home = proc[p].home
    BY <1>1, <1>8, <2>2 DEF Runs
  <2>5. Holds(p, m) /\ (place[m] # "back" => Current(m)' = Current(m))
    BY <1>2, <1>3, <1>4, <1>9, <2>2, CopyKeeps
  <2>6. Holds(p, m)'
    BY <1>4, <2>4, <2>5 DEF Holds
  <2> QED BY <2>1, <2>3, <2>4, <2>5, <2>6
<1>15. m \notin unsure' /\ place[m] # "back" =>
         /\ proofs[m] <= 1 /\ (Current(m).executed => proofs[m] = 1)
         /\ proofs[m] = 0 \/ Current(m).executed
  BY <1>2, <1>10, RunsProofs
<1> QED BY <1>1, <1>2, <1>4, <1>8, <1>9, <1>10, <1>11, <1>12, <1>13, <1>14, <1>15, RunStep DEF Run

-----------------------------------------------------------------------------
(* The invariant, and what follows from it                                 *)

LEMMA Stutter == ASSUME Inv, UNCHANGED vars PROVE Inv'
<1> USE DEF vars, issueVars, promotionVars
<1>1. Types' /\ Alone'
  BY DEF Inv, Types, Alone, Works
<1>2. Submissions' /\ Published'
  BY DEF Inv, Submissions, Published, Publishes, Names, Number
<1>3. Promotions' /\ Executions'
  BY DEF Inv, Promotions, Executions, Holds, Current, Record, Runs
<1>4. Admissions'
  BY DEF Inv, Admissions, Admitting, Number, First, IssuesOf
<1> QED BY <1>1, <1>2, <1>3, <1>4 DEF Inv

LEMMA NextKeeps == Inv /\ [Next]_vars => Inv'
<1> SUFFICES ASSUME Inv, [Next]_vars PROVE Inv'
  OBVIOUS
<1>1. ASSUME NEW p \in Process, NEW s \in Submission, Resubmit(p, s) PROVE Inv'
  BY <1>1, ResubmitKeeps
<1>2. ASSUME NEW p \in Process, NEW s \in Submission, NEW i \in Incident, Submit(p, s, i) PROVE Inv'
  BY <1>2, SubmitKeeps
<1>3. ASSUME NEW p \in Process, Publish(p) PROVE Inv'
  BY <1>3, PublishKeeps
<1>4. ASSUME NEW p \in Process, RecordPublished(p) PROVE Inv'
  BY <1>4, RecordPublishedKeeps
<1>5. ASSUME NEW p \in Process, RecordUnpublished(p) PROVE Inv'
  BY <1>5, RecordUnpublishedKeeps
<1>6. ASSUME NEW p \in Process, NEW n \in Number, Admit(p, n) PROVE Inv'
  BY <1>6, AdmitKeeps
<1>7. ASSUME NEW p \in Process, ApplyLabels(p) PROVE Inv'
  BY <1>7, ApplyLabelsKeeps
<1>8. ASSUME NEW p \in Process, CloseIssue(p) PROVE Inv'
  BY <1>8, CloseIssueKeeps
<1>9. ASSUME NEW p \in Process, AdmissionFails(p) PROVE Inv'
  BY <1>9, AdmissionFailsKeeps
<1>10. ASSUME NEW p \in Process, RecordAdmission(p) PROVE Inv'
  BY <1>10, RecordAdmissionKeeps
<1>11. ASSUME NEW p \in Process, NEW m \in Promotion, Promote(p, m) PROVE Inv'
  BY <1>11, PromoteKeeps
<1>12. ASSUME NEW p \in Process, WriteCopy(p) \/ Cycle(p) PROVE Inv'
  BY <1>12, WriteCopyKeeps, CycleKeeps
<1>13. ASSUME NEW p \in Process, RecordHome(p) \/ RecordTarget(p) \/ RecordFails(p) PROVE Inv'
  BY <1>13, RecordHomeKeeps, RecordTargetKeeps, RecordFailsKeeps
<1>14. ASSUME NEW p \in Process, Kill(p) PROVE Inv'
  BY <1>14, KillKeeps
<1>15. ASSUME NEW i \in Incident, OpenPull(i) PROVE Inv'
  BY <1>15, OpenPullKeeps
<1>16. ASSUME NEW n \in Number, ResolveByHand(n) PROVE Inv'
  BY <1>16, ResolveByHandKeeps
<1>17. CASE UNCHANGED vars
  BY <1>17, Stutter
<1>18. ASSUME NEW p \in Process, NEW m \in Promotion, NEW home \in Home, Rerun(p, m, home) PROVE Inv'
  BY <1>18, RerunKeeps
<1> QED
  BY <1>1, <1>2, <1>3, <1>4, <1>5, <1>6, <1>7, <1>8, <1>9, <1>10, <1>11, <1>12, <1>13, <1>14,
     <1>15, <1>16, <1>17, <1>18 DEF Next

LEMMA Invariant == Spec => []Inv
BY InitialState, NextKeeps, PTL DEF Spec

\* A set without two members has at most one.
LEMMA AtMostOne ==
  ASSUME NEW S, \A x, y \in S : x = y
  PROVE  Cardinality(S) <= 1
<1>1. CASE S = {}
  BY <1>1, FS_EmptySet
<1>2. CASE S # {}
  <2>1. PICK x \in S : TRUE
    BY <1>2
  <2>2. S = {x}
    BY <2>1
  <2> QED BY <2>2, FS_Singleton
<1> QED BY <1>1, <1>2

\* Records, issues and commands have their types.
THEOREM TypeCorrect == Spec => []TypeOK
<1>1. Inv => TypeOK
  <2> SUFFICES ASSUME Inv PROVE TypeOK
    OBVIOUS
  <2>1. ASSUME NEW s \in Submission
        PROVE  /\ sub[s].state \in {"absent", "prepared", "submitted", "publish_failed"}
               /\ sub[s].incident \in Incident \cup {Nobody}
               /\ sub[s].issue \in Number \cup {0}
    <3>1. sub[s] \in SubType
      BY DEF Inv, Types
    <3> QED BY <3>1 DEF SubType, Inv, Submissions
  <2>2. ASSUME NEW n \in Number
        PROVE  /\ issues[n].incident \in Incident /\ issues[n].by \in Submission \cup {Nobody}
               /\ issues[n].label \in Decision \cup {"none"}
               /\ {issues[n].pull, issues[n].open, issues[n].resolved, admitted[n]} \subseteq BOOLEAN
    <3>1. issues[n] \in IssueType /\ admitted[n] \in BOOLEAN
      BY DEF Inv, Types, Number
    <3>2. /\ issues[n].pull \in BOOLEAN /\ issues[n].open \in BOOLEAN
          /\ issues[n].resolved \in BOOLEAN
      BY <3>1 DEF IssueType
    <3>3. /\ issues[n].incident \in Incident /\ issues[n].by \in Submission \cup {Nobody}
          /\ issues[n].label \in Decision \cup {"none"}
      BY <3>1 DEF IssueType
    <3> QED BY <3>1, <3>2, <3>3
  <2>3. ASSUME NEW p \in Process
        PROVE  proc[p].cmd \in {"none", "submit", "resubmit", "admit", "promote", "rerun"}
    BY Kinds DEF Inv, Types, Pub, Run
  <2>4. /\ source \in [Promotion -> PromotionType] /\ target \in [Promotion -> PromotionType]
        /\ place \in [Promotion -> {"source", "target", "back"}]
        /\ proofs \in [Promotion -> Nat] /\ unsure \subseteq Submission \cup Promotion
    BY DEF Inv, Types
  <2> QED BY <2>1, <2>2, <2>3, <2>4 DEF TypeOK
<1> QED BY Invariant, <1>1, PTL

\* A submission recorded as submitted names an issue that was created for it and
\* describes its incident.
THEOREM SubmissionsNameIssues == Spec => []SubmittedNamesIssue
<1>1. Inv => SubmittedNamesIssue
  BY DEF Inv, Submissions, Names, SubmittedNamesIssue
<1> QED BY Invariant, <1>1, PTL

\* A submission that two commands never published at once, and that no kill and no lost
\* answer left in doubt, has at most one issue.
THEOREM SubmissionsPublishOnce == Spec => []PublishedOnce
<1>1. Inv => PublishedOnce
  <2> SUFFICES ASSUME Inv, NEW s \in Submission \ unsure
               PROVE  Cardinality({n \in Number : issues[n].by = s}) <= 1
    BY DEF PublishedOnce
  <2>1. \A x, y \in {n \in Number : issues[n].by = s} : x = y
    BY DEF Inv, Published
  <2> QED BY <2>1, AtMostOne
<1> QED BY Invariant, <1>1, PTL

\* No admission closes the first issue of an incident that is worth keeping.
THEOREM FirstIssueIsKept == Spec => []FirstIssueStays
<1>1. Inv => FirstIssueStays
  BY DEF Inv, Admissions, First, FirstIssueStays
<1> QED BY Invariant, <1>1, PTL

\* On one page, admission leaves at most one open issue of an incident.
THEOREM DuplicatesAreClosed == Spec => []OneIssueOpen
<1>1. Inv => OneIssueOpen
  <2> SUFFICES ASSUME Inv, NEW i \in Incident, Len(issues) <= PageSize,
                      \A n \in IssuesOf(i) : admitted[n]
               PROVE  Cardinality({n \in IssuesOf(i) : issues[n].open}) <= 1
    BY DEF OneIssueOpen
  <2>1. ASSUME NEW n \in IssuesOf(i), issues[n].open PROVE First(n)
    <3>1. n \in Number /\ ~issues[n].pull /\ admitted[n]
      BY DEF IssuesOf
    <3> QED BY <2>1, <3>1 DEF Inv, Admissions
  <2>2. ASSUME NEW n \in IssuesOf(i), issues[n].open, NEW k \in IssuesOf(i), issues[k].open
        PROVE  n = k
    <3>1. First(n) /\ First(k) /\ issues[n].incident = i /\ issues[k].incident = i
      BY <2>1, <2>2 DEF IssuesOf
    <3>2. n <= k /\ k <= n
      BY <3>1 DEF First
    <3>3. n \in Int /\ k \in Int
      BY DEF IssuesOf, Number
    <3> QED BY <3>2, <3>3
  <2> QED BY <2>2, AtMostOne
<1> QED BY Invariant, <1>1, PTL

\* A promotion in no doubt that was never rerun in the source after it was in the target
\* is taken through at most one complete cycle (auto_run_existing_incident_promotion).
THEOREM PromotionsRunOnce == Spec => []ExecutedOnce
<1>1. Inv => ExecutedOnce
  BY DEF Inv, Executions, ExecutedOnce
<1> QED BY Invariant, <1>1, PTL

\* When no command works on such a promotion, the target's record tells whether it was
\* executed, and equals the source's unless it was rerun in the target
\* (record_incident_promotion_execution, record_incident_promotion_failure).
THEOREM RecordsAgree == Spec => []CopiesAgree
<1>1. Inv => CopiesAgree
  <2> SUFFICES ASSUME Inv, NEW m \in Promotion \ unsure, ~Busy(m), target[m].made
               PROVE  /\ place[m] # "back" => (target[m].executed <=> proofs[m] = 1)
                      /\ place[m] = "source" => source[m] = target[m]
    BY DEF CopiesAgree
  <2>1. \A p \in Process : ~Runs(p, m)
    BY DEF Busy, Works, Runs, Run
  <2>2. place[m] = "source" => source[m] = target[m]
    BY <2>1 DEF Inv, Executions
  <2>3. place[m] # "back" => Current(m) = target[m]
    <3>1. place[m] \in {"source", "target", "back"}
      BY DEF Inv, Types
    <3> QED BY <2>2, <3>1 DEF Current
  <2>4. target[m].executed \in BOOLEAN
    BY DEF Inv, Types, PromotionType
  <2> QED BY <2>1, <2>2, <2>3, <2>4 DEF Inv, Executions
<1> QED BY Invariant, <1>1, PTL
=============================================================================
