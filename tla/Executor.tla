------------------------------ MODULE Executor ------------------------------
(***************************************************************************)
(* Executing an approved contract (crates/punk-adapters): the patch/apply  *)
(* lane, whose read-only child answers with a patch that the controller    *)
(* applies, checks and rolls back, and the exec lane, whose child edits    *)
(* the files itself.  Both hide the test part of Rust files from the child *)
(* by truncating them on disk.  Bounded contracts of low or medium risk:   *)
(* every path of the scope is a file, so both lanes mask and materialise.  *)
(***************************************************************************)
EXTENDS Integers, FiniteSets

CONSTANTS
  File,          \* allowed scope
  EntryPoint,    \* \subseteq File
  Fresh,         \* entry points that do not exist at first
  Tailed,        \* files with a #[cfg(test)] part
  Version,       \* heads that edits can produce
  MaxPasses,     \* passes of the patch lane: 1 + min(2, number of checks)
  MaxRuns, MaxKills, MaxDamage   \* bounds on the environment

ASSUME ExecutorAssumption ==
  /\ EntryPoint \subseteq File /\ Fresh \subseteq EntryPoint
  /\ Tailed \subseteq File \ Fresh
  /\ Version \cap {"gone", "empty", "stub", "orig", "none"} = {}
  /\ MaxPasses \in 1 .. 3
  /\ MaxRuns \in Nat /\ MaxKills \in Nat /\ MaxDamage \in Nat

VARIABLES
  disk,       \* the files: what precedes the test part, and whether that is there
  manifest,   \* the mask manifest: the head each masked file had, or "none"
  pc,         \* "idle", "mask", "prepass", "child", "check" or "ended"
  lane, pass, \* of this run
  masked,     \* heads of the files masked so far, before the manifest is written
  snap,       \* patch lane: snapshots of the entry points; exec lane: progress probe
  created,    \* entry points this run materialised
  patched,    \* a patch was applied in this run
  slow,       \* the retry after a timeout or stall is used up
  result,     \* of the last run
  checked,    \* history: the files when the checks last passed
  stray,      \* the child of a killed exec run may still be at work
  exposed,    \* history: files truncated by a masking that never wrote its manifest
  used        \* runs, kills and damaged files so far

vars == <<disk, manifest, pc, lane, pass, masked, snap, created, patched, slow,
          result, checked, stray, exposed, used>>
local == <<lane, snap, created, checked>>   \* kept from Begin or the last check on

Head  == {"gone", "empty", "stub", "orig"} \cup Version
Whole == [File -> [head : Head, tail : BOOLEAN]]
NoMask == [f \in File |-> "none"]

Damaged(text) == text.head \in {"gone", "empty"}
Cut(damage)   == [head |-> damage, tail |-> FALSE]

-----------------------------------------------------------------------------
(* Operations on the files                                                 *)

\* Mutant: a file that lost its head is left alone.
RestoreHeads(d, m) ==
  [f \in File |-> IF m[f] # "none" /\ ~Damaged(d[f]) THEN [d[f] EXCEPT !.tail = TRUE] ELSE d[f]]

\* restore_masked_files: a file the child emptied or deleted is rebuilt.
RestoreMasked(d, m) ==
  [f \in File |->
     IF m[f] = "none" THEN d[f]
     ELSE IF Damaged(d[f]) THEN [head |-> m[f], tail |-> TRUE]
     ELSE [d[f] EXCEPT !.tail = TRUE]]

\* materialize_missing_entry_points
Missing(d) == {f \in EntryPoint : d[f].head = "gone"}
Stubbed(d, F) == [f \in File |-> IF f \in F THEN Cut("stub") ELSE d[f]]

\* restore_entry_point_snapshots: entry points only, other files of the scope stay
\* patched.
Rollback(d) == [f \in File |-> IF f \in EntryPoint THEN snap[f] ELSE d[f]]

\* Mutant: a zero-byte file is not a damaged one.
RepairMissing(d) ==
  [f \in File |-> IF f \in EntryPoint /\ d[f].head = "gone" /\ ~Damaged(snap[f])
                  THEN snap[f] ELSE d[f]]

\* restore_damaged_entry_point_snapshots
Repair(d) ==
  [f \in File |-> IF f \in EntryPoint /\ Damaged(d[f]) /\ ~Damaged(snap[f])
                  THEN snap[f] ELSE d[f]]

-----------------------------------------------------------------------------
(* The parts both lanes share                                              *)

\* restore_stale_entry_point_masks, then stubs for missing entry points, then (patch
\* lane) the snapshots.
Begin(l) ==
  LET whole == RestoreMasked(disk, manifest)
  IN  /\ pc \in {"idle", "ended"} /\ used.runs < MaxRuns
      /\ used' = [used EXCEPT !.runs = @ + 1]
      /\ created' = Missing(whole)
      /\ disk' = Stubbed(whole, created')
      /\ manifest' = NoMask
      /\ lane' = l /\ snap' = disk'
      /\ pc' = "mask" /\ pass' = 1 /\ masked' = NoMask
      /\ patched' = FALSE /\ slow' = FALSE /\ result' = "none"
      /\ UNCHANGED <<checked, stray, exposed>>

Masked == {f \in File : masked[f] # "none"}
ToMask == {f \in File : disk[f].tail /\ masked[f] = "none"}

\* EntryPointExcerptGuard::apply writes the truncated files first ...
MaskFile(f) ==
  /\ pc = "mask" /\ f \in ToMask
  /\ masked' = [masked EXCEPT ![f] = disk[f].head]
  /\ disk' = [disk EXCEPT ![f].tail = FALSE]
  /\ UNCHANGED <<manifest, pc, local, pass, patched, slow, result, stray, exposed, used>>

\* ... and then the manifest.  The exec lane probes progress on the masked files.
MaskEnd ==
  /\ pc = "mask" /\ ToMask = {}
  /\ manifest' = masked
  /\ snap' = IF lane = "exec" THEN disk ELSE snap
  /\ pc' \in IF lane = "patch" THEN {"prepass", "child"} ELSE {"child"}
  /\ masked' = NoMask
  /\ UNCHANGED <<disk, lane, pass, created, checked, patched, slow, result, stray, exposed, used>>

\* A file cannot be read or written, or the manifest: the files masked before have no
\* guard yet.  The error leaves the run past its rollback, too.
MaskFails ==
  /\ pc = "mask"
  /\ exposed' = exposed \cup Masked
  /\ masked' = NoMask
  /\ pc' = "ended" /\ result' = "abort"
  /\ UNCHANGED <<disk, manifest, local, pass, patched, slow, stray, used>>

\* The child's edits.  The patch lane's child is read-only; what damages a file there
\* is something else the run starts.
ChildEdits(f, head) ==
  /\ pc = "child" /\ lane = "exec" /\ head \in Version
  /\ ~Damaged(disk[f])
  /\ disk' = [disk EXCEPT ![f].head = head]
  /\ UNCHANGED <<manifest, pc, local, pass, masked, patched, slow, result, stray, exposed, used>>

Damages(f, damage) ==
  /\ pc = "child" /\ used.damage < MaxDamage /\ ~Damaged(disk[f])
  /\ disk[f].tail = FALSE   \* a masked file, or one without tests
  /\ disk' = [disk EXCEPT ![f] = Cut(damage)]
  /\ used' = [used EXCEPT !.damage = @ + 1]
  /\ UNCHANGED <<manifest, pc, local, pass, masked, patched, slow, result, stray, exposed>>

\* The cut process is killed.  Its child runs in a group of its own and lives on.
Killed ==
  /\ pc \notin {"idle", "ended"} /\ used.kills < MaxKills
  /\ used' = [used EXCEPT !.kills = @ + 1]
  /\ stray' = (stray \/ (pc = "child" /\ lane = "exec"))
  /\ exposed' = exposed \cup Masked
  /\ pc' = "idle" /\ masked' = NoMask
  /\ UNCHANGED <<disk, manifest, local, pass, patched, slow, result>>

\* A stray child of the exec lane patches files as it finds them, at any later time.
StrayEdits(f, head) ==
  /\ stray /\ head \in Version
  /\ ~Damaged(disk[f])
  /\ disk' = [disk EXCEPT ![f].head = head]
  /\ UNCHANGED <<manifest, pc, local, pass, masked, patched, slow, result, stray, exposed, used>>

-----------------------------------------------------------------------------
(* The patch/apply lane                                                    *)

\* The guard puts the masked files back whatever the child did.
Unmasked == RestoreMasked(disk, manifest)

\* Mutant: a repaired success stays one.
ReturnSame(d, res) == disk' = Repair(d) /\ result' = res /\ pc' = "ended"

\* maybe_rollback_failed_patch_lane_output, finalize_patch_lane_output
Return(d, res) ==
  /\ disk' = Repair(d)
  /\ result' = IF Repair(d) = d THEN res ELSE "damaged"
  /\ pc' = "ended"

\* Mutant: only the pass whose checks failed is rolled back.
FailChecked(d) ==
  Return(IF patched /\ pc = "check" THEN Rollback(d) ELSE d, "failure")

Fail(d) == Return(IF patched THEN Rollback(d) ELSE d, "failure")

\* Mutants: one pass too many; a pass that is not counted.
NextPassBeyond(d) ==
  IF pass <= MaxPasses
  THEN pass' = pass + 1 /\ pc' = "mask" /\ masked' = NoMask /\ disk' = d /\ UNCHANGED result
  ELSE Fail(d) /\ UNCHANGED <<pass, masked>>
NextPassAgain(d) ==
  pc' = "mask" /\ masked' = NoMask /\ disk' = d /\ UNCHANGED <<result, pass>>

\* The next pass of the loop, or "exhausted repair attempts".
NextPass(d) ==
  IF pass < MaxPasses
  THEN /\ pass' = pass + 1 /\ pc' = "mask" /\ masked' = NoMask
       /\ disk' = d /\ UNCHANGED result
  ELSE Fail(d) /\ UNCHANGED <<pass, masked>>

PrepassFails ==
  /\ pc = "prepass"
  /\ Fail(Unmasked) /\ manifest' = NoMask
  /\ UNCHANGED <<local, pass, masked, patched, slow, stray, exposed, used>>

PrepassPlans ==
  /\ pc = "prepass" /\ pc' = "child"
  /\ UNCHANGED <<disk, manifest, local, pass, masked, patched, slow, result, stray, exposed, used>>

\* The child cannot be started or watched: everything goes back.
PatchChildError ==
  /\ pc = "child" /\ lane = "patch"
  /\ disk' = Repair(Rollback(Unmasked)) /\ manifest' = NoMask
  /\ pc' = "ended" /\ result' = "error"
  /\ UNCHANGED <<local, pass, masked, patched, slow, stray, exposed, used>>

\* Timeout or stall without an answer: one retry per run.
PatchChildSlow ==
  /\ pc = "child" /\ lane = "patch"
  /\ manifest' = NoMask /\ slow' = TRUE
  /\ IF slow THEN Fail(Unmasked) /\ UNCHANGED <<pass, masked>> ELSE NextPass(Unmasked)
  /\ UNCHANGED <<local, patched, stray, exposed, used>>

\* Orphaned, failed, no or a garbled answer, blocked, out of scope, or a patch that does
\* not apply: its targets are put back first.
PatchRefused ==
  /\ pc = "child" /\ lane = "patch"
  /\ Fail(Unmasked) /\ manifest' = NoMask
  /\ UNCHANGED <<local, pass, masked, patched, slow, stray, exposed, used>>

PatchApplied(F) ==
  /\ pc = "child" /\ lane = "patch"
  /\ F # {} /\ \A f \in F : ~Damaged(Unmasked[f])
  /\ \E new \in [F -> Version] :
       disk' = [f \in File |-> IF f \in F THEN [Unmasked[f] EXCEPT !.head = new[f]]
                               ELSE Unmasked[f]]
  /\ manifest' = NoMask /\ patched' = TRUE /\ pc' = "check"
  /\ UNCHANGED <<local, pass, masked, slow, result, stray, exposed, used>>

\* The checks pass and the symbols the contract names are there.
ChecksPass ==
  /\ pc = "check"
  /\ checked' = disk
  /\ Return(disk, "success")
  /\ UNCHANGED <<manifest, lane, snap, created, pass, masked, patched, slow, stray, exposed, used>>

\* A check fails: repaired by another pass on top of this patch.
CheckFails ==
  /\ pc = "check"
  /\ NextPass(disk)
  /\ UNCHANGED <<manifest, local, patched, slow, stray, exposed, used>>

\* A check times out or cannot run, or a symbol is missing.
CheckBreaks ==
  /\ pc = "check"
  /\ Fail(disk)
  /\ UNCHANGED <<manifest, local, pass, masked, patched, slow, stray, exposed, used>>

\* Errors of the controller's own: a log it cannot append to, a wrapper it cannot
\* install, a file it cannot put back.  The run returns them at once and leaves what it
\* had not yet undone: files keep their masks, and then the manifest; entry points the
\* patch or the damage; stubs stay deleted.  With all masks back, only the removal of the
\* manifest itself can have failed.
Undoable == IF lane = "patch" THEN EntryPoint ELSE {f \in created : Unmasked[f].head = "gone"}

ControllerFails(keep, undone) ==
  /\ pc \in {"prepass", "child", "check"}
  /\ keep \subseteq {f \in File : manifest[f] # "none"} /\ undone \subseteq Undoable
  /\ disk' = [f \in File |->
                 IF f \in undone THEN IF lane = "patch" THEN snap[f] ELSE Cut("stub")
                 ELSE IF f \in keep THEN disk[f] ELSE Unmasked[f]]
  /\ manifest' \in {manifest} \cup IF keep = {} THEN {NoMask} ELSE {}
  /\ pc' = "ended" /\ result' = "abort"
  /\ UNCHANGED <<local, pass, masked, patched, slow, stray, exposed, used>>

-----------------------------------------------------------------------------
(* The exec lane                                                           *)

Unchanged == \A f \in EntryPoint : disk[f] = snap[f]

\* run_execution_attempt ends: masks go back, then stubs that were deleted.
ExecChildEnds ==
  LET gone == {f \in created : Unmasked[f].head = "gone"}
  IN  /\ pc = "child" /\ lane = "exec"
      /\ disk' = Stubbed(Unmasked, gone)
      /\ manifest' = NoMask
      /\ \/ pc' = "ended" /\ result' \in {"failure", "error"} /\ UNCHANGED <<pass, masked>>
         \/ gone = {} /\ pc' = "ended" /\ result' = "success" /\ UNCHANGED <<pass, masked>>
         \/ \* no progress: once more
            /\ gone = {} /\ Unchanged /\ pass = 1
            /\ pass' = 2 /\ pc' = "mask" /\ masked' = NoMask /\ UNCHANGED result
      /\ UNCHANGED <<local, patched, slow, stray, exposed, used>>

-----------------------------------------------------------------------------
Init ==
  /\ disk = [f \in File |-> IF f \in Fresh THEN Cut("gone")
                            ELSE [head |-> "orig", tail |-> f \in Tailed]]
  /\ manifest = NoMask /\ masked = NoMask
  /\ pc = "idle" /\ lane = "none" /\ pass = 0
  /\ snap = disk /\ checked = disk /\ created = {}
  /\ patched = FALSE /\ slow = FALSE /\ result = "none" /\ stray = FALSE
  /\ exposed = {}
  /\ used = [runs |-> 0, kills |-> 0, damage |-> 0]

Lane ==
  \/ (\E f \in File : MaskFile(f)) \/ MaskEnd
  \/ PrepassFails \/ PrepassPlans \/ PatchChildError \/ PatchChildSlow \/ PatchRefused
  \/ (\E F \in SUBSET File : PatchApplied(F))
  \/ ChecksPass \/ CheckFails \/ CheckBreaks \/ ExecChildEnds

Next ==
  \/ \E l \in {"patch", "exec"} : Begin(l)
  \/ Lane \/ MaskFails \/ Killed
  \/ \E keep, undone \in SUBSET File : ControllerFails(keep, undone)
  \/ \E f \in File : \/ \E head \in Version : ChildEdits(f, head) \/ StrayEdits(f, head)
                     \/ \E damage \in {"gone", "empty"} : Damages(f, damage)

Spec == Init /\ [][Next]_vars

\* The controller works on, and every child is ended: by its answer, by itself, or by
\* the stall and time limits, whose expiry kills its process group.
FairSpec == Spec /\ WF_vars(Lane)

-----------------------------------------------------------------------------
(* Properties                                                              *)

\* Files, manifest and locals have their types.
TypeOK ==
  /\ disk \in Whole /\ snap \in Whole /\ checked \in Whole
  /\ manifest \in [File -> Head \cup {"none"}] /\ masked \in [File -> Head \cup {"none"}]
  /\ pc \in {"idle", "mask", "prepass", "child", "check", "ended"}
  /\ lane \in {"none", "patch", "exec"} /\ pass \in 0 .. 3
  /\ created \subseteq EntryPoint
  /\ exposed \subseteq Tailed
  /\ patched \in BOOLEAN /\ slow \in BOOLEAN /\ stray \in BOOLEAN
  /\ result \in {"none", "success", "failure", "damaged", "error", "abort"}
  /\ used \in [runs : Nat, kills : Nat, damage : Nat]

\* Tests are never lost: the test part of a file is on disk, or named by the mask
\* manifest of a child at work, of a killed run or of one that could not put it back,
\* and it is on disk whenever checks run and after every other end of a run.  The one
\* way out is exposed: a run that stops between truncating a file and writing the
\* manifest.
TailKept ==
  \A f \in Tailed \ exposed :
    \/ disk[f].tail
    \/ pc = "mask" /\ masked[f] # "none"
    \/ pc \in {"prepass", "child", "idle"} /\ manifest[f] # "none"
    \/ pc = "ended" /\ result = "abort" /\ manifest[f] # "none"

\* "roll those bounded edits back to the pre-run entry-point snapshots": whichever
\* pass patched, a run that reports a failure, or whose child could not be run, leaves
\* the entry points as before it.  A run that stops at an error of the controller's own
\* does not (the patch stays, whatever CLI.md:774 says), but even it leaves edits only
\* after a patch was applied: without one, entry points at most lack their tests or are
\* still damaged.
FailureRestores ==
  lane = "patch" /\ pc = "ended" /\ ~stray =>
    \A f \in EntryPoint :
      /\ result \in {"failure", "error"} => disk[f] = snap[f]
      /\ result = "abort" /\ ~patched => disk[f].head = snap[f].head \/ Damaged(disk[f])

\* A run that gets as far as an outcome, and not to an error of the controller's own
\* (whose `?` returns past finalize_patch_lane_output), leaves no file with (unexposed)
\* tests, no stub it made and no entry point of the patch lane deleted, and none but a
\* stub of the exec lane emptied.
DamageRepaired ==
  pc = "ended" /\ result # "abort" =>
    \A f \in (Tailed \ exposed) \cup created \cup IF lane = "patch" THEN EntryPoint ELSE {} :
      /\ disk[f].head = "gone"  => lane = "patch" /\ snap[f].head = "gone"
      /\ disk[f].head = "empty" => IF lane = "patch" THEN Damaged(snap[f]) ELSE f \in created

\* The patch lane reports success only for exactly the files its checks passed on,
\* and those were whole: tests included.
SuccessChecked ==
  lane = "patch" /\ pc = "ended" /\ result = "success" /\ ~stray =>
    disk = checked /\ \A f \in Tailed \ exposed : checked[f].tail

\* Every run returns, whatever its children do, unless it is killed.
RunEnds == (pc \notin {"idle", "ended"}) ~> (pc \in {"idle", "ended"})
=============================================================================
