---------------------------- MODULE ExecutorProof ----------------------------
(***************************************************************************)
(* Theorems about Executor, for every value of its constants: any scope,   *)
(* any number of runs, kills, damaged files and passes, stray children     *)
(* included.                                                               *)
(***************************************************************************)
EXTENDS Executor, TLAPS

Mask    == [File -> Head \cup {"none"}]
Working == pc \in {"mask", "prepass", "child", "check"}
ByPatch == Working /\ lane = "patch"

-----------------------------------------------------------------------------
(* The inductive invariant                                                 *)

\* Only files with tests have a test part, and no file without a head has one.
FilesOK(d) == \A f \in File : d[f].tail => f \in Tailed /\ ~Damaged(d[f])

\* A mask covers files with tests and remembers a head that was not damaged.
MaskOK(m) == \A f \in File : m[f] # "none" => f \in Tailed /\ m[f] \notin {"gone", "empty"}

Marked == FilesOK(disk) /\ FilesOK(snap) /\ MaskOK(manifest) /\ MaskOK(masked)

\* Where a run is tells whose masks are on disk.
Placed ==
  /\ pc \in {"mask", "check"} => manifest = NoMask
  /\ pc = "ended" /\ result # "abort" => manifest = NoMask
  /\ pc # "mask" => masked = NoMask
  /\ pc # "idle" => lane # "none"
  /\ pc \in {"prepass", "check"} => lane = "patch"
  /\ pc = "check" => patched

\* The snapshots of the patch lane have the tests.
SnapWhole == ByPatch => \A f \in EntryPoint \cap (Tailed \ exposed) : snap[f].tail

\* An entry point that was damaged before the run stays as it was.
StaysDamaged ==
  ByPatch => \A f \in EntryPoint : Damaged(snap[f]) =>
               disk[f] = snap[f] /\ masked[f] = "none" /\ manifest[f] = "none"

\* The mask that covers a file, of either kind.
Cover(f) == IF masked[f] # "none" THEN masked[f] ELSE manifest[f]

\* Until a patch is applied, masks and damages are all that differs from the snapshots.
Undone ==
  ByPatch /\ ~patched /\ ~stray =>
    \A f \in EntryPoint :
      IF Cover(f) # "none"
      THEN /\ snap[f] = [head |-> Cover(f), tail |-> TRUE]
           /\ Damaged(disk[f]) \/ disk[f] = Cut(Cover(f))
      ELSE disk[f] = snap[f] \/ (Damaged(disk[f]) /\ ~Damaged(snap[f]))

Inv ==
  /\ TypeOK /\ Placed /\ Marked
  /\ TailKept /\ SnapWhole /\ StaysDamaged /\ Undone
  /\ FailureRestores /\ DamageRepaired /\ SuccessChecked

-----------------------------------------------------------------------------
(* What the operations on the files do                                     *)

\* Unmasking gives whole files, which have the tests of every masked one.
LEMMA UnmaskedFiles ==
  ASSUME NEW d \in Whole, NEW m \in Mask, FilesOK(d), MaskOK(m)
  PROVE  /\ RestoreMasked(d, m) \in Whole
         /\ FilesOK(RestoreMasked(d, m))
         /\ \A f \in File : d[f].tail \/ m[f] # "none" => RestoreMasked(d, m)[f].tail
         /\ \A f \in File : m[f] = "none" => RestoreMasked(d, m)[f] = d[f]
         /\ \A f \in File : m[f] # "none" /\ (Damaged(d[f]) \/ d[f].head = m[f]) =>
              RestoreMasked(d, m)[f] = [head |-> m[f], tail |-> TRUE]
<1> DEFINE w(f) == IF m[f] = "none" THEN d[f]
                   ELSE IF Damaged(d[f]) THEN [head |-> m[f], tail |-> TRUE]
                   ELSE [d[f] EXCEPT !.tail = TRUE]
<1>1. ASSUME NEW f \in File
      PROVE  /\ w(f) \in [head : Head, tail : BOOLEAN]
             /\ w(f).tail => f \in Tailed /\ ~Damaged(w(f))
             /\ d[f].tail \/ m[f] # "none" => w(f).tail
             /\ m[f] # "none" /\ (Damaged(d[f]) \/ d[f].head = m[f]) =>
                  w(f) = [head |-> m[f], tail |-> TRUE]
  <2>1. d[f] \in [head : Head, tail : BOOLEAN] /\ m[f] \in Head \cup {"none"}
    BY DEF Whole, Mask
  <2>2. CASE m[f] = "none"
    BY <2>1, <2>2 DEF FilesOK
  <2>3. CASE m[f] # "none" /\ Damaged(d[f])
    BY <2>1, <2>3 DEF MaskOK, Damaged
  <2>4. CASE m[f] # "none" /\ ~Damaged(d[f])
    <3>1. w(f) = [head |-> d[f].head, tail |-> TRUE]
      BY <2>1, <2>4
    <3> QED BY <2>1, <2>4, <3>1 DEF MaskOK, Damaged
  <2> QED BY <2>2, <2>3, <2>4
<1>2. RestoreMasked(d, m) = [f \in File |-> w(f)]
  BY DEF RestoreMasked
<1>3. \A f \in File : m[f] = "none" => w(f) = d[f]
  OBVIOUS
<1> HIDE DEF w
<1> QED BY <1>1, <1>2, <1>3 DEF Whole, FilesOK

\* Stubs have no tests, and take the place of files that had none.
LEMMA StubbedFiles ==
  ASSUME NEW d \in Whole, FilesOK(d), NEW F \in SUBSET File
  PROVE  /\ Stubbed(d, F) \in Whole
         /\ FilesOK(Stubbed(d, F))
         /\ \A f \in F : Stubbed(d, F)[f] = Cut("stub")
         /\ \A f \in File \ F : Stubbed(d, F)[f] = d[f]
<1>1. \A f \in File : d[f] \in [head : Head, tail : BOOLEAN]
  BY DEF Whole
<1>2. Cut("stub") \in [head : Head, tail : BOOLEAN] /\ Cut("stub").tail = FALSE
  BY DEF Cut, Head
<1> QED BY <1>1, <1>2 DEF Stubbed, FilesOK, Whole, Damaged

\* Both ways back to the snapshots mix them with the files as they are.
LEMMA RolledBackFiles ==
  ASSUME NEW d \in Whole, FilesOK(d), snap \in Whole, FilesOK(snap)
  PROVE  /\ Rollback(d) \in Whole /\ FilesOK(Rollback(d))
         /\ \A f \in EntryPoint : Rollback(d)[f] = snap[f]
         /\ \A f \in File \ EntryPoint : Rollback(d)[f] = d[f]
BY ExecutorAssumption DEF ExecutorAssumption, Rollback, Whole, FilesOK

LEMMA RepairedFiles ==
  ASSUME NEW d \in Whole, FilesOK(d), snap \in Whole, FilesOK(snap)
  PROVE  /\ Repair(d) \in Whole /\ FilesOK(Repair(d))
         /\ \A f \in EntryPoint :
              Repair(d)[f] = IF Damaged(d[f]) /\ ~Damaged(snap[f]) THEN snap[f] ELSE d[f]
         /\ \A f \in File \ EntryPoint : Repair(d)[f] = d[f]
BY ExecutorAssumption DEF ExecutorAssumption, Repair, Whole, FilesOK

-----------------------------------------------------------------------------
(* Every step keeps the invariant                                          *)

LEMMA CutFile ==
  ASSUME NEW h \in Head
  PROVE  Cut(h) \in [head : Head, tail : BOOLEAN] /\ Cut(h).tail = FALSE
BY DEF Cut

\* Masking a file cuts its test part off.
LEMMA CutRecord ==
  ASSUME NEW r \in [head : Head, tail : BOOLEAN]
  PROVE  [r EXCEPT !.tail = FALSE] = Cut(r.head)
<1> DEFINE q == [r EXCEPT !.tail = FALSE]
<1>1. q \in [head : Head, tail : BOOLEAN] /\ q.head = r.head /\ q.tail = FALSE
  OBVIOUS
<1> HIDE DEF q
<1>2. q = [head |-> q.head, tail |-> q.tail]
  BY <1>1
<1>3. q = [head |-> r.head, tail |-> FALSE]
  BY <1>1, <1>2, Zenon
<1> QED BY <1>3 DEF Cut, q

LEMMA InitialState == Init => Inv
<1> SUFFICES ASSUME Init PROVE Inv
  OBVIOUS
<1> USE ExecutorAssumption DEF ExecutorAssumption, Init
<1>1. disk \in Whole /\ FilesOK(disk)
  <2>1. ASSUME NEW f \in File
        PROVE  /\ disk[f] \in [head : Head, tail : BOOLEAN]
               /\ disk[f].tail => f \in Tailed /\ ~Damaged(disk[f])
    <3>1. disk[f] = IF f \in Fresh THEN Cut("gone") ELSE [head |-> "orig", tail |-> f \in Tailed]
      OBVIOUS
    <3>2. CASE f \in Fresh
      <4>1. disk[f] = Cut("gone")
        BY <3>1, <3>2
      <4> QED BY <4>1 DEF Head, Cut
    <3>3. CASE f \in Tailed
      <4>1. disk[f] = [head |-> "orig", tail |-> TRUE]
        BY <3>1, <3>3
      <4> QED BY <3>3, <4>1 DEF Head, Damaged
    <3>4. CASE f \notin Fresh \cup Tailed
      <4>1. (f \in Tailed) = FALSE
        BY <3>4
      <4>2. disk[f] = Cut("orig")
        BY <3>1, <3>4, <4>1, Zenon DEF Cut
      <4> HIDE DEF Init
      <4> QED BY <4>2, CutFile DEF Head
    <3> QED BY <3>2, <3>3, <3>4
  <2>2. disk = [f \in File |-> disk[f]]
    OBVIOUS
  <2> QED BY <2>1, <2>2 DEF Whole, FilesOK
<1>2. NoMask \in Mask /\ MaskOK(NoMask)
  BY DEF NoMask, Mask, MaskOK
<1>3. TypeOK
  <2>1. used \in [runs : Nat, kills : Nat, damage : Nat]
    OBVIOUS
  <2>2. pass \in 0 .. 3 /\ snap = disk /\ checked = disk
    OBVIOUS
  <2> QED BY <1>1, <1>2, <2>1, <2>2 DEF TypeOK, Mask
<1>4. Placed /\ Marked
  BY <1>1, <1>2 DEF Placed, Marked, Working
<1>5. TailKept
  BY DEF TailKept
<1> QED BY <1>3, <1>4, <1>5 DEF Inv, SnapWhole, StaysDamaged, Undone, ByPatch, Working,
           FailureRestores, DamageRepaired, SuccessChecked

\* A run begins with whole files, which are its snapshots.
LEMMA BeginKeeps == ASSUME Inv, NEW l \in {"patch", "exec"}, Begin(l) PROVE Inv'
<1> DEFINE whole == RestoreMasked(disk, manifest)
<1>1. /\ whole \in Whole /\ FilesOK(whole)
      /\ \A f \in File : disk[f].tail \/ manifest[f] # "none" => whole[f].tail
  BY UnmaskedFiles DEF Inv, TypeOK, Mask, Marked
<1>2. /\ disk' = Stubbed(whole, Missing(whole)) /\ created' = Missing(whole) /\ snap' = disk'
      /\ Missing(whole) \in SUBSET File /\ Missing(whole) \subseteq EntryPoint
      /\ \A f \in Missing(whole) : whole[f].head = "gone"
  BY ExecutorAssumption DEF Begin, Missing, ExecutorAssumption
<1> HIDE DEF whole
<1>3. /\ disk' \in Whole /\ FilesOK(disk')
      /\ \A f \in File \ Missing(whole) : disk'[f] = whole[f]
  BY <1>1, <1>2, StubbedFiles
<1>4. NoMask \in Mask /\ MaskOK(NoMask)
  BY DEF NoMask, Mask, MaskOK
<1>5. TypeOK'
  <2>1. used' \in [runs : Nat, kills : Nat, damage : Nat]
    BY DEF Inv, TypeOK, Begin
  <2>2. /\ pass' \in 0 .. 3 /\ pc' = "mask" /\ lane' \in {"patch", "exec"} /\ result' = "none"
        /\ patched' = FALSE /\ slow' = FALSE /\ manifest' = NoMask /\ masked' = NoMask
        /\ checked' = checked /\ stray' = stray /\ exposed' = exposed
    BY DEF Begin
  <2> QED BY <1>2, <1>3, <1>4, <2>1, <2>2 DEF Inv, TypeOK, Mask
<1>6. Placed' /\ Marked'
  BY <1>2, <1>3, <1>4 DEF Placed, Marked, Begin
<1>7. \A f \in Tailed \ exposed : disk'[f].tail
  <2> SUFFICES ASSUME NEW f \in Tailed \ exposed PROVE disk'[f].tail
    OBVIOUS
  <2>1. f \in File
    BY ExecutorAssumption DEF ExecutorAssumption
  <2>2. whole[f].tail
    BY <1>1, <2>1 DEF Inv, TailKept, Begin
  <2>3. f \notin Missing(whole)
    BY <1>1, <1>2, <2>1, <2>2 DEF FilesOK, Damaged
  <2> QED BY <1>3, <2>1, <2>2, <2>3
<1>8. TailKept' /\ SnapWhole'
  BY <1>2, <1>7 DEF TailKept, SnapWhole, Begin
<1>9. StaysDamaged' /\ Undone'
  BY <1>2, ExecutorAssumption
  DEF ExecutorAssumption, StaysDamaged, Undone, Cover, Begin, NoMask
<1> QED BY <1>5, <1>6, <1>8, <1>9
        DEF Inv, Begin, FailureRestores, DamageRepaired, SuccessChecked

\* A masked file keeps its head and is covered from then on.
LEMMA MaskFileKeeps == ASSUME Inv, NEW f \in File, MaskFile(f) PROVE Inv'
<1> USE DEF MaskFile, local
<1>1. /\ disk[f].tail /\ masked[f] = "none" /\ f \in Tailed
      /\ disk[f] = [head |-> disk[f].head, tail |-> TRUE]
      /\ disk[f].head \in Head \ {"gone", "empty"}
      /\ disk' = [disk EXCEPT ![f] = Cut(disk[f].head)]
      /\ masked' = [masked EXCEPT ![f] = disk[f].head]
  <2>1. disk[f].tail /\ masked[f] = "none"
    BY DEF ToMask
  <2>2. disk \in Whole /\ disk[f] \in [head : Head, tail : BOOLEAN]
    BY DEF Inv, TypeOK, Whole
  <2>3. f \in Tailed /\ disk[f].head \in Head \ {"gone", "empty"}
    BY <2>1, <2>2 DEF Inv, Marked, FilesOK, Damaged
  <2>4. [disk[f] EXCEPT !.tail = FALSE] = Cut(disk[f].head)
    BY <2>2, CutRecord
  <2>5. disk' = [disk EXCEPT ![f] = Cut(disk[f].head)]
    BY <2>2, <2>4 DEF Whole
  <2> QED BY <2>1, <2>2, <2>3, <2>5
<1>2. disk' \in Whole /\ FilesOK(disk') /\ masked' \in Mask /\ MaskOK(masked')
  <2>1. disk \in Whole /\ masked \in Mask /\ FilesOK(disk) /\ MaskOK(masked)
    BY DEF Inv, TypeOK, Marked, Mask
  <2>2. Cut(disk[f].head) \in [head : Head, tail : BOOLEAN] /\ Cut(disk[f].head).tail = FALSE
    BY <1>1 DEF Cut
  <2>3. disk' \in Whole /\ FilesOK(disk')
    BY <1>1, <2>1, <2>2 DEF Whole, FilesOK
  <2>4. masked' \in Mask /\ MaskOK(masked')
    BY <1>1, <2>1 DEF Mask, MaskOK
  <2> QED BY <2>3, <2>4
<1>3. disk[f].head # "none"
  BY <1>1, ExecutorAssumption DEF ExecutorAssumption, Head
<1>4. TypeOK' /\ Placed' /\ Marked'
  BY <1>2 DEF Inv, TypeOK, Placed, Marked, Mask
<1>5. TailKept'
  BY <1>1, <1>3, ExecutorAssumption DEF ExecutorAssumption, Inv, TailKept, TypeOK, Whole
<1>6. SnapWhole'
  BY DEF Inv, SnapWhole, ByPatch, Working
<1>7. StaysDamaged'
  BY <1>1, ExecutorAssumption
  DEF ExecutorAssumption, Inv, StaysDamaged, ByPatch, Working, TypeOK, Damaged, Whole
<1>8. Undone'
  <2> SUFFICES ASSUME ByPatch, ~patched, ~stray, NEW g \in EntryPoint
               PROVE  IF Cover(g)' # "none"
                      THEN /\ snap[g] = [head |-> Cover(g)', tail |-> TRUE]
                           /\ Damaged(disk'[g]) \/ disk'[g] = Cut(Cover(g)')
                      ELSE disk'[g] = snap[g] \/ (Damaged(disk'[g]) /\ ~Damaged(snap[g]))
    BY DEF Undone, ByPatch, Working
  <2>1. g \in File
    BY ExecutorAssumption DEF ExecutorAssumption
  <2>2. CASE g = f
    <3>1. manifest[f] = "none" /\ Cover(f) = "none"
      BY <1>1 DEF Inv, Placed, NoMask, Cover
    <3>2. disk[f] = snap[f]
      <4>1. ~Damaged(disk[f])
        BY <1>1 DEF Damaged
      <4> QED BY <2>2, <3>1, <4>1 DEF Inv, Undone
    <3>3. masked'[f] = disk[f].head /\ disk'[f] = Cut(disk[f].head)
      BY <1>1 DEF Inv, TypeOK, Whole
    <3>4. Cover(f)' = disk[f].head
      BY <1>3, <3>3 DEF Cover
    <3> QED BY <1>1, <1>3, <2>2, <3>2, <3>3, <3>4
  <2>3. CASE g # f
    <3>1. disk'[g] = disk[g] /\ masked'[g] = masked[g] /\ manifest' = manifest
      BY <1>1, <2>1, <2>3 DEF Inv, TypeOK, Whole
    <3>2. Cover(g)' = Cover(g)
      BY <3>1 DEF Cover
    <3>3. IF Cover(g) # "none"
          THEN /\ snap[g] = [head |-> Cover(g), tail |-> TRUE]
               /\ Damaged(disk[g]) \/ disk[g] = Cut(Cover(g))
          ELSE disk[g] = snap[g] \/ (Damaged(disk[g]) /\ ~Damaged(snap[g]))
      BY DEF Inv, Undone
    <3> HIDE DEF MaskFile, local
    <3> QED BY <3>1, <3>2, <3>3
  <2> QED BY <2>2, <2>3
<1> QED BY <1>4, <1>5, <1>6, <1>7, <1>8
        DEF Inv, FailureRestores, DamageRepaired, SuccessChecked

\* The manifest takes over from the list of masked files.
LEMMA MaskEndKeeps == ASSUME Inv, MaskEnd PROVE Inv'
<1>1. NoMask \in Mask /\ MaskOK(NoMask)
  BY DEF NoMask, Mask, MaskOK
<1>2. pc' \in {"prepass", "child"} /\ (pc' = "prepass" => lane = "patch")
  BY DEF MaskEnd
<1>3. TypeOK'
  BY <1>1, <1>2 DEF Inv, TypeOK, MaskEnd, Mask
<1>4. Placed' /\ Marked'
  BY <1>1, <1>2 DEF Inv, Placed, Marked, MaskEnd
<1>5. TailKept'
  BY <1>2, ExecutorAssumption DEF ExecutorAssumption, Inv, TailKept, MaskEnd, ToMask
<1>6. SnapWhole'
  BY <1>2 DEF Inv, SnapWhole, ByPatch, Working, MaskEnd
<1>7. StaysDamaged' /\ Undone'
  BY <1>2, ExecutorAssumption
  DEF ExecutorAssumption, Inv, StaysDamaged, Undone, Cover, Placed, ByPatch, Working, MaskEnd, NoMask
<1> QED BY <1>2, <1>3, <1>4, <1>5, <1>6, <1>7
        DEF Inv, FailureRestores, DamageRepaired, SuccessChecked

\* An error or a kill while masking exposes the files masked so far.
LEMMA MaskFailsKeeps == ASSUME Inv, MaskFails PROVE Inv'
<1> USE DEF MaskFails, local
<1>1. NoMask \in Mask /\ MaskOK(NoMask) /\ Masked \subseteq Tailed
  BY DEF NoMask, Mask, MaskOK, Masked, Inv, Marked
<1>2. TypeOK'
  BY <1>1 DEF Inv, TypeOK, Mask
<1>3. Placed' /\ Marked'
  BY <1>1 DEF Inv, Placed, Marked
<1>4. TailKept'
  BY ExecutorAssumption DEF ExecutorAssumption, Inv, TailKept, Masked
<1>5. FailureRestores'
  <2> SUFFICES ASSUME lane = "patch", ~stray, ~patched, NEW f \in EntryPoint
               PROVE  disk[f].head = snap[f].head \/ Damaged(disk[f])
    BY DEF FailureRestores
  <2>1. IF Cover(f) # "none"
        THEN /\ snap[f] = [head |-> Cover(f), tail |-> TRUE]
             /\ Damaged(disk[f]) \/ disk[f] = Cut(Cover(f))
        ELSE disk[f] = snap[f] \/ Damaged(disk[f])
    BY DEF Inv, Undone, ByPatch, Working
  <2>2. Cut(Cover(f)).head = Cover(f)
    BY DEF Cut
  <2> QED BY <2>1, <2>2
<1> QED BY <1>2, <1>3, <1>4, <1>5 DEF Inv, SnapWhole, StaysDamaged, Undone, ByPatch, Working,
           DamageRepaired, SuccessChecked

LEMMA KilledKeeps == ASSUME Inv, Killed PROVE Inv'
<1> USE DEF Killed, local
<1>1. NoMask \in Mask /\ MaskOK(NoMask) /\ Masked \subseteq Tailed
  BY DEF NoMask, Mask, MaskOK, Masked, Inv, Marked
<1>2. TypeOK'
  BY <1>1 DEF Inv, TypeOK, Mask
<1>3. Placed' /\ Marked'
  BY <1>1 DEF Inv, Placed, Marked
<1>4. TailKept'
  <2> SUFFICES ASSUME NEW f \in Tailed \ exposed, masked[f] = "none"
               PROVE  disk[f].tail \/ manifest[f] # "none"
    BY ExecutorAssumption DEF ExecutorAssumption, TailKept, Masked
  <2>1. f \in File
    BY ExecutorAssumption DEF ExecutorAssumption
  <2> QED BY <2>1 DEF Inv, TypeOK, TailKept
<1> QED BY <1>2, <1>3, <1>4 DEF Inv, SnapWhole, StaysDamaged, Undone, ByPatch, Working,
           FailureRestores, DamageRepaired, SuccessChecked

\* A child at work changes only heads that are there, so nothing that counts on a mask
\* or on a snapshot is disturbed: in the patch lane only a stray child does that.
LEMMA HeadKeeps ==
  ASSUME Inv, NEW f \in File, NEW head \in Version, ~Damaged(disk[f]),
         disk' = [disk EXCEPT ![f].head = head],
         stray \/ (pc = "child" /\ lane = "exec"),
         UNCHANGED <<manifest, pc, local, pass, masked, patched, slow, result, stray, exposed, used>>
  PROVE  Inv'
<1> USE DEF local
<1>1. head \in Head \ {"gone", "empty"}
  BY ExecutorAssumption DEF ExecutorAssumption, Head
<1>2. /\ disk \in Whole /\ FilesOK(disk)
      /\ \A g \in File : disk[g] \in [head : Head, tail : BOOLEAN]
  BY DEF Inv, TypeOK, Marked, Whole
<1>3. /\ disk'[f] \in [head : Head, tail : BOOLEAN]
      /\ disk'[f].head = head /\ disk'[f].tail = disk[f].tail /\ ~Damaged(disk'[f])
  BY <1>1, <1>2 DEF Damaged, Whole
<1>4. \A g \in File : g # f => disk'[g] = disk[g]
  BY <1>2 DEF Whole
<1>5. disk' = [g \in File |-> disk'[g]]
  BY <1>2 DEF Whole
<1>6. disk' \in Whole /\ FilesOK(disk')
  BY <1>2, <1>3, <1>4, <1>5 DEF Whole, FilesOK, Damaged
<1>7. TypeOK' /\ Placed' /\ Marked'
  BY <1>6 DEF Inv, TypeOK, Placed, Marked
<1>8. TailKept'
  BY <1>3, <1>4, ExecutorAssumption DEF ExecutorAssumption, Inv, TailKept
<1>9. SnapWhole' /\ Undone'
  BY DEF Inv, SnapWhole, Undone, ByPatch, Working
<1>10. StaysDamaged'
  BY <1>4, ExecutorAssumption DEF ExecutorAssumption, Inv, StaysDamaged, ByPatch, Working
<1>11. FailureRestores'
  BY DEF Inv, FailureRestores
<1>12. SuccessChecked'
  BY DEF Inv, SuccessChecked
<1>13. DamageRepaired'
  <2> SUFFICES ASSUME pc = "ended", result # "abort", NEW g \in
                 (Tailed \ exposed) \cup created \cup IF lane = "patch" THEN EntryPoint ELSE {}
               PROVE  /\ disk'[g].head = "gone"  => lane = "patch" /\ snap[g].head = "gone"
                      /\ disk'[g].head = "empty" =>
                           IF lane = "patch" THEN Damaged(snap[g]) ELSE g \in created
    BY DEF DamageRepaired
  <2>1. g \in File
    BY ExecutorAssumption DEF ExecutorAssumption, Inv, TypeOK
  <2>2. CASE g = f
    BY <1>3, <2>2 DEF Damaged
  <2>3. CASE g # f
    BY <1>4, <2>1, <2>3 DEF Inv, DamageRepaired
  <2> QED BY <2>2, <2>3
<1> QED BY <1>7, <1>8, <1>9, <1>10, <1>11, <1>12, <1>13 DEF Inv

\* What damages a file destroys its head, which the mask or the snapshot still has.
LEMMA DamagesKeeps ==
  ASSUME Inv, NEW f \in File, NEW damage \in {"gone", "empty"}, Damages(f, damage)
  PROVE  Inv'
<1> USE DEF Damages, local
<1>1. Cut(damage) \in [head : Head, tail : BOOLEAN] /\ Cut(damage).tail = FALSE /\ Damaged(Cut(damage))
  BY CutFile DEF Head, Cut, Damaged
<1>2. /\ disk \in Whole /\ FilesOK(disk) /\ ~Damaged(disk[f]) /\ disk[f].tail = FALSE
      /\ disk' = [disk EXCEPT ![f] = Cut(damage)]
  BY DEF Inv, TypeOK, Marked
<1>3. /\ disk'[f] = Cut(damage) /\ \A g \in File : g # f => disk'[g] = disk[g]
      /\ disk' \in Whole
  BY <1>1, <1>2 DEF Whole
<1>4. FilesOK(disk')
  BY <1>1, <1>2, <1>3 DEF FilesOK
<1>5. used' \in [runs : Nat, kills : Nat, damage : Nat]
  BY DEF Inv, TypeOK
<1>6. TypeOK' /\ Placed' /\ Marked'
  BY <1>3, <1>4, <1>5 DEF Inv, TypeOK, Placed, Marked
<1>7. TailKept'
  BY <1>2, <1>3, ExecutorAssumption DEF ExecutorAssumption, Inv, TailKept
<1>8. SnapWhole'
  BY DEF Inv, SnapWhole, ByPatch, Working
<1>9. StaysDamaged'
  BY <1>2, <1>3, ExecutorAssumption DEF ExecutorAssumption, Inv, StaysDamaged, ByPatch, Working
<1>10. Undone'
  <2> SUFFICES ASSUME ByPatch, ~patched, ~stray, NEW g \in EntryPoint
               PROVE  IF Cover(g) # "none"
                      THEN /\ snap[g] = [head |-> Cover(g), tail |-> TRUE]
                           /\ Damaged(disk'[g]) \/ disk'[g] = Cut(Cover(g))
                      ELSE disk'[g] = snap[g] \/ (Damaged(disk'[g]) /\ ~Damaged(snap[g]))
    BY DEF Undone, ByPatch, Working, Cover
  <2>1. g \in File
    BY ExecutorAssumption DEF ExecutorAssumption
  <2>2. IF Cover(g) # "none"
        THEN /\ snap[g] = [head |-> Cover(g), tail |-> TRUE]
             /\ Damaged(disk[g]) \/ disk[g] = Cut(Cover(g))
        ELSE disk[g] = snap[g] \/ (Damaged(disk[g]) /\ ~Damaged(snap[g]))
    BY DEF Inv, Undone
  <2>3. CASE g # f
    BY <1>3, <2>1, <2>2, <2>3
  <2>4. CASE g = f
    <3>1. Damaged(disk'[g])
      BY <1>1, <1>3, <2>4
    <3> QED BY <1>2, <2>2, <2>4, <3>1
  <2> QED BY <2>3, <2>4
<1> QED BY <1>6, <1>7, <1>8, <1>9, <1>10
        DEF Inv, FailureRestores, DamageRepaired, SuccessChecked

-----------------------------------------------------------------------------
(* The patch lane: what it may hand on to a next pass or return            *)

Sound(d) ==
  /\ d \in Whole /\ FilesOK(d)
  /\ \A f \in Tailed \ exposed : d[f].tail
  /\ \A f \in EntryPoint : Damaged(snap[f]) => d[f] = snap[f]
  /\ ~patched /\ ~stray =>
       \A f \in EntryPoint : d[f] = snap[f] \/ (Damaged(d[f]) /\ ~Damaged(snap[f]))

\* Once unmasked, the files are sound.
LEMMA UnmaskedSound ==
  ASSUME Inv, pc \in {"prepass", "child"}, lane = "patch"
  PROVE  Sound(Unmasked)
<1>1. /\ disk \in Whole /\ manifest \in Mask /\ FilesOK(disk) /\ MaskOK(manifest)
      /\ masked = NoMask
  BY DEF Inv, TypeOK, Marked, Placed, Mask
<1>2. /\ Unmasked \in Whole /\ FilesOK(Unmasked)
      /\ \A f \in File : disk[f].tail \/ manifest[f] # "none" => Unmasked[f].tail
      /\ \A f \in File : manifest[f] = "none" => Unmasked[f] = disk[f]
      /\ \A f \in File : manifest[f] # "none" /\ (Damaged(disk[f]) \/ disk[f].head = manifest[f]) =>
           Unmasked[f] = [head |-> manifest[f], tail |-> TRUE]
  BY <1>1, UnmaskedFiles DEF Unmasked
<1>3. Tailed \subseteq File /\ EntryPoint \subseteq File
  BY ExecutorAssumption DEF ExecutorAssumption
<1>4. \A f \in Tailed \ exposed : Unmasked[f].tail
  BY <1>2, <1>3 DEF Inv, TailKept
<1>5. \A f \in EntryPoint : Damaged(snap[f]) => Unmasked[f] = snap[f]
  BY <1>2, <1>3 DEF Inv, StaysDamaged, ByPatch, Working
<1>6. ASSUME ~patched, ~stray, NEW f \in EntryPoint
      PROVE  Unmasked[f] = snap[f] \/ (Damaged(Unmasked[f]) /\ ~Damaged(snap[f]))
  <2>1. f \in File /\ Cover(f) = manifest[f]
    BY <1>1, <1>3 DEF Cover, NoMask
  <2>2. IF manifest[f] # "none"
        THEN /\ snap[f] = [head |-> manifest[f], tail |-> TRUE]
             /\ Damaged(disk[f]) \/ disk[f] = Cut(manifest[f])
        ELSE disk[f] = snap[f] \/ (Damaged(disk[f]) /\ ~Damaged(snap[f]))
    BY <1>6, <2>1 DEF Inv, Undone, ByPatch, Working
  <2>3. disk[f] = Cut(manifest[f]) => disk[f].head = manifest[f]
    BY DEF Cut
  <2> QED BY <1>2, <2>1, <2>2, <2>3
<1> QED BY <1>2, <1>4, <1>5, <1>6 DEF Sound

\* While checks run, the files are as they were left.
LEMMA CheckedSound == ASSUME Inv, pc = "check" PROVE Sound(disk) /\ lane = "patch" /\ patched
<1>1. lane = "patch" /\ patched /\ disk \in Whole /\ FilesOK(disk)
  BY DEF Inv, Placed, TypeOK, Marked
<1> QED BY <1>1 DEF Sound, Inv, TailKept, StaysDamaged, ByPatch, Working

\* A pass hands sound files on.
LEMMA PassKeeps ==
  ASSUME Inv, Working, lane = "patch", NEW d, Sound(d), disk' = d,
         pc' = "mask", masked' = NoMask, manifest' = NoMask, pass' \in 0 .. 3, slow' \in BOOLEAN,
         UNCHANGED <<local, patched, result, stray, exposed, used>>
  PROVE  Inv'
<1> USE DEF local, Sound
<1>1. NoMask \in Mask /\ MaskOK(NoMask)
  BY DEF NoMask, Mask, MaskOK
<1>2. TypeOK'
  BY <1>1 DEF Inv, TypeOK, Mask
<1>3. Placed' /\ Marked'
  BY <1>1 DEF Inv, Placed, Marked
<1>4. TailKept' /\ SnapWhole'
  BY DEF Inv, TailKept, SnapWhole, ByPatch, Working
<1>5. StaysDamaged'
  BY ExecutorAssumption DEF ExecutorAssumption, StaysDamaged, NoMask
<1>6. Undone'
  BY ExecutorAssumption DEF ExecutorAssumption, Undone, Cover, NoMask
<1> QED BY <1>2, <1>3, <1>4, <1>5, <1>6
        DEF Inv, FailureRestores, DamageRepaired, SuccessChecked

\* A return of sound files, rolled back or not, is a good one.
LEMMA EndKeeps ==
  ASSUME Inv, Working, lane = "patch", NEW d, Sound(d),
         disk' = Repair(d), pc' = "ended", manifest' = NoMask, masked' = NoMask,
         checked' \in Whole, slow' \in BOOLEAN,
         result' \in {"success", "failure", "damaged", "error"},
         result' \in {"failure", "error"} /\ ~stray => \A f \in EntryPoint : disk'[f] = snap[f],
         result' = "success" => disk' = d /\ checked' = d,
         UNCHANGED <<lane, snap, created, pass, patched, stray, exposed, used>>
  PROVE  Inv'
<1> USE DEF Sound
<1>1. NoMask \in Mask /\ MaskOK(NoMask)
  BY DEF NoMask, Mask, MaskOK
<1>2. snap \in Whole /\ FilesOK(snap) /\ EntryPoint \subseteq File /\ Tailed \subseteq File
      /\ created \subseteq EntryPoint
  BY ExecutorAssumption DEF ExecutorAssumption, Inv, TypeOK, Marked
<1>3. /\ disk' \in Whole /\ FilesOK(disk')
      /\ \A f \in EntryPoint :
           disk'[f] = IF Damaged(d[f]) /\ ~Damaged(snap[f]) THEN snap[f] ELSE d[f]
      /\ \A f \in File \ EntryPoint : disk'[f] = d[f]
  BY <1>2, RepairedFiles
<1>4. TypeOK'
  BY <1>1, <1>3 DEF Inv, TypeOK, Mask
<1>5. Placed' /\ Marked'
  BY <1>1, <1>3 DEF Inv, Placed, Marked
<1>6. \A f \in Tailed \ exposed : disk'[f].tail
  BY <1>2, <1>3 DEF Inv, SnapWhole, ByPatch
<1>7. TailKept' /\ SnapWhole' /\ StaysDamaged' /\ Undone'
  BY <1>6 DEF TailKept, SnapWhole, StaysDamaged, Undone, ByPatch, Working
<1>8. FailureRestores'
  BY <1>2 DEF FailureRestores
<1>9. SuccessChecked'
  BY DEF SuccessChecked
<1>10. DamageRepaired'
  <2> SUFFICES ASSUME NEW f \in (Tailed \ exposed) \cup EntryPoint
               PROVE  /\ disk'[f].head = "gone"  => snap[f].head = "gone"
                      /\ disk'[f].head = "empty" => Damaged(snap[f])
    BY <1>2 DEF DamageRepaired
  <2>1. CASE f \in Tailed \ exposed
    BY <1>2, <1>3, <1>6, <2>1 DEF FilesOK, Damaged
  <2>2. CASE f \in EntryPoint
    BY <1>3, <2>2 DEF Damaged
  <2> QED BY <2>1, <2>2
<1> QED BY <1>4, <1>5, <1>7, <1>8, <1>9, <1>10 DEF Inv

\* Rolling back sound files gives sound files, which are the snapshots.
LEMMA RollbackSound ==
  ASSUME Inv, ByPatch, NEW d, Sound(d)
  PROVE  Sound(Rollback(d)) /\ \A f \in EntryPoint : Rollback(d)[f] = snap[f]
<1>1. snap \in Whole /\ FilesOK(snap) /\ EntryPoint \subseteq File /\ Tailed \subseteq File
  BY ExecutorAssumption DEF ExecutorAssumption, Inv, TypeOK, Marked
<1>2. /\ Rollback(d) \in Whole /\ FilesOK(Rollback(d))
      /\ \A f \in EntryPoint : Rollback(d)[f] = snap[f]
      /\ \A f \in File \ EntryPoint : Rollback(d)[f] = d[f]
  BY <1>1, RolledBackFiles DEF Sound
<1>3. \A f \in Tailed \ exposed : Rollback(d)[f].tail
  BY <1>1, <1>2 DEF Sound, Inv, SnapWhole
<1> QED BY <1>2, <1>3 DEF Sound

\* Repairing the snapshots changes nothing.
LEMMA RepairedSnapshots ==
  ASSUME Inv, NEW d, Sound(d), \A f \in EntryPoint : d[f] = snap[f]
  PROVE  \A f \in EntryPoint : Repair(d)[f] = snap[f]
<1>1. snap \in Whole /\ FilesOK(snap)
  BY DEF Inv, TypeOK, Marked
<1> QED BY <1>1, RepairedFiles DEF Sound

\* Every failure of the patch lane restores.
LEMMA FailKeeps ==
  ASSUME Inv, Working, lane = "patch", NEW d, Sound(d), Fail(d),
         manifest' = NoMask, masked' = NoMask, slow' \in BOOLEAN,
         UNCHANGED <<local, pass, patched, stray, exposed, used>>
  PROVE  Inv'
<1> DEFINE e == IF patched THEN Rollback(d) ELSE d
<1>1. Sound(e) /\ (patched => \A f \in EntryPoint : e[f] = snap[f])
  BY RollbackSound DEF ByPatch
<1>2. /\ disk' = Repair(e) /\ pc' = "ended"
      /\ result' = IF Repair(e) = e THEN "failure" ELSE "damaged"
  BY DEF Fail, Return
<1> HIDE DEF e
<1>3. result' \in {"failure", "error"} /\ ~stray => \A f \in EntryPoint : disk'[f] = snap[f]
  <2> SUFFICES ASSUME Repair(e) = e, ~stray, NEW f \in EntryPoint PROVE e[f] = snap[f]
    BY <1>2
  <2>1. snap \in Whole /\ FilesOK(snap)
    BY DEF Inv, TypeOK, Marked
  <2>2. e[f] = IF Damaged(e[f]) /\ ~Damaged(snap[f]) THEN snap[f] ELSE e[f]
    BY <1>1, <2>1, RepairedFiles DEF Sound
  <2> QED BY <1>1, <2>2 DEF Sound
<1>4. checked' \in Whole /\ UNCHANGED <<lane, snap, created, pass, patched, stray, exposed, used>>
  BY DEF local, Inv, TypeOK
<1> QED BY <1>1, <1>2, <1>3, <1>4, EndKeeps

\* One more pass, or the failure of the last.
LEMMA NextPassKeeps ==
  ASSUME Inv, Working, lane = "patch", NEW d, Sound(d), NextPass(d), masked = NoMask,
         manifest' = NoMask, slow' \in BOOLEAN,
         UNCHANGED <<local, patched, stray, exposed, used>>
  PROVE  Inv'
<1>1. CASE pass < MaxPasses
  <2>1. pass' \in 0 .. 3
    BY <1>1, ExecutorAssumption DEF ExecutorAssumption, NextPass, Inv, TypeOK
  <2> QED BY <1>1, <2>1, PassKeeps DEF NextPass
<1>2. CASE ~(pass < MaxPasses)
  BY <1>2, FailKeeps DEF NextPass
<1> QED BY <1>1, <1>2

LEMMA PrepassFailsKeeps == ASSUME Inv, PrepassFails PROVE Inv'
<1>1. Working /\ lane = "patch" /\ masked = NoMask /\ Sound(Unmasked) /\ slow' \in BOOLEAN
  BY UnmaskedSound DEF PrepassFails, Working, Inv, Placed, TypeOK
<1> QED BY <1>1, FailKeeps DEF PrepassFails

LEMMA PrepassPlansKeeps == ASSUME Inv, PrepassPlans PROVE Inv'
<1> USE DEF PrepassPlans, local
<1>1. TypeOK' /\ Placed' /\ Marked'
  BY DEF Inv, TypeOK, Placed, Marked
<1>2. TailKept' /\ SnapWhole' /\ StaysDamaged' /\ Undone'
  BY DEF Inv, TailKept, SnapWhole, StaysDamaged, Undone, Cover, ByPatch, Working
<1> QED BY <1>1, <1>2 DEF Inv, FailureRestores, DamageRepaired, SuccessChecked

LEMMA PatchChildErrorKeeps == ASSUME Inv, PatchChildError PROVE Inv'
<1> USE DEF PatchChildError
<1>1. Working /\ lane = "patch" /\ masked = NoMask /\ Sound(Unmasked)
  BY UnmaskedSound DEF Working, Inv, Placed
<1>2. Sound(Rollback(Unmasked)) /\ \A f \in EntryPoint : Rollback(Unmasked)[f] = snap[f]
  BY <1>1, RollbackSound DEF ByPatch
<1>3. \A f \in EntryPoint : disk'[f] = snap[f]
  BY <1>2, RepairedSnapshots
<1>4. checked' \in Whole /\ slow' \in BOOLEAN /\ masked' = NoMask
      /\ UNCHANGED <<lane, snap, created, pass, patched, stray, exposed, used>>
  BY <1>1 DEF local, Inv, TypeOK
<1> QED BY <1>1, <1>2, <1>3, <1>4, EndKeeps

LEMMA PatchChildSlowKeeps == ASSUME Inv, PatchChildSlow PROVE Inv'
<1> USE DEF PatchChildSlow
<1>1. Working /\ lane = "patch" /\ masked = NoMask /\ Sound(Unmasked)
  BY UnmaskedSound DEF Working, Inv, Placed
<1>2. CASE slow
  BY <1>1, <1>2, FailKeeps
<1>3. CASE ~slow
  BY <1>1, <1>3, NextPassKeeps
<1> QED BY <1>2, <1>3

LEMMA PatchRefusedKeeps == ASSUME Inv, PatchRefused PROVE Inv'
<1>1. Working /\ lane = "patch" /\ masked = NoMask /\ Sound(Unmasked) /\ slow' \in BOOLEAN
  BY UnmaskedSound DEF PatchRefused, Working, Inv, Placed, TypeOK
<1> QED BY <1>1, FailKeeps DEF PatchRefused

\* A patch changes heads only.
LEMMA PatchAppliedKeeps == ASSUME Inv, NEW F \in SUBSET File, PatchApplied(F) PROVE Inv'
<1> USE DEF PatchApplied, local
<1>1. Sound(Unmasked) /\ masked = NoMask
  BY UnmaskedSound DEF Inv, Placed
<1>2. PICK new \in [F -> Version] :
        disk' = [f \in File |-> IF f \in F THEN [Unmasked[f] EXCEPT !.head = new[f]] ELSE Unmasked[f]]
  OBVIOUS
<1>3. ASSUME NEW f \in File
      PROVE  /\ disk'[f] \in [head : Head, tail : BOOLEAN]
             /\ disk'[f].tail = Unmasked[f].tail
             /\ f \in F => ~Damaged(disk'[f])
             /\ f \notin F => disk'[f] = Unmasked[f]
  <2>1. Unmasked[f] \in [head : Head, tail : BOOLEAN]
    BY <1>1 DEF Sound, Whole
  <2>2. CASE f \in F
    <3>1. new[f] \in Head \ {"gone", "empty"}
      BY <2>2, ExecutorAssumption DEF ExecutorAssumption, Head
    <3>2. disk'[f] = [Unmasked[f] EXCEPT !.head = new[f]]
      BY <1>2, <2>2
    <3> HIDE DEF PatchApplied
    <3> QED BY <2>1, <2>2, <3>1, <3>2 DEF Damaged
  <2>3. CASE f \notin F
    BY <1>2, <2>1, <2>3
  <2> QED BY <2>2, <2>3
<1>4. disk' = [f \in File |-> disk'[f]]
  BY <1>2
<1>5. disk' \in Whole /\ FilesOK(disk')
  BY <1>1, <1>3, <1>4 DEF Whole, FilesOK, Sound
<1>6. NoMask \in Mask /\ MaskOK(NoMask)
  BY DEF NoMask, Mask, MaskOK
<1>7. TypeOK' /\ Placed' /\ Marked'
  BY <1>1, <1>5, <1>6 DEF Inv, TypeOK, Placed, Marked, Mask
<1>8. TailKept' /\ SnapWhole'
  BY <1>1, <1>3, ExecutorAssumption
  DEF ExecutorAssumption, Sound, TailKept, SnapWhole, Inv, ByPatch, Working
<1>9. StaysDamaged'
  <2> SUFFICES ASSUME NEW f \in EntryPoint, Damaged(snap[f])
               PROVE  disk'[f] = snap[f]
    BY <1>1, ExecutorAssumption DEF ExecutorAssumption, StaysDamaged, NoMask
  <2>1. Unmasked[f] = snap[f] /\ f \in File
    BY <1>1, ExecutorAssumption DEF ExecutorAssumption, Sound
  <2>2. f \notin F
    BY <2>1
  <2> QED BY <1>3, <2>1, <2>2
<1>10. Undone'
  BY DEF Undone
<1> QED BY <1>7, <1>8, <1>9, <1>10 DEF Inv, FailureRestores, DamageRepaired, SuccessChecked

LEMMA ChecksPassKeeps == ASSUME Inv, ChecksPass PROVE Inv'
<1> USE DEF ChecksPass
<1>1. Working /\ lane = "patch" /\ Sound(disk) /\ masked = NoMask /\ manifest' = NoMask
  BY CheckedSound DEF Working, Inv, Placed
<1>2. /\ disk' = Repair(disk) /\ pc' = "ended" /\ checked' = disk
      /\ result' = IF Repair(disk) = disk THEN "success" ELSE "damaged"
  BY DEF Return
<1>3. checked' \in Whole /\ slow' \in BOOLEAN
  BY <1>2 DEF Inv, TypeOK
<1> QED BY <1>1, <1>2, <1>3, EndKeeps

\* An error of the controller's own leaves each file masked and in the manifest, unmasked
\* or undone; without a patch its head is that of the snapshot, or damaged.
LEMMA ControllerFailsKeeps ==
  ASSUME Inv, NEW keep \in SUBSET File, NEW undone \in SUBSET File, ControllerFails(keep, undone)
  PROVE  Inv'
<1> USE DEF ControllerFails, local
<1>1. /\ disk \in Whole /\ manifest \in Mask /\ FilesOK(disk) /\ MaskOK(manifest)
      /\ snap \in Whole /\ FilesOK(snap) /\ masked = NoMask
      /\ EntryPoint \subseteq File /\ created \subseteq File /\ Tailed \subseteq File
  BY ExecutorAssumption DEF ExecutorAssumption, Inv, TypeOK, Marked, Placed, Mask
<1>2. /\ Unmasked \in Whole /\ FilesOK(Unmasked)
      /\ \A f \in File : disk[f].tail \/ manifest[f] # "none" => Unmasked[f].tail
      /\ \A f \in File : manifest[f] = "none" => Unmasked[f] = disk[f]
  BY <1>1, UnmaskedFiles DEF Unmasked
<1>3. Cut("stub") \in [head : Head, tail : BOOLEAN] /\ Cut("stub").tail = FALSE
  BY CutFile DEF Head
<1>4. ASSUME NEW f \in File
      PROVE  /\ f \in undone /\ lane = "patch" => disk'[f] = snap[f]
             /\ f \in undone /\ lane # "patch" => disk'[f] = Cut("stub")
             /\ f \notin undone /\ f \in keep => disk'[f] = disk[f]
             /\ f \notin undone /\ f \notin keep => disk'[f] = Unmasked[f]
  OBVIOUS
<1>5. disk' \in Whole /\ FilesOK(disk')
  <2>1. ASSUME NEW f \in File
        PROVE  /\ disk'[f] \in [head : Head, tail : BOOLEAN]
               /\ disk'[f].tail => f \in Tailed /\ ~Damaged(disk'[f])
    BY <1>1, <1>2, <1>3, <1>4 DEF Whole, FilesOK
  <2>2. disk' = [f \in File |-> disk'[f]]
    OBVIOUS
  <2> QED BY <2>1, <2>2 DEF Whole, FilesOK
<1>6. manifest' \in Mask /\ MaskOK(manifest')
  <2>1. NoMask \in Mask /\ MaskOK(NoMask)
    BY DEF NoMask, Mask, MaskOK
  <2> QED BY <1>1, <2>1
<1>7. TypeOK' /\ Placed' /\ Marked'
  BY <1>1, <1>5, <1>6 DEF Inv, TypeOK, Placed, Marked, Mask
<1>8. TailKept'
  <2> SUFFICES ASSUME NEW f \in Tailed \ exposed PROVE disk'[f].tail \/ manifest'[f] # "none"
    BY DEF TailKept
  <2>1. f \in File /\ Unmasked[f].tail
    BY <1>1, <1>2 DEF Inv, TailKept
  <2>2. CASE f \in undone /\ lane = "patch"
    BY <1>4, <2>1, <2>2 DEF Undoable, Inv, SnapWhole, ByPatch, Working
  <2>3. CASE f \in undone /\ lane # "patch"
    BY <1>2, <2>1, <2>3 DEF Undoable, FilesOK, Damaged
  <2>4. CASE f \notin undone /\ f \in keep
    BY <2>1, <2>4
  <2>5. CASE f \notin undone /\ f \notin keep
    BY <1>4, <2>1, <2>5
  <2> QED BY <2>2, <2>3, <2>4, <2>5
<1>9. FailureRestores'
  <2> SUFFICES ASSUME lane = "patch", ~stray, ~patched, NEW f \in EntryPoint
               PROVE  disk'[f].head = snap[f].head \/ Damaged(disk'[f])
    BY DEF FailureRestores
  <2>1. f \in File /\ pc # "check" /\ Cover(f) = manifest[f]
    BY <1>1 DEF Inv, Placed, Cover, NoMask
  <2>2. Sound(Unmasked)
    BY <2>1, UnmaskedSound
  <2>3. Unmasked[f] = snap[f] \/ Damaged(Unmasked[f])
    BY <2>2 DEF Sound
  <2>4. CASE f \in keep
    <3>1. /\ snap[f] = [head |-> manifest[f], tail |-> TRUE]
          /\ Damaged(disk[f]) \/ disk[f] = Cut(manifest[f])
      BY <2>1, <2>4 DEF Inv, Undone, ByPatch, Working
    <3>2. snap[f].head = manifest[f] /\ (disk[f] = Cut(manifest[f]) => disk[f].head = manifest[f])
      BY <3>1 DEF Cut
    <3> QED BY <1>4, <2>1, <2>4, <3>1, <3>2 DEF Damaged
  <2>5. CASE f \notin keep
    BY <1>4, <2>1, <2>3, <2>5
  <2> QED BY <2>4, <2>5
<1> QED BY <1>7, <1>8, <1>9 DEF Inv, SnapWhole, StaysDamaged, Undone, ByPatch, Working,
           DamageRepaired, SuccessChecked

LEMMA CheckFailsKeeps == ASSUME Inv, CheckFails PROVE Inv'
<1>1. Working /\ lane = "patch" /\ Sound(disk) /\ masked = NoMask /\ manifest' = NoMask
      /\ slow' \in BOOLEAN
  BY CheckedSound DEF CheckFails, Working, Inv, Placed, TypeOK
<1> QED BY <1>1, NextPassKeeps DEF CheckFails

LEMMA CheckBreaksKeeps == ASSUME Inv, CheckBreaks PROVE Inv'
<1>1. Working /\ lane = "patch" /\ Sound(disk) /\ masked = NoMask /\ manifest' = NoMask
      /\ slow' \in BOOLEAN
  BY CheckedSound DEF CheckBreaks, Working, Inv, Placed, TypeOK
<1> QED BY <1>1, FailKeeps DEF CheckBreaks

\* The exec lane puts back what was masked, and the stubs that were deleted.
LEMMA ExecChildEndsKeeps == ASSUME Inv, ExecChildEnds PROVE Inv'
<1> USE DEF local
<1> DEFINE gone == {f \in created : Unmasked[f].head = "gone"}
<1>1. /\ pc = "child" /\ lane = "exec" /\ disk' = Stubbed(Unmasked, gone) /\ manifest' = NoMask
      /\ masked' = NoMask /\ pc' \in {"ended", "mask"}
      /\ result' \in {"failure", "error", "success", result} /\ pass' \in {pass, 2}
      /\ pc' = "mask" => result' = result
      /\ UNCHANGED <<local, patched, slow, stray, exposed, used>>
  BY DEF ExecChildEnds, Inv, Placed
<1>2. /\ Unmasked \in Whole /\ FilesOK(Unmasked)
      /\ \A f \in File : disk[f].tail \/ manifest[f] # "none" => Unmasked[f].tail
  BY UnmaskedFiles DEF Inv, TypeOK, Mask, Marked, Unmasked
<1>3. gone \in SUBSET File /\ created \subseteq File /\ Tailed \subseteq File
  BY ExecutorAssumption DEF ExecutorAssumption, Inv, TypeOK
<1>4. /\ disk' \in Whole /\ FilesOK(disk')
      /\ \A f \in gone : disk'[f] = Cut("stub")
      /\ \A f \in File \ gone : disk'[f] = Unmasked[f]
  BY <1>1, <1>2, <1>3, StubbedFiles
<1>5. \A f \in Tailed \ exposed : disk'[f].tail
  <2> SUFFICES ASSUME NEW f \in Tailed \ exposed PROVE disk'[f].tail
    OBVIOUS
  <2>1. Unmasked[f].tail
    BY <1>1, <1>2, <1>3 DEF Inv, TailKept
  <2>2. f \notin gone
    BY <1>2, <1>3, <2>1 DEF FilesOK, Damaged
  <2> QED BY <1>3, <1>4, <2>1, <2>2
<1>6. \A f \in created : disk'[f].head # "gone"
  BY <1>3, <1>4 DEF Cut
<1> HIDE DEF gone
<1>7. NoMask \in Mask /\ MaskOK(NoMask)
  BY DEF NoMask, Mask, MaskOK
<1>8. TypeOK'
  BY <1>1, <1>4, <1>7 DEF Inv, TypeOK, Mask
<1>9. Placed' /\ Marked'
  BY <1>1, <1>4, <1>7 DEF Inv, Placed, Marked
<1>10. TailKept' /\ SnapWhole' /\ StaysDamaged' /\ Undone'
  BY <1>1, <1>5 DEF TailKept, SnapWhole, StaysDamaged, Undone, ByPatch
<1>11. FailureRestores' /\ SuccessChecked'
  BY <1>1 DEF FailureRestores, SuccessChecked
<1>12. DamageRepaired'
  <2> SUFFICES ASSUME NEW f \in (Tailed \ exposed) \cup created
               PROVE  disk'[f].head # "gone" /\ (disk'[f].head = "empty" => f \in created)
    BY <1>1 DEF DamageRepaired
  <2>1. CASE f \in Tailed \ exposed
    BY <1>3, <1>4, <1>5, <2>1 DEF FilesOK, Damaged
  <2>2. CASE f \in created
    BY <1>6, <2>2
  <2> QED BY <2>1, <2>2
<1> QED BY <1>8, <1>9, <1>10, <1>11, <1>12 DEF Inv

-----------------------------------------------------------------------------
(* The theorems                                                            *)

LEMMA NextKeeps == ASSUME Inv, [Next]_vars PROVE Inv'
<1>1. ASSUME NEW l \in {"patch", "exec"}, Begin(l) PROVE Inv'
  BY <1>1, BeginKeeps
<1>2. ASSUME Lane PROVE Inv'
  <2>1. ASSUME NEW f \in File, MaskFile(f) PROVE Inv'
    BY <2>1, MaskFileKeeps
  <2>2. ASSUME NEW F \in SUBSET File, PatchApplied(F) PROVE Inv'
    BY <2>2, PatchAppliedKeeps
  <2> QED BY <1>2, <2>1, <2>2, MaskEndKeeps, PrepassFailsKeeps, PrepassPlansKeeps,
             PatchChildErrorKeeps, PatchChildSlowKeeps, PatchRefusedKeeps, ChecksPassKeeps,
             CheckFailsKeeps, CheckBreaksKeeps, ExecChildEndsKeeps DEF Lane
<1>3. ASSUME NEW f \in File, NEW head \in Version, ChildEdits(f, head) PROVE Inv'
  BY <1>3, HeadKeeps DEF ChildEdits
<1>4. ASSUME NEW f \in File, NEW head \in Version, StrayEdits(f, head) PROVE Inv'
  BY <1>4, HeadKeeps DEF StrayEdits
<1>5. ASSUME NEW f \in File, NEW damage \in {"gone", "empty"}, Damages(f, damage) PROVE Inv'
  BY <1>5, DamagesKeeps
<1>6. ASSUME UNCHANGED vars PROVE Inv'
  BY <1>6 DEF vars, Inv, TypeOK, Placed, Marked, TailKept, SnapWhole, StaysDamaged, Undone, Cover,
     ByPatch, Working, FailureRestores, DamageRepaired, SuccessChecked
<1>7. ASSUME NEW keep \in SUBSET File, NEW undone \in SUBSET File, ControllerFails(keep, undone)
      PROVE  Inv'
  BY <1>7, ControllerFailsKeeps
<1> QED BY <1>1, <1>2, <1>3, <1>4, <1>5, <1>6, <1>7, MaskFailsKeeps, KilledKeeps DEF Next

LEMMA Invariant == Spec => []Inv
<1>1. Init => Inv
  BY InitialState
<1>2. Inv /\ [Next]_vars => Inv'
  BY NextKeeps
<1> QED BY <1>1, <1>2, PTL DEF Spec

\* Files, manifest and locals keep their types whatever happens to a run.
THEOREM TypeCorrect == Spec => []TypeOK
<1>1. Inv => TypeOK
  BY DEF Inv
<1> QED BY <1>1, Invariant, PTL

\* Masking never loses a test, unless a run stops between truncating a file and writing
\* the manifest (EntryPointExcerptGuard::apply).
THEOREM TestsAreKept == Spec => []TailKept
<1>1. Inv => TailKept
  BY DEF Inv
<1> QED BY <1>1, Invariant, PTL

\* A run of the patch lane that reports a failure, in whichever pass, leaves its entry
\* points as before it (maybe_rollback_failed_patch_lane_output); one that stops at an
\* error of the controller's own leaves edits only of a patch it had applied.
THEOREM FailuresRestore == Spec => []FailureRestores
<1>1. Inv => FailureRestores
  BY DEF Inv
<1> QED BY <1>1, Invariant, PTL

\* No run that gets as far as an outcome leaves a file of its own damaged
\* (finalize_patch_lane_output, run_execution_attempt).
THEOREM DamageIsRepaired == Spec => []DamageRepaired
<1>1. Inv => DamageRepaired
  BY DEF Inv
<1> QED BY <1>1, Invariant, PTL

\* The patch lane never calls unchecked files a success.
THEOREM SuccessIsChecked == Spec => []SuccessChecked
<1>1. Inv => SuccessChecked
  BY DEF Inv
<1> QED BY <1>1, Invariant, PTL
=============================================================================
