------------------------ MODULE ManifestInstallProofs ------------------------
(***************************************************************************)
(* ManifestInstall proved for every embedded sequence, every number of     *)
(* releases, and as many kinds of faults as each promise bears: writes,    *)
(* copies, moves, deletes and registry writes that fail, a final read and  *)
(* loads that fail, crashes anywhere, and for what an update reports also  *)
(* power losses.  SteadyReads is assumed where the prior pair matters.     *)
(*                                                                         *)
(* The argument. None of the promises is inductive: whether breaking the   *)
(* main pair is safe depends on what the backup holds, and that on what    *)
(* the steps before copied. RunInv says where the prior pair is at each pc *)
(* (PriorInPlace, PriorInBackup) and that the backup is never newer than a *)
(* valid main pair (BackupIsOlder), which is why overwriting it loses      *)
(* nothing; Ordering is what one update passes on to the next. There is    *)
(* one lemma per action, and one step per part. ReportInv is what remains  *)
(* when the prior pair may be taken for none: no more than the truth of    *)
(* the report Installed.                                                   *)
(***************************************************************************)
EXTENDS ManifestInstall, TLAPS

\* What the files select is visible to every proof below.
USE DEF Main, Backup, PairSequence, Newer, Seen, Selected, Selection

-----------------------------------------------------------------------------
(* Each action keeps the inductive invariant.                              *)

\* Nothing is written yet: the selection stays, and a candidate that passes the
\* floor is newer than everything in use.
LEMMA BeginKeeps ==
  ASSUME SteadyReads, RunInv, Begin
  PROVE  RunInv' /\ (Ordering => Ordering')
<1>0. PICK b \in 1..MaxSequence, s \in 1..MaxSequence, m \in BOOLEAN, k \in BOOLEAN :
          /\ m = TRUE /\ k = TRUE
          /\ candidate' = b
          /\ IF b # s THEN Return("InvalidSignature")
             ELSE IF ~IsNewer(b, Floor(m, k)) THEN Return("NotNewer")
             ELSE Goto("new1")
  <2>1. Outcomes("readFloor") = {TRUE}
    BY Zenon DEF Outcomes, SteadyReads
  <2>2. QED BY <2>1, Zenon DEF Begin
<1> USE EmbeddedAssumption
    DEF RunInv, Offer, Begin, Floor, IsNewer, Goto, Return, Outcomes, TypeOK, FileNames,
        PCs, Results, UntilMoved, FromMoved, BackupIsOlder, Ordering, StagedPair,
        PriorInPlace, PriorInBackup, FailureRestoresPrior, InstalledIsLoadable
<1>1. /\ candidate' = b
      /\ IF b # s THEN Return("InvalidSignature")
         ELSE IF ~(b > Newer(Newer(Newer(loaded, registry), Main), Backup))
         THEN Return("NotNewer")
         ELSE Goto("new1")
  BY <1>0, SMT DEF Seen
<1>2. TypeOK'
  BY <1>1, SMTT(30)
<1>3. BackupIsOlder' /\ Offer'
  BY <1>1, SMTT(30)
<1>4. ASSUME Ordering PROVE Ordering'
  BY <1>1, <1>4, SMTT(30)
<1>5. StagedPair' /\ PriorInPlace'
  BY <1>1, SMTT(30)
<1>6. PriorInBackup'
  BY <1>1, SMTT(30)
<1>7. FailureRestoresPrior' /\ InstalledIsLoadable'
  BY <1>1, SMTT(30)
<1>8. QED BY <1>2, <1>3, <1>4, <1>5, <1>6, <1>7

\* No load reads a .new file.
LEMMA WriteManifestKeeps ==
  ASSUME RunInv, WriteManifest
  PROVE  RunInv' /\ (Ordering => Ordering')
<1> USE EmbeddedAssumption
    DEF RunInv, Offer, WriteManifest, Goto, Return, FilesOnly, Outcomes, TypeOK,
        FileNames, PCs, Results, UntilMoved, FromMoved, BackupIsOlder, Ordering,
        StagedPair, PriorInPlace, PriorInBackup, FailureRestoresPrior,
        InstalledIsLoadable
<1>1. TypeOK'
  BY SMTT(30)
<1>2. BackupIsOlder' /\ Offer'
  BY SMTT(30)
<1>3. ASSUME Ordering PROVE Ordering'
  BY <1>3, SMTT(30)
<1>4. StagedPair' /\ PriorInPlace'
  BY SMTT(30)
<1>5. PriorInBackup'
  BY SMTT(30)
<1>6. FailureRestoresPrior' /\ InstalledIsLoadable'
  BY SMTT(30)
<1>7. QED BY <1>1, <1>2, <1>3, <1>4, <1>5, <1>6

\* No load reads a .new file.
LEMMA WriteSignatureKeeps ==
  ASSUME RunInv, WriteSignature
  PROVE  RunInv' /\ (Ordering => Ordering')
<1> USE EmbeddedAssumption
    DEF RunInv, Offer, WriteSignature, Goto, Return, FilesOnly, Outcomes, TypeOK,
        FileNames, PCs, Results, UntilMoved, FromMoved, BackupIsOlder, Ordering,
        StagedPair, PriorInPlace, PriorInBackup, FailureRestoresPrior,
        InstalledIsLoadable
<1>1. TypeOK'
  BY SMTT(30)
<1>2. BackupIsOlder' /\ Offer'
  BY SMTT(30)
<1>3. ASSUME Ordering PROVE Ordering'
  BY <1>3, SMTT(30)
<1>4. StagedPair' /\ PriorInPlace'
  BY SMTT(30)
<1>5. PriorInBackup'
  BY SMTT(30)
<1>6. FailureRestoresPrior' /\ InstalledIsLoadable'
  BY SMTT(30)
<1>7. QED BY <1>1, <1>2, <1>3, <1>4, <1>5, <1>6

\* The read of the prior pair tells whether there is one.
LEMMA FindPriorKeeps ==
  ASSUME SteadyReads, RunInv, FindPrior
  PROVE  RunInv' /\ (Ordering => Ordering')
<1> USE EmbeddedAssumption
    DEF RunInv, Offer, FindPrior, IsPrior, Goto, FilesOnly, Outcomes, SteadyReads,
        TypeOK, FileNames, PCs, Results, UntilMoved, FromMoved, BackupIsOlder, Ordering,
        StagedPair, PriorInPlace, PriorInBackup, FailureRestoresPrior,
        InstalledIsLoadable
<1>1. hadPrior' = (TRUE /\ IsPrior)
  <2>1. Outcomes("readPrior") = {TRUE}
    BY Zenon
  <2>2. QED BY <2>1, Zenon
<1>2. hadPrior' \in BOOLEAN /\ (hadPrior' <=> IsPrior)
  BY <1>1, Zenon
<1>3. files' = files /\ (hadPrior' => pc' = "bak1") /\ (~hadPrior' => pc' = "move1")
  BY Zenon
<1>4. TypeOK'
  BY <1>1, <1>2, <1>3, SMTT(30)
<1>5. BackupIsOlder' /\ Offer'
  BY <1>1, <1>2, <1>3, SMTT(30)
<1>6. ASSUME Ordering PROVE Ordering'
  BY <1>1, <1>2, <1>3, <1>6, SMTT(30)
<1>7. StagedPair' /\ PriorInPlace'
  <2>1. CASE hadPrior'
    BY <1>2, <1>3, <2>1, SMTT(30)
  <2>2. CASE ~hadPrior'
    BY <1>2, <1>3, <2>2, SMTT(30)
  <2>3. QED BY <2>1, <2>2
<1>8. PriorInBackup'
  BY <1>1, <1>2, <1>3, SMTT(30)
<1>9. FailureRestoresPrior' /\ InstalledIsLoadable'
  BY <1>1, <1>2, <1>3, SMTT(30)
<1>10. QED BY <1>4, <1>5, <1>6, <1>7, <1>8, <1>9

\* The main pair alone selects what the backup did, being no older.
LEMMA BackUpManifestKeeps ==
  ASSUME RunInv, BackUpManifest
  PROVE  RunInv' /\ (Ordering => Ordering')
<1> USE EmbeddedAssumption
    DEF RunInv, Offer, BackUpManifest, BackUp, Copies, Goto, Return, FilesOnly,
        Outcomes, TypeOK, FileNames, PCs, Results, UntilMoved, FromMoved, BackupIsOlder,
        Ordering, StagedPair, PriorInPlace, PriorInBackup, FailureRestoresPrior,
        InstalledIsLoadable
<1>1. TypeOK'
  BY SMTT(30)
<1>2. BackupIsOlder' /\ Offer'
  BY SMTT(30)
<1>3. ASSUME Ordering PROVE Ordering'
  BY <1>3, SMTT(30)
<1>4. StagedPair' /\ PriorInPlace'
  BY SMTT(30)
<1>5. PriorInBackup'
  BY SMTT(30)
<1>6. FailureRestoresPrior' /\ InstalledIsLoadable'
  BY SMTT(30)
<1>7. QED BY <1>1, <1>2, <1>3, <1>4, <1>5, <1>6

\* With both copies made the backup equals the main pair.
LEMMA BackUpSignatureKeeps ==
  ASSUME RunInv, BackUpSignature
  PROVE  RunInv' /\ (Ordering => Ordering')
<1> USE EmbeddedAssumption
    DEF RunInv, Offer, BackUpSignature, BackUp, Copies, Goto, Return, FilesOnly,
        Outcomes, TypeOK, FileNames, PCs, Results, UntilMoved, FromMoved, BackupIsOlder,
        Ordering, StagedPair, PriorInPlace, PriorInBackup, FailureRestoresPrior,
        InstalledIsLoadable
<1>1. TypeOK'
  BY SMTT(30)
<1>2. BackupIsOlder' /\ Offer'
  BY SMTT(30)
<1>3. ASSUME Ordering PROVE Ordering'
  BY <1>3, SMTT(30)
<1>4. StagedPair' /\ PriorInPlace'
  BY SMTT(30)
<1>5. PriorInBackup'
  BY SMTT(30)
<1>6. FailureRestoresPrior' /\ InstalledIsLoadable'
  BY SMTT(30)
<1>7. QED BY <1>1, <1>2, <1>3, <1>4, <1>5, <1>6

\* The main pair breaks; the backup, or the absence of a prior pair, covers it.
LEMMA MoveManifestKeeps ==
  ASSUME RunInv, MoveManifest
  PROVE  RunInv' /\ (Ordering => Ordering')
<1> USE EmbeddedAssumption
    DEF RunInv, Offer, MoveManifest, Move, AfterMove, Goto, Abandon, FilesOnly,
        Outcomes, TypeOK, FileNames, PCs, Results, UntilMoved, FromMoved, BackupIsOlder,
        Ordering, StagedPair, PriorInPlace, PriorInBackup, FailureRestoresPrior,
        InstalledIsLoadable
<1>1. TypeOK'
  BY SMTT(30)
<1>2. BackupIsOlder' /\ Offer'
  BY SMTT(30)
<1>3. ASSUME Ordering PROVE Ordering'
  BY <1>3, SMTT(30)
<1>4. StagedPair' /\ PriorInPlace'
  BY SMTT(30)
<1>5. PriorInBackup'
  BY SMTT(30)
<1>6. FailureRestoresPrior' /\ InstalledIsLoadable'
  BY SMTT(30)
<1>7. QED BY <1>1, <1>2, <1>3, <1>4, <1>5, <1>6

\* The main pair is the candidate.
LEMMA MoveSignatureKeeps ==
  ASSUME RunInv, MoveSignature
  PROVE  RunInv' /\ (Ordering => Ordering')
<1> USE EmbeddedAssumption
    DEF RunInv, Offer, MoveSignature, Move, AfterMove, Goto, Abandon, FilesOnly,
        Outcomes, TypeOK, FileNames, PCs, Results, UntilMoved, FromMoved, BackupIsOlder,
        Ordering, StagedPair, PriorInPlace, PriorInBackup, FailureRestoresPrior,
        InstalledIsLoadable
<1>1. TypeOK'
  BY SMTT(30)
<1>2. BackupIsOlder' /\ Offer'
  BY SMTT(30)
<1>3. ASSUME Ordering PROVE Ordering'
  BY <1>3, SMTT(30)
<1>4. StagedPair' /\ PriorInPlace'
  BY SMTT(30)
<1>5. PriorInBackup'
  BY SMTT(30)
<1>6. FailureRestoresPrior' /\ InstalledIsLoadable'
  BY SMTT(30)
<1>7. QED BY <1>1, <1>2, <1>3, <1>4, <1>5, <1>6

\* A pair read back badly is taken back.
LEMMA CheckFinalKeeps ==
  ASSUME RunInv, CheckFinal
  PROVE  RunInv' /\ (Ordering => Ordering')
<1> USE EmbeddedAssumption
    DEF RunInv, Offer, CheckFinal, Verifies, Goto, Abandon, FilesOnly, Outcomes, TypeOK,
        FileNames, PCs, Results, UntilMoved, FromMoved, BackupIsOlder, Ordering,
        StagedPair, PriorInPlace, PriorInBackup, FailureRestoresPrior,
        InstalledIsLoadable
<1>1. TypeOK'
  BY SMTT(30)
<1>2. BackupIsOlder' /\ Offer'
  BY SMTT(30)
<1>3. ASSUME Ordering PROVE Ordering'
  BY <1>3, SMTT(30)
<1>4. StagedPair' /\ PriorInPlace'
  BY SMTT(30)
<1>5. PriorInBackup'
  BY SMTT(30)
<1>6. FailureRestoresPrior' /\ InstalledIsLoadable'
  BY SMTT(30)
<1>7. QED BY <1>1, <1>2, <1>3, <1>4, <1>5, <1>6

\* The registry records what the files hold.
LEMMA SaveSequenceKeeps ==
  ASSUME RunInv, SaveSequence
  PROVE  RunInv' /\ (Ordering => Ordering')
<1> USE EmbeddedAssumption
    DEF RunInv, Offer, SaveSequence, AfterSave, Return, Abandon, Outcomes, TypeOK,
        FileNames, PCs, Results, UntilMoved, FromMoved, BackupIsOlder, Ordering,
        StagedPair, PriorInPlace, PriorInBackup, FailureRestoresPrior,
        InstalledIsLoadable
<1>1. TypeOK'
  BY SMTT(30)
<1>2. BackupIsOlder' /\ Offer'
  BY SMTT(30)
<1>3. ASSUME Ordering PROVE Ordering'
  BY <1>3, SMTT(30)
<1>4. StagedPair' /\ PriorInPlace'
  BY SMTT(30)
<1>5. PriorInBackup'
  BY SMTT(30)
<1>6. FailureRestoresPrior' /\ InstalledIsLoadable'
  BY SMTT(30)
<1>7. QED BY <1>1, <1>2, <1>3, <1>4, <1>5, <1>6

\* Restore copies from the backup only when it holds the prior pair.
LEMMA RestoreManifestKeeps ==
  ASSUME RunInv, RestoreManifest
  PROVE  RunInv' /\ (Ordering => Ordering')
<1> USE EmbeddedAssumption
    DEF RunInv, Offer, RestoreManifest, RestoreFile, Copies, Goto, FilesOnly, Outcomes,
        TypeOK, FileNames, PCs, Results, UntilMoved, FromMoved, BackupIsOlder, Ordering,
        StagedPair, PriorInPlace, PriorInBackup, FailureRestoresPrior,
        InstalledIsLoadable
<1>1. PICK ok \in BOOLEAN :
          /\ restored' = (restored /\ ok)
          /\ IF hadPrior THEN Copies("binBak", "bin", ok)
             ELSE /\ files' = [files EXCEPT !["bin"] = IF ok THEN 0 ELSE @]
                  /\ UNCHANGED unflushed
  BY Zenon
<1>2. restored' \in BOOLEAN
  BY <1>1, Zenon
<1>3. hadPrior' = hadPrior
  BY Zenon
<1>4. TypeOK'
  <2>1. files' \in [FileNames -> Nat]
    BY <1>1, <1>2, <1>3, SMT
  <2>2. unflushed' \subseteq FileNames
    <3>1. unflushed' \subseteq unflushed \cup {"bin"}
      BY <1>1, Zenon
    <3>2. unflushed \subseteq FileNames /\ "bin" \in FileNames
      BY Zenon
    <3>3. QED BY <3>1, <3>2, Zenon
  <2>3. hadPrior' \in BOOLEAN /\ restored' \in BOOLEAN
    BY <1>1, <1>2, <1>3, Zenon
  <2>4. pc' \in PCs /\ result' \in Results
    BY Zenon
  <2>5. UNCHANGED <<registry, loaded, candidate, before>>
    BY Zenon
  <2>6. QED BY <2>1, <2>2, <2>3, <2>4, <2>5, Zenon
<1>5. BackupIsOlder' /\ Offer'
  <2>1. CASE hadPrior /\ ok
    BY <1>1, <1>2, <1>3, <2>1, SMTT(30)
  <2>2. CASE hadPrior /\ ~ok
    BY <1>1, <1>2, <1>3, <2>2, SMTT(30)
  <2>3. CASE ~hadPrior /\ ok
    BY <1>1, <1>2, <1>3, <2>3, SMTT(30)
  <2>4. CASE ~hadPrior /\ ~ok
    BY <1>1, <1>2, <1>3, <2>4, SMTT(30)
  <2>5. QED BY <2>1, <2>2, <2>3, <2>4
<1>6. ASSUME Ordering PROVE Ordering'
  <2>1. CASE hadPrior /\ ok
    BY <1>1, <1>2, <1>3, <2>1, <1>6, SMTT(30)
  <2>2. CASE hadPrior /\ ~ok
    BY <1>1, <1>2, <1>3, <2>2, <1>6, SMTT(30)
  <2>3. CASE ~hadPrior /\ ok
    BY <1>1, <1>2, <1>3, <2>3, <1>6, SMTT(30)
  <2>4. CASE ~hadPrior /\ ~ok
    BY <1>1, <1>2, <1>3, <2>4, <1>6, SMTT(30)
  <2>5. QED BY <2>1, <2>2, <2>3, <2>4
<1>7. StagedPair' /\ PriorInPlace'
  <2>1. CASE hadPrior /\ ok
    BY <1>1, <1>2, <1>3, <2>1, SMTT(30)
  <2>2. CASE hadPrior /\ ~ok
    BY <1>1, <1>2, <1>3, <2>2, SMTT(30)
  <2>3. CASE ~hadPrior /\ ok
    BY <1>1, <1>2, <1>3, <2>3, SMTT(30)
  <2>4. CASE ~hadPrior /\ ~ok
    BY <1>1, <1>2, <1>3, <2>4, SMTT(30)
  <2>5. QED BY <2>1, <2>2, <2>3, <2>4
<1>8. PriorInBackup'
  <2>1. CASE hadPrior /\ ok
    BY <1>1, <1>2, <1>3, <2>1, SMTT(30)
  <2>2. CASE hadPrior /\ ~ok
    BY <1>1, <1>2, <1>3, <2>2, SMTT(30)
  <2>3. CASE ~hadPrior /\ ok
    BY <1>1, <1>2, <1>3, <2>3, SMTT(30)
  <2>4. CASE ~hadPrior /\ ~ok
    BY <1>1, <1>2, <1>3, <2>4, SMTT(30)
  <2>5. QED BY <2>1, <2>2, <2>3, <2>4
<1>9. FailureRestoresPrior' /\ InstalledIsLoadable'
  <2>1. CASE hadPrior /\ ok
    BY <1>1, <1>2, <1>3, <2>1, SMTT(30)
  <2>2. CASE hadPrior /\ ~ok
    BY <1>1, <1>2, <1>3, <2>2, SMTT(30)
  <2>3. CASE ~hadPrior /\ ok
    BY <1>1, <1>2, <1>3, <2>3, SMTT(30)
  <2>4. CASE ~hadPrior /\ ~ok
    BY <1>1, <1>2, <1>3, <2>4, SMTT(30)
  <2>5. QED BY <2>1, <2>2, <2>3, <2>4
<1>10. QED BY <1>4, <1>5, <1>6, <1>7, <1>8, <1>9

\* Restore copies from the backup only when it holds the prior pair.
LEMMA RestoreSignatureKeeps ==
  ASSUME RunInv, RestoreSignature
  PROVE  RunInv' /\ (Ordering => Ordering')
<1> USE EmbeddedAssumption
    DEF RunInv, Offer, RestoreSignature, RestoreFile, Copies, Goto, FilesOnly, Outcomes,
        TypeOK, FileNames, PCs, Results, UntilMoved, FromMoved, BackupIsOlder, Ordering,
        StagedPair, PriorInPlace, PriorInBackup, FailureRestoresPrior,
        InstalledIsLoadable
<1>1. PICK ok \in BOOLEAN :
          /\ restored' = (restored /\ ok)
          /\ IF hadPrior THEN Copies("sigBak", "sig", ok)
             ELSE /\ files' = [files EXCEPT !["sig"] = IF ok THEN 0 ELSE @]
                  /\ UNCHANGED unflushed
  BY Zenon
<1>2. restored' \in BOOLEAN
  BY <1>1, Zenon
<1>3. hadPrior' = hadPrior
  BY Zenon
<1>4. TypeOK'
  <2>1. files' \in [FileNames -> Nat]
    BY <1>1, <1>2, <1>3, SMT
  <2>2. unflushed' \subseteq FileNames
    <3>1. unflushed' \subseteq unflushed \cup {"sig"}
      BY <1>1, Zenon
    <3>2. unflushed \subseteq FileNames /\ "sig" \in FileNames
      BY Zenon
    <3>3. QED BY <3>1, <3>2, Zenon
  <2>3. hadPrior' \in BOOLEAN /\ restored' \in BOOLEAN
    BY <1>1, <1>2, <1>3, Zenon
  <2>4. pc' \in PCs /\ result' \in Results
    BY Zenon
  <2>5. UNCHANGED <<registry, loaded, candidate, before>>
    BY Zenon
  <2>6. QED BY <2>1, <2>2, <2>3, <2>4, <2>5, Zenon
<1>5. BackupIsOlder' /\ Offer'
  <2>1. CASE hadPrior /\ ok
    BY <1>1, <1>2, <1>3, <2>1, SMTT(30)
  <2>2. CASE hadPrior /\ ~ok
    BY <1>1, <1>2, <1>3, <2>2, SMTT(30)
  <2>3. CASE ~hadPrior /\ ok
    BY <1>1, <1>2, <1>3, <2>3, SMTT(30)
  <2>4. CASE ~hadPrior /\ ~ok
    BY <1>1, <1>2, <1>3, <2>4, SMTT(30)
  <2>5. QED BY <2>1, <2>2, <2>3, <2>4
<1>6. ASSUME Ordering PROVE Ordering'
  <2>1. CASE hadPrior /\ ok
    BY <1>1, <1>2, <1>3, <2>1, <1>6, SMTT(30)
  <2>2. CASE hadPrior /\ ~ok
    BY <1>1, <1>2, <1>3, <2>2, <1>6, SMTT(30)
  <2>3. CASE ~hadPrior /\ ok
    BY <1>1, <1>2, <1>3, <2>3, <1>6, SMTT(30)
  <2>4. CASE ~hadPrior /\ ~ok
    BY <1>1, <1>2, <1>3, <2>4, <1>6, SMTT(30)
  <2>5. QED BY <2>1, <2>2, <2>3, <2>4
<1>7. StagedPair' /\ PriorInPlace'
  <2>1. CASE hadPrior /\ ok
    BY <1>1, <1>2, <1>3, <2>1, SMTT(30)
  <2>2. CASE hadPrior /\ ~ok
    BY <1>1, <1>2, <1>3, <2>2, SMTT(30)
  <2>3. CASE ~hadPrior /\ ok
    BY <1>1, <1>2, <1>3, <2>3, SMTT(30)
  <2>4. CASE ~hadPrior /\ ~ok
    BY <1>1, <1>2, <1>3, <2>4, SMTT(30)
  <2>5. QED BY <2>1, <2>2, <2>3, <2>4
<1>8. PriorInBackup'
  <2>1. CASE hadPrior /\ ok
    BY <1>1, <1>2, <1>3, <2>1, SMTT(30)
  <2>2. CASE hadPrior /\ ~ok
    BY <1>1, <1>2, <1>3, <2>2, SMTT(30)
  <2>3. CASE ~hadPrior /\ ok
    BY <1>1, <1>2, <1>3, <2>3, SMTT(30)
  <2>4. CASE ~hadPrior /\ ~ok
    BY <1>1, <1>2, <1>3, <2>4, SMTT(30)
  <2>5. QED BY <2>1, <2>2, <2>3, <2>4
<1>9. FailureRestoresPrior' /\ InstalledIsLoadable'
  <2>1. CASE hadPrior /\ ok
    BY <1>1, <1>2, <1>3, <2>1, SMTT(30)
  <2>2. CASE hadPrior /\ ~ok
    BY <1>1, <1>2, <1>3, <2>2, SMTT(30)
  <2>3. CASE ~hadPrior /\ ok
    BY <1>1, <1>2, <1>3, <2>3, SMTT(30)
  <2>4. CASE ~hadPrior /\ ~ok
    BY <1>1, <1>2, <1>3, <2>4, SMTT(30)
  <2>5. QED BY <2>1, <2>2, <2>3, <2>4
<1>10. QED BY <1>4, <1>5, <1>6, <1>7, <1>8, <1>9

\* The host loads the selection.
LEMMA ReloadKeeps ==
  ASSUME RunInv, Reload
  PROVE  RunInv' /\ (Ordering => Ordering')
<1> USE EmbeddedAssumption
    DEF RunInv, Offer, Reload, Outcomes, TypeOK, FileNames, PCs, Results, UntilMoved,
        FromMoved, BackupIsOlder, Ordering, StagedPair, PriorInPlace, PriorInBackup,
        FailureRestoresPrior, InstalledIsLoadable
<1>1. TypeOK'
  BY SMTT(30)
<1>2. BackupIsOlder' /\ Offer'
  BY SMTT(30)
<1>3. ASSUME Ordering PROVE Ordering'
  BY <1>3, SMTT(30)
<1>4. StagedPair' /\ PriorInPlace'
  BY SMTT(30)
<1>5. PriorInBackup'
  BY SMTT(30)
<1>6. FailureRestoresPrior' /\ InstalledIsLoadable'
  BY SMTT(30)
<1>7. QED BY <1>1, <1>2, <1>3, <1>4, <1>5, <1>6

\* Without a power loss only the file in progress is torn, and its loss costs no
\* selection; with one the copies go too, and the next update starts from what is left.
LEMMA CrashKeeps ==
  ASSUME RunInv, Crash
  PROVE  RunInv' /\ (Ordering /\ "power" \notin Faults => Ordering')
<1> USE EmbeddedAssumption
    DEF RunInv, Offer, Crash, InProgress, TypeOK, FileNames, PCs, Results, UntilMoved,
        FromMoved, BackupIsOlder, Ordering, StagedPair, PriorInPlace, PriorInBackup,
        FailureRestoresPrior, InstalledIsLoadable
<1>1. PICK torn \in SUBSET (InProgress \cup unflushed) :
          /\ files' = [f \in FileNames |-> IF f \in torn THEN 0 ELSE files[f]]
          /\ "power" \notin Faults => torn \subseteq InProgress
  BY Zenon
<1>2. unflushed' \subseteq unflushed
  BY Zenon
<1>3. TypeOK'
  <2>1. files' \in [FileNames -> Nat]
    BY <1>1, SMT
  <2>2. unflushed' \subseteq FileNames
    BY <1>2, Zenon
  <2>3. hadPrior' \in BOOLEAN /\ restored' \in BOOLEAN
    BY Zenon
  <2>4. pc' \in PCs /\ result' \in Results
    BY Zenon
  <2>5. UNCHANGED <<registry, loaded, candidate, before>>
    BY Zenon
  <2>6. QED BY <2>1, <2>2, <2>3, <2>4, <2>5, Zenon
<1>4. BackupIsOlder' /\ Offer'
  BY <1>1, SMTT(30)
<1>5. ASSUME Ordering, "power" \notin Faults PROVE Ordering'
  BY <1>1, <1>5, SMTT(30)
<1>6. StagedPair' /\ PriorInPlace'
  BY <1>1, SMTT(30)
<1>7. PriorInBackup'
  BY <1>1, SMTT(30)
<1>8. FailureRestoresPrior' /\ InstalledIsLoadable'
  BY <1>1, SMTT(30)
<1>9. QED BY <1>3, <1>4, <1>5, <1>6, <1>7, <1>8

\* The new host loads the selection.
LEMMA RestartKeeps ==
  ASSUME RunInv, Restart
  PROVE  RunInv' /\ (Ordering => Ordering')
<1> USE EmbeddedAssumption
    DEF RunInv, Offer, Restart, Outcomes, TypeOK, FileNames, PCs, Results, UntilMoved,
        FromMoved, BackupIsOlder, Ordering, StagedPair, PriorInPlace, PriorInBackup,
        FailureRestoresPrior, InstalledIsLoadable
<1>1. TypeOK'
  BY SMTT(30)
<1>2. BackupIsOlder' /\ Offer'
  BY SMTT(30)
<1>3. ASSUME Ordering PROVE Ordering'
  BY <1>3, SMTT(30)
<1>4. StagedPair' /\ PriorInPlace'
  BY SMTT(30)
<1>5. PriorInBackup'
  BY SMTT(30)
<1>6. FailureRestoresPrior' /\ InstalledIsLoadable'
  BY SMTT(30)
<1>7. QED BY <1>1, <1>2, <1>3, <1>4, <1>5, <1>6

-----------------------------------------------------------------------------
(* The theorems.                                                           *)

LEMMA InitIInv == Init => IInv
<1> SUFFICES ASSUME Init PROVE IInv
  OBVIOUS
<1> USE EmbeddedAssumption DEF Init, FileNames
<1>1. Selected = Embedded /\ Main = 0 /\ Backup = 0
  BY SMT
<1>2. TypeOK
  <2>1. files \in [FileNames -> Nat] /\ registry \in Nat /\ candidate \in Nat
    BY SMT
  <2>2. unflushed \subseteq FileNames
    BY Zenon
  <2>3. pc \in PCs /\ result \in Results
    BY Zenon DEF PCs, Results
  <2>4. QED BY <2>1, <2>2, <2>3, Zenon DEF TypeOK
<1>3. QED
  BY <1>1, <1>2, SMT
  DEF IInv, RunInv, Offer, BackupIsOlder, Ordering, StagedPair, PriorInPlace,
      PriorInBackup, FailureRestoresPrior, InstalledIsLoadable, UntilMoved, FromMoved

\* Every step keeps RunInv, whatever fault strikes it but a read that contradicts the
\* one before, and Ordering too, but for a power loss.
LEMMA NextKeeps ==
  ASSUME SteadyReads, RunInv, [Next]_vars
  PROVE  RunInv' /\ (Ordering /\ "power" \notin Faults => Ordering')
<1>1. CASE Worker
  BY <1>1, BeginKeeps, WriteManifestKeeps, WriteSignatureKeeps, FindPriorKeeps,
     BackUpManifestKeeps, BackUpSignatureKeeps, MoveManifestKeeps,
     MoveSignatureKeeps, CheckFinalKeeps, SaveSequenceKeeps,
     RestoreManifestKeeps, RestoreSignatureKeeps
  DEF Worker
<1>2. CASE Reload \/ Crash \/ Restart
  BY <1>2, ReloadKeeps, CrashKeeps, RestartKeeps
<1>3. CASE UNCHANGED vars
  <2> USE <1>3 DEF vars, RunInv
  <2>1. TypeOK' /\ StagedPair'
    BY Zenon DEF TypeOK, StagedPair
  <2>2. BackupIsOlder' /\ Offer'
    BY Zenon DEF BackupIsOlder, Offer
  <2>3. Ordering => Ordering'
    BY Zenon DEF Ordering
  <2>4. PriorInPlace'
    BY Zenon DEF PriorInPlace
  <2>5. PriorInBackup'
    BY Zenon DEF PriorInBackup
  <2>6. FailureRestoresPrior' /\ InstalledIsLoadable'
    BY Zenon DEF FailureRestoresPrior, InstalledIsLoadable
  <2>7. QED BY <2>1, <2>2, <2>3, <2>4, <2>5, <2>6
<1>4. QED BY <1>1, <1>2, <1>3 DEF Next

\* Within an update the prior pair is always readable somewhere, whatever the update
\* before it, a crash or a power loss has left.
THEOREM RunInvHolds ==
  ASSUME SteadyReads PROVE Spec => []RunInv
<1>1. Init => RunInv
  BY InitIInv DEF IInv
<1>2. RunInv /\ [Next]_vars => RunInv'
  BY NextKeeps
<1>3. QED BY <1>1, <1>2, PTL DEF Spec

\* And without power losses nothing is ever lost between updates.
THEOREM InductiveInvariant ==
  ASSUME SteadyReads, "power" \notin Faults PROVE Spec => []IInv
<1>1. IInv /\ [Next]_vars => IInv'
  BY NextKeeps DEF IInv
<1>2. QED BY InitIInv, <1>1, PTL DEF Spec

\* Whatever fails and wherever the host dies, the files that
\* InstallSignedManifestPair leaves never select an older manifest than the one
\* the host has loaded.
THEOREM NeverBelowLoadedHolds ==
  ASSUME SteadyReads, "power" \notin Faults PROVE Spec => []NeverBelowLoaded
<1>1. IInv => NeverBelowLoaded
  BY Zenon DEF IInv, Ordering, NeverBelowLoaded
<1>2. QED BY InductiveInvariant, <1>1, PTL

\* The ManifestSequence value never names a release the files no longer hold.
THEOREM RegistryBackedHolds ==
  ASSUME SteadyReads, "power" \notin Faults PROVE Spec => []RegistryBacked
<1>1. IInv => RegistryBacked
  BY Zenon DEF IInv, Ordering, RegistryBacked
<1>2. QED BY InductiveInvariant, <1>1, PTL

\* A load sees the manifest from before the last update or the one it brought.
THEOREM AtomicInstallHolds ==
  ASSUME SteadyReads, "power" \notin Faults PROVE Spec => []AtomicInstall
<1>1. IInv => AtomicInstall
  BY Zenon DEF IInv, Ordering, AtomicInstall
<1>2. QED BY InductiveInvariant, <1>1, PTL

\* An update that reports a failure, and whose Restore went through, has left
\* the selection as it was.
THEOREM FailureRestoresPriorHolds ==
  ASSUME SteadyReads PROVE Spec => []FailureRestoresPrior
<1>1. RunInv => FailureRestoresPrior
  BY Zenon DEF RunInv
<1>2. QED BY RunInvHolds, <1>1, PTL

-----------------------------------------------------------------------------
(* What a report says, whatever may fail but the reads for the floor.      *)

\* The six files, the registry and the counters hold sequences, whatever fails.
LEMMA TypeStep == TypeOK /\ [Next]_vars => TypeOK'
<1> SUFFICES ASSUME TypeOK, [Next]_vars PROVE TypeOK'
  OBVIOUS
<1> USE DEF TypeOK
<1> DEFINE Locals == hadPrior' \in BOOLEAN /\ restored' \in BOOLEAN /\ pc' \in PCs
                     /\ result' \in Results
<1>1. CASE Begin
  <2>1. candidate' \in Nat
    BY <1>1, MaxSequenceAssumption, SMT DEF Begin
  <2>2. Locals /\ before' \in Nat
    <3>1. before' \in Nat
      BY <1>1, EmbeddedAssumption, SMT DEF Begin, FileNames
    <3>2. Locals
      BY <1>1, Zenon DEF Begin, Goto, Return, PCs, Results
    <3>3. QED BY <3>1, <3>2
  <2>3. QED BY <1>1, <2>1, <2>2, Zenon DEF Begin
<1>2. CASE WriteManifest \/ WriteSignature
  <2>1. files' \in [FileNames -> Nat]
    BY <1>2, SMT DEF WriteManifest, WriteSignature
  <2>2. Locals
    BY <1>2, Zenon DEF WriteManifest, WriteSignature, Goto, Return, PCs, Results
  <2>3. QED
    BY <1>2, <2>1, <2>2, Zenon DEF WriteManifest, WriteSignature, FilesOnly
<1>3. CASE FindPrior
  <2>1. hadPrior' \in BOOLEAN
    BY <1>3, Zenon DEF FindPrior, IsPrior, Outcomes
  <2>2. pc' \in PCs /\ result' \in Results
    BY <1>3, <2>1, Zenon DEF FindPrior, Goto, PCs
  <2>3. QED
    BY <1>3, <2>1, <2>2, Zenon DEF FindPrior, FilesOnly
<1>4. ASSUME NEW from \in FileNames, NEW to \in FileNames, NEW ok \in BOOLEAN,
             Copies(from, to, ok)
      PROVE  files' \in [FileNames -> Nat] /\ unflushed' \subseteq FileNames
  <2>1. files' \in [FileNames -> Nat]
    BY <1>4, SMT DEF Copies
  <2>2. unflushed' \subseteq FileNames
    BY <1>4, Zenon DEF Copies
  <2>3. QED BY <2>1, <2>2
<1>5. CASE BackUpManifest \/ BackUpSignature
  <2>1. files' \in [FileNames -> Nat] /\ unflushed' \subseteq FileNames
    BY <1>4, <1>5, Zenon DEF BackUpManifest, BackUpSignature, BackUp, Outcomes, FileNames
  <2>2. Locals
    BY <1>5, Zenon DEF BackUpManifest, BackUpSignature, BackUp, Goto, Return, PCs, Results
  <2>3. QED
    BY <1>5, <2>1, <2>2, Zenon DEF BackUpManifest, BackUpSignature, BackUp, FilesOnly
<1>6. CASE MoveManifest \/ MoveSignature
  <2>1. files' \in [FileNames -> Nat]
    BY <1>6, SMT DEF MoveManifest, MoveSignature, Move, FileNames
  <2>2. unflushed' \subseteq FileNames
    BY <1>6, Zenon DEF MoveManifest, MoveSignature, Move
  <2>3. Locals
    BY <1>6, Zenon DEF MoveManifest, MoveSignature, Move, AfterMove, Goto, Abandon, PCs,
       Results
  <2>4. QED
    BY <1>6, <2>1, <2>2, <2>3, Zenon DEF MoveManifest, MoveSignature, Move, FilesOnly
<1>7. CASE CheckFinal \/ SaveSequence
  <2>1. Locals
    BY <1>7, Zenon DEF CheckFinal, SaveSequence, AfterSave, Goto, Return, Abandon, PCs,
       Results
  <2>2. registry' \in Nat
    BY <1>7, Zenon DEF CheckFinal, SaveSequence, FilesOnly
  <2>3. QED
    BY <1>7, <2>1, <2>2, Zenon DEF CheckFinal, SaveSequence, FilesOnly
<1>8. ASSUME NEW l, NEW from \in FileNames, NEW to \in FileNames, NEW next \in PCs,
             RestoreFile(l, from, to, next)
      PROVE  TypeOK'
  <2>1. PICK ok \in BOOLEAN :
          /\ restored' = (restored /\ ok)
          /\ IF hadPrior THEN Copies(from, to, ok)
             ELSE /\ files' = [files EXCEPT ![to] = IF ok THEN 0 ELSE @]
                  /\ UNCHANGED unflushed
    BY <1>8, Zenon DEF RestoreFile, Outcomes
  <2>2. files' \in [FileNames -> Nat] /\ unflushed' \subseteq FileNames
    <3>1. CASE hadPrior
      BY <1>4, <2>1, <3>1, Zenon
    <3>2. CASE ~hadPrior
      <4>1. files' \in [FileNames -> Nat]
        BY <2>1, <3>2, SMT
      <4>2. QED BY <2>1, <3>2, <4>1, Zenon
    <3>3. QED BY <3>1, <3>2
  <2>3. Locals
    BY <1>8, <2>1, Zenon DEF RestoreFile, Goto
  <2>4. QED
    BY <1>8, <2>2, <2>3, Zenon DEF RestoreFile, FilesOnly
<1>9. CASE RestoreManifest \/ RestoreSignature
  BY <1>8, <1>9, Zenon DEF RestoreManifest, RestoreSignature, FileNames, PCs
<1>10. CASE Reload \/ Restart
  <2>1. loaded' \in Nat
    BY <1>10, EmbeddedAssumption, SMT DEF Reload, Restart, FileNames
  <2>2. QED
    BY <1>10, <2>1, Zenon DEF Reload, Restart, PCs
<1>11. CASE Crash
  <2>1. files' \in [FileNames -> Nat]
    BY <1>11, SMT DEF Crash
  <2>2. unflushed' \subseteq FileNames
    BY <1>11, Zenon DEF Crash
  <2>3. QED
    BY <1>11, <2>1, <2>2, Zenon DEF Crash, PCs
<1>12. CASE UNCHANGED vars
  BY <1>12, Zenon DEF vars
<1>13. QED
  BY <1>1, <1>2, <1>3, <1>5, <1>6, <1>7, <1>9, <1>10, <1>11, <1>12 DEF Next, Worker

\* What is offered is newer than all that can be read, and no step before the report
\* brings anything newer into a place that a load reads.
LEMMA ReportStep ==
  ASSUME "readFloor" \notin Faults, ReportInv, [Next]_vars PROVE ReportInv'
<1>0. TypeOK'
  BY TypeStep DEF ReportInv
<1> DEFINE Rest == /\ Offer /\ InstalledIsLoadable
                   /\ pc \in Installing => Backup <= candidate
                   /\ pc \in UntilMoved => Main <= candidate
                   /\ pc \in {"bak1", "bak2"} => Main > 0
                   /\ pc = "save" => Main = candidate
                   /\ pc \in {"undo1", "undo2"} => result # "Installed"
<1> SUFFICES Rest'
  BY <1>0 DEF ReportInv
<1> USE <1>0, EmbeddedAssumption
    DEF ReportInv, TypeOK, Offer, InstalledIsLoadable, Installing, UntilMoved, FromMoved,
        FileNames, Goto, Return, Abandon, FilesOnly
<1>1. CASE Begin
  <2>1. PICK b \in 1..MaxSequence, s \in 1..MaxSequence,
             m \in Outcomes("readFloor"), k \in Outcomes("readFloor") :
          /\ candidate' = b
          /\ IF b # s THEN Return("InvalidSignature")
             ELSE IF ~IsNewer(b, Floor(m, k)) THEN Return("NotNewer")
             ELSE Goto("new1")
    BY <1>1, Zenon DEF Begin
  <2>2. m /\ k
    BY Zenon DEF Outcomes
  <2>3. IF b # s THEN Return("InvalidSignature")
        ELSE IF ~(b > Newer(Newer(Newer(loaded, registry), Main), Backup))
        THEN Return("NotNewer")
        ELSE Goto("new1")
    BY <2>1, <2>2, SMT DEF IsNewer, Floor, Seen
  <2>4. QED BY <1>1, <2>1, <2>3, SMT DEF Begin
<1>2. CASE WriteManifest \/ WriteSignature
  BY <1>2, SMT DEF WriteManifest, WriteSignature
<1>3. CASE FindPrior
  <2>1. pc = "prior" /\ UNCHANGED <<files, loaded, candidate, before, result>>
    BY <1>3, Zenon DEF FindPrior
  <2>2. pc' = "move1" \/ (pc' = "bak1" /\ Main > 0)
    BY <1>3, Zenon DEF FindPrior, IsPrior
  <2>3. QED BY <2>1, <2>2, SMT
<1>4. CASE BackUpManifest \/ BackUpSignature
  BY <1>4, SMT DEF BackUpManifest, BackUpSignature, BackUp, Copies
<1>5. CASE MoveManifest \/ MoveSignature
  BY <1>5, SMT DEF MoveManifest, MoveSignature, Move, AfterMove
<1>6. CASE CheckFinal \/ SaveSequence
  BY <1>6, SMT DEF CheckFinal, Verifies, SaveSequence, AfterSave
<1>7. CASE RestoreManifest \/ RestoreSignature
  <2>1. /\ pc \in {"undo1", "undo2"} /\ pc' \in {"undo2", "done"}
        /\ UNCHANGED <<loaded, candidate, before, result>>
    BY <1>7, Zenon DEF RestoreManifest, RestoreSignature, RestoreFile
  <2>2. QED BY <2>1, SMT
<1>8. CASE Reload \/ Restart
  BY <1>8, SMT DEF Reload, Restart
<1>9. CASE Crash
  <2>1. pc' = "down" /\ UNCHANGED <<loaded, candidate, before, result>>
    BY <1>9, Zenon DEF Crash
  <2>2. QED BY <2>1, SMT
<1>10. CASE UNCHANGED vars
  BY <1>10, SMT DEF vars
<1>11. QED
  BY <1>1, <1>2, <1>3, <1>4, <1>5, <1>6, <1>7, <1>8, <1>9, <1>10 DEF Next, Worker

\* The files hold sequences, and the worker is where it can be, whatever fails.
THEOREM TypeCorrect == Spec => []TypeOK
<1>1. Init => TypeOK
  BY InitIInv DEF IInv, RunInv
<1>2. QED BY <1>1, TypeStep, PTL DEF Spec

\* The reload after an Installed result gives exactly the new manifest: also when the
\* prior pair was taken for none (manifest_install.cpp:133), and after power losses,
\* as long as the floor was read.
THEOREM InstalledIsLoadableHolds ==
  ASSUME "readFloor" \notin Faults PROVE Spec => []InstalledIsLoadable
<1>1. Init => ReportInv
  BY InitIInv, Zenon DEF Init, IInv, RunInv, ReportInv, Installing, UntilMoved
<1>2. ReportInv /\ [Next]_vars => ReportInv'
  BY ReportStep
<1>3. ReportInv => InstalledIsLoadable
  BY DEF ReportInv
<1>4. QED BY <1>1, <1>2, <1>3, PTL DEF Spec

-----------------------------------------------------------------------------
(* The refinement.                                                         *)

\* A load that can read both external pairs gives what is selected.
LEMMA LoadSelects ==
  ASSUME "readLoad" \notin Faults, NEW m \in Outcomes("readLoad"),
         NEW k \in Outcomes("readLoad")
  PROVE  Selection(m, k) = Selected
<1>1. Outcomes("readLoad") = {TRUE}
  BY Zenon DEF Outcomes
<1>2. m = TRUE /\ k = TRUE
  BY <1>1
<1>3. QED BY <1>2

\* The host and its files implement a store whose loads never go back: a step of
\* the worker or a crash is a Store step, a load an Adopt step.
THEOREM MonotoneHolds ==
  ASSUME SteadyReads, {"power", "readLoad"} \cap Faults = {} PROVE Spec => Monotone
<1>0. "power" \notin Faults /\ "readLoad" \notin Faults
  BY Zenon
<1>1. Init => Store!Init
  BY EmbeddedAssumption, SMT DEF Init, Store!Init, FileNames
<1>2. IInv /\ IInv' /\ [Next]_vars => [Store!Next]_(Store!vars)
  <2> SUFFICES ASSUME IInv, IInv', [Next]_vars PROVE [Store!Next]_(Store!vars)
    OBVIOUS
  <2>1. Selected' \in Nat /\ loaded' <= Selected'
    BY EmbeddedAssumption, SMT DEF IInv, RunInv, TypeOK, Ordering, FileNames
  <2>2. CASE UNCHANGED loaded
    BY <2>1, <2>2, SMT DEF Store!Next, Store!Store, IInv, RunInv, TypeOK
  <2>3. CASE loaded' = Selected /\ UNCHANGED files
    <3>1. Selected' = Selected
      BY <2>3, Zenon
    <3>2. QED BY <2>3, <3>1, Zenon DEF Store!Next, Store!Adopt
  <2>4. UNCHANGED loaded \/ (loaded' = Selected /\ UNCHANGED files)
    <3>1. CASE Reload \/ Restart
      BY <1>0, <3>1, LoadSelects, ZenonT(40) DEF Reload, Restart
    <3>2. CASE Worker
      BY <3>2, Zenon
      DEF Worker, Begin, WriteManifest, WriteSignature, FindPrior,
          BackUpManifest, BackUpSignature, BackUp, MoveManifest, MoveSignature,
          Move, CheckFinal, SaveSequence, RestoreManifest, RestoreSignature,
          RestoreFile, FilesOnly
    <3>3. CASE Crash \/ UNCHANGED vars
      BY <3>3, Zenon DEF Crash, vars
    <3>4. QED BY <3>1, <3>2, <3>3 DEF Next
  <2>5. QED BY <2>2, <2>3, <2>4
<1>3. Spec => []IInv
  BY <1>0, InductiveInvariant
<1>4. QED BY <1>1, <1>2, <1>3, PTL DEF Spec, Monotone, Store!Spec
=============================================================================
