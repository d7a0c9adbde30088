--------------------------- MODULE ManifestInstall ---------------------------
(***************************************************************************)
(* The compatibility update: InstallSignedManifestPair                     *)
(* (common/manifest_install.cpp) run by the host's update worker           *)
(* (host/manifest_update.cpp), the selection made by every load            *)
(* (common/manifest_selection.cpp, host/manifest_store.cpp), and the       *)
(* reload in App::HandleMessage (host/app.cpp).                            *)
(*                                                                         *)
(* A file is the sequence of the signed manifest its bytes belong to, and  *)
(* 0 when it is absent, torn or not readable as one: the code treats those *)
(* alike.  A manifest and a signature verify together exactly when they    *)
(* come from the same release.                                             *)
(*                                                                         *)
(* Covered: each file operation as a step, its failure, a crash of the     *)
(* host at any point with the file in progress torn, restarts, and, when   *)
(* Faults says so, transient read failures and power losses that take the  *)
(* copies that were never flushed.                                         *)
(*                                                                         *)
(* Not covered: a key change, a host upgrade that changes the embedded     *)
(* manifest, and other programs that write the files.                      *)
(***************************************************************************)
EXTENDS Naturals

CONSTANTS
    Embedded,      \* sequence of the manifest inside the executable; 0: none
    MaxSequence,   \* bound: the newest release the endpoint can offer
    Faults         \* which operations may fail

\* Reads of the files: to find the floor, the prior pair, to check the result,
\* and to load.
FaultKinds == {"write", "copy", "move", "delete", "save", "power",
               "readFloor", "readPrior", "readFinal", "readLoad"}

ASSUME EmbeddedAssumption    == Embedded \in Nat
ASSUME MaxSequenceAssumption == MaxSequence \in Nat
ASSUME FaultsAssumption      == Faults \subseteq FaultKinds

\* An update can read what is there: that there is a pair, when it looks for the floor,
\* and when it looks for the prior pair.
SteadyReads == {"readFloor", "readPrior"} \cap Faults = {}

VARIABLES
    files,      \* contents of the six files in %LOCALAPPDATA%\...\compat
    unflushed,  \* files written by CopyFileW and not yet on the disk
    registry,   \* the ManifestSequence value
    loaded,     \* ManifestStore::sequence_ of the host (or of the last one)
    pc,         \* where the update worker is; "down": no host runs
    candidate,  \* sequence of the downloaded pair
    hadPrior,   \* the local of InstallSignedManifestPair
    result,     \* its ManifestInstallResult
    before,     \* history: what a load would have selected before the update
    restored    \* history: every step of Restore succeeded

vars == <<files, unflushed, registry, loaded, pc, candidate, hadPrior, result,
          before, restored>>

FileNames == {"bin", "sig", "binBak", "sigBak", "binNew", "sigNew"}
PCs == {"idle", "new1", "new2", "prior", "bak1", "bak2", "move1", "move2",
        "check", "save", "undo1", "undo2", "done", "down"}
Results == {"Installed", "InvalidSignature", "NotNewer", "IoFailure",
            "SequenceSaveFailure"}

TypeOK ==
    /\ files \in [FileNames -> Nat] /\ unflushed \subseteq FileNames
    /\ registry \in Nat /\ loaded \in Nat /\ pc \in PCs /\ candidate \in Nat
    /\ hadPrior \in BOOLEAN /\ result \in Results
    /\ before \in Nat /\ restored \in BOOLEAN

\* How an operation of kind k may turn out.
Outcomes(k) == IF k \in Faults THEN BOOLEAN ELSE {TRUE}

\* ValidPair: the sequence of a pair that verifies, 0 otherwise.
PairSequence(b, s) == IF b = s THEN b ELSE 0
Newer(a, b)        == IF b > a THEN b ELSE a
Main               == PairSequence(files["bin"], files["sig"])
Backup             == PairSequence(files["binBak"], files["sigBak"])

\* SelectSignedManifest: a later candidate only when strictly newer.  The
\* arguments tell which of the external pairs could be read.
Seen(ok, s)            == IF ok THEN s ELSE 0
SelectionMainOnly(m, b) == Newer(Embedded, Seen(m, Main))
Selection(m, b) == Newer(Newer(Embedded, Seen(m, Main)), Seen(b, Backup))
Selected == Selection(TRUE, TRUE)

Init ==
    /\ files = [f \in FileNames |-> 0] /\ unflushed = {}
    /\ registry = 0 /\ loaded = Embedded
    /\ pc = "idle" /\ candidate = 0 /\ hadPrior = FALSE
    /\ result = "NotNewer" /\ before = Embedded /\ restored = TRUE

-----------------------------------------------------------------------------
(* The update worker.                                                      *)

Goto(l)    == pc' = l /\ UNCHANGED result
Return(r)  == pc' = "done" /\ result' = r
Abandon(r) == pc' = "undo1" /\ result' = r
FilesOnly  == UNCHANGED <<registry, loaded, candidate, before>>

\* RunCompatibilityUpdate and the checks of InstallSignedManifestPair before it
\* touches a file.  The two downloads are two requests: the endpoint may publish
\* a release between them.
Floor(m, b) == Newer(Newer(Newer(loaded, registry), Seen(m, Main)), Seen(b, Backup))
IsNewerOrSame(s, floor) == s >= floor
IsNewer(s, floor) == s > floor

Begin ==
    /\ pc = "idle"
    /\ \E b, s \in 1..MaxSequence, m, k \in Outcomes("readFloor") :
          /\ candidate' = b
          /\ IF b # s THEN Return("InvalidSignature")
             ELSE IF ~IsNewer(b, Floor(m, k)) THEN Return("NotNewer")
             ELSE Goto("new1")
    /\ before' = Selected /\ restored' = TRUE
    /\ UNCHANGED <<files, unflushed, registry, loaded, hadPrior>>

\* WriteFully(manifestNew): flushed.  Old .new files are deleted first; they
\* are written in full before they are read, so whether a delete of one works
\* makes no difference.
WriteManifest ==
    /\ pc = "new1"
    /\ \E ok \in Outcomes("write") :
          /\ files' = [files EXCEPT !["binNew"] = IF ok THEN candidate ELSE 0,
                                    !["sigNew"] = 0]
          /\ IF ok THEN Goto("new2") ELSE Return("IoFailure")
    /\ UNCHANGED <<unflushed, hadPrior, restored>> /\ FilesOnly

WriteSignature ==
    /\ pc = "new2"
    /\ \E ok \in Outcomes("write") :
          /\ files' = [files EXCEPT !["sigNew"] = IF ok THEN candidate ELSE 0,
                                    !["binNew"] = IF ok THEN @ ELSE 0]
          /\ IF ok THEN Goto("prior") ELSE Return("IoFailure")
    /\ UNCHANGED <<unflushed, hadPrior, restored>> /\ FilesOnly

\* A prior pair is one that verifies, not one that merely exists.
IsPriorExisting == files["bin"] > 0
IsPrior == Main > 0

FindPrior ==
    /\ pc = "prior"
    /\ \E ok \in Outcomes("readPrior") : hadPrior' = (ok /\ IsPrior)
    /\ Goto(IF hadPrior' THEN "bak1" ELSE "move1")
    /\ UNCHANGED <<files, unflushed, restored>> /\ FilesOnly

\* CopyFileW(from, to): one that fails leaves `to` as it was, or truncated.
Copies(from, to, ok) ==
    /\ \E v \in IF ok THEN {files[from]} ELSE {files[to], 0} :
          files' = [files EXCEPT ![to] = v]
    /\ unflushed' = unflushed \cup {to}

BackUp(l, from, to, next) ==
    /\ pc = l
    /\ \E ok \in Outcomes("copy") :
          /\ Copies(from, to, ok)
          /\ IF ok THEN Goto(next) ELSE Return("IoFailure")
    /\ UNCHANGED <<hadPrior, restored>> /\ FilesOnly

BackUpManifest  == BackUp("bak1", "bin", "binBak", "bak2")
BackUpSignature == BackUp("bak2", "sig", "sigBak", "move1")

\* MoveFileExW(REPLACE_EXISTING | WRITE_THROUGH) is atomic; write-through.  A
\* move that fails goes to Restore.
AfterMove(ok, next) == IF ok THEN Goto(next) ELSE Abandon("IoFailure")

Move(l, from, to, next) ==
    /\ pc = l
    /\ \E ok \in Outcomes("move") :
          /\ files' = IF ok THEN [files EXCEPT ![to] = files[from], ![from] = 0]
                      ELSE files
          /\ unflushed' = IF ok THEN unflushed \ {to} ELSE unflushed
          /\ AfterMove(ok, next)
    /\ UNCHANGED <<hadPrior, restored>> /\ FilesOnly

MoveManifest  == Move("move1", "binNew", "bin", "move2")
MoveSignature == Move("move2", "sigNew", "sig", "check")

\* The pair is read back from its final place.
Verifies(ok) == ok /\ Main = candidate

CheckFinal ==
    /\ pc = "check"
    /\ \E ok \in Outcomes("readFinal") :
          IF Verifies(ok) THEN Goto("save") ELSE Abandon("IoFailure")
    /\ UNCHANGED <<files, unflushed, hadPrior, restored>> /\ FilesOnly

\* saveSequence: the registry records the new floor, or the pair is taken back.
AfterSaveKeeping(ok) ==
    IF ok THEN Return("Installed") ELSE Return("SequenceSaveFailure")
AfterSave(ok) ==
    IF ok THEN Return("Installed") ELSE Abandon("SequenceSaveFailure")

SaveSequence ==
    /\ pc = "save"
    /\ \E ok \in Outcomes("save") :
          /\ registry' = IF ok THEN candidate ELSE registry
          /\ AfterSave(ok)
    /\ UNCHANGED <<files, unflushed, loaded, candidate, hadPrior, before, restored>>

\* Restore: nobody looks at what its two operations return.
RestoreFile(l, from, to, next) ==
    /\ pc = l /\ Goto(next)
    /\ \E ok \in Outcomes(IF hadPrior THEN "copy" ELSE "delete") :
          /\ IF hadPrior THEN Copies(from, to, ok)
             ELSE /\ files' = [files EXCEPT ![to] = IF ok THEN 0 ELSE @]
                  /\ UNCHANGED unflushed
          /\ restored' = (restored /\ ok)
    /\ UNCHANGED hadPrior /\ FilesOnly

RestoreManifest  == RestoreFile("undo1", "binBak", "bin", "undo2")
RestoreSignature == RestoreFile("undo2", "sigBak", "sig", "done")

-----------------------------------------------------------------------------
(* The host.                                                               *)

\* WM_APP + 3: the worker's message arrives and the manifest is loaded again,
\* or the session is ending and the message is dropped (`heed` FALSE).
Reload ==
    /\ pc = "done" /\ pc' = "idle"
    /\ \E heed \in BOOLEAN, m, k \in Outcomes("readLoad") :
          loaded' = IF heed /\ result = "Installed" THEN Selection(m, k) ELSE loaded
    /\ UNCHANGED <<files, unflushed, registry, candidate, hadPrior, result,
                   before, restored>>

\* The file a write or a copy is in the middle of.
InProgress ==
    {f \in FileNames : \/ pc = "new1" /\ f = "binNew"
                       \/ pc = "new2" /\ f = "sigNew"
                       \/ pc = "bak1" /\ f = "binBak"
                       \/ pc = "bak2" /\ f = "sigBak"
                       \/ pc = "undo1" /\ hadPrior /\ f = "bin"
                       \/ pc = "undo2" /\ hadPrior /\ f = "sig"}

\* The host process ends, in an orderly way or not, perhaps with the machine.
Crash ==
    /\ pc # "down" /\ pc' = "down"
    /\ \E powerLoss \in IF "power" \in Faults THEN BOOLEAN ELSE {FALSE} :
          /\ \E torn \in SUBSET (InProgress \cup IF powerLoss THEN unflushed ELSE {}) :
                files' = [f \in FileNames |-> IF f \in torn THEN 0 ELSE files[f]]
          /\ unflushed' = IF powerLoss THEN {} ELSE unflushed
    /\ UNCHANGED <<registry, loaded, candidate, hadPrior, result, before, restored>>

\* A new host: ManifestStore::Load in App::Run.
Restart ==
    /\ pc = "down" /\ pc' = "idle"
    /\ \E m, k \in Outcomes("readLoad") : loaded' = Selection(m, k)
    /\ UNCHANGED <<files, unflushed, registry, candidate, hadPrior, result,
                   before, restored>>

Worker == \/ Begin \/ WriteManifest \/ WriteSignature \/ FindPrior
          \/ BackUpManifest \/ BackUpSignature \/ MoveManifest \/ MoveSignature
          \/ CheckFinal \/ SaveSequence \/ RestoreManifest \/ RestoreSignature

Next == Worker \/ Reload \/ Crash \/ Restart
Spec == Init /\ [][Next]_vars

-----------------------------------------------------------------------------
(* Properties.                                                             *)

\* Whatever fails or crashes, the files never select an older manifest than the
\* one the host has loaded, so no restart goes back to an older rule set
\* (SelectSignedManifest over what InstallSignedManifestPair leaves behind).
NeverBelowLoaded == Selected >= loaded

\* The registry never records a release that the files no longer hold: if it
\* did, the update that would bring it back would be refused as not newer.
RegistryBacked == registry <= Selected

\* An update is atomic to a reader: at every point, during the update and after
\* whatever ended or interrupted it, a load gives the manifest from before it or
\* the new one (README.md:13).
AtomicInstall == Selected \in {before, candidate}

\* An update that reports a failure, and whose Restore went through, has left
\* the selection as it was (docs/compatibility-workflow.md:26).
FailureRestoresPrior ==
    pc = "done" /\ result \in {"IoFailure", "SequenceSaveFailure"} /\ restored
        => Selected = before

\* When the worker reports Installed, the reload that follows gives exactly the
\* new manifest and a strictly newer one, so App never shows Faulted for it.
InstalledIsLoadable ==
    pc = "done" /\ result = "Installed" => Selected = candidate /\ candidate > loaded

\* Why all of these hold, as an inductive invariant.  The prior pair stays
\* readable somewhere at every step: in its place until both backup copies are
\* made, in the backup from then on.
UntilMoved == {"new1", "new2", "prior", "bak1", "bak2", "move1"}
FromMoved  == {"move2", "check", "save", "undo1", "undo2"}

\* A valid backup is never newer than a valid main pair.
BackupIsOlder == Main > 0 => Backup <= Main

\* What an update offers is newer than what is in use and in the files.
Offer ==
    /\ Embedded <= loaded
    /\ pc \in UntilMoved \cup FromMoved => loaded < candidate /\ before < candidate

StagedPair ==
    /\ pc \in {"new2", "prior", "bak1", "bak2", "move1"} => files["binNew"] = candidate
    /\ pc \in {"prior", "bak1", "bak2", "move1", "move2"} => files["sigNew"] = candidate

PriorInPlace ==
    /\ pc \in UntilMoved => Selected = before
    /\ pc \in {"bak1", "bak2"} => hadPrior /\ Main > 0
    /\ pc = "bak2" => files["binBak"] = files["bin"]
    /\ pc = "move1" /\ hadPrior => Main > 0 /\ Backup = Main
    /\ pc = "move1" /\ ~hadPrior => Main = 0

PriorInBackup ==
    /\ pc \in FromMoved => /\ Newer(Embedded, Backup) = before
                           /\ hadPrior => Backup > 0
                           /\ ~hadPrior => Main \in {0, candidate}
    /\ pc \in FromMoved /\ hadPrior =>
          /\ files["bin"] \in {candidate, Backup, 0}
          /\ files["sig"] \in {candidate, Backup, 0}
    /\ pc \in {"move2", "check", "save"} => files["bin"] = candidate
    /\ pc \in {"check", "save"} => files["sig"] = candidate
    /\ pc \in {"undo1", "undo2"} => result # "Installed"
    /\ pc = "undo2" /\ restored => files["bin"] = IF hadPrior THEN Backup ELSE 0

\* One update, wherever the one before it was interrupted.
RunInv ==
    /\ TypeOK /\ BackupIsOlder /\ Offer /\ StagedPair /\ PriorInPlace
    /\ PriorInBackup /\ FailureRestoresPrior /\ InstalledIsLoadable

\* What becomes of an offer, also when the prior pair is taken for none: no backup is
\* newer than it, and what is reported has been read back.
Installing == UntilMoved \cup {"move2", "check", "save"}

ReportInv ==
    /\ TypeOK /\ Offer /\ InstalledIsLoadable
    /\ pc \in Installing => Backup <= candidate
    /\ pc \in UntilMoved => Main <= candidate
    /\ pc \in {"bak1", "bak2"} => Main > 0
    /\ pc = "save" => Main = candidate
    /\ pc \in {"undo1", "undo2"} => result # "Installed"

\* What is in use and what was recorded is in the files, from update to update; not
\* with power losses.
Ordering ==
    /\ loaded <= Selected /\ registry <= Selected
    /\ Selected \in {before, candidate}
    /\ pc \in UntilMoved \cup FromMoved => loaded <= before /\ registry <= before

IInv == RunInv /\ Ordering

\* The files and the host together are a MonotoneStore.
Store == INSTANCE MonotoneStore WITH inUse <- loaded, durable <- Selected
Monotone == Store!Spec
=============================================================================
