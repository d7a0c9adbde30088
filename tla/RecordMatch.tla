------------------------------ MODULE RecordMatch ------------------------------
(***************************************************************************)
(* From a signed manifest to the functions that are patched.  The host     *)
(* parses the manifest (host/manifest_store.cpp), reads the files of the   *)
(* taskbar modules that Explorer has loaded (host/explorer_session.cpp),   *)
(* selects the record that matches and hands the whole manifest over; the  *)
(* payload parses it again, looks for a record that matches the modules in *)
(* memory (payload/manifest_runtime.cpp), and Enable takes its pointers    *)
(* from there.                                                             *)
(*                                                                         *)
(* Between any two of these Explorer may load a module, an update may      *)
(* replace files, and Explorer may restart.  A module that is loaded stays *)
(* as it is: Windows does not write to mapped images, and Explorer does    *)
(* not unload its taskbar.                                                 *)
(***************************************************************************)
EXTENDS PeIdentity

CONSTANTS
    Names,      \* the base names that the host looks for
    Images,     \* what may be in the file of a module
    Disks,      \* the files that may be installed together
    Manifests   \* the manifests that verify

IsSequence(s) == Len(s) \in Nat /\ DOMAIN s = 1..Len(s)

\* The loader maps no section over another.
SectionsApart(image) ==
    \A i, j \in DOMAIN image.sections :
        LET s == image.sections[i]
            u == image.sections[j]
        IN  i < j => s.virtualAddress + MappedSize(s) <= u.virtualAddress

SectionNumbers(s) ==
    /\ s.virtualAddress \in Nat /\ s.virtualSize \in Nat
    /\ s.rawDataSize \in Nat /\ s.rawDataPointer \in Nat

ASSUME DisksAssumption == Disks \subseteq [Names -> Images]
ASSUME ImagesAssumption ==
    \A image \in Images :
        /\ IsSequence(image.sections) /\ IsSequence(image.debug)
        /\ \A i \in DOMAIN image.sections : SectionNumbers(image.sections[i])
        /\ SectionsApart(image)

\* The fields are unsigned: nothing else is known of bytes that come from a file.
RecordNumbers(r) ==
    \A k \in TableKinds : r.offset[k] \in Nat /\ IsSequence(r.table[k])
ASSUME ManifestsAssumption ==
    \A m \in Manifests :
        /\ m.size \in Nat /\ m.recordTableOffset \in Nat /\ IsSequence(m.records)
        /\ \A r \in SeqSet(m.records) :
              /\ RecordNumbers(r)
              /\ \A s \in SeqSet(Symbols(r)) : s.rva \in Nat

VARIABLES
    manifest,   \* ManifestStore::bytes_
    disk,       \* the file of each module
    memory,     \* the modules in Explorer
    scanned,    \* ExplorerInfo::modules: the files the host has read
    chosen,     \* the record that the host selected, 0: none
    resolved,   \* the record behind state.compatibility, 0: none
    backend,    \* what Enable turned on
    pc          \* how far this session has come

vars == <<manifest, disk, memory, scanned, chosen, resolved, backend, pc>>

PCs == {"start", "rejected", "idle", "scanned", "attached", "resolved", "enabled"}
Backends == {"none", "xaml", "classic"}

Init ==
    /\ manifest \in Manifests
    /\ disk \in Disks
    /\ memory = [n \in {} |-> 0] /\ scanned = [n \in {} |-> 0]
    /\ chosen = 0 /\ resolved = 0 /\ backend = "none"
    /\ pc = "start"

Record(i) == manifest.records[i]

-----------------------------------------------------------------------------
(* The host.                                                               *)

Load ==
    /\ pc = "start"
    /\ pc' = IF ParseManifest(manifest) THEN "idle" ELSE "rejected"
    /\ UNCHANGED <<manifest, disk, memory, scanned, chosen, resolved, backend>>

\* The snapshot names the modules in Explorer; what is read is their files.
Scan ==
    /\ pc = "idle" /\ pc' = "scanned"
    /\ scanned' = [n \in {k \in DOMAIN memory : Readable(disk[k])} |-> disk[n]]
    /\ UNCHANGED <<manifest, disk, memory, chosen, resolved, backend>>

Loaded == {FileIdentity(n, scanned[n]) : n \in DOMAIN scanned}

\* ManifestStore::SelectedRecordBlob.
SymbolsInFiles(r) ==
    \A s \in SeqSet(Symbols(r)) :
        ValidateSymbolRva(scanned[Modules(r)[s.moduleIndex].base], s.rva, s.kind)
SelectedFirst ==
    LET i == SelectFirstRecord(manifest, Loaded)
    IN  IF i # 0 /\ SymbolsInFiles(Record(i)) THEN i ELSE 0
SelectedRecord ==
    LET i == SelectExactRecord(manifest, Loaded)
    IN  IF i # 0 /\ SymbolsInFiles(Record(i)) THEN i ELSE 0

\* No record, no hook: App shows Unsupported.
Select ==
    /\ pc = "scanned"
    /\ chosen' = SelectedRecord
    /\ pc' = IF chosen' = 0 THEN "idle" ELSE "attached"
    /\ UNCHANGED <<manifest, disk, memory, scanned, resolved, backend>>

\* PrepareUnload: the compatibility goes with the DLL's data.
Detach ==
    /\ pc \in {"resolved", "enabled"} /\ pc' = "idle"
    /\ resolved' = 0 /\ backend' = "none"
    /\ UNCHANGED <<manifest, disk, memory, scanned, chosen>>

-----------------------------------------------------------------------------
(* The payload.                                                            *)

\* ResolveCompatibility, for one record.
NamesInMemory(r) ==
    \A d \in SeqSet(Modules(r)) : d.base \in DOMAIN memory
ModulesInMemory(r) ==
    \A d \in SeqSet(Modules(r)) :
        /\ d.base \in DOMAIN memory /\ HasMemoryIdentity(memory[d.base])
        /\ ModuleIdentityEqual(MemoryIdentity(d.base, memory[d.base]), d)
SymbolsInMemory(r) ==
    \A s \in SeqSet(Symbols(r)) :
        ValidRva(memory[Modules(r)[s.moduleIndex].base], s.rva, s.kind)
Resolvable(r) ==
    /\ ModulesInMemory(r) /\ SymbolsInMemory(r)
    /\ \A a \in SeqSet(Adjustments(r)) : AdjustmentOK(r, a)

\* The first record that fits: nobody asks whether another one would.
ResolveCompatibility ==
    IF ParseManifest(manifest) THEN First(manifest.records, Resolvable) ELSE 0

Initialize ==
    /\ pc = "attached"
    /\ resolved' = ResolveCompatibility
    /\ pc' = IF resolved' = 0 THEN "idle" ELSE "resolved"
    /\ UNCHANGED <<manifest, disk, memory, scanned, chosen, backend>>

\* The pointers that ConfigureTaskModel, EnableXaml and EnableClassic insist on.
TaskModelReady(r) ==
    /\ {"GetNumItems", "GetTBGroupFromGroup", "GetGroupType", "IndexOfTaskItem",
        "TaskInclusionChanged"} \subseteq Ids(r)
    /\ \A a \in SeqSet(Adjustments(r)) :
          /\ a.objectSize >= PointerSize /\ a.offset % PointerSize = 0
          /\ a.offset <= a.objectSize - PointerSize
XamlReady(r) ==
    /\ Constructors \cap Ids(r) # {}
    /\ {"Thumbnails", "VectorSize", "VectorGetAt", "HandleExtendedUIClick",
        "TargetItemKey", "OnPointerMoved", "UpdateFlyoutPosition",
        "IsTaskAllowed"} \subseteq Ids(r)
    /\ TaskModelReady(r)
ClassicReady(r) ==
    /\ {"GetHoverIndex", "GetTaskItem", "GetTaskGroup", "TaskReordered",
        "WndProc", "IsTaskAllowed"} \subseteq Ids(r)
    /\ Adjustments(r) # <<>> /\ TaskModelReady(r)

\* ProcessCommand, Enable, with detours that can be created.
Enable ==
    /\ pc = "resolved" /\ pc' = "enabled"
    /\ LET r == Record(resolved)
       IN  backend' = IF "xaml" \in r.backendFlags /\ XamlReady(r) THEN "xaml"
                      ELSE IF "classic" \in r.backendFlags /\ ClassicReady(r)
                           THEN "classic" ELSE "none"
    /\ UNCHANGED <<manifest, disk, memory, scanned, chosen, resolved>>

-----------------------------------------------------------------------------
(* Windows and Explorer, once the host has a manifest.                     *)

LoadModule(n) ==
    /\ pc \notin {"start", "rejected"} /\ n \notin DOMAIN memory
    /\ memory' = [k \in DOMAIN memory \cup {n} |-> IF k = n THEN disk[n] ELSE memory[k]]
    /\ UNCHANGED <<manifest, disk, scanned, chosen, resolved, backend, pc>>

ReplaceFiles ==
    /\ pc \notin {"start", "rejected"}
    /\ disk' \in Disks
    /\ UNCHANGED <<manifest, memory, scanned, chosen, resolved, backend, pc>>

ExplorerRestarts ==
    /\ pc \notin {"start", "rejected"} /\ pc' = "idle"
    /\ memory' = [n \in {} |-> 0] /\ resolved' = 0 /\ backend' = "none"
    /\ UNCHANGED <<manifest, disk, scanned, chosen>>

Next ==
    \/ Load \/ Scan \/ Select \/ Initialize \/ Enable \/ Detach
    \/ ReplaceFiles \/ ExplorerRestarts
    \/ \E n \in Names : LoadModule(n)

Spec == Init /\ [][Next]_vars

-----------------------------------------------------------------------------
(* Properties.                                                             *)

TypeOK ==
    /\ disk \in Disks
    /\ DOMAIN memory \subseteq Names /\ DOMAIN scanned \subseteq Names
    /\ \A n \in DOMAIN memory : memory[n] \in Images
    /\ \A n \in DOMAIN scanned : scanned[n] \in Images
    /\ {chosen, resolved} \subseteq {0} \cup DOMAIN manifest.records
    /\ backend \in Backends /\ pc \in PCs
    /\ resolved # 0 <=> pc \in {"resolved", "enabled"}
    /\ backend # "none" => pc = "enabled"

\* In a manifest that the host goes on with, no byte belongs to two tables or to
\* a table and the record table, and no table reaches past the end: what
\* RecordModules, RecordSymbols and RecordAdjustments give out is what was
\* validated (ParseManifest, AddRange).
ByteRange(t) == Begins(manifest, t)..Ends(manifest, t) - 1
TablesDisjoint ==
    pc \notin {"start", "rejected"} =>
        \A t \in Tables(manifest) :
            /\ ByteRange(t) \subseteq FixedEnd(manifest)..manifest.size - 1
            /\ \A u \in Tables(manifest) \ {t} : ByteRange(t) \cap ByteRange(u) = {}

\* Whatever was loaded or replaced since the host looked: the record that the
\* payload uses is one for the modules that Explorer has mapped, and every
\* address in it passes the host's check too, made on the image that is mapped
\* (docs/architecture.md:5).  The two sides read images in different ways.
ResolvedIsExact ==
    resolved # 0 =>
        LET r == Record(resolved)
        IN  /\ \A d \in SeqSet(Modules(r)) :
                  /\ d.base \in DOMAIN memory
                  /\ Readable(memory[d.base]) =>
                        ModuleIdentityEqual(FileIdentity(d.base, memory[d.base]), d)
            /\ \A s \in SeqSet(Symbols(r)) :
                  ValidateSymbolRva(memory[Modules(r)[s.moduleIndex].base], s.rva, s.kind)

\* When the files that the host read are what Explorer has mapped, the payload
\* uses the record that the host chose and shows, though it takes the first one
\* that fits and the host takes the only one.
SameRecord == (resolved # 0 /\ scanned = memory) => resolved = chosen

\* The lists of symbols that ValidateRecord insists on cover the pointers that
\* the backends insist on: a record that parses never makes Enable fall back to
\* the other backend, or fault, for a symbol that is missing.
PreferredBackend(r) == IF "xaml" \in r.backendFlags THEN "xaml" ELSE "classic"
EnableFindsSymbols == pc = "enabled" => backend = PreferredBackend(Record(resolved))
=============================================================================
