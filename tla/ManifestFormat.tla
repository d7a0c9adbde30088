---------------------------- MODULE ManifestFormat ----------------------------
(***************************************************************************)
(* The compatibility manifest as common/manifest.cpp reads it:             *)
(* ParseManifest with AddRange and ValidateRecord, and SelectExactRecord.  *)
(*                                                                         *)
(* A manifest is its header, its size, and its records; a record is what   *)
(* the record table says of it (id, flags, offsets) and the contents of    *)
(* its three tables.  The contents are those of bytes that no other table  *)
(* covers: ParseManifest accepts nothing else (TablesDisjoint of           *)
(* RecordMatch), and rejects before it looks at them.  A module's identity *)
(* is the base name, here the lower case name and whether the entry has    *)
(* capitals, the stamp, the image size, and `pdb` for the GUID and the age *)
(* (0: one of them is zero).  moduleIndex counts from 1.                   *)
(***************************************************************************)
EXTENDS Integers, Sequences, FiniteSets

\* The packed structures of ttr_manifest.h.
HeaderSize       == 32
RecordSize       == 40
MaxManifestBytes == 1024 * 1024
TableKinds       == {"modules", "symbols", "adjustments"}
Width(k) == CASE k = "modules" -> 68 [] k = "symbols" -> 12 [] k = "adjustments" -> 12

\* SymbolId, in the groups that manifest.cpp and the backends use.
Constructors == {"ConstructorV1", "ConstructorV2"}
SharedSymbols ==
    {"GetNumItems", "GetTBGroupFromGroup", "GetGroupType", "IndexOfTaskItem",
     "TaskInclusionChanged", "IsTaskAllowed"}
ClassicSymbols ==
    {"GetHoverIndex", "GetTaskItem", "GetTaskGroup", "TaskReordered", "WndProc"}
XamlSymbols ==
    {"Thumbnails", "VectorSize", "VectorGetAt", "HandleExtendedUIClick",
     "TargetItemKey", "OnPointerMoved", "UpdateFlyoutPosition"}
UnusedSymbols == {"Vtable_ITaskListUI", "Dpa_GetPtr"}
SymbolIds == SharedSymbols \cup ClassicSymbols \cup XamlSymbols
                \cup Constructors \cup UnusedSymbols
SymbolKinds   == {"Function", "ReadOnlyData"}
BackendFlags  == {"classic", "xaml", "animated"}
PointerSize   == 8

-----------------------------------------------------------------------------
(* The layout.                                                             *)

\* CheckedRange: no sum that could overflow.
CheckedRange(offset, size, total) == offset <= total /\ size <= total - offset

HeaderOK(m) ==
    /\ m.size >= HeaderSize /\ m.size <= MaxManifestBytes
    /\ m.magic = "TTRMAN2" /\ m.formatVersion = 2 /\ m.headerSize = HeaderSize
    /\ m.totalSize = m.size /\ Len(m.records) <= 4096
    /\ m.recordTableOffset >= m.headerSize
    /\ CheckedRange(m.recordTableOffset, Len(m.records) * RecordSize, m.size)

FixedEnd(m) == m.recordTableOffset + Len(m.records) * RecordSize

\* The tables of all records, as pairs of a record's index and a kind: a table
\* of symbols or adjustments with no entries has no range.
Entries(m, t) == m.records[t[1]].table[t[2]]
Tables(m) ==
    {t \in (DOMAIN m.records) \X TableKinds :
        t[2] = "modules" \/ Len(Entries(m, t)) > 0}
Begins(m, t) == m.records[t[1]].offset[t[2]]
Bytes(m, t)  == Len(Entries(m, t)) * Width(t[2])
Ends(m, t)   == Begins(m, t) + Bytes(m, t)

FitsLoosely(m, t) ==
    /\ Bytes(m, t) > 0 /\ Begins(m, t) >= FixedEnd(m)
    /\ Begins(m, t) <= m.size
Fits(m, t) ==
    /\ Bytes(m, t) > 0 /\ Begins(m, t) >= FixedEnd(m)
    /\ CheckedRange(Begins(m, t), Bytes(m, t), m.size)

Overlaps(m, t, u) == Begins(m, t) < Ends(m, u) /\ Begins(m, u) < Ends(m, t)

RangesOK(m) ==
    \A t \in Tables(m) :
        Fits(m, t) /\ \A u \in Tables(m) \ {t} : ~Overlaps(m, t, u)

-----------------------------------------------------------------------------
(* A record.                                                               *)

SeqSet(s) == {s[i] : i \in DOMAIN s}
Modules(r)     == r.table["modules"]
Symbols(r)     == r.table["symbols"]
Adjustments(r) == r.table["adjustments"]
Ids(r)         == {s.id : s \in SeqSet(Symbols(r))}

\* No two entries of a table have the same key.
Distinct(s, Key(_)) == \A i, j \in DOMAIN s : Key(s[i]) = Key(s[j]) => i = j

MetadataOK(r) ==
    /\ r.id # 0 /\ r.minimumProtocolVersion = 1
    /\ Len(Modules(r)) \in 1..16 /\ Len(Symbols(r)) <= 128
    /\ Len(Adjustments(r)) <= 8
    /\ r.backendFlags \cap {"classic", "xaml"} # {}
    /\ r.backendFlags \subseteq BackendFlags

IdentityKey(d) == d
ModulesOK(r) ==
    /\ \A d \in SeqSet(Modules(r)) : d.base # "" /\ d.sizeOfImage # 0 /\ d.pdb # 0
    /\ Distinct(Modules(r), IdentityKey)

SymbolOK(r, s) ==
    /\ s.id \in SymbolIds /\ s.moduleIndex \in DOMAIN Modules(r)
    /\ s.rva # 0 /\ s.rva < Modules(r)[s.moduleIndex].sizeOfImage
    /\ s.kind \in SymbolKinds /\ s.required = 1 /\ s.reserved = 0
SymbolKey(s) == s.id
SymbolsOK(r) ==
    /\ \A s \in SeqSet(Symbols(r)) : SymbolOK(r, s)
    /\ Distinct(Symbols(r), SymbolKey)

\* Also what the payload checks again, in ResolveCompatibility.
AdjustmentOK(r, a) ==
    /\ a.id = "TaskListWnd_ITaskListUI" /\ a.moduleIndex \in DOMAIN Modules(r)
    /\ a.required = 1
    /\ a.objectSize >= PointerSize /\ a.objectSize <= 1024 * 1024
    /\ a.offset % PointerSize = 0 /\ a.offset <= a.objectSize - PointerSize
AdjustmentKey(a) == a.id
AdjustmentsOK(r) ==
    /\ \A a \in SeqSet(Adjustments(r)) : AdjustmentOK(r, a)
    /\ Distinct(Adjustments(r), AdjustmentKey)

\* Either constructor will do.
ClassicComplete(r) ==
    SharedSymbols \cup ClassicSymbols \subseteq Ids(r) /\ Adjustments(r) # <<>>
XamlCompleteWithoutShared(r) ==
    XamlSymbols \subseteq Ids(r) /\ Constructors \cap Ids(r) # {}
XamlComplete(r) ==
    SharedSymbols \cup XamlSymbols \subseteq Ids(r) /\ Constructors \cap Ids(r) # {}
BackendsComplete(r) ==
    /\ "classic" \in r.backendFlags => ClassicComplete(r)
    /\ "xaml" \in r.backendFlags => XamlComplete(r)
    /\ "animated" \in r.backendFlags => "xaml" \in r.backendFlags

\* A record names nothing that its backends do not use.
NothingUnused(r) ==
    /\ Ids(r) \subseteq SharedSymbols
          \cup IF "classic" \in r.backendFlags THEN ClassicSymbols ELSE {}
          \cup IF "xaml" \in r.backendFlags THEN XamlSymbols \cup Constructors ELSE {}
    /\ Adjustments(r) # <<>> => "classic" \in r.backendFlags

ValidateRecord(r) ==
    /\ MetadataOK(r) /\ ModulesOK(r) /\ SymbolsOK(r) /\ AdjustmentsOK(r)
    /\ BackendsComplete(r) /\ NothingUnused(r)

-----------------------------------------------------------------------------
(* The manifest.                                                           *)

\* The module sets are compared as bytes, capitals included.
RecordKey(r)    == r.id
ModuleSetKey(r) == SeqSet(Modules(r))

ParseManifest(m) ==
    /\ HeaderOK(m) /\ RangesOK(m)
    /\ \A r \in SeqSet(m.records) : ValidateRecord(r)
    /\ Distinct(m.records, RecordKey) /\ Distinct(m.records, ModuleSetKey)

\* ModuleIdentityEqual: names are compared without case.
ModuleIdentityEqual(a, b) ==
    /\ a.base = b.base /\ a.timeDateStamp = b.timeDateStamp
    /\ a.sizeOfImage = b.sizeOfImage /\ a.pdb = b.pdb

\* The records all of whose modules are among the loaded ones.
Matching(m, loaded) ==
    {i \in DOMAIN m.records :
        \A d \in SeqSet(Modules(m.records[i])) :
            \E actual \in loaded : ModuleIdentityEqual(d, actual)}

\* SelectExactRecord: the index of the only record that matches, 0 if there is
\* none, and if there are several.
SelectFirstRecord(m, loaded) ==
    LET hits == Matching(m, loaded)
    IN  IF hits = {} THEN 0 ELSE CHOOSE i \in hits : \A j \in hits : i <= j
SelectExactRecord(m, loaded) ==
    LET hits == Matching(m, loaded)
    IN  IF Cardinality(hits) = 1 THEN CHOOSE i \in hits : TRUE ELSE 0
=============================================================================
