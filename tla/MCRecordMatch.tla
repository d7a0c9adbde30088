----------------------------- MODULE MCRecordMatch -----------------------------
(***************************************************************************)
(* RecordMatch for TLC: two modules, a handful of images that the two      *)
(* readers might see differently, and manifests in three families: table   *)
(* offsets around their limits, symbols missing or superfluous, and pairs  *)
(* of records for modules that may be loaded together.                     *)
(***************************************************************************)
EXTENDS RecordMatch

MCNames == {"taskbar.dll", "taskbar.view.dll"}

-----------------------------------------------------------------------------
(* Images: code, read-only data with the debug data, and data.             *)

Section(va, vs, raw, ptr, x, w) ==
    [virtualAddress |-> va, virtualSize |-> vs, rawDataSize |-> raw,
     rawDataPointer |-> ptr, read |-> TRUE, execute |-> x, write |-> w]
Text == Section(4096, 100, 512, 1024, TRUE, FALSE)
Rdata == Section(8192, 600, 1024, 1536, FALSE, FALSE)
Data == Section(12288, 64, 0, 0, FALSE, TRUE)

Debug(size, va, ptr, pdb) ==
    [type |-> "CODEVIEW", sizeOfData |-> size, addressOfRawData |-> va,
     pointerToRawData |-> ptr, pdb |-> pdb]
Pdb(p)    == Debug(64, 8292, 1636, p)
OldFormat == Debug(24, 8392, 1736, 0)
Short     == Debug(16, 8392, 1736, 0)
Astray    == Debug(64, 8292, 1640, 1)

Image(text, debug) ==
    [fileSize |-> 2560, sizeOfImage |-> 16384, timeDateStamp |-> 1,
     sections |-> <<text, Rdata, Data>>, debug |-> debug]

Plain == Image(Text, <<Pdb(1)>>)
MCImages ==
    {Plain, Image(Text, <<OldFormat, Pdb(2)>>),
     Image(Text, <<Short, Pdb(1)>>), Image(Text, <<Astray>>),
     Image(Text, <<Pdb(1), Debug(64, 8456, 1800, 2)>>),
     Image([Text EXCEPT !.execute = FALSE], <<Pdb(1)>>)}

\* The view has one file, or one that neither side can read.
MCDisks ==
    {[n \in MCNames |-> IF n = "taskbar.dll" THEN image ELSE Plain] : image \in MCImages}
        \cup {[n \in MCNames |->
                 IF n = "taskbar.dll" THEN Plain ELSE Image(Text, <<Astray>>)]}

-----------------------------------------------------------------------------
(* Records.                                                                *)

Id(n, caps, p) ==
    [base |-> n, caps |-> caps, timeDateStamp |-> 1, sizeOfImage |-> 16384, pdb |-> p]
Taskbar(p) == Id("taskbar.dll", FALSE, p)
View(p)    == Id("taskbar.view.dll", FALSE, p)

\* The symbols of a set in the order of ttr_symbol_ids.h; the first one has the
\* given address and kind, the others are functions in Text.
IdOrder ==
    <<"Vtable_ITaskListUI", "GetHoverIndex", "GetTaskItem", "GetTaskGroup",
      "TaskReordered", "WndProc", "GetNumItems", "GetTBGroupFromGroup",
      "GetGroupType", "IndexOfTaskItem", "TaskInclusionChanged", "IsTaskAllowed",
      "ConstructorV1", "ConstructorV2", "Thumbnails", "VectorSize", "VectorGetAt",
      "HandleExtendedUIClick", "TargetItemKey", "OnPointerMoved",
      "UpdateFlyoutPosition", "Dpa_GetPtr">>
SymbolTable(ids, module, rva, kind) ==
    LET In(id) == id \in ids
        list   == SelectSeq(IdOrder, In)
    IN  [i \in DOMAIN list |->
            [id |-> list[i], moduleIndex |-> module, required |-> 1, reserved |-> 0,
             rva |-> IF i = 1 THEN rva ELSE 4100,
             kind |-> IF i = 1 THEN kind ELSE "Function"]]

Adjustment ==
    [id |-> "TaskListWnd_ITaskListUI", moduleIndex |-> 1, required |-> 1,
     offset |-> 8, objectSize |-> 64]

MCRecord(id, flags, modules, symbols, adjustments) ==
    [id |-> id, minimumProtocolVersion |-> 1, backendFlags |-> flags,
     table |-> [modules |-> modules, symbols |-> symbols, adjustments |-> adjustments]]

\* The tables one after the other, as manifestc writes them.
TableOrder == <<"modules", "symbols", "adjustments">>
Manifest(records) ==
    LET fixed == HeaderSize + RecordSize * Len(records)
        Start[n \in 0..3 * Len(records)] ==
            IF n = 0 THEN fixed
            ELSE LET k == TableOrder[((n - 1) % 3) + 1]
                 IN  Start[n - 1] + Len(records[((n - 1) \div 3) + 1].table[k]) * Width(k)
        Offset(i, k) == Start[3 * (i - 1) + (CHOOSE j \in 1..3 : TableOrder[j] = k) - 1]
        total == Start[3 * Len(records)]
    IN  [magic |-> "TTRMAN2", formatVersion |-> 2, headerSize |-> HeaderSize,
         size |-> total, totalSize |-> total, recordTableOffset |-> HeaderSize,
         records |-> [i \in DOMAIN records |->
            [f \in DOMAIN records[i] \cup {"offset"} |->
                IF f = "offset" THEN [k \in TableKinds |-> Offset(i, k)]
                ELSE records[i][f]]]]

-----------------------------------------------------------------------------
(* Manifests.                                                              *)

Needed(flags) ==
    SharedSymbols
        \cup IF "classic" \in flags THEN ClassicSymbols ELSE {}
        \cup IF "xaml" \in flags THEN XamlSymbols \cup {"ConstructorV2"} ELSE {}
Adjusted(flags) == IF "classic" \in flags THEN <<Adjustment>> ELSE <<>>
Simple(id, modules, rva) ==
    MCRecord(id, {"xaml"}, modules, SymbolTable(Needed({"xaml"}), 1, rva, "Function"), <<>>)

\* One symbol missing, one too many, or both; with and without the adjustment.
SymbolSets ==
    {Manifest(<<MCRecord(1, flags, <<Taskbar(1)>>,
                         SymbolTable((Needed(flags) \ out) \cup in, 1, 4100, "Function"),
                         adjustments)>>) :
        flags \in (SUBSET BackendFlags) \ {{}},
        out \in {{}} \cup {{id} : id \in SymbolIds},
        in \in {{}, {"ConstructorV1"}, {"WndProc"}, {"Thumbnails"}, {"Dpa_GetPtr"}},
        adjustments \in {<<>>, <<Adjustment>>}}

\* One address: in the code, at its end, in the padding that only the file has,
\* in the read-only data, in the data, and nowhere.
Addresses ==
    {Manifest(<<MCRecord(1, {"xaml"}, <<Taskbar(1)>>,
                         SymbolTable(Needed({"xaml"}), 1, rva, kind), <<>>)>>) :
        rva \in {4096, 4195, 4196, 8200, 12288, 16383}, kind \in SymbolKinds}

\* Two records whose modules are the same, differ in a version or in capitals,
\* or are a part of the other's; ids may be the same.
ModuleLists ==
    {<<Taskbar(1)>>, <<Taskbar(2)>>, <<Id("taskbar.dll", TRUE, 1)>>,
     <<Taskbar(1), View(1)>>, <<View(1)>>}
Pairs ==
    {Manifest(<<Simple(1, a, rva), Simple(id, b, 4100)>>) :
        a \in ModuleLists, b \in ModuleLists, id \in {1, 2}, rva \in {4100, 4196}}

\* Two records, each with a table of modules and one of symbols, at offsets
\* around the ones that fit, in a file of the right size or one byte off.
Two == Manifest(<<Simple(1, <<Taskbar(1)>>, 4100), Simple(2, <<Taskbar(2)>>, 4100)>>)
Spots ==
    {o + d : o \in {Two.records[i].offset[k] : i \in 1..2, k \in {"modules", "symbols"}},
             d \in {-1, 0, 1}}
Layouts ==
    {[Two EXCEPT !.size = @ + s, !.totalSize = @ + t,
                 !.records[1].offset.modules = o1, !.records[1].offset.symbols = o2,
                 !.records[2].offset.modules = o3, !.records[2].offset.symbols = o4] :
        s \in {-1, 0}, t \in {-1, 0}, o1 \in Spots, o2 \in Spots,
        o3 \in {Two.records[1].offset.modules, Two.records[2].offset.modules},
        o4 \in {Two.records[1].offset.symbols, Two.records[2].offset.symbols}}

MCManifests == SymbolSets \cup Addresses \cup Pairs \cup Layouts
=============================================================================
