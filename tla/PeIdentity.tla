------------------------------ MODULE PeIdentity ------------------------------
(***************************************************************************)
(* Two readings of one image.  The host reads the file of a module         *)
(* (common/pe_identity.cpp); the payload reads what the loader mapped      *)
(* (payload/manifest_runtime.cpp).  Each finds the PDB identity in the     *)
(* debug directory and tells whether an address lies in a section of the   *)
(* right kind, and each does it in its own way.                            *)
(*                                                                         *)
(* An image is its file size, SizeOfImage, stamp, sections and debug       *)
(* entries.  The signatures, the machine and the bounds of the headers are *)
(* those of a file that Explorer has loaded.  `pdb` of an entry is the     *)
(* identity its data holds, 0 when they do not begin with RSDS.            *)
(***************************************************************************)
EXTENDS ManifestFormat

Larger(a, b) == IF a > b THEN a ELSE b

\* ValidateSection: the mapped and the raw range are inside image and file.
MappedSize(s) == Larger(s.virtualSize, s.rawDataSize)
ValidateSection(image, s) ==
    /\ MappedSize(s) > 0 => CheckedRange(s.virtualAddress, MappedSize(s), image.sizeOfImage)
    /\ s.rawDataSize > 0 =>
          CheckedRange(s.rawDataPointer, s.rawDataSize, image.fileSize)

\* SectionContainsRva, with requireRaw as `span`.
Contains(s, rva, size, span) ==
    /\ span > 0 /\ s.virtualAddress <= rva
    /\ rva - s.virtualAddress <= span /\ size <= span - (rva - s.virtualAddress)

\* The first index of a sequence whose element satisfies the test, 0: none.
First(s, Test(_)) ==
    LET hits == {i \in DOMAIN s : Test(s[i])}
    IN  IF hits = {} THEN 0 ELSE CHOOSE i \in hits : \A j \in hits : i <= j

-----------------------------------------------------------------------------
(* The host: the file.                                                     *)

\* RvaToFileOffset succeeds and gives `offset`.
MapsTo(image, rva, size, offset) ==
    LET InRaw(s) == Contains(s, rva, size, s.rawDataSize)
        i == First(image.sections, InRaw)
    IN  /\ i # 0
        /\ LET s == image.sections[i]
           IN  /\ offset = s.rawDataPointer + (rva - s.virtualAddress)
               /\ CheckedRange(offset, size, image.fileSize)

\* ParseCodeView: every CodeView entry must be sound, and one of them RSDS.
EntryOK(image, e) ==
    /\ e.sizeOfData >= 24 /\ e.pointerToRawData # 0 /\ e.addressOfRawData # 0
    /\ CheckedRange(e.pointerToRawData, e.sizeOfData, image.fileSize)
    /\ MapsTo(image, e.addressOfRawData, e.sizeOfData, e.pointerToRawData)

CodeView(image) == {i \in DOMAIN image.debug : image.debug[i].type = "CODEVIEW"}
Rsds(image)     == {i \in CodeView(image) : image.debug[i].pdb # 0}

\* ReadPeIdentity succeeds.
Readable(image) ==
    /\ \A i \in DOMAIN image.sections : ValidateSection(image, image.sections[i])
    /\ \A i \in CodeView(image) : EntryOK(image, image.debug[i])
    /\ Cardinality(Rsds(image)) = 1

Identity(name, image, pdb) ==
    [base |-> name, caps |-> FALSE, timeDateStamp |-> image.timeDateStamp,
     sizeOfImage |-> image.sizeOfImage, pdb |-> pdb]

\* RequireCodeViewIdentity.  NarrowBaseName lowers the name.
FileIdentity(name, image) ==
    Identity(name, image, image.debug[CHOOSE i \in Rsds(image) : TRUE].pdb)

\* The section's permissions fit the kind of a symbol.
Permits(s, kind) ==
    s.read /\ IF kind = "Function" THEN s.execute ELSE ~s.write

\* ValidateRva: the first section that contains the address decides.
ValidateSymbolRva(image, rva, kind) ==
    LET Covers(s) == Contains(s, rva, 1, MappedSize(s))
        i == First(image.sections, Covers)
    IN  /\ rva # 0 /\ rva < image.sizeOfImage
        /\ i # 0 /\ Permits(image.sections[i], kind)

-----------------------------------------------------------------------------
(* The payload: memory.                                                    *)

\* What the debug entry's address holds once the image is mapped: the data of
\* the entry when the file maps them there, something else otherwise.
InMemory(image, e) ==
    IF MapsTo(image, e.addressOfRawData, e.sizeOfData, e.pointerToRawData)
    THEN e.pdb ELSE 0

\* IdentityFromMemory: the first RSDS entry within the image, 0: none.
FirstRsds(image) ==
    LET Usable(e) ==
            /\ e.type = "CODEVIEW" /\ e.sizeOfData >= 24
            /\ e.addressOfRawData < image.sizeOfImage
            /\ e.sizeOfData <= image.sizeOfImage - e.addressOfRawData
            /\ InMemory(image, e) # 0
    IN  First(image.debug, Usable)
HasMemoryIdentity(image) == FirstRsds(image) # 0
MemoryIdentity(name, image) == Identity(name, image, image.debug[FirstRsds(image)].pdb)

\* ValidRva: within what is mapped of the section, not what is in the file.
ValidRva(image, rva, kind) ==
    LET Covers(s) == s.virtualAddress <= rva /\ rva - s.virtualAddress < s.virtualSize
        i == First(image.sections, Covers)
    IN  i # 0 /\ Permits(image.sections[i], kind)
=============================================================================
