--------------------------- MODULE RecordMatchProofs ---------------------------
(***************************************************************************)
(* What RecordMatch promises, for every set of images and manifests: the   *)
(* tables of a manifest that parses are apart, and what the payload        *)
(* resolves is what is mapped, in the host's eyes too.                     *)
(***************************************************************************)
EXTENDS RecordMatch, FiniteSetTheorems, WellFoundedInduction, TLAPS

-----------------------------------------------------------------------------
(* Sequences that are searched from the front.                             *)

\* A set of naturals that is not empty has a least element.
LEMMA LeastExists ==
    ASSUME NEW S \in SUBSET Nat, S # {}
    PROVE  \E i \in S : \A j \in S : i <= j
<1> DEFINE R == {ss \in Nat \X Nat : ss[1] < ss[2]}
<1>1. IsWellFoundedOn(R, Nat)
    BY NatLessThanWellFounded DEF OpToRel
<1>2. \E i \in S : \A j \in S : ~(<<j, i>> \in R)
    BY <1>1, WFMin
<1>3. PICK i \in S : \A j \in S : ~(<<j, i>> \in R)
    BY <1>2
<1>4. \A j \in S : i <= j
    <2> TAKE j \in S
    <2>1. <<j, i>> \in Nat \X Nat
        OBVIOUS
    <2>2. <<j, i>> \in R <=> j < i
        BY <2>1
    <2> QED
        BY <1>3, <2>2
<1> QED
    BY <1>4

\* First gives an index of the sequence that passes the test and has no index
\* before it that does; it is used with the test's extension as a set.
LEMMA LeastChosen ==
    ASSUME NEW s, IsSequence(s), NEW H \in SUBSET DOMAIN s, H # {}
    PROVE  /\ (CHOOSE i \in H : \A j \in H : i <= j) \in H
           /\ \A j \in H : (CHOOSE i \in H : \A k \in H : i <= k) <= j
<1>1. H \in SUBSET Nat
    BY DEF IsSequence
<1>2. \E i \in H : \A j \in H : i <= j
    BY <1>1, LeastExists
<1> QED
    BY <1>2

\* 0 is no index.
LEMMA ZeroNoIndex ==
    ASSUME NEW s, IsSequence(s)
    PROVE  0 \notin DOMAIN s
    BY DEF IsSequence

LEMMA FiniteIndices ==
    ASSUME NEW s, IsSequence(s), NEW S \in SUBSET DOMAIN s
    PROVE  IsFiniteSet(S)
<1>1. IsFiniteSet(1..Len(s))
    BY FS_Interval DEF IsSequence
<1> QED
    BY <1>1, FS_Subset DEF IsSequence

-----------------------------------------------------------------------------
(* Two readings of one image.                                              *)

\* An address lies in one section only, with whatever of it is in the file: the
\* section that ValidRva finds is the one that ValidateSymbolRva finds.
LEMMA SectionsAgree ==
    ASSUME NEW image \in Images, NEW rva \in Nat, NEW kind,
           rva # 0, rva < image.sizeOfImage, ValidRva(image, rva, kind)
    PROVE  ValidateSymbolRva(image, rva, kind)
<1> DEFINE S == image.sections
           P == {i \in DOMAIN S :
                    S[i].virtualAddress <= rva
                    /\ rva - S[i].virtualAddress < S[i].virtualSize}
           H == {i \in DOMAIN S : Contains(S[i], rva, 1, MappedSize(S[i]))}
           p == CHOOSE i \in P : \A j \in P : i <= j
           h == CHOOSE i \in H : \A j \in H : i <= j
<1>1. IsSequence(S) /\ \A i \in DOMAIN S : SectionNumbers(S[i])
    BY ImagesAssumption
<1>2. P # {} /\ Permits(S[p], kind)
    BY <1>1, ZeroNoIndex DEF ValidRva, First
<1>3. p \in P
    BY <1>1, <1>2, LeastChosen
<1>4. \A i \in P : i \in H
    BY <1>1 DEF Contains, MappedSize, Larger, SectionNumbers
<1>5. h \in H
    BY <1>1, <1>3, <1>4, LeastChosen
<1>6. ASSUME NEW i \in H, NEW j \in H PROVE ~(i < j)
    <2>1. i < j => S[i].virtualAddress + MappedSize(S[i]) <= S[j].virtualAddress
        BY ImagesAssumption DEF SectionsApart
    <2>2. rva < S[i].virtualAddress + MappedSize(S[i])
        BY <1>1, <1>6 DEF Contains, MappedSize, Larger, SectionNumbers
    <2>3. S[j].virtualAddress <= rva
        BY <1>6 DEF Contains
    <2> QED
        BY <1>1, <2>1, <2>2, <2>3 DEF MappedSize, Larger, SectionNumbers
<1>7. h = p
    <2> HIDE DEF h, p
    <2>1. p \in H /\ h \in H
        BY <1>3, <1>4, <1>5
    <2>2. p \in Nat /\ h \in Nat
        BY <1>1, <2>1 DEF IsSequence
    <2>3. ~(p < h) /\ ~(h < p)
        BY <1>6, <2>1
    <2> QED
        BY <2>2, <2>3
<1>8. h # 0
    BY <1>1, <1>5, ZeroNoIndex
<1> QED
    BY <1>2, <1>4, <1>3, <1>7, <1>8 DEF ValidateSymbolRva, First

\* A file that the host can read has one RSDS entry, and it is the one that the
\* payload finds in memory.
LEMMA IdentitiesAgree ==
    ASSUME NEW image \in Images, Readable(image), HasMemoryIdentity(image), NEW n
    PROVE  FileIdentity(n, image) = MemoryIdentity(n, image)
<1> DEFINE D == image.debug
           H == {i \in DOMAIN D :
                    /\ D[i].type = "CODEVIEW" /\ D[i].sizeOfData >= 24
                    /\ D[i].addressOfRawData < image.sizeOfImage
                    /\ D[i].sizeOfData <= image.sizeOfImage - D[i].addressOfRawData
                    /\ InMemory(image, D[i]) # 0}
           h == CHOOSE i \in H : \A j \in H : i <= j
<1>1. IsSequence(D)
    BY ImagesAssumption
<1>2. FirstRsds(image) = IF H = {} THEN 0 ELSE h
    BY DEF FirstRsds, First
<1>3. H # {} /\ FirstRsds(image) = h
    BY <1>2 DEF HasMemoryIdentity
<1>4. h \in H
    BY <1>1, <1>3, LeastChosen
<1>5. h \in Rsds(image)
    BY <1>4 DEF InMemory, Rsds, CodeView
<1>6. IsFiniteSet(Rsds(image))
    BY <1>1, FiniteIndices DEF Rsds, CodeView
<1>7. \E i : Rsds(image) = {i}
    BY <1>6, FS_Singleton DEF Readable
<1>8. (CHOOSE i \in Rsds(image) : TRUE) = h
    BY <1>5, <1>7
<1> QED
    BY <1>3, <1>8 DEF FileIdentity, MemoryIdentity
-----------------------------------------------------------------------------
(* The two choices.                                                        *)

\* The host's choice is the only match.
LEMMA OnlyMatch ==
    ASSUME manifest \in Manifests, NEW loaded,
           SelectExactRecord(manifest, loaded) # 0
    PROVE  /\ Matching(manifest, loaded) = {SelectExactRecord(manifest, loaded)}
           /\ SelectExactRecord(manifest, loaded) \in DOMAIN manifest.records
<1> DEFINE M == Matching(manifest, loaded)
<1>1. M \subseteq DOMAIN manifest.records
    BY DEF Matching
<1>2. IsFiniteSet(M)
    BY <1>1, FiniteIndices, ManifestsAssumption
<1>3. Cardinality(M) = 1
    BY DEF SelectExactRecord
<1>4. PICK i : M = {i}
    BY <1>2, <1>3, FS_Singleton
<1>5. SelectExactRecord(manifest, loaded) = i
    BY <1>3, <1>4 DEF SelectExactRecord
<1> QED
    BY <1>1, <1>4, <1>5

\* The payload's choice is a record all of whose checks pass.
LEMMA ChoiceResolvable ==
    ASSUME manifest \in Manifests, ResolveCompatibility # 0
    PROVE  /\ ResolveCompatibility \in DOMAIN manifest.records
           /\ Resolvable(Record(ResolveCompatibility))
<1> DEFINE H == {i \in DOMAIN manifest.records : Resolvable(manifest.records[i])}
           h == CHOOSE i \in H : \A j \in H : i <= j
<1>1. ResolveCompatibility = IF H = {} THEN 0 ELSE h
    BY DEF ResolveCompatibility, First
<1>2. h \in H
    BY <1>1, LeastChosen, ManifestsAssumption
<1> QED
    BY <1>1, <1>2 DEF Record

\* What ParseManifest leaves of a record that the payload takes.
LEMMA ParsedRecord ==
    ASSUME ParseManifest(manifest), NEW i \in DOMAIN manifest.records
    PROVE  /\ SymbolsOK(Record(i)) /\ AdjustmentsOK(Record(i))
           /\ BackendsComplete(Record(i)) /\ MetadataOK(Record(i))
    BY DEF ParseManifest, SeqSet, ValidateRecord, Record

\* A symbol's module is one of the record's, so its base is mapped.
LEMMA SymbolBase ==
    ASSUME ParseManifest(manifest), NEW i \in DOMAIN manifest.records,
           ModulesInMemory(Record(i)), NEW s \in SeqSet(Symbols(Record(i)))
    PROVE  LET d == Modules(Record(i))[s.moduleIndex]
           IN  /\ d \in SeqSet(Modules(Record(i))) /\ d.base \in DOMAIN memory
               /\ s.rva # 0 /\ s.rva < memory[d.base].sizeOfImage
<1> DEFINE d == Modules(Record(i))[s.moduleIndex]
<1>1. SymbolOK(Record(i), s)
    BY ParsedRecord DEF SymbolsOK
<1>2. d \in SeqSet(Modules(Record(i)))
    BY <1>1 DEF SymbolOK, SeqSet
<1>3. d.base \in DOMAIN memory /\ d.sizeOfImage = memory[d.base].sizeOfImage
    BY <1>2 DEF ModulesInMemory, ModuleIdentityEqual, MemoryIdentity, Identity
<1> QED
    BY <1>1, <1>2, <1>3 DEF SymbolOK

-----------------------------------------------------------------------------
(* The invariant.                                                          *)

RInv ==
    /\ manifest \in Manifests /\ TypeOK
    /\ pc \notin {"start", "rejected"} => ParseManifest(manifest)
    /\ \A n \in DOMAIN scanned : Readable(scanned[n])
    /\ pc \in {"attached", "resolved", "enabled"} =>
          chosen # 0 /\ chosen = SelectExactRecord(manifest, Loaded)
    /\ resolved # 0 => Resolvable(Record(resolved))
    /\ EnableFindsSymbols

LEMMA RInit == Init => RInv
    BY DisksAssumption
    DEF Init, RInv, TypeOK, PCs, Backends, EnableFindsSymbols

\* A record that parses names every pointer that its preferred backend insists on.
LEMMA EnableComplete ==
    ASSUME RInv, Enable
    PROVE  EnableFindsSymbols'
<1> DEFINE r == Record(resolved)
<1>1. resolved \in DOMAIN manifest.records /\ ParseManifest(manifest)
    BY DEF RInv, TypeOK, Enable
<1>2. AdjustmentsOK(r) /\ BackendsComplete(r) /\ MetadataOK(r)
    BY <1>1, ParsedRecord
<1>3. SharedSymbols \subseteq Ids(r) => TaskModelReady(r)
    BY <1>2 DEF AdjustmentsOK, AdjustmentOK, TaskModelReady, SharedSymbols
<1>4. "xaml" \in r.backendFlags => XamlReady(r)
    BY <1>2, <1>3
    DEF BackendsComplete, XamlComplete, XamlReady, XamlSymbols, SharedSymbols
<1>5. "classic" \in r.backendFlags => ClassicReady(r)
    BY <1>2, <1>3
    DEF BackendsComplete, ClassicComplete, ClassicReady, ClassicSymbols, SharedSymbols
<1>6. "xaml" \in r.backendFlags \/ "classic" \in r.backendFlags
    BY <1>2 DEF MetadataOK
<1>7. backend' = PreferredBackend(r)
    BY <1>4, <1>5, <1>6 DEF Enable, PreferredBackend
<1> QED
    BY <1>7 DEF Enable, EnableFindsSymbols, Record

\* Modules stay as they are once they are mapped.
LEMMA StillResolvable ==
    ASSUME RInv, NEW n \in Names, LoadModule(n), resolved # 0
    PROVE  Resolvable(Record(resolved))'
<1> DEFINE r == Record(resolved)
<1>1. resolved \in DOMAIN manifest.records /\ ParseManifest(manifest) /\ Resolvable(r)
    BY DEF RInv, TypeOK, LoadModule
<1>2. Record(resolved)' = r
    BY DEF LoadModule, Record
<1>3. \A k \in DOMAIN memory : k \in DOMAIN memory' /\ memory'[k] = memory[k]
    BY DEF LoadModule
<1>4. ModulesInMemory(r)'
    BY <1>1, <1>2, <1>3 DEF Resolvable, ModulesInMemory
<1>5. SymbolsInMemory(r)'
    BY <1>1, <1>2, <1>3, SymbolBase DEF Resolvable, SymbolsInMemory
<1> QED
    BY <1>1, <1>2, <1>4, <1>5 DEF Resolvable
LEMMA RNext == RInv /\ [Next]_vars => RInv'
<1> SUFFICES ASSUME RInv, [Next]_vars PROVE RInv'
    OBVIOUS
<1> USE DEF RInv
<1>1. CASE Load
    BY <1>1 DEF Load, TypeOK, PCs, EnableFindsSymbols, Resolvable, Record
<1>2. CASE Scan
    <2>1. \A n \in DOMAIN memory : disk[n] \in Images
        BY DisksAssumption DEF TypeOK
    <2>2. TypeOK'
        BY <1>2, <2>1 DEF Scan, TypeOK, PCs, Backends
    <2>3. \A n \in DOMAIN scanned' : Readable(scanned'[n])
        BY <1>2 DEF Scan
    <2> QED
        BY <1>2, <2>2, <2>3 DEF Scan, TypeOK, EnableFindsSymbols
<1>3. CASE Select
    <2>1. SelectedRecord # 0 =>
            /\ SelectedRecord = SelectExactRecord(manifest, Loaded)
            /\ SelectedRecord \in DOMAIN manifest.records
        BY OnlyMatch DEF SelectedRecord
    <2>2. TypeOK'
        BY <1>3, <2>1 DEF Select, TypeOK, PCs, Backends
    <2>3. Loaded' = Loaded
        BY <1>3 DEF Select, Loaded
    <2> QED
        BY <1>3, <2>1, <2>2, <2>3 DEF Select, TypeOK, EnableFindsSymbols
<1>4. CASE Initialize
    <2>1. resolved' # 0 =>
            /\ resolved' \in DOMAIN manifest.records
            /\ Resolvable(Record(resolved'))
        BY <1>4, ChoiceResolvable DEF Initialize
    <2>2. TypeOK'
        BY <1>4, <2>1 DEF Initialize, TypeOK, PCs, Backends
    <2>3. Loaded' = Loaded
        BY <1>4 DEF Initialize, Loaded
    <2>4. resolved' # 0 => Resolvable(Record(resolved))'
        BY <1>4, <2>1
        DEF Initialize, Resolvable, Record, ModulesInMemory, SymbolsInMemory
    <2> QED
        BY <1>4, <2>2, <2>3, <2>4 DEF Initialize, TypeOK, EnableFindsSymbols
<1>5. CASE Enable
    <2>1. TypeOK'
        BY <1>5 DEF Enable, TypeOK, PCs, Backends
    <2>2. Loaded' = Loaded
        BY <1>5 DEF Enable, Loaded
    <2>3. Resolvable(Record(resolved))' <=> Resolvable(Record(resolved))
        BY <1>5 DEF Enable, Resolvable, Record, ModulesInMemory, SymbolsInMemory
    <2> QED
        BY <1>5, <2>1, <2>2, <2>3, EnableComplete DEF Enable
<1>6. CASE Detach
    BY <1>6 DEF Detach, TypeOK, PCs, Backends, EnableFindsSymbols
<1>7. CASE ExplorerRestarts
    BY <1>7 DEF ExplorerRestarts, TypeOK, PCs, Backends, EnableFindsSymbols
<1>8. CASE ReplaceFiles
    <2>1. TypeOK'
        BY <1>8 DEF ReplaceFiles, TypeOK
    <2>2. Loaded' = Loaded
        BY <1>8 DEF ReplaceFiles, Loaded
    <2>3. Resolvable(Record(resolved))' <=> Resolvable(Record(resolved))
        BY <1>8 DEF ReplaceFiles, Resolvable, Record, ModulesInMemory, SymbolsInMemory
    <2> QED
        BY <1>8, <2>1, <2>2, <2>3 DEF ReplaceFiles, EnableFindsSymbols, Record
<1>9. ASSUME NEW n \in Names, LoadModule(n) PROVE RInv'
    <2>1. disk[n] \in Images
        BY DisksAssumption DEF TypeOK
    <2>2. TypeOK'
        BY <1>9, <2>1 DEF LoadModule, TypeOK
    <2>3. Loaded' = Loaded
        BY <1>9 DEF LoadModule, Loaded
    <2>4. resolved' # 0 => Resolvable(Record(resolved))'
        BY <1>9, StillResolvable DEF LoadModule
    <2> QED
        BY <1>9, <2>2, <2>3, <2>4 DEF LoadModule, EnableFindsSymbols, Record
<1>10. CASE UNCHANGED vars
    BY <1>10 DEF vars, TypeOK, Loaded, EnableFindsSymbols, Record, Resolvable,
                 ModulesInMemory, SymbolsInMemory
<1> QED
    BY <1>1, <1>2, <1>3, <1>4, <1>5, <1>6, <1>7, <1>8, <1>9, <1>10 DEF Next

THEOREM RInvHolds == Spec => []RInv
    BY RInit, RNext, PTL DEF Spec

-----------------------------------------------------------------------------
(* The properties.                                                         *)

\* Every record that is chosen or resolved is one of the manifest's, a session
\* that has ended keeps no record (DllMain, PrepareUnload), and what is mapped or
\* scanned is an image.
THEOREM TypeCorrect == Spec => []TypeOK
    BY RInvHolds, PTL DEF RInv

\* ParseManifest and AddRange: no two tables share a byte.
THEOREM TablesAreDisjoint == Spec => []TablesDisjoint
<1>1. RInv => TablesDisjoint
    <2> SUFFICES ASSUME RInv, pc \notin {"start", "rejected"},
                        NEW t \in Tables(manifest)
                 PROVE  /\ ByteRange(t) \subseteq FixedEnd(manifest)..manifest.size - 1
                        /\ \A u \in Tables(manifest) \ {t} :
                              ByteRange(t) \cap ByteRange(u) = {}
        BY DEF TablesDisjoint
    <2>1. RangesOK(manifest) /\ manifest \in Manifests
        BY DEF RInv, ParseManifest
    <2>2. ASSUME NEW u \in Tables(manifest)
          PROVE  /\ Begins(manifest, u) \in Nat /\ Bytes(manifest, u) \in Nat
                 /\ Ends(manifest, u) = Begins(manifest, u) + Bytes(manifest, u)
        <3>1. u[2] \in TableKinds /\ u[1] \in DOMAIN manifest.records
            BY DEF Tables
        <3>2. RecordNumbers(manifest.records[u[1]])
            BY <2>1, <3>1, ManifestsAssumption DEF SeqSet
        <3>3. Begins(manifest, u) \in Nat /\ Len(Entries(manifest, u)) \in Nat
            BY <3>1, <3>2 DEF RecordNumbers, IsSequence, Begins, Entries
        <3>4. Width(u[2]) \in Nat
            BY <3>1 DEF TableKinds, Width
        <3> QED
            BY <3>3, <3>4 DEF Bytes, Ends
    <2>3. manifest.size \in Nat /\ FixedEnd(manifest) \in Nat
        BY <2>1, ManifestsAssumption DEF FixedEnd, IsSequence, RecordSize
    <2>4. ByteRange(t) \subseteq FixedEnd(manifest)..manifest.size - 1
        BY <2>1, <2>2, <2>3 DEF RangesOK, Fits, CheckedRange, ByteRange
    <2>5. ASSUME NEW u \in Tables(manifest) \ {t}
          PROVE  ByteRange(t) \cap ByteRange(u) = {}
        BY <2>1, <2>2 DEF RangesOK, Overlaps, ByteRange
    <2> QED
        BY <2>4, <2>5
<1> QED
    BY <1>1, RInvHolds, PTL

\* The payload patches only what the record says of the modules that are mapped,
\* and the host's readers would accept each address (ResolveCompatibility).
THEOREM ResolutionIsExact == Spec => []ResolvedIsExact
<1>1. RInv => ResolvedIsExact
    <2> SUFFICES ASSUME RInv, resolved # 0 PROVE ResolvedIsExact
        BY DEF ResolvedIsExact
    <2> DEFINE r == Record(resolved)
    <2>1. resolved \in DOMAIN manifest.records /\ ParseManifest(manifest) /\ Resolvable(r)
        BY DEF RInv, TypeOK
    <2>2. \A n \in DOMAIN memory : memory[n] \in Images
        BY DEF RInv, TypeOK
    <2>3. ASSUME NEW d \in SeqSet(Modules(r))
          PROVE  /\ d.base \in DOMAIN memory
                 /\ Readable(memory[d.base]) =>
                       ModuleIdentityEqual(FileIdentity(d.base, memory[d.base]), d)
        BY <2>1, <2>2, IdentitiesAgree DEF Resolvable, ModulesInMemory
    <2>4. ASSUME NEW s \in SeqSet(Symbols(r))
          PROVE  ValidateSymbolRva(memory[Modules(r)[s.moduleIndex].base], s.rva, s.kind)
        <3> DEFINE n == Modules(r)[s.moduleIndex].base
        <3>1. n \in DOMAIN memory /\ s.rva # 0 /\ s.rva < memory[n].sizeOfImage
            BY <2>1, SymbolBase DEF Resolvable
        <3>2. ValidRva(memory[n], s.rva, s.kind)
            BY <2>1 DEF Resolvable, SymbolsInMemory
        <3>3. r \in SeqSet(manifest.records)
            BY <2>1 DEF SeqSet, Record
        <3>4. s.rva \in Nat
            BY <3>3, ManifestsAssumption DEF RInv
        <3> QED
            BY <2>2, <3>1, <3>2, <3>4, SectionsAgree
    <2> QED
        BY <2>3, <2>4 DEF ResolvedIsExact
<1> QED
    BY <1>1, RInvHolds, PTL

\* SelectExactRecord and ResolveCompatibility agree on what both have read.
THEOREM RecordsAreTheSame == Spec => []SameRecord
<1>1. RInv => SameRecord
    <2> SUFFICES ASSUME RInv, resolved # 0, scanned = memory PROVE resolved = chosen
        BY DEF SameRecord
    <2> DEFINE r == Record(resolved)
    <2>1. /\ resolved \in DOMAIN manifest.records /\ ModulesInMemory(r)
          /\ manifest \in Manifests
          /\ chosen # 0 /\ chosen = SelectExactRecord(manifest, Loaded)
        BY DEF RInv, TypeOK, Resolvable
    <2>2. ASSUME NEW d \in SeqSet(Modules(r))
          PROVE  \E actual \in Loaded : ModuleIdentityEqual(d, actual)
        <3> DEFINE actual == FileIdentity(d.base, scanned[d.base])
        <3>1. d.base \in DOMAIN memory /\ HasMemoryIdentity(memory[d.base])
            BY <2>1 DEF ModulesInMemory
        <3>2. actual = MemoryIdentity(d.base, memory[d.base])
            BY <3>1, IdentitiesAgree DEF RInv, TypeOK
        <3>3. ModuleIdentityEqual(d, actual)
            BY <2>1, <3>2 DEF ModulesInMemory, ModuleIdentityEqual
        <3> QED
            BY <3>1, <3>3 DEF Loaded
    <2>3. resolved \in Matching(manifest, Loaded)
        BY <2>1, <2>2 DEF Matching, Record
    <2> QED
        BY <2>1, <2>3, OnlyMatch
<1> QED
    BY <1>1, RInvHolds, PTL

\* A record that parses enables its preferred backend, whatever its symbols are.
THEOREM EnableIsComplete == Spec => []EnableFindsSymbols
    BY RInvHolds, PTL DEF RInv
=============================================================================
