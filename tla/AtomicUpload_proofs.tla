------------------------ MODULE AtomicUpload_proofs ------------------------
(***************************************************************************)
(* The files, the temporary files and the unique names of the filesystem   *)
(* service, for any number of threads, directories, names and operations.  *)
(***************************************************************************)
EXTENDS AtomicUpload, SequenceTheorems, TLAPS

\* What a path leads to, and the file it leads to
EntryAt(x) == IF HasDir(x) THEN EntryOf(x) ELSE None
FileAt(x) == IF HasFile(x) THEN EntryOf(x) ELSE None

\* The paths that are not of temporary files
Ordinary == DirNames \X Names

Entries == [Dirs -> [AllNames -> Ids \cup {None, Folder}]]

\* One step of a thread
Step(p) == Begin(p) \/ Acquire(p) \/ Upload(p) \/ Manage(p) \/ Release(p)

LEMMA PathFacts ==
    /\ \A x \in Paths : x[1] \in DirNames /\ x[2] \in AllNames /\ x = <<x[1], x[2]>>
                        /\ <<x[1]>> \in DirPaths
    /\ \A x \in DirPaths : x[1] \in DirNames /\ x = <<x[1]>>
    /\ \A d \in DirNames : <<d>> \in DirPaths /\ \A n \in AllNames : <<d, n>> \in Paths
    /\ \A d \in DirNames, n \in Names : <<d, n>> \in Ordinary
    /\ \A x \in Ordinary : x \in Paths /\ x[2] \in Names
    /\ \A x \in Paths : x \in Ordinary \/ x[2] \in PartNames
    /\ Paths \cap DirPaths = {}
BY DEF Paths, DirPaths, Ordinary, AllNames

LEMMA NameFacts ==
    /\ PartNames \subseteq Ids /\ PartNames \subseteq AllNames /\ Names \subseteq AllNames
    /\ \A n \in Names : n \notin Ids /\ n \notin PartNames
    /\ None \notin Ids /\ Folder \notin Ids /\ None # Folder /\ 0 \in Ids
BY AtomicNamesAssumption, BoundsAssumption DEF PartNames, AllNames, Ids

\* A request for a call, whose number is the next
LEMMA RequestFacts ==
    ASSUME NEW id \in Ids, id > 0, NEW r \in Requests(id)
    PROVE  /\ r.id = id /\ r.kind \in AllKinds /\ r \in Calls
           /\ r.kind \in {"STOR", "APPE", "DELE"} => r.src \in Paths /\ r.dst = None
           /\ r.kind \in {"RMD", "MKD"} => r.src \in DirPaths \cup Paths /\ r.dst = None
           /\ r.kind = "STOU" => r.src \in DirPaths /\ r.dst = None
           /\ r.kind = "RNTO" => r.src \in Paths /\ r.dst \in Paths
           /\ r.kind = "MOVE" => r.src \in DirPaths /\ r.dst \in DirPaths
           /\ r.src \in Paths /\ r.src[2] \in PartNames => r.src[2] < id
<1> DEFINE files == DirNames \X (Names \cup Seen(id))
<1>1. Seen(id) \subseteq PartNames /\ \A n \in Seen(id) : n < id
  BY BoundsAssumption DEF Seen, PartNames, Ids
<1>2. files \subseteq Paths /\ \A x \in files : x[2] \in PartNames => x[2] < id
  BY <1>1, NameFacts DEF Paths, AllNames
<1>3. \A x \in DirPaths : x \notin Paths
  BY PathFacts
<1> HIDE DEF files
<1> USE DEF Request, Calls, AllKinds
<1>4. CASE \E k \in Kinds \cap {"STOR", "APPE", "DELE"}, x \in files : r = Request(k, id, x, None)
  BY <1>2, <1>4
<1>5. CASE \E k \in Kinds \cap {"RMD", "MKD"}, x \in DirPaths \cup files : r = Request(k, id, x, None)
  BY <1>2, <1>3, <1>5
<1>6. CASE \E k \in Kinds \cap {"STOU"}, x \in DirPaths : r = Request(k, id, x, None)
  BY <1>3, <1>6
<1>7. CASE \E k \in Kinds \cap {"RNTO"}, x \in files, y \in files : r = Request(k, id, x, y)
  BY <1>2, <1>7
<1>8. CASE \E k \in Kinds \cap {"MOVE"}, x \in DirPaths, y \in DirPaths : r = Request(k, id, x, y)
  BY <1>3, <1>8
<1> QED
  BY <1>4, <1>5, <1>6, <1>7, <1>8 DEF Requests, files

-----------------------------------------------------------------------------
LEMMA InitInv == Init => IInv
<1> SUFFICES ASSUME Init PROVE IInv
  OBVIOUS
<1>1. 0 \in Ids /\ Chunks \in 0 .. Chunks /\ 0 \in 0 .. Chunks
  BY BoundsAssumption DEF Ids
<1>2. PICK a \in DirNames, d \in Dirs, old \in SUBSET Names :
        /\ dirAt = [x \in DirNames |-> IF x = a THEN d ELSE None]
        /\ entries = [e \in Dirs |-> [n \in AllNames |-> IF e = d /\ n \in old THEN 0 ELSE None]]
  BY ZenonT(30) DEF Init
<1>3. \A e \in Dirs, n \in AllNames :
        /\ entries[e][n] \in {0, None}
        /\ entries[e][n] \in Ids => entries[e][n] = 0 /\ n \in Names
  BY <1>2, NameFacts
<1>4. TypeOK
  <2>1. entries \in [Dirs -> [AllNames -> Ids \cup {None, Folder}]] /\ dirAt \in [DirNames -> Dirs \cup {None}]
    BY <1>1, <1>2
  <2>2. NoRequest \in Calls /\ <<>> \in Seq(Pieces)
    BY <1>1 DEF NoRequest, Request, Calls
  <2>3. /\ pc \in [Procs -> Places] /\ op \in [Procs -> Calls]
        /\ copied \in [Ids -> Seq(Pieces)] /\ written \in [Ids -> 0 .. Chunks]
        /\ synced \in [Ids -> BOOLEAN]
    BY <1>1, <2>2 DEF Init, Places
  <2> QED
    BY <1>1, <2>1, <2>3 DEF Init, TypeOK
<1>5. NamedOnce
  BY <1>2 DEF NamedOnce
<1>6. CallInv /\ LockInv
  BY DEF Init, CallInv, LockInv, InUpload, HasPart, Owned, Frames
<1>7. CopyInv
  BY DEF Init, CopyInv, Sound
<1>8. FileInv
  <2>1. 0 \in Published
    BY DEF Published, Init, WillPublish
  <2>2. synced[0] /\ written[0] = Chunks
    BY <1>1 DEF Init
  <2>3. \A p \in Procs : pc[p] # "replacing"
    BY DEF Init
  <2> QED
    BY <1>3, <2>1, <2>2, <2>3 DEF FileInv
<1>9. ForeignInv
  <2>1. \A e \in Dirs, n \in PartNames : entries[e][n] \notin Ids
    BY <1>3, NameFacts
  <2>2. \A p \in Procs : ~InUpload(p)
    BY DEF Init, InUpload, HasPart
  <2> QED
    BY <2>1, <2>2 DEF ForeignInv
<1>10. SeenInv
  BY DEF Init, SeenInv, InUpload, HasPart
<1>11. PartInv
  <2>1. \A e \in Dirs, n \in PartNames : entries[e][n] # n
    BY <1>3, NameFacts
  <2> QED
    BY <2>1 DEF PartInv
<1> QED
  BY <1>4, <1>5, <1>6, <1>7, <1>8, <1>9, <1>10, <1>11 DEF IInv

-----------------------------------------------------------------------------
(* Types *)

LEMMA EntryFacts ==
    ASSUME TypeOK, NEW x \in Paths
    PROVE  /\ HasDir(x) => dirAt[x[1]] \in Dirs /\ EntryOf(x) \in Ids \cup {None, Folder}
           /\ EntryAt(x) \in Ids \cup {None, Folder}
           /\ HasFile(x) <=> EntryAt(x) \in Ids
           /\ HasEntry(x) <=> EntryAt(x) # None
           /\ HasFolder(x) <=> EntryAt(x) = Folder
           /\ HasEntry(x) => HasDir(x) /\ EntryOf(x) = EntryAt(x)
<1>1. HasDir(x) => dirAt[x[1]] \in Dirs /\ x[2] \in AllNames
  BY PathFacts DEF TypeOK, HasDir
<1>2. HasDir(x) => EntryOf(x) \in Ids \cup {None, Folder}
  BY <1>1 DEF EntryOf, TypeOK
<1> QED
  BY <1>1, <1>2, NameFacts DEF EntryAt, HasFile, HasEntry, HasFolder

LEMMA SetType ==
    ASSUME TypeOK, NEW x, NEW e \in Ids \cup {None, Folder}
    PROVE  SetEntry(x, e) \in Entries
BY DEF TypeOK, SetEntry, Entries

LEMMA MoveType ==
    ASSUME TypeOK, NEW x \in Paths, NEW y, HasDir(x)
    PROVE  MoveEntry(x, y) \in Entries
<1>1. EntryOf(x) \in Ids \cup {None, Folder}
  BY EntryFacts
<1> QED
  BY <1>1 DEF TypeOK, MoveEntry, Entries

LEMMA ContentType == ASSUME TypeOK, NEW id \in Ids PROVE Content(id) \in Seq(Pieces)
<1>1. Piece(id, written[id]) \in Pieces /\ copied[id] \in Seq(Pieces)
  BY DEF TypeOK, Piece, Pieces
<1> QED
  BY <1>1 DEF Content

\* An upload that has its lock is one of a file, and so is what it makes.
LEMMA UploadPath ==
    ASSUME TypeOK, CallInv, NEW p \in Procs, InUpload(p)
    PROVE  /\ op[p].src \in Paths /\ op[p].dst = None /\ op[p].kind \in Uploading
           /\ pc[p] # "idle" /\ op[p].id \in PartNames /\ op[p].id \in Ids
           /\ TempPath(p) \in Paths /\ TempPath(p)[1] = op[p].src[1] /\ TempPath(p)[2] = op[p].id
           /\ HasDir(TempPath(p)) <=> HasDir(op[p].src)
<1>1. op[p].kind \in Uploading /\ pc[p] # "idle" /\ PathsFit(p) /\ op[p].id \in 1 .. begun
  BY DEF CallInv, InUpload, HasPart
<1>2. op[p].src \in Paths /\ op[p].dst = None
  BY <1>1, PathFacts DEF PathsFit, Uploading, Ordinary
<1>3. op[p].id \in PartNames /\ op[p].id \in AllNames
  BY <1>1, BoundsAssumption DEF TypeOK, Ids, PartNames, AllNames
<1>4. op[p].src[1] \in DirNames
  BY <1>2, PathFacts
<1>5. TempPath(p) \in Paths
  BY <1>3, <1>4, PathFacts DEF TempPath
<1> QED
  BY <1>1, <1>2, <1>3, <1>5, NameFacts DEF TempPath, HasDir

\* The calls of a thread that is done
LEMMA DoneTypes ==
    ASSUME TypeOK, NEW Q, Done(Q)
    PROVE  pc' \in [Procs -> Places] /\ op' \in [Procs -> Calls]
<1>1. NoRequest \in Calls /\ "idle" \in Places
  BY NameFacts DEF NoRequest, Request, Calls, Places
<1> QED
  BY <1>1 DEF Done, TypeOK

LEMMA GoToType ==
    ASSUME TypeOK, NEW p \in Procs, NEW place \in Places, GoTo(p, place)
    PROVE  pc' \in [Procs -> Places]
BY DEF GoTo, TypeOK

\* Only the renaming of a file and APPE touch one.
LEMMA TouchedStep ==
    ASSUME NEW p, Step(p)
    PROVE  /\ touched \subseteq touched'
           /\ CopyCurrent(p) \/ RenameEntry(p) \/ UNCHANGED touched
<1>1. CASE CopyCurrent(p)
  BY <1>1 DEF CopyCurrent
<1>2. CASE RenameEntry(p)
  BY <1>2 DEF RenameEntry
<1>3. CASE ~CopyCurrent(p) /\ ~RenameEntry(p)
  <2>1. UNCHANGED touched
    BY <1>3 DEF Step, Upload, Manage, Begin, Acquire, Release, ChooseName, MakePart, WriteChunk, Sync,
       FailUpload, Replace, RemovePart, DeleteFile, RemoveDirectory, MakeDirectory, MakeFolder,
       CheckRename, RenameDirectory, history
  <2> QED
    BY <2>1
<1> QED
  BY <1>1, <1>2, <1>3

LEMMA TypeStep == ASSUME TypeOK, CallInv, NEW p \in Procs, Step(p) PROVE TypeOK'
<1> USE DEF nodes, history
<1>0. op[p] \in Calls /\ op[p].id \in Ids
  BY DEF TypeOK, Calls
<1>1. CASE Begin(p)
  <2>1. begun' = begun + 1 /\ begun' \in Ids /\ begun + 1 > 0
    BY <1>1, BoundsAssumption DEF Begin, TypeOK, Ids
  <2>2. PICK r \in Requests(begun + 1) : op' = [op EXCEPT ![p] = r]
    BY <1>1 DEF Begin
  <2>3. op' \in [Procs -> Calls]
    BY <2>1, <2>2, RequestFacts DEF TypeOK
  <2>4. pc' \in [Procs -> Places]
    BY <1>1, GoToType DEF Begin, Places
  <2> QED
    BY <1>1, <2>1, <2>3, <2>4 DEF Begin, TypeOK
<1>2. CASE Acquire(p)
  <2>1. LockSet(op[p]) \subseteq DirPaths \cup Paths
    BY <1>0 DEF Calls, LockSet
  <2>2. <<p, "outer">> \in Frames
    BY DEF Frames
  <2>3. holds' \in [Frames -> SUBSET (DirPaths \cup Paths)]
    BY <1>2, <2>1, <2>2 DEF Acquire, TypeOK, Mutex!Enter
  <2>4. pc' \in [Procs -> Places]
    BY <1>2, GoToType DEF Acquire, Places
  <2> QED
    BY <1>2, <2>3, <2>4 DEF Acquire, TypeOK
<1>3. CASE ChooseName(p)
  <2>1. pc' \in [Procs -> Places]
    <3>1. GoTo(p, "locked") \/ GoTo(p, "unlocking")
      BY <1>3 DEF ChooseName
    <3> QED
      BY <3>1, GoToType DEF Places
  <2>2. holds' \in [Frames -> SUBSET (DirPaths \cup Paths)] /\ op' \in [Procs -> Calls]
    <3>1. CASE UNCHANGED <<holds, op>>
      BY <3>1 DEF TypeOK
    <3>2. CASE \E n \in Names :
                 /\ Mutex!Enter(<<p, "inner">>, {<<op[p].src[1], n>>})
                 /\ op' = [op EXCEPT ![p].src = <<op[p].src[1], n>>]
      <4>1. op[p].src \in DirPaths
        BY <1>3 DEF ChooseName, CallInv, PathsFit
      <4>2. PICK n \in Names :
              /\ Mutex!Enter(<<p, "inner">>, {<<op[p].src[1], n>>})
              /\ op' = [op EXCEPT ![p].src = <<op[p].src[1], n>>]
        BY <3>2
      <4>3. <<op[p].src[1], n>> \in Paths
        BY <4>1, PathFacts
      <4> HIDE DEF Paths
      <4>4. op' \in [Procs -> Calls]
        BY <4>2, <4>3 DEF TypeOK, Calls
      <4>5. <<p, "inner">> \in Frames
        BY DEF Frames
      <4>6. holds' \in [Frames -> SUBSET (DirPaths \cup Paths)]
        BY <4>2, <4>3, <4>5 DEF TypeOK, Mutex!Enter
      <4> QED
        BY <4>4, <4>6
    <3> QED
      BY <1>3, <3>1, <3>2 DEF ChooseName
  <2> QED
    BY <1>3, <2>1, <2>2 DEF ChooseName, TypeOK
<1>4. CASE MakePart(p) \/ RemovePart(p) \/ DeleteFile(p)
  <2>1. pc' \in [Procs -> Places]
    BY <1>4, GoToType DEF MakePart, RemovePart, DeleteFile, Places
  <2>2. entries' \in Entries
    <3>1. \/ entries' = entries
          \/ \E x, e : e \in Ids \cup {None} /\ entries' = SetEntry(x, e)
      BY <1>0, <1>4 DEF MakePart, RemovePart, Remaining, DeleteFile
    <3> QED
      BY <3>1, SetType DEF TypeOK, Entries
  <2> QED
    BY <1>4, <2>1, <2>2 DEF MakePart, RemovePart, DeleteFile, TypeOK, Entries
<1>5. CASE CopyCurrent(p)
  <2>1. op[p].src \in Paths /\ pc' \in [Procs -> Places]
    BY <1>5, UploadPath, GoToType DEF CopyCurrent, InUpload, HasPart, Places
  <2>2. copied' \in [Ids -> Seq(Pieces)]
    <3>1. CASE HasFile(op[p].src)
      <4>1. EntryOf(op[p].src) \in Ids
        BY <3>1 DEF HasFile
      <4>2. Content(EntryOf(op[p].src)) \in Seq(Pieces)
        BY <4>1, ContentType
      <4> QED
        BY <1>5, <3>1, <4>2 DEF CopyCurrent, TypeOK
    <3> QED
      BY <1>5, <3>1 DEF CopyCurrent, TypeOK
  <2>3. touched' \subseteq Ids
    BY <1>0, <1>5 DEF CopyCurrent, TypeOK
  <2> QED
    BY <1>5, <2>1, <2>2, <2>3 DEF CopyCurrent, TypeOK
<1>6. CASE WriteChunk(p) \/ Sync(p) \/ FailUpload(p) \/ CheckRename(p)
  <2>1. pc' \in [Procs -> Places]
    BY <1>6, GoToType DEF WriteChunk, Sync, FailUpload, CheckRename, Places, TypeOK
  <2>2. written' \in [Ids -> 0 .. Chunks]
    <3>1. CASE WriteChunk(p)
      <4>1. written[op[p].id] \in 0 .. Chunks /\ written[op[p].id] < Chunks
        BY <1>0, <3>1 DEF WriteChunk, TypeOK
      <4>2. written[op[p].id] + 1 \in 0 .. Chunks
        BY <4>1, BoundsAssumption
      <4> QED
        BY <3>1, <4>2 DEF WriteChunk, TypeOK
    <3> QED
      BY <1>6, <3>1 DEF Sync, FailUpload, CheckRename, TypeOK
  <2>3. synced' \in [Ids -> BOOLEAN]
    BY <1>6 DEF WriteChunk, Sync, FailUpload, CheckRename, TypeOK, Synced
  <2> QED
    BY <1>6, <2>1, <2>2, <2>3 DEF WriteChunk, Sync, FailUpload, CheckRename, TypeOK
<1>7. CASE Replace(p)
  <2>1. pc' \in [Procs -> Places] /\ TempPath(p) \in Paths
    BY <1>7, UploadPath, GoToType DEF Replace, InUpload, HasPart, Places
  <2>2. entries' \in Entries
    <3>1. CASE Fits(TempPath(p), op[p].src)
      <4>1. HasDir(TempPath(p))
        BY <3>1 DEF Fits, HasEntry
      <4> QED
        BY <1>7, <2>1, <3>1, <4>1, MoveType DEF Replace
    <3> QED
      BY <1>7, <3>1 DEF Replace, TypeOK, Entries
  <2> QED
    BY <1>7, <2>1, <2>2 DEF Replace, TypeOK, Entries
<1>8. CASE RemoveDirectory(p)
  <2>1. pc' \in [Procs -> Places] /\ dirAt' \in [DirNames -> Dirs \cup {None}]
    BY <1>8, GoToType DEF RemoveDirectory, TypeOK, Places
  <2>2. entries' \in Entries
    BY <1>8, SetType DEF RemoveDirectory, TypeOK, Entries
  <2> QED
    BY <1>8, <2>1, <2>2 DEF RemoveDirectory, TypeOK, Entries
<1>9. CASE MakeDirectory(p)
  <2>1. dirAt' \in [DirNames -> Dirs \cup {None}]
    BY <1>9 DEF MakeDirectory, NewDir, TypeOK
  <2>2. pc' \in [Procs -> Places] /\ op' \in [Procs -> Calls]
    BY <1>9, DoneTypes, GoToType DEF MakeDirectory, TypeOK, Places
  <2> QED
    BY <1>9, <2>1, <2>2 DEF MakeDirectory, TypeOK
<1>10. CASE MakeFolder(p)
  <2>1. entries' \in Entries
    BY <1>10, SetType DEF MakeFolder, TypeOK, Entries
  <2> QED
    BY <1>10, <2>1, DoneTypes DEF MakeFolder, TypeOK, Entries
<1>11. CASE RenameEntry(p)
  <2>1. pc' \in [Procs -> Places] /\ op[p].src \in Paths
    BY <1>11, GoToType DEF RenameEntry, CallInv, PathsFit, Places
  <2>2. entries' \in Entries /\ touched' \subseteq Ids
    <3>1. CASE Fits(op[p].src, op[p].dst)
      <4>1. HasDir(op[p].src)
        BY <3>1 DEF Fits, HasEntry
      <4>2. entries' \in Entries
        BY <1>11, <2>1, <3>1, <4>1, MoveType DEF RenameEntry
      <4> QED
        BY <1>11, <3>1, <4>2 DEF RenameEntry, HasFile, TypeOK
    <3> QED
      BY <1>11, <3>1 DEF RenameEntry, TypeOK, Entries
  <2> QED
    BY <1>11, <2>1, <2>2 DEF RenameEntry, TypeOK, Entries
<1>12. CASE RenameDirectory(p)
  <2>1. pc' \in [Procs -> Places] /\ op[p].src \in DirPaths
    BY <1>12, GoToType DEF RenameDirectory, CallInv, PathsFit, Places
  <2>2. dirAt' \in [DirNames -> Dirs \cup {None}]
    <3>1. dirAt[op[p].src[1]] \in Dirs \cup {None}
      BY <2>1, PathFacts DEF TypeOK
    <3>2. \/ dirAt' = dirAt
          \/ dirAt' = [dirAt EXCEPT ![op[p].src[1]] = None, ![op[p].dst[1]] = dirAt[op[p].src[1]]]
      BY <1>12 DEF RenameDirectory
    <3> QED
      BY <3>1, <3>2 DEF TypeOK
  <2>3. moved' \in BOOLEAN
    BY <1>12 DEF RenameDirectory, TypeOK
  <2> QED
    BY <1>12, <2>1, <2>2, <2>3 DEF RenameDirectory, TypeOK
<1>13. CASE Release(p)
  <2>1. holds' \in [Frames -> SUBSET (DirPaths \cup Paths)]
    BY <1>13 DEF Release, Mutex!Leave, TypeOK
  <2>2. pc' \in [Procs -> Places] /\ op' \in [Procs -> Calls]
    BY <1>13, DoneTypes DEF Release, TypeOK
  <2> QED
    BY <1>13, <2>1, <2>2 DEF Release, TypeOK
<1> QED
  BY <1>1, <1>2, <1>3, <1>4, <1>5, <1>6, <1>7, <1>8, <1>9, <1>10, <1>11, <1>12, <1>13
  DEF Step, Upload, Manage

-----------------------------------------------------------------------------
(* The calls and the locks *)

\* A step of one thread leaves the calls and the locks of the others alone.
LEMMA Others ==
    ASSUME TypeOK, NEW p \in Procs, Step(p), NEW q \in Procs, q # p
    PROVE  pc'[q] = pc[q] /\ op'[q] = op[q] /\ Owned(q)' = Owned(q)
<1> USE DEF GoTo, Done, TypeOK
<1>1. pc'[q] = pc[q] /\ op'[q] = op[q]
  <2>1. CASE Begin(p) \/ Acquire(p) \/ ChooseName(p) \/ MakePart(p) \/ CopyCurrent(p)
    BY <2>1 DEF Begin, Acquire, ChooseName, MakePart, CopyCurrent
  <2>2. CASE WriteChunk(p) \/ Sync(p) \/ FailUpload(p) \/ Replace(p) \/ RemovePart(p)
    BY <2>2 DEF WriteChunk, Sync, FailUpload, Replace, RemovePart
  <2>3. CASE DeleteFile(p) \/ RemoveDirectory(p) \/ MakeDirectory(p) \/ MakeFolder(p) \/ CheckRename(p)
    BY <2>3 DEF DeleteFile, RemoveDirectory, MakeDirectory, MakeFolder, CheckRename
  <2>4. CASE RenameEntry(p) \/ RenameDirectory(p) \/ Release(p)
    BY <2>4 DEF RenameEntry, RenameDirectory, Release
  <2> QED
    BY <2>1, <2>2, <2>3, <2>4 DEF Step, Upload, Manage
<1>2. Owned(q)' = Owned(q)
  <2>1. holds' = holds \/ \E i \in {"outer", "inner"} : \E K : holds' = [holds EXCEPT ![<<p, i>>] = K]
    <3>1. CASE Acquire(p) \/ ChooseName(p)
      BY <3>1 DEF Acquire, ChooseName, Mutex!Enter
    <3>2. CASE Release(p)
      BY <3>2 DEF Release, Mutex!Leave, Innermost
    <3> QED
      BY <3>1, <3>2 DEF Step, Upload, Manage, Begin, MakePart, CopyCurrent, WriteChunk, Sync,
         FailUpload, Replace, RemovePart, DeleteFile, RemoveDirectory, MakeDirectory, MakeFolder,
         CheckRename, RenameEntry, RenameDirectory
  <2>2. \A i \in {"outer", "inner"} : <<q, i>> \in Frames /\ holds'[<<q, i>>] = holds[<<q, i>>]
    BY <2>1 DEF Frames
  <2> QED
    BY <2>2 DEF Owned
<1> QED
  BY <1>1, <1>2

LEMMA NameStep ==
    ASSUME TypeOK, CallInv, NamedOnce, NEW p \in Procs, Step(p) PROVE NamedOnce'
<1>1. CASE RemoveDirectory(p)
  BY <1>1 DEF RemoveDirectory, NamedOnce, TypeOK
<1>2. CASE MakeDirectory(p)
  BY <1>2 DEF MakeDirectory, NewDir, NamedOnce, Linked, TypeOK
<1>3. CASE RenameDirectory(p)
  <2>1. \/ dirAt' = dirAt
        \/ dirAt' = [dirAt EXCEPT ![op[p].src[1]] = None, ![op[p].dst[1]] = dirAt[op[p].src[1]]]
    BY <1>3 DEF RenameDirectory
  <2>2. op[p].src[1] \in DirNames /\ op[p].dst[1] \in DirNames
    BY <1>3, PathFacts DEF RenameDirectory, CallInv, PathsFit
  <2>3. CASE dirAt' = [dirAt EXCEPT ![op[p].src[1]] = None, ![op[p].dst[1]] = dirAt[op[p].src[1]]]
    <3>1. \A x \in DirNames : dirAt'[x] = IF x = op[p].dst[1] THEN dirAt[op[p].src[1]]
                                         ELSE IF x = op[p].src[1] THEN None ELSE dirAt[x]
      BY <2>2, <2>3 DEF TypeOK
    <3> QED
      BY <2>2, <3>1 DEF NamedOnce
  <2> QED
    BY <2>1, <2>3 DEF NamedOnce
<1>4. CASE UNCHANGED dirAt
  BY <1>4 DEF NamedOnce
<1> QED
  BY <1>1, <1>2, <1>3, <1>4 DEF Step, Begin, Acquire, Release, Upload, Manage, ChooseName, MakePart,
     CopyCurrent, WriteChunk, Sync, FailUpload, Replace, RemovePart, DeleteFile, MakeFolder,
     CheckRename, RenameEntry

\* Numbers are given to operations once, and an upload that is to be published was so.
LEMMA NumberStep ==
    ASSUME TypeOK, CallInv, NEW p \in Procs, Step(p)
    PROVE  /\ begun \in Nat /\ (begun' = begun \/ begun' = begun + 1)
           /\ \A q \in Procs : pc'[q] # "idle" =>
                \/ /\ pc[q] # "idle" /\ op'[q].id = op[q].id
                   /\ WillPublish(q)' => WillPublish(q)
                \/ begun' = begun + 1 /\ op'[q].id = begun' /\ q = p
<1> USE DEF history, GoTo
<1>1. begun \in Nat /\ (begun' = begun \/ begun' = begun + 1)
  <2>1. begun' = begun \/ begun' = begun + 1
    BY DEF Step, Upload, Manage, Begin, Acquire, Release, ChooseName, MakePart, CopyCurrent,
       WriteChunk, Sync, FailUpload, Replace, RemovePart, DeleteFile, RemoveDirectory, MakeDirectory,
       MakeFolder, CheckRename, RenameEntry, RenameDirectory
  <2> QED
    BY <2>1, BoundsAssumption DEF TypeOK, Ids
<1>2. ASSUME NEW q \in Procs, q # p
      PROVE  pc'[q] = pc[q] /\ op'[q] = op[q] /\ (WillPublish(q)' => WillPublish(q))
  BY <1>2, Others DEF WillPublish
<1>3. CASE Begin(p)
  <2>1. PICK r \in Requests(begun + 1) : op' = [op EXCEPT ![p] = r]
    BY <1>3 DEF Begin
  <2>2. begun + 1 \in Ids /\ begun + 1 > 0 /\ begun' = begun + 1
    BY <1>3, BoundsAssumption DEF Begin, TypeOK, Ids
  <2>3. op'[p].id = begun'
    BY <2>1, <2>2, RequestFacts DEF TypeOK
  <2> QED
    BY <1>1, <1>2, <2>2, <2>3
<1>4. CASE ~Begin(p)
  <2>1. pc'[p] # "idle" => pc[p] # "idle" /\ op'[p].id = op[p].id /\ (WillPublish(p)' => WillPublish(p))
    <3>1. CASE Acquire(p) \/ MakePart(p) \/ CopyCurrent(p) \/ WriteChunk(p) \/ Sync(p) \/ FailUpload(p)
      BY <3>1 DEF Acquire, MakePart, CopyCurrent, WriteChunk, Sync, FailUpload, TypeOK, WillPublish
    <3>2. CASE Replace(p) \/ RemovePart(p) \/ DeleteFile(p) \/ RemoveDirectory(p) \/ CheckRename(p)
               \/ RenameEntry(p) \/ RenameDirectory(p)
      BY <3>2 DEF Replace, RemovePart, DeleteFile, RemoveDirectory, CheckRename, RenameEntry,
         RenameDirectory, TypeOK, WillPublish
    <3>3. CASE MakeDirectory(p) \/ MakeFolder(p) \/ Release(p)
      BY <3>3 DEF MakeDirectory, MakeFolder, Release, Done, TypeOK, WillPublish
    <3>4. CASE ChooseName(p)
      <4>1. pc[p] = "naming" /\ (op' = op \/ \E x : op' = [op EXCEPT ![p].src = x])
        BY <3>4 DEF ChooseName
      <4>2. op'[p].id = op[p].id
        BY <4>1 DEF TypeOK, Calls
      <4> QED
        BY <4>1, <4>2 DEF WillPublish
    <3> QED
      BY <1>4, <3>1, <3>2, <3>3, <3>4 DEF Step, Upload, Manage
  <2> QED
    BY <1>1, <1>2, <2>1
<1> QED
  BY <1>1, <1>3, <1>4

LEMMA CallStep ==
    ASSUME TypeOK, CallInv, NEW p \in Procs, Step(p) PROVE CallInv'
<1> USE DEF GoTo, HasPart, InUpload, Uploading
<1> DEFINE Good(q) ==
        /\ pc[q] # "idle" => op[q].kind \in AllKinds /\ PathsFit(q)
        /\ pc[q] = "naming" => op[q].kind = "STOU"
        /\ InUpload(q) => op[q].kind \in Uploading
        /\ pc[q] = "copying" => op[q].kind = "APPE"
        /\ pc[q] = "making" => op[q].src \in Paths /\ op[q].kind = "MKD"
        /\ pc[q] \in {"body", "renaming"} => op[q].kind \notin Uploading
<1>1. ASSUME NEW q \in Procs, q # p PROVE Good(q)'
  BY <1>1, Others DEF CallInv, PathsFit
<1>2. Good(p)'
  <2>1. Good(p) /\ pc[p] \in Places
    BY DEF CallInv, TypeOK
  <2>2. CASE Begin(p)
    <3>1. PICK r \in Requests(begun + 1) : op' = [op EXCEPT ![p] = r]
      BY <2>2 DEF Begin
    <3>2. begun + 1 \in Ids /\ begun + 1 > 0
      BY <2>2, BoundsAssumption DEF Begin, TypeOK, Ids
    <3>3. pc'[p] = "asking" /\ op'[p] = r
      BY <2>2, <3>1 DEF Begin, TypeOK
    <3>4. /\ r.id = begun + 1 /\ r.kind \in AllKinds
          /\ r.kind \in {"STOR", "APPE", "DELE"} => r.src \in Paths /\ r.dst = None
          /\ r.kind \in {"RMD", "MKD"} => r.src \in DirPaths \cup Paths /\ r.dst = None
          /\ r.kind = "STOU" => r.src \in DirPaths /\ r.dst = None
          /\ r.kind = "RNTO" => r.src \in Paths /\ r.dst \in Paths
          /\ r.kind = "MOVE" => r.src \in DirPaths /\ r.dst \in DirPaths
          /\ r.src \in Paths /\ r.src[2] \in PartNames => r.src[2] < r.id
      BY <3>2, RequestFacts
    <3> QED
      BY <3>3, <3>4 DEF PathsFit
  <2>3. CASE Acquire(p)
    <3>1. /\ op'[p] = op[p] /\ pc[p] = "asking"
          /\ pc'[p] = IF op[p].kind = "STOU" THEN "naming"
                      ELSE IF op[p].kind \in Uploading THEN "locked" ELSE "body"
      BY <2>3 DEF Acquire, TypeOK
    <3> QED
      BY <2>1, <3>1 DEF PathsFit
  <2>4. CASE ChooseName(p)
    <3>1. pc[p] = "naming" /\ op[p].kind = "STOU" /\ op[p].src \in DirPaths /\ op[p].dst = None
      BY <2>1, <2>4 DEF ChooseName, PathsFit
    <3>2. CASE pc'[p] = "unlocking" /\ op'[p] = op[p]
      BY <2>1, <3>1, <3>2 DEF PathsFit
    <3>3. CASE /\ pc'[p] = "locked"
               /\ \E n \in Names : op'[p] = [op[p] EXCEPT !.src = <<op[p].src[1], n>>]
      <4>1. PICK x \in Ordinary : op'[p] = [op[p] EXCEPT !.src = x]
        BY <3>1, <3>3, PathFacts
      <4>2. op'[p].kind = "STOU" /\ op'[p].src = x /\ op'[p].dst = None
        BY <3>1, <4>1 DEF TypeOK, Calls
      <4>3. x[2] \notin PartNames
        BY PathFacts, NameFacts
      <4> QED
        BY <3>3, <4>2, <4>3 DEF PathsFit, AllKinds, Ordinary
    <3> QED
      BY <2>4, <3>2, <3>3 DEF ChooseName, TypeOK
  <2>5. CASE pc'[p] = "idle"
    BY <2>5
  <2>6. CASE /\ op'[p] = op[p] /\ pc[p] # "idle"
             /\ \/ pc'[p] = pc[p] \/ pc'[p] = "unlocking"
                \/ pc[p] = "locked" /\ pc'[p] = IF op[p].kind = "APPE" THEN "copying" ELSE "writing"
                \/ HasPart(p) /\ pc'[p] \in {"writing", "replacing", "removing"}
                \/ pc[p] = "body" /\ pc'[p] = "renaming"
    BY <2>1, <2>6 DEF PathsFit
  <2>7. CASE MakePart(p) \/ CopyCurrent(p) \/ WriteChunk(p) \/ Sync(p) \/ FailUpload(p) \/ Replace(p)
             \/ RemovePart(p)
    BY <2>6, <2>7 DEF MakePart, CopyCurrent, WriteChunk, Sync, FailUpload, Replace, RemovePart, TypeOK
  <2>8. CASE DeleteFile(p) \/ RemoveDirectory(p) \/ CheckRename(p) \/ RenameEntry(p)
             \/ RenameDirectory(p)
    BY <2>6, <2>8 DEF DeleteFile, RemoveDirectory, CheckRename, RenameEntry, RenameDirectory, TypeOK
  <2>9. CASE MakeFolder(p) \/ Release(p)
    BY <2>5, <2>6, <2>9 DEF MakeFolder, Release, Done
  <2>10. CASE MakeDirectory(p)
    <3>1. CASE Done({p})
      BY <2>5, <3>1 DEF Done
    <3>2. CASE ~Done({p})
      <4>1. pc[p] = "asking" /\ op[p].kind = "MKD" /\ op[p].src \notin DirPaths
        BY <2>10, <3>2 DEF MakeDirectory
      <4>2. pc'[p] = "making" /\ op'[p] = op[p]
        BY <2>10, <3>2 DEF MakeDirectory, TypeOK
      <4>3. op[p].src \in Paths
        BY <2>1, <4>1 DEF PathsFit
      <4> QED
        BY <2>1, <4>1, <4>2, <4>3 DEF PathsFit
    <3> QED
      BY <3>1, <3>2
  <2> QED
    BY <2>2, <2>3, <2>4, <2>7, <2>8, <2>9, <2>10 DEF Step, Upload, Manage
<1>3. ASSUME NEW q \in Procs, pc'[q] # "idle" PROVE op'[q].id \in 1 .. begun'
  BY <1>3, NumberStep DEF CallInv
<1>4. ASSUME NEW q \in Procs, NEW r \in Procs, pc'[q] # "idle", pc'[r] # "idle", op'[q].id = op'[r].id
      PROVE  q = r
  BY <1>4, NumberStep DEF CallInv
<1> QED
  BY <1>1, <1>2, <1>3, <1>4 DEF CallInv

\* A thread gets paths that nobody has, and keeps those it works on.
LEMMA LockStep ==
    ASSUME TypeOK, CallInv, LockInv, NEW p \in Procs, Step(p) PROVE LockInv'
<1> USE DEF GoTo
<1> DEFINE Holds(q) ==
        /\ pc[q] \in {"naming", "body", "renaming"} \/ InUpload(q) => LockSet(op[q]) \subseteq Owned(q)
        /\ InUpload(q) /\ op[q].kind = "STOU" => <<op[q].src[1]>> \in Owned(q)
<1>1. \/ Owned(p)' \subseteq Owned(p)
      \/ \E K : /\ \A g \in Frames : holds[g] \cap K = {}
                /\ Owned(p)' \subseteq Owned(p) \cup K
  <2>1. CASE Acquire(p) \/ ChooseName(p)
    <3>1. \/ holds' = holds
          \/ \E i \in {"outer", "inner"} : \E K :
                /\ \A g \in Frames : holds[g] \cap K = {}
                /\ holds' = [holds EXCEPT ![<<p, i>>] = K]
      BY <2>1 DEF Acquire, ChooseName, Mutex!Enter
    <3>2. ASSUME NEW i \in {"outer", "inner"}, NEW K,
                 holds' = [holds EXCEPT ![<<p, i>>] = K]
          PROVE  Owned(p)' \subseteq Owned(p) \cup K
      <4>1. \A j \in {"outer", "inner"} : <<p, j>> \in DOMAIN holds
        BY DEF Frames, TypeOK
      <4>2. holds'[<<p, i>>] = K
        BY <3>2, <4>1
      <4>3. \A j \in {"outer", "inner"} : j # i => holds'[<<p, j>>] = holds[<<p, j>>]
        BY <3>2, <4>1
      <4> QED
        BY <4>2, <4>3 DEF Owned
    <3>3. CASE holds' = holds
      BY <3>3 DEF Owned
    <3> QED
      BY <3>1, <3>2, <3>3
  <2>2. CASE Release(p)
    BY <2>2 DEF Release, Mutex!Leave, Owned, Frames, TypeOK
  <2>3. CASE UNCHANGED holds
    BY <2>3 DEF Owned
  <2> QED
    BY <2>1, <2>2, <2>3 DEF Step, Upload, Manage, Begin, MakePart, CopyCurrent, WriteChunk, Sync,
       FailUpload, Replace, RemovePart, DeleteFile, RemoveDirectory, MakeDirectory, MakeFolder,
       CheckRename, RenameEntry, RenameDirectory
<1>2. ASSUME NEW q \in Procs, q # p PROVE Owned(p)' \cap Owned(q)' = {}
  <2>1. Owned(q)' = Owned(q) /\ Owned(p) \cap Owned(q) = {}
    BY <1>2, Others DEF LockInv
  <2>2. \A K : (\A g \in Frames : holds[g] \cap K = {}) => Owned(q) \cap K = {}
    BY DEF Owned, Frames
  <2> QED
    BY <1>1, <2>1, <2>2
<1>3. \A q, r \in Procs : q # r => Owned(q)' \cap Owned(r)' = {}
  BY <1>2, Others DEF LockInv
<1>4. ASSUME NEW q \in Procs, q # p PROVE Holds(q)'
  BY <1>4, Others DEF LockInv, InUpload, HasPart, LockSet
<1>5. Holds(p)'
  <2>1. Holds(p) /\ pc[p] \in Places
    BY DEF LockInv, TypeOK
  <2>2. CASE Acquire(p)
    <3>1. LockSet(op[p]) \subseteq Owned(p)' /\ op'[p] = op[p]
      BY <2>2 DEF Acquire, Mutex!Enter, Owned, Frames, TypeOK
    <3>2. pc'[p] = "locked" => op[p].kind # "STOU"
      BY <2>2 DEF Acquire, TypeOK
    <3>3. ~HasPart(p)'
      BY <2>2 DEF Acquire, TypeOK, HasPart
    <3> QED
      BY <3>1, <3>2, <3>3 DEF InUpload, LockSet
  <2>3. CASE ChooseName(p)
    <3>1. CASE pc'[p] = "unlocking"
      BY <3>1 DEF InUpload, HasPart
    <3>2. CASE \E n \in Names :
                 /\ Mutex!Enter(<<p, "inner">>, {<<op[p].src[1], n>>})
                 /\ op' = [op EXCEPT ![p].src = <<op[p].src[1], n>>]
                 /\ pc'[p] = "locked"
      <4>1. PICK n \in Names :
              /\ Mutex!Enter(<<p, "inner">>, {<<op[p].src[1], n>>})
              /\ op' = [op EXCEPT ![p].src = <<op[p].src[1], n>>]
              /\ pc'[p] = "locked"
        BY <3>2
      <4> DEFINE x == <<op[p].src[1], n>>
      <4>2. /\ op[p].src \in DirPaths /\ op[p].dst = None /\ op[p].kind = "STOU"
            /\ LockSet(op[p]) \subseteq Owned(p)
        BY <2>1, <2>3 DEF ChooseName, CallInv, PathsFit
      <4>3. x \in Paths /\ x[1] = op[p].src[1] /\ <<x[1]>> = op[p].src
        BY <4>2, PathFacts, NameFacts
      <4>4. op'[p].src = x /\ op'[p].dst = None
        BY <4>1, <4>2 DEF TypeOK, Calls
      <4>5. x \in Owned(p)' /\ Owned(p) \subseteq Owned(p)'
        BY <4>1 DEF Mutex!Enter, Owned, Frames, TypeOK
      <4>6. op[p].src \in Owned(p)
        BY <4>2, NothingAssumption DEF LockSet
      <4> HIDE DEF x
      <4>7. LockSet(op'[p]) \subseteq Owned(p)'
        BY <4>4, <4>5 DEF LockSet
      <4>8. <<op'[p].src[1]>> \in Owned(p)'
        BY <4>3, <4>4, <4>5, <4>6
      <4> QED
        BY <4>7, <4>8 DEF LockSet
    <3> QED
      BY <2>3, <3>1, <3>2 DEF ChooseName, TypeOK
  <2>4. CASE UNCHANGED <<op, holds>> /\ (pc'[p] \in {"naming", "body", "renaming"} \/ InUpload(p)' =>
                                        pc[p] \in {"naming", "body", "renaming"} \/ InUpload(p))
                                     /\ (InUpload(p)' => InUpload(p))
    BY <2>1, <2>4 DEF LockSet, Owned
  <2>5. CASE MakePart(p) \/ CopyCurrent(p) \/ WriteChunk(p) \/ Sync(p) \/ FailUpload(p) \/ Replace(p)
             \/ RemovePart(p)
    BY <2>4, <2>5 DEF MakePart, CopyCurrent, WriteChunk, Sync, FailUpload, Replace, RemovePart, TypeOK,
       InUpload, HasPart
  <2>6. CASE DeleteFile(p) \/ RemoveDirectory(p) \/ CheckRename(p) \/ RenameEntry(p)
             \/ RenameDirectory(p)
    BY <2>4, <2>6 DEF DeleteFile, RemoveDirectory, CheckRename, RenameEntry, RenameDirectory, TypeOK,
       InUpload, HasPart
  <2>7. CASE Begin(p) \/ MakeDirectory(p) \/ MakeFolder(p) \/ Release(p)
    <3>1. pc'[p] \in {"idle", "asking", "making", "unlocking"}
      BY <2>7 DEF Begin, MakeDirectory, MakeFolder, Release, Done, TypeOK
    <3> QED
      BY <3>1 DEF InUpload, HasPart
  <2> QED
    BY <2>2, <2>3, <2>5, <2>6, <2>7 DEF Step, Upload, Manage
<1> QED
  BY <1>3, <1>4, <1>5 DEF LockInv

\* A thread that is at work holds the paths of its operation.
LEMMA Locked ==
    ASSUME TypeOK, CallInv, LockInv, NEW p \in Procs, InUpload(p) \/ pc[p] \in {"body", "renaming"}
    PROVE  /\ op[p].src \in Owned(p)
           /\ op[p].kind \in {"RNTO", "MOVE"} => op[p].dst \in Owned(p)
<1>1. LockSet(op[p]) \subseteq Owned(p)
  BY DEF LockInv
<1>2. op[p].src # None
  <2>1. CASE InUpload(p)
    BY <2>1, UploadPath, NothingAssumption
  <2>2. CASE pc[p] \in {"body", "renaming"}
    <3>1. op[p].src \in DirPaths \cup Paths
      BY <2>2 DEF CallInv, PathsFit, AllKinds, Uploading
    <3> QED
      BY <3>1, NothingAssumption
  <2> QED
    BY <2>1, <2>2
<1>3. op[p].kind \in {"RNTO", "MOVE"} => op[p].dst # None
  <2>1. pc[p] # "idle"
    BY DEF InUpload, HasPart
  <2>2. op[p].kind \in {"RNTO", "MOVE"} => op[p].dst \in DirPaths \cup Paths
    BY <2>1 DEF CallInv, PathsFit
  <2> QED
    BY <2>2, NothingAssumption
<1> QED
  BY <1>1, <1>2, <1>3 DEF LockSet

\* Threads that are at work do not hold each other's paths.
LEMMA NotOwned ==
    ASSUME TypeOK, CallInv, LockInv, NEW p \in Procs, NEW q \in Procs, q # p
    PROVE  /\ InUpload(q) => op[q].src \notin Owned(p)
           /\ InUpload(q) /\ op[q].kind = "STOU" => <<op[q].src[1]>> \notin Owned(p)
           /\ pc[q] = "renaming" /\ op[q].kind = "RNTO" => op[q].dst \notin Owned(p)
<1>1. Owned(p) \cap Owned(q) = {}
  BY DEF LockInv
<1>2. InUpload(q) => op[q].src \in Owned(q)
  BY Locked
<1>3. InUpload(q) /\ op[q].kind = "STOU" => <<op[q].src[1]>> \in Owned(q)
  BY DEF LockInv
<1>4. pc[q] = "renaming" /\ op[q].kind = "RNTO" => op[q].dst \in Owned(q)
  BY Locked
<1> QED
  BY <1>1, <1>2, <1>3, <1>4

-----------------------------------------------------------------------------
(* The files *)

LEMMA SoundGrows ==
    ASSUME NEW data, NEW ids, NEW more, ids \subseteq more, Sound(data, ids)
    PROVE  Sound(data, more)
BY DEF Sound

\* An upload that is whole and was not published can be added.
LEMMA SoundAppend ==
    ASSUME NEW data \in Seq(Pieces), NEW ids, NEW id \in Ids, id \notin ids, Sound(data, ids)
    PROVE  Sound(Append(data, Piece(id, Chunks)), ids \cup {id})
<1> DEFINE piece == Piece(id, Chunks)
           longer == Append(data, piece)
<1>1. piece \in Pieces /\ piece.by = id /\ piece.chunks = Chunks
  BY BoundsAssumption DEF Piece, Pieces
<1> HIDE DEF piece
<1>2. /\ longer \in Seq(Pieces) /\ Len(longer) = Len(data) + 1
      /\ \A i \in 1 .. Len(data) : longer[i] = data[i]
      /\ longer[Len(data) + 1] = piece
  BY <1>1, AppendProperties
<1> HIDE DEF longer
<1>3. /\ DOMAIN data = 1 .. Len(data) /\ Len(data) \in Nat
      /\ DOMAIN longer = 1 .. (Len(data) + 1)
  BY <1>2
<1>4. ASSUME NEW i \in DOMAIN longer
      PROVE  /\ longer[i].chunks = Chunks /\ longer[i].by \in ids \cup {id}
             /\ longer[i].by = id <=> i = Len(data) + 1
  <2>1. CASE i = Len(data) + 1
    BY <1>1, <1>2, <2>1
  <2>2. CASE i \in 1 .. Len(data)
    BY <1>2, <1>3, <2>2 DEF Sound
  <2> QED
    BY <1>3, <2>1, <2>2
<1>5. ASSUME NEW i \in DOMAIN longer, NEW j \in DOMAIN longer, longer[i].by = longer[j].by
      PROVE  i = j
  <2>1. CASE i \in 1 .. Len(data) /\ j \in 1 .. Len(data)
    BY <1>2, <1>3, <1>5, <2>1 DEF Sound
  <2> QED
    BY <1>3, <1>4, <1>5, <2>1
<1> QED
  BY <1>4, <1>5 DEF Sound, longer, piece

\* A published file that was not touched is whole.
LEMMA WholeContent ==
    ASSUME TypeOK, CopyInv, NEW id \in Ids \ touched, id \in Published, written[id] = Chunks
    PROVE  Sound(Content(id), Published)
<1>1. Sound(copied[id], Published \ {id}) /\ copied[id] \in Seq(Pieces)
  BY DEF CopyInv, TypeOK
<1>2. Sound(Append(copied[id], Piece(id, Chunks)), (Published \ {id}) \cup {id})
  BY <1>1, SoundAppend
<1>3. (Published \ {id}) \cup {id} = Published
  OBVIOUS
<1> QED
  BY <1>2, <1>3 DEF Content

\* Nothing that was published becomes unpublished.
LEMMA PublishedGrows ==
    ASSUME TypeOK, CallInv, NEW p \in Procs, Step(p) PROVE Published \subseteq Published'
<1> SUFFICES ASSUME NEW id \in Published PROVE id \in Published'
  OBVIOUS
<1>1. /\ id \in 0 .. begun /\ begun \in Nat
      /\ \A q \in Procs : WillPublish(q) => op[q].id # id
  BY NumberStep DEF Published
<1>2. id \in 0 .. begun'
  BY <1>1, NumberStep
<1>3. ASSUME NEW q \in Procs, WillPublish(q)' PROVE op'[q].id # id
  <2>1. pc'[q] # "idle"
    BY <1>3 DEF WillPublish
  <2> QED
    BY <1>1, <1>3, <2>1, NumberStep
<1> QED
  BY <1>2, <1>3 DEF Published

\* A thread changes the file of its own upload only.
LEMMA NodeStep ==
    ASSUME TypeOK, NEW p \in Procs, Step(p), NEW id \in Ids
    PROVE  /\ \/ copied'[id] = copied[id]
              \/ /\ CopyCurrent(p) /\ id = op[p].id /\ HasFile(op[p].src)
                 /\ copied'[id] = Content(EntryOf(op[p].src))
           /\ written'[id] = written[id] \/ (WriteChunk(p) /\ id = op[p].id)
           /\ synced'[id] = synced[id] \/ (Sync(p) /\ id = op[p].id /\ synced'[id])
<1> USE DEF nodes, TypeOK
<1>1. CASE CopyCurrent(p)
  BY <1>1 DEF CopyCurrent
<1>2. CASE WriteChunk(p)
  BY <1>2 DEF WriteChunk
<1>3. CASE Sync(p)
  BY <1>3 DEF Sync, Synced
<1>4. CASE UNCHANGED nodes
  BY <1>4
<1> QED
  BY <1>1, <1>2, <1>3, <1>4 DEF Step, Upload, Manage, Begin, Acquire, Release, ChooseName, MakePart,
     FailUpload, Replace, RemovePart, DeleteFile, RemoveDirectory, MakeDirectory, MakeFolder,
     CheckRename, RenameEntry, RenameDirectory

\* A published file does not change.
LEMMA PublishedStays ==
    ASSUME TypeOK, NEW p \in Procs, Step(p), NEW id \in Published \cap Ids
    PROVE  /\ copied'[id] = copied[id] /\ written'[id] = written[id] /\ Content(id)' = Content(id)
           /\ synced[id] => synced'[id]
<1>1. WillPublish(p) => op[p].id # id
  BY DEF Published
<1>2. CopyCurrent(p) \/ WriteChunk(p) => WillPublish(p)
  BY DEF CopyCurrent, WriteChunk, WillPublish
<1> QED
  BY <1>1, <1>2, NodeStep DEF Content

LEMMA SetValue ==
    ASSUME TypeOK, NEW x, NEW e, NEW d \in Dirs, NEW n \in AllNames
    PROVE  SetEntry(x, e)[d][n] = IF d = dirAt[x[1]] /\ n = x[2] THEN e ELSE entries[d][n]
BY DEF SetEntry, TypeOK

LEMMA MoveValue ==
    ASSUME NEW x, NEW y, NEW d \in Dirs, NEW n \in AllNames
    PROVE  MoveEntry(x, y)[d][n] = IF d = dirAt[y[1]] /\ n = y[2] THEN EntryOf(x)
                                   ELSE IF d = dirAt[x[1]] /\ n = x[2] THEN None
                                   ELSE entries[d][n]
BY DEF MoveEntry

\* How a file comes under a name
LEMMA EntryStep ==
    ASSUME TypeOK, NEW p \in Procs, Step(p), NEW d \in Dirs, NEW n \in AllNames,
           entries'[d][n] \in Ids, entries'[d][n] # entries[d][n]
    PROVE  \/ /\ MakePart(p) /\ n = op[p].id /\ entries'[d][n] = n
              /\ HasDir(op[p].src) /\ d = dirAt[op[p].src[1]]
           \/ /\ Replace(p) /\ pc'[p] = "unlocking" /\ HasFile(TempPath(p))
              /\ n = op[p].src[2] /\ entries'[d][n] = EntryOf(TempPath(p))
           \/ /\ RenameEntry(p) /\ HasFile(op[p].src) /\ n = op[p].dst[2]
              /\ entries'[d][n] = EntryOf(op[p].src)
              /\ {op[p].src[2], n} \cap PartNames # {} => EntryOf(op[p].src) \in touched'
<1>1. CASE MakePart(p)
  <2>1. entries' = SetEntry(TempPath(p), op[p].id) /\ HasDir(op[p].src)
    BY <1>1 DEF MakePart
  <2> QED
    BY <1>1, <2>1, SetValue DEF TempPath
<1>2. CASE Replace(p)
  <2>1. entries' = MoveEntry(TempPath(p), op[p].src) /\ pc'[p] = "unlocking" /\ HasDir(TempPath(p))
    BY <1>2 DEF Replace, Fits, HasEntry, GoTo, TypeOK
  <2>2. n = op[p].src[2] /\ entries'[d][n] = EntryOf(TempPath(p))
    BY <2>1, MoveValue, NameFacts
  <2> QED
    BY <1>2, <2>1, <2>2 DEF HasFile
<1>3. CASE RenameEntry(p)
  <2>1. /\ entries' = MoveEntry(op[p].src, op[p].dst) /\ HasDir(op[p].src)
        /\ touched' = IF HasFile(op[p].src) /\ {op[p].src[2], op[p].dst[2]} \cap PartNames # {}
                      THEN touched \cup {EntryOf(op[p].src)} ELSE touched
    BY <1>3 DEF RenameEntry, Fits, HasEntry
  <2>2. n = op[p].dst[2] /\ entries'[d][n] = EntryOf(op[p].src)
    BY <2>1, MoveValue, NameFacts
  <2> QED
    BY <1>3, <2>1, <2>2 DEF HasFile
<1>4. CASE RemovePart(p) \/ DeleteFile(p) \/ RemoveDirectory(p) \/ MakeFolder(p)
  <2>1. entries' = entries \/ \E x : \E e \in {None, Folder} : entries' = SetEntry(x, e)
    BY <1>4 DEF RemovePart, Remaining, DeleteFile, RemoveDirectory, MakeFolder
  <2> QED
    BY <2>1, SetValue, NameFacts
<1>5. CASE UNCHANGED entries
  BY <1>5
<1> QED
  BY <1>1, <1>2, <1>3, <1>4, <1>5 DEF Step, Upload, Manage, Begin, Acquire, Release, ChooseName,
     CopyCurrent, WriteChunk, Sync, FailUpload, MakeDirectory, CheckRename, RenameDirectory

\* A thread that has got beyond its lock does not go back, nor to another operation.
LEMMA Onward ==
    ASSUME TypeOK, CallInv, NEW p \in Procs, Step(p), pc'[p] # "idle",
           pc[p] \notin {"idle", "asking", "naming", "locked", "copying"}
    PROVE  op'[p] = op[p] /\ pc'[p] \notin {"asking", "naming", "locked", "copying"}
<1> USE DEF GoTo, TypeOK
<1>1. CASE WriteChunk(p) \/ Sync(p) \/ FailUpload(p) \/ Replace(p) \/ RemovePart(p)
  BY <1>1 DEF WriteChunk, Sync, FailUpload, Replace, RemovePart
<1>2. CASE DeleteFile(p) \/ RemoveDirectory(p) \/ CheckRename(p) \/ RenameEntry(p) \/ RenameDirectory(p)
  BY <1>2 DEF DeleteFile, RemoveDirectory, CheckRename, RenameEntry, RenameDirectory
<1>3. CASE MakeFolder(p) \/ Release(p)
  BY <1>3 DEF MakeFolder, Release, Done
<1>4. ~(Begin(p) \/ Acquire(p) \/ ChooseName(p) \/ MakePart(p) \/ CopyCurrent(p) \/ MakeDirectory(p))
  BY DEF Begin, Acquire, ChooseName, MakePart, CopyCurrent, MakeDirectory
<1> QED
  BY <1>1, <1>2, <1>3, <1>4 DEF Step, Upload, Manage

LEMMA CopyStep ==
    ASSUME TypeOK, CallInv, CopyInv, FileInv, NEW p \in Procs, Step(p)
    PROVE  CopyInv'
<1>0. Published \subseteq Published' /\ touched \subseteq touched'
  BY PublishedGrows, TouchedStep
<1>1. ASSUME CopyCurrent(p)
      PROVE  /\ op[p].src \in Paths /\ pc[p] = "copying" /\ pc'[p] = "writing" /\ op'[p] = op[p]
             /\ op[p].kind = "APPE" /\ op[p].id \in 1 .. begun /\ op[p].id \notin Published
  <2>1. pc[p] = "copying" /\ pc'[p] = "writing" /\ op'[p] = op[p] /\ WillPublish(p)
    BY <1>1 DEF CopyCurrent, GoTo, TypeOK, WillPublish
  <2>2. op[p].id \notin Published
    BY <2>1 DEF Published
  <2> QED
    BY <2>1, <2>2, UploadPath DEF CallInv, InUpload, HasPart
<1>2. ASSUME NEW id \in Ids, id \notin touched'
      PROVE  Sound(copied'[id], Published' \ {id})
  <2>1. CASE copied'[id] = copied[id]
    <3>1. Sound(copied[id], Published \ {id})
      BY <1>0, <1>2 DEF CopyInv
    <3> QED
      BY <1>0, <2>1, <3>1, SoundGrows
  <2>2. CASE /\ CopyCurrent(p) /\ id = op[p].id /\ HasFile(op[p].src)
             /\ copied'[id] = Content(EntryOf(op[p].src))
    <3> DEFINE e == EntryOf(op[p].src)
    <3>1. op[p].src[2] \notin PartNames /\ e \notin touched
      BY <1>2, <2>2 DEF CopyCurrent
    <3>2. op[p].src[2] \in Names /\ op[p].src[2] \in AllNames /\ HasDir(op[p].src)
      BY <1>1, <2>2, <3>1, PathFacts, NameFacts DEF Ordinary, HasFile
    <3>3. e \in Ids /\ dirAt[op[p].src[1]] \in Dirs
      BY <1>1, <2>2, EntryFacts DEF HasFile
    <3>4. written[e] = Chunks /\ e \in Published
      BY <3>1, <3>2, <3>3, NameFacts DEF FileInv, EntryOf
    <3>5. Sound(Content(e), Published)
      BY <3>1, <3>3, <3>4, WholeContent
    <3>6. Published \subseteq Published' \ {id}
      BY <1>0, <1>1, <2>2
    <3> QED
      BY <2>2, <3>5, <3>6, SoundGrows
  <2> QED
    BY <2>1, <2>2, NodeStep
<1>3. ASSUME NEW id \in Ids, id > begun' PROVE copied'[id] = <<>>
  <2>1. id > begun /\ begun \in Nat /\ id \in Nat
    BY <1>3, NumberStep, BoundsAssumption DEF Ids
  <2>2. copied'[id] = copied[id]
    BY <1>1, <2>1, NodeStep
  <2> QED
    BY <2>1, <2>2 DEF CopyInv
<1>4. ASSUME NEW q \in Procs, pc'[q] # "idle", copied'[op'[q].id] # <<>>
      PROVE  op'[q].kind = "APPE" /\ pc'[q] \notin {"asking", "naming", "locked", "copying"}
  <2>1. TypeOK' /\ op'[q].id \in Ids
    BY TypeStep DEF TypeOK, Calls
  <2>2. CASE begun' = begun + 1 /\ op'[q].id = begun'
    <3>1. op'[q].id > begun /\ begun \in Nat
      BY <2>2, NumberStep
    <3>2. copied'[op'[q].id] = copied[op'[q].id]
      BY <1>1, <2>1, <3>1, NodeStep
    <3> QED
      BY <1>4, <2>1, <3>1, <3>2 DEF CopyInv
  <2>3. CASE pc[q] # "idle" /\ op'[q].id = op[q].id
    <3>1. CASE q # p
      <4>1. pc'[q] = pc[q] /\ op'[q] = op[q]
        BY <3>1, Others
      <4>2. copied'[op[q].id] = copied[op[q].id]
        <5>1. CopyCurrent(p) => op[q].id # op[p].id
          BY <1>1, <2>3, <3>1 DEF CallInv
        <5> QED
          BY <2>1, <4>1, <5>1, NodeStep
      <4> QED
        BY <1>4, <2>3, <4>1, <4>2 DEF CopyInv
    <3>2. CASE q = p /\ CopyCurrent(p)
      BY <1>1, <3>2
    <3>3. CASE q = p /\ ~CopyCurrent(p)
      <4>1. copied'[op[p].id] = copied[op[p].id]
        BY <2>1, <2>3, <3>3, NodeStep
      <4>2. op[p].kind = "APPE" /\ pc[p] \notin {"idle", "asking", "naming", "locked", "copying"}
        BY <1>4, <2>3, <3>3, <4>1 DEF CopyInv
      <4> QED
        BY <1>4, <3>3, <4>2, Onward
    <3> QED
      BY <3>1, <3>2, <3>3
  <2> QED
    BY <1>4, <2>2, <2>3, NumberStep
<1> QED
  BY <1>2, <1>3, <1>4 DEF CopyInv

LEMMA FileStep ==
    ASSUME TypeOK, CallInv, CopyInv, FileInv, NEW p \in Procs, Step(p)
    PROVE  FileInv'
<1>0. Published \subseteq Published' /\ touched \subseteq touched'
  BY PublishedGrows, TouchedStep
<1> DEFINE Kept(id) == synced[id] /\ written[id] = Chunks /\ id \in Published
           StillKept(id) == synced'[id] /\ written'[id] = Chunks /\ id \in Published'
<1>1. ASSUME NEW id \in Ids, Kept(id) PROVE StillKept(id)
  BY <1>0, <1>1, PublishedStays
<1>2. ASSUME NEW d \in Dirs, NEW n \in AllNames, entries[d][n] \in Ids,
             entries[d][n] # n, entries[d][n] \notin touched
      PROVE  Kept(entries[d][n])
  BY <1>2 DEF FileInv
<1>3. ASSUME NEW d \in Dirs, NEW n \in AllNames, entries'[d][n] \in Ids,
             entries'[d][n] # n, entries'[d][n] \notin touched'
      PROVE  StillKept(entries'[d][n])
  <2> DEFINE e == entries'[d][n]
  <2>1. e \notin touched
    BY <1>0, <1>3
  <2>2. CASE entries'[d][n] = entries[d][n]
    BY <1>1, <1>2, <1>3, <2>1, <2>2
  <2>3. CASE /\ Replace(p) /\ pc'[p] = "unlocking" /\ HasFile(TempPath(p))
             /\ e = EntryOf(TempPath(p))
    <3>1. /\ TempPath(p) \in Paths /\ TempPath(p)[2] = op[p].id /\ op[p].id \in AllNames
          /\ op[p].id \in 1 .. begun /\ pc[p] = "replacing"
      <4>1. InUpload(p) /\ pc[p] = "replacing"
        BY <2>3 DEF Replace, InUpload, HasPart
      <4> QED
        BY <4>1, UploadPath, NameFacts DEF CallInv
    <3>2. HasDir(TempPath(p)) /\ dirAt[TempPath(p)[1]] \in Dirs
      BY <2>3, <3>1, EntryFacts DEF HasFile
    <3>3. CASE e = op[p].id
      <4>1. synced[e] /\ written[e] = Chunks
        BY <3>1, <3>3 DEF FileInv, AllWritten
      <4>2. synced'[e] /\ written'[e] = Chunks
        <5>1. ~WriteChunk(p)
          BY <2>3 DEF WriteChunk, Replace
        <5> QED
          BY <1>3, <4>1, <5>1, NodeStep
      <4>3. e \in Published'
        <5>1. begun' = begun
          BY <2>3 DEF Replace, history
        <5>2. ASSUME NEW q \in Procs, WillPublish(q)' PROVE op'[q].id # e
          <6>1. CASE q = p
            BY <2>3, <5>2, <6>1 DEF WillPublish
          <6>2. CASE q # p
            <7>1. pc'[q] = pc[q] /\ op'[q] = op[q] /\ pc[q] # "idle"
              BY <5>2, <6>2, Others DEF WillPublish
            <7> QED
              BY <3>1, <3>3, <6>2, <7>1 DEF CallInv
          <6> QED
            BY <6>1, <6>2
        <5>3. e \in 0 .. begun
          BY <3>1, <3>3, NumberStep
        <5> QED
          BY <5>1, <5>2, <5>3 DEF Published
      <4> QED
        BY <4>2, <4>3
    <3>4. CASE e # op[p].id
      BY <1>1, <1>2, <1>3, <2>1, <2>3, <3>1, <3>2, <3>4 DEF EntryOf
    <3> QED
      BY <3>3, <3>4
  <2>4. CASE /\ RenameEntry(p) /\ HasFile(op[p].src) /\ e = EntryOf(op[p].src)
             /\ op[p].src[2] \notin PartNames
    <3>1. op[p].src \in Paths
      BY <2>4 DEF RenameEntry, CallInv, PathsFit
    <3>2. HasDir(op[p].src) /\ dirAt[op[p].src[1]] \in Dirs /\ op[p].src[2] \in Names /\ op[p].src[2] \in AllNames
      BY <2>4, <3>1, EntryFacts, PathFacts, NameFacts DEF HasFile
    <3>3. e # op[p].src[2] /\ e = entries[dirAt[op[p].src[1]]][op[p].src[2]]
      BY <1>3, <2>4, <3>2, NameFacts DEF EntryOf
    <3>4. Kept(e)
      <4> DEFINE c == dirAt[op[p].src[1]]
                 m == op[p].src[2]
      <4>1. /\ c \in Dirs /\ m \in AllNames /\ entries[c][m] = e
            /\ entries[c][m] \in Ids /\ entries[c][m] # m /\ entries[c][m] \notin touched
        BY <1>3, <2>1, <3>2, <3>3
      <4> HIDE DEF c, m
      <4>2. Kept(entries[c][m])
        BY <1>2, <4>1
      <4> QED
        BY <4>1, <4>2
    <3> QED
      BY <1>1, <1>3, <3>4
  <2> QED
    BY <1>3, <2>2, <2>3, <2>4, EntryStep
<1>4. ASSUME NEW q \in Procs, pc'[q] = "replacing" PROVE AllWritten(q)' /\ synced'[op'[q].id]
  <2>1. op[q].id \in Ids
    BY DEF TypeOK, Calls
  <2>2. CASE Sync(p) /\ q = p
    <3>1. pc[p] = "writing" /\ AllWritten(p) /\ UNCHANGED <<written, op>>
      BY <2>2 DEF Sync
    <3>2. synced'[op[p].id]
      BY <2>1, <2>2 DEF Sync, Synced, TypeOK
    <3> QED
      BY <2>2, <3>1, <3>2 DEF AllWritten
  <2>3. CASE ~(Sync(p) /\ q = p)
    <3>1. pc[q] = "replacing" /\ op'[q] = op[q]
      <4>1. CASE q # p
        BY <1>4, <4>1, Others
      <4>2. CASE q = p /\ (Begin(p) \/ Acquire(p) \/ ChooseName(p) \/ MakePart(p) \/ CopyCurrent(p)
                           \/ FailUpload(p) \/ Replace(p) \/ RemovePart(p) \/ WriteChunk(p))
        BY <1>4, <4>2 DEF Begin, Acquire, ChooseName, MakePart, CopyCurrent, FailUpload, Replace, RemovePart, WriteChunk, GoTo, TypeOK
      <4>3. CASE q = p /\ (Manage(p) \/ Release(p))
        BY <1>4, <4>3 DEF Manage, DeleteFile, RemoveDirectory, MakeDirectory, MakeFolder, CheckRename, RenameEntry, RenameDirectory,
           Release, GoTo, Done, TypeOK
      <4> QED
        BY <2>3, <4>1, <4>2, <4>3 DEF Step, Upload
    <3>2. AllWritten(q) /\ synced[op[q].id]
      BY <3>1 DEF FileInv
    <3>3. ~(WriteChunk(p) /\ op[q].id = op[p].id)
      BY <3>1 DEF WriteChunk, CallInv
    <3> QED
      BY <2>1, <3>1, <3>2, <3>3, NodeStep DEF AllWritten
  <2> QED
    BY <2>2, <2>3
<1>5. \A d \in Dirs, n \in AllNames : entries'[d][n] \in Ids \ ({n} \cup touched') => StillKept(entries'[d][n])
  BY <1>3
<1> QED
  BY <1>4, <1>5 DEF FileInv

\* A thread comes to an upload with its lock.
LEMMA UploadBegins ==
    ASSUME TypeOK, NEW p \in Procs, Step(p), InUpload(p)'
    PROVE  \/ InUpload(p) /\ op'[p] = op[p]
           \/ Acquire(p) /\ op'[p] = op[p] /\ pc'[p] = "locked"
           \/ ChooseName(p) /\ pc'[p] = "locked" /\ pc[p] = "naming"
<1> USE DEF GoTo, TypeOK, InUpload, HasPart
<1>1. CASE Acquire(p)
  BY <1>1 DEF Acquire
<1>2. CASE ChooseName(p)
  BY <1>2 DEF ChooseName
<1>3. CASE MakePart(p) \/ CopyCurrent(p) \/ WriteChunk(p) \/ Sync(p) \/ FailUpload(p) \/ Replace(p) \/ RemovePart(p)
  BY <1>3 DEF MakePart, CopyCurrent, WriteChunk, Sync, FailUpload, Replace, RemovePart
<1>4. ~(DeleteFile(p) \/ RemoveDirectory(p) \/ CheckRename(p) \/ RenameEntry(p) \/ RenameDirectory(p))
  BY DEF DeleteFile, RemoveDirectory, CheckRename, RenameEntry, RenameDirectory
<1>5. ~(Begin(p) \/ MakeFolder(p))
  BY DEF Begin, MakeFolder, Done
<1>6. CASE Release(p) \/ MakeDirectory(p)
  BY <1>6 DEF Release, MakeDirectory, Done
<1> QED
  BY <1>1, <1>2, <1>3, <1>4, <1>5, <1>6 DEF Step, Upload, Manage

LEMMA ForeignStep ==
    ASSUME TypeOK, CallInv, CopyInv, FileInv, ForeignInv, NEW p \in Procs, Step(p)
    PROVE  ForeignInv'
<1>0. touched \subseteq touched'
  BY TouchedStep
<1>1. CopyCurrent(p) =>
        /\ op[p].id \notin Published /\ op'[p] = op[p] /\ pc[p] = "copying"
        /\ HasFile(op[p].src) /\ op[p].src[2] \in PartNames => op[p].id \in touched'
  BY DEF CopyCurrent, Published, WillPublish
<1>2. ASSUME NEW d \in Dirs, NEW n \in AllNames, n \in PartNames, entries[d][n] \in Ids,
             entries[d][n] # n, entries[d][n] \notin touched
      PROVE  entries[d][n] > n /\ copied'[entries[d][n]] = <<>>
  <2>1. entries[d][n] > n /\ copied[entries[d][n]] = <<>>
    BY <1>2 DEF ForeignInv
  <2>2. entries[d][n] \in Published
    BY <1>2 DEF FileInv
  <2> QED
    BY <1>1, <1>2, <2>1, <2>2, NodeStep
<1>3. ASSUME NEW q \in Procs, InUpload(q)', op'[q].src[2] \in PartNames, op'[q].id \notin touched'
      PROVE  copied'[op'[q].id] = <<>>
  <2>1. op[q].id \in Ids
    BY DEF TypeOK, Calls
  <2>2. CASE q # p
    <3>1. InUpload(q) /\ op'[q] = op[q] /\ pc[q] # "idle"
      BY <1>3, <2>2, Others DEF InUpload, HasPart
    <3>2. copied[op[q].id] = <<>>
      BY <1>0, <1>3, <3>1 DEF ForeignInv
    <3>3. CopyCurrent(p) => op[q].id # op[p].id
      BY <1>1, <2>2, <3>1 DEF CallInv
    <3> QED
      BY <2>1, <3>1, <3>2, <3>3, NodeStep
  <2>3. CASE q = p /\ InUpload(p) /\ op'[p] = op[p]
    <3>1. copied[op[p].id] = <<>>
      BY <1>0, <1>3, <2>3 DEF ForeignInv
    <3> QED
      BY <1>1, <1>3, <2>1, <2>3, <3>1, NodeStep
  <2>4. CASE q = p /\ (Acquire(p) \/ ChooseName(p))
    <3>1. /\ pc[p] \in {"asking", "naming"} /\ op'[p].id = op[p].id /\ pc'[p] # "idle"
          /\ copied' = copied
      <4>1. pc[p] \in {"asking", "naming"} /\ copied' = copied
        BY <2>4 DEF Acquire, ChooseName, nodes
      <4>2. pc'[p] # "idle" /\ begun' = begun
        BY <1>3, <2>4 DEF InUpload, HasPart, Acquire, ChooseName, history
      <4> QED
        BY <4>1, <4>2, NumberStep
    <3> QED
      BY <2>4, <3>1 DEF CopyInv
  <2> QED
    BY <1>3, <2>2, <2>3, <2>4, UploadBegins
<1>4. ASSUME NEW d \in Dirs, NEW n \in PartNames, entries'[d][n] \in Ids,
             entries'[d][n] # n, entries'[d][n] \notin touched'
      PROVE  entries'[d][n] > n /\ copied'[entries'[d][n]] = <<>>
  <2>0. n \in AllNames /\ entries'[d][n] \notin touched
    BY <1>0, <1>4, NameFacts
  <2>1. CASE entries'[d][n] = entries[d][n]
    BY <1>2, <1>4, <2>0, <2>1
  <2>2. CASE /\ Replace(p) /\ HasFile(TempPath(p)) /\ n = op[p].src[2]
             /\ entries'[d][n] = EntryOf(TempPath(p))
    <3> DEFINE e == EntryOf(TempPath(p))
               c == dirAt[TempPath(p)[1]]
               m == op[p].id
    <3>1. InUpload(p) /\ pc[p] = "replacing" /\ copied' = copied
      BY <2>2 DEF Replace, InUpload, HasPart, nodes
    <3>2. /\ TempPath(p) \in Paths /\ TempPath(p)[2] = m /\ m \in PartNames /\ m \in AllNames
          /\ n < m
      BY <2>2, <3>1, UploadPath, NameFacts DEF CallInv, PathsFit
    <3>3. c \in Dirs /\ e = entries[c][m] /\ e \in Ids
      BY <2>2, <3>2, EntryFacts DEF HasFile, EntryOf
    <3>4. e = entries'[d][n] /\ e \notin touched
      BY <2>0, <2>2
    <3>5. m \in Nat /\ n \in Nat /\ e \in Nat
      BY <3>2, <3>3, BoundsAssumption DEF PartNames, Ids
    <3> HIDE DEF e, c, m
    <3>6. CASE e = m
      BY <2>2, <3>1, <3>2, <3>4, <3>6 DEF ForeignInv, m
    <3>7. CASE e # m
      <4>1. e > m /\ copied'[e] = <<>>
        BY <1>2, <3>2, <3>3, <3>4, <3>7
      <4> QED
        BY <3>2, <3>4, <3>5, <4>1
    <3> QED
      BY <3>6, <3>7
  <2> QED
    BY <1>4, <2>0, <2>1, <2>2, EntryStep
<1> QED
  BY <1>3, <1>4 DEF ForeignInv

-----------------------------------------------------------------------------
(* What the steps do to the file of an ordinary path *)

\* Two paths do not lead to one file.
LEMMA OnePath ==
    ASSUME NamedOnce, NEW x \in Paths, NEW y \in Paths, HasDir(x),
           dirAt[x[1]] = dirAt[y[1]], x[2] = y[2]
    PROVE  x = y
<1>1. x[1] \in DirNames /\ y[1] \in DirNames /\ x = <<x[1], x[2]>> /\ y = <<y[1], y[2]>>
  BY PathFacts
<1>2. x[1] = y[1]
  BY <1>1 DEF NamedOnce, HasDir
<1> QED
  BY <1>1, <1>2

\* What is put at a path is found by no other.
LEMMA SetAt ==
    ASSUME TypeOK, NamedOnce, NEW y \in Paths, HasDir(y), NEW e, UNCHANGED dirAt,
           entries' = SetEntry(y, e), NEW x \in Paths
    PROVE  EntryAt(x)' = IF x = y THEN e ELSE EntryAt(x)
<1>1. HasDir(x)' <=> HasDir(x)
  BY DEF HasDir
<1>2. CASE HasDir(x)
  <2>1. /\ EntryAt(x)' = entries'[dirAt[x[1]]][x[2]] /\ EntryAt(x) = entries[dirAt[x[1]]][x[2]]
        /\ dirAt[x[1]] \in Dirs /\ x[2] \in AllNames
    BY <1>1, <1>2, EntryFacts, PathFacts DEF EntryAt, EntryOf
  <2>2. entries'[dirAt[x[1]]][x[2]] =
          IF dirAt[x[1]] = dirAt[y[1]] /\ x[2] = y[2] THEN e ELSE entries[dirAt[x[1]]][x[2]]
    BY <2>1, SetValue
  <2> QED
    BY <1>2, <2>1, <2>2, OnePath
<1>3. CASE ~HasDir(x)
  BY <1>1, <1>3 DEF EntryAt
<1> QED
  BY <1>2, <1>3

LEMMA MoveAt ==
    ASSUME TypeOK, NamedOnce, NEW y \in Paths, NEW z \in Paths, HasDir(y), HasDir(z), UNCHANGED dirAt,
           entries' = MoveEntry(y, z), NEW x \in Paths
    PROVE  EntryAt(x)' = IF x = z THEN EntryAt(y) ELSE IF x = y THEN None ELSE EntryAt(x)
<1>1. HasDir(x)' <=> HasDir(x)
  BY DEF HasDir
<1>2. CASE HasDir(x)
  <2>1. /\ EntryAt(x)' = entries'[dirAt[x[1]]][x[2]] /\ EntryAt(x) = entries[dirAt[x[1]]][x[2]]
        /\ dirAt[x[1]] \in Dirs /\ x[2] \in AllNames
    BY <1>1, <1>2, EntryFacts, PathFacts DEF EntryAt, EntryOf
  <2>2. entries'[dirAt[x[1]]][x[2]] =
          IF dirAt[x[1]] = dirAt[z[1]] /\ x[2] = z[2] THEN EntryAt(y)
          ELSE IF dirAt[x[1]] = dirAt[y[1]] /\ x[2] = y[2] THEN None
          ELSE entries[dirAt[x[1]]][x[2]]
    BY <2>1, MoveValue DEF EntryAt
  <2> QED
    BY <1>2, <2>1, <2>2, OnePath
<1>3. CASE ~HasDir(x)
  BY <1>1, <1>3 DEF EntryAt
<1> QED
  BY <1>2, <1>3

LEMMA FileIs ==
    /\ \A x : FileAt(x) = IF EntryAt(x) \in Ids THEN EntryAt(x) ELSE None
    /\ \A x : FileAt(x)' = IF EntryAt(x)' \in Ids THEN EntryAt(x)' ELSE None
    /\ \A x : /\ HasFile(x) <=> FileAt(x) # None
              /\ HasFile(x) => EntryOf(x) = FileAt(x)
              /\ HasFile(x)' <=> FileAt(x)' # None
              /\ HasFile(x)' => EntryOf(x)' = FileAt(x)'
BY NameFacts DEF FileAt, EntryAt, HasFile

LEMMA PartEffect ==
    ASSUME TypeOK, NamedOnce, CallInv, NEW p \in Procs, MakePart(p) \/ RemovePart(p), NEW x \in Ordinary
    PROVE  FileAt(x)' = FileAt(x) /\ UNCHANGED dirAt
<1>1. InUpload(p) /\ UNCHANGED dirAt /\ x \in Paths /\ x[2] \in Names
  BY PathFacts DEF MakePart, RemovePart, InUpload, HasPart
<1>2. TempPath(p) \in Paths /\ x # TempPath(p) /\ (HasDir(TempPath(p)) <=> HasDir(op[p].src))
  BY <1>1, UploadPath, NameFacts
<1>3. CASE entries' = entries
  BY <1>1, <1>3 DEF FileAt, HasFile, HasDir, EntryOf
<1>4. CASE HasDir(TempPath(p)) /\ \E e : entries' = SetEntry(TempPath(p), e)
  <2>1. EntryAt(x)' = EntryAt(x)
    BY <1>1, <1>2, <1>4, SetAt
  <2> QED
    BY <1>1, <2>1, FileIs
<1> QED
  BY <1>2, <1>3, <1>4 DEF MakePart, RemovePart, Remaining, HasFile

LEMMA ReplaceEffect ==
    ASSUME TypeOK, NamedOnce, CallInv, NEW p \in Procs, Replace(p), NEW x \in Ordinary
    PROVE  FileAt(x)' =
             IF Fits(TempPath(p), op[p].src) /\ HasFile(TempPath(p)) /\ x = op[p].src
             THEN EntryAt(TempPath(p)) ELSE FileAt(x)
<1>1. InUpload(p) /\ UNCHANGED dirAt /\ x \in Paths /\ x[2] \in Names
  BY PathFacts DEF Replace, InUpload, HasPart
<1>2. TempPath(p) \in Paths /\ op[p].src \in Paths /\ x # TempPath(p)
  BY <1>1, UploadPath, NameFacts
<1>3. CASE Fits(TempPath(p), op[p].src)
  <2>1. /\ entries' = MoveEntry(TempPath(p), op[p].src)
        /\ HasEntry(TempPath(p)) /\ HasDir(TempPath(p)) /\ HasDir(op[p].src)
    BY <1>3 DEF Replace, Fits, HasEntry
  <2>2. EntryAt(x)' = IF x = op[p].src THEN EntryAt(TempPath(p)) ELSE EntryAt(x)
    BY <1>1, <1>2, <2>1, MoveAt
  <2>3. ~HasFile(TempPath(p)) => EntryAt(TempPath(p)) = Folder /\ ~HasFile(op[p].src)
    BY <1>2, <1>3, <2>1, EntryFacts DEF Fits
  <2>4. HasFile(TempPath(p)) => EntryAt(TempPath(p)) \in Ids
    BY <1>2, EntryFacts
  <2> QED
    BY <1>3, <2>2, <2>3, <2>4, FileIs, NameFacts
<1>4. CASE ~Fits(TempPath(p), op[p].src)
  BY <1>1, <1>4 DEF Replace, FileAt, HasFile, HasDir, EntryOf
<1> QED
  BY <1>3, <1>4

LEMMA DeleteEffect ==
    ASSUME TypeOK, NamedOnce, CallInv, NEW p \in Procs, DeleteFile(p), NEW x \in Ordinary
    PROVE  FileAt(x)' = IF x = op[p].src THEN None ELSE FileAt(x)
<1>1. op[p].src \in Paths /\ UNCHANGED dirAt /\ x \in Paths
  BY PathFacts DEF DeleteFile, CallInv, PathsFit
<1>2. CASE HasFile(op[p].src)
  <2>1. entries' = SetEntry(op[p].src, None) /\ HasDir(op[p].src)
    BY <1>2 DEF DeleteFile, HasFile
  <2>2. EntryAt(x)' = IF x = op[p].src THEN None ELSE EntryAt(x)
    BY <1>1, <2>1, SetAt
  <2> QED
    BY <2>2, FileIs, NameFacts
<1>3. CASE ~HasFile(op[p].src)
  <2>1. FileAt(x)' = FileAt(x)
    BY <1>1, <1>3 DEF DeleteFile, FileAt, HasFile, HasDir, EntryOf
  <2> QED
    BY <1>3, <2>1, FileIs
<1> QED
  BY <1>2, <1>3

LEMMA RenameEffect ==
    ASSUME TypeOK, NamedOnce, CallInv, NEW p \in Procs, RenameEntry(p), NEW x \in Ordinary
    PROVE  FileAt(x)' =
             IF ~(Fits(op[p].src, op[p].dst) /\ HasFile(op[p].src)) THEN FileAt(x)
             ELSE IF x = op[p].dst THEN FileAt(op[p].src)
             ELSE IF x = op[p].src THEN None ELSE FileAt(x)
<1> DEFINE from == op[p].src
           to == op[p].dst
<1>1. from \in Paths /\ to \in Paths /\ UNCHANGED dirAt /\ x \in Paths
  BY PathFacts DEF RenameEntry, CallInv, PathsFit
<1>2. CASE Fits(from, to)
  <2>1. entries' = MoveEntry(from, to) /\ HasEntry(from) /\ HasDir(from) /\ HasDir(to)
    BY <1>2 DEF RenameEntry, Fits, HasEntry
  <2>2. EntryAt(x)' = IF x = to THEN EntryAt(from) ELSE IF x = from THEN None ELSE EntryAt(x)
    BY <1>1, <2>1, MoveAt
  <2>3. ~HasFile(from) => EntryAt(from) = Folder /\ ~HasFile(to)
    BY <1>1, <1>2, <2>1, EntryFacts DEF Fits
  <2>4. HasFile(from) => EntryAt(from) \in Ids /\ FileAt(from) = EntryAt(from)
    BY <1>1, EntryFacts, FileIs
  <2> QED
    BY <1>2, <2>2, <2>3, <2>4, FileIs, NameFacts
<1>3. CASE ~Fits(from, to)
  BY <1>1, <1>3 DEF RenameEntry, FileAt, HasFile, HasDir, EntryOf
<1> QED
  BY <1>2, <1>3

\* Only empty directories and folders are removed, and they are empty when they are made.
LEMMA DirectoryEffect ==
    ASSUME TypeOK, NamedOnce, CallInv, NEW p \in Procs,
           RemoveDirectory(p) \/ MakeDirectory(p) \/ MakeFolder(p), NEW x \in Ordinary
    PROVE  FileAt(x)' = FileAt(x)
<1>1. /\ x[1] \in DirNames /\ x[2] \in AllNames /\ x \in Paths
      /\ op[p].src \in DirPaths \cup Paths /\ op[p].src[1] \in DirNames
  <2>1. op[p].src \in DirPaths \cup Paths
    BY DEF RemoveDirectory, MakeDirectory, MakeFolder, CallInv, PathsFit
  <2> QED
    BY <2>1, PathFacts, NameFacts
<1>2. CASE UNCHANGED dirAt /\ \E e \in {None, Folder} : /\ entries' = SetEntry(op[p].src, e)
                                                       /\ op[p].src \in Paths /\ HasDir(op[p].src)
                                                       /\ ~HasFile(op[p].src)
  <2>1. PICK e \in {None, Folder} : entries' = SetEntry(op[p].src, e)
    BY <1>2
  <2>2. EntryAt(x)' = IF x = op[p].src THEN e ELSE EntryAt(x)
    BY <1>1, <1>2, <2>1, SetAt
  <2> QED
    BY <1>2, <2>2, FileIs, NameFacts
<1>3. CASE UNCHANGED <<dirAt, entries>>
  BY <1>3 DEF FileAt, HasFile, HasDir, EntryOf
<1>4. CASE UNCHANGED entries /\ (MakeDirectory(p) \/ RemoveDirectory(p))
  <2>1. CASE dirAt'[x[1]] = dirAt[x[1]]
    BY <1>4, <2>1 DEF FileAt, HasFile, HasDir, EntryOf
  <2>2. CASE RemoveDirectory(p) /\ dirAt'[x[1]] # dirAt[x[1]]
    <3>1. EmptyDir(dirAt[x[1]]) /\ dirAt'[x[1]] = None
      BY <1>1, <2>2 DEF RemoveDirectory, TypeOK
    <3> QED
      BY <1>1, <3>1, NameFacts DEF FileAt, HasFile, HasDir, EntryOf, EmptyDir
  <2>3. CASE MakeDirectory(p) /\ dirAt'[x[1]] # dirAt[x[1]]
    <3>1. dirAt[x[1]] = None /\ EmptyDir(dirAt'[x[1]])
      BY <1>1, <2>3 DEF MakeDirectory, NewDir, HasDir, TypeOK
    <3> QED
      BY <1>1, <1>4, <3>1, NameFacts DEF FileAt, HasFile, HasDir, EntryOf, EmptyDir
  <2> QED
    BY <1>4, <2>1, <2>2, <2>3
<1>5. CASE RemoveDirectory(p)
  <2>1. CASE op[p].src \in DirPaths
    BY <1>4, <1>5, <2>1 DEF RemoveDirectory
  <2>2. CASE op[p].src \notin DirPaths
    <3>1. UNCHANGED dirAt /\ op[p].src \in Paths
      BY <1>1, <1>5, <2>2 DEF RemoveDirectory
    <3>2. CASE HasFolder(op[p].src)
      <4>1. entries' = SetEntry(op[p].src, None) /\ HasDir(op[p].src) /\ ~HasFile(op[p].src)
        BY <1>5, <2>2, <3>2, NameFacts DEF RemoveDirectory, HasFolder, HasFile
      <4> QED
        BY <1>2, <3>1, <4>1
    <3>3. CASE ~HasFolder(op[p].src)
      BY <1>3, <1>5, <2>2, <3>1, <3>3 DEF RemoveDirectory
    <3> QED
      BY <3>2, <3>3
  <2> QED
    BY <2>1, <2>2
<1>6. CASE MakeDirectory(p)
  BY <1>4, <1>6 DEF MakeDirectory
<1>7. CASE MakeFolder(p)
  <2>1. UNCHANGED dirAt /\ op[p].src \in Paths
    BY <1>7 DEF MakeFolder, CallInv
  <2>2. CASE HasDir(op[p].src) /\ ~HasEntry(op[p].src)
    <3>1. entries' = SetEntry(op[p].src, Folder) /\ ~HasFile(op[p].src)
      BY <1>7, <2>2, NameFacts DEF MakeFolder, HasEntry, HasFile
    <3> QED
      BY <1>2, <2>1, <2>2, <3>1
  <2>3. CASE ~(HasDir(op[p].src) /\ ~HasEntry(op[p].src))
    BY <1>3, <1>7, <2>1, <2>3 DEF MakeFolder
  <2> QED
    BY <2>2, <2>3
<1> QED
  BY <1>5, <1>6, <1>7

\* The file of a path is left alone by a thread that holds neither the path, nor, when
\* directories are renamed, that of its directory.
LEMMA FileKept ==
    ASSUME TypeOK, NamedOnce, CallInv, LockInv, NEW p \in Procs, Step(p), NEW x \in Ordinary,
           x \notin Owned(p), ~moved' \/ <<x[1]>> \notin Owned(p)
    PROVE  FileAt(x)' = FileAt(x)
<1>1. CASE Replace(p) \/ DeleteFile(p) \/ RenameEntry(p)
  <2>1. InUpload(p) \/ pc[p] \in {"body", "renaming"}
    BY <1>1 DEF Replace, DeleteFile, RenameEntry, InUpload, HasPart
  <2>2. op[p].src \in Owned(p)
    BY <2>1, Locked
  <2>3. RenameEntry(p) => op[p].dst \in Owned(p)
    BY <2>1, Locked DEF RenameEntry
  <2> QED
    BY <1>1, <2>2, <2>3, ReplaceEffect, DeleteEffect, RenameEffect
<1>2. CASE RemoveDirectory(p) \/ MakeDirectory(p) \/ MakeFolder(p)
  BY <1>2, DirectoryEffect
<1>3. CASE MakePart(p) \/ RemovePart(p)
  BY <1>3, PartEffect
<1>4. CASE UNCHANGED <<dirAt, entries>>
  BY <1>4 DEF FileAt, HasFile, HasDir, EntryOf
<1>5. CASE RenameDirectory(p)
  <2>1. UNCHANGED entries
    BY <1>5 DEF RenameDirectory
  <2>2. CASE ~UNCHANGED dirAt
    <3>1. /\ dirAt' = [dirAt EXCEPT ![op[p].src[1]] = None, ![op[p].dst[1]] = dirAt[op[p].src[1]]]
          /\ moved'
      BY <1>5, <2>2 DEF RenameDirectory
    <3>2. op[p].src \in DirPaths /\ op[p].dst \in DirPaths
      BY <1>5 DEF RenameDirectory, CallInv, PathsFit
    <3>3. op[p].src \in Owned(p) /\ op[p].dst \in Owned(p)
      BY <1>5, Locked DEF RenameDirectory
    <3>4. x[1] \in DirNames /\ x[1] # op[p].src[1] /\ x[1] # op[p].dst[1]
      BY <3>1, <3>2, <3>3, PathFacts
    <3>5. dirAt'[x[1]] = dirAt[x[1]]
      BY <3>1, <3>4 DEF TypeOK
    <3> QED
      BY <2>1, <3>5 DEF FileAt, HasFile, HasDir, EntryOf
  <2> QED
    BY <1>4, <2>1, <2>2
<1> QED
  BY <1>1, <1>2, <1>3, <1>4, <1>5 DEF Step, Upload, Manage, Begin, Acquire, Release, ChooseName,
     CopyCurrent, WriteChunk, Sync, FailUpload, CheckRename

-----------------------------------------------------------------------------
(* What has been seen, and the temporary files *)

LEMMA MovedStep ==
    ASSUME NEW p \in Procs, Step(p) PROVE (moved => moved') /\ crashed' = crashed
<1>1. CASE RenameDirectory(p)
  BY <1>1 DEF RenameDirectory
<1>2. CASE ~RenameDirectory(p)
  <2>1. UNCHANGED <<moved, crashed>>
    BY <1>2 DEF Step, Upload, Manage, Begin, Acquire, Release, ChooseName, MakePart, CopyCurrent,
       WriteChunk, Sync, FailUpload, Replace, RemovePart, DeleteFile, RemoveDirectory,
       MakeDirectory, MakeFolder, CheckRename, RenameEntry, history
  <2> QED
    BY <2>1
<1> QED
  BY <1>1, <1>2

\* A directory keeps its name unless a thread that holds the name removes it, empty, or
\* renames it.
LEMMA DirKept ==
    ASSUME TypeOK, CallInv, LockInv, NEW p \in Procs, Step(p), NEW d \in DirNames, dirAt[d] # None,
           <<d>> \notin Owned(p) \/ (~moved' /\ ~EmptyDir(dirAt[d]))
    PROVE  dirAt'[d] = dirAt[d]
<1>1. CASE RemoveDirectory(p) /\ op[p].src \in DirPaths
  <2>1. op[p].src \in Owned(p)
    BY <1>1, Locked DEF RemoveDirectory
  <2>2. <<d>> \notin Owned(p) => d # op[p].src[1]
    BY <1>1, <2>1, PathFacts
  <2> QED
    BY <1>1, <2>2 DEF RemoveDirectory, TypeOK
<1>2. CASE RemoveDirectory(p) /\ op[p].src \notin DirPaths
  BY <1>2 DEF RemoveDirectory
<1>3. CASE RenameDirectory(p)
  <2>1. op[p].src \in DirPaths /\ op[p].dst \in DirPaths
    BY <1>3 DEF RenameDirectory, CallInv, PathsFit
  <2>2. op[p].src \in Owned(p) /\ op[p].dst \in Owned(p)
    BY <1>3, Locked DEF RenameDirectory
  <2>3. <<d>> \notin Owned(p) => d # op[p].src[1] /\ d # op[p].dst[1]
    BY <2>1, <2>2, PathFacts
  <2>4. \/ dirAt' = dirAt
        \/ /\ moved'
           /\ dirAt' = [dirAt EXCEPT ![op[p].src[1]] = None, ![op[p].dst[1]] = dirAt[op[p].src[1]]]
    BY <1>3 DEF RenameDirectory
  <2> QED
    BY <2>3, <2>4 DEF TypeOK
<1>4. CASE MakeDirectory(p)
  BY <1>4 DEF MakeDirectory, NewDir, HasDir, TypeOK
<1> QED
  BY <1>1, <1>2, <1>3, <1>4 DEF Step, Upload, Manage, Begin, Acquire, Release, ChooseName, MakePart,
     CopyCurrent, WriteChunk, Sync, FailUpload, Replace, RemovePart, DeleteFile, MakeFolder,
     CheckRename, RenameEntry

\* The name of a STOU stays free.
LEMMA StouStep ==
    ASSUME TypeOK, NamedOnce, CallInv, LockInv, SeenInv, NEW p \in Procs, Step(p),
           NEW q \in Procs, InUpload(q)', pc'[q] # "removing", op'[q].kind = "STOU"
    PROVE  HasDir(op[q].src)' /\ ~HasFile(op[q].src)'
<1>1. CASE q # p
  <2>1. /\ op'[q] = op[q] /\ InUpload(q) /\ pc[q] # "removing" /\ op[q].kind = "STOU"
        /\ op[q].src \in Ordinary
    BY <1>1, Others DEF InUpload, HasPart, CallInv, PathsFit, Ordinary
  <2>2. PICK x \in Ordinary : x = op[q].src
    BY <2>1
  <2>3. HasDir(x) /\ FileAt(x) = None /\ x[1] \in DirNames
    BY <2>1, <2>2, FileIs, PathFacts DEF SeenInv
  <2>4. x \notin Owned(p) /\ <<x[1]>> \notin Owned(p)
    BY <1>1, <2>1, <2>2, NotOwned
  <2>5. dirAt'[x[1]] = dirAt[x[1]]
    BY <2>3, <2>4, DirKept DEF HasDir
  <2>6. FileAt(x)' = None
    BY <2>3, <2>4, FileKept
  <2>7. HasDir(x)' /\ ~HasFile(x)'
    BY <2>3, <2>5, <2>6, FileIs DEF HasDir
  <2> QED
    BY <2>1, <2>2, <2>7
<1>2. CASE q = p /\ ChooseName(p)
  <2>1. op[p].src \in DirPaths
    BY <1>2 DEF ChooseName, CallInv, PathsFit
  <2>2. PICK n \in Names : /\ ~HasEntry(<<op[p].src[1], n>>) /\ HasDir(op[p].src)
                           /\ op' = [op EXCEPT ![p].src = <<op[p].src[1], n>>]
    BY <1>2 DEF ChooseName, Unused, GoTo, InUpload, HasPart, TypeOK
  <2>3. op'[p].src = <<op[p].src[1], n>>
    BY <2>2 DEF TypeOK, Calls
  <2>4. UNCHANGED <<dirAt, entries>>
    BY <1>2 DEF ChooseName
  <2>5. ~HasFile(<<op[p].src[1], n>>)
    BY <2>2, NameFacts DEF HasFile, HasEntry
  <2> QED
    BY <1>2, <2>2, <2>3, <2>4, <2>5 DEF HasDir, HasFile, EntryOf
<1>3. CASE q = p /\ InUpload(p) /\ op'[p] = op[p]
  <2>1. MakePart(p) \/ CopyCurrent(p) \/ WriteChunk(p) \/ Sync(p)
    <3>1. CASE Begin(p) \/ Acquire(p) \/ Manage(p) \/ ChooseName(p)
      BY <1>3, <3>1 DEF Begin, Acquire, Manage, ChooseName, DeleteFile, RemoveDirectory, MakeDirectory,
         MakeFolder, CheckRename, RenameEntry, RenameDirectory, InUpload, HasPart
    <3>2. CASE FailUpload(p) \/ Replace(p) \/ RemovePart(p) \/ Release(p)
      BY <1>3, <3>2 DEF FailUpload, Replace, RemovePart, Release, GoTo, InUpload, HasPart, TypeOK
    <3> QED
      BY <3>1, <3>2 DEF Step, Upload
  <2>2. pc[p] # "removing" /\ op[p].kind = "STOU" /\ op[p].src \in Ordinary
    BY <1>3, <2>1 DEF MakePart, CopyCurrent, WriteChunk, Sync, CallInv, PathsFit, InUpload, HasPart, Ordinary
  <2>3. PICK x \in Ordinary : x = op[p].src
    BY <2>2
  <2>4. HasDir(x) /\ FileAt(x) = None
    BY <1>3, <2>2, <2>3, FileIs DEF SeenInv
  <2>5. FileAt(x)' = FileAt(x) /\ UNCHANGED dirAt
    <3>1. CASE MakePart(p)
      BY <3>1, PartEffect
    <3>2. CASE CopyCurrent(p) \/ WriteChunk(p) \/ Sync(p)
      <4>1. UNCHANGED <<dirAt, entries>>
        BY <3>2 DEF CopyCurrent, WriteChunk, Sync
      <4> QED
        BY <4>1 DEF FileAt, HasFile, HasDir, EntryOf
    <3> QED
      BY <2>1, <3>1, <3>2
  <2>6. HasDir(x)' /\ ~HasFile(x)'
    BY <2>4, <2>5, FileIs DEF HasDir
  <2> QED
    BY <1>3, <2>3, <2>6
<1>4. ~(Acquire(p) /\ pc'[p] = "locked" /\ op'[p] = op[p] /\ q = p)
  BY DEF Acquire, GoTo, TypeOK
<1> QED
  BY <1>1, <1>2, <1>3, <1>4, UploadBegins

\* APPE goes on with what the file is.
LEMMA BaseStep ==
    ASSUME TypeOK, NamedOnce, CallInv, LockInv, CopyInv, FileInv, SeenInv, NEW p \in Procs, Step(p),
           ~moved', touched' = {}, NEW q \in Procs, pc'[q] \in {"writing", "replacing"}, op'[q].kind = "APPE",
           op'[q].src[2] \in Names
    PROVE  copied'[op'[q].id] =
             IF HasFile(op[q].src)' THEN Content(EntryOf(op[q].src))' ELSE <<>>
<1>0. ~moved /\ touched = {} /\ op[q].id \in Ids
  BY MovedStep, TouchedStep DEF TypeOK, Calls
<1>1. ASSUME NEW x \in Ordinary, NEW e, e = FileAt(x), e # None
      PROVE  Content(e)' = Content(e)
  <2>1. /\ HasDir(x) /\ dirAt[x[1]] \in Dirs /\ x[2] \in AllNames /\ x[2] \notin Ids
        /\ e = entries[dirAt[x[1]]][x[2]] /\ e \in Ids
    BY <1>1, EntryFacts, PathFacts, NameFacts DEF FileAt, HasFile, EntryOf
  <2>2. e \in Published \cap Ids
    BY <1>0, <2>1 DEF FileInv
  <2> QED
    BY <2>2, PublishedStays
<1>2. ASSUME NEW x \in Ordinary, x = op[q].src, op'[q] = op[q], FileAt(x)' = FileAt(x),
             copied'[op[q].id] = IF HasFile(x) THEN Content(EntryOf(x)) ELSE <<>>
      PROVE  copied'[op'[q].id] = IF HasFile(op[q].src)' THEN Content(EntryOf(op[q].src))' ELSE <<>>
  <2>1. CASE FileAt(x) = None
    BY <1>2, <2>1, FileIs
  <2>2. CASE FileAt(x) # None
    <3>1. PICK e : e = FileAt(x)
      OBVIOUS
    <3>2. HasFile(x) /\ HasFile(x)' /\ EntryOf(x) = e /\ EntryOf(x)' = e
      BY <1>2, <2>2, <3>1, FileIs
    <3>3. Content(EntryOf(x))' = Content(e)'
      BY <3>2 DEF Content
    <3> QED
      BY <1>1, <1>2, <2>2, <3>1, <3>2, <3>3
  <2> QED
    BY <2>1, <2>2
<1>3. CASE q # p
  <2>1. /\ op'[q] = op[q] /\ pc[q] \in {"writing", "replacing"} /\ op[q].kind = "APPE"
        /\ op[q].src \in Paths /\ op[q].src \notin Owned(p) /\ pc[q] # "idle"
    BY <1>3, Others, UploadPath, NotOwned DEF InUpload, HasPart
  <2>2. op[q].src \in Ordinary
    BY <2>1, PathFacts, NameFacts
  <2>3. FileAt(op[q].src)' = FileAt(op[q].src)
    <3>1. PICK x \in Ordinary : x = op[q].src
      BY <2>2
    <3>2. FileAt(x)' = FileAt(x)
      BY <2>1, <3>1, FileKept
    <3> QED
      BY <2>1, <3>1, <3>2
  <2>4. copied'[op[q].id] = copied[op[q].id]
    <3>1. CopyCurrent(p) => op[q].id # op[p].id
      BY <1>3, <2>1 DEF CallInv, CopyCurrent
    <3> QED
      BY <1>0, <3>1, NodeStep
  <2>5. copied[op[q].id] = IF HasFile(op[q].src) THEN Content(EntryOf(op[q].src)) ELSE <<>>
    BY <1>0, <2>1 DEF SeenInv
  <2>6. PICK x \in Ordinary : x = op[q].src
    BY <2>2
  <2>7. FileAt(x)' = FileAt(x)
    BY <2>1, <2>6, FileKept
  <2> QED
    BY <1>2, <2>1, <2>4, <2>5, <2>6, <2>7
<1>4. CASE q = p
  <2>1. CopyCurrent(p) \/ WriteChunk(p) \/ Sync(p)
    <3>1. ~(Begin(p) \/ Acquire(p) \/ Manage(p) \/ ChooseName(p) \/ Release(p) \/ FailUpload(p)
            \/ Replace(p) \/ RemovePart(p))
      <4>1. ~(Begin(p) \/ Acquire(p) \/ ChooseName(p) \/ FailUpload(p) \/ Replace(p) \/ RemovePart(p))
        BY <1>4 DEF Begin, Acquire, ChooseName, FailUpload, Replace, RemovePart, GoTo, TypeOK
      <4>2. ~(Manage(p) \/ Release(p))
        BY <1>4 DEF Manage, DeleteFile, RemoveDirectory, MakeDirectory, MakeFolder, CheckRename,
           RenameEntry, RenameDirectory, Release, Done, GoTo, TypeOK
      <4> QED
        BY <4>1, <4>2
    <3>2. ~MakePart(p)
      BY <1>4 DEF MakePart, GoTo, TypeOK
    <3> QED
      BY <3>1, <3>2 DEF Step, Upload
  <2>2. UNCHANGED <<dirAt, entries, op>> /\ InUpload(p)
    BY <2>1 DEF CopyCurrent, WriteChunk, Sync, InUpload, HasPart
  <2>3. op[p].src \in Ordinary
    BY <1>4, <2>2, UploadPath, PathFacts, NameFacts
  <2>4. copied'[op[p].id] = IF HasFile(op[p].src) THEN Content(EntryOf(op[p].src)) ELSE <<>>
    <3>1. CASE CopyCurrent(p)
      <4>1. copied[op[p].id] = <<>>
        BY <3>1 DEF CopyCurrent, CopyInv
      <4>2. HasFile(op[p].src) => copied'[op[p].id] = Content(EntryOf(op[p].src))
        BY <1>0, <1>4, <3>1 DEF CopyCurrent, TypeOK
      <4>3. ~HasFile(op[p].src) => copied'[op[p].id] = copied[op[p].id]
        BY <3>1 DEF CopyCurrent
      <4> QED
        BY <4>1, <4>2, <4>3
    <3>2. CASE WriteChunk(p) \/ Sync(p)
      BY <1>0, <1>4, <2>2, <3>2 DEF WriteChunk, Sync, SeenInv
    <3> QED
      BY <2>1, <3>1, <3>2
  <2>5. PICK x \in Ordinary : x = op[p].src
    BY <2>3
  <2>6. FileAt(x)' = FileAt(x)
    BY <2>2 DEF FileAt, HasFile, HasDir, EntryOf
  <2> QED
    BY <1>2, <1>4, <2>2, <2>4, <2>5, <2>6
<1> QED
  BY <1>3, <1>4

\* The name that a rename has found free stays free.
LEMMA RenameStep ==
    ASSUME TypeOK, NamedOnce, CallInv, LockInv, SeenInv, NEW p \in Procs, Step(p), ~moved',
           NEW q \in Procs, pc'[q] = "renaming", op'[q].kind = "RNTO", op'[q].dst[2] \in Names
    PROVE  ~HasFile(op[q].dst)'
<1>1. CASE q # p
  <2>1. /\ op'[q] = op[q] /\ pc[q] = "renaming" /\ op[q].kind = "RNTO" /\ op[q].dst \notin Owned(p)
    BY <1>1, Others, NotOwned
  <2>2. op[q].dst \in Ordinary
    BY <2>1, PathFacts, NameFacts DEF CallInv, PathsFit
  <2>3. PICK y \in Ordinary : y = op[q].dst
    BY <2>2
  <2>4. FileAt(y)' = FileAt(y)
    BY <2>1, <2>3, FileKept
  <2>5. ~HasFile(y)
    BY <2>1, <2>3, MovedStep DEF SeenInv
  <2>6. ~HasFile(y)'
    BY <2>4, <2>5, FileIs
  <2> QED
    BY <2>1, <2>3, <2>6
<1>2. CASE q = p
  <2>1. CheckRename(p)
    <3>1. ~(Begin(p) \/ Acquire(p) \/ Upload(p))
      BY <1>2 DEF Begin, Acquire, Upload, ChooseName, MakePart, CopyCurrent, WriteChunk, Sync, FailUpload,
         Replace, RemovePart, GoTo, TypeOK
    <3>2. ~(DeleteFile(p) \/ RemoveDirectory(p) \/ RenameEntry(p) \/ RenameDirectory(p))
      BY <1>2 DEF DeleteFile, RemoveDirectory, RenameEntry, RenameDirectory, GoTo, TypeOK
    <3>3. ~(MakeDirectory(p) \/ MakeFolder(p) \/ Release(p))
      BY <1>2 DEF MakeDirectory, MakeFolder, Release, Done, GoTo, TypeOK
    <3> QED
      BY <3>1, <3>2, <3>3 DEF Step, Manage
  <2>2. UNCHANGED <<dirAt, entries, op>> /\ ~Exists(op[p].dst)
    BY <1>2, <2>1 DEF CheckRename, GoTo, TypeOK
  <2>3. op[p].dst \in Paths
    BY <1>2, <2>1, <2>2 DEF CheckRename, CallInv, PathsFit
  <2>4. ~HasEntry(op[p].dst)
    BY <2>2, <2>3, PathFacts DEF Exists
  <2> QED
    BY <1>2, <2>2, <2>4, NameFacts DEF HasFile, HasEntry, HasDir, EntryOf
<1> QED
  BY <1>1, <1>2

LEMMA SeenStep ==
    ASSUME TypeOK, NamedOnce, CallInv, LockInv, CopyInv, FileInv, SeenInv, NEW p \in Procs, Step(p)
    PROVE  SeenInv'
<1>1. \A q \in Procs : InUpload(q)' /\ pc'[q] # "removing" /\ op'[q].kind = "STOU" =>
        HasDir(op[q].src)' /\ ~HasFile(op[q].src)'
  BY StouStep
<1>2. ~moved' => \A q \in Procs :
        /\ touched' = {} /\ pc'[q] \in {"writing", "replacing"} /\ op'[q].kind = "APPE"
           /\ op'[q].src[2] \in Names =>
             copied'[op'[q].id] = IF HasFile(op[q].src)' THEN Content(EntryOf(op[q].src))' ELSE <<>>
        /\ pc'[q] = "renaming" /\ op'[q].kind = "RNTO" /\ op'[q].dst[2] \in Names =>
             ~HasFile(op[q].dst)'
  BY BaseStep, RenameStep
<1> QED
  BY <1>1, <1>2 DEF SeenInv

\* A temporary file stays where it was made until its upload has taken it away.
LEMMA PartStep ==
    ASSUME TypeOK, CallInv, LockInv, ForeignInv, PartInv, NEW p \in Procs, Step(p) PROVE PartInv'
<1> SUFFICES ASSUME ~moved', ~crashed', NEW d \in Dirs, NEW id \in PartNames, id \notin touched',
                    entries'[d][id] = id
             PROVE  \E q \in Procs : op'[q].id = id /\ HasPart(q)' /\ dirAt'[op'[q].src[1]] = d
  BY DEF PartInv
<1>0. ~moved /\ ~crashed /\ id \notin touched /\ id \in AllNames /\ id \in Ids
  BY MovedStep, TouchedStep, NameFacts
<1>1. CASE entries[d][id] = id
  <2>1. PICK q \in Procs : op[q].id = id /\ HasPart(q) /\ dirAt[op[q].src[1]] = d
    BY <1>0, <1>1 DEF PartInv
  <2>2. InUpload(q) /\ op[q].src \in Paths /\ op[q].src[1] \in DirNames /\ d # None
    BY <2>1, UploadPath, PathFacts, AtomicNamesAssumption DEF InUpload
  <2>3. dirAt'[op[q].src[1]] = d
    <3>1. ~EmptyDir(dirAt[op[q].src[1]])
      BY <1>0, <1>1, <2>1, NameFacts DEF EmptyDir
    <3> QED
      BY <2>1, <2>2, <3>1, DirKept
  <2>4. CASE q # p
    BY <2>1, <2>3, <2>4, Others DEF HasPart
  <2>5. CASE q = p
    <3>1. /\ TempPath(p)[1] = op[p].src[1] /\ TempPath(p)[2] = id /\ HasDir(TempPath(p))
          /\ HasFile(TempPath(p)) /\ EntryOf(TempPath(p)) = id
      BY <1>0, <1>1, <2>1, <2>2, <2>5 DEF TempPath, HasDir, HasFile, EntryOf
    <3>2. CASE Replace(p)
      <4>1. CASE Fits(TempPath(p), op[p].src)
        <5>1. op[p].src[2] # id
          <6>1. op[p].src[2] \in PartNames => op[p].src[2] < op[p].id
            BY <2>1, <2>2, <2>5 DEF CallInv, PathsFit, HasPart
          <6> QED
            BY <2>1, <2>5, <6>1 DEF PartNames
        <5>2. entries'[d][id] = None
          BY <1>0, <2>1, <2>5, <3>1, <3>2, <4>1, <5>1, MoveValue DEF Replace
        <5> QED
          BY <1>0, <5>2, NameFacts
      <4>2. CASE ~Fits(TempPath(p), op[p].src)
        <5>1. op'[p] = op[p] /\ HasPart(p)'
          BY <3>2, <4>2 DEF Replace, GoTo, HasPart, TypeOK
        <5> QED
          BY <2>1, <2>3, <2>5, <5>1
      <4> QED
        BY <4>1, <4>2
    <3>3. CASE RemovePart(p)
      <4>1. entries' = SetEntry(TempPath(p), None)
        BY <3>1, <3>3 DEF RemovePart, Remaining
      <4>2. entries'[d][id] = None
        BY <1>0, <2>1, <2>5, <3>1, <4>1, SetValue
      <4> QED
        BY <1>0, <4>2, NameFacts
    <3>4. CASE CopyCurrent(p) \/ WriteChunk(p) \/ Sync(p) \/ FailUpload(p)
      <4>1. op'[p] = op[p] /\ HasPart(p)'
        BY <3>4 DEF CopyCurrent, WriteChunk, Sync, FailUpload, GoTo, HasPart, TypeOK
      <4> QED
        BY <2>1, <2>3, <2>5, <4>1
    <3>5. Replace(p) \/ RemovePart(p) \/ CopyCurrent(p) \/ WriteChunk(p) \/ Sync(p) \/ FailUpload(p)
      BY <2>1, <2>5 DEF HasPart, Step, Upload, Manage, Begin, Acquire, Release, ChooseName, MakePart,
         DeleteFile, RemoveDirectory, MakeDirectory, MakeFolder, CheckRename, RenameEntry, RenameDirectory
    <3> QED
      BY <3>2, <3>3, <3>4, <3>5
  <2> QED
    BY <2>4, <2>5
<1>2. CASE entries[d][id] # id
  <2>1. CASE MakePart(p) /\ id = op[p].id /\ HasDir(op[p].src) /\ d = dirAt[op[p].src[1]]
    <3>1. op' = op /\ dirAt' = dirAt
      BY <2>1 DEF MakePart
    <3>2. HasPart(p)'
      <4>1. CASE ~HasFolder(op[p].src)
        BY <2>1, <4>1 DEF MakePart, GoTo, HasPart, TypeOK
      <4>2. CASE HasFolder(op[p].src)
        BY <1>2, <2>1, <4>2 DEF MakePart
      <4> QED
        BY <4>1, <4>2
    <3> QED
      BY <2>1, <3>1, <3>2
  <2>2. ~(/\ Replace(p) /\ HasFile(TempPath(p)) /\ id = op[p].src[2]
          /\ entries'[d][id] = EntryOf(TempPath(p)))
    <3> SUFFICES ASSUME Replace(p), HasFile(TempPath(p)), id = op[p].src[2], id = EntryOf(TempPath(p))
                 PROVE  FALSE
      OBVIOUS
    <3> DEFINE c == dirAt[TempPath(p)[1]]
               m == op[p].id
    <3>1. InUpload(p)
      BY DEF Replace, InUpload, HasPart
    <3>2. /\ TempPath(p) \in Paths /\ TempPath(p)[2] = m /\ m \in PartNames
          /\ op[p].src \in Paths /\ pc[p] # "idle"
      BY <3>1, UploadPath
    <3>3. id < m
      BY <3>2 DEF CallInv, PathsFit
    <3>4. c \in Dirs /\ entries[c][m] = id
      BY <3>2, EntryFacts DEF HasFile, EntryOf
    <3>5. m \in Nat /\ id \in Nat
      BY <3>2 DEF PartNames
    <3> HIDE DEF c, m
    <3>6. id # m
      BY <3>3, <3>5
    <3>7. id > m
      BY <1>0, <3>2, <3>4, <3>6 DEF ForeignInv
    <3> QED
      BY <3>3, <3>5, <3>7
  <2> QED
    BY <1>0, <1>2, <2>1, <2>2, EntryStep
<1> QED
  BY <1>1, <1>2

\* A crash takes nothing from a published file, as all of these are on the disk.
LEMMA CrashStep == ASSUME IInv, Crash PROVE IInv'
<1> USE DEF IInv
<1>1. /\ UNCHANGED <<dirAt, entries, synced, begun, touched, moved>> /\ crashed'
      /\ \A p \in Procs : pc'[p] = "idle" /\ op'[p] = NoRequest
      /\ holds' = [f \in Frames |-> {}]
  BY DEF Crash, Done
<1>2. \A id \in Ids : /\ copied'[id] = copied[id] \/ copied'[id] = <<>>
                      /\ synced[id] => copied'[id] = copied[id] /\ written'[id] = written[id]
  BY DEF Crash
<1>3. TypeOK'
  <2>1. pc' \in [Procs -> Places] /\ op' \in [Procs -> Calls]
    BY DoneTypes DEF Crash
  <2>2. copied' \in [Ids -> Seq(Pieces)]
    BY DEF Crash, TypeOK
  <2>3. written' \in [Ids -> 0 .. Chunks]
    BY BoundsAssumption DEF Crash, TypeOK
  <2> QED
    BY <1>1, <2>1, <2>2, <2>3 DEF TypeOK
<1>4. NamedOnce' /\ CallInv' /\ LockInv'
  BY <1>1 DEF NamedOnce, CallInv, LockInv, InUpload, HasPart, Owned, Frames
<1>5. Published \subseteq Published'
  BY <1>1 DEF Published, WillPublish
<1>6. CopyInv'
  <2>1. ASSUME NEW id \in Ids, id \notin touched PROVE Sound(copied'[id], Published' \ {id})
    <3>1. Sound(copied[id], Published \ {id}) /\ Published \ {id} \subseteq Published' \ {id}
      BY <1>5, <2>1 DEF CopyInv
    <3>2. Sound(<<>>, Published' \ {id})
      BY DEF Sound
    <3> QED
      BY <1>2, <3>1, <3>2, SoundGrows
  <2> QED
    BY <1>1, <1>2, <2>1 DEF CopyInv
<1>7. FileInv'
  BY <1>1, <1>2, <1>5 DEF FileInv
<1>8. ForeignInv'
  BY <1>1, <1>2 DEF ForeignInv, InUpload, HasPart
<1>9. SeenInv' /\ PartInv'
  BY <1>1 DEF SeenInv, PartInv, InUpload, HasPart
<1> QED
  BY <1>3, <1>4, <1>6, <1>7, <1>8, <1>9

LEMMA NextInv == ASSUME IInv, [Next]_vars PROVE IInv'
<1>1. ASSUME NEW p \in Procs, Step(p) PROVE IInv'
  BY <1>1, TypeStep, NameStep, CallStep, LockStep, CopyStep, FileStep, ForeignStep, SeenStep, PartStep
  DEF IInv
<1>2. CASE UNCHANGED vars
  <2> USE <1>2 DEF vars, nodes, history
  <2>1. TypeOK' /\ NamedOnce'
    BY DEF IInv, TypeOK, NamedOnce
  <2>2. \A p \in Procs : /\ PathsFit(p)' <=> PathsFit(p)
                         /\ InUpload(p)' <=> InUpload(p)
                         /\ HasPart(p)' <=> HasPart(p)
                         /\ Owned(p)' = Owned(p)
                         /\ AllWritten(p)' <=> AllWritten(p)
    BY DEF PathsFit, InUpload, HasPart, Owned, AllWritten
  <2>3. CallInv' /\ LockInv'
    BY <2>2 DEF IInv, CallInv, LockInv, LockSet
  <2>4. CopyInv' /\ FileInv' /\ ForeignInv'
    <3>1. Published' = Published
      BY DEF Published, WillPublish
    <3>2. CopyInv' /\ ForeignInv'
      BY <2>2, <3>1 DEF IInv, CopyInv, ForeignInv
    <3>3. FileInv'
      BY <2>2, <3>1 DEF IInv, FileInv
    <3> QED
      BY <3>2, <3>3
  <2>5. SeenInv'
    <3>1. \A p \in Procs : /\ HasDir(op[p].src)' <=> HasDir(op[p].src)
                           /\ HasFile(op[p].src)' <=> HasFile(op[p].src)
                           /\ HasFile(op[p].dst)' <=> HasFile(op[p].dst)
                           /\ Content(EntryOf(op[p].src))' = Content(EntryOf(op[p].src))
      BY DEF HasDir, HasFile, EntryOf, Content
    <3>2. SeenInv /\ pc' = pc /\ op' = op /\ copied' = copied /\ moved' = moved /\ touched' = touched
      BY DEF IInv
    <3> QED
      BY <2>2, <3>1, <3>2 DEF SeenInv
  <2>6. PartInv'
    BY <2>2 DEF IInv, PartInv
  <2> QED
    BY <2>1, <2>3, <2>4, <2>5, <2>6 DEF IInv
<1> QED
  BY <1>1, <1>2, CrashStep DEF Next, Step, Ended

-----------------------------------------------------------------------------
(* The theorems *)

\* The inductive invariant holds in every reachable state, for any number of threads,
\* directories, names, chunks and operations, and whether the machine goes down or not.
THEOREM Invariance == Spec => []IInv
BY InitInv, NextInv, PTL DEF Spec

\* Every variable of the service has its type.
THEOREM TypeCorrect == Spec => []TypeOK
BY Invariance, PTL DEF IInv

\* _atomic_upload: whatever name a file has but the one that mkstemp gave it, it holds
\* whole uploads, each once, whatever fails and whenever the machine goes down, unless a
\* client has renamed it from or to the name of a temporary file, or appended to one.
THEOREM WholeFilesTheorem == Spec => []WholeFiles
<1>1. ASSUME IInv, NEW d \in Dirs, NEW n \in AllNames, NEW e, e = entries[d][n],
             e \in Ids, e # n, e \notin touched
      PROVE  Sound(Content(e), Published)
  BY <1>1, WholeContent DEF IInv, FileInv
<1>2. IInv => WholeFiles
  BY <1>1 DEF WholeFiles, Sound
<1> QED
  BY <1>2, Invariance, PTL

\* _atomic_upload's finally: no temporary file outlives its upload under the name that
\* mkstemp gave it, whatever clients do under that name, as long as no directory is renamed,
\* the machine stays up and no client renames that file.
THEOREM PartsRemovedTheorem == Spec => []PartsRemoved
<1>1. IInv => PartsRemoved
  BY DEF IInv, PartInv, HasPart, PartsRemoved
<1> QED
  BY <1>1, Invariance, PTL

\* store_unique: what it publishes replaces nothing, with directories renamed or not.
THEOREM StouIsNewTheorem == Spec => StouIsNew
<1>1. ASSUME IInv, NEW p \in Procs, Publishes(p), op[p].kind = "STOU"
      PROVE  ~HasFile(op[p].src)
  BY <1>1 DEF IInv, SeenInv, Publishes, InUpload, HasPart
<1>2. IInv => [\A p \in Procs : Publishes(p) /\ op[p].kind = "STOU" => ~HasFile(op[p].src)]_vars
  BY <1>1
<1> QED
  BY <1>2, Invariance, PTL DEF StouIsNew

-----------------------------------------------------------------------------
(* The files that clients see change as in FileStore *)

Tree == [x \in Ordinary |-> Contents(x)]

\* The uploads that data consists of
UploadsIn(data) ==
    [i \in DOMAIN data |-> IF data[i].chunks = Chunks THEN data[i].by ELSE None]

LEMMA ContentsAt ==
    ASSUME NEW x, NEW e
    PROVE  /\ FileAt(x) = None => Contents(x) = None
           /\ FileAt(x) = e /\ e # None => Contents(x) = UploadsIn(Content(e))
           /\ FileAt(x)' = None => Contents(x)' = None
           /\ FileAt(x)' = e /\ e # None => Contents(x)' = UploadsIn(Content(e)')
<1>1. /\ FileAt(x) = None => Contents(x) = None
      /\ FileAt(x) = e /\ e # None => Contents(x) = UploadsIn(Content(e))
  BY FileIs DEF Contents, UploadsIn
<1>2. FileAt(x)' = None => Contents(x)' = None
  BY FileIs DEF Contents
<1>3. ASSUME FileAt(x)' = e, e # None PROVE Contents(x)' = UploadsIn(Content(e)')
  <2>1. HasFile(x)' /\ EntryOf(x)' = e
    BY <1>3, FileIs
  <2>2. Content(EntryOf(x))' = Content(e)'
    BY <2>1 DEF Content
  <2> QED
    BY <2>1, <2>2 DEF Contents, UploadsIn
<1> QED
  BY <1>1, <1>2, <1>3

LEMMA UploadsAreSeq ==
    ASSUME NEW data \in Seq(Pieces), NEW ids, Sound(data, ids)
    PROVE  UploadsIn(data) \in Seq(Ids) /\ UploadsIn(data) # None
<1>1. \A i \in DOMAIN data : data[i] \in Pieces
  OBVIOUS
<1>2. UploadsIn(data) \in Seq(Ids)
  BY <1>1 DEF UploadsIn, Sound, Pieces
<1> QED
  BY <1>2, NothingAssumption

LEMMA UploadsAppend ==
    ASSUME NEW data \in Seq(Pieces), NEW ids, Sound(data, ids), NEW id \in Ids
    PROVE  UploadsIn(Append(data, Piece(id, Chunks))) = Append(UploadsIn(data), id)
<1> DEFINE piece == Piece(id, Chunks)
           longer == Append(data, piece)
<1>1. piece \in Pieces /\ piece.by = id /\ piece.chunks = Chunks
  BY BoundsAssumption DEF Piece, Pieces
<1> HIDE DEF piece
<1>2. /\ longer \in Seq(Pieces) /\ Len(longer) = Len(data) + 1
      /\ \A i \in 1 .. Len(data) : longer[i] = data[i]
      /\ longer[Len(data) + 1] = piece
  BY <1>1, AppendProperties
<1> HIDE DEF longer
<1>3. /\ UploadsIn(data) \in Seq(Ids) /\ Len(UploadsIn(data)) = Len(data)
      /\ DOMAIN data = 1 .. Len(data) /\ Len(data) \in Nat
      /\ DOMAIN longer = 1 .. (Len(data) + 1)
  BY <1>2, UploadsAreSeq DEF UploadsIn
<1> DEFINE s == Append(UploadsIn(data), id)
<1>4. /\ s \in Seq(Ids) /\ Len(s) = Len(data) + 1
      /\ \A i \in 1 .. Len(data) : s[i] = UploadsIn(data)[i]
      /\ s[Len(data) + 1] = id
  BY <1>3, AppendProperties
<1> HIDE DEF s
<1>5. UploadsIn(longer) \in Seq(Ids) /\ Len(UploadsIn(longer)) = Len(data) + 1
  <2>1. \A i \in DOMAIN longer : longer[i] \in Pieces
    BY <1>2
  <2>2. \A i \in DOMAIN longer : longer[i].chunks = Chunks
    BY <1>1, <1>2, <1>3 DEF Sound
  <2> QED
    BY <1>2, <2>1, <2>2 DEF UploadsIn, Pieces
<1>6. ASSUME NEW i \in 1 .. Len(data) + 1 PROVE UploadsIn(longer)[i] = s[i]
  <2>1. CASE i \in 1 .. Len(data)
    BY <1>2, <1>3, <1>4, <2>1 DEF UploadsIn
  <2>2. CASE i = Len(data) + 1
    BY <1>1, <1>2, <1>3, <1>4, <2>2 DEF UploadsIn
  <2> QED
    BY <2>1, <2>2
<1>7. UploadsIn(longer) = s
  BY <1>4, <1>5, <1>6, SeqEqual
<1> QED
  BY <1>7 DEF s, longer, piece

\* While nobody has touched a temporary file, what is at an ordinary path is published.
LEMMA FileUploads ==
    ASSUME IInv, touched = {}, NEW x \in Ordinary, NEW e, FileAt(x) = e, e # None
    PROVE  /\ e \in Published \cap Ids /\ synced[e]
           /\ Contents(x) = UploadsIn(Content(e)) /\ Contents(x) # None
<1>1. /\ HasDir(x) /\ dirAt[x[1]] \in Dirs /\ x[2] \in AllNames /\ x[2] \notin Ids
      /\ e = entries[dirAt[x[1]]][x[2]] /\ e \in Ids
  BY EntryFacts, PathFacts, NameFacts DEF IInv, FileAt, HasFile, EntryOf
<1>2. e \in Published /\ synced[e] /\ written[e] = Chunks
  BY <1>1 DEF IInv, FileInv
<1>3. Content(e) \in Seq(Pieces) /\ Sound(Content(e), Published)
  BY <1>1, <1>2, ContentType, WholeContent DEF IInv
<1>4. Contents(x) = UploadsIn(Content(e))
  BY ContentsAt
<1> QED
  BY <1>1, <1>2, <1>3, <1>4, UploadsAreSeq

\* A path that leads to the same file shows the same.
LEMMA ContentsKept ==
    ASSUME IInv, touched = {}, NEW p \in Procs, Step(p), NEW x \in Ordinary, FileAt(x)' = FileAt(x)
    PROVE  Contents(x)' = Contents(x)
<1>1. PICK e : e = FileAt(x)
  OBVIOUS
<1>2. CASE e = None
  BY <1>1, <1>2, ContentsAt
<1>3. CASE e # None
  <2>1. e \in Published \cap Ids
    BY <1>1, <1>3, FileUploads
  <2>2. Content(e)' = Content(e)
    BY <2>1, PublishedStays DEF IInv
  <2> QED
    BY <1>1, <1>3, <2>2, ContentsAt
<1> QED
  BY <1>2, <1>3

\* A step in which the files of all paths stay is none of FileStore.
LEMMA TreeKept ==
    ASSUME IInv, touched = {}, NEW p \in Procs, Step(p), \A x \in Ordinary : FileAt(x)' = FileAt(x)
    PROVE  Tree' = Tree
BY ContentsKept DEF Tree

\* An upload stores what is whole, its own or another's, or extends what is there.
LEMMA ReplaceStores ==
    ASSUME IInv, NEW p \in Procs, Replace(p), ~moved', touched' = {}
    PROVE  \/ Tree' = Tree
           \/ \E x \in Ordinary, u \in Ids : Promise!Store(x, u) \/ Promise!Extend(x, u)
<1>1. /\ InUpload(p) /\ pc[p] = "replacing" /\ ~moved /\ touched = {} /\ Step(p)
      /\ UNCHANGED <<copied, written, synced>>
  BY DEF Replace, InUpload, HasPart, history, nodes, Step, Upload
<1>2. /\ op[p].src \in Paths /\ op[p].id \in PartNames /\ op[p].id \in Ids
      /\ TempPath(p) \in Paths /\ TempPath(p)[2] = op[p].id
  BY <1>1, UploadPath DEF IInv
<1>3. CASE Fits(TempPath(p), op[p].src) /\ HasFile(TempPath(p)) /\ op[p].src \in Ordinary
  <2>1. PICK x \in Ordinary : x = op[p].src
    BY <1>3
  <2>2. PICK e : e = EntryAt(TempPath(p))
    OBVIOUS
  <2>3. /\ e \in Ids /\ e # None
        /\ dirAt[TempPath(p)[1]] \in Dirs /\ e = entries[dirAt[TempPath(p)[1]]][op[p].id]
    BY <1>2, <1>3, <2>2, EntryFacts, NameFacts DEF IInv, HasFile, EntryAt, EntryOf
  <2>4. written[e] = Chunks /\ (e # op[p].id => copied[e] = <<>>)
    <3>1. CASE e = op[p].id
      BY <1>1, <3>1 DEF IInv, FileInv, AllWritten
    <3>2. CASE e # op[p].id
      <4>1. op[p].id \in AllNames
        BY <1>2, NameFacts
      <4>2. written[e] = Chunks
        BY <1>1, <2>3, <3>2, <4>1 DEF IInv, FileInv
      <4>3. copied[e] = <<>>
        BY <1>1, <1>2, <2>3, <3>2 DEF IInv, ForeignInv
      <4> QED
        BY <4>2, <4>3
    <3> QED
      BY <3>1, <3>2
  <2>5. copied[e] \in Seq(Pieces) /\ Sound(copied[e], Published \ {e})
    BY <1>1, <2>3 DEF IInv, TypeOK, CopyInv
  <2>6. UploadsIn(Content(e)') = Append(UploadsIn(copied[e]), e)
    <3>1. Content(e)' = Append(copied[e], Piece(e, Chunks))
      BY <1>1, <2>4 DEF Content
    <3> QED
      BY <2>3, <2>5, <3>1, UploadsAppend
  <2>7. Tree' = [Tree EXCEPT ![x] = Append(UploadsIn(copied[e]), e)]
    <3>1. \A y \in Ordinary : FileAt(y)' = IF y = x THEN e ELSE FileAt(y)
      BY <1>3, <2>1, <2>2, ReplaceEffect DEF IInv
    <3>2. Contents(x)' = Append(UploadsIn(copied[e]), e)
      BY <2>3, <2>6, <3>1, ContentsAt
    <3>3. \A y \in Ordinary : y # x => Contents(y)' = Contents(y)
      BY <1>1, <3>1, ContentsKept
    <3> QED
      BY <3>2, <3>3 DEF Tree
  <2>8. CASE copied[e] = <<>>
    <3>1. UploadsIn(<<>>) = <<>>
      BY DEF UploadsIn
    <3>2. Append(<<>>, e) = <<e>>
      OBVIOUS
    <3>3. Promise!Store(x, e)
      BY <2>7, <2>8, <3>1, <3>2 DEF Promise!Store, Tree, Ordinary
    <3> QED
      BY <2>3, <3>3
  <2>9. CASE copied[e] # <<>>
    <3>1. e = op[p].id /\ op[p].kind = "APPE" /\ op[p].src[2] \in Names
      BY <1>1, <2>1, <2>4, <2>9, PathFacts DEF IInv, CopyInv
    <3>2. copied[e] = IF HasFile(x) THEN Content(EntryOf(x)) ELSE <<>>
      BY <1>1, <2>1, <3>1 DEF IInv, SeenInv
    <3>3. PICK old : old = FileAt(x)
      OBVIOUS
    <3>4. old # None /\ copied[e] = Content(old)
      BY <2>9, <3>2, <3>3, FileIs
    <3>5. Tree[x] = UploadsIn(copied[e]) /\ Tree[x] # None
      BY <1>1, <3>3, <3>4, FileUploads DEF Tree
    <3>6. Promise!Extend(x, e)
      BY <2>7, <3>5 DEF Promise!Extend, Tree, Ordinary
    <3> QED
      BY <2>3, <3>6
  <2> QED
    BY <2>8, <2>9
<1>4. CASE ~(Fits(TempPath(p), op[p].src) /\ HasFile(TempPath(p)) /\ op[p].src \in Ordinary)
  <2>1. \A y \in Ordinary : FileAt(y)' = FileAt(y)
    BY <1>4, ReplaceEffect DEF IInv
  <2> QED
    BY <1>1, <2>1, TreeKept
<1> QED
  BY <1>3, <1>4

LEMMA DeletesOne ==
    ASSUME IInv, NEW p \in Procs, DeleteFile(p), touched = {}
    PROVE  Tree' = Tree \/ \E x \in Ordinary : Promise!Delete(x)
<1>1. Step(p)
  BY DEF Step, Manage
<1>2. CASE op[p].src \in Ordinary
  <2>1. PICK x \in Ordinary : x = op[p].src
    BY <1>2
  <2>2. \A y \in Ordinary : FileAt(y)' = IF y = x THEN None ELSE FileAt(y)
    BY <2>1, DeleteEffect DEF IInv
  <2>3. \A y \in Ordinary : Contents(y)' = IF y = x THEN None ELSE Contents(y)
    BY <1>1, <2>2, ContentsAt, ContentsKept
  <2>4. Tree' = [Tree EXCEPT ![x] = None]
    BY <2>3 DEF Tree
  <2> QED
    BY <2>4 DEF Promise!Delete, Tree, Ordinary
<1>3. CASE op[p].src \notin Ordinary
  <2>1. \A y \in Ordinary : FileAt(y)' = FileAt(y)
    BY <1>3, DeleteEffect DEF IInv
  <2> QED
    BY <1>1, <2>1, TreeKept
<1> QED
  BY <1>2, <1>3

LEMMA RenamesOne ==
    ASSUME IInv, NEW p \in Procs, RenameEntry(p), ~moved, touched' = {}
    PROVE  Tree' = Tree \/ \E x \in Ordinary, y \in Ordinary : Promise!Rename(x, y)
<1>1. Step(p) /\ op[p].src \in Paths /\ op[p].dst \in Paths /\ UNCHANGED nodes /\ touched = {}
  BY TouchedStep DEF Step, Manage, IInv, RenameEntry, CallInv, PathsFit
<1>2. CASE Fits(op[p].src, op[p].dst) /\ HasFile(op[p].src)
  <2>1. op[p].src \in Ordinary /\ op[p].dst \in Ordinary
    <3>1. op[p].src[2] \notin PartNames /\ op[p].dst[2] \notin PartNames
      BY <1>2 DEF RenameEntry
    <3> QED
      BY <1>1, <3>1, PathFacts
  <2>2. PICK x \in Ordinary, y \in Ordinary : x = op[p].src /\ y = op[p].dst
    BY <2>1
  <2>3. ~HasFile(y) /\ HasFile(x)
    BY <1>2, <2>2, PathFacts DEF IInv, SeenInv, RenameEntry
  <2>4. PICK e : e = FileAt(x)
    OBVIOUS
  <2>5. e # None /\ FileAt(y) = None /\ x # y
    BY <2>3, <2>4, FileIs
  <2>6. \A z \in Ordinary : FileAt(z)' = IF z = y THEN e ELSE IF z = x THEN None ELSE FileAt(z)
    BY <1>2, <2>2, <2>4, RenameEffect DEF IInv
  <2>7. Contents(x) = UploadsIn(Content(e)) /\ Contents(x) # None /\ Contents(y) = None
    BY <1>1, <2>4, <2>5, FileUploads, ContentsAt
  <2>8. Contents(y)' = Contents(x) /\ Contents(x)' = None
    <3>1. Content(e)' = Content(e)
      BY <1>1 DEF Content, nodes
    <3> QED
      BY <2>5, <2>6, <2>7, <3>1, ContentsAt
  <2>9. \A z \in Ordinary : z # x /\ z # y => Contents(z)' = Contents(z)
    BY <1>1, <2>6, ContentsKept
  <2>10. Tree' = [Tree EXCEPT ![x] = None, ![y] = Tree[x]]
    BY <2>5, <2>8, <2>9 DEF Tree
  <2>11. Promise!Rename(x, y)
    BY <2>7, <2>10 DEF Promise!Rename, Tree, Ordinary
  <2> QED
    BY <2>11
<1>3. CASE ~(Fits(op[p].src, op[p].dst) /\ HasFile(op[p].src))
  <2>1. \A z \in Ordinary : FileAt(z)' = FileAt(z)
    BY <1>3, RenameEffect DEF IInv
  <2> QED
    BY <1>1, <2>1, TreeKept
<1> QED
  BY <1>2, <1>3

LEMMA InitPromise == ASSUME Init PROVE Promise!Init
<1>1. IInv /\ 0 \in Ids /\ Names \subseteq AllNames
  BY InitInv, NameFacts
<1>2. PICK a \in DirNames, d \in Dirs, old \in SUBSET Names :
        /\ dirAt = [x \in DirNames |-> IF x = a THEN d ELSE None]
        /\ entries = [e \in Dirs |-> [n \in AllNames |-> IF e = d /\ n \in old THEN 0 ELSE None]]
  BY ZenonT(30) DEF Init
<1>3. ASSUME NEW x \in Ordinary PROVE Contents(x) \in {None} \cup {<<u>> : u \in Ids}
  <2>1. PICK e : e = FileAt(x)
    OBVIOUS
  <2>2. CASE e = None
    BY <2>1, <2>2, ContentsAt
  <2>3. CASE e # None
    <3>1. HasDir(x) /\ dirAt[x[1]] \in Dirs /\ x[2] \in AllNames /\ e = entries[dirAt[x[1]]][x[2]]
      BY <1>1, <2>1, <2>3, EntryFacts, PathFacts DEF IInv, FileAt, HasFile, EntryOf
    <3>2. e = 0
      BY <1>2, <2>3, <3>1
    <3>3. copied[0] = <<>> /\ written[0] = Chunks
      BY <1>1 DEF Init
    <3>4. Content(e) = <<Piece(0, Chunks)>>
      BY <3>2, <3>3 DEF Content
    <3>5. Contents(x) = UploadsIn(<<Piece(0, Chunks)>>)
      BY <2>1, <2>3, <3>4, ContentsAt
    <3>6. UploadsIn(<<Piece(0, Chunks)>>) = <<0>>
      BY DEF UploadsIn, Piece
    <3> QED
      BY <1>1, <3>5, <3>6
  <2> QED
    BY <2>2, <2>3
<1>4. Tree \in [Ordinary -> {None} \cup {<<u>> : u \in Ids}]
  BY <1>3 DEF Tree
<1>5. moved = FALSE /\ touched = {}
  BY DEF Init
<1> QED
  BY <1>4, <1>5 DEF Promise!Init, Tree, Ordinary

LEMMA NextPromise ==
    ASSUME IInv, [Next]_vars PROVE [Promise!Next]_(Promise!vars)
<1> SUFFICES ASSUME ~moved', touched' = {} PROVE [Promise!Next]_(Promise!vars)
  BY DEF Promise!Next
<1>1. CASE ~moved /\ touched = {} /\ Tree' = Tree
  BY <1>1 DEF Promise!vars, Tree, Ordinary
<1>2. CASE /\ ~moved /\ touched = {} /\ Tree' # Tree
           /\ \/ \E x \in Ordinary, u \in Ids : Promise!Store(x, u) \/ Promise!Extend(x, u)
              \/ \E x \in Ordinary : Promise!Delete(x)
              \/ \E x \in Ordinary, y \in Ordinary : Promise!Rename(x, y)
  <2>1. Promise!Change
    BY <1>2 DEF Promise!Change, Tree, Ordinary
  <2> QED
    BY <1>2, <2>1 DEF Promise!Next
<1>3. ASSUME NEW p \in Procs, Step(p) PROVE [Promise!Next]_(Promise!vars)
  <2>1. ~moved /\ touched = {}
    BY <1>3, MovedStep, TouchedStep
  <2>2. CASE Replace(p)
    BY <1>1, <1>2, <2>1, <2>2, ReplaceStores
  <2>3. CASE DeleteFile(p)
    BY <1>1, <1>2, <2>1, <2>3, DeletesOne
  <2>4. CASE RenameEntry(p)
    BY <1>1, <1>2, <2>1, <2>4, RenamesOne
  <2>5. CASE \A x \in Ordinary : FileAt(x)' = FileAt(x)
    BY <1>1, <1>3, <2>1, <2>5, TreeKept
  <2>6. CASE RemoveDirectory(p) \/ MakeDirectory(p) \/ MakeFolder(p)
    BY <2>5, <2>6, DirectoryEffect DEF IInv
  <2>7. CASE MakePart(p) \/ RemovePart(p)
    BY <2>5, <2>7, PartEffect DEF IInv
  <2>8. CASE UNCHANGED <<dirAt, entries>>
    BY <2>5, <2>8 DEF FileAt, HasFile, HasDir, EntryOf
  <2>9. CASE RenameDirectory(p)
    BY <2>8, <2>9 DEF RenameDirectory
  <2> QED
    BY <1>3, <2>2, <2>3, <2>4, <2>6, <2>7, <2>8, <2>9 DEF Step, Upload, Manage, Begin, Acquire, Release,
       ChooseName, CopyCurrent, WriteChunk, Sync, FailUpload, CheckRename
<1>4. CASE Crash
  <2>1. /\ UNCHANGED <<dirAt, entries, moved, touched>> /\ ~moved /\ touched = {}
        /\ \A id \in Ids : synced[id] => copied'[id] = copied[id] /\ written'[id] = written[id]
    BY <1>4 DEF Crash
  <2>2. ASSUME NEW x \in Ordinary PROVE Contents(x)' = Contents(x)
    <3>1. PICK e : e = FileAt(x)
      OBVIOUS
    <3>2. FileAt(x)' = e
      BY <2>1, <3>1 DEF FileAt, HasFile, HasDir, EntryOf
    <3>3. CASE e = None
      BY <3>1, <3>2, <3>3, ContentsAt
    <3>4. CASE e # None
      <4>1. e \in Ids /\ synced[e]
        BY <2>1, <3>1, <3>4, FileUploads
      <4>2. Content(e)' = Content(e)
        BY <2>1, <4>1 DEF Content
      <4> QED
        BY <3>1, <3>2, <3>4, <4>2, ContentsAt
    <3> QED
      BY <3>3, <3>4
  <2>3. Tree' = Tree
    BY <2>2 DEF Tree
  <2> QED
    BY <1>1, <2>1, <2>3
<1>5. CASE UNCHANGED vars
  <2>1. UNCHANGED <<dirAt, entries, copied, written, moved, touched>>
    BY <1>5 DEF vars, nodes, history
  <2>2. \A x \in Ordinary : Contents(x)' = Contents(x)
    BY <2>1 DEF Contents, Content, HasFile, HasDir, EntryOf
  <2>3. Tree' = Tree
    BY <2>2 DEF Tree
  <2> QED
    BY <1>1, <2>1, <2>3
<1> QED
  BY <1>3, <1>4, <1>5 DEF Next, Step, Ended

\* The filesystem service implements FileStore: under names that are not of temporary
\* files, files appear, grow, go and get other names in whole steps, and a crash changes
\* none, until a directory is renamed or a client takes the name of a temporary file for a
\* rename or an append.
THEOREM Refinement == Spec => ImplementsFileStore
BY InitPromise, NextPromise, Invariance, PTL DEF Spec, ImplementsFileStore, Promise!Spec
=============================================================================
