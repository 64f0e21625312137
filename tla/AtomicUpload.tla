---------------------------- MODULE AtomicUpload ----------------------------
(***************************************************************************)
(* The operations of common/filesystem_service.py that change the disk,    *)
(* by the threads of all sessions at once: STOR, APPE and STOU through a   *)
(* temporary file beside their target, DELE, RMD, MKD, and RNTO of what is *)
(* in a directory or of a directory.                                       *)
(*                                                                         *)
(* The tree has directories in the FTP root, and files and empty folders   *)
(* in them.  The code names both by path at each step, so a path is looked *)
(* up anew each time, and a directory renamed meanwhile takes its contents *)
(* along.  A temporary file is an entry like any other: clients see it and *)
(* can name it in each command, without the lock of the upload that writes *)
(* it, which goes on writing to the file wherever it is.                   *)
(* The path locks are PathMutex, which PathLocks implements.               *)
(***************************************************************************)
EXTENDS Integers, Sequences, FiniteSets

CONSTANTS
    Procs,            \* threads: workers, and control threads for the rest
    DirNames, Names,  \* names in the root; those of a directory that clients choose
    Dirs,             \* directories on the disk, whatever their name
    Chunks,           \* chunks of one upload
    Kinds,            \* the operations that clients ask for
    MaxOps,           \* bound: operations in a behaviour
    Folder,           \* the entry of an empty folder
    None

AllKinds == {"STOR", "APPE", "STOU", "DELE", "RMD", "MKD", "RNTO", "MOVE"}

\* The name mkstemp gives the temporary file of an upload is new: it is the upload's number
Ids == 0 .. MaxOps
PartNames == 1 .. MaxOps
AllNames == Names \cup PartNames

ASSUME BoundsAssumption == Chunks \in Nat \ {0} /\ MaxOps \in Nat
ASSUME AtomicNamesAssumption ==
    /\ Kinds \subseteq AllKinds
    /\ None \notin Dirs /\ None \notin AllNames /\ Names \cap Ids = {}
    /\ None \notin Ids /\ Folder \notin Ids /\ Folder # None

VARIABLES
    \* the disk
    dirAt,            \* the directory each name of the root refers to
    entries,          \* what each name of each directory refers to
    \* the file that each upload makes, wherever it is
    copied,           \* what _atomic_upload has copied of the current file
    written,          \* chunks written after that
    synced,           \* it has been flushed to the disk
    \* the threads
    holds,            \* the path locks of each activation of acquire()
    pc,
    op,               \* the operation, with its resolved paths
    \* history
    begun,            \* operations begun, which numbers them
    touched,          \* files that clients renamed from or to the name of a temporary
                      \* file, or that APPE went on from under one
    moved, crashed    \* a directory was renamed; the machine went down

nodes == <<copied, written, synced>>
history == <<begun, touched, moved, crashed>>
vars == <<dirAt, entries, nodes, holds, pc, op, history>>

DirPaths == {<<d>> : d \in DirNames}
Paths == DirNames \X AllNames

Frames == Procs \X {"outer", "inner"}
Mutex == INSTANCE PathMutex WITH Keys <- DirPaths \cup Paths

\* A file is made of the uploads written to it, each whole or not
Piece(id, n) == [by |-> id, chunks |-> n]
Pieces == [by : Ids, chunks : 0 .. Chunks]
Content(id) == Append(copied[id], Piece(id, written[id]))

ASSUME NothingAssumption == None \notin Seq(Ids) /\ None \notin DirPaths \cup Paths

\* os.path.isdir of a directory, and what a path in one leads to
HasDir(x) == dirAt[x[1]] # None
EntryOf(x) == entries[dirAt[x[1]]][x[2]]
HasEntry(x) == HasDir(x) /\ EntryOf(x) # None
HasFile(x) == HasDir(x) /\ EntryOf(x) \in Ids
HasFolder(x) == HasDir(x) /\ EntryOf(x) = Folder
Exists(x) == IF x \in DirPaths THEN HasDir(x) ELSE HasEntry(x)

SetEntry(x, e) == [entries EXCEPT ![dirAt[x[1]]][x[2]] = e]

\* os.rename and os.replace in a directory: a file replaces a file, a folder a folder
Fits(x, y) ==
    /\ HasEntry(x) /\ HasDir(y)
    /\ IF EntryOf(x) = Folder THEN ~HasFile(y) ELSE ~HasFolder(y)
MoveEntry(x, y) ==
    [d \in Dirs |-> [n \in AllNames |->
        IF d = dirAt[y[1]] /\ n = y[2] THEN EntryOf(x)
        ELSE IF d = dirAt[x[1]] /\ n = x[2] THEN None
        ELSE entries[d][n]]]

EmptyDir(d) == \A n \in AllNames : entries[d][n] = None
Linked(d) == \E x \in DirNames : dirAt[x] = d

Uploading == {"STOR", "APPE", "STOU"}

Request(kind, id, src, dst) == [kind |-> kind, id |-> id, src |-> src, dst |-> dst]

\* resolve_path has made the paths canonical, and refused those outside the root.  A
\* client names a temporary file that it can see; nobody guesses one.
Seen(id) == {n \in 1 .. (id - 1) : \E d \in Dirs : entries[d][n] # None}
Requests(id) ==
    LET files == DirNames \X (Names \cup Seen(id))
    IN  {Request(k, id, x, None) : k \in Kinds \cap {"STOR", "APPE", "DELE"}, x \in files}
        \cup {Request(k, id, x, None) : k \in Kinds \cap {"RMD", "MKD"}, x \in DirPaths \cup files}
        \cup {Request(k, id, x, None) : k \in Kinds \cap {"STOU"}, x \in DirPaths}
        \cup {Request(k, id, x, y) : k \in Kinds \cap {"RNTO"}, x \in files, y \in files}
        \cup {Request(k, id, x, y) : k \in Kinds \cap {"MOVE"}, x \in DirPaths, y \in DirPaths}

NoRequest == Request(None, 0, None, None)

\* One directory, which may hold whole files from earlier
Init ==
    /\ \E a \in DirNames, d \in Dirs :
        /\ dirAt = [x \in DirNames |-> IF x = a THEN d ELSE None]
        /\ \E old \in SUBSET Names :
            entries = [e \in Dirs |-> [n \in AllNames |->
                IF e = d /\ n \in old THEN 0 ELSE None]]
    /\ copied = [id \in Ids |-> <<>>]
    /\ written = [id \in Ids |-> IF id = 0 THEN Chunks ELSE 0]
    /\ synced = [id \in Ids |-> id = 0]
    /\ holds = [f \in Frames |-> {}]
    /\ pc = [p \in Procs |-> "idle"]
    /\ op = [p \in Procs |-> NoRequest]
    /\ begun = 0 /\ touched = {} /\ moved = FALSE /\ crashed = FALSE

-----------------------------------------------------------------------------
GoTo(p, place) == pc' = [pc EXCEPT ![p] = place]

\* The threads in Q are done with their calls
Done(Q) ==
    /\ pc' = [p \in Procs |-> IF p \in Q THEN "idle" ELSE pc[p]]
    /\ op' = [p \in Procs |-> IF p \in Q THEN NoRequest ELSE op[p]]

\* A call, up to its lock.  An upload needs the parent directory to be there; RNFR, which
\* came before, has found a file.
Begin(p) ==
    /\ pc[p] = "idle" /\ begun < MaxOps
    /\ begun' = begun + 1
    /\ \E r \in Requests(begun + 1) :
        /\ r.kind \in Uploading => HasDir(r.src)
        /\ r.kind = "RNTO" => HasFile(r.src)
        /\ op' = [op EXCEPT ![p] = r]
    /\ GoTo(p, "asking")
    /\ UNCHANGED <<dirAt, entries, nodes, holds, touched, moved, crashed>>

\* The paths acquire() is called with; MKD does not call it
MutantLockSet(r) == {r.src}
LockSet(r) == {r.src, r.dst} \ {None}

Acquire(p) ==
    /\ pc[p] = "asking" /\ op[p].kind # "MKD"
    /\ Mutex!Enter(<<p, "outer">>, LockSet(op[p]))
    /\ GoTo(p, IF op[p].kind = "STOU" THEN "naming"
               ELSE IF op[p].kind \in Uploading THEN "locked" ELSE "body")
    /\ UNCHANGED <<dirAt, entries, nodes, op, history>>

\* store_unique: a name that nothing has and nobody else could guess, and the
\* nested acquire().  When Names is used up, the model drops the request.
MutantUnused(x) == TRUE
Unused(x) == ~HasEntry(x)

ChooseName(p) ==
    /\ pc[p] = "naming"
    /\ LET dir == op[p].src[1]
           free == {n \in Names : /\ Unused(<<dir, n>>)
                                  /\ \A q \in Procs : <<dir, n>> \notin {op[q].src, op[q].dst}}
       IN  IF free # {} /\ HasDir(op[p].src)
             THEN \E n \in free :
                    /\ Mutex!Enter(<<p, "inner">>, {<<dir, n>>})
                    /\ op' = [op EXCEPT ![p].src = <<dir, n>>]
                    /\ GoTo(p, "locked")
             ELSE GoTo(p, "unlocking") /\ UNCHANGED <<holds, op>>
    /\ UNCHANGED <<dirAt, entries, nodes, history>>

-----------------------------------------------------------------------------
(* _atomic_upload, with the lock *)

TempPath(p) == <<op[p].src[1], op[p].id>>

\* A folder is refused; mkstemp fails if the directory has gone
MakePart(p) ==
    /\ pc[p] = "locked"
    /\ IF HasDir(op[p].src) /\ ~HasFolder(op[p].src)
         THEN /\ entries' = SetEntry(TempPath(p), op[p].id)
              /\ GoTo(p, IF op[p].kind = "APPE" THEN "copying" ELSE "writing")
         ELSE GoTo(p, "unlocking") /\ UNCHANGED entries
    /\ UNCHANGED <<dirAt, nodes, holds, op, history>>

\* APPE starts from the file as it is
CopyCurrent(p) ==
    /\ pc[p] = "copying"
    /\ LET x == op[p].src
           id == op[p].id
       IN  IF HasFile(x)
             THEN /\ copied' = [copied EXCEPT ![id] = Content(EntryOf(x))]
                  /\ touched' = IF x[2] \in PartNames \/ EntryOf(x) \in touched
                                  THEN touched \cup {id} ELSE touched
             ELSE UNCHANGED <<copied, touched>>
    /\ GoTo(p, "writing")
    /\ UNCHANGED <<dirAt, entries, written, synced, holds, op, begun, moved, crashed>>

\* The file is open: its path plays no part in what is written to it
WriteChunk(p) ==
    /\ pc[p] = "writing" /\ written[op[p].id] < Chunks
    /\ written' = [written EXCEPT ![op[p].id] = @ + 1]
    /\ UNCHANGED <<dirAt, entries, copied, synced, holds, pc, op, history>>

\* The chunks have ended: flush and fsync
MutantSynced == FALSE
Synced == TRUE
AllWritten(p) == written[op[p].id] = Chunks

Sync(p) ==
    /\ pc[p] = "writing" /\ AllWritten(p)
    /\ synced' = [synced EXCEPT ![op[p].id] = Synced]
    /\ GoTo(p, "replacing")
    /\ UNCHANGED <<dirAt, entries, copied, written, holds, op, history>>

\* The source raises, the transfer is cancelled or the disk fails
FailUpload(p) ==
    /\ pc[p] \in {"copying", "writing", "replacing"}
    /\ GoTo(p, "removing")
    /\ UNCHANGED <<dirAt, entries, nodes, holds, op, history>>

\* os.replace: whatever is at the path of the temporary file by now
Replace(p) ==
    /\ pc[p] = "replacing"
    /\ IF Fits(TempPath(p), op[p].src)
         THEN entries' = MoveEntry(TempPath(p), op[p].src) /\ GoTo(p, "unlocking")
         ELSE UNCHANGED entries /\ GoTo(p, "removing")
    /\ UNCHANGED <<dirAt, nodes, holds, op, history>>

\* finally: whatever is at the path again.  The error of a path that leads nowhere is
\* swallowed, that of a folder goes to the caller.
MutantRemaining(p) == entries
Remaining(p) == IF HasFile(TempPath(p)) THEN SetEntry(TempPath(p), None) ELSE entries

RemovePart(p) ==
    /\ pc[p] = "removing"
    /\ entries' = Remaining(p)
    /\ GoTo(p, "unlocking")
    /\ UNCHANGED <<dirAt, nodes, holds, op, history>>

-----------------------------------------------------------------------------
(* The other operations *)

\* A folder is refused
DeleteFile(p) ==
    /\ pc[p] = "body" /\ op[p].kind = "DELE"
    /\ entries' = IF HasFile(op[p].src) THEN SetEntry(op[p].src, None) ELSE entries
    /\ GoTo(p, "unlocking")
    /\ UNCHANGED <<dirAt, nodes, holds, op, history>>

\* os.rmdir refuses a directory with anything in it
RemoveDirectory(p) ==
    /\ pc[p] = "body" /\ op[p].kind = "RMD"
    /\ LET x == op[p].src
       IN  IF x \in DirPaths
             THEN /\ dirAt' = IF HasDir(x) /\ EmptyDir(dirAt[x[1]])
                                THEN [dirAt EXCEPT ![x[1]] = None] ELSE dirAt
                  /\ UNCHANGED entries
             ELSE /\ entries' = IF HasFolder(x) THEN SetEntry(x, None) ELSE entries
                  /\ UNCHANGED dirAt
    /\ GoTo(p, "unlocking")
    /\ UNCHANGED <<nodes, holds, op, history>>

\* MKD takes no lock.  Where something is, it is refused; makedirs makes the missing
\* directory of a folder, then the folder.
NewDir(x) ==
    \E d \in Dirs : ~Linked(d) /\ EmptyDir(d) /\ dirAt' = [dirAt EXCEPT ![x[1]] = d]

MakeDirectory(p) ==
    /\ pc[p] = "asking" /\ op[p].kind = "MKD"
    /\ LET x == op[p].src
       IN  /\ IF HasDir(x) THEN UNCHANGED dirAt ELSE NewDir(x)
           /\ IF x \in DirPaths \/ HasEntry(x)
                THEN Done({p}) ELSE GoTo(p, "making") /\ UNCHANGED op
    /\ UNCHANGED <<entries, nodes, holds, history>>

MakeFolder(p) ==
    /\ pc[p] = "making"
    /\ LET x == op[p].src
       IN  entries' = IF HasDir(x) /\ ~HasEntry(x) THEN SetEntry(x, Folder) ELSE entries
    /\ Done({p})
    /\ UNCHANGED <<dirAt, nodes, holds, history>>

\* rename_entry: the two checks
CheckRename(p) ==
    /\ pc[p] = "body" /\ op[p].kind \in {"RNTO", "MOVE"}
    /\ GoTo(p, IF Exists(op[p].src) /\ ~Exists(op[p].dst) THEN "renaming" ELSE "unlocking")
    /\ UNCHANGED <<dirAt, entries, nodes, holds, op, history>>

\* os.rename in a directory, which would replace another file
RenameEntry(p) ==
    /\ pc[p] = "renaming" /\ op[p].kind = "RNTO"
    /\ LET x == op[p].src
           y == op[p].dst
       IN  IF Fits(x, y)
             THEN /\ entries' = MoveEntry(x, y)
                  /\ touched' = IF HasFile(x) /\ {x[2], y[2]} \cap PartNames # {}
                                  THEN touched \cup {EntryOf(x)} ELSE touched
             ELSE UNCHANGED <<entries, touched>>
    /\ GoTo(p, "unlocking")
    /\ UNCHANGED <<dirAt, nodes, holds, op, begun, moved, crashed>>

\* os.rename of a directory, which would replace an empty one
RenameDirectory(p) ==
    /\ pc[p] = "renaming" /\ op[p].kind = "MOVE"
    /\ LET from == op[p].src[1]
           to == op[p].dst[1]
       IN  IF dirAt[from] # None /\ (dirAt[to] # None => EmptyDir(dirAt[to]))
             THEN /\ dirAt' = [dirAt EXCEPT ![from] = None, ![to] = dirAt[from]]
                  /\ moved' = TRUE
             ELSE UNCHANGED <<dirAt, moved>>
    /\ GoTo(p, "unlocking")
    /\ UNCHANGED <<entries, nodes, holds, op, begun, touched, crashed>>

-----------------------------------------------------------------------------
\* The locks are released, the nested call's first
Innermost(p) == <<p, IF holds[<<p, "inner">>] # {} THEN "inner" ELSE "outer">>

Release(p) ==
    /\ pc[p] = "unlocking"
    /\ Mutex!Leave(Innermost(p))
    /\ IF \A i \in {"inner", "outer"} : holds'[<<p, i>>] = {}
         THEN Done({p}) ELSE UNCHANGED <<pc, op>>
    /\ UNCHANGED <<dirAt, entries, nodes, history>>

\* The machine goes down and the server starts again: the threads and their locks
\* are gone, temporary files stay, and of a file that was not synced nothing is left.
\* The names are taken to be on the disk: the code does not sync directories.  A crash
\* that finds neither a temporary file nor a file that was not synced would only end the
\* calls, so it is left out.
Crash ==
    /\ ~crashed /\ crashed' = TRUE
    /\ \E d \in Dirs, n \in AllNames :
        LET id == entries[d][n] IN id \in Ids /\ (id = n \/ ~synced[id])
    /\ copied' = [id \in Ids |-> IF synced[id] THEN copied[id] ELSE <<>>]
    /\ written' = [id \in Ids |-> IF synced[id] THEN written[id] ELSE 0]
    /\ Done(Procs)
    /\ holds' = [f \in Frames |-> {}]
    /\ UNCHANGED <<dirAt, entries, synced, begun, touched, moved>>

Upload(p) ==
    \/ ChooseName(p) \/ MakePart(p) \/ CopyCurrent(p) \/ WriteChunk(p) \/ Sync(p)
    \/ FailUpload(p) \/ Replace(p) \/ RemovePart(p)

Manage(p) ==
    \/ DeleteFile(p) \/ RemoveDirectory(p) \/ MakeDirectory(p) \/ MakeFolder(p)
    \/ CheckRename(p) \/ RenameEntry(p) \/ RenameDirectory(p)

Ended == begun = MaxOps /\ (\A p \in Procs : pc[p] = "idle") /\ UNCHANGED vars

Next ==
    \/ \E p \in Procs : Begin(p) \/ Acquire(p) \/ Upload(p) \/ Manage(p) \/ Release(p)
    \/ Crash \/ Ended

Spec == Init /\ [][Next]_vars

-----------------------------------------------------------------------------
(* The inductive invariant *)

Places ==
    {"idle", "asking", "naming", "locked", "copying", "writing", "replacing", "removing",
     "making", "body", "renaming", "unlocking"}
Calls == [kind : AllKinds \cup {None}, id : Ids,
          src : DirPaths \cup Paths \cup {None}, dst : DirPaths \cup Paths \cup {None}]

TypeOK ==
    /\ dirAt \in [DirNames -> Dirs \cup {None}]
    /\ entries \in [Dirs -> [AllNames -> Ids \cup {None, Folder}]]
    /\ copied \in [Ids -> Seq(Pieces)]
    /\ written \in [Ids -> 0 .. Chunks]
    /\ synced \in [Ids -> BOOLEAN]
    /\ holds \in [Frames -> SUBSET (DirPaths \cup Paths)]
    /\ pc \in [Procs -> Places]
    /\ op \in [Procs -> Calls]
    /\ begun \in Ids /\ touched \subseteq Ids /\ moved \in BOOLEAN /\ crashed \in BOOLEAN

\* A directory has one name.
NamedOnce == \A x, y \in DirNames : dirAt[x] = dirAt[y] /\ dirAt[x] # None => x = y

\* What an operation is about, which for STOU is a directory until it has a name
HasPart(p) == pc[p] \in {"copying", "writing", "replacing", "removing"}
InUpload(p) == pc[p] = "locked" \/ HasPart(p)
PathsFit(p) ==
    LET r == op[p] IN
    /\ r.kind \in {"STOR", "APPE", "DELE"} => r.src \in Paths /\ r.dst = None
    /\ r.kind \in {"RMD", "MKD"} => r.src \in DirPaths \cup Paths /\ r.dst = None
    /\ r.kind = "RNTO" => r.src \in Paths /\ r.dst \in Paths
    /\ r.kind = "MOVE" => r.src \in DirPaths /\ r.dst \in DirPaths
    /\ r.kind = "STOU" => r.dst = None
    /\ r.kind = "STOU" /\ pc[p] \in {"asking", "naming"} => r.src \in DirPaths
    /\ r.kind = "STOU" /\ InUpload(p) => r.src \in DirNames \X Names
    /\ r.src \in Paths /\ r.src[2] \in PartNames => r.src[2] < r.id
CallInv ==
    /\ \A p \in Procs :
        /\ pc[p] # "idle" => op[p].kind \in AllKinds /\ PathsFit(p)
        /\ pc[p] = "naming" => op[p].kind = "STOU"
        /\ InUpload(p) => op[p].kind \in Uploading
        /\ pc[p] = "copying" => op[p].kind = "APPE"
        /\ pc[p] = "making" => op[p].src \in Paths /\ op[p].kind = "MKD"
        /\ pc[p] \in {"body", "renaming"} => op[p].kind \notin Uploading
        /\ pc[p] # "idle" => op[p].id \in 1 .. begun
    /\ \A p, q \in Procs : pc[p] # "idle" /\ pc[q] # "idle" /\ op[p].id = op[q].id => p = q

\* No path has two holders, and a thread holds what it is working on.
Owned(p) == holds[<<p, "outer">>] \cup holds[<<p, "inner">>]
LockInv ==
    /\ \A p, q \in Procs : p # q => Owned(p) \cap Owned(q) = {}
    /\ \A p \in Procs :
        /\ pc[p] \in {"naming", "body", "renaming"} \/ InUpload(p) =>
              LockSet(op[p]) \subseteq Owned(p)
        /\ InUpload(p) /\ op[p].kind = "STOU" => <<op[p].src[1]>> \in Owned(p)

\* What an upload goes on from are uploads that have been published, each whole and
\* once.  An upload is published once, when all of it is on the disk.
WillPublish(p) ==
    pc[p] \in {"asking", "naming", "locked", "copying", "writing", "replacing"}
Published == (0 .. begun) \ {op[p].id : p \in {q \in Procs : WillPublish(q)}}
Sound(data, ids) ==
    /\ \A i \in DOMAIN data : data[i].chunks = Chunks /\ data[i].by \in ids
    /\ \A i, j \in DOMAIN data : data[i].by = data[j].by => i = j
CopyInv ==
    /\ \A id \in Ids \ touched : Sound(copied[id], Published \ {id})
    /\ \A id \in Ids : id > begun => copied[id] = <<>>
    /\ \A p \in Procs : pc[p] # "idle" /\ copied[op[p].id] # <<>> =>
        op[p].kind = "APPE" /\ pc[p] \notin {"asking", "naming", "locked", "copying"}

\* A file that is not where mkstemp made it is a published one.
FileInv ==
    /\ \A d \in Dirs, n \in AllNames : entries[d][n] \in Ids \ ({n} \cup touched) =>
        LET id == entries[d][n]
        IN  synced[id] /\ written[id] = Chunks /\ id \in Published
    /\ \A p \in Procs : pc[p] = "replacing" => AllWritten(p) /\ synced[op[p].id]

\* Under the name of another's temporary file are only files begun later, which go on
\* from none.
ForeignInv ==
    /\ \A d \in Dirs, n \in PartNames : entries[d][n] \in Ids \ ({n} \cup touched) =>
        entries[d][n] > n /\ copied[entries[d][n]] = <<>>
    /\ \A p \in Procs : InUpload(p) /\ op[p].src[2] \in PartNames /\ op[p].id \notin touched =>
        copied[op[p].id] = <<>>

\* What was seen under a lock still holds, until a directory is renamed, except for the
\* names of temporary files.  The directory of a STOU is locked too.
SeenInv ==
    /\ \A p \in Procs : InUpload(p) /\ pc[p] # "removing" /\ op[p].kind = "STOU" =>
        HasDir(op[p].src) /\ ~HasFile(op[p].src)
    /\ ~moved => \A p \in Procs :
        /\ touched = {} /\ pc[p] \in {"writing", "replacing"} /\ op[p].kind = "APPE"
           /\ op[p].src[2] \in Names =>
                copied[op[p].id] = IF HasFile(op[p].src) THEN Content(EntryOf(op[p].src)) ELSE <<>>
        /\ pc[p] = "renaming" /\ op[p].kind = "RNTO" /\ op[p].dst[2] \in Names =>
              ~HasFile(op[p].dst)

\* A temporary file is where the upload it belongs to looks for it.
PartInv ==
    ~moved /\ ~crashed =>
        \A d \in Dirs, id \in PartNames \ touched : entries[d][id] = id =>
            \E p \in Procs : op[p].id = id /\ HasPart(p) /\ dirAt[op[p].src[1]] = d

IInv ==
    /\ TypeOK /\ NamedOnce /\ CallInv /\ LockInv
    /\ CopyInv /\ FileInv /\ ForeignInv /\ SeenInv /\ PartInv

-----------------------------------------------------------------------------
(* Properties *)

\* Whatever name a file has but the one mkstemp gave it, it is a sequence of whole
\* uploads, none of them twice, however uploads, renames, failures and crashes
\* interleave: unless a client has itself renamed a file from or to the name of a
\* temporary file, or appended to one.
WholeFiles ==
    \A d \in Dirs, n \in AllNames : entries[d][n] \in Ids \ ({n} \cup touched) =>
        LET data == Content(entries[d][n])
        IN  /\ \A i \in DOMAIN data : data[i].chunks = Chunks
            /\ \A i, j \in DOMAIN data : data[i].by = data[j].by => i = j

\* The step in which an upload is published.
Publishes(p) == pc[p] = "replacing" /\ pc'[p] = "unlocking"

\* STOU never replaces a file, even when its directory is renamed or made anew.
StouIsNew ==
    [][\A p \in Procs : Publishes(p) /\ op[p].kind = "STOU" => ~HasFile(op[p].src)]_vars

\* An upload that ends leaves no temporary file where it made it, whatever clients do
\* under its name: unless a crash came between, its directory was renamed under it, or
\* the file itself was renamed.
PartsRemoved ==
    ~moved /\ ~crashed =>
        \A d \in Dirs, id \in PartNames \ touched : entries[d][id] = id =>
            \E p \in Procs : op[p].id = id /\ pc[p] \in {"copying", "writing", "replacing", "removing"}

Contents(x) ==
    LET data == Content(EntryOf(x))
    IN  IF HasFile(x)
          THEN [i \in DOMAIN data |-> IF data[i].chunks = Chunks THEN data[i].by ELSE None]
          ELSE None

Promise == INSTANCE FileStore WITH
    Paths <- DirNames \X Names,
    Uploads <- Ids,
    tree <- [x \in DirNames \X Names |-> Contents(x)],
    disturbed <- moved \/ touched # {}

\* Under the names that are not of temporary files, the files that clients see change as
\* in FileStore, until a directory is renamed or a client takes a temporary file's name
\* for a rename or an append.
ImplementsFileStore == Promise!Spec
=============================================================================
