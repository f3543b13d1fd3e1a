------------------------------ MODULE FileMoves ------------------------------
(* The file manager's requests that move and remove files (files.go) over the *)
(* helpers of files_secroot.go: paste (copy and cut), delete, rename, mkdir   *)
(* and the upload of a small file. Nothing is locked: the requests of several *)
(* clients interleave at every call to the file system. A folder has a name   *)
(* in each of its files to an inode; a file that is open outlives its name.   *)
(* The same file name stands for the same content wherever it is.             *)
EXTENDS Naturals, FiniteSets

CONSTANTS
  FileShares,       \* each share: the set of the paths of folders in it
  FileNames,        \* names of files inside a folder
  Links,            \* those that are symbolic links
  FileClients,      \* concurrent requests
  MaxInodes,        \* bound on the files that exist or are open
  MaxFileRequests, MaxFileFaults,
  Careful           \* whether clients keep out of each other's folders

ASSUME FileMovesAssumption ==
  /\ Links \subseteq FileNames /\ IsFiniteSet(FileNames) /\ "none" \notin FileNames
  /\ MaxInodes \in Nat /\ MaxFileRequests \in Nat /\ MaxFileFaults \in Nat
  /\ Careful \in BOOLEAN

VARIABLES
  folders,    \* the folders that exist
  names,      \* the inode of each name of each folder, or NoInode
  whole,      \* inodes whose content is complete
  transfers,   \* the requests under way
  stored,     \* files the users count on: uploaded and not deleted
  fileWork    \* requests and faults so far

Folders == UNION FileShares
SameShare(p, q) == \E s \in FileShares : {p, q} \subseteq s

fileVars == <<folders, names, whole, transfers, stored, fileWork>>

NoInode == 0
NoName == "none"

Has(p) == {f \in FileNames : names[p][f] # NoInode}
Named(i) == \E p \in Folders, f \in FileNames : names[p][f] = i
OpenIn(i) == {r \in transfers : i \in {r.in, r.out}}
FreeInodes == {i \in 1 .. MaxInodes : ~Named(i) /\ OpenIn(i) = {}}

\* The inode that a name gets or has; the bound leaves one for every name.
CanCreate(p, f) == names[p][f] = NoInode => FreeInodes # {}
Created(p, f) ==
  IF names[p][f] = NoInode THEN CHOOSE i \in FreeInodes : TRUE ELSE names[p][f]

Respond(r) == transfers' = transfers \ {r}
Becomes(r, s) == transfers' = (transfers \ {r}) \cup {s}

\* A file is emptied: whoever reads it may miss its end.
BecomesAndEmpties(r, s, i) ==
  transfers' = {[t EXCEPT !.intact = @ /\ t.in # i] : t \in transfers \ {r}} \cup {s}

\* A file system call fails, within the budget of faults.
FileFault ==
  /\ fileWork.faults < MaxFileFaults
  /\ fileWork' = [fileWork EXCEPT !.faults = @ + 1]

-----------------------------------------------------------------------------
(* Requests *)

Idle(c) == \A r \in transfers : r.client # c

Counted ==
  /\ fileWork.requests < MaxFileRequests
  /\ fileWork' = [fileWork EXCEPT !.requests = @ + 1]

\* What a careful client does, and no code asks for: it pastes into a folder
\* that does not exist, that no other request names, and from a folder that no
\* other request writes.
Apart(src, dest) ==
  Careful => /\ dest \notin folders
             /\ \A r \in transfers : dest \notin {r.src, r.dest} /\ src # r.dest

Request(c, op, src, dest, pc) ==
  [client |-> c, op |-> op, src |-> src, dest |-> dest, pc |-> pc, todo |-> {},
   file |-> NoName, in |-> NoInode, out |-> NoInode, intact |-> FALSE]

\* filesPaste up to the copy: source and destination are resolved, the source
\* is there, and there is room. A cut inside a share is a Rename.
FilesPaste(c, op, src, dest) ==
  /\ Idle(c) /\ Counted /\ Apart(src, dest)
  /\ src \in folders /\ (op = "cut" => ~SameShare(src, dest))
  /\ transfers' = transfers \cup {Request(c, op, src, dest, "enter")}
  /\ UNCHANGED <<folders, names, whole, stored>>

FilesDelete(c, p) ==
  /\ Idle(c) /\ Counted /\ p \in folders
  /\ transfers' = transfers \cup {Request(c, "delete", p, p, "removeList")}
  /\ UNCHANGED <<folders, names, whole, stored>>

\* renameIn: one renameat, which replaces an empty folder and no other.
Rename(p, q) ==
  /\ Counted /\ SameShare(p, q) /\ p # q /\ Apart(p, q)
  /\ p \in folders /\ Has(q) = {}
  /\ folders' = (folders \ {p}) \cup {q}
  /\ names' = [names EXCEPT ![p] = names[q], ![q] = names[p]]
  /\ UNCHANGED <<whole, transfers, stored>>

FilesMkdir(p) ==
  /\ Counted
  /\ folders' = folders \cup {p}
  /\ UNCHANGED <<names, whole, transfers, stored>>

\* handleFileUpload makes the folder before it creates the file.
FileUpload(c, p, f) ==
  /\ Idle(c) /\ Counted
  /\ Careful => \A r \in transfers : p \notin {r.src, r.dest}
  /\ folders' = folders \cup {p}
  /\ transfers' = transfers \cup {[Request(c, "upload", p, p, "create") EXCEPT !.file = f]}
  /\ UNCHANGED <<names, whole, stored>>

-----------------------------------------------------------------------------
(* Copying: copyTreeIn, copyFileIn and crossRootCopyTree *)

\* Open with O_CREATE and O_TRUNC: what the name had is gone.
OpenOut(r, f, in) ==
  LET out == Created(r.dest, f) IN
  /\ CanCreate(r.dest, f)
  /\ names' = [names EXCEPT ![r.dest][f] = out]
  /\ whole' = whole \ {out}
  /\ BecomesAndEmpties(r, [r EXCEPT !.todo = @ \ {f}, !.file = f, !.in = in, !.out = out,
                                    !.intact = in \in whole \ {out}], out)

\* What is written is complete when it was read complete from beginning to
\* end, and nobody else writes the file.
CloseOut(r, complete) ==
  whole' = IF complete /\ \A s \in transfers \ {r} : s.out # r.out
           THEN whole \cup {r.out} ELSE whole \ {r.out}

Closed(r) == [r EXCEPT !.file = NoName, !.in = NoInode, !.out = NoInode, !.intact = FALSE]

\* The name goes; the content too unless somebody has the file open.
Unlink(r, p, f) ==
  /\ names' = [names EXCEPT ![p][f] = NoInode]
  /\ whole' = IF OpenIn(names[p][f]) \subseteq {r} THEN whole \ {names[p][f]} ELSE whole

\* Mutant: a cut goes on to its source when a file could not be copied.
CutAnyway(r) ==
  Becomes(r, [Closed(r) EXCEPT !.pc = IF r.op = "cut" THEN "copy" ELSE "removeList",
                               !.todo = {}])

\* A failed copy takes the destination away, whatever was in it before.
CopyFails(r) == Becomes(r, [Closed(r) EXCEPT !.pc = "removeList", !.todo = {}])

\* The source is looked up and the folder is made; a folder that exists is fine.
Enter(r) ==
  /\ r.pc = "enter"
  /\ IF r.src \in folders
     THEN folders' = folders \cup {r.dest} /\ Becomes(r, [r EXCEPT !.pc = "list"])
     ELSE CopyFails(r) /\ UNCHANGED folders
  /\ UNCHANGED <<names, whole, stored, fileWork>>

\* Links are left out of the copy.
List(r) ==
  /\ r.pc = "list"
  /\ IF r.src \in folders
     THEN Becomes(r, [r EXCEPT !.pc = "copy", !.todo = Has(r.src) \ Links])
     ELSE CopyFails(r)
  /\ UNCHANGED <<folders, names, whole, stored, fileWork>>

CopyOpen(r, f) ==
  /\ r.pc = "copy" /\ r.file = NoName /\ f \in r.todo
  /\ IF f \in Has(r.src) /\ r.dest \in folders
     THEN OpenOut(r, f, names[r.src][f])
     ELSE CopyFails(r) /\ UNCHANGED <<names, whole>>
  /\ UNCHANGED <<folders, stored, fileWork>>

CopyClose(r) ==
  /\ r.pc = "copy" /\ r.file # NoName
  /\ CloseOut(r, r.intact /\ r.in \in whole)
  /\ Becomes(r, Closed(r))
  /\ UNCHANGED <<folders, names, stored, fileWork>>

\* A read or a write fails: the file is removed by its name.
CopyBreaks(r) ==
  /\ r.pc = "copy" /\ r.file # NoName /\ FileFault
  /\ Unlink(r, r.dest, r.file)
  /\ CopyFails(r)
  /\ UNCHANGED <<folders, stored>>

\* A copy is answered; a cut removes its source first.
CopyDone(r) ==
  /\ r.pc = "copy" /\ r.file = NoName /\ r.todo = {}
  /\ IF r.op = "cut" THEN Becomes(r, [r EXCEPT !.pc = "removeList", !.dest = r.src])
                     ELSE Respond(r)
  /\ UNCHANGED <<folders, names, whole, stored, fileWork>>

-----------------------------------------------------------------------------
(* removeAllIn of r.dest: of what was pasted when the copy failed, of the     *)
(* source of a cut, of a folder to delete.                                    *)

RemoveList(r) ==
  /\ r.pc = "removeList"
  /\ IF r.dest \in folders THEN Becomes(r, [r EXCEPT !.pc = "remove", !.todo = Has(r.dest)])
                           ELSE Respond(r)
  /\ UNCHANGED <<folders, names, whole, stored, fileWork>>

RemoveFile(r, f) ==
  /\ r.pc = "remove" /\ f \in r.todo
  /\ Unlink(r, r.dest, f)
  /\ stored' = IF r.op = "delete" THEN stored \ {f} ELSE stored
  /\ Becomes(r, [r EXCEPT !.todo = @ \ {f}])
  /\ UNCHANGED <<folders, fileWork>>

\* A folder that is not empty any more stays, which only the log says.
RemoveFolder(r) ==
  /\ r.pc = "remove" /\ r.todo = {}
  /\ folders' = IF Has(r.dest) = {} THEN folders \ {r.dest} ELSE folders
  /\ Respond(r)
  /\ UNCHANGED <<names, whole, stored, fileWork>>

RemoveBreaks(r) ==
  /\ r.pc = "remove" /\ FileFault
  /\ Respond(r)
  /\ UNCHANGED <<folders, names, whole, stored>>

-----------------------------------------------------------------------------
(* The rest of handleFileUpload *)

\* What the upload replaces is not counted on any more.
UploadCreate(r) ==
  /\ r.pc = "create"
  /\ LET out == Created(r.dest, r.file) IN
     IF r.dest \in folders
     THEN /\ CanCreate(r.dest, r.file)
          /\ names' = [names EXCEPT ![r.dest][r.file] = out]
          /\ whole' = whole \ {out}
          /\ stored' = IF names[r.dest][r.file] = NoInode THEN stored ELSE stored \ {r.file}
          /\ BecomesAndEmpties(r, [r EXCEPT !.pc = "write", !.out = out], out)
     ELSE Respond(r) /\ UNCHANGED <<names, whole, stored>>
  /\ UNCHANGED <<folders, fileWork>>

UploadClose(r) ==
  /\ r.pc = "write"
  /\ CloseOut(r, TRUE)
  /\ stored' = IF names[r.dest][r.file] = r.out THEN stored \cup {r.file} ELSE stored
  /\ Respond(r)
  /\ UNCHANGED <<folders, names, fileWork>>

\* The disk is full: the file is removed, the version it replaced too.
UploadBreaks(r) ==
  /\ r.pc = "write" /\ FileFault
  /\ Unlink(r, r.dest, r.file)
  /\ Respond(r)
  /\ UNCHANGED <<folders, stored>>

-----------------------------------------------------------------------------
\* The daemon dies: files stay as they are.
FileCrash ==
  /\ transfers # {} /\ FileFault
  /\ transfers' = {}
  /\ UNCHANGED <<folders, names, whole, stored>>

\* One folder with files in it.
FilesInit ==
  \E p \in Folders : \E here \in SUBSET FileNames :
    LET inode == CHOOSE i \in [here -> 1 .. Cardinality(here)] :
                   \A f, g \in here : i[f] = i[g] => f = g IN
    /\ folders = {p}
    /\ names = [q \in Folders |-> [f \in FileNames |->
                  IF q = p /\ f \in here THEN inode[f] ELSE NoInode]]
    /\ whole = 1 .. Cardinality(here)
    /\ transfers = {}
    /\ stored = here \ Links
    /\ fileWork = [requests |-> 0, faults |-> 0]

CopyStep(r) ==
  \/ Enter(r) \/ List(r) \/ \E f \in FileNames : CopyOpen(r, f)
  \/ CopyClose(r) \/ CopyBreaks(r) \/ CopyDone(r)

RemoveStep(r) ==
  \/ RemoveList(r) \/ \E f \in FileNames : RemoveFile(r, f)
  \/ RemoveFolder(r) \/ RemoveBreaks(r)

UploadStep(r) == UploadCreate(r) \/ UploadClose(r) \/ UploadBreaks(r)

FilesNext ==
  \/ \E c \in FileClients, p, q \in Folders :
       \/ \E op \in {"copy", "cut"} : FilesPaste(c, op, p, q)
       \/ FilesDelete(c, p)
       \/ \E f \in FileNames \ Links : FileUpload(c, p, f)
  \/ \E p, q \in Folders : Rename(p, q)
  \/ \E p \in Folders : FilesMkdir(p)
  \/ \E r \in transfers : CopyStep(r) \/ RemoveStep(r) \/ UploadStep(r)
  \/ FileCrash

FilesSpec == FilesInit /\ [][FilesNext]_fileVars

-----------------------------------------------------------------------------
(* Properties *)

\* A file that a user has stored and not deleted is whole somewhere, through
\* copies, cuts between shares, renames and failures of all of them and a crash
\* of the daemon at any step ("copia segura + borrado", filesPaste).
NothingIsLost ==
  \A f \in stored : \E p \in Folders : names[p][f] \in whole
=============================================================================
