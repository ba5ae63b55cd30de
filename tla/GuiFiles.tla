------------------------------ MODULE GuiFiles ------------------------------
(***************************************************************************)
(* The file workspace of the local app (gui_files.py, gui_file_api.py):     *)
(* saves with a kept previous version, moves, a recoverable trash and       *)
(* uploads in chunks.  The requests of the app follow one another under a   *)
(* lock; other programs write the same folder at any time, and the server   *)
(* may die between two steps.                                               *)
(*                                                                          *)
(* The content of a file is the number of the write that produced it.  A    *)
(* revision is a digest of the inode, its size and its times: what matters  *)
(* is whether the one the operator holds is still that of the file, so the  *)
(* model keeps the paths for which it is.                                   *)
(***************************************************************************)
EXTENDS Naturals, Sequences

CONSTANTS
    Paths,          \* paths in one writable folder
    NoPath,
    Chunks,         \* chunks in the upload
    MaxVersions,    \* bound: contents that come into being
    MaxOperations,  \* bound: receipts
    MaxEffort,      \* bound: contents and receipts together
    MaxFileDeaths   \* bound: deaths of the server

ASSUME FilesAssumption ==
    /\ NoPath \notin Paths
    /\ {Chunks, MaxVersions, MaxOperations, MaxEffort, MaxFileDeaths} \subseteq Nat

Absent == 0

VARIABLES
    disk,       \* content of each path
    fresh,      \* paths whose current revision the operator holds
    twice,      \* paths whose file has a second hard link
    versions,   \* contents so far
    kept,       \* contents in the previous-content files of the receipts
    bin,        \* trash folder: content by the operation that put it there
    receipts,   \* completed.json: trash operations and their paths
    operations, \* intent.json files so far
    desk,       \* the request at work
    upload,     \* the upload: temporary file and manifest
    managed,    \* contents the manager placed or was asked to change
    restored,   \* trash operations whose item was renamed back
    fileDeaths

fileVars == <<disk, fresh, twice, versions, kept, bin, receipts, operations, desk,
              upload, managed, restored, fileDeaths>>
store == <<disk, fresh, twice>>
ledger == <<kept, bin, receipts, restored>>
bounds == <<versions, operations, fileDeaths>>

Ops == 1 .. MaxOperations
AtRest == [at |-> "rest", path |-> NoPath, dest |-> NoPath, op |-> 0, content |-> Absent,
           original |-> Absent, item |-> 0]
NoUpload == [open |-> FALSE, path |-> NoPath, temporary |-> <<>>, known |-> TRUE, placed |-> <<>>]

FilesInit ==
    /\ disk = [p \in Paths |-> Absent]
    /\ fresh = {}
    /\ twice = {}
    /\ versions = 0
    /\ kept = {}
    /\ bin = [o \in Ops |-> Absent]
    /\ receipts = [o \in Ops |-> NoPath]
    /\ operations = 0
    /\ desk = AtRest
    /\ upload = NoUpload
    /\ managed = {}
    /\ restored = {}
    /\ fileDeaths = 0

Exists(p) == disk[p] # Absent

(* resolve, for writing: a hard-linked file is refused. *)
Writable(p) == p \notin twice

(* A mutant of Put: an old revision passes for the new one. *)
PutUnderOldRevision(p, content) ==
    /\ disk' = [disk EXCEPT ![p] = content]
    /\ UNCHANGED fresh

(* Every change of a file gives it a revision nobody holds. *)
Put(p, content) ==
    /\ disk' = [disk EXCEPT ![p] = content]
    /\ fresh' = fresh \ {p}

(* _begin: the intent is on disk before anything else happens. *)
Begin(next, p, request) ==
    /\ desk = AtRest
    /\ operations < MaxOperations /\ versions + operations < MaxEffort
    /\ operations' = operations + 1
    /\ desk' = [request EXCEPT !.at = next, !.path = p, !.op = operations + 1]

GoesTo(next) == desk' = [desk EXCEPT !.at = next]

(* The operation returns or raises: whatever it has done so far stays. *)
Ends == desk' = AtRest
-----------------------------------------------------------------------------
(* The world besides the app. *)

(* list, info and preview hand out revisions; they take no lock. *)
Look(p) ==
    /\ Exists(p)
    /\ fresh' = fresh \cup {p}
    /\ UNCHANGED <<disk, twice, versions, ledger, operations, desk, upload, managed, fileDeaths>>

ExternalWrite(p) ==
    /\ versions < MaxVersions /\ versions + operations < MaxEffort
    /\ versions' = versions + 1
    /\ Put(p, versions + 1)
    /\ UNCHANGED <<twice, ledger, operations, desk, upload, managed, fileDeaths>>

ExternalDelete(p) ==
    /\ Exists(p)
    /\ Put(p, Absent)
    /\ twice' = twice \ {p}
    /\ UNCHANGED <<versions, ledger, operations, desk, upload, managed, fileDeaths>>
-----------------------------------------------------------------------------
(* write_text.  An existing file needs the revision it has, a new one none.  *)
SaveBegins(p) ==
    /\ Writable(p)
    /\ Exists(p) => p \in fresh
    /\ versions < MaxVersions
    /\ versions' = versions + 1
    /\ Begin("backup", p, [AtRest EXCEPT !.content = versions + 1, !.original = disk[p]])
    /\ managed' = IF Exists(p) THEN managed \cup {disk[p]} ELSE managed
    /\ UNCHANGED <<store, ledger, upload, fileDeaths>>

(* The request names a revision: it replaces a file, and does not create one. *)
Replacing == desk.original # Absent

(* A mutant of Backup: no previous version is kept. *)
NoBackup ==
    /\ desk.at = "backup"
    /\ GoesTo("recheck")
    /\ UNCHANGED <<store, ledger, upload, managed, bounds>>

Backup ==
    /\ desk.at = "backup"
    /\ GoesTo("recheck")
    /\ kept' = IF Exists(desk.path) THEN kept \cup {disk[desk.path]} ELSE kept
    /\ UNCHANGED <<store, bin, receipts, restored, upload, managed, bounds>>

(* The new content is staged; then the path and the revision are checked     *)
(* once more.                                                                *)
Recheck ==
    /\ desk.at = "recheck"
    /\ IF Writable(desk.path) /\ (Replacing => disk[desk.path] = desk.original)
       THEN GoesTo(IF Replacing THEN "replace" ELSE "link")
       ELSE Ends
    /\ UNCHANGED <<store, ledger, upload, managed, bounds>>

(* os.replace, for which the file must still be there to copy its access. *)
Replace ==
    /\ desk.at = "replace"
    /\ IF Exists(desk.path)
       THEN /\ GoesTo("finish")
            /\ Put(desk.path, desk.content)
            /\ twice' = twice \ {desk.path}
            /\ managed' = managed \cup {desk.content}
       ELSE /\ Ends
            /\ UNCHANGED <<store, managed>>
    /\ UNCHANGED <<ledger, upload, bounds>>

(* os.link creates the file if it is absent; the staged name goes next. *)
LinkNew ==
    /\ desk.at = "link"
    /\ IF Exists(desk.path)
       THEN Ends /\ UNCHANGED <<store, managed>>
       ELSE /\ GoesTo("unlink")
            /\ Put(desk.path, desk.content)
            /\ twice' = twice \cup {desk.path}
            /\ managed' = managed \cup {desk.content}
    /\ UNCHANGED <<ledger, upload, bounds>>

UnlinkStaged ==
    /\ desk.at = "unlink"
    /\ GoesTo("finish")
    /\ twice' = twice \ {desk.path}
    /\ fresh' = fresh \ {desk.path}
    /\ UNCHANGED <<disk, ledger, upload, managed, bounds>>

(* _finish of everything but the trash. *)
Finish ==
    /\ desk.at = "finish"
    /\ Ends
    /\ UNCHANGED <<store, ledger, upload, managed, bounds>>

(* relocate without copy: the target is free, and then the file is renamed.  *)
MoveBegins(p, q) ==
    /\ Exists(p) /\ p \in fresh /\ Writable(p)
    /\ ~Exists(q)
    /\ Begin("move", p, [AtRest EXCEPT !.dest = q])
    /\ managed' = managed \cup {disk[p]}
    /\ UNCHANGED <<store, ledger, upload, versions, fileDeaths>>

Move ==
    /\ desk.at = "move"
    /\ IF Exists(desk.path)
       THEN /\ GoesTo("finish")
            /\ disk' = [disk EXCEPT ![desk.dest] = disk[desk.path], ![desk.path] = Absent]
            /\ fresh' = fresh \ {desk.path, desk.dest}
            /\ twice' = twice \ {desk.path, desk.dest}
       ELSE Ends /\ UNCHANGED store
    /\ UNCHANGED <<ledger, upload, managed, bounds>>

(* A mutant of TrashBegins: the receipt is complete before the file moves. *)
TrashBeginsCompleted(p) ==
    /\ Exists(p) /\ p \in fresh /\ Writable(p)
    /\ Begin("trash", p, AtRest)
    /\ receipts' = [receipts EXCEPT ![operations + 1] = p]
    /\ managed' = managed \cup {disk[p]}
    /\ UNCHANGED <<store, kept, bin, restored, upload, versions, fileDeaths>>

(* trash: a rename into the trash folder, under the name of the operation.   *)
TrashBegins(p) ==
    /\ Exists(p) /\ p \in fresh /\ Writable(p)
    /\ Begin("trash", p, AtRest)
    /\ managed' = managed \cup {disk[p]}
    /\ UNCHANGED <<store, ledger, upload, versions, fileDeaths>>

TrashItem ==
    /\ desk.at = "trash"
    /\ IF Exists(desk.path)
       THEN /\ GoesTo("record")
            /\ bin' = [bin EXCEPT ![desk.op] = disk[desk.path]]
            /\ Put(desk.path, Absent)
            /\ twice' = twice \ {desk.path}
       ELSE Ends /\ UNCHANGED <<store, bin>>
    /\ UNCHANGED <<kept, receipts, restored, upload, managed, bounds>>

RecordTrash ==
    /\ desk.at = "record"
    /\ Ends
    /\ receipts' = [receipts EXCEPT ![desk.op] = desk.path]
    /\ UNCHANGED <<store, kept, bin, restored, upload, managed, bounds>>

(* restore reads completed.json of a trash operation; it records its intent  *)
(* before it looks whether the path is free.                                 *)
RestoreBegins(o) ==
    /\ receipts[o] # NoPath
    /\ Writable(receipts[o])
    /\ Begin("vacant", receipts[o], [AtRest EXCEPT !.item = o])
    /\ UNCHANGED <<store, ledger, upload, managed, versions, fileDeaths>>

Vacant ==
    /\ desk.at = "vacant"
    /\ IF Exists(desk.path) THEN Ends ELSE GoesTo("restore")
    /\ UNCHANGED <<store, ledger, upload, managed, bounds>>

Restore ==
    /\ desk.at = "restore"
    /\ IF bin[desk.item] # Absent
       THEN /\ GoesTo("finish")
            /\ Put(desk.path, bin[desk.item])
            /\ bin' = [bin EXCEPT ![desk.item] = Absent]
            /\ restored' = restored \cup {desk.item}
       ELSE Ends /\ UNCHANGED <<disk, fresh, bin, restored>>
    /\ UNCHANGED <<twice, kept, receipts, upload, managed, bounds>>
-----------------------------------------------------------------------------
(* Uploads. *)

(* upload_start: an empty temporary file and its manifest. *)
UploadStarts(p) ==
    /\ desk = AtRest /\ upload = NoUpload
    /\ ~Exists(p) /\ Writable(p)
    /\ upload' = [NoUpload EXCEPT !.open = TRUE, !.path = p]
    /\ UNCHANGED <<store, ledger, desk, managed, bounds>>

(* upload_chunk refuses a temporary file whose revision its manifest does    *)
(* not know, whatever is asked of it.                                        *)
UploadReady ==
    /\ desk = AtRest
    /\ upload.open /\ upload.known
    /\ Writable(upload.path)

(* A mutant of AppendChunk: the offset is not compared with what is there. *)
AppendAnyChunk(offset) ==
    /\ UploadReady
    /\ offset < Chunks
    /\ upload' = [upload EXCEPT !.temporary = Append(@, offset + 1), !.known = FALSE]
    /\ desk' = [AtRest EXCEPT !.at = "manifest"]
    /\ UNCHANGED <<store, ledger, managed, bounds>>

(* The client sends the chunk of any offset, also one it sent before and got *)
(* no answer for.                                                            *)
AppendChunk(offset) ==
    /\ UploadReady
    /\ offset = Len(upload.temporary) /\ offset < Chunks
    /\ upload' = [upload EXCEPT !.temporary = Append(@, offset + 1), !.known = FALSE]
    /\ desk' = [AtRest EXCEPT !.at = "manifest"]
    /\ UNCHANGED <<store, ledger, managed, bounds>>

NoteChunk ==
    /\ desk.at = "manifest"
    /\ Ends
    /\ upload' = [upload EXCEPT !.known = TRUE]
    /\ UNCHANGED <<store, ledger, managed, bounds>>

(* finish: every chunk is there; the temporary file is linked to its path,   *)
(* which changes its revision, and unlinked, and the manifest goes.          *)
UploadEnds ==
    /\ UploadReady
    /\ Len(upload.temporary) = Chunks
    /\ versions < MaxVersions
    /\ versions' = versions + 1
    /\ Begin("publish", upload.path, [AtRest EXCEPT !.content = versions + 1])
    /\ UNCHANGED <<store, ledger, upload, managed, fileDeaths>>

PublishUpload ==
    /\ desk.at = "publish"
    /\ IF Exists(desk.path)
       THEN Ends /\ UNCHANGED <<store, upload, managed>>
       ELSE /\ GoesTo("clear")
            /\ Put(desk.path, desk.content)
            /\ twice' = twice \cup {desk.path}
            /\ upload' = [upload EXCEPT !.known = FALSE, !.placed = upload.temporary]
            /\ managed' = managed \cup {desk.content}
    /\ UNCHANGED <<ledger, bounds>>

ClearUpload ==
    /\ desk.at = "clear"
    /\ GoesTo("finish")
    /\ twice' = twice \ {desk.path}
    /\ fresh' = fresh \ {desk.path}
    /\ upload' = [upload EXCEPT !.open = FALSE]
    /\ UNCHANGED <<disk, ledger, managed, bounds>>

AbortUpload ==
    /\ UploadReady
    /\ upload' = NoUpload
    /\ UNCHANGED <<store, ledger, desk, managed, bounds>>

ServerStops ==
    /\ desk # AtRest
    /\ fileDeaths < MaxFileDeaths
    /\ fileDeaths' = fileDeaths + 1
    /\ desk' = AtRest
    /\ UNCHANGED <<store, ledger, upload, managed, versions, operations>>

ManagerStep ==
    \/ \E p \in Paths : SaveBegins(p) \/ TrashBegins(p) \/ UploadStarts(p)
    \/ \E p, q \in Paths : MoveBegins(p, q)
    \/ \E o \in Ops : RestoreBegins(o)
    \/ Backup \/ Recheck \/ Replace \/ LinkNew \/ UnlinkStaged \/ Finish
    \/ Move \/ TrashItem \/ RecordTrash \/ Vacant \/ Restore
    \/ \E offset \in 0 .. Chunks : AppendChunk(offset)
    \/ NoteChunk \/ UploadEnds \/ PublishUpload \/ ClearUpload \/ AbortUpload

FilesNext ==
    \/ \E p \in Paths : Look(p) \/ ExternalWrite(p) \/ ExternalDelete(p)
    \/ ManagerStep
    \/ ServerStops

FilesSpec == FilesInit /\ [][FilesNext]_fileVars
-----------------------------------------------------------------------------
FilesTypeOK ==
    /\ \A p \in Paths : disk[p] \in 0 .. versions
    /\ fresh \cup twice \subseteq {p \in Paths : Exists(p)}
    /\ kept \cup managed \subseteq 1 .. versions
    /\ \A o \in Ops : bin[o] # Absent \/ receipts[o] # NoPath => o <= operations
    /\ desk.op \in 0 .. operations
    /\ fileDeaths \in 0 .. MaxFileDeaths

(* Where a content can be found again. *)
Surviving ==
    {disk[p] : p \in Paths} \cup kept \cup {bin[o] : o \in Ops}

(* No step of the manager loses a content that it placed itself or that a    *)
(* request was accepted to change: it is in its file, in a previous version  *)
(* or in the trash, whatever other programs wrote or deleted between the     *)
(* checks and wherever the server died.  (A program that moves a managed     *)
(* file onto the target of a step under way could lose it; none does here.)  *)
ManagedContentSurvives ==
    [][desk' # desk => (managed \cap Surviving) \subseteq Surviving']_fileVars

(* A completed trash receipt tells the truth: the item is in the trash until *)
(* an operation has renamed it back, and never twice.                        *)
TrashReceiptIsTrue ==
    \A o \in Ops : receipts[o] # NoPath => (bin[o] # Absent) # (o \in restored)

(* A file that an upload placed holds every chunk once and in order,         *)
(* whichever requests the client repeated after a lost answer.               *)
UploadIsWhole ==
    upload.placed # <<>> => upload.placed = [i \in 1 .. Chunks |-> i]

(* Every operation is accounted for: trash receipts are true and a file that *)
(* was uploaded is whole.                                                    *)
FilesAreAccounted == FilesTypeOK /\ TrashReceiptIsTrue /\ UploadIsWhole
=============================================================================
