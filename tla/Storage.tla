------------------------------ MODULE Storage ------------------------------
(***************************************************************************)
(* The files behind the dossier store (app/storage.py): the JSON record of *)
(* each dossier, the copy set aside while it is being deleted, and the two *)
(* files of each generated document.                                       *)
(*                                                                         *)
(* The handlers that write them never await between two file operations,   *)
(* so the event loop runs one operation at a time; but every operation is  *)
(* several system calls, each of which may fail, and the process may stop  *)
(* between any two of them.  A file is replaced by os.replace, hence old   *)
(* or new and never in between; the hidden temporary files this takes are  *)
(* never read back and are left out.                                       *)
(***************************************************************************)
EXTENDS FiniteSets

CONSTANTS
    Ids,          \* dossiers
    Generations,  \* generated documents
    None

ASSUME StorageAssumption == \A s \in SUBSET Generations : s # None

Parts == {"snapshot", "document"}    \* dossier_snapshot.json and the DOCX

VARIABLES
    record,   \* <id>.json: the generations it lists, or None
    trash,    \* .<id>-deleting.tmp, what it holds
    folders,  \* the directories dossiers/<id>/generated/<generation>
    files,    \* the files in them
    op,       \* the operation being executed
    result,   \* how the last operation ended
    torn,     \* dossiers restored after a deletion that failed half way
    lost      \* dossiers left in the trash by a stop or a failed restoration

vars == <<record, trash, folders, files, op, result, torn, lost>>

NoOp == [do |-> "none", id |-> None, gen |-> None, at |-> "idle"]
NoResult == [do |-> "none", id |-> None, ok |-> TRUE]

Init ==
    /\ record = [i \in Ids |-> None]
    /\ trash = [i \in Ids |-> None]
    /\ folders = {}
    /\ files = {}
    /\ op = NoOp
    /\ result = NoResult
    /\ torn = {}
    /\ lost = {}

\* The generations that a record, or a copy of it, lists.
In(stored) == IF stored = None THEN {} ELSE stored
Listed(i) == In(record[i])
FilesOf(d) == {f \in files : <<f[1], f[2]>> = d}
FoldersOf(i) == {d \in folders : d[1] = i}

\* An identifier is a fresh uuid4: one that no file ever carried.
FreshId(i) == /\ record[i] = None
              /\ i \notin lost
              /\ FoldersOf(i) = {}
FreshGeneration(g) ==
    \A i \in Ids : /\ <<i, g>> \notin folders
                   /\ g \notin Listed(i) \union In(trash[i])

Begin(do, i, g, at) ==
    /\ op = NoOp
    /\ op' = [do |-> do, id |-> i, gen |-> g, at |-> at]
    /\ result' = NoResult
At(do, at) == op.do = do /\ op.at = at
Goto(at) == op' = [op EXCEPT !.at = at] /\ UNCHANGED result
End(ok) == op' = NoOp /\ result' = [do |-> op.do, id |-> op.id, ok |-> ok]

-----------------------------------------------------------------------------
\* save(): the record is replaced whole, or the call fails and it stays.
Save(i, generations) ==
    \/ record' = [record EXCEPT ![i] = generations] /\ End(TRUE)
    \/ UNCHANGED record /\ End(FALSE)

StartCreate(i) ==
    /\ FreshId(i)
    /\ Begin("create", i, None, "save")
    /\ torn' = torn \ {i}
    /\ UNCHANGED <<record, trash, folders, files, lost>>

Create ==
    /\ At("create", "save")
    /\ Save(op.id, {})
    /\ UNCHANGED <<trash, folders, files, torn, lost>>

-----------------------------------------------------------------------------
\* generate_document: the directory, the snapshot, the DOCX, then the record
\* that lists them.
StartGenerate(i, g) ==
    /\ record[i] # None
    /\ FreshGeneration(g)
    /\ Begin("generate", i, g, "mkdir")
    /\ UNCHANGED <<record, trash, folders, files, torn, lost>>

\* Mutant: the record lists the document before its files are written.
ListFirst ==
    /\ At("generate", "mkdir")
    /\ folders' = folders \union {<<op.id, op.gen>>}
    /\ record' = [record EXCEPT ![op.id] = @ \union {op.gen}]
    /\ Goto("snapshot")
    /\ UNCHANGED <<trash, files, torn, lost>>

\* Mutant: the directory is taken to exist.
AssumeFolder ==
    /\ At("generate", "mkdir")
    /\ Goto("snapshot")
    /\ UNCHANGED <<record, trash, folders, files, torn, lost>>

MakeFolder ==
    /\ At("generate", "mkdir")
    /\ \/ folders' = folders \union {<<op.id, op.gen>>} /\ Goto("snapshot")
       \/ UNCHANGED folders /\ End(FALSE)
    /\ UNCHANGED <<record, trash, files, torn, lost>>

WritePart(part, next) ==
    /\ At("generate", part)
    /\ \/ files' = files \union {<<op.id, op.gen, part>>} /\ Goto(next)
       \/ UNCHANGED files /\ Goto("cleanup")
    /\ UNCHANGED <<record, trash, folders, torn, lost>>

WriteSnapshot == WritePart("snapshot", "document")
WriteDocument == WritePart("document", "save")

\* The except clause of save_generation_artifacts, which may fail too.
Cleanup ==
    LET mine == FilesOf(<<op.id, op.gen>>)
    IN  /\ At("generate", "cleanup")
        /\ \/ files' = files \ mine /\ folders' = folders \ {<<op.id, op.gen>>}
           \/ \E gone \in SUBSET mine : files' = files \ gone /\ UNCHANGED folders
        /\ End(FALSE)
        /\ UNCHANGED <<record, trash, torn, lost>>

SaveGeneration ==
    /\ At("generate", "save")
    /\ Save(op.id, record[op.id] \union {op.gen})
    /\ UNCHANGED <<trash, folders, files, torn, lost>>

-----------------------------------------------------------------------------
\* delete(): the record is set aside, the tree removed, the copy unlinked.
StartDelete(i) ==
    /\ record[i] # None
    /\ Begin("delete", i, None, "rename")
    /\ UNCHANGED <<record, trash, folders, files, torn, lost>>

SetAside ==
    /\ At("delete", "rename")
    /\ \/ /\ trash' = [trash EXCEPT ![op.id] = record[op.id]]
          /\ record' = [record EXCEPT ![op.id] = None]
          /\ Goto("rmtree")
       \/ UNCHANGED <<record, trash>> /\ End(FALSE)
    /\ UNCHANGED <<folders, files, torn, lost>>

\* Mutant: only the listed documents are removed.
ListedTree(i) == {d \in folders : d[1] = i /\ d[2] \in In(trash[i])}

\* What shutil.rmtree(generated_root) removes: every directory there is.
Tree(i) == {d \in folders : d[1] = i}

RemoveFile ==
    /\ At("delete", "rmtree")
    /\ \E d \in Tree(op.id) : \E f \in FilesOf(d) : files' = files \ {f}
    /\ UNCHANGED <<record, trash, folders, op, result, torn, lost>>

RemoveFolder ==
    /\ At("delete", "rmtree")
    /\ \E d \in Tree(op.id) : FilesOf(d) = {} /\ folders' = folders \ {d}
    /\ UNCHANGED <<record, trash, files, op, result, torn, lost>>

TreeRemoved ==
    /\ At("delete", "rmtree")
    /\ Tree(op.id) = {}
    /\ Goto("unlink")
    /\ UNCHANGED <<record, trash, folders, files, torn, lost>>

TreeFails ==
    /\ At("delete", "rmtree")
    /\ Goto("restore")
    /\ UNCHANGED <<record, trash, folders, files, torn, lost>>

\* Mutant: the unlink is outside the try.
PropagateError == End(FALSE) /\ UNCHANGED trash

\* Where a failing unlink leads: it is inside the try as well.
UnlinkFails == Goto("restore") /\ UNCHANGED trash

UnlinkTrash ==
    /\ At("delete", "unlink")
    /\ \/ trash' = [trash EXCEPT ![op.id] = None] /\ End(TRUE)
       \/ UnlinkFails
    /\ UNCHANGED <<record, folders, files, torn, lost>>

Restore ==
    /\ At("delete", "restore")
    /\ \/ /\ record' = [record EXCEPT ![op.id] = trash[op.id]]
          /\ trash' = [trash EXCEPT ![op.id] = None]
          /\ torn' = torn \union {op.id}
          /\ UNCHANGED lost
       \/ lost' = lost \union {op.id} /\ UNCHANGED <<record, trash, torn>>
    /\ End(FALSE)
    /\ UNCHANGED <<folders, files>>

-----------------------------------------------------------------------------
\* The process stops between two system calls; no start-up code repairs.
Stop ==
    /\ op # NoOp
    /\ op' = NoOp
    /\ result' = NoResult
    /\ lost' = lost \union {i \in Ids : trash[i] # None}
    /\ UNCHANGED <<record, trash, folders, files, torn>>

Next ==
    \/ \E i \in Ids : StartCreate(i) \/ StartDelete(i)
    \/ \E i \in Ids, g \in Generations : StartGenerate(i, g)
    \/ Create
    \/ MakeFolder \/ WriteSnapshot \/ WriteDocument \/ Cleanup \/ SaveGeneration
    \/ SetAside \/ RemoveFile \/ RemoveFolder \/ TreeRemoved \/ TreeFails
    \/ UnlinkTrash \/ Restore
    \/ Stop

Spec == Init /\ [][Next]_vars

-----------------------------------------------------------------------------
Stored == (SUBSET Generations) \union {None}
Places == {"idle", "save", "mkdir", "snapshot", "document", "cleanup",
           "rename", "rmtree", "unlink", "restore"}

\* A record, a copy and a file are of known dossiers and generations, and a
\* file lies in a directory that exists.
TypeOK ==
    /\ record \in [Ids -> Stored]
    /\ trash \in [Ids -> Stored]
    /\ folders \subseteq Ids \X Generations
    /\ files \subseteq Ids \X Generations \X Parts
    /\ \A f \in files : <<f[1], f[2]>> \in folders
    /\ op \in [do : {"none", "create", "generate", "delete"},
               id : Ids \union {None}, gen : Generations \union {None}, at : Places]
    /\ result \in [do : {"none", "create", "generate", "delete"},
                   id : Ids \union {None}, ok : BOOLEAN]
    /\ torn \subseteq Ids
    /\ lost \subseteq Ids

\* A document the dossier lists can be downloaded with its snapshot, wherever
\* the process stopped and whichever call failed (storage.py:140-167 before
\* main.py:1296-1298); only a deletion that failed half way takes them away.
ListedDocumentsExist ==
    \A i \in Ids \ torn : \A g \in Listed(i) : {i} \X {g} \X Parts \subseteq files

\* A deletion that answers success leaves no record, no copy and no document,
\* the leftovers of earlier interrupted generations included (storage.py:119).
DeletedLeavesNothing ==
    result.do = "delete" /\ result.ok =>
        /\ record[result.id] = None
        /\ trash[result.id] = None
        /\ FoldersOf(result.id) = {}

\* Whatever step of a deletion raises, the dossier comes back to the list: a
\* copy stays aside only when the process stopped or the restoration itself
\* failed (storage.py:130-138).
NothingStuckInTrash ==
    op = NoOp => \A i \in Ids \ lost : trash[i] = None

=============================================================================
