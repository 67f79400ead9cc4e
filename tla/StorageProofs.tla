--------------------------- MODULE StorageProofs ---------------------------
(***************************************************************************)
(* What the files behind the dossier store guarantee for every set of      *)
(* dossiers and documents, wherever the process stops and whichever system *)
(* call fails.                                                             *)
(*                                                                         *)
(* The inductive invariant says what each operation has achieved at each   *)
(* of its points: a generation under way is listed nowhere and its files   *)
(* exist up to that point; a deletion under way has no record, and its     *)
(* copy is aside.                                                          *)
(***************************************************************************)
EXTENDS Storage, TLAPS

\* An operation under way, and what it has done so far.
Creating ==
    /\ op.do = "create"
    /\ op.at = "save"
    /\ op.id \in Ids \ lost
    /\ trash[op.id] = None

Generating ==
    /\ op.do = "generate"
    /\ op.at \in {"mkdir", "snapshot", "document", "save", "cleanup"}
    /\ op.id \in Ids
    /\ op.gen \in Generations
    /\ record[op.id] # None
    /\ op.gen \notin Listed(op.id)
    /\ op.at # "mkdir" => <<op.id, op.gen>> \in folders
    /\ op.at \in {"document", "save"} => <<op.id, op.gen, "snapshot">> \in files
    /\ op.at = "save" => <<op.id, op.gen, "document">> \in files

Deleting ==
    /\ op.do = "delete"
    /\ op.at \in {"rename", "rmtree", "unlink", "restore"}
    /\ op.id \in Ids \ lost
    /\ op.at = "rename" => record[op.id] # None
    /\ op.at # "rename" => record[op.id] = None /\ trash[op.id] # None
    /\ op.at = "unlink" => FoldersOf(op.id) = {}

Operating == op = NoOp \/ Creating \/ Generating \/ Deleting

\* A copy is aside while its dossier is being deleted, or for good.
Aside ==
    /\ \A i \in Ids : trash[i] # None \/ i \in lost => record[i] = None
    /\ \A i \in Ids \ lost :
         trash[i] # None => op.do = "delete" /\ op.id = i /\ op.at # "rename"

\* A result is that of the last operation, until the next one begins.
Results ==
    /\ op # NoOp => result = NoResult
    /\ DeletedLeavesNothing

Inv ==
    /\ TypeOK
    /\ Operating
    /\ Aside
    /\ ListedDocumentsExist
    /\ Results

-----------------------------------------------------------------------------
LEMMA InitInv == Init => Inv
  <1> SUFFICES ASSUME Init
               PROVE  Inv
    OBVIOUS
  <1>1. TypeOK
    BY DEF Init, TypeOK, Stored, Places, NoOp, NoResult
  <1>2. Operating /\ Aside
    BY DEF Init, Operating, Aside
  <1>3. ListedDocumentsExist /\ Results
    BY DEF Init, ListedDocumentsExist, Listed, In, Results, NoOp, NoResult,
       DeletedLeavesNothing
  <1> QED
    BY <1>1, <1>2, <1>3 DEF Inv

\* Between two operations nothing is under way, and an operation under way is
\* none of the others.
LEMMA OneOperation ==
    ASSUME Inv
    PROVE  /\ op.do = "create" => Creating
           /\ op.do = "generate" => Generating
           /\ op.do = "delete" => Deleting
           /\ op.do = "none" <=> op = NoOp
  BY DEF Inv, Operating, Creating, Generating, Deleting, NoOp

LEMMA StartCreateSound ==
    ASSUME Inv, NEW i \in Ids, StartCreate(i)
    PROVE  Inv'
  <1>1. /\ op = NoOp
        /\ op' = [do |-> "create", id |-> i, gen |-> None, at |-> "save"]
        /\ result' = NoResult
        /\ torn' = torn \ {i}
        /\ UNCHANGED <<record, trash, folders, files, lost>>
        /\ record[i] = None
        /\ i \notin lost
    BY DEF StartCreate, Begin, FreshId
  <1>2. TypeOK'
    BY <1>1 DEF Inv, TypeOK, Places, NoResult
  <1>3. trash[i] = None
    BY <1>1 DEF Inv, Aside, NoOp
  <1>4. Operating'
    BY <1>1, <1>3 DEF Operating, Creating
  <1>5. Aside'
    BY <1>1 DEF Inv, Aside, NoOp
  <1>6. ListedDocumentsExist'
    BY <1>1 DEF Inv, ListedDocumentsExist, Listed, In
  <1>7. Results'
    BY <1>1 DEF Results, NoResult, DeletedLeavesNothing
  <1> QED
    BY <1>2, <1>4, <1>5, <1>6, <1>7 DEF Inv

LEMMA CreateSound ==
    ASSUME Inv, Create
    PROVE  Inv'
  <1>1. Creating /\ op # NoOp
    BY OneOperation DEF Create, At, NoOp
  <1>2. /\ record' = [record EXCEPT ![op.id] = {}] \/ UNCHANGED record
        /\ op' = NoOp
        /\ \E ok \in BOOLEAN : result' = [do |-> "create", id |-> op.id, ok |-> ok]
        /\ UNCHANGED <<trash, folders, files, torn, lost>>
    BY DEF Create, At, Save, End
  <1>3. TypeOK'
    BY <1>1, <1>2 DEF Inv, TypeOK, Stored, Places, NoOp, Creating
  <1>4. Operating'
    BY <1>2 DEF Operating
  <1>5. Aside'
    BY <1>1, <1>2 DEF Inv, TypeOK, Aside, Creating
  <1>6. ListedDocumentsExist'
    BY <1>1, <1>2 DEF Inv, TypeOK, ListedDocumentsExist, Listed, In, Creating
  <1>7. Results'
    BY <1>2 DEF Results, DeletedLeavesNothing
  <1> QED
    BY <1>3, <1>4, <1>5, <1>6, <1>7 DEF Inv

LEMMA StartGenerateSound ==
    ASSUME Inv, NEW i \in Ids, NEW g \in Generations, StartGenerate(i, g)
    PROVE  Inv'
  <1>1. /\ op = NoOp
        /\ op' = [do |-> "generate", id |-> i, gen |-> g, at |-> "mkdir"]
        /\ result' = NoResult
        /\ UNCHANGED <<record, trash, folders, files, torn, lost>>
        /\ record[i] # None
        /\ g \notin Listed(i)
    BY DEF StartGenerate, Begin, FreshGeneration
  <1>2. TypeOK'
    BY <1>1 DEF Inv, TypeOK, Places, NoResult
  <1>3. Operating'
    BY <1>1 DEF Operating, Generating, Listed
  <1>4. Aside'
    BY <1>1 DEF Inv, Aside, NoOp
  <1>5. ListedDocumentsExist'
    BY <1>1 DEF Inv, ListedDocumentsExist, Listed
  <1>6. Results'
    BY <1>1 DEF Results, NoResult, DeletedLeavesNothing
  <1> QED
    BY <1>2, <1>3, <1>4, <1>5, <1>6 DEF Inv

\* A step of a generation before its record: the records and the copies stay.
LEMMA GenerationStep ==
    ASSUME Inv, op.do = "generate",
           UNCHANGED <<record, trash, torn, lost>>,
           \/ /\ op' # NoOp
              /\ \E at \in Places : op' = [op EXCEPT !.at = at]
              /\ UNCHANGED result
           \/ /\ op' = NoOp
              /\ result' = [do |-> "generate", id |-> op.id, ok |-> FALSE]
    PROVE  Aside' /\ Results'
  <1>1. Generating
    BY OneOperation
  <1>2. op'.do \in {"none", "generate"}
    BY DEF Inv, TypeOK, NoOp
  <1>3. Aside'
    BY <1>1, <1>2 DEF Inv, Aside, Generating
  <1>4. op # NoOp /\ result = NoResult
    BY <1>1 DEF Inv, Results, Generating, NoOp
  <1>5. Results'
    BY <1>4 DEF Results, DeletedLeavesNothing, NoResult
  <1> QED
    BY <1>3, <1>5

LEMMA MakeFolderSound ==
    ASSUME Inv, MakeFolder
    PROVE  Inv'
  <1>1. Generating /\ op.do = "generate" /\ op.at = "mkdir"
    BY OneOperation DEF MakeFolder, At
  <1>2. UNCHANGED <<record, trash, files, torn, lost>>
    BY DEF MakeFolder
  <1>3. CASE /\ folders' = folders \union {<<op.id, op.gen>>}
             /\ Goto("snapshot")
    <2>1. TypeOK'
      BY <1>1, <1>2, <1>3 DEF Inv, TypeOK, Goto, Places, Generating
    <2>2. Generating'
      BY <1>1, <1>2, <1>3 DEF Generating, Goto, Inv, TypeOK, Listed
    <2>3. op' # NoOp
      BY <2>2 DEF Generating, NoOp
    <2>4. Aside' /\ Results'
      BY <1>1, <1>2, <1>3, <2>3, GenerationStep DEF Goto, Places
    <2>5. ListedDocumentsExist'
      BY <1>2 DEF Inv, ListedDocumentsExist, Listed
    <2> QED
      BY <2>1, <2>2, <2>4, <2>5 DEF Inv, Operating
  <1>4. CASE UNCHANGED folders /\ End(FALSE)
    <2>1. TypeOK'
      BY <1>1, <1>2, <1>4 DEF Inv, TypeOK, End, NoOp, Places, Generating
    <2>2. Aside' /\ Results'
      BY <1>1, <1>2, <1>4, GenerationStep DEF End
    <2>3. ListedDocumentsExist'
      BY <1>2 DEF Inv, ListedDocumentsExist, Listed
    <2> QED
      BY <1>4, <2>1, <2>2, <2>3 DEF Inv, Operating, End
  <1> QED
    BY <1>3, <1>4 DEF MakeFolder

LEMMA WritePartSound ==
    ASSUME Inv,
           NEW part \in Parts,
           NEW next \in Places,
           \/ part = "snapshot" /\ next = "document"
           \/ part = "document" /\ next = "save",
           WritePart(part, next)
    PROVE  Inv'
  <1>1. Generating /\ op.do = "generate" /\ op.at = part
    BY OneOperation DEF WritePart, At
  <1>2. UNCHANGED <<record, trash, folders, torn, lost>>
    BY DEF WritePart
  <1>3. PICK at \in {next, "cleanup"} :
            /\ Goto(at)
            /\ \/ files' = files \union {<<op.id, op.gen, part>>}
               \/ files' = files /\ at = "cleanup"
    BY DEF WritePart
  <1>4. at \in Places
    BY <1>3 DEF Places
  <1>5. files \subseteq files'
    BY <1>3
  <1>6. TypeOK'
    <2>1. files' \subseteq Ids \X Generations \X Parts
      BY <1>1, <1>3 DEF Inv, TypeOK, Generating
    <2>2. \A f \in files' : <<f[1], f[2]>> \in folders
      <3> DEFINE new == <<op.id, op.gen, part>>
      <3>1. <<new[1], new[2]>> \in folders
        BY <1>1 DEF Generating, Parts
      <3> HIDE DEF new
      <3> QED
        BY <1>3, <3>1 DEF Inv, TypeOK, new
    <2>3. /\ op' \in [do : {"none", "create", "generate", "delete"},
                      id : Ids \union {None}, gen : Generations \union {None},
                      at : Places]
          /\ UNCHANGED result
      BY <1>3, <1>4 DEF Goto, Inv, TypeOK
    <2> QED
      BY <1>2, <2>1, <2>2, <2>3 DEF Inv, TypeOK
  <1>7. op' = [op EXCEPT !.at = at] /\ UNCHANGED result
    BY <1>3 DEF Goto
  <1>8. /\ op'.do = "generate"
        /\ op'.id = op.id
        /\ op'.gen = op.gen
        /\ op'.at = at
    BY <1>1, <1>7 DEF Inv, TypeOK
  <1>9. Generating'
    <2>1. at \in {"document", "save"} => <<op.id, op.gen, "snapshot">> \in files'
      BY <1>1, <1>3, <1>5 DEF Generating
    <2>2. at = "save" => <<op.id, op.gen, "document">> \in files'
      BY <1>3
    <2>3. at # "mkdir" /\ <<op.id, op.gen>> \in folders'
      BY <1>1, <1>2, <1>3 DEF Generating, Parts
    <2>4. at \in {"mkdir", "snapshot", "document", "save", "cleanup"}
      BY <1>3
    <2> QED
      BY <1>1, <1>2, <1>8, <2>1, <2>2, <2>3, <2>4 DEF Generating, Listed
  <1>10. Aside' /\ Results'
    BY <1>1, <1>2, <1>4, <1>7, <1>8, GenerationStep DEF NoOp
  <1>11. ListedDocumentsExist'
    BY <1>2, <1>5 DEF Inv, ListedDocumentsExist, Listed
  <1> QED
    BY <1>6, <1>9, <1>10, <1>11 DEF Inv, Operating

\* What a generation cleans up is listed by no record.
LEMMA CleanupSound ==
    ASSUME Inv, Cleanup
    PROVE  Inv'
  <1> DEFINE mine == FilesOf(<<op.id, op.gen>>)
  <1>1. Generating /\ op.do = "generate"
    BY OneOperation DEF Cleanup, At
  <1>2. PICK gone \in SUBSET mine :
            /\ files' = files \ gone
            /\ \/ UNCHANGED folders
               \/ gone = mine /\ folders' = folders \ {<<op.id, op.gen>>}
    BY DEF Cleanup
  <1>3. /\ op' = NoOp
        /\ result' = [do |-> "generate", id |-> op.id, ok |-> FALSE]
        /\ UNCHANGED <<record, trash, torn, lost>>
    BY <1>1 DEF Cleanup, End
  <1>4. \A f \in files : f \in mine <=> <<f[1], f[2]>> = <<op.id, op.gen>>
    BY DEF FilesOf
  <1> HIDE DEF mine
  <1>5. TypeOK'
    <2>1. \A f \in files' : <<f[1], f[2]>> \in folders'
      BY <1>2, <1>4 DEF Inv, TypeOK
    <2>2. op' \in [do : {"none", "create", "generate", "delete"},
                   id : Ids \union {None}, gen : Generations \union {None},
                   at : Places]
      BY <1>3 DEF NoOp, Places
    <2>3. result' \in [do : {"none", "create", "generate", "delete"},
                       id : Ids \union {None}, ok : BOOLEAN]
      BY <1>1, <1>3 DEF Generating
    <2> QED
      BY <1>2, <1>3, <2>1, <2>2, <2>3 DEF Inv, TypeOK
  <1>6. Aside' /\ Results'
    BY <1>1, <1>3, GenerationStep
  <1>7. ListedDocumentsExist'
    <2> SUFFICES ASSUME NEW i \in Ids \ torn, NEW g \in Listed(i),
                        NEW part \in Parts
                 PROVE  <<i, g, part>> \in files'
      BY <1>3 DEF ListedDocumentsExist, Listed
    <2>1. <<i, g, part>> \in files
      BY DEF Inv, ListedDocumentsExist
    <2>2. <<i, g>> # <<op.id, op.gen>>
      BY <1>1 DEF Generating
    <2>3. <<i, g, part>> \notin mine
      BY <1>4, <2>1, <2>2
    <2> QED
      BY <1>2, <2>1, <2>3
  <1> QED
    BY <1>3, <1>5, <1>6, <1>7 DEF Inv, Operating

\* What the record lists is written.
LEMMA SaveGenerationSound ==
    ASSUME Inv, SaveGeneration
    PROVE  Inv'
  <1>1. Generating /\ op.at = "save" /\ op # NoOp
    BY OneOperation DEF SaveGeneration, At, NoOp
  <1>2. /\ \/ record' = [record EXCEPT ![op.id] = @ \union {op.gen}]
           \/ UNCHANGED record
        /\ op' = NoOp
        /\ \E ok \in BOOLEAN : result' = [do |-> "generate", id |-> op.id, ok |-> ok]
        /\ UNCHANGED <<trash, folders, files, torn, lost>>
    BY DEF SaveGeneration, At, Save, End
  <1>3. record[op.id] \in SUBSET Generations
    BY <1>1 DEF Generating, Inv, TypeOK, Stored
  <1>4. record[op.id] \union {op.gen} \in SUBSET Generations
    BY <1>1, <1>3 DEF Generating
  <1>5. TypeOK'
    BY <1>1, <1>2, <1>4 DEF Inv, TypeOK, Stored, Places, NoOp, Generating
  <1>6. Aside'
    BY <1>1, <1>2 DEF Inv, TypeOK, Aside, Generating
  <1>7. ListedDocumentsExist'
    <2> SUFFICES ASSUME NEW i \in Ids \ torn, NEW g \in Listed(i)'
                 PROVE  {i} \X {g} \X Parts \subseteq files
      BY <1>2 DEF ListedDocumentsExist
    <2>1. CASE g \in Listed(i)
      BY <2>1 DEF Inv, ListedDocumentsExist
    <2>2. CASE g \notin Listed(i)
      <3>1. i = op.id /\ g = op.gen
        BY <1>1, <1>2, <1>3, <2>2, StorageAssumption
        DEF Listed, In, Inv, TypeOK, Generating
      <3> QED
        BY <1>1, <3>1 DEF Generating, Parts
    <2> QED
      BY <2>1, <2>2
  <1>8. Results'
    BY <1>2 DEF Results, DeletedLeavesNothing
  <1> QED
    BY <1>2, <1>5, <1>6, <1>7, <1>8 DEF Inv, Operating

-----------------------------------------------------------------------------
LEMMA StartDeleteSound ==
    ASSUME Inv, NEW i \in Ids, StartDelete(i)
    PROVE  Inv'
  <1>1. /\ op = NoOp
        /\ op' = [do |-> "delete", id |-> i, gen |-> None, at |-> "rename"]
        /\ result' = NoResult
        /\ UNCHANGED <<record, trash, folders, files, torn, lost>>
        /\ record[i] # None
    BY DEF StartDelete, Begin
  <1>2. TypeOK'
    BY <1>1 DEF Inv, TypeOK, Places, NoResult
  <1>3. Operating'
    BY <1>1 DEF Operating, Deleting, Inv, Aside
  <1>4. Aside'
    BY <1>1 DEF Inv, Aside, NoOp
  <1>5. ListedDocumentsExist'
    BY <1>1 DEF Inv, ListedDocumentsExist, Listed
  <1>6. Results'
    BY <1>1 DEF Results, NoResult, DeletedLeavesNothing
  <1> QED
    BY <1>2, <1>3, <1>4, <1>5, <1>6 DEF Inv

LEMMA SetAsideSound ==
    ASSUME Inv, SetAside
    PROVE  Inv'
  <1>1. Deleting /\ op.do = "delete" /\ op.at = "rename" /\ op # NoOp
    BY OneOperation DEF SetAside, At, NoOp
  <1>2. UNCHANGED <<folders, files, torn, lost>>
    BY DEF SetAside
  <1>3. CASE /\ trash' = [trash EXCEPT ![op.id] = record[op.id]]
             /\ record' = [record EXCEPT ![op.id] = None]
             /\ Goto("rmtree")
    <2>1. /\ op'.do = "delete"
          /\ op'.id = op.id
          /\ op'.at = "rmtree"
          /\ result' = NoResult
      BY <1>1, <1>3 DEF Goto, Inv, TypeOK, Results
    <2>2. TypeOK'
      BY <1>1, <1>2, <1>3 DEF Inv, TypeOK, Goto, Places, Stored, Deleting
    <2>3. Deleting'
      BY <1>1, <1>2, <1>3, <2>1 DEF Deleting, Inv, TypeOK
    <2>4. Aside'
      BY <1>1, <1>2, <1>3, <2>1 DEF Deleting, Inv, TypeOK, Aside
    <2>5. ListedDocumentsExist'
      BY <1>1, <1>2, <1>3
      DEF Deleting, Inv, TypeOK, ListedDocumentsExist, Listed, In
    <2>6. Results'
      BY <2>1 DEF Results, DeletedLeavesNothing, NoResult
    <2> QED
      BY <2>2, <2>3, <2>4, <2>5, <2>6 DEF Inv, Operating
  <1>4. CASE UNCHANGED <<record, trash>> /\ End(FALSE)
    <2>1. TypeOK'
      BY <1>1, <1>2, <1>4 DEF Inv, TypeOK, End, NoOp, Places, Deleting
    <2>2. Aside'
      BY <1>1, <1>2, <1>4 DEF Inv, Aside
    <2>3. ListedDocumentsExist' /\ Results'
      BY <1>1, <1>2, <1>4
      DEF Inv, ListedDocumentsExist, Listed, Results, DeletedLeavesNothing, End
    <2> QED
      BY <1>4, <2>1, <2>2, <2>3 DEF Inv, Operating, End
  <1> QED
    BY <1>3, <1>4 DEF SetAside

\* A step of a deletion whose record is aside, and stays there.
LEMMA DeletionStep ==
    ASSUME Inv, Deleting, op.at # "rename",
           UNCHANGED <<record, trash, torn, lost>>,
           \A f \in files : f[1] # op.id => f \in files',
           files' \subseteq files,
           folders' \subseteq folders,
           \A f \in files' : <<f[1], f[2]>> \in folders',
           NEW at \in {"rmtree", "unlink", "restore"},
           op' = [op EXCEPT !.at = at],
           UNCHANGED result,
           at = "unlink" => FoldersOf(op.id)' = {}
    PROVE  Inv'
  <1>1. op'.do = "delete" /\ op'.id = op.id /\ op'.at = at
    BY DEF Inv, TypeOK, Deleting
  <1>2. TypeOK'
    <2>1. op' \in [do : {"none", "create", "generate", "delete"},
                   id : Ids \union {None}, gen : Generations \union {None},
                   at : Places]
      BY DEF Inv, TypeOK, Places
    <2> QED
      BY <2>1 DEF Inv, TypeOK
  <1>3. Deleting'
    BY <1>1 DEF Deleting, FoldersOf
  <1>4. Aside'
    BY <1>1 DEF Inv, Aside, Deleting
  <1>5. ListedDocumentsExist'
    <2> SUFFICES ASSUME NEW i \in Ids \ torn, NEW g \in Listed(i),
                        NEW part \in Parts
                 PROVE  <<i, g, part>> \in files'
      BY DEF ListedDocumentsExist, Listed
    <2>1. <<i, g, part>> \in files
      BY DEF Inv, ListedDocumentsExist
    <2>2. i # op.id
      BY DEF Deleting, Listed, In
    <2> QED
      BY <2>1, <2>2
  <1>6. Results'
    BY <1>1 DEF Inv, Results, DeletedLeavesNothing, NoResult, Deleting, NoOp
  <1> QED
    BY <1>2, <1>3, <1>4, <1>5, <1>6 DEF Inv, Operating

LEMMA RemoveSound ==
    ASSUME Inv, RemoveFile \/ RemoveFolder
    PROVE  Inv'
  <1>1. Deleting /\ op.at = "rmtree"
    BY OneOperation DEF RemoveFile, RemoveFolder, At
  <1>2. /\ UNCHANGED <<record, trash, op, result, torn, lost>>
        /\ op' = [op EXCEPT !.at = "rmtree"]
    BY <1>1 DEF RemoveFile, RemoveFolder, Inv, TypeOK
  <1>3. CASE RemoveFile
    <2>1. PICK d \in Tree(op.id) : \E f \in FilesOf(d) : files' = files \ {f}
      BY <1>3 DEF RemoveFile
    <2>2. PICK f \in FilesOf(d) : files' = files \ {f}
      BY <2>1
    <2>3. d \in Ids \X Generations /\ d[1] = op.id
      BY DEF Tree, Inv, TypeOK
    <2>4. f[1] = op.id
      BY <2>2, <2>3 DEF FilesOf
    <2>5. UNCHANGED folders
      BY <1>3 DEF RemoveFile
    <2> QED
      BY <1>1, <1>2, <2>2, <2>4, <2>5, DeletionStep DEF Inv, TypeOK
  <1>4. CASE RemoveFolder
    <2>1. PICK d \in Tree(op.id) : FilesOf(d) = {} /\ folders' = folders \ {d}
      BY <1>4 DEF RemoveFolder
    <2>2. UNCHANGED files
      BY <1>4 DEF RemoveFolder
    <2>3. \A f \in files' : <<f[1], f[2]>> \in folders'
      BY <2>1, <2>2 DEF FilesOf, Inv, TypeOK
    <2> QED
      BY <1>1, <1>2, <2>1, <2>2, <2>3, DeletionStep
  <1> QED
    BY <1>3, <1>4

LEMMA TreeSound ==
    ASSUME Inv, TreeRemoved \/ TreeFails
    PROVE  Inv'
  <1>1. Deleting /\ op.at = "rmtree"
    BY OneOperation DEF TreeRemoved, TreeFails, At
  <1>2. UNCHANGED <<record, trash, folders, files, torn, lost>>
    BY DEF TreeRemoved, TreeFails
  <1>3. PICK at \in {"unlink", "restore"} :
            /\ op' = [op EXCEPT !.at = at]
            /\ UNCHANGED result
            /\ at = "unlink" => FoldersOf(op.id) = {}
    BY DEF TreeRemoved, TreeFails, Goto, Tree, FoldersOf
  <1>4. at = "unlink" => FoldersOf(op.id)' = {}
    BY <1>1, <1>2, <1>3 DEF FoldersOf, Inv, TypeOK
  <1> QED
    BY <1>1, <1>2, <1>3, <1>4, DeletionStep DEF Inv, TypeOK

LEMMA UnlinkSound ==
    ASSUME Inv, UnlinkTrash
    PROVE  Inv'
  <1>1. Deleting /\ op.do = "delete" /\ op.at = "unlink"
    BY OneOperation DEF UnlinkTrash, At
  <1>2. UNCHANGED <<record, folders, files, torn, lost>>
    BY DEF UnlinkTrash
  <1>3. CASE trash' = [trash EXCEPT ![op.id] = None] /\ End(TRUE)
    <2>1. /\ op' = NoOp
          /\ result' = [do |-> "delete", id |-> op.id, ok |-> TRUE]
      BY <1>1, <1>3 DEF End
    <2>2. TypeOK'
      BY <1>1, <1>2, <1>3, <2>1 DEF Inv, TypeOK, Stored, NoOp, Places, Deleting
    <2>3. Aside'
      BY <1>1, <1>2, <1>3 DEF Inv, TypeOK, Aside, Deleting
    <2>4. ListedDocumentsExist'
      BY <1>2 DEF Inv, ListedDocumentsExist, Listed
    <2>5. Results'
      BY <1>1, <1>2, <1>3, <2>1
      DEF Results, DeletedLeavesNothing, Deleting, FoldersOf, Inv, TypeOK
    <2> QED
      BY <2>1, <2>2, <2>3, <2>4, <2>5 DEF Inv, Operating
  <1>4. CASE UnlinkFails
    BY <1>1, <1>2, <1>4, DeletionStep DEF UnlinkFails, Goto, Inv, TypeOK
  <1> QED
    BY <1>3, <1>4 DEF UnlinkTrash

LEMMA RestoreSound ==
    ASSUME Inv, Restore
    PROVE  Inv'
  <1>1. Deleting /\ op.do = "delete" /\ op.at = "restore"
    BY OneOperation DEF Restore, At
  <1>2. /\ op' = NoOp
        /\ result' = [do |-> "delete", id |-> op.id, ok |-> FALSE]
        /\ UNCHANGED <<folders, files>>
    BY <1>1 DEF Restore, End
  <1>3. CASE /\ record' = [record EXCEPT ![op.id] = trash[op.id]]
             /\ trash' = [trash EXCEPT ![op.id] = None]
             /\ torn' = torn \union {op.id}
             /\ UNCHANGED lost
    <2>1. TypeOK'
      BY <1>1, <1>2, <1>3 DEF Inv, TypeOK, Stored, NoOp, Places, Deleting
    <2>2. Aside'
      BY <1>1, <1>2, <1>3 DEF Inv, TypeOK, Aside, Deleting
    <2>3. ListedDocumentsExist'
      BY <1>1, <1>2, <1>3 DEF Inv, TypeOK, ListedDocumentsExist, Listed, Deleting
    <2> QED
      BY <1>2, <2>1, <2>2, <2>3
      DEF Inv, Operating, Results, DeletedLeavesNothing
  <1>4. CASE lost' = lost \union {op.id} /\ UNCHANGED <<record, trash, torn>>
    <2>1. TypeOK'
      BY <1>1, <1>2, <1>4 DEF Inv, TypeOK, NoOp, Places, Deleting
    <2>2. Aside'
      BY <1>1, <1>2, <1>4 DEF Inv, TypeOK, Aside, Deleting
    <2>3. ListedDocumentsExist'
      BY <1>2, <1>4 DEF Inv, ListedDocumentsExist, Listed
    <2> QED
      BY <1>2, <2>1, <2>2, <2>3
      DEF Inv, Operating, Results, DeletedLeavesNothing
  <1> QED
    BY <1>3, <1>4 DEF Restore

\* A stop leaves at most a copy aside and files no record lists.
LEMMA StopSound ==
    ASSUME Inv, Stop
    PROVE  Inv'
  <1>1. /\ op' = NoOp
        /\ result' = NoResult
        /\ lost' = lost \union {i \in Ids : trash[i] # None}
        /\ UNCHANGED <<record, trash, folders, files, torn>>
    BY DEF Stop
  <1>2. TypeOK'
    BY <1>1 DEF Inv, TypeOK, NoOp, NoResult, Places
  <1>3. Aside'
    BY <1>1 DEF Inv, Aside
  <1>4. ListedDocumentsExist'
    BY <1>1 DEF Inv, ListedDocumentsExist, Listed
  <1> QED
    BY <1>1, <1>2, <1>3, <1>4
    DEF Inv, Operating, Results, DeletedLeavesNothing, NoResult

LEMMA NextInv == Inv /\ [Next]_vars => Inv'
  <1> SUFFICES ASSUME Inv, [Next]_vars
               PROVE  Inv'
    OBVIOUS
  <1>1. ASSUME NEW i \in Ids, StartCreate(i) \/ StartDelete(i)
        PROVE  Inv'
    BY <1>1, StartCreateSound, StartDeleteSound
  <1>2. ASSUME NEW i \in Ids, NEW g \in Generations, StartGenerate(i, g)
        PROVE  Inv'
    BY <1>2, StartGenerateSound
  <1>3. CASE Create \/ MakeFolder \/ Cleanup \/ SaveGeneration
    BY <1>3, CreateSound, MakeFolderSound, CleanupSound, SaveGenerationSound
  <1>4. CASE WriteSnapshot \/ WriteDocument
    BY <1>4, WritePartSound DEF WriteSnapshot, WriteDocument, Parts, Places
  <1>5. CASE SetAside \/ RemoveFile \/ RemoveFolder \/ TreeRemoved \/ TreeFails
    BY <1>5, SetAsideSound, RemoveSound, TreeSound
  <1>6. CASE UnlinkTrash \/ Restore \/ Stop
    BY <1>6, UnlinkSound, RestoreSound, StopSound
  <1>7. CASE UNCHANGED vars
    BY <1>7
    DEF vars, Inv, TypeOK, Operating, Creating, Generating, Deleting, Aside,
        ListedDocumentsExist, Results, DeletedLeavesNothing, Listed, FoldersOf
  <1> QED
    BY <1>1, <1>2, <1>3, <1>4, <1>5, <1>6, <1>7 DEF Next

LEMMA Invariance == Spec => []Inv
  <1> QED
    BY InitInv, NextInv, PTL DEF Spec

-----------------------------------------------------------------------------
(* The results.                                                             *)

\* Every reachable state of the data directory is well typed; a file always
\* lies in a directory that exists.
THEOREM TypeCorrect == Spec => []TypeOK
  <1>1. Inv => TypeOK
    BY DEF Inv
  <1> QED
    BY <1>1, Invariance, PTL

\* Wherever the process stops, a listed document can be downloaded with its
\* snapshot, unless a deletion of its dossier failed half way.
THEOREM ListedExist == Spec => []ListedDocumentsExist
  <1>1. Inv => ListedDocumentsExist
    BY DEF Inv
  <1> QED
    BY <1>1, Invariance, PTL

\* A deletion that answers success has removed everything of its dossier.
THEOREM DeletionIsComplete == Spec => []DeletedLeavesNothing
  <1>1. Inv => DeletedLeavesNothing
    BY DEF Inv, Results
  <1> QED
    BY <1>1, Invariance, PTL

\* Only a stop or a failed restoration leaves a dossier out of the list.
THEOREM TrashIsEmptied == Spec => []NothingStuckInTrash
  <1>1. Inv => NothingStuckInTrash
    BY DEF Inv, Aside, NothingStuckInTrash, NoOp
  <1> QED
    BY <1>1, Invariance, PTL

=============================================================================
