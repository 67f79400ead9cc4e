# GeoFlow: a verification project

GeoFlow is a single-process web application (FastAPI, one Uvicorn worker) with
which a surveyor prepares a *règlement de copropriété*: it reads a DXF or DWG
plan, lets its user review what was found, validates the data and generates a
DOCX. This directory holds TLA+ models of the parts of it that change state,
the TLC runs that check them on small instances, and TLAPS proofs of their safety
properties for instances of any size. Paths are those of the repository (`app/...` is
`src/app/...` in PROJECT.json).

* [1. The system](#1-the-system)
* [2. The modules](#2-the-modules)
* [3. The runs](#3-the-runs)
* [4. What is proved](#4-what-is-proved)
* [5. Where the code and its documentation differ](#5-where-the-code-and-its-documentation-differ)
* [6. What is not modelled](#6-what-is-not-modelled)
* [7. Plan](#7-plan)

To check everything: `tlc -config X.cfg M` for each row of section 3,
`tlapm M.tla` for each module `*Proofs.tla` (section 4).

## 1. The system

### How it runs

There is one event loop and no database. Every `async def` handler of
`app/main.py` runs on that loop; between two `await`s it cannot be interleaved
with another. Most handlers contain no `await` after their form has been read:
they get a dossier, change it and save it in one step of the loop (the locks of
`storage.py:31` and of the profiles, taken around such code, never have to wait). The
exceptions are the handlers that run an analysis, which await the upload and
then a worker thread (`run_analysis`, `app/concurrency.py:57`). State is kept in
JSON files under `data/`, each written to a hidden file and moved into place by
`os.replace`. `Dockerfile:33` starts one worker, `compose.yaml:33` restarts it
after a crash. No code runs at start-up to repair anything.

So three things can be interleaved: handlers at their awaits, the one worker
thread with the event loop, and the browser with both (its posts and their
answers). And everything may stop between any two system calls.

### Components

| Component | State | Operations | Hard behaviour | What makes it correct |
|---|---|---|---|---|
| **Admission and worker limiter** `concurrency.py`, upload handlers of `main.py` | borrowers of two limiters, the limiter's queue, temporary uploads, conversion workspaces | admit or 429, read the body, wait for the worker, run, clean up, release | cancellation at any await, a cancelled request whose thread still runs, clean-up that is itself cancelled | one heavy analysis at a time, bounded files on disk, nothing leaks, every admitted request ends |
| **Dossier repository and handlers** `storage.py`, `workflow.py`, `main.py` | one JSON per dossier: reference, identity, plan, review, validation, documents | create, rename, edit, import, validate, generate, delete | an import holds a copy of a dossier for minutes while others edit it | unique references, no lost edit, no resurrection, documents only from validated data |
| **Dossier and document files** `storage.py` | the record, the copy set aside by a deletion, the files of each document | the system calls of save, generate, delete | each call may fail, the process may stop in between | listed documents exist, a deletion is complete or undone |
| **Quick analyses** `quick_analysis.py` | one JSON per analysis, 24 h of life | upload, choose a profile, promote, delete, expire | clean-up in the worker thread while the loop reads, updates, promotes | an ended analysis never returns and makes one dossier |
| **Profiles and their usage** `profiles/storage.py`, `profiles/usage.py` | one JSON per profile, `preferences.json`, the usage frozen in analyses and dossiers | create, edit, duplicate, delete, default, last use | a profile edited or deleted while an analysis uses it | a revision number means one set of rules; a change of rules is shown |
| **Browser autosave** `static/app.js` | values shown, status next to each form and of the page, count of pending saves | change, post, answer, leave | several posts in flight, lost, refused, answered out of order | "Enregistré" means stored, leaving is warned, the counter settles |
| **Review workflow** `workflow.py` | unit, planches, layers, zones, lots, annexes, millièmes, parcels | some thirty operations, all invalidating the validation | zones, lots, levels and buildings refer to each other; what a change of unit, a move of an annex or another plan leaves behind | references hold, checks are current, nothing valid is blocked |
| **Readiness** `documents/context.py` | none (a function of the dossier) | the blockers of a generation | reads checks stored by an earlier reconciliation | valid data has no blocker |
| **Reconciliation engine** `reconciliation/` | none (a function of the dossier and of its previous result) | classification, occurrences, representations, proposals, annexes, global checks, by the automatic engine, a profile, or both | rebuilt by every handler while manual decisions must survive; two engines put together; copies, drafts and levels told apart | every decision of the user holds, no contour is counted twice, nothing doubtful is verified |
| **Profile rules** `profiles/reading.py`, `evaluation.py`, `compatibility.py`, ... | a cache of evaluations | reading and evaluation of a plan, compatibility, recommendation | the same plan is read for display and by the engine | what is shown is what is applied |
| **DXF inspection, DWG conversion, DOCX layout** | none | | floating-point geometry, an external program, text | their outcomes are inputs of the models |
| **Security filter, pages, preview, tools** | none | | each request decided alone, read-only | not modelled, see section 6 |

They interact by calls on the loop (`main.py` calls repositories and workflow
functions), by the thread hand-over of `run_analysis`, by files (an analysis
becomes a dossier, a dossier refers to its documents), by copies (the usage of
a profile is frozen into an analysis, then into a dossier; an import works on a
copy of a dossier) and by HTTP between the page and the handlers.

PROJECT.json lists the hazards of this code line by line, each with the
properties that watch over it, or the reason why none does yet.

## 2. The modules

| Module | Models | Extends |
|---|---|---|
| `Admission` | the life of an analysis request, from its first byte to the release of its slot | |
| `DossierData` | the dossier record and the functions that transform it | |
| `DossierService` | the abstract service: one dossier changes one whole operation at a time | `DossierData` |
| `DossierStore` | the handlers over the repository, imports split at their awaits | `DossierData`; `INSTANCE DossierService` |
| `Storage` | the system calls behind the store, failing and stopping anywhere | |
| `Autosave` | the page, the network and the handlers of its forms | |
| `QuickAnalysis` | analyses, profiles, the two threads, promotion | |
| `Workflow` | the review of one dossier and the blockers of its generation | |
| `PlanReading` | a plan, and how the automatic engine and a profile read it | |
| `LotProposals` | the proposals, business zones and checks of the automatic engine | `PlanReading` |
| `ProfiledProposals` | the engine that applies a profile and completes it | `LotProposals` |
| `ProfileFit` | what the user is shown: evaluation, compatibility, recommendation, diagnostic | `ProfiledProposals` |
| `Reconciliation` | the life of a reconciliation under the handlers of the review | `ProfileFit`; `INSTANCE ZoneLedger` |
| `ZoneLedger` | abstract: which surfaces may be given to which lot, and when | |
| `MCAdmission`, `MCDossierStore`, `MCWorkflow`, `MCReconciliation` | constants for TLC | |
| `AdmissionProofs`, `DossierStoreProofs`, `StorageProofs`, `AutosaveProofs`, `QuickAnalysisProofs`, `WorkflowProofs` | theorems about the module they are named after | that module, TLAPS |
| `ProposalProofs` | lemmas about the two engines: what a reconciliation of any drawing gives | `ProfileFit`, TLAPS |
| `ReconciliationProofs` | theorems about `Reconciliation` | `Reconciliation`, `ProposalProofs` |

Definitions whose comment starts with "Mutant" are plausible bugs of the
definition that follows them; no specification uses them. They exist to check
that each property can fail.

### Admission

A request is a task with a program counter:

    idle -> refused -> idle                                 429 before the body
    idle -> parsing -> saving -> waiting/granted -> running -> closing -> leaving -> idle

| Model | Code |
|---|---|
| `Arrive`, `RefusalSent`, `Finish` | `AnalysisAdmissionMiddleware.__call__`, `acquire_nowait` and its `finally` (`concurrency.py:36-51`) |
| `ParseBody`, `Reject`, `SaveUpload`, `UploadFails`, `Close` | the upload handlers, `_save_upload` and the nested `finally` around `file.close()` (`main.py`) |
| `Acquire`, `Release`, `CancelWaiting`, `CancelGranted` | `run_sync(..., limiter=analysis_limiter)`: anyio's limiter, first come first served |
| `StartWorker`, `Converted`, `WorkerEnds`, `Resume` | the function in its thread, including the conversion workspace (`dwg/converter.py`) |
| `Cancel` | the cancellation of the task, delivered at once, late or never |

`Kind` tells the routes apart: an *upload* has one file and one run, *analyze*
may run twice (the second time without a file, when no drawing profile exists),
a *choice* has no file. The two tokens of the code are `AdmissionSlots = 2` and
`WorkerSlots = 1`. anyio is not in the repository: its limiter is modelled from
its use (`abandon_on_cancel` is left to its default, so that a running thread
shields its task) and marked external.

### DossierData, DossierService, DossierStore

A dossier is its *content* (reference, identity, plan, review), its status, the
fingerprint of the content that was validated, and the list of its documents,
each told by the content it was written from. A review is abstracted to whether
it has a blocker (`ReadyReviews`; without a plan, itself a blocker, the millième grid
alone can be reviewed: `ReviewsOf`); a fingerprint (SHA-256 of a canonical JSON)
is the content itself. `Key` takes a reference to its spelling without case and
spacing.

| Model | Code |
|---|---|
| `NewDossier`, `Promoted`, `Renamed`, `Identified`, `Reviewed`, `Imported`, `Validated`, `Changed`, `HasCurrentValidation`, `Ready`, `Generated` | the functions of `workflow.py`, `documents/context.py` and the bodies of the handlers |
| `CreateDossier` ... `DeleteDossier` | the handlers of `main.py` without an await: one step |
| `ImportPlan`, `AnalyseImport`, `CommitImport`, `FailImport` | `import_plan` (`main.py:961-1024`) before, during and after its awaits |
| `Restart` | the process stops: running imports are lost, files are not |

`DossierService` is what users are promised: the same operations, an import
being a single one on the current dossier. `DossierStore` implements it with
`store` mapped to itself: the private copies of imports are hidden, and a commit
is either the abstract import or a stutter. This is the point of the comparison
at `main.py:976` (the stored JSON must be the one the import started from).
`validated` is a history variable.

### Storage

`Storage` opens up the atomic save that `DossierStore` takes for granted. An
operation (`op`) is create, generate or delete, advanced by one system call per
action; every call has a failing disjunct; `Stop` may occur between any two. A
record lists generations; a generation is a directory of two files.
`torn` and `lost` are history variables that name the two cases the code itself
gives up on: a restoration after a half-removed tree, and a stop (or a failed
restoration) that leaves the copy aside.

### Autosave

A form is one field. `Post` is `autosave()` up to its `fetch`, `Serve`,
`LoseRequest` and `LoseAnswer` are the network and the handler, `Receive` is the
rest of `autosave()` with its `catch` and `finally` (`app.js:29-66`), `Leave` is
`beforeunload`. Messages are sets: they are handled and answered in any order.
A form may also be submitted as it is. `burst` is a history variable: the values
a form was given since it last had no save in flight.

### QuickAnalysis

Two threads: the event loop, in the middle of at most one handler (`handler`),
and the worker, which removes expired analyses (`doomed`: read, not yet
unlinked) and then writes its own. A request is what its task waits for
(`request`), holding the usage it froze before its await.

| Model | Code |
|---|---|
| `StartUpload`, `ReadExpired`, `UnlinkExpired`, `SaveSnapshot`, `Uploaded`, `Analyze` | `QuickAnalysisRepository.create`, `cleanup_expired` (`quick_analysis.py:79-136`) in the thread, and the route around them |
| `Choose`, `Update`, `SaveUpdate`, `UpdateFails` | `analyse_with_profile` before and after its await, `update()` |
| `Promote`, `FinishPromotion` | `create_dossier_from_analysis`: the save of the dossier, then the deletion of the analysis and `mark_used` (`main.py:1409-1413`) |
| `CreateProfile`, `UpdateProfile`, `DuplicateProfile`, `DeleteProfile`, `ForgetProfile`, `SetDefault` | `profiles/storage.py` |
| `Revision`, `UsageOf` | `ProfileRepository.save` and `ProfileUsage` |

`interrupted` is a history variable: what a stop cut in two.

### Workflow

`structure` is what a review builds: buildings and levels by the code that was
typed, lots by their number, each with the identifiers and contours it lists,
zones by contour, and the status of each contour. Identifiers are constants
(`BuildingId`, `LevelId`, `LotId`), so that a configuration may give two labels
the identifier that `_slug` gives them. Functions from a structure to a
structure are the parts that handlers share:

| Model | Code |
|---|---|
| `Associate` | `associate_candidate`, for each contour of a batch |
| `RemoveZones`, `Without`, `StatusWithout` | `_remove_zone`, for each zone of a set |
| `Checks`, `Reconcile` | the blocking checks that `reconcile_dossier` stores |
| `AttachImport`, `ConfirmUnit`, `SetStatus`, `ValidateZone`, `ConfirmLot`, `DetachAnnex`, `AttachAnnex`, `AttachProposedAnnexes`, `UpdateShare`, `SetGridComplete`, `ValidateData` | the handlers of `main.py` with their functions of `workflow.py` |
| `AttachAnnexFails` | the exception of `_attach_annex` that no handler catches |
| `Ready`, `ReferencesResolved`, `IdentifiersUnique`, `GridSound` | the blockers of `assess_generation_readiness` |

A request that raises `ValueError` works on a copy and saves nothing: it is not
a step. Whether the proposals still contain something unresolved is any Boolean
after each reconciliation, since it depends on geometry; the two checks that
depend on the structure are computed. The lot proposed for an annex is any
number or none. The buildings and levels of a lot are sets: the code takes the
first building of a list, the model any of them. Amounts of surface, address,
parcels, usage and designation are left out, and so are `autre`, which behaves
as `principale`, and `abandonnee`, which behaves as `exclue`. `Init` is a
dossier that has just been created, or promoted from an analysis.

### PlanReading, LotProposals, ProfiledProposals, ProfileFit

These four are pure operators: the two engines of `app/reconciliation/` are
functions of the dossier. The data they read is geometric, and geometry is what
TLC cannot enumerate, so **a plan is drawn on a line**: a contour is an interval
on a planche and a layer, a text is a point with a kind and a value, a surface is
a length, and every distance, touch, "inside" and translation of the code becomes
the same notion on the line. The control is kept whole: radii, "nearest with the
smallest handle among equals", tolerances, precedences, the order in which
representations are compared, the sources of a profile and their conflicts. A
*hollow* contour does not hold its own centre, as a U does not, because sources
that look inside and sources that look around disagree there. That a name or a
text matches a pattern is part of the layer or text (`RolesOf`, `kind`).

| Model | Code |
|---|---|
| `HumanExcluded`, `Excluded`, `Principal`, `Assigned`, `Annotation`, `Occurrences`, `OccurrenceStatus` | the first half of `reconcile_legacy` (`engine.py:760-1138`) |
| `TranslatedCopy`, `Duplicate`, `Kept`, `Representations`, `Counted` | `_split_representations` (`engine.py:208-313`); `Kept` is the one selection that the loop over the occurrences in order of `Preference` makes |
| `LegacyProposals`, `Decided`, `AutomaticStatus` | the proposals and the previous decisions (`engine.py:1141-1236`) |
| `Contacts`, `Suggestions`, `Annex` | `_single_contact`, `_annex_attachment` |
| `Blocking` | the checks of `_build_global_checks` that read the proposals |
| `Reading`, `ReadPlan`, `Role`, `Rejected`, `LotInside` | `profiles/reading.py` |
| `ProfileProposal`, `ProfileStatus`, `LegacyUsable`, `HybridProposals`, `ProfileZone`, `ReconcileProfile` | `reconciliation/profiled.py` |
| `Conclusion`, `Warned`, `Rank`, `Winners` | `evaluate_profile`, `assess`, `recommend` |
| `Good`, `NothingLeft`, `Unmatched`, `MissingReason` | `build_quick_diagnostic`, `_missing_reasons` |

Proposals are a function of the lot number, from which the code makes their
identifier. Evidence, a list of explanations beside each proposal, is left out.

### Reconciliation and ZoneLedger

`dossier` is the canonical dossier as far as reconciliation reads it and holds
its last result (`recon`); it begins as an analysis (`AnalyseWithProfile`,
`Promote`) and goes on as a dossier (`AttachImport` ... `AttachProposedAnnexes`,
the handlers of `main.py` with their functions of `workflow.py`). Every handler
ends with `Reconciled`, in the same step. `asked` is a history variable: what the
user last decided of each proposal of this plan. Where `Workflow` takes any
outcome of a reconciliation and keeps buildings, levels and millièmes,
`Reconciliation` computes the outcome and keeps of the structure only the lot and
the category of each zone, and which lots exist.

`ZoneLedger` is what a user relies on, whatever is proposed: a surface that was
given to a lot stays there, annexes alone may move or come back, only another
plan starts over. `Ledger == INSTANCE ZoneLedger WITH zones <- dossier.zones,
plan <- dossier.import, ...` is the refinement mapping, and `KeepsLedger` the
property that the review implements it.

## 3. The runs

All runs end; times are for two TLC workers.

| Run | Module, cfg | States | Shows |
|---|---|---|---|
| `admission` | `MCAdmission` | 13,111, 4 s | `OneAnalysisAtATime`, `TemporaryFilesBounded`, `WorkerKeepsItsFile`, `NothingLeaks`, and `AdmittedIsAnswered` under fairness |
| `dossiers` | `MCDossierStore` | 442,201, 35 s | `ReferencesUnique`, `ValidationIsCurrent`, `DocumentsWereValidated`, `DocumentsKept`, `DeletedForGood`, `Serializable` (the refinement) |
| `storage` | `Storage`, `MCStorage` | 43,527, 2 s | `ListedDocumentsExist`, `DeletedLeavesNothing`, `NothingStuckInTrash` |
| `autosave` | `Autosave`, `MCAutosave` | 586,984, 35 s | `SavedMeansStored`, `SavesAreCounted`, and `StatusSettles` under fairness |
| `analyses` | `QuickAnalysis`, `MCQuickAnalysis` | 3,814,817, 70 s | `PromotedOnce`, `EndedStaysEnded`, `RevisionIdentifiesRules`, `RulesChangeIsShown` |
| `workflow` | `MCWorkflow` | 650,078, 110 s | `StructureHolds`, `ChecksAreCurrent`, `ValidIsReady`, `MilliemesFollowLots` |
| `workflow_move` | `MCWorkflow`, `MCWorkflowMove` | *violation* | `MovesSucceed` fails, section 5 |
| `workflow_labels` | `MCWorkflow`, `MCWorkflowLabels` | *violation* | `LabelsDoNotCollide` fails, section 5 |
| `workflow_units` | `MCWorkflow`, `MCWorkflowUnits` | *violation* | `SurfacesInTheUnit` fails, section 5 |
| `reconcile` | `MCReconciliation` | 36,818, 30 s | `AuthorityHolds`, `CountedOnce`, `RepresentationsHold`, `AnnexesHold`, `ConfirmedIsAssigned`, `ShownIsTrue`, `DecisionsStay`, and `KeepsLedger` (the refinement) |
| `reconcile_decisions` | `MCReconciliation`, `MCReconcileDecisions` | *violation* | `DecisionWins` fails, section 5 |
| `reconcile_levels` | `MCReconciliation`, `MCReconcileLevels` | *violation* | `LevelsNotMerged` fails, section 5 |

Each module's `TypeOK` is checked by one of its runs. Some properties are
conjunctions of named parts, each with its own comment in the module:

| Property | Parts |
|---|---|
| `StructureHolds` | `LotsFollowZones`, `ReferencesHold`, `StatusFollowsZones`, `ZonesNeedUnit` |
| `AuthorityHolds` | `HumanExclusionWins`, `ProfileNotOverruled`: the user, then the profile, then the automatic engine |
| `CountedOnce` | `NoContourTwice`, `SurfacesAddUp` |
| `RepresentationsHold` | `RepresentationsAddUp`, `AsideNeverVerified` |
| `AnnexesHold` | `AnnexesFollowZones`, `SuggestionsAreSafe` |
| `ShownIsTrue` | `ShownIsApplied`, `RecommendedFindsLots`, `CompleteIsVerified` (the choice of a profile), `ReasonIsTrue`, `NothingLeftNothingBlocks` (the diagnostic), `ResultIsCurrent` (the stored result) |

Each part has a mutant of its own in PROJECT.json.

### Bounds

* `admission`: the code's own limits, two slots and one worker. Four requests
  are one more than can matter at once (two admitted, one refused, one
  arriving), one of each kind and a second upload; they come back after they
  end, so sequences are unbounded.
* `dossiers`: two dossiers and three spellings of two references: a conflict
  needs two dossiers, and a spelling that differs from the one it conflicts
  with. One import at a time: to it, another import that commits meanwhile is one
  more edit of the dossier it started from. One plan, which may be imported
  again, and one document, enough to be lost.
* `storage`: two dossiers with two generations each: one dossier could not tell
  "its directory" from "every directory". Identifiers are uuid4, never drawn
  twice; when both dossiers and generations are used up the model stops, hence
  `CHECK_DEADLOCK FALSE`.
* `autosave`: `MaxEdits` changes and submissions in all, four. Two changes of one field
  are enough to race; the third and fourth let a failure and a refused value fall
  between. A page on which no more changes are made stops, hence
  `CHECK_DEADLOCK FALSE`.
* `analyses`: two requests, the admission limit, one of which may be in the worker;
  one analysis; two dossiers, so that a second promotion is possible and must be
  excluded by the code; two profiles (a copy, and a default that is deleted), two
  rule sets (enough to change and to come back to the first) and two revisions.
  `MaxRevision` bounds edits, `MaxDossiers` promotions; identifiers run out,
  hence `CHECK_DEADLOCK FALSE`.
* `workflow`: two contours (one of a lot, one of an annex), two lots, two levels:
  an annex can move between lots and levels and leave a level or a lot empty.
  The layer of annexes can be excluded apart from the planche; the other contour
  is on a layer the plan does not declare. `MaxImports = 2`, so that a second
  plan meets a reviewed one. 500 millièmes: a grid of two lots is then sound, one
  of a single lot misses its total. Sequences of operations are not bounded.
* `workflow_labels`, `workflow_units`: the levels R+1 and R-1, and two units.
* `reconcile`: four drawings of three to seven contours, each made for the cases
  that are hard to tell apart: `Pasted` (a copy in a layout, a lot without
  annotation, an annex between two lots), `Draft` (an unannotated older version, a
  layer of waste, no unit in the file), `Crowded` (two numbers in one contour, a hollow
  contour, one that crosses itself, an annex that touches one of two lots) and
  `Clean` (nothing to say). Four profiles: `Strict`, `Other` (another office's
  layers, model and layouts, another unit, larger tolerances, the geometry holds true),
  `Marks` (marks inside, levels, a radius for each rule, no suggestion for annexes) and
  `Presented` (one selected layout). Every
  profile meets every drawing. `MaxSteps = 2` handlers after the promotion
  reach every pair of operations on every reading; the drawing may be imported again
  in between. Every property speaks of one state, of one step, or of the history
  in `asked`. The bound on
  steps stops the model, hence `CHECK_DEADLOCK FALSE`.
* `reconcile_decisions`: the drawing `Draft`, three steps (mark, exclude, retain);
  `reconcile_levels`: the drawing `Levels`, two steps (import, retain).

The theorems of section 4 remove these bounds for every safety property.

### Fairness

Only two specifications assume fairness, and none assumes anything of users.

* `Admission`: `WF(Handle(r))` (the loop runs a task that is ready) and
  `WF(Work(r))` (a thread ends: the conversion has a time-out,
  `dwg/converter.py`, and the inspection is a finite computation). Nothing is
  assumed of a client: it may never finish its body, and it then keeps its
  slot for ever. This is why `AdmittedIsAnswered` starts once the body has been
  read. No cancellation need ever happen. One fairness condition over the
  handler's actions of a request, instead of one per action, is weaker: a choice
  among enabled actions is never forced.
* `Autosave`: `WF(Network)` and `WF(Browser)`: a `fetch` settles, be it by an
  error, and the page runs the continuation of a settled one.

## 4. What is proved

Every safety property that a passing run checks is a theorem of the
specification, for every value of its constants that meets the assumptions
below: any number of requests and slots, of dossiers, documents, forms,
analyses and profiles, any drawing, any labels.

| Module | Theorem | Statement |
|---|---|---|
| `AdmissionProofs` | `TypeCorrect` | `Spec => []TypeOK` |
| | `WorkIsBounded` | `Spec => []OneAnalysisAtATime` |
| | `FilesAreBounded` | `Spec => []TemporaryFilesBounded` |
| | `WorkersKeepFiles` | `Spec => []WorkerKeepsItsFile` |
| | `NothingIsLeaked` | `Spec => []NothingLeaks` |
| `DossierStoreProofs` | `TypeCorrect` | `Spec => []TypeOK` |
| | `UniqueReferences` | `Spec => []ReferencesUnique` |
| | `CurrentValidation` | `Spec => []ValidationIsCurrent` |
| | `ValidatedDocuments` | `Spec => []DocumentsWereValidated` |
| | `ImportsAreSerializable` | `Spec => Serializable`: `DossierStore` implements `DossierService` |
| | `NoResurrection` | `Spec => DeletedForGood` |
| | `DocumentsAreKept` | `Spec => DocumentsKept` |
| `StorageProofs` | `TypeCorrect` | `Spec => []TypeOK` |
| | `ListedExist` | `Spec => []ListedDocumentsExist` |
| | `DeletionIsComplete` | `Spec => []DeletedLeavesNothing` |
| | `TrashIsEmptied` | `Spec => []NothingStuckInTrash` |
| `AutosaveProofs` | `TypeCorrect` | `Spec => []TypeOK` |
| | `SavesCounted` | `Spec => []SavesAreCounted` |
| | `SavedIsStored` | `Spec => []SavedMeansStored` |
| `QuickAnalysisProofs` | `TypeCorrect` | `Spec => []TypeOK` |
| | `RevisionsIdentify` | `Spec => []RevisionIdentifiesRules` |
| | `ChangesAreShown` | `Spec => []RulesChangeIsShown` |
| | `OneDossierEach` | `Spec => []PromotedOnce` |
| | `EndedIsOver` | `Spec => EndedStaysEnded` |
| `WorkflowProofs` | `TypeCorrect` | `Spec => []TypeOK` |
| | `StructureIsCoherent` | `Spec => []StructureHolds` |
| | `ChecksFollow` | `Spec => []ChecksAreCurrent` |
| | `ValidHasNoBlocker` | `Spec => []ValidIsReady` |
| | `SharesFollowLots` | `Spec => MilliemesFollowLots` |
| `ReconciliationProofs` | `TypeCorrect` | `Spec => []TypeOK` |
| | `AuthorityIsKept` | `Spec => []AuthorityHolds` |
| | `RepresentationsAreKept` | `Spec => []RepresentationsHold` |
| | `AnnexesAreKept` | `Spec => []AnnexesHold` |
| | `ConfirmationsHold` | `Spec => []ConfirmedIsAssigned` |
| | `SurfacesCountOnce` | `Spec => []CountedOnce` |
| | `ReviewKeepsLedger` | `Spec => KeepsLedger`: the review implements `ZoneLedger` |
| | `DecisionsAreKept` | `Spec => DecisionsStay` |
| | `ResultStaysCurrent` | `Spec => []ResultIsCurrent`, a part of `ShownIsTrue` |
| | `ShownAsApplied` | `Spec => []` of the parts of `ShownIsTrue` about profiles and reasons |
| | `ShownIsAlwaysTrue` | `Spec => []ShownIsTrue`, on plans that annotate no surface as zero |

`ProposalProofs` has no theorem of its own: it holds the lemmas about the two
engines that `ReconciliationProofs` rests on.

### Assumptions

Only those that the modules declare, which TLC evaluates in every run, and two
hypotheses stated with the theorems that need them:

* `Admission`: `RequestsAssumption` (the requests are finitely many, each has a
  kind), `SlotsAssumption` (the limiters have natural sizes, the worker's is
  not 0).
* `DossierData`, `DossierStore`: the markers (`NotCreated`, `Deleted`, `NoPlan`,
  `NoFingerprint`, `NoJob`, `NoResult`) are not values of the sets they are
  distinguished from, `Key` is defined on `References`, an unreviewed plan is not
  ready.
* `Storage`: `None` is not a set of generations.
* `Autosave`: a page is served with a valid value.
* `QuickAnalysis`: `QuickAnalysisAssumption` (the bounds are naturals, `None` is
  none of the things it stands in for).
* `Workflow`: `WorkflowAssumption` (the plan declares the planche of each contour,
  and "À préciser" is a level) and `MarkerAssumption`. Nothing is assumed of the
  identifiers: they may collide.
* `PlanReading`, `Reconciliation`: radii and the two parts of a tolerance are naturals,
  a layer of surfaces is not one of annexes, the model space is not a layout, units
  have positive areas; a drawing has finitely many contours and texts, with integer coordinates and centres;
  profiles measure in a known unit and number their sources; `None` is no profile,
  number, natural, zone or decision.
* `DecisionsAreKept`, `ResultStaysCurrent`, `ShownAsApplied` and `ShownIsAlwaysTrue`
  have the hypothesis that `None` is not a reconciliation result. It is of the same
  kind, but speaks of all results, which TLC cannot enumerate; so it is stated with
  the theorems.
* `ShownIsAlwaysTrue` has the hypothesis that the plans annotate positive surfaces
  (`Positive`). The code does not ensure it, and one part needs it,
  `NothingLeftNothingBlocks`: the proof found the case described at the end of
  section 5. `ShownAsApplied` and `ResultStaysCurrent`, which hold the other parts,
  do without.

### Arguments

Each theorem follows from an inductive invariant, `Inv` in its module. TLC
checked each `Inv` on the bounds of the module's run before it was proved.

**Admission.** `Inv` ties where a task is to everything it may hold (`Holds`), and
says what the limiter contains (`Limiter`). The delicate step is a release: the
token passes from the task that leaves to the oldest waiter. It preserves the
bound because the queue holds each waiting task once and nothing else, which the
lemmas about `Head`, `Tail` and `Unqueued` establish. Counts are cardinalities of
finite sets, so the two limits hold for any number of requests.

**DossierStore.** `Inv` adds `ImportsSound` to the invariants: the result that an
import holds is its base with another plan (`job.result = Imported(job.base,
plan)`). Without it the others are not inductive, because a commit saves a record
computed earlier: from `UnchangedSince(job)` the base is the stored dossier, so
what is saved has the stored reference (which is therefore still unique), no
validation and the stored documents. `SaveSound` states once what any save must
respect to preserve the three invariants; each handler is one lemma that meets
it, and `NextInv` puts them together. The refinement reuses `Inv`:
`CommitIsImport` shows that a commit is the abstract import of the dossier stored
at that moment. `NoResurrection` and `DocumentsAreKept` then follow step by step
from the actions of the abstract service.

**Storage.** `Operating` says what an operation has achieved at each of its points
(a generation under way is listed nowhere and its files exist up to there),
`Aside` that a copy is aside only while its dossier is being deleted, unless it
is `lost`. Each failing system call then leads to a point of which the same is true.

**Autosave.** A save is a post or its settling, under a number of its own
(`Numbered`), so the counter is the number of both (`Counted`). The posts of a form
in flight carry values of its burst, and a good answer tells that one of them is
stored (`Faithful`): whatever order the rest is handled in, the stored value stays
one of the burst, because a new burst only starts when nothing is in flight.
`SavedMeansStored` is therefore about every form, those changed in a hurry
included: nothing older than the burst is ever left under "saved". For a user who
waited before the last change the burst is that one value.

**QuickAnalysis.** Two facts carry the proof. An update that has read its analysis
writes it back although the worker may unlink it meanwhile: it does not bring it
back, because that analysis has then expired (`Busy`). And no frozen revision is
ahead of the stored profile, so the next one is new (`Revised`). `Promotions`
says that an analysis which made a dossier is over, about to be dropped, or was
interrupted; `NoReturn` is the step that gives `EndedStaysEnded`.

**Workflow.** `Sound(s)` is what every operation on a structure preserves: zones are
on known levels of known buildings, each level is used, the record of a lot is
that of the zones it lists, and a zone of a lot is listed by one lot. It is
stated without identifiers being unique. `LotsFollowZones` was first written with
"the zones that carry the identifier of the lot", which fails when two numbers make
one identifier; the proof showed which part never depends on it. The millièmes are
shown operation by operation (`Follow`): those without a lot are the ones the last
import gave, less those whose lot is known again.

**Reconciliation.** `Inv` has five parts: the dossier apart from its result is well
typed (`Typed`), the result is what a reconciliation of such a dossier gives
(`Resulted`), nothing is decided before the promotion (`Undecided1`), until then no
zone exists and the unit is the one of the profile (`Analysed`), and `Counters`. Every handler rebuilds the result of a dossier whose previous decisions
are still true of its zones (`Taken`), and this is what has to be shown of each
(`Handles(d)`). What a lot may hold and what may be an annex are disjoint, so moving
or detaching an annex disturbs no confirmation; surfaces are never taken away
from a lot, except by another plan, which also drops the previous result. The
refinement of `ZoneLedger` is shown handler by handler in the same lemmas. What a
reconciliation gives is proved in `ProposalProofs`, of any drawing and profile:

* a contour goes to the nearest number, and among equals to the smallest handle, so
  the surfaces of two lots are disjoint;
* the selection of the representations of a lot exists and is unique, by
  well-founded induction on the preference among occurrences; being a copy is
  mutual, so no two selected ones are copies of each other;
* the exclusions of the user are applied before the profile, the profile before what
  completes it;
* a sum over a finite set does not depend on the order the fold chooses
  (`SumRemove`, `SumDisjoint`, `SumOfSums`), so the surface of a lot, summed by
  occurrence, is that of its contours.

`ShownIsTrue` needs one fact more than `Inv`: the stored result is the one that
reconciling the dossier again gives (`Current`). A reconciliation reads of the
previous result the decisions only, and carries them over (`SameDecisions`), so
reconciling twice is reconciling once (`ReconcilesAgain`); a suggestion for an annex
reads the contours of proposals, which decisions do not change. With `Current`, the
result is unfolded into what the engines made of the plan, and compared part by
part with what `ProfileFit` shows of it: the reading of the check is that of the
engine when the user excludes nothing (`AppliedAsShown`), the check measures with
the unit of the profile, which an analysis has (`CoherentAccepted`), a lot that is
verified has only verified representations (`VerifiedCount`), and a principal zone
in no lot stays unresolved (`UngroupedZone`).

Three definitions have a form that the provers can use, with the same meaning:
`Unqueued` (an index function instead of `SelectSeq`), `Kept` (the unique selection,
instead of a fold), `Total` of `Workflow` (named, so that it is the same term
everywhere). The induction theorems of the library take an operator as a
parameter, which the installed provers cannot instantiate: where an induction is
needed, it is a smallest counterexample, taken in a set.

### Only model-checked

* `AdmittedIsAnswered` and `StatusSettles`: liveness under fairness, out of this
  prover's reach.
* The five violations of section 5: a counterexample is their proof.

## 5. Where the code and its documentation differ

* **Moving the only zone of a lot fails** (`workflow_move`). `_attach_annex`
  checks that the lot has a building, removes the annex from the lot it is in and
  only then reads `lot.batiment_ids[0]` (`workflow.py:750`). If the annex was the
  only zone of that lot and only its level changes, `_remove_zone` has just
  emptied the list: `IndexError`, a 500, and the level can never be corrected.
  The docstring promises "Attach an annex to a constituted lot, move it, or
  detach it" (`workflow.py:768`).
* **R+1 and R-1 are one level** (`workflow_labels`). Levels are looked up by code
  and named by `_slug`, which keeps letters and digits only (`workflow.py:55-58`).
  The dossier then has two levels with one identifier and
  `documents/context.py:89` blocks its generation; the message names no level.
  The form proposes "Ex. RdC, R+1, Sous-sol" (`templates/lots.html:159`).
* **Surfaces stay in the former unit** (`workflow_units`). `confirm_unit` converts
  the candidates and not the zones (`workflow.py:393`). A zone associated before
  keeps its geometric and its retained surface, which agree with each other, so
  no blocker appears and the document prints both. `README.md:218-219` promises
  surfaces "sans inventer".
* **A decision is lost with its proposal** (`reconcile_decisions`). Decisions are
  carried over from the proposals of the previous result (`engine.py:766-771`,
  `profiled.py:322-326`). A lot marked for review whose planche is excluded has no
  proposal any more; when the planche is retained again the proposal comes back
  with its automatic status. `engine.py:3-4` says that "an explicit user decision
  wins over the automatic result", `profiled.py:16-17` that human decisions "keep
  their authority over both". `DecisionsStay` shows that this is the only way: as long
  as the proposal exists its decision does.
* **Two levels taken for copies of one layout** (`reconcile_levels`).
  `_split_representations` compares an occurrence with each one kept before it on
  another planche and does not pair them off (`engine.py:282-303`). If the copy kept
  first is the one of a retained layout, both equal levels of the model are its
  duplicates, and half of the surface of the lot is set aside. `engine.py:268`:
  "Copies on the same planche are never merged: they may be two levels"; the same
  in `README.md:145`. The lot is to be confirmed, with the set-aside contours
  unticked.

Met while modelling, without a run of their own:

* a stop between the renaming of `<id>.json` (`storage.py:129`) and the removal of
  `dossiers/<id>` leaves documents that no route reaches, although
  `app/static/app.js:108` and `README.md:39` say that a deletion covers them:
  nothing reads `.<id>-deleting.tmp` back (`Stop` after `SetAside` in `Storage`);
* `autosave()` (`app.js:29-66`) posts each change without waiting for the answer to
  the previous one and shows whichever answer comes last: if the second save
  fails and its answer is seen first, the form says "✓ Enregistré" and shows a value
  the dossier does not hold, and two saves handled in the other order leave the older
  value. `SavedMeansStored` says what holds all the same: the value is one of the last
  burst of changes, and the next change made at rest is stored as shown;
* `attach_import` clears the lots and keeps their millièmes (`workflow.py:323`): until a
  lot of the same number is constituted they block the dossier
  (`documents/context.py:190`) and no page can remove them. `MilliemesFollowLots` shows
  that these are the only ones and that an import is the only way;
* the check of a profile and its compatibility count contours of abandoned
  planches, which the engine skips (`ShownIsApplied` and `RecommendedFindsLots`
  except plans of which a part is excluded);
* the check says which annexes have a lot nearby from the centres of contours
  (`evaluation.py:95-119`), the engine from the texts of lot numbers;
* a profile is said to read a plan completely although a lot drawn in several
  spaces stays to be confirmed (`CompleteIsVerified` excepts these lots);
* `_missing_reasons` counts the contours of a proposal, the engine those of each
  occurrence (`quick_analysis.py:316`, `engine.py:1119`): a lot of two occurrences of
  one contour each is told that its title is too generic;
* an annex that touches a set-aside copy of another lot is suggested to the lot
  that counts nearby (`SuggestionsAreSafe` speaks of counted representations);
* a contour within the tolerance of zero whose annotated surface reads "0", which the
  parser accepts (`engine.py:101`), is verified (`engine.py:49-58`) and blocks the
  dossier as incomplete (`engine.py:638`): the diagnostic then announces nothing left
  to do beside a blocking check;
* in a dossier with a profile, an annex that the automatic engine classified keeps
  the suggestion of a lot which the combined result may not hold (`SuggestionsAreSafe`
  is about dossiers without a profile);
* with a profile, two copies of a lot in two sub-regions of the model are added
  up: only different drawing *spaces* leave a doubt (`profiled.py:232`);
* a confirmed proposal stays confirmed when contours join it later;
* a client that never finishes its body keeps one of the two slots for ever;
* the atomic writers set `temporary_path` after the write, so a failing `write()`
  leaves its hidden file (`storage.py:47` and its two siblings);
* a deletion whose `rmtree` fails half way restores a dossier that lists missing
  documents (`torn` in `Storage`);
* `analyze()` answers 500 when its own analysis disappears during its second
  run (`main.py:1508`);
* an analysis that expires between the two halves of its promotion leaves a
  saved dossier and an error page (`main.py:1410`);
* `mark_used` may add a deleted profile to the preferences again
  (`profiles/storage.py:172`); nothing reads it.

## 6. What is not modelled

* **DXF inspection** (`dxf/`): parsing with ezdxf and floating-point geometry.
  The models take its outcome, a plan or an exception, as an input.
* **The ODA converter**: an external program. `Admission` models its success,
  failure and time-out, and the workspace around it.
* **DOCX layout** (`documents/generator.py`) and the pages, the annex view,
  the preview and labels: text and rendering, read-only.
* **The security filter** (`security.py`): stateless; it runs outside the
  admission middleware (`main.py:106-107`), so a refused request never reaches
  the models.
* **The surface decided by a user and its justification**, the address, the parcels
  (addressed by position from a page that may be stale, `main.py:876`), usage and
  designation: data without control.
* **The inference of profile rules** (`profiles/inference.py`), the pattern language
  (`patterns.py`) and the forms of profiles (`forms.py`): text processing that ends
  in rules, which are a constant of the models.
* **The cache of compatibilities** (`compatibility.py:115-135`): keyed by the hash of
  the rules and an analysis whose plan never changes, it returns what `assess`
  would.
* **Evidence**: the explanations beside each proposal.
* **The shutdown of Uvicorn**, which may cancel a task while its thread runs: the
  process then ends, which is `Restart`.
* **A temporary file whose removal fails**: the code logs it and goes on;
  `Admission` takes the removal to succeed. Likewise `QuickAnalysis` takes the removal
  of an expired analysis to succeed or to find it gone (`quick_analysis.py:120`).
* **Two processes on one `data/`**: excluded by `--workers 1`.
* **Widgets of the page** other than autosave, and the maintenance tools.

## 7. Plan

1. `Admission`, the bound on heavy work: done, proved.
2. `DossierData`, `DossierService`, `DossierStore` with the refinement: done, proved.
3. `Storage`, `Autosave`, `QuickAnalysis`: done, proved.
4. `Workflow`, the review and the blockers: done, proved. Left: that it
   refines the abstract review of `DossierData` (every operation is a `Changed`,
   `Ready` is the absence of blockers).
5. `PlanReading`, `LotProposals`, `ProfiledProposals`, `ProfileFit`, `Reconciliation`
   with the refinement of `ZoneLedger`: done, proved.
6. **Composition**: `Storage` as an implementation of the atomic save of
   `DossierStore`, with the exceptions `torn` and `lost` made explicit.
