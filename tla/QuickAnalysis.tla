--------------------------- MODULE QuickAnalysis ---------------------------
(***************************************************************************)
(* Temporary analyses (app/quick_analysis.py), the drawing profiles chosen *)
(* for them (app/profiles/storage.py, usage.py) and the routes that join   *)
(* the two (app/main.py).                                                  *)
(*                                                                         *)
(* Two threads touch the analysis files: the event loop, which runs one    *)
(* handler at a time between two awaits, and the worker thread, in which   *)
(* an upload first removes the expired analyses and then writes its own.   *)
(* The profile of a choice is read before the worker is awaited and the    *)
(* result is written after it, when the profile or the analysis may have   *)
(* changed.  The process may stop at any point.                            *)
(***************************************************************************)
EXTENDS Integers, FiniteSets

CONSTANTS
    Profiles,     \* identifiers of profiles, each a fresh uuid4
    Rules,        \* contents of a profile
    Analyses,     \* identifiers of analyses, each a fresh uuid4
    Requests,     \* uploads and choices in progress (the two admitted)
    None,
    MaxRevision,  \* bound on the revisions of a profile
    MaxDossiers   \* bound on the dossiers created

ASSUME QuickAnalysisAssumption ==
    /\ None \notin Profiles \union Analyses
    /\ MaxRevision \in Nat \ {0}
    /\ MaxDossiers \in Nat

VARIABLES
    profile,     \* data/profiles/<id>.json
    default,     \* preferences.json: the default profile
    lastUsed,    \* preferences.json: the profiles with a date of last use
    analysis,    \* data/analyses/<id>.json: the profile_usage it holds
    expired,     \* analyses whose 24 hours are over
    request,     \* what each request is waiting for
    doomed,      \* the expired analysis the worker is about to unlink
    handler,     \* what the event loop is in the middle of
    dossiers,    \* dossiers created from analyses
    taken,       \* uuids given so far
    interrupted  \* what a stop cut: promotions, deletions of profiles

vars == <<profile, default, lastUsed, analysis, expired, request, doomed,
          handler, dossiers, taken, interrupted>>
preferences == <<default, lastUsed>>

-----------------------------------------------------------------------------
\* A profile_usage; an analysis whose profile is not chosen yet has none.
Legacy == [mode |-> "legacy", id |-> None, revision |-> 0, rules |-> None]
Pending == [Legacy EXCEPT !.mode = "pending"]
UsageOf(p) == [mode |-> "profil", id |-> p, revision |-> profile[p].revision,
               rules |-> profile[p].rules]

Idle == [at |-> "idle", of |-> None, usage |-> Pending]
Free == [do |-> "free", of |-> None, usage |-> Pending, by |-> None]

Stored(p) == profile[p] # None
Readable(a) == analysis[a] # None /\ a \notin expired

Init ==
    /\ profile = [p \in Profiles |-> None]
    /\ default = None
    /\ lastUsed = {}
    /\ analysis = [a \in Analyses |-> None]
    /\ expired = {}
    /\ request = [r \in Requests |-> Idle]
    /\ doomed = None
    /\ handler = Free
    /\ dossiers = {}
    /\ taken = {}
    /\ interrupted = {}

-----------------------------------------------------------------------------
(* Profiles.  No handler awaits between reading a profile and saving it.   *)

\* Mutant: the rules change and the revision does not.
KeepRevision(p, rules) == profile[p].revision

\* Mutant: a changed profile starts again.
RestartRevision(p, rules) == 1

\* ProfileRepository.save: a new revision when the content hash changes.
Revision(p, rules) ==
    IF profile[p].rules = rules THEN profile[p].revision ELSE profile[p].revision + 1

CreateProfile(p, rules) ==
    /\ handler = Free
    /\ p \notin taken
    /\ taken' = taken \union {p}
    /\ profile' = [profile EXCEPT ![p] = [revision |-> 1, rules |-> rules]]
    /\ UNCHANGED <<preferences, analysis, expired, request, doomed, handler,
                   dossiers, interrupted>>

UpdateProfile(p, rules) ==
    /\ handler = Free
    /\ Stored(p)
    /\ Revision(p, rules) <= MaxRevision
    /\ profile' = [profile EXCEPT ![p] = [revision |-> Revision(p, rules), rules |-> rules]]
    /\ UNCHANGED <<preferences, analysis, expired, request, doomed, handler,
                   dossiers, taken, interrupted>>

DuplicateProfile(p, q) ==
    /\ Stored(p)
    /\ CreateProfile(q, profile[p].rules)

DeleteProfile(p) ==
    /\ handler = Free
    /\ Stored(p)
    /\ profile' = [profile EXCEPT ![p] = None]
    /\ handler' = [Free EXCEPT !.do = "forget", !.of = p]
    /\ UNCHANGED <<preferences, analysis, expired, request, doomed, dossiers,
                   taken, interrupted>>

\* The default once profile p is deleted.
DefaultWithout(p) == IF default = p THEN None ELSE default

ForgetProfile ==
    /\ handler.do = "forget"
    /\ default' = DefaultWithout(handler.of)
    /\ lastUsed' = lastUsed \ {handler.of}
    /\ handler' = Free
    /\ UNCHANGED <<profile, analysis, expired, request, doomed, dossiers,
                   taken, interrupted>>

SetDefault(p) ==
    /\ handler = Free
    /\ p # None => Stored(p)
    /\ default' = p
    /\ UNCHANGED <<profile, lastUsed, analysis, expired, request, doomed,
                   handler, dossiers, taken, interrupted>>

-----------------------------------------------------------------------------
(* Uploads: QuickAnalysisRepository.create, in the one worker thread.      *)

StartUpload(r) ==
    /\ handler = Free
    /\ request[r] = Idle
    /\ \A other \in Requests : request[other].at # "uploading"
    /\ request' = [request EXCEPT ![r] = [Idle EXCEPT !.at = "uploading"]]
    /\ UNCHANGED <<profile, preferences, analysis, expired, doomed, handler,
                   dossiers, taken, interrupted>>

\* cleanup_expired reads a file, then unlinks it.
ReadExpired(r, a) ==
    /\ request[r].at = "uploading"
    /\ doomed = None
    /\ analysis[a] # None /\ a \in expired
    /\ doomed' = a
    /\ UNCHANGED <<profile, preferences, analysis, expired, request, handler,
                   dossiers, taken, interrupted>>

UnlinkExpired ==
    /\ doomed # None
    /\ analysis' = [analysis EXCEPT ![doomed] = None]
    /\ doomed' = None
    /\ UNCHANGED <<profile, preferences, expired, request, handler, dossiers,
                   taken, interrupted>>

SaveSnapshot(r, a) ==
    /\ request[r].at = "uploading"
    /\ doomed = None
    /\ a \notin taken
    /\ taken' = taken \union {a}
    /\ analysis' = [analysis EXCEPT ![a] = Pending]
    /\ request' = [request EXCEPT ![r] = [Idle EXCEPT !.at = "uploaded", !.of = a]]
    /\ UNCHANGED <<profile, preferences, expired, doomed, handler, dossiers, interrupted>>

\* Back in the route: analyze runs the automatic engine when there is no
\* profile to choose; the upload pages of the profiles stop here.
Uploaded(r) ==
    /\ handler = Free
    /\ request[r].at = "uploaded"
    /\ request' = [request EXCEPT ![r] = Idle]
    /\ UNCHANGED <<profile, preferences, analysis, expired, doomed, handler,
                   dossiers, taken, interrupted>>

Analyze(r) ==
    /\ handler = Free
    /\ request[r].at = "uploaded"
    /\ ~\E p \in Profiles : Stored(p)
    /\ request' = [request EXCEPT ![r] = [@ EXCEPT !.at = "applying", !.usage = Legacy]]
    /\ UNCHANGED <<profile, preferences, analysis, expired, doomed, handler,
                   dossiers, taken, interrupted>>

-----------------------------------------------------------------------------
(* Choosing a profile: analyse_with_profile, before and after its await.   *)

Choose(r, a, usage) ==
    /\ handler = Free
    /\ request[r] = Idle
    /\ Readable(a)
    /\ request' = [request EXCEPT ![r] = [at |-> "applying", of |-> a, usage |-> usage]]
    /\ UNCHANGED <<profile, preferences, analysis, expired, doomed, handler,
                   dossiers, taken, interrupted>>

\* Any page that reads an expired analysis unlinks it.
ReadTooLate(a) ==
    /\ handler = Free
    /\ analysis[a] # None /\ a \in expired
    /\ analysis' = [analysis EXCEPT ![a] = None]
    /\ UNCHANGED <<profile, preferences, expired, request, doomed, handler,
                   dossiers, taken, interrupted>>

\* Mutant: the result is written without looking whether the file is there.
UpdateBlindly(a) == TRUE

\* update(): get() first.
MayUpdate(a) == Readable(a)

Update(r) ==
    /\ handler = Free
    /\ request[r].at = "applying"
    /\ MayUpdate(request[r].of)
    /\ handler' = [do |-> "update", of |-> request[r].of, usage |-> request[r].usage, by |-> r]
    /\ UNCHANGED <<profile, preferences, analysis, expired, request, doomed,
                   dossiers, taken, interrupted>>

SaveUpdate ==
    /\ handler.do = "update"
    /\ analysis' = [analysis EXCEPT ![handler.of] = handler.usage]
    /\ request' = [request EXCEPT ![handler.by] = Idle]
    /\ handler' = Free
    /\ UNCHANGED <<profile, preferences, expired, doomed, dossiers, taken, interrupted>>

\* get() raises: 404 from a choice, 500 from analyze; an expired file goes.
UpdateFails(r) ==
    /\ handler = Free
    /\ request[r].at = "applying"
    /\ ~MayUpdate(request[r].of)
    /\ analysis' = [analysis EXCEPT ![request[r].of] = None]
    /\ request' = [request EXCEPT ![r] = Idle]
    /\ UNCHANGED <<profile, preferences, expired, doomed, handler, dossiers,
                   taken, interrupted>>

-----------------------------------------------------------------------------
(* The end of an analysis: deletion, promotion, expiry.                    *)

DeleteAnalysis(a) ==
    /\ handler = Free
    /\ analysis[a] # None
    /\ analysis' = [analysis EXCEPT ![a] = None]
    /\ UNCHANGED <<profile, preferences, expired, request, doomed, handler,
                   dossiers, taken, interrupted>>

\* Mutant: the profile need not be chosen.
PromoteUnread(a) == Readable(a)

\* promote_quick_analysis refuses an analysis without its profile.
MayPromote(a) == Readable(a) /\ analysis[a] # Pending

\* create_dossier_from_analysis, up to repository.save (whether the reference
\* is free is the dossier store's business).
Promote(a) ==
    /\ handler = Free
    /\ MayPromote(a)
    /\ Cardinality(dossiers) < MaxDossiers
    /\ dossiers' = dossiers \union
         {[n |-> Cardinality(dossiers), of |-> a, usage |-> analysis[a]]}
    /\ handler' = [do |-> "promote", of |-> a, usage |-> analysis[a], by |-> None]
    /\ UNCHANGED <<profile, preferences, analysis, expired, request, doomed,
                   taken, interrupted>>

\* Mutant: the analysis outlives its dossier.
KeepAnalysis == UNCHANGED analysis

\* analysis_repository.delete.
DropAnalysis == analysis' = [analysis EXCEPT ![handler.of] = None]

\* The file may be gone, unlinked by the worker: delete() raises, the user
\* sees an error although the dossier is saved, and mark_used is skipped.
FinishPromotion ==
    /\ handler.do = "promote"
    /\ DropAnalysis
    /\ lastUsed' = IF analysis[handler.of] # None /\ handler.usage.mode = "profil"
                   THEN lastUsed \union {handler.usage.id}
                   ELSE lastUsed
    /\ handler' = Free
    /\ UNCHANGED <<profile, default, expired, request, doomed, dossiers, taken, interrupted>>

Expire(a) ==
    /\ a \in taken \ expired
    /\ expired' = expired \union {a}
    /\ UNCHANGED <<profile, preferences, analysis, request, doomed, handler,
                   dossiers, taken, interrupted>>

\* The process stops and starts again: the files stay.
Restart ==
    /\ handler # Free \/ \E r \in Requests : request[r] # Idle
    /\ request' = [r \in Requests |-> Idle]
    /\ doomed' = None
    /\ handler' = Free
    /\ interrupted' = IF handler.do \in {"promote", "forget"}
                      THEN interrupted \union {handler.of}
                      ELSE interrupted
    /\ UNCHANGED <<profile, preferences, analysis, expired, dossiers, taken>>

ProfileStep ==
    \/ \E p \in Profiles, rules \in Rules : CreateProfile(p, rules) \/ UpdateProfile(p, rules)
    \/ \E p, q \in Profiles : DuplicateProfile(p, q)
    \/ \E p \in Profiles : DeleteProfile(p)
    \/ \E p \in Profiles \union {None} : SetDefault(p)
    \/ ForgetProfile

UploadStep ==
    \/ \E r \in Requests : StartUpload(r) \/ Uploaded(r) \/ Analyze(r)
    \/ \E r \in Requests, a \in Analyses : ReadExpired(r, a) \/ SaveSnapshot(r, a)
    \/ UnlinkExpired

ChoiceStep ==
    \/ \E r \in Requests, a \in Analyses :
         Choose(r, a, Legacy) \/ \E p \in Profiles : Stored(p) /\ Choose(r, a, UsageOf(p))
    \/ \E r \in Requests : Update(r) \/ UpdateFails(r)
    \/ SaveUpdate

EndStep ==
    \/ \E a \in Analyses : DeleteAnalysis(a) \/ Promote(a) \/ Expire(a) \/ ReadTooLate(a)
    \/ FinishPromotion

Next == ProfileStep \/ UploadStep \/ ChoiceStep \/ EndStep \/ Restart

Spec == Init /\ [][Next]_vars

-----------------------------------------------------------------------------
Revisions == 1..MaxRevision
ProfileUsages == [mode : {"profil"}, id : Profiles, revision : Revisions, rules : Rules]
Usages == {Legacy} \union ProfileUsages

\* The worker holds back one file, and the loop one operation; an analysis is
\* read by its own request only once its file exists.
TypeOK ==
    /\ \A p \in Profiles : Stored(p) => profile[p] \in [revision : Revisions, rules : Rules]
    /\ default \in Profiles \union {None}
    /\ lastUsed \subseteq Profiles
    /\ \A a \in Analyses : analysis[a] # None => analysis[a] \in Usages \union {Pending}
    /\ expired \subseteq Analyses
    /\ \A r \in Requests :
         /\ request[r].at \in {"idle", "uploading", "uploaded", "applying"}
         /\ request[r].at = "applying" => request[r].usage \in Usages
    /\ doomed # None => doomed \in expired
    /\ handler.do \in {"free", "forget", "update", "promote"}
    /\ handler.do = "update" => request[handler.by].at = "applying"
    /\ \A d \in dossiers : d.of \in taken /\ d.usage \in Usages

\* Every usage kept anywhere: in analyses, in dossiers and in requests.
KeptUsages ==
    {u \in {analysis[a] : a \in {b \in Analyses : analysis[b] # None}}
             \union {d.usage : d \in dossiers}
             \union {request[r].usage : r \in Requests} : u.mode = "profil"}
CurrentUsages == {UsageOf(p) : p \in {q \in Profiles : Stored(q)}}

\* README.md:110: a revision number means one set of rules, in the stored
\* profile and in every analysis or dossier that froze it, whatever was edited
\* or deleted while a choice was in progress.
RevisionIdentifiesRules ==
    \A u, v \in KeptUsages \union CurrentUsages :
        u.id = v.id /\ u.revision = v.revision => u.rules = v.rules

\* The traceability view tells the user of every change of rules: a profile
\* whose rules differ from the frozen ones has a greater revision (usage.py:53).
RulesChangeIsShown ==
    \A u \in KeptUsages :
        Stored(u.id) /\ profile[u.id].rules # u.rules => profile[u.id].revision > u.revision

\* README.md:283: an analysis that was deleted, promoted or let expire never
\* comes back, even when a choice or the clean-up was in progress.
EndedStaysEnded ==
    [][\A a \in Analyses : a \in taken /\ ~Readable(a) => ~Readable(a)']_vars

\* One analysis makes one dossier, unless the process stopped between saving
\* the dossier and deleting the analysis (main.py:1409-1410).
PromotedOnce ==
    \A a \in Analyses \ interrupted : Cardinality({d \in dossiers : d.of = a}) <= 1
=============================================================================
