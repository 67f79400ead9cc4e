------------------------ MODULE QuickAnalysisProofs ------------------------
(***************************************************************************)
(* What QuickAnalysis guarantees for every set of profiles, rules,         *)
(* analyses and requests.                                                  *)
(*                                                                         *)
(* Two facts carry the proof.  An update that has read its analysis writes *)
(* it back although the worker may unlink it meanwhile: only because that  *)
(* analysis has then expired does it not come back.  And a frozen revision *)
(* is never ahead of the stored profile, so the next revision is new.      *)
(***************************************************************************)
EXTENDS QuickAnalysis, FiniteSetTheorems, TLAPS

ProfileContents == [revision : Revisions, rules : Rules]
Places == {"idle", "uploading", "uploaded", "applying"}

Types ==
    /\ profile \in [Profiles -> ProfileContents \union {None}]
    /\ default \in Profiles \union {None}
    /\ lastUsed \subseteq Profiles
    /\ analysis \in [Analyses -> Usages \union {Pending, None}]
    /\ expired \subseteq Analyses
    /\ request \in [Requests -> [at : Places, of : Analyses \union {None},
                                 usage : Usages \union {Pending}]]
    /\ handler \in [do : {"free", "forget", "update", "promote"},
                    of : Analyses \union Profiles \union {None},
                    usage : Usages \union {Pending}, by : Requests \union {None}]
    /\ doomed # None => doomed \in expired
    /\ \A a \in Analyses : analysis[a] # None => a \in taken

\* What a request that applies a profile, and the handler, are busy with.
Busy ==
    /\ \A r \in Requests :
         /\ request[r].at \in {"uploaded", "applying"} => request[r].of \in Analyses
         /\ request[r].at = "applying" => request[r].usage \in Usages
    /\ handler.do = "update" =>
         /\ handler.by \in Requests
         /\ request[handler.by].at = "applying"
         /\ request[handler.by].usage = handler.usage
         /\ handler.of \in Analyses \intersect taken
         /\ analysis[handler.of] # None \/ handler.of \in expired
    /\ handler.do = "promote" => handler.of \in Analyses

\* No frozen revision is ahead of its profile, and no identifier is reused.
Revised ==
    /\ RevisionIdentifiesRules
    /\ RulesChangeIsShown
    /\ \A u \in KeptUsages :
         /\ u.id \in taken
         /\ Stored(u.id) => u.revision <= profile[u.id].revision
    /\ \A p \in Profiles : Stored(p) => p \in taken

\* An analysis that made a dossier is over, or about to be dropped.
Promotions ==
    /\ \A d \in dossiers :
         /\ d.of \in Analyses \intersect taken
         /\ d.usage \in Usages
         /\ \/ d.of \in interrupted
            \/ handler.do = "promote" /\ handler.of = d.of
            \/ ~Readable(d.of)
    /\ \A d, e \in dossiers : d.of = e.of /\ d.of \notin interrupted => d = e

Inv == Types /\ Busy /\ Revised /\ Promotions

\* What a step may never do: bring an analysis back.
NoReturn == \A a \in Analyses : a \in taken /\ ~Readable(a) => ~Readable(a)'

-----------------------------------------------------------------------------
(* Usages.                                                                  *)

LEMMA ModesDiffer ==
    /\ Legacy.mode = "legacy"
    /\ Pending.mode = "pending"
    /\ Pending \notin Usages
    /\ \A u \in Usages \union {Pending} : u.mode = "profil" => u \in ProfileUsages
  BY DEF Legacy, Pending, Usages, ProfileUsages

\* Where the usages that are kept come from.
Kept(u) ==
    /\ u.mode = "profil"
    /\ \/ \E a \in Analyses : analysis[a] # None /\ u = analysis[a]
       \/ \E d \in dossiers : u = d.usage
       \/ \E r \in Requests : u = request[r].usage

LEMMA KeptIsKept ==
    /\ \A u : u \in KeptUsages <=> Kept(u)
    /\ \A u : u \in KeptUsages' <=> Kept(u)'
  BY DEF KeptUsages, Kept

LEMMA KeptTypes ==
    ASSUME Types, Promotions
    PROVE  KeptUsages \subseteq ProfileUsages
  <1> SUFFICES ASSUME NEW u, Kept(u)
               PROVE  u \in ProfileUsages
    BY KeptIsKept
  <1>1. u \in Usages \union {Pending}
    BY DEF Kept, Types, Promotions
  <1> QED
    BY <1>1, ModesDiffer DEF Kept

LEMMA CurrentTypes ==
    ASSUME Types, NEW p \in Profiles, Stored(p)
    PROVE  /\ UsageOf(p) \in ProfileUsages
           /\ UsageOf(p).id = p
           /\ UsageOf(p).revision = profile[p].revision
           /\ UsageOf(p).rules = profile[p].rules
           /\ UsageOf(p) \in CurrentUsages
  BY DEF Types, Stored, UsageOf, ProfileUsages, ProfileContents, CurrentUsages

\* A usage may be frozen where the profile is read, and copied or forgotten
\* anywhere: the revisions stay true.
LEMMA FrozenStaysTrue ==
    ASSUME Inv, UNCHANGED profile, taken \subseteq taken',
           KeptUsages' \subseteq KeptUsages \union CurrentUsages
    PROVE  Revised'
  <1>1. CurrentUsages' = CurrentUsages
    BY DEF CurrentUsages, UsageOf, Stored
  <1>2. \A u \in CurrentUsages :
            /\ u.id \in Profiles
            /\ Stored(u.id)
            /\ u.revision = profile[u.id].revision
            /\ u.rules = profile[u.id].rules
    BY CurrentTypes DEF CurrentUsages, Inv
  <1>3. RevisionIdentifiesRules'
    BY <1>1 DEF RevisionIdentifiesRules, Inv, Revised
  <1>4. RulesChangeIsShown'
    BY <1>2 DEF RulesChangeIsShown, Inv, Revised, Stored
  <1>5. \A p \in Profiles : Stored(p)' => p \in taken'
    BY DEF Inv, Revised, Stored
  <1>6. ASSUME NEW u \in KeptUsages'
        PROVE  u.id \in taken' /\ (Stored(u.id)' => u.revision <= profile'[u.id].revision)
    <2>1. CASE u \in KeptUsages
      BY <2>1 DEF Inv, Revised, Stored
    <2>2. CASE u \in CurrentUsages
      <3>1. profile[u.id] \in ProfileContents
        BY <1>2, <2>2 DEF Inv, Types, Stored
      <3>2. profile[u.id].revision <= profile[u.id].revision
        BY <3>1, QuickAnalysisAssumption DEF ProfileContents, Revisions
      <3> QED
        BY <1>2, <2>2, <3>2 DEF Inv, Revised
    <2> QED
      BY <1>6, <2>1, <2>2
  <1> QED
    BY <1>3, <1>4, <1>5, <1>6 DEF Revised

\* What is promoted stays promoted once.
LEMMA PromotionsStay ==
    ASSUME Inv, NoReturn, UNCHANGED dossiers, taken \subseteq taken',
           interrupted \subseteq interrupted',
           \/ UNCHANGED handler
           \/ handler.do # "promote"
           \/ handler.of \in interrupted'
           \/ analysis'[handler.of] = None
    PROVE  Promotions'
  <1>1. ASSUME NEW d \in dossiers
        PROVE  /\ d.of \in Analyses \intersect taken'
               /\ d.usage \in Usages
               /\ \/ d.of \in interrupted'
                  \/ handler'.do = "promote" /\ handler'.of = d.of
                  \/ ~Readable(d.of)'
    <2>1. /\ d.of \in Analyses \intersect taken
          /\ d.usage \in Usages
          /\ \/ d.of \in interrupted
             \/ handler.do = "promote" /\ handler.of = d.of
             \/ ~Readable(d.of)
      BY DEF Inv, Promotions
    <2>2. ~Readable(d.of) => ~Readable(d.of)'
      BY <2>1 DEF NoReturn
    <2>3. analysis'[d.of] = None => ~Readable(d.of)'
      BY DEF Readable
    <2> QED
      BY <2>1, <2>2, <2>3
  <1>2. \A d, e \in dossiers : d.of = e.of /\ d.of \notin interrupted' => d = e
    BY DEF Inv, Promotions
  <1> QED
    BY <1>1, <1>2 DEF Promotions

-----------------------------------------------------------------------------
(* Profiles.                                                                *)

\* Nothing but the profiles, their preferences and the handler.
LEMMA AnalysesStay ==
    ASSUME Inv, UNCHANGED <<analysis, expired, request, dossiers, interrupted>>,
           taken \subseteq taken'
    PROVE  NoReturn /\ KeptUsages' = KeptUsages
  <1>1. NoReturn
    BY DEF NoReturn, Readable
  <1>2. KeptUsages' = KeptUsages
    BY DEF KeptUsages
  <1> QED
    BY <1>1, <1>2

LEMMA CreateProfileSound ==
    ASSUME Inv, NEW p \in Profiles, NEW rules \in Rules, CreateProfile(p, rules)
    PROVE  Inv' /\ NoReturn
  <1>1. /\ p \notin taken
        /\ taken' = taken \union {p}
        /\ profile' = [profile EXCEPT ![p] = [revision |-> 1, rules |-> rules]]
        /\ UNCHANGED <<default, lastUsed, analysis, expired, request, doomed,
                       handler, dossiers, interrupted>>
    BY DEF CreateProfile, preferences
  <1>2. NoReturn /\ KeptUsages' = KeptUsages
    BY <1>1, AnalysesStay
  <1>3. Types'
    <2>1. [revision |-> 1, rules |-> rules] \in ProfileContents
      BY QuickAnalysisAssumption DEF ProfileContents, Revisions
    <2> QED
      BY <1>1, <2>1 DEF Inv, Types
  <1>4. Busy'
    BY <1>1 DEF Inv, Busy
  <1>5. Promotions'
    BY <1>1, <1>2, PromotionsStay
  <1>6. \A q \in Profiles \ {p} : profile'[q] = profile[q]
    BY <1>1 DEF Inv, Types
  <1>7. \A u \in KeptUsages : u.id # p /\ u.id \in Profiles
    BY <1>1, KeptTypes DEF Inv, Revised, ProfileUsages
  <1>8. CurrentUsages' \subseteq CurrentUsages \union {UsageOf(p)'}
    BY <1>6 DEF CurrentUsages, UsageOf, Stored
  <1>9. \A u \in CurrentUsages : u.id # p
    BY <1>1, CurrentTypes DEF CurrentUsages, Inv, Revised
  <1>10. UsageOf(p)'.id = p
    BY DEF UsageOf
  <1>11. RevisionIdentifiesRules'
    BY <1>2, <1>7, <1>8, <1>9, <1>10 DEF RevisionIdentifiesRules, Inv, Revised
  <1>12. RulesChangeIsShown'
    BY <1>2, <1>6, <1>7 DEF RulesChangeIsShown, Inv, Revised, Stored
  <1>13. Revised'
    BY <1>1, <1>2, <1>6, <1>7, <1>11, <1>12 DEF Inv, Revised, Stored
  <1> QED
    BY <1>2, <1>3, <1>4, <1>5, <1>13 DEF Inv

\* A new revision is one no usage has frozen.
LEMMA UpdateProfileSound ==
    ASSUME Inv, NEW p \in Profiles, NEW rules \in Rules, UpdateProfile(p, rules)
    PROVE  Inv' /\ NoReturn
  <1> DEFINE new == [revision |-> Revision(p, rules), rules |-> rules]
  <1>1. /\ Stored(p)
        /\ profile' = [profile EXCEPT ![p] = new]
        /\ Revision(p, rules) <= MaxRevision
        /\ UNCHANGED <<default, lastUsed, analysis, expired, request, doomed,
                       handler, dossiers, taken, interrupted>>
    BY DEF UpdateProfile, preferences
  <1>2. NoReturn /\ KeptUsages' = KeptUsages
    BY <1>1, AnalysesStay
  <1>3. profile[p] \in ProfileContents
    BY <1>1 DEF Stored, Inv, Types
  <1>4. /\ new \in ProfileContents
        /\ new.rules = rules
        /\ \/ new.revision = profile[p].revision /\ rules = profile[p].rules
           \/ new.revision = profile[p].revision + 1
    BY <1>1, <1>3, QuickAnalysisAssumption DEF Revision, ProfileContents, Revisions
  <1> HIDE DEF new
  <1>5. Types'
    BY <1>1, <1>4 DEF Inv, Types
  <1>6. Busy'
    BY <1>1 DEF Inv, Busy
  <1>7. Promotions'
    BY <1>1, <1>2, PromotionsStay
  <1>8. profile'[p] = new /\ \A q \in Profiles \ {p} : profile'[q] = profile[q]
    BY <1>1 DEF Inv, Types
  <1>9. ASSUME NEW u \in KeptUsages, u.id = p
        PROVE  /\ u.revision <= new.revision
               /\ u.revision = new.revision => u.rules = new.rules
               /\ u.rules # new.rules => new.revision > u.revision
    <2>1. u \in ProfileUsages
      BY KeptTypes DEF Inv
    <2>2. u.revision \in Nat /\ profile[p].revision \in Nat /\ new.revision \in Nat
      BY <1>3, <1>4, <2>1, QuickAnalysisAssumption
      DEF ProfileUsages, ProfileContents, Revisions
    <2>3. u.revision <= profile[p].revision
      BY <1>1, <1>9 DEF Inv, Revised
    <2>4. u.rules # profile[p].rules => profile[p].revision > u.revision
      BY <1>1, <1>9 DEF Inv, Revised, RulesChangeIsShown
    <2> QED
      BY <1>4, <2>2, <2>3, <2>4
  <1>10. \A u \in KeptUsages : u.id \in Profiles
    BY KeptTypes DEF Inv, ProfileUsages
  <1>11. ASSUME NEW u \in CurrentUsages'
         PROVE  \/ u \in CurrentUsages /\ u.id # p
                \/ u.id = p /\ u.revision = new.revision /\ u.rules = new.rules
    <2>1. PICK q \in Profiles : Stored(q)' /\ u = UsageOf(q)'
      BY <1>11 DEF CurrentUsages
    <2>2. CASE q = p
      BY <1>8, <2>1, <2>2 DEF UsageOf
    <2>3. CASE q # p
      BY <1>8, <2>1, <2>3 DEF UsageOf, CurrentUsages, Stored
    <2> QED
      BY <2>2, <2>3
  <1>12. RevisionIdentifiesRules'
    <2> SUFFICES ASSUME NEW u \in KeptUsages \union CurrentUsages',
                        NEW v \in KeptUsages \union CurrentUsages',
                        u.id = v.id, u.revision = v.revision
                 PROVE  u.rules = v.rules
      BY <1>2 DEF RevisionIdentifiesRules
    <2>1. CASE u \in KeptUsages /\ v \in KeptUsages
      BY <2>1 DEF Inv, Revised, RevisionIdentifiesRules
    <2>2. CASE u.id # p
      BY <1>11, <2>2 DEF Inv, Revised, RevisionIdentifiesRules
    <2>3. CASE u.id = p
      BY <1>9, <1>11, <2>1, <2>3
    <2> QED
      BY <2>2, <2>3
  <1>13. RulesChangeIsShown'
    BY <1>2, <1>8, <1>9, <1>10 DEF RulesChangeIsShown, Inv, Revised, Stored
  <1>14. Revised'
    <2>1. ASSUME NEW u \in KeptUsages
          PROVE  Stored(u.id)' => u.revision <= profile'[u.id].revision
      BY <1>8, <1>9, <1>10 DEF Inv, Revised, Stored
    <2>2. \A q \in Profiles : Stored(q)' => q \in taken'
      BY <1>1, <1>8 DEF Inv, Revised, Stored
    <2> QED
      BY <1>1, <1>2, <1>12, <1>13, <2>1, <2>2 DEF Inv, Revised
  <1> QED
    BY <1>2, <1>5, <1>6, <1>7, <1>14 DEF Inv

LEMMA DeleteProfileSound ==
    ASSUME Inv, NEW p \in Profiles, DeleteProfile(p)
    PROVE  Inv' /\ NoReturn
  <1>1. /\ handler = Free
        /\ profile' = [profile EXCEPT ![p] = None]
        /\ handler' = [Free EXCEPT !.do = "forget", !.of = p]
        /\ UNCHANGED <<default, lastUsed, analysis, expired, request, doomed,
                       dossiers, taken, interrupted>>
    BY DEF DeleteProfile, preferences
  <1>2. NoReturn /\ KeptUsages' = KeptUsages
    BY <1>1, AnalysesStay
  <1>3. handler'.do = "forget" /\ handler.do = "free"
    BY <1>1 DEF Free
  <1>4. Types'
    BY <1>1 DEF Inv, Types, Free
  <1>5. Busy'
    BY <1>1, <1>3 DEF Inv, Busy
  <1>6. Promotions'
    BY <1>1, <1>2, <1>3, PromotionsStay
  <1>7. \A q \in Profiles : Stored(q)' => Stored(q) /\ profile'[q] = profile[q]
    BY <1>1 DEF Inv, Types, Stored
  <1>8. CurrentUsages' \subseteq CurrentUsages
    BY <1>7 DEF CurrentUsages, UsageOf
  <1>9. \A u \in KeptUsages : u.id \in Profiles
    BY KeptTypes DEF Inv, ProfileUsages
  <1>10. RevisionIdentifiesRules'
    BY <1>2, <1>8 DEF RevisionIdentifiesRules, Inv, Revised
  <1>11. RulesChangeIsShown'
    BY <1>2, <1>7, <1>9 DEF RulesChangeIsShown, Inv, Revised
  <1>12. Revised'
    BY <1>1, <1>2, <1>7, <1>9, <1>10, <1>11 DEF Inv, Revised
  <1> QED
    BY <1>2, <1>4, <1>5, <1>6, <1>12 DEF Inv

LEMMA PreferenceSound ==
    ASSUME Inv, ForgetProfile \/ \E p \in Profiles \union {None} : SetDefault(p)
    PROVE  Inv' /\ NoReturn
  <1>1. /\ UNCHANGED <<profile, analysis, expired, request, doomed, dossiers,
                       taken, interrupted>>
        /\ handler' = handler \/ handler' = Free
        /\ handler'.do # "update" /\ handler.do # "promote"
        /\ default' \in {default} \union Profiles \union {None}
        /\ lastUsed' \subseteq lastUsed
    BY DEF ForgetProfile, DefaultWithout, SetDefault, Free
  <1>2. NoReturn /\ KeptUsages' = KeptUsages
    BY <1>1, AnalysesStay
  <1>3. Types'
    BY <1>1 DEF Inv, Types, Free
  <1>4. Busy'
    BY <1>1 DEF Inv, Busy, Free
  <1>5. Promotions'
    BY <1>1, <1>2, PromotionsStay
  <1>6. Revised'
    BY <1>1, <1>2, FrozenStaysTrue
  <1> QED
    BY <1>2, <1>3, <1>4, <1>5, <1>6 DEF Inv

-----------------------------------------------------------------------------
(* Uploads and choices.                                                     *)

\* A step that leaves the profiles alone, freezes only current usages, and
\* adds no dossier.
LEMMA AnalysisStep ==
    ASSUME Inv, Types', Busy', NoReturn,
           UNCHANGED <<profile, dossiers>>,
           taken \subseteq taken',
           interrupted \subseteq interrupted',
           \/ UNCHANGED handler
           \/ handler.do # "promote"
           \/ handler.of \in interrupted'
           \/ analysis'[handler.of] = None,
           \A u : Kept(u)' => Kept(u) \/ u \in CurrentUsages
    PROVE  Inv'
  <1>1. KeptUsages' \subseteq KeptUsages \union CurrentUsages
    BY KeptIsKept
  <1> QED
    BY <1>1, FrozenStaysTrue, PromotionsStay DEF Inv

LEMMA UploadSound ==
    ASSUME Inv, NEW r \in Requests, StartUpload(r) \/ Uploaded(r) \/ Analyze(r)
    PROVE  Inv' /\ NoReturn
  <1>1. PICK w : /\ request' = [request EXCEPT ![r] = w]
                 /\ w \in [at : Places, of : Analyses \union {None},
                           usage : {Legacy, Pending}]
                 /\ w.at \in {"uploaded", "applying"} => w.of \in Analyses
                 /\ w.at = "applying" => w.usage \in Usages
    <2>1. CASE StartUpload(r)
      <3> WITNESS [Idle EXCEPT !.at = "uploading"]
      <3> QED
        BY <2>1 DEF StartUpload, Idle, Places
    <2>2. CASE Uploaded(r)
      <3> WITNESS Idle
      <3> QED
        BY <2>2 DEF Uploaded, Idle, Places
    <2>3. CASE Analyze(r)
      <3> WITNESS [request[r] EXCEPT !.at = "applying", !.usage = Legacy]
      <3>1. request[r].at = "uploaded"
        BY <2>3 DEF Analyze
      <3> QED
        BY <2>3, <3>1 DEF Analyze, Inv, Types, Busy, Places, Usages
    <2> QED
      BY <2>1, <2>2, <2>3
  <1>2. /\ handler = Free
        /\ UNCHANGED <<profile, default, lastUsed, analysis, expired, doomed,
                       handler, dossiers, taken, interrupted>>
    BY DEF StartUpload, Uploaded, Analyze, preferences
  <1>3. NoReturn
    BY <1>2 DEF NoReturn, Readable
  <1>4. Types'
    BY <1>1, <1>2 DEF Inv, Types, Usages
  <1>5. Busy'
    BY <1>1, <1>2 DEF Inv, Types, Busy, Free
  <1>6. ASSUME NEW u, Kept(u)'
        PROVE  Kept(u)
    BY <1>1, <1>2, <1>6, ModesDiffer DEF Kept, Inv, Types
  <1> QED
    BY <1>2, <1>3, <1>4, <1>5, <1>6, AnalysisStep

\* Steps that only take analyses away: an expired one, or any one while the
\* loop is not in the middle of an update.
LEMMA AnalysisLost ==
    ASSUME Inv, NEW a \in Analyses,
           analysis' = [analysis EXCEPT ![a] = None],
           a \in expired \/ handler.do # "update",
           UNCHANGED <<profile, default, lastUsed, expired, dossiers, taken,
                       handler, interrupted>>,
           doomed' = None \/ UNCHANGED doomed,
           \/ UNCHANGED request
           \/ handler.do # "update" /\ \E r \in Requests :
                  request' = [request EXCEPT ![r] = Idle]
    PROVE  Inv' /\ NoReturn
  <1>1. \A b \in Analyses :
            analysis'[b] = IF b = a THEN None ELSE analysis[b]
    BY DEF Inv, Types
  <1>2. NoReturn
    BY <1>1 DEF NoReturn, Readable
  <1>3. Idle \in [at : Places, of : Analyses \union {None}, usage : {Pending}]
    BY DEF Idle, Places
  <1>4. Types'
    BY <1>1, <1>3 DEF Inv, Types
  <1>5. Busy'
    BY <1>1 DEF Inv, Types, Busy, Idle
  <1>6. ASSUME NEW u, Kept(u)'
        PROVE  Kept(u)
    <2>1. Idle.usage = Pending
      BY DEF Idle
    <2> QED
      BY <1>1, <1>6, <2>1, ModesDiffer DEF Kept, Inv, Types
  <1> QED
    BY <1>2, <1>4, <1>5, <1>6, AnalysisStep

\* An analysis that no request chose and nobody read is unlinked.
LEMMA UnlinkSound ==
    ASSUME Inv,
           \/ UnlinkExpired
           \/ \E a \in Analyses : ReadTooLate(a) \/ DeleteAnalysis(a)
           \/ \E r \in Requests : UpdateFails(r)
    PROVE  Inv' /\ NoReturn
  <1>1. CASE UnlinkExpired
    BY <1>1, AnalysisLost DEF UnlinkExpired, preferences, Inv, Types
  <1>2. ASSUME NEW a \in Analyses, ReadTooLate(a) \/ DeleteAnalysis(a)
        PROVE  Inv' /\ NoReturn
    BY <1>2, AnalysisLost DEF ReadTooLate, DeleteAnalysis, preferences, Free
  <1>3. ASSUME NEW r \in Requests, UpdateFails(r)
        PROVE  Inv' /\ NoReturn
    BY <1>3, AnalysisLost DEF UpdateFails, preferences, Free, Inv, Busy
  <1> QED
    BY <1>1, <1>2, <1>3

LEMMA ReadExpiredSound ==
    ASSUME Inv, NEW r \in Requests, NEW a \in Analyses, ReadExpired(r, a)
    PROVE  Inv' /\ NoReturn
  <1>1. /\ doomed' = a /\ a \in expired
        /\ UNCHANGED <<profile, default, lastUsed, analysis, expired, request,
                       handler, dossiers, taken, interrupted>>
    BY DEF ReadExpired, preferences
  <1>2. NoReturn
    BY <1>1 DEF NoReturn, Readable
  <1>3. Types' /\ Busy'
    BY <1>1 DEF Inv, Types, Busy
  <1>4. \A u : Kept(u)' => Kept(u)
    BY <1>1 DEF Kept
  <1> QED
    BY <1>1, <1>2, <1>3, <1>4, AnalysisStep

LEMMA SaveSnapshotSound ==
    ASSUME Inv, NEW r \in Requests, NEW a \in Analyses, SaveSnapshot(r, a)
    PROVE  Inv' /\ NoReturn
  <1> DEFINE w == [Idle EXCEPT !.at = "uploaded", !.of = a]
  <1>1. /\ request[r].at = "uploading"
        /\ a \notin taken
        /\ taken' = taken \union {a}
        /\ analysis' = [analysis EXCEPT ![a] = Pending]
        /\ request' = [request EXCEPT ![r] = w]
        /\ UNCHANGED <<profile, default, lastUsed, expired, doomed, handler,
                       dossiers, interrupted>>
    BY DEF SaveSnapshot, preferences
  <1>2. /\ w \in [at : Places, of : Analyses \union {None}, usage : {Pending}]
        /\ w.at = "uploaded"
        /\ w.of = a
    BY DEF Idle, Places
  <1> HIDE DEF w
  <1>3. \A b \in Analyses :
            analysis'[b] = IF b = a THEN Pending ELSE analysis[b]
    BY <1>1 DEF Inv, Types
  <1>4. NoReturn
    BY <1>1, <1>3 DEF NoReturn, Readable
  <1>5. Types'
    BY <1>1, <1>2, <1>3 DEF Inv, Types
  <1>6. Busy'
    BY <1>1, <1>2, <1>3 DEF Inv, Types, Busy
  <1>7. ASSUME NEW u, Kept(u)'
        PROVE  Kept(u)
    BY <1>1, <1>2, <1>3, <1>7, ModesDiffer DEF Kept, Inv, Types
  <1> QED
    BY <1>1, <1>4, <1>5, <1>6, <1>7, AnalysisStep

\* The choice freezes the profile as it is stored when it is read.
LEMMA ChooseSound ==
    ASSUME Inv, NEW r \in Requests, NEW a \in Analyses, NEW usage,
           \/ usage = Legacy
           \/ \E p \in Profiles : Stored(p) /\ usage = UsageOf(p),
           Choose(r, a, usage)
    PROVE  Inv' /\ NoReturn
  <1> DEFINE w == [at |-> "applying", of |-> a, usage |-> usage]
  <1>1. /\ handler = Free
        /\ request' = [request EXCEPT ![r] = w]
        /\ UNCHANGED <<profile, default, lastUsed, analysis, expired, doomed,
                       handler, dossiers, taken, interrupted>>
    BY DEF Choose, preferences
  <1>2. usage \in Usages /\ (usage = Legacy \/ usage \in CurrentUsages)
    BY CurrentTypes DEF Inv, Usages
  <1>3. /\ w \in [at : Places, of : Analyses \union {None},
                  usage : Usages \union {Pending}]
        /\ w.of = a
        /\ w.usage = usage
    BY <1>2 DEF Places
  <1> HIDE DEF w
  <1>4. NoReturn
    BY <1>1 DEF NoReturn, Readable
  <1>5. Types'
    BY <1>1, <1>3 DEF Inv, Types
  <1>6. Busy'
    BY <1>1, <1>2, <1>3 DEF Inv, Types, Busy, Free
  <1>7. ASSUME NEW u, Kept(u)'
        PROVE  Kept(u) \/ u \in CurrentUsages
    BY <1>1, <1>2, <1>3, <1>7, ModesDiffer DEF Kept, Inv, Types
  <1> QED
    BY <1>1, <1>4, <1>5, <1>6, <1>7, AnalysisStep

LEMMA UpdateSound ==
    ASSUME Inv, NEW r \in Requests, Update(r)
    PROVE  Inv' /\ NoReturn
  <1> DEFINE h == [do |-> "update", of |-> request[r].of,
                   usage |-> request[r].usage, by |-> r]
  <1>1. /\ handler = Free
        /\ request[r].at = "applying"
        /\ Readable(request[r].of)
        /\ handler' = h
        /\ UNCHANGED <<profile, default, lastUsed, analysis, expired, request,
                       doomed, dossiers, taken, interrupted>>
    BY DEF Update, MayUpdate, preferences
  <1>2. request[r].of \in Analyses /\ request[r].usage \in Usages
    BY <1>1 DEF Inv, Busy
  <1>3. /\ h \in [do : {"free", "forget", "update", "promote"},
                  of : Analyses \union Profiles \union {None},
                  usage : Usages \union {Pending}, by : Requests \union {None}]
        /\ h.do = "update"
        /\ h.of = request[r].of
        /\ h.usage = request[r].usage
        /\ h.by = r
    BY <1>2
  <1> HIDE DEF h
  <1>4. NoReturn
    BY <1>1 DEF NoReturn, Readable
  <1>5. Types'
    BY <1>1, <1>3 DEF Inv, Types
  <1>6. Busy'
    BY <1>1, <1>2, <1>3 DEF Inv, Types, Busy, Readable
  <1>7. \A u : Kept(u)' => Kept(u)
    BY <1>1 DEF Kept
  <1>8. handler.do = "free"
    BY <1>1 DEF Free
  <1> QED
    BY <1>1, <1>4, <1>5, <1>6, <1>7, <1>8, AnalysisStep

\* The file may have been unlinked since it was read, and is written again:
\* only one that has expired.
LEMMA SaveUpdateSound ==
    ASSUME Inv, SaveUpdate
    PROVE  Inv' /\ NoReturn
  <1>1. /\ handler.do = "update"
        /\ analysis' = [analysis EXCEPT ![handler.of] = handler.usage]
        /\ request' = [request EXCEPT ![handler.by] = Idle]
        /\ handler' = Free
        /\ UNCHANGED <<profile, default, lastUsed, expired, doomed, dossiers,
                       taken, interrupted>>
    BY DEF SaveUpdate, preferences
  <1>2. /\ handler.by \in Requests
        /\ handler.of \in Analyses \intersect taken
        /\ handler.usage = request[handler.by].usage
        /\ handler.usage \in Usages
        /\ analysis[handler.of] # None \/ handler.of \in expired
    BY <1>1 DEF Inv, Busy
  <1>3. \A b \in Analyses :
            analysis'[b] = IF b = handler.of THEN handler.usage ELSE analysis[b]
    BY <1>1 DEF Inv, Types
  <1>4. \A q \in Requests :
            request'[q] = IF q = handler.by THEN Idle ELSE request[q]
    BY <1>1 DEF Inv, Types
  <1>5. /\ Idle \in [at : Places, of : Analyses \union {None}, usage : {Pending}]
        /\ Idle.at = "idle"
        /\ Idle.usage = Pending
    BY DEF Idle, Places
  <1>6. /\ Free \in [do : {"free", "forget", "update", "promote"},
                     of : Analyses \union Profiles \union {None},
                     usage : Usages \union {Pending}, by : Requests \union {None}]
        /\ Free.do = "free"
    BY DEF Free
  <1>7. NoReturn
    BY <1>1, <1>2, <1>3 DEF NoReturn, Readable
  <1>8. Types'
    BY <1>1, <1>2, <1>3, <1>5, <1>6 DEF Inv, Types
  <1>9. Busy'
    BY <1>1, <1>4, <1>5, <1>6 DEF Inv, Busy
  <1>10. ASSUME NEW u, Kept(u)'
         PROVE  Kept(u)
    BY <1>1, <1>2, <1>3, <1>4, <1>5, <1>10, ModesDiffer DEF Kept
  <1> QED
    BY <1>1, <1>7, <1>8, <1>9, <1>10, AnalysisStep

-----------------------------------------------------------------------------
(* Promotion, expiry and restart.                                           *)

\* An analysis that can be read and is not promoted yet has no dossier.
LEMMA PromoteSound ==
    ASSUME Inv, NEW a \in Analyses, Promote(a)
    PROVE  Inv' /\ NoReturn
  <1> DEFINE d == [n |-> Cardinality(dossiers), of |-> a, usage |-> analysis[a]]
             h == [do |-> "promote", of |-> a, usage |-> analysis[a], by |-> None]
  <1>1. /\ handler = Free
        /\ Readable(a)
        /\ analysis[a] # Pending
        /\ dossiers' = dossiers \union {d}
        /\ handler' = h
        /\ UNCHANGED <<profile, default, lastUsed, analysis, expired, request,
                       doomed, taken, interrupted>>
    BY DEF Promote, MayPromote, preferences
  <1>2. analysis[a] \in Usages /\ a \in taken
    BY <1>1 DEF Inv, Types, Readable
  <1>3. /\ d.of = a
        /\ d.usage = analysis[a]
        /\ h \in [do : {"free", "forget", "update", "promote"},
                  of : Analyses \union Profiles \union {None},
                  usage : Usages \union {Pending}, by : Requests \union {None}]
        /\ h.do = "promote"
        /\ h.of = a
    BY <1>2
  <1> HIDE DEF d, h
  <1>4. NoReturn
    BY <1>1 DEF NoReturn, Readable
  <1>5. Types'
    BY <1>1, <1>3 DEF Inv, Types
  <1>6. Busy'
    BY <1>1, <1>3 DEF Inv, Busy
  <1>7. ASSUME NEW u, Kept(u)'
        PROVE  Kept(u)
    <2>1. analysis[a] # None
      BY <1>1 DEF Readable
    <2> QED
      BY <1>1, <1>3, <1>7, <2>1 DEF Kept
  <1>8. Revised'
    <2>1. KeptUsages' \subseteq KeptUsages
      BY <1>7, KeptIsKept
    <2> QED
      BY <1>1, <2>1, FrozenStaysTrue
  <1>9. \A e \in dossiers : e.of = a => a \in interrupted
    <2>1. handler.do = "free"
      BY <1>1 DEF Free
    <2> QED
      BY <1>1, <2>1 DEF Inv, Promotions
  <1>10. Promotions'
    <2>1. ASSUME NEW e \in dossiers'
          PROVE  /\ e.of \in Analyses \intersect taken'
                 /\ e.usage \in Usages
                 /\ \/ e.of \in interrupted'
                    \/ handler'.do = "promote" /\ handler'.of = e.of
                    \/ ~Readable(e.of)'
      <3>1. CASE e = d
        BY <1>1, <1>2, <1>3, <3>1
      <3>2. CASE e \in dossiers
        <4>1. handler.do = "free"
          BY <1>1 DEF Free
        <4>2. ~Readable(e.of) => ~Readable(e.of)'
          BY <1>1 DEF Readable
        <4> QED
          BY <1>1, <3>2, <4>1, <4>2 DEF Inv, Promotions
      <3> QED
        BY <1>1, <3>1, <3>2
    <2>2. \A e, f \in dossiers' : e.of = f.of /\ e.of \notin interrupted' => e = f
      BY <1>1, <1>3, <1>9 DEF Inv, Promotions
    <2> QED
      BY <2>1, <2>2 DEF Promotions
  <1> QED
    BY <1>4, <1>5, <1>6, <1>8, <1>10 DEF Inv

LEMMA FinishPromotionSound ==
    ASSUME Inv, FinishPromotion
    PROVE  Inv' /\ NoReturn
  <1>1. /\ handler.do = "promote"
        /\ analysis' = [analysis EXCEPT ![handler.of] = None]
        /\ \/ UNCHANGED lastUsed
           \/ handler.usage.mode = "profil" /\ lastUsed' = lastUsed \union {handler.usage.id}
        /\ handler' = Free
        /\ UNCHANGED <<profile, default, expired, request, doomed, dossiers,
                       taken, interrupted>>
    BY DEF FinishPromotion, DropAnalysis
  <1>2. handler.of \in Analyses
    BY <1>1 DEF Inv, Busy
  <1>3. \A b \in Analyses :
            analysis'[b] = IF b = handler.of THEN None ELSE analysis[b]
    BY <1>1 DEF Inv, Types
  <1>4. /\ Free \in [do : {"free", "forget", "update", "promote"},
                     of : Analyses \union Profiles \union {None},
                     usage : Usages \union {Pending}, by : Requests \union {None}]
        /\ Free.do = "free"
    BY DEF Free
  <1>5. lastUsed' \subseteq Profiles
    <2>1. handler.usage.mode = "profil" => handler.usage.id \in Profiles
      BY ModesDiffer DEF Inv, Types, ProfileUsages
    <2> QED
      BY <1>1, <2>1 DEF Inv, Types
  <1>6. NoReturn
    BY <1>1, <1>3 DEF NoReturn, Readable
  <1>7. Types'
    BY <1>1, <1>3, <1>4, <1>5 DEF Inv, Types
  <1>8. Busy'
    BY <1>1, <1>4 DEF Inv, Busy
  <1>9. ASSUME NEW u, Kept(u)'
        PROVE  Kept(u)
    BY <1>1, <1>3, <1>9 DEF Kept
  <1>10. analysis'[handler.of] = None
    BY <1>2, <1>3
  <1> QED
    BY <1>1, <1>6, <1>7, <1>8, <1>9, <1>10, AnalysisStep

LEMMA ExpireSound ==
    ASSUME Inv, NEW a \in Analyses, Expire(a)
    PROVE  Inv' /\ NoReturn
  <1>1. /\ expired' = expired \union {a}
        /\ UNCHANGED <<profile, default, lastUsed, analysis, request, doomed,
                       handler, dossiers, taken, interrupted>>
    BY DEF Expire, preferences
  <1>2. NoReturn
    BY <1>1 DEF NoReturn, Readable
  <1>3. Types' /\ Busy'
    BY <1>1 DEF Inv, Types, Busy
  <1>4. \A u : Kept(u)' => Kept(u)
    BY <1>1 DEF Kept
  <1> QED
    BY <1>1, <1>2, <1>3, <1>4, AnalysisStep

\* A stop in the middle of a promotion is recorded as such.
LEMMA RestartSound ==
    ASSUME Inv, Restart
    PROVE  Inv' /\ NoReturn
  <1>1. /\ request' = [r \in Requests |-> Idle]
        /\ doomed' = None
        /\ handler' = Free
        /\ interrupted \subseteq interrupted'
        /\ handler.do = "promote" => handler.of \in interrupted'
        /\ UNCHANGED <<profile, default, lastUsed, analysis, expired, dossiers,
                       taken>>
    BY DEF Restart, preferences
  <1>2. /\ Idle \in [at : Places, of : Analyses \union {None}, usage : {Pending}]
        /\ Idle.at = "idle"
        /\ Idle.usage = Pending
    BY DEF Idle, Places
  <1>3. /\ Free \in [do : {"free", "forget", "update", "promote"},
                     of : Analyses \union Profiles \union {None},
                     usage : Usages \union {Pending}, by : Requests \union {None}]
        /\ Free.do = "free"
    BY DEF Free
  <1>4. NoReturn
    BY <1>1 DEF NoReturn, Readable
  <1>5. Types'
    BY <1>1, <1>2, <1>3 DEF Inv, Types
  <1>6. Busy'
    BY <1>1, <1>2, <1>3 DEF Busy
  <1>7. ASSUME NEW u, Kept(u)'
        PROVE  Kept(u)
    BY <1>1, <1>2, <1>7, ModesDiffer DEF Kept
  <1> QED
    BY <1>1, <1>4, <1>5, <1>6, <1>7, AnalysisStep

-----------------------------------------------------------------------------
LEMMA InitInv == Init => Inv
  <1> SUFFICES ASSUME Init
               PROVE  Inv
    OBVIOUS
  <1>1. /\ Idle \in [at : Places, of : Analyses \union {None}, usage : {Pending}]
        /\ Idle.at = "idle"
        /\ Idle.usage = Pending
    BY DEF Idle, Places
  <1>2. /\ Free \in [do : {"free", "forget", "update", "promote"},
                     of : Analyses \union Profiles \union {None},
                     usage : Usages \union {Pending}, by : Requests \union {None}]
        /\ Free.do = "free"
    BY DEF Free
  <1>3. Types
    BY <1>1, <1>2 DEF Init, Types
  <1>4. Busy
    BY <1>1, <1>2 DEF Init, Busy
  <1>5. Promotions
    BY DEF Init, Promotions
  <1>6. KeptUsages = {}
    <2>1. \A u : ~Kept(u)
      BY <1>1, ModesDiffer DEF Init, Kept
    <2> QED
      BY <2>1, KeptIsKept
  <1>7. CurrentUsages = {}
    BY DEF Init, CurrentUsages, Stored
  <1>8. Revised
    BY <1>6, <1>7
    DEF Init, Revised, RevisionIdentifiesRules, RulesChangeIsShown, Stored
  <1> QED
    BY <1>3, <1>4, <1>5, <1>8 DEF Inv

LEMMA StepSound == Inv /\ [Next]_vars => Inv' /\ NoReturn
  <1> SUFFICES ASSUME Inv, [Next]_vars
               PROVE  Inv' /\ NoReturn
    OBVIOUS
  <1>1. ASSUME NEW p \in Profiles, NEW rules \in Rules,
               CreateProfile(p, rules) \/ UpdateProfile(p, rules)
        PROVE  Inv' /\ NoReturn
    BY <1>1, CreateProfileSound, UpdateProfileSound
  <1>2. ASSUME NEW p \in Profiles, NEW q \in Profiles, DuplicateProfile(p, q)
        PROVE  Inv' /\ NoReturn
    <2>1. profile[p].rules \in Rules
      BY <1>2 DEF DuplicateProfile, Inv, Types, Stored, ProfileContents
    <2> QED
      BY <1>2, <2>1, CreateProfileSound DEF DuplicateProfile
  <1>3. CASE ProfileStep
    BY <1>1, <1>2, <1>3, DeleteProfileSound, PreferenceSound DEF ProfileStep
  <1>4. CASE UploadStep
    BY <1>4, UploadSound, ReadExpiredSound, SaveSnapshotSound, UnlinkSound
    DEF UploadStep
  <1>5. CASE ChoiceStep
    BY <1>5, ChooseSound, UpdateSound, UnlinkSound, SaveUpdateSound DEF ChoiceStep
  <1>6. CASE EndStep
    BY <1>6, UnlinkSound, PromoteSound, ExpireSound, FinishPromotionSound
    DEF EndStep
  <1>7. CASE Restart
    BY <1>7, RestartSound
  <1>8. CASE UNCHANGED vars
    <2>1. UNCHANGED <<profile, default, lastUsed, analysis, expired, request,
                      doomed, handler, dossiers, taken, interrupted>>
      BY <1>8 DEF vars
    <2>2. NoReturn
      BY <2>1 DEF NoReturn, Readable
    <2>3. Types' /\ Busy'
      BY <2>1 DEF Inv, Types, Busy
    <2>4. \A u : Kept(u)' => Kept(u)
      BY <2>1 DEF Kept
    <2> QED
      BY <2>1, <2>2, <2>3, <2>4, AnalysisStep
  <1> QED
    BY <1>3, <1>4, <1>5, <1>6, <1>7, <1>8 DEF Next

LEMMA Invariance == Spec => []Inv
  <1>1. Inv /\ [Next]_vars => Inv'
    BY StepSound
  <1> QED
    BY InitInv, <1>1, PTL DEF Spec

-----------------------------------------------------------------------------
(* The results.                                                             *)

\* Every reachable state is well typed: the worker unlinks only an expired
\* analysis, and a dossier holds the usage of an analysis that existed.
THEOREM TypeCorrect == Spec => []TypeOK
  <1>1. Inv => TypeOK
    <2> SUFFICES ASSUME Inv
                 PROVE  TypeOK
      OBVIOUS
    <2>1. \A p \in Profiles :
              Stored(p) => profile[p] \in [revision : Revisions, rules : Rules]
      BY DEF Inv, Types, Stored, ProfileContents
    <2>2. \A a \in Analyses : analysis[a] # None => analysis[a] \in Usages \union {Pending}
      BY DEF Inv, Types
    <2>3. \A r \in Requests :
              /\ request[r].at \in {"idle", "uploading", "uploaded", "applying"}
              /\ request[r].at = "applying" => request[r].usage \in Usages
      BY DEF Inv, Types, Busy, Places
    <2>4. /\ handler.do \in {"free", "forget", "update", "promote"}
          /\ handler.do = "update" => request[handler.by].at = "applying"
      BY DEF Inv, Types, Busy
    <2>5. \A d \in dossiers : d.of \in taken /\ d.usage \in Usages
      BY DEF Inv, Promotions
    <2> QED
      BY <2>1, <2>2, <2>3, <2>4, <2>5 DEF Inv, Types, TypeOK
  <1> QED
    BY <1>1, Invariance, PTL

\* Two usages of one revision of a profile were frozen with the same rules.
THEOREM RevisionsIdentify == Spec => []RevisionIdentifiesRules
  <1>1. Inv => RevisionIdentifiesRules
    BY DEF Inv, Revised
  <1> QED
    BY <1>1, Invariance, PTL

\* Rules that changed since they were frozen have a greater revision.
THEOREM ChangesAreShown == Spec => []RulesChangeIsShown
  <1>1. Inv => RulesChangeIsShown
    BY DEF Inv, Revised
  <1> QED
    BY <1>1, Invariance, PTL

\* An analysis makes one dossier, unless a stop cut its promotion.
THEOREM OneDossierEach == Spec => []PromotedOnce
  <1>1. Inv => PromotedOnce
    <2> SUFFICES ASSUME Inv, NEW a \in Analyses \ interrupted
                 PROVE  Cardinality({d \in dossiers : d.of = a}) <= 1
      BY DEF PromotedOnce
    <2> DEFINE S == {d \in dossiers : d.of = a}
    <2>1. \A d, e \in S : d = e
      BY DEF Inv, Promotions
    <2> HIDE DEF S
    <2>2. S = {} \/ \E d : S = {d}
      BY <2>1
    <2>3. Cardinality(S) = 0 \/ Cardinality(S) = 1
      BY <2>2, FS_EmptySet, FS_Singleton
    <2> QED
      BY <2>3 DEF S
  <1> QED
    BY <1>1, Invariance, PTL

\* What was deleted, promoted or left to expire is never read again.
THEOREM EndedIsOver == Spec => EndedStaysEnded
  <1>1. Inv /\ [Next]_vars => NoReturn
    BY StepSound
  <1> QED
    BY <1>1, Invariance, PTL DEF Spec, EndedStaysEnded, NoReturn

=============================================================================
