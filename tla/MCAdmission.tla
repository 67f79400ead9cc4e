---------------------------- MODULE MCAdmission ----------------------------
(* Four requests compete for the two slots and the one worker of the code,  *)
(* one request of each kind and a second import.                            *)
EXTENDS Admission, TLC

CONSTANTS import, reimport, analyze, choice

MCRequests == {import, reimport, analyze, choice}

MCKind ==
    import :> "upload" @@ reimport :> "upload" @@ analyze :> "analyze" @@
          choice :> "choice"

=============================================================================
