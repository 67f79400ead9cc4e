--------------------------- MODULE MCDossierStore --------------------------
(* Small instances of DossierStore.  "a" and "A" are two spellings of one   *)
(* reference, "b" is another.                                               *)
EXTENDS DossierStore, TLC

CONSTANTS a, A, b

MCSpellings == {a, A, b}
MCKey == a :> a @@ A :> a @@ b :> b

=============================================================================
