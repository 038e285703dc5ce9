----------------------------- MODULE MCCatalog -----------------------------
(* Three jobs on one catalog; one of them may be a dry run. *)
EXTENDS Catalog, TLC

MCJobKinds ==
    {[tool |-> "materialize", execute |-> x, overwrite |-> FALSE, copy |-> FALSE,
      links |-> TRUE, ids |-> i] : x \in BOOLEAN, i \in {{1}, {2}}}
=============================================================================
