------------------------------ MODULE MCRwbMap ------------------------------
(* Two of the three categories, in their order. *)
EXTENDS RwbMap

TwoCategories == <<"committees", "individuals">>
=============================================================================
