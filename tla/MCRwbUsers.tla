----------------------------- MODULE MCRwbUsers -----------------------------
(* Root, anon, another name and one with a slash, which no cookie can hold; *)
(* two requests at a time, which are alike.                                 *)
EXTENDS RwbUsers, TLC

Alike == Permutations(Processes)
=============================================================================
