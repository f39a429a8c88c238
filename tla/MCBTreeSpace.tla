---------------------------- MODULE MCBTreeSpace ----------------------------
(* The index on small disks: see the MCBTreeSpace*.cfg.                     *)
EXTENDS BTreeSpace

MCBlocks == 0 .. (IF NumBlocks < 3 THEN 3 ELSE NumBlocks)
=============================================================================
