----------------------------- MODULE MCDatasets -----------------------------
(* Datasets.tla with the card of MCFileSystem.  The loader alone has a heap *)
(* of three slots, so that two pictures that were lost leave too little for *)
(* the next one.  LucasKanadeTest.tla runs on four pairs, so on five images *)
(* any of which may be missing, two in a row as well, with room for both   *)
(* images, the references and a file, and no more.  FastTest.tla runs on   *)
(* three images, any of which may be missing or damaged, with one slot     *)
(* more than it needs.                                                     *)
EXTENDS MCFileSystem, Datasets
=============================================================================
