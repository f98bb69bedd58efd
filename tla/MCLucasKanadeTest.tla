-------------------------- MODULE MCLucasKanadeTest --------------------------
(* LucasKanadeTest.tla on four pairs, so on five images any of which may  *)
(* be missing, two in a row as well, with room on the heap for both images, *)
(* the references and a file, and no more.                                 *)
EXTENDS LucasKanadeTest
=============================================================================
