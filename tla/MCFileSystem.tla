----------------------------- MODULE MCFileSystem -----------------------------
(* FileSystem.tla on a card with a root directory and two datasets in it.  *)
(* Paths are absolute, as those the program uses.                          *)
EXTENDS FileSystem

MCDirectory == {"/", "/v23", "/m01"}
MCAbsolutePath == {"/", "/v23", "/m01"}
MCFollowAbsolute ==
  [d \in MCDirectory |->
     [p \in MCAbsolutePath \cup {""} |-> IF p = "" THEN d ELSE p]]

=============================================================================
