----------------------------- MODULE MCFolderTree -----------------------------
(* TLC instance of FolderTree: folders, documents and requests are
   interchangeable. *)
EXTENDS FolderTree, TLC

CONSTANTS f1, f2, f3, d1, d2, r1, r2

MCFolders == {f1, f2, f3}
MCDocuments == {d1, d2}
MCRequests == {r1, r2}
MCSymmetry == Permutations(MCFolders) \union Permutations(MCDocuments) \union Permutations(MCRequests)
=============================================================================
