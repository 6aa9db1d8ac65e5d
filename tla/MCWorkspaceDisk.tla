-------------------------- MODULE MCWorkspaceDisk --------------------------
(* A TLC instance of WorkspaceDisk: a replacement turns "a" into "b".      *)
EXTENDS WorkspaceDisk

CONSTANTS p1, p2, w1, w2, t1

MCPaths == {p1}
MCTexts == {"a", "b"}
MCReplacement == [x \in MCTexts |-> "b"]
MCManifest == [p \in MCPaths |-> "a"]
MCWorkers == {w1, w2}
MCTerminals == {t1}
=============================================================================
