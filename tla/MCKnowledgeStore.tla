--------------------------- MODULE MCKnowledgeStore ---------------------------
(* Small instances of KnowledgeStore for TLC. *)
EXTENDS KnowledgeStore, TLC

\* local/memories/x.md < local/memories/z/x.md < memories/x.md < memories/z/x.md
MCTiers == {"local", "workspace"}
MCFolders == {"", "z"}
MCPathRank == [p \in Places |-> (IF p[1] = "local" THEN 1 ELSE 3) + (IF p[2] = "" THEN 0 ELSE 1)]
MCSymmetry == Permutations(Clients)
=============================================================================
