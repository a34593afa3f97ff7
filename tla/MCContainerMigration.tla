------------------------ MODULE MCContainerMigration ------------------------
(* Small instances of ContainerMigration for TLC. *)
EXTENDS ContainerMigration, TLC

\* Hosts are interchangeable, and so are slots (safety runs only).
Symmetry == Permutations(Node) \cup Permutations(Slot)
=============================================================================
