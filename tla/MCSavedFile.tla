---------------------------- MODULE MCSavedFile ----------------------------
(***************************************************************************)
(* A direct command and a Store on a document with three contents.         *)
(***************************************************************************)
EXTENDS SavedFile, TLC

CONSTANTS command, store, v1, v2, v3

MCProcess == {command, store}
MCStores  == {store}
MCVersion == {v1, v2, v3}

Symmetry == Permutations(MCVersion)
=============================================================================
