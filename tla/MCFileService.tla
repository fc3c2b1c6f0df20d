---------------------------- MODULE MCFileService ----------------------------
(* Small instances of FileService. *)
EXTENDS FileService, TLC

CONSTANT cat

OneWord == {<<cat>>}
ShortTTL == {NilTTL}
\* The last answer influences no step and no invariant but the type.
ButReply == <<entries, minted, now, deleting, fileVars>>

Symmetry == Permutations(Ids) \cup Permutations(Clients)
=============================================================================
