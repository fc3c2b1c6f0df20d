---------------------------- MODULE MCEntryStore ----------------------------
(* Small instances of EntryStore. *)
EXTENDS EntryStore, TLC

CONSTANT cat

\* cat, and cat2, which is also the first suffixed form of cat.
OneWord == {<<cat>>}
AliasWords == {<<cat>>, <<cat, 2>>}
MixedWords == {<<>>, <<cat>>, <<cat, 2>>}

\* Below the range, and both its ends: 0 is never, 1 the maximum.
EdgeTTLs == {-1, 0, 1}

Symmetry == Permutations(Ids)
=============================================================================
