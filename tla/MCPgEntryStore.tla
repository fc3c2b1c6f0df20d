---------------------------- MODULE MCPgEntryStore ----------------------------
(* Small instances of PgEntryStore. *)
EXTENDS PgEntryStore, TLC

CONSTANT cat

OneWord == {<<cat>>}
ShortTTL == {NilTTL}
Symmetry == Permutations(Ids) \cup Permutations(Clients) \cup Permutations(Workers)
=============================================================================
