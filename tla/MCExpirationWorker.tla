------------------------- MODULE MCExpirationWorker -------------------------
(* Small instances of ExpirationWorker. *)
EXTENDS ExpirationWorker, TLC

CONSTANT cat

OneWord == {<<cat>>}
ShortTTL == {NilTTL}
Symmetry == Permutations(Ids)
=============================================================================
