------------------------------ MODULE MCServer ------------------------------
(* Small instances of Server. *)
EXTENDS Server, TLC

CONSTANT cat

OneWord == {<<cat>>}
ShortTTL == {NilTTL}

\* The last answer influences no step and no property but the type.
ButReply == <<entries, minted, now, deleting, serverVars>>
=============================================================================
