---------------------------- MODULE WordDirectory ----------------------------
(***************************************************************************)
(* What the store promises its users, with the table, the clock and the     *)
(* suffixes left out: a directory of words. An entry is unborn, named (it   *)
(* has a word and the word is its own), shelved (expired, without a word    *)
(* that resolves) or forgotten. A word changes hands only after its owner   *)
(* was shelved or forgotten, and a forgotten entry never returns.           *)
(***************************************************************************)
CONSTANTS Ids, Words, NoWord

VARIABLES
    life,   \* id -> "unborn", "named", "shelved" or "forgotten"
    name    \* id -> its word while named, else NoWord

dirVars == <<life, name>>

DirInit ==
    /\ life = [id \in Ids |-> "unborn"]
    /\ name = [id \in Ids |-> NoWord]

Others(id) == \A j \in Ids \ {id} : life'[j] = life[j] /\ name'[j] = name[j]

\* An unborn or shelved entry takes a word that nobody has.
TakeName(id) ==
    /\ life[id] \in {"unborn", "shelved"}
    /\ life'[id] = "named"
    /\ name'[id] \in Words
    /\ \A j \in Ids : name[j] # name'[id]
    /\ Others(id)

\* Named entries lose their words together, in one sweep.
Shelve ==
    LET group == {id \in Ids : life'[id] # life[id]} IN
    /\ group # {}
    /\ \A id \in group : life[id] = "named" /\ life'[id] = "shelved" /\ name'[id] = NoWord
    /\ \A id \in Ids \ group : name'[id] = name[id]

Forget(id) ==
    /\ life[id] \in {"named", "shelved"}
    /\ life'[id] = "forgotten"
    /\ name'[id] = NoWord
    /\ Others(id)

DirNext ==
    \/ \E id \in Ids : TakeName(id)
    \/ Shelve
    \/ \E id \in Ids : Forget(id)

DirSpec == DirInit /\ [][DirNext]_dirVars
=============================================================================
