--------------------------- MODULE DirectoryProofs ---------------------------
(***************************************************************************)
(* EntryStore implements WordDirectory, and EntryLifecycle, for every value *)
(* of the constants. Both speak of the table only, so the proof first says  *)
(* what a step can do to the table (NextEffect) and goes on from there.     *)
(***************************************************************************)
EXTENDS EntryStoreProofs, FiniteSetTheorems

USE IdsAssumption, WordsAssumption, ShapeAssumption

-----------------------------------------------------------------------------
(* What a step does to the table *)

Write(id, row) == entries' = [entries EXCEPT ![id] = row]

\* An active row takes a word that no other active row has.
Takes(id, row) ==
    row.status = "active" /\ ~Conflict(id, row.word, "active") /\ Write(id, row)

Stored(id, row) == Takes(id, row) /\ id \notin minted /\ minted' = minted \cup {id}

Woken(id, row) ==
    Takes(id, row) /\ Expired(id) /\ row.type = entries[id].type /\ UNCHANGED minted

Extended(id, row) ==
    /\ Active(id) /\ row.status = "active"
    /\ row.word = entries[id].word /\ row.type = entries[id].type
    /\ Write(id, row) /\ UNCHANGED minted

Deleted(id) == Present(id) /\ Write(id, NoRow) /\ UNCHANGED minted

Swept(batch) ==
    /\ batch # {} /\ \A id \in batch : Due(id)
    /\ entries' = [id \in Ids |->
          IF id \in batch THEN [entries[id] EXCEPT !.status = "expired"] ELSE entries[id]]
    /\ UNCHANGED minted

\* All that may happen to the table but a delete.
Growth ==
    \/ UNCHANGED <<entries, minted>>
    \/ \E id \in Ids, row \in Row : Stored(id, row) \/ Woken(id, row) \/ Extended(id, row)
    \/ \E batch \in SUBSET Ids : Swept(batch)

Effect == Growth \/ \E id \in Ids : Deleted(id)

\* store_entry and upload_file, past validation.
LEMMA StoreTxEffect ==
    ASSUME IInv, NEW op, NEW base \in Words, NEW type \in {"text", "file"},
           NEW ttl \in TTLArgs, ValidTTL(ttl), StoreTx(op, base, type, ttl)
    PROVE  Growth
<1>1. CASE Refuse(op, "ErrCollisionLimitExceeded")
  BY <1>1 DEF Refuse, Growth
<1>2. CASE \E i \in ResolveWord(base), id \in Ids \ minted :
             Store(op, id, Candidate(base, i), type, ExpiresAt(ttl),
                   IF i > 1 THEN base ELSE <<>>)
  <2>1. PICK i \in ResolveWord(base), id \in Ids \ minted :
             Store(op, id, Candidate(base, i), type, ExpiresAt(ttl),
                   IF i > 1 THEN base ELSE <<>>)
    BY <1>2
  <2>. DEFINE w == Candidate(base, i)
              row == [word |-> w, type |-> type, status |-> "active", expires |-> ExpiresAt(ttl)]
  <2>2. ~Conflict(id, w, "active")
    BY ResolvedWordIsFree
  <2>3. w \in Words
    BY CandidateType DEF ResolveWord, FreeAttempts
  <2>4. ExpiresAt(ttl) \in Nat \cup {Never}
    BY ExpiresAtType DEF IInv
  <2>5. entries' = [entries EXCEPT ![id] = row] /\ minted' = minted \cup {id}
    BY <2>1, <2>2 DEF Store
  <2>6. row \in Row
    BY <2>3, <2>4 DEF Row
  <2>7. Stored(id, row)
    <3>. HIDE DEF w
    <3>. QED BY <2>2, <2>5 DEF Stored, Takes, Write
  <2>. QED BY <2>6, <2>7 DEF Growth
<1>. QED BY <1>1, <1>2 DEF StoreTx

\* The UPDATE of restore_entry and update_expiration on an expired entry.
LEMMA WakeEffect ==
    ASSUME IInv, NEW op, NEW id \in Ids, Expired(id), NEW i \in ResolveWord(entries[id].word),
           NEW ttl \in TTLArgs, ValidTTL(ttl), NEW original,
           UpdateStatus(op, id, "active", Candidate(entries[id].word, i),
                        ExpiresAt(ttl), original)
    PROVE  Growth
<1>. DEFINE w == Candidate(entries[id].word, i)
            row == [entries[id] EXCEPT !.status = "active", !.word = w, !.expires = ExpiresAt(ttl)]
<1>1. entries[id] \in Row
  BY DEF IInv, TypeOK, Expired, Present
<1>2. entries[id].word \in Words
  BY <1>1 DEF Row
<1>3. w \in Words
  BY <1>2, CandidateType DEF ResolveWord, FreeAttempts
<1>4. ExpiresAt(ttl) \in Nat \cup {Never}
  BY ExpiresAtType DEF IInv
<1>5. ~Conflict(id, w, "active")
  BY ResolvedWordIsFree
<1>6. entries' = [entries EXCEPT ![id] = row] /\ UNCHANGED minted
  BY <1>5 DEF UpdateStatus
<1>. HIDE DEF w
<1>7. row \in Row /\ row.status = "active" /\ row.word = w /\ row.type = entries[id].type
  BY <1>1, <1>3, <1>4 DEF Row
<1>8. Woken(id, row)
  BY <1>5, <1>6, <1>7 DEF Woken, Takes, Write
<1>. QED BY <1>7, <1>8 DEF Growth

\* update_expiration of an active entry.
LEMMA ExtendEffect ==
    ASSUME IInv, NEW op, NEW id \in Ids, Active(id), NEW ttl \in TTLArgs, ValidTTL(ttl),
           NEW original,
           UpdateStatus(op, id, "active", entries[id].word, ExpiresAt(ttl), original)
    PROVE  Growth
<1>. DEFINE row == [entries[id] EXCEPT !.status = "active", !.word = entries[id].word,
                                       !.expires = ExpiresAt(ttl)]
<1>1. CASE Refuse(op, "ErrUnique")
  BY <1>1 DEF Refuse, Growth
<1>2. CASE ~Refuse(op, "ErrUnique")
  <2>1. entries[id] \in Row
    BY DEF IInv, TypeOK, Active, Present
  <2>2. ExpiresAt(ttl) \in Nat \cup {Never}
    BY ExpiresAtType DEF IInv
  <2>3. entries' = [entries EXCEPT ![id] = row] /\ UNCHANGED minted
    BY <1>2 DEF UpdateStatus
  <2>4. /\ row \in Row /\ row.status = "active"
        /\ row.word = entries[id].word /\ row.type = entries[id].type
    BY <2>1, <2>2 DEF Row
  <2>5. Extended(id, row)
    BY <2>3, <2>4 DEF Extended, Write
  <2>. QED BY <2>4, <2>5 DEF Growth
<1>. QED BY <1>1, <1>2

LEMMA StoreEntryEffect ==
    ASSUME IInv, NEW w \in RequestWords, NEW p, NEW ttl \in TTLArgs, StoreEntry(w, p, ttl)
    PROVE  Growth
<1>1. CASE StoreRefusal(w, p, ttl) # "none"
  BY <1>1 DEF StoreEntry, Refuse, Growth
<1>2. CASE StoreRefusal(w, p, ttl) = "none"
  <2>1. ValidTTL(ttl)
    BY <1>2 DEF StoreRefusal
  <2>2. w \in Words
    OBVIOUS
  <2>. QED BY <1>2, <2>1, <2>2, StoreTxEffect DEF StoreEntry
<1>. QED BY <1>1, <1>2

LEMMA RestoreEffect ==
    ASSUME IInv, NEW ref \in Refs, NEW ttl \in TTLArgs, RestoreEntry(ref, ttl)
    PROVE  Growth
<1>1. CASE \E err : Refuse("restore_entry", err)
  BY <1>1 DEF Refuse, Growth
<1>2. CASE ~\E err : Refuse("restore_entry", err)
  <2>1. ref \in Ids /\ ValidTTL(ttl) /\ Present(ref) /\ ~Active(ref) /\ RestoreTx(ref, ttl)
    BY <1>2 DEF RestoreEntry
  <2>2. Expired(ref)
    BY <2>1 DEF IInv, TypeOK, Active, Expired, Present, Row
  <2>3. PICK i \in ResolveWord(entries[ref].word) :
          UpdateStatus("restore_entry", ref, "active", Candidate(entries[ref].word, i),
                       ExpiresAt(ttl),
                       IF i > 1 THEN Candidate(entries[ref].word, i) ELSE <<>>)
    BY <1>2, <2>1 DEF RestoreTx
  <2>. QED BY <2>1, <2>2, <2>3, WakeEffect
<1>. QED BY <1>1, <1>2

LEMMA UpdateExpirationEffect ==
    ASSUME IInv, NEW ref \in Refs, NEW ttl \in TTLArgs, UpdateExpiration(ref, ttl)
    PROVE  Growth
<1>1. CASE \E err : Refuse("update_expiration", err)
  BY <1>1 DEF Refuse, Growth
<1>2. CASE ~\E err : Refuse("update_expiration", err)
  <2>1. ValidTTL(ttl) /\ \E id \in Lookup(ref) : UpdateExpirationTx(id, ttl)
    BY <1>2 DEF UpdateExpiration
  <2>2. PICK id \in Lookup(ref) : UpdateExpirationTx(id, ttl)
    BY <2>1
  <2>3. id \in Ids
    BY <2>2 DEF Lookup, GetByWord
  <2>4. CASE /\ Active(id)
             /\ UpdateStatus("update_expiration", id, "active", entries[id].word,
                             ExpiresAt(ttl), <<>>)
    BY <2>1, <2>3, <2>4, ExtendEffect
  <2>5. CASE /\ Expired(id)
             /\ \E i \in ResolveWord(entries[id].word) :
                   UpdateStatus("update_expiration", id, "active",
                                Candidate(entries[id].word, i), ExpiresAt(ttl),
                                IF i > 1 THEN entries[id].word ELSE <<>>)
    BY <2>1, <2>3, <2>5, WakeEffect
  <2>. QED BY <1>2, <2>2, <2>4, <2>5 DEF UpdateExpirationTx
<1>. QED BY <1>1, <1>2

LEMMA SweepEffect ==
    ASSUME Sweep
    PROVE  Growth
<1>1. PICK batch \in Batches : batch # {} /\ MarkExpiredBatch(batch)
  BY DEF Sweep
<1>2. batch \in SUBSET Ids /\ \A id \in batch : Due(id)
  BY DEF Batches
<1>3. UNCHANGED minted
  BY DEF Sweep
<1>. QED BY <1>1, <1>2, <1>3 DEF MarkExpiredBatch, Growth, Swept

LEMMA DeleteEffect ==
    ASSUME NEW id \in Ids, NEW w, Delete(id, w)
    PROVE  Effect /\ (Present(id) => Deleted(id))
BY DEF Delete, Refuse, Effect, Growth, Deleted, Write

LEMMA NextEffect == IInv /\ [Next]_vars => Effect
<1>. SUFFICES ASSUME IInv, [Next]_vars PROVE Effect
  OBVIOUS
<1>1. ASSUME NEW w \in RequestWords, NEW p, NEW ttl \in TTLArgs, StoreEntry(w, p, ttl)
      PROVE  Effect
  BY <1>1, StoreEntryEffect DEF Effect
<1>2. ASSUME NEW ref \in Refs, NEW ttl \in TTLArgs, RestoreEntry(ref, ttl)
      PROVE  Effect
  BY <1>2, RestoreEffect DEF Effect
<1>3. ASSUME NEW ref \in Refs, NEW ttl \in TTLArgs, UpdateExpiration(ref, ttl)
      PROVE  Effect
  BY <1>3, UpdateExpirationEffect DEF Effect
<1>4. ASSUME NEW c \in Clients, NEW ref \in Refs, DeleteEntry(c, ref)
      PROVE  Effect
  <2>1. CASE UNCHANGED <<entries, minted>>
    BY <2>1 DEF Effect, Growth
  <2>2. CASE ~UNCHANGED <<entries, minted>>
    <3>1. ref \in Ids /\ Delete(ref, <<>>)
      BY <1>4, <2>2 DEF DeleteEntry, Refuse
    <3>. QED BY <3>1, DeleteEffect
  <2>. QED BY <2>1, <2>2
<1>5. ASSUME NEW c \in Clients, DeleteFound(c)
      PROVE  Effect
  <2>1. deleting[c].id \in Ids
    BY <1>5 DEF IInv, TypeOK, DeleteFound, Deletions
  <2>. QED BY <1>5, <2>1, DeleteEffect DEF DeleteFound
<1>6. CASE Sweep
  BY <1>6, SweepEffect DEF Effect
<1>7. CASE Tick \/ Crash \/ UNCHANGED vars
  BY <1>7 DEF Tick, Crash, vars, Effect, Growth
<1>. QED BY <1>1, <1>2, <1>3, <1>4, <1>5, <1>6, <1>7 DEF Next

-----------------------------------------------------------------------------
(* The lifecycle of an entry *)

\* A row has an id that was handed out, so that no INSERT meets an old row.
RowsAreMinted == \A id \in Ids : Present(id) => id \in minted

DInv == IInv /\ RowsAreMinted

LEMMA EffectKeepsMinted == IInv /\ RowsAreMinted /\ Effect => RowsAreMinted'
<1>. SUFFICES ASSUME IInv, RowsAreMinted, Effect PROVE RowsAreMinted'
  OBVIOUS
<1>1. CASE UNCHANGED <<entries, minted>>
  BY <1>1 DEF RowsAreMinted, Present
<1>2. ASSUME NEW id \in Ids, NEW row \in Row,
             Stored(id, row) \/ Woken(id, row) \/ Extended(id, row)
      PROVE  RowsAreMinted'
  BY <1>2 DEF IInv, TypeOK, RowsAreMinted, Present, Stored, Woken, Extended, Takes, Write,
              Expired, Active
<1>3. ASSUME NEW id \in Ids, Deleted(id) PROVE RowsAreMinted'
  BY <1>3 DEF IInv, TypeOK, RowsAreMinted, Present, Deleted, Write
<1>4. ASSUME NEW batch \in SUBSET Ids, Swept(batch) PROVE RowsAreMinted'
  BY <1>4 DEF RowsAreMinted, Present, Swept, Due, Active
<1>. QED BY <1>1, <1>2, <1>3, <1>4 DEF Effect, Growth

LEMMA InitDInv == Init => DInv
BY InitInv DEF Init, DInv, RowsAreMinted, Present

LEMMA NextKeepsDInv == DInv /\ [Next]_vars => DInv'
BY NextKeepsInv, NextEffect, EffectKeepsMinted DEF DInv

LEMMA DInvariance == Spec => []DInv
BY InitDInv, NextKeepsDInv, PTL DEF Spec

\* What may become of one active entry in a step.
Kept(id) ==
    \/ ~Present(id)'
    \/ /\ entries'[id].word = entries[id].word
       /\ entries'[id].type = entries[id].type
       /\ Active(id)' \/ (Expired(id)' /\ Due(id))

LEMMA EffectKeeps ==
    ASSUME DInv, Effect, NEW id \in Ids, Active(id)
    PROVE  Kept(id)
<1>1. /\ entries \in [Ids -> Row \cup {NoRow}] /\ entries[id] \in Row
      /\ entries[id] # NoRow /\ entries[id].status = "active" /\ id \in minted
  BY DEF DInv, IInv, TypeOK, Active, Present, RowsAreMinted
<1>2. ASSUME entries'[id] = entries[id] PROVE Kept(id)
  BY <1>1, <1>2 DEF Kept, Active, Present
<1>3. CASE UNCHANGED <<entries, minted>>
  BY <1>2, <1>3
<1>4. ASSUME NEW j \in Ids, NEW row \in Row, Stored(j, row) \/ Woken(j, row)
      PROVE  Kept(id)
  <2>1. j # id
    BY <1>1, <1>4 DEF Stored, Woken, Expired
  <2>. QED BY <1>1, <1>2, <1>4, <2>1 DEF Stored, Woken, Takes, Write
<1>5. ASSUME NEW j \in Ids, NEW row \in Row, Extended(j, row) PROVE Kept(id)
  <2>1. CASE j = id
    BY <1>1, <1>5, <2>1 DEF Extended, Write, Kept, Active, Present
  <2>2. CASE j # id
    BY <1>1, <1>2, <1>5, <2>2 DEF Extended, Write
  <2>. QED BY <2>1, <2>2
<1>6. ASSUME NEW j \in Ids, Deleted(j) PROVE Kept(id)
  BY <1>1, <1>2, <1>6 DEF Deleted, Write, Kept, Present
<1>7. ASSUME NEW batch \in SUBSET Ids, Swept(batch) PROVE Kept(id)
  <2>1. CASE id \in batch
    <3>1. entries'[id] = [entries[id] EXCEPT !.status = "expired"]
      BY <1>7, <2>1 DEF Swept
    <3>2. /\ entries'[id].word = entries[id].word /\ entries'[id].type = entries[id].type
          /\ entries'[id].status = "expired" /\ entries'[id] \in Row
      BY <1>1, <3>1 DEF Row
    <3>. QED BY <1>7, <2>1, <3>2 DEF Swept, Kept, Expired, Present
  <2>2. CASE id \notin batch
    BY <1>2, <1>7, <2>2 DEF Swept
  <2>. QED BY <2>1, <2>2
<1>. QED BY <1>3, <1>4, <1>5, <1>6, <1>7 DEF Effect, Growth

\* An active entry keeps its word and its kind, and stops being active only by a
\* delete or by a sweep at its time, however stores, restores and other deletes
\* interleave (entry_service.go:70-354, sqlite.go:291).
THEOREM EntriesKeepTheirLifecycle == Spec => EntryLifecycle
<1>1. DInv /\ [Next]_vars => [\A id \in Ids : Active(id) =>
          \/ ~Present(id)'
          \/ /\ entries'[id].word = entries[id].word
             /\ entries'[id].type = entries[id].type
             /\ Active(id)' \/ (Expired(id)' /\ Due(id))]_vars
  BY NextEffect, EffectKeeps DEF DInv, Kept
<1>. QED BY <1>1, DInvariance, PTL DEF Spec, EntryLifecycle

-----------------------------------------------------------------------------
(* Rows come and go *)

\* Only a delete removes a row, and nothing changes the kind of its content.
LEMMA GrowthKeepsRows ==
    ASSUME DInv, Growth, NEW id \in Ids, Present(id)
    PROVE  Present(id)' /\ entries'[id].type = entries[id].type
<1>1. entries \in [Ids -> Row \cup {NoRow}] /\ entries[id] \in Row /\ id \in minted
  BY DEF DInv, IInv, TypeOK, Present, RowsAreMinted
<1>2. CASE UNCHANGED <<entries, minted>>
  BY <1>2 DEF Present
<1>3. ASSUME NEW j \in Ids, NEW row \in Row, Stored(j, row) \/ Woken(j, row) \/ Extended(j, row)
      PROVE  Present(id)' /\ entries'[id].type = entries[id].type
  BY <1>1, <1>3 DEF Stored, Woken, Extended, Takes, Write, Present
<1>4. ASSUME NEW batch \in SUBSET Ids, Swept(batch)
      PROVE  Present(id)' /\ entries'[id].type = entries[id].type
  <2>1. entries'[id] = entries[id] \/ entries'[id] = [entries[id] EXCEPT !.status = "expired"]
    BY <1>4 DEF Swept
  <2>2. entries'[id] \in Row /\ entries'[id].type = entries[id].type
    BY <1>1, <2>1 DEF Row
  <2>. QED BY <2>2 DEF Present
<1>. QED BY <1>2, <1>3, <1>4 DEF Growth

\* A row that is gone does not come back.
LEMMA GoneStaysGone ==
    ASSUME DInv, Effect, NEW id \in minted, ~Present(id)
    PROVE  ~Present(id)' /\ id \in minted'
<1>1. entries \in [Ids -> Row \cup {NoRow}] /\ id \in Ids
  BY DEF DInv, IInv, TypeOK
<1>. QED BY <1>1 DEF Effect, Growth, Stored, Woken, Extended, Deleted, Swept, Takes, Write,
                     Present, Expired, Active, Due

LEMMA MintedGrows == Effect => minted \subseteq minted'
BY DEF Effect, Growth, Stored, Woken, Extended, Deleted, Swept

\* Finitely many ids have been handed out, so that rows can be counted.
FinitelyMany == IsFiniteSet(minted)

LEMMA EffectKeepsFinite == FinitelyMany /\ Effect => FinitelyMany'
<1>1. Effect => minted' = minted \/ \E id \in Ids : minted' = minted \cup {id}
  BY DEF Effect, Growth, Stored, Woken, Extended, Deleted, Swept
<1>. QED BY <1>1, FS_AddElement DEF FinitelyMany

-----------------------------------------------------------------------------
(* The store implements the directory *)

\* The mapped state of one entry.
LEMMA Mapped ==
    ASSUME NEW id \in Ids
    PROVE  /\ Active(id) => Life[id] = "named" /\ Name[id] = entries[id].word
           /\ ~Active(id) => Name[id] = NoId
           /\ Expired(id) => Life[id] = "shelved" /\ Name[id] = NoId
           /\ ~Present(id) /\ id \in minted => Life[id] = "forgotten"
           /\ ~Present(id) /\ id \notin minted => Life[id] = "unborn"
BY DEF Life, Name, Active, Expired, Present

LEMMA MappedNext ==
    ASSUME NEW id \in Ids
    PROVE  /\ Active(id)' => Life'[id] = "named" /\ Name'[id] = entries'[id].word
           /\ Expired(id)' => Life'[id] = "shelved" /\ Name'[id] = NoId
           /\ ~Present(id)' /\ id \in minted' => Life'[id] = "forgotten" /\ Name'[id] = NoId
BY DEF Life, Name, Active, Expired, Present

\* An entry whose row a step leaves alone looks the same in the directory.
LEMMA SameRow ==
    ASSUME NEW id \in Ids, entries'[id] = entries[id],
           id \in minted' <=> id \in minted
    PROVE  Life'[id] = Life[id] /\ Name'[id] = Name[id]
BY DEF Life, Name, Active, Expired, Present

\* Writing an active row under a free word is taking a name.
LEMMA TakesIsTakeName ==
    ASSUME DInv, NEW id \in Ids, NEW row \in Row, Takes(id, row), ~Active(id),
           Life[id] \in {"unborn", "shelved"}, minted' \in {minted, minted \cup {id}}
    PROVE  Directory!TakeName(id)
<1>1. /\ entries \in [Ids -> Row \cup {NoRow}]
      /\ entries' = [entries EXCEPT ![id] = row] /\ row.status = "active"
      /\ row \in Row /\ row # NoRow /\ row.word \in Words
  BY DEF DInv, IInv, TypeOK, Takes, Write, Row
<1>2. Active(id)' /\ entries'[id].word = row.word
  BY <1>1 DEF Active, Present
<1>3. Life'[id] = "named" /\ Name'[id] = row.word
  BY <1>2, MappedNext
<1>4. ASSUME NEW j \in Ids PROVE Name[j] # row.word
  <2>1. CASE Active(j)
    <3>1. j # id /\ Name[j] = entries[j].word
      BY <2>1, Mapped
    <3>. QED BY <2>1, <3>1 DEF Takes, Conflict, Active
  <2>2. CASE ~Active(j)
    BY <1>1, <2>2, Mapped
  <2>. QED BY <2>1, <2>2
<1>5. ASSUME NEW j \in Ids \ {id} PROVE Life'[j] = Life[j] /\ Name'[j] = Name[j]
  BY <1>1, SameRow
<1>. QED BY <1>1, <1>3, <1>4, <1>5 DEF Directory!TakeName, Directory!Others

LEMMA EffectIsDirectoryStep ==
    ASSUME DInv, Effect
    PROVE  Directory!DirNext \/ UNCHANGED <<Life, Name>>
<1>1. entries \in [Ids -> Row \cup {NoRow}] /\ \A id \in Ids : Present(id) => id \in minted
  BY DEF DInv, IInv, TypeOK, RowsAreMinted
<1>2. Life' = [id \in Ids |-> Life'[id]] /\ Life = [id \in Ids |-> Life[id]]
  BY DEF Life
<1>3. Name' = [id \in Ids |-> Name'[id]] /\ Name = [id \in Ids |-> Name[id]]
  BY DEF Name
<1>4. CASE UNCHANGED <<entries, minted>>
  BY <1>4 DEF Life, Name, Active, Expired, Present
<1>5. ASSUME NEW id \in Ids, NEW row \in Row, Stored(id, row) PROVE Directory!DirNext
  <2>1. ~Present(id) /\ id \notin minted /\ ~Active(id)
    BY <1>1, <1>5 DEF Stored, Active
  <2>2. Life[id] = "unborn"
    BY <2>1, Mapped
  <2>. QED BY <1>5, <2>1, <2>2, TakesIsTakeName DEF Stored, Directory!DirNext
<1>6. ASSUME NEW id \in Ids, NEW row \in Row, Woken(id, row) PROVE Directory!DirNext
  <2>1. ~Active(id) /\ Life[id] = "shelved"
    BY <1>6, Mapped DEF Woken, Active, Expired
  <2>. QED BY <1>6, <2>1, TakesIsTakeName DEF Woken, Directory!DirNext
<1>7. ASSUME NEW id \in Ids, NEW row \in Row, Extended(id, row)
      PROVE  UNCHANGED <<Life, Name>>
  <2>1. ASSUME NEW j \in Ids PROVE Life'[j] = Life[j] /\ Name'[j] = Name[j]
    <3>1. CASE j = id
      <4>1. Active(j) /\ Active(j)' /\ entries'[j].word = entries[j].word
        BY <1>1, <1>7, <3>1 DEF Extended, Write, Active, Present
      <4>. QED BY <4>1, Mapped, MappedNext
    <3>2. CASE j # id
      BY <1>1, <1>7, <3>2, SameRow DEF Extended, Write
    <3>. QED BY <3>1, <3>2
  <2>. QED BY <1>2, <1>3, <2>1
<1>8. ASSUME NEW id \in Ids, Deleted(id) PROVE Directory!DirNext
  <2>1. Present(id) /\ ~Present(id)' /\ id \in minted'
    BY <1>1, <1>8 DEF Deleted, Write, Present
  <2>2. Life[id] \in {"named", "shelved"}
    <3>1. Active(id) \/ Expired(id)
      BY <1>1, <2>1 DEF Active, Expired, Present, Row
    <3>. QED BY <3>1, Mapped
  <2>3. Life'[id] = "forgotten" /\ Name'[id] = NoId
    BY <2>1, MappedNext
  <2>4. ASSUME NEW j \in Ids \ {id} PROVE Life'[j] = Life[j] /\ Name'[j] = Name[j]
    BY <1>1, <1>8, SameRow DEF Deleted, Write
  <2>5. Directory!Forget(id)
    BY <2>2, <2>3, <2>4 DEF Directory!Forget, Directory!Others
  <2>. QED BY <2>5 DEF Directory!DirNext
<1>9. ASSUME NEW batch \in SUBSET Ids, Swept(batch) PROVE Directory!DirNext
  <2>1. ASSUME NEW j \in batch
        PROVE  Life[j] = "named" /\ Life'[j] = "shelved" /\ Name'[j] = NoId
    <3>1. Active(j) /\ entries[j] \in Row
      BY <1>1, <1>9 DEF Swept, Due, Active, Present
    <3>2. entries'[j] = [entries[j] EXCEPT !.status = "expired"]
      BY <1>9 DEF Swept
    <3>3. entries'[j] \in Row /\ entries'[j].status = "expired"
      BY <3>1, <3>2 DEF Row
    <3>4. Expired(j)'
      BY <3>3 DEF Expired, Present
    <3>. QED BY <3>1, <3>4, Mapped, MappedNext
  <2>2. ASSUME NEW j \in Ids \ batch PROVE Life'[j] = Life[j] /\ Name'[j] = Name[j]
    BY <1>9, SameRow DEF Swept
  <2>3. {id \in Ids : Life'[id] # Life[id]} = batch
    BY <2>1, <2>2
  <2>4. Directory!Shelve
    BY <1>9, <2>1, <2>2, <2>3 DEF Swept, Directory!Shelve
  <2>. QED BY <2>4 DEF Directory!DirNext
<1>. QED BY <1>4, <1>5, <1>6, <1>7, <1>8, <1>9 DEF Effect, Growth

\* The table implements the directory: a word has one owner, changes hands only
\* after its owner expired or was deleted, and a deleted entry never returns,
\* for any number of entries, clients and words.
THEOREM StoreImplementsDirectory == Spec => ImplementsDirectory
<1>1. Init => Directory!DirInit
  BY DEF Init, Directory!DirInit, Life, Name, Active, Expired, Present
<1>2. DInv /\ [Next]_vars => [Directory!DirNext]_(Directory!dirVars)
  BY NextEffect, EffectIsDirectoryStep DEF DInv, Directory!dirVars
<1>. QED BY <1>1, <1>2, DInvariance, PTL DEF Spec, ImplementsDirectory, Directory!DirSpec
=============================================================================
