-------------------------- MODULE EntryStoreProofs --------------------------
(***************************************************************************)
(* Theorems about EntryStore for every value of its constants.              *)
(***************************************************************************)
EXTENDS EntryStore, TLAPS

(***************************************************************************)
(* The inductive invariant: types, and no two rows with one word and one    *)
(* status. The second part is what makes resolveWord's answer usable: a     *)
(* word without an active row can be taken without a conflict.              *)
(***************************************************************************)
IInv == TypeOK /\ UniqueWordStatus

USE IdsAssumption, WordsAssumption, TTLAssumption, LimitsAssumption, ShapeAssumption

-----------------------------------------------------------------------------
(* Lemmas about the operators *)

\* A suffix is made of digits.
LEMMA DecimalType ==
    ASSUME NEW i \in 1 .. MaxCollisionAttempts
    PROVE  Decimal(i) \in Seq(Digits)
<1>1. i \in 1 .. 999
  OBVIOUS
<1>2. CASE i < 10
  BY <1>1, <1>2 DEF Decimal, Digits
<1>3. CASE i >= 10 /\ i < 100
  <2>1. i \div 10 \in 0 .. 9 /\ i % 10 \in 0 .. 9
    BY <1>1, <1>3
  <2>2. Decimal(i) = <<i \div 10, i % 10>>
    BY <1>1, <1>3 DEF Decimal
  <2>. QED BY <2>1, <2>2 DEF Digits
<1>4. CASE i >= 100
  <2>1. i \div 100 \in 0 .. 9 /\ (i \div 10) % 10 \in 0 .. 9 /\ i % 10 \in 0 .. 9
    BY <1>1, <1>4
  <2>2. Decimal(i) = <<i \div 100, (i \div 10) % 10, i % 10>>
    BY <1>1, <1>4 DEF Decimal
  <2>. QED BY <2>1, <2>2 DEF Digits
<1>. QED BY <1>1, <1>2, <1>3, <1>4

\* Every word that resolveWord tries is a word (entry_service.go:366).
LEMMA CandidateType ==
    ASSUME NEW base \in Words, NEW i \in 1 .. MaxCollisionAttempts
    PROVE  Candidate(base, i) \in Words
<1>1. Decimal(i) \in Words
  BY DecimalType DEF Words
<1>. QED BY <1>1 DEF Candidate, Words

\* A validated ttl gives an expiration time or none.
LEMMA ExpiresAtType ==
    ASSUME TypeOK, NEW ttl \in TTLArgs, ValidTTL(ttl)
    PROVE  ExpiresAt(ttl) \in Nat \cup {Never}
BY DEF TypeOK, ValidTTL, ExpiresAt

\* A resolved word has no active row, so that writing it as an active word
\* conflicts with nothing.
LEMMA ResolvedWordIsFree ==
    ASSUME NEW base, NEW i \in ResolveWord(base), NEW id \in Ids
    PROVE  ~Conflict(id, Candidate(base, i), "active")
BY DEF ResolveWord, FreeAttempts, WordExistsActive, Conflict, Active

\* Writing one row that conflicts with no other keeps UniqueWordStatus.
LEMMA WriteKeepsUnique ==
    ASSUME TypeOK, UniqueWordStatus,
           NEW id \in Ids, NEW row \in Row,
           ~Conflict(id, row.word, row.status),
           entries' = [entries EXCEPT ![id] = row]
    PROVE  UniqueWordStatus'
BY DEF TypeOK, UniqueWordStatus, Conflict, Present

-----------------------------------------------------------------------------
(* Each operation keeps the invariant *)

\* An answer to a client is well typed.
LEMMA AcceptType ==
    ASSUME NEW op \in Ops, NEW id \in Ids, NEW w \in Words,
           NEW original \in Words,
           Accept(op, id, w, original)
    PROVE  reply' \in Answers
BY DEF Accept, Answers, Ops, Errors

\* A refusal leaves the table alone and is well typed.
LEMMA RefuseKeepsInv ==
    ASSUME IInv, NEW op \in Ops, NEW err \in Errors,
           Refuse(op, err), UNCHANGED now,
           deleting' \in [Clients -> Deletions]
    PROVE  IInv'
<1>1. reply' \in Answers
  <2>1. <<>> \in Words
    BY DEF Words
  <2>. QED BY <2>1 DEF Refuse, NoReply, Answers, Ops, Errors
<1>2. UniqueWordStatus'
  BY DEF IInv, Refuse, UniqueWordStatus, Present
<1>. QED BY <1>1, <1>2 DEF IInv, TypeOK, Refuse

\* The INSERT of store_entry and upload_file.
LEMMA StoreKeepsInv ==
    ASSUME IInv, NEW op \in Ops, NEW id \in Ids, NEW w \in Words,
           NEW type \in {"text", "file"}, NEW expires \in Nat \cup {Never},
           NEW original \in Words,
           Store(op, id, w, type, expires, original),
           UNCHANGED <<now, deleting>>
    PROVE  IInv'
<1>. DEFINE row == [word |-> w, type |-> type, status |-> "active", expires |-> expires]
<1>1. CASE Conflict(id, w, "active")
  <2>1. Refuse(op, "ErrUnique")
    BY <1>1 DEF Store
  <2>. QED BY <2>1, RefuseKeepsInv DEF IInv, TypeOK, Errors
<1>2. CASE ~Conflict(id, w, "active")
  <2>1. /\ entries' = [entries EXCEPT ![id] = row]
        /\ minted' = minted \cup {id}
        /\ Accept(op, id, w, original)
    BY <1>2 DEF Store
  <2>2. row \in Row
    BY DEF Row
  <2>3. TypeOK'
    BY <2>1, <2>2, AcceptType DEF IInv, TypeOK
  <2>4. UniqueWordStatus'
    <3>1. ~Conflict(id, row.word, row.status)
      BY <1>2
    <3>. QED BY <2>1, <2>2, <3>1, WriteKeepsUnique DEF IInv
  <2>. QED BY <2>3, <2>4 DEF IInv
<1>. QED BY <1>1, <1>2

\* The UPDATE of restore_entry and update_expiration.
LEMMA UpdateStatusKeepsInv ==
    ASSUME IInv, NEW op \in Ops, NEW id \in Ids, Present(id), NEW w \in Words,
           NEW expires \in Nat \cup {Never},
           NEW original \in Words,
           UpdateStatus(op, id, "active", w, expires, original),
           UNCHANGED <<now, deleting>>
    PROVE  IInv'
<1>. DEFINE row == [entries[id] EXCEPT !.status = "active", !.word = w, !.expires = expires]
<1>1. CASE Conflict(id, w, "active")
  <2>1. Refuse(op, "ErrUnique")
    BY <1>1 DEF UpdateStatus
  <2>. QED BY <2>1, RefuseKeepsInv DEF IInv, TypeOK, Errors
<1>2. CASE ~Conflict(id, w, "active")
  <2>1. entries[id] \in Row
    BY DEF IInv, TypeOK, Present
  <2>2. row \in Row /\ row.word = w /\ row.status = "active"
    BY <2>1 DEF Row
  <2>3. /\ entries' = [entries EXCEPT ![id] = row]
        /\ UNCHANGED minted
        /\ Accept(op, id, w, original)
    BY <1>2 DEF UpdateStatus
  <2>4. TypeOK'
    BY <2>2, <2>3, AcceptType DEF IInv, TypeOK
  <2>5. UniqueWordStatus'
    <3>1. ~Conflict(id, row.word, row.status)
      BY <1>2, <2>2
    <3>. QED BY <2>2, <2>3, <3>1, WriteKeepsUnique DEF IInv
  <2>. QED BY <2>4, <2>5 DEF IInv
<1>. QED BY <1>1, <1>2

\* DELETE: a row less cannot break uniqueness.
LEMMA DeleteKeepsInv ==
    ASSUME IInv, NEW id \in Ids, NEW w \in Words, Delete(id, w), UNCHANGED now,
           deleting' \in [Clients -> Deletions]
    PROVE  IInv'
<1>1. CASE ~Present(id)
  BY <1>1, RefuseKeepsInv DEF Delete, Ops, Errors
<1>2. CASE Present(id)
  <2>1. /\ entries' = [entries EXCEPT ![id] = NoRow]
        /\ UNCHANGED minted
        /\ Accept("delete_entry", id, w, <<>>)
    BY <1>2 DEF Delete
  <2>2. <<>> \in Words
    BY DEF Words
  <2>3. TypeOK'
    BY <2>1, <2>2, AcceptType DEF IInv, TypeOK, Ops
  <2>4. UniqueWordStatus'
    BY <2>1 DEF IInv, TypeOK, UniqueWordStatus, Present
  <2>. QED BY <2>3, <2>4 DEF IInv
<1>. QED BY <1>1, <1>2

\* MarkExpiredBatch: a batch without a conflict keeps (word, status) unique,
\* because the rows it moves had different words while they were active.
LEMMA SweepKeepsInv ==
    ASSUME IInv, Sweep
    PROVE  IInv'
<1>1. PICK batch \in Batches : MarkExpiredBatch(batch)
  BY DEF Sweep
<1>2. batch \subseteq {id \in Ids : Due(id)}
  BY DEF Batches
<1>3. UNCHANGED <<minted, now, deleting, reply>>
  BY DEF Sweep
<1>4. CASE BatchFails(batch)
  <2>1. UNCHANGED entries
    BY <1>1, <1>4 DEF MarkExpiredBatch
  <2>. QED BY <1>3, <2>1 DEF IInv, TypeOK, UniqueWordStatus, Present
<1>5. CASE ~BatchFails(batch)
  <2>1. entries' = [id \in Ids |->
            IF id \in batch THEN [entries[id] EXCEPT !.status = "expired"] ELSE entries[id]]
    BY <1>1, <1>5 DEF MarkExpiredBatch
  <2>2. ASSUME NEW id \in batch
        PROVE  /\ id \in Ids
               /\ entries[id] \in Row
               /\ entries[id].status = "active"
               /\ entries'[id] \in Row
               /\ entries'[id].word = entries[id].word
               /\ entries'[id].status = "expired"
    <3>1. id \in Ids /\ Present(id) /\ entries[id].status = "active"
      BY <1>2 DEF Due, Active
    <3>2. entries[id] \in Row
      BY <3>1 DEF IInv, TypeOK, Present
    <3>. QED BY <2>1, <3>1, <3>2 DEF Row
  <2>3. TypeOK'
    <3>1. ASSUME NEW id \in Ids
          PROVE  entries'[id] \in Row \cup {NoRow}
      <4>1. CASE id \in batch
        BY <2>2, <4>1
      <4>2. CASE id \notin batch
        <5>1. entries'[id] = entries[id]
          BY <2>1, <4>2
        <5>. QED BY <5>1 DEF IInv, TypeOK
      <4>. QED BY <4>1, <4>2
    <3>2. entries' \in [Ids -> Row \cup {NoRow}]
      BY <2>1, <3>1
    <3>. QED BY <1>3, <3>2 DEF IInv, TypeOK
  <2>4. UniqueWordStatus'
    <3>1. SUFFICES ASSUME NEW a \in Ids, NEW b \in Ids, Present(a)', Present(b)',
                          entries'[a].word = entries'[b].word,
                          entries'[a].status = entries'[b].status, a # b
                   PROVE  FALSE
      BY DEF UniqueWordStatus
    <3>2. Present(a) /\ Present(b) /\ entries[a].word = entries[b].word
      BY <2>1, <2>2, <3>1 DEF Present
    <3>3. CASE a \in batch /\ b \in batch
      BY <2>2, <3>1, <3>2, <3>3 DEF IInv, UniqueWordStatus
    <3>4. CASE a \in batch /\ b \notin batch
      <4>1. Conflict(a, entries[a].word, "expired")
        <5>1. entries'[b] = entries[b]
          BY <2>1, <3>1, <3>4
        <5>2. entries[b].word = entries[a].word /\ entries[b].status = "expired"
          BY <2>2, <3>1, <3>2, <3>4, <5>1
        <5>. QED BY <3>1, <3>2, <5>2 DEF Conflict
      <4>. QED BY <1>5, <3>4, <4>1 DEF BatchFails
    <3>5. CASE a \notin batch /\ b \in batch
      <4>1. Conflict(b, entries[b].word, "expired")
        <5>1. entries'[a] = entries[a]
          BY <2>1, <3>1, <3>5
        <5>2. entries[a].word = entries[b].word /\ entries[a].status = "expired"
          BY <2>2, <3>1, <3>2, <3>5, <5>1
        <5>. QED BY <3>1, <3>2, <5>2 DEF Conflict
      <4>. QED BY <1>5, <3>5, <4>1 DEF BatchFails
    <3>6. CASE a \notin batch /\ b \notin batch
      BY <2>1, <3>1, <3>2, <3>6 DEF IInv, UniqueWordStatus
    <3>. QED BY <3>3, <3>4, <3>5, <3>6
  <2>. QED BY <2>3, <2>4 DEF IInv
<1>. QED BY <1>4, <1>5

\* The transaction of store_entry.
LEMMA StoreTxKeepsInv ==
    ASSUME IInv, NEW op \in Ops, NEW base \in Words, NEW type \in {"text", "file"},
           NEW ttl \in TTLArgs, ValidTTL(ttl),
           StoreTx(op, base, type, ttl), UNCHANGED <<now, deleting>>
    PROVE  IInv'
<1>1. CASE Refuse(op, "ErrCollisionLimitExceeded")
  BY <1>1, RefuseKeepsInv DEF IInv, TypeOK, Errors
<1>2. CASE \E i \in ResolveWord(base), id \in Ids \ minted :
             Store(op, id, Candidate(base, i), type, ExpiresAt(ttl),
                   IF i > 1 THEN base ELSE <<>>)
  <2>1. PICK i \in ResolveWord(base), id \in Ids \ minted :
             Store(op, id, Candidate(base, i), type, ExpiresAt(ttl),
                   IF i > 1 THEN base ELSE <<>>)
    BY <1>2
  <2>2. Candidate(base, i) \in Words
    BY CandidateType DEF ResolveWord, FreeAttempts
  <2>3. ExpiresAt(ttl) \in Nat \cup {Never}
    BY ExpiresAtType DEF IInv
  <2>4. (IF i > 1 THEN base ELSE <<>>) \in Words
    BY DEF Words
  <2>. DEFINE w == Candidate(base, i)
              expires == ExpiresAt(ttl)
              original == IF i > 1 THEN base ELSE <<>>
  <2>5. Store(op, id, w, type, expires, original) /\ id \in Ids
    BY <2>1
  <2>6. w \in Words /\ expires \in Nat \cup {Never} /\ original \in Words
    BY <2>2, <2>3, <2>4
  <2>. HIDE DEF w, expires, original
  <2>. QED BY <2>5, <2>6, StoreKeepsInv
<1>. QED BY <1>1, <1>2 DEF StoreTx

\* The reactivation shared by restore_entry and update_expiration.
LEMMA ReactivateKeepsInv ==
    ASSUME IInv, NEW op \in Ops, NEW id \in Ids, Present(id),
           NEW i \in ResolveWord(entries[id].word),
           NEW ttl \in TTLArgs, ValidTTL(ttl), NEW original \in Words,
           UpdateStatus(op, id, "active", Candidate(entries[id].word, i),
                        ExpiresAt(ttl), original),
           UNCHANGED <<now, deleting>>
    PROVE  IInv'
<1>1. entries[id].word \in Words
  BY DEF IInv, TypeOK, Present, Row
<1>2. Candidate(entries[id].word, i) \in Words
  BY <1>1, CandidateType DEF ResolveWord, FreeAttempts
<1>3. ExpiresAt(ttl) \in Nat \cup {Never}
  BY ExpiresAtType DEF IInv
<1>. QED BY <1>2, <1>3, UpdateStatusKeepsInv

LEMMA RestoreKeepsInv ==
    ASSUME IInv, NEW ref \in Refs, NEW ttl \in TTLArgs, RestoreEntry(ref, ttl)
    PROVE  IInv'
<1>1. UNCHANGED <<now, deleting>>
  BY DEF RestoreEntry
<1>2. CASE \E err \in Errors : Refuse("restore_entry", err)
  <2>1. PICK err \in Errors : Refuse("restore_entry", err)
    BY <1>2
  <2>2. "restore_entry" \in Ops
    BY DEF Ops
  <2>3. deleting' \in [Clients -> Deletions]
    BY <1>1 DEF IInv, TypeOK
  <2>. QED BY <1>1, <2>1, <2>2, <2>3, RefuseKeepsInv
<1>3. CASE ~\E err \in Errors : Refuse("restore_entry", err)
  <2>1. ref \in Ids /\ ValidTTL(ttl) /\ Present(ref) /\ RestoreTx(ref, ttl)
    BY <1>3 DEF RestoreEntry, Errors
  <2>2. PICK i \in ResolveWord(entries[ref].word) :
          UpdateStatus("restore_entry", ref, "active", Candidate(entries[ref].word, i),
                       ExpiresAt(ttl),
                       IF i > 1 THEN Candidate(entries[ref].word, i) ELSE <<>>)
    BY <1>3, <2>1 DEF RestoreTx, Errors
  <2>3. Candidate(entries[ref].word, i) \in Words /\ <<>> \in Words
    <3>1. entries[ref].word \in Words
      BY <2>1 DEF IInv, TypeOK, Present, Row
    <3>2. i \in 1 .. MaxCollisionAttempts
      BY DEF ResolveWord, FreeAttempts
    <3>3. Candidate(entries[ref].word, i) \in Words
      BY <3>1, <3>2, CandidateType
    <3>. QED BY <3>3 DEF Words
  <2>. QED BY <1>1, <2>1, <2>2, <2>3, ReactivateKeepsInv DEF Ops
<1>. QED BY <1>2, <1>3

LEMMA UpdateExpirationKeepsInv ==
    ASSUME IInv, NEW ref \in Refs, NEW ttl \in TTLArgs, UpdateExpiration(ref, ttl)
    PROVE  IInv'
<1>1. UNCHANGED <<now, deleting>>
  BY DEF UpdateExpiration
<1>2. CASE \E err \in Errors : Refuse("update_expiration", err)
  <2>1. PICK err \in Errors : Refuse("update_expiration", err)
    BY <1>2
  <2>2. "update_expiration" \in Ops
    BY DEF Ops
  <2>3. deleting' \in [Clients -> Deletions]
    BY <1>1 DEF IInv, TypeOK
  <2>. QED BY <1>1, <2>1, <2>2, <2>3, RefuseKeepsInv
<1>3. CASE ~\E err \in Errors : Refuse("update_expiration", err)
  <2>1. ValidTTL(ttl) /\ \E id \in Lookup(ref) : UpdateExpirationTx(id, ttl)
    BY <1>3 DEF UpdateExpiration, Errors
  <2>2. PICK id \in Lookup(ref) : UpdateExpirationTx(id, ttl)
    BY <2>1
  <2>3. id \in Ids /\ Present(id)
    BY <2>2 DEF Lookup, GetByWord, Active, Expired
  <2>4. entries[id].word \in Words /\ <<>> \in Words
    BY <2>3 DEF IInv, TypeOK, Present, Row, Words
  <2>5. ExpiresAt(ttl) \in Nat \cup {Never}
    BY <2>1, ExpiresAtType DEF IInv
  <2>6. CASE UpdateStatus("update_expiration", id, "active", entries[id].word,
                          ExpiresAt(ttl), <<>>)
    BY <1>1, <2>3, <2>4, <2>5, <2>6, UpdateStatusKeepsInv DEF Ops
  <2>7. CASE \E i \in ResolveWord(entries[id].word) :
               UpdateStatus("update_expiration", id, "active", Candidate(entries[id].word, i),
                            ExpiresAt(ttl), IF i > 1 THEN entries[id].word ELSE <<>>)
    <3>1. PICK i \in ResolveWord(entries[id].word) :
               UpdateStatus("update_expiration", id, "active", Candidate(entries[id].word, i),
                            ExpiresAt(ttl), IF i > 1 THEN entries[id].word ELSE <<>>)
      BY <2>7
    <3>. QED BY <1>1, <2>1, <2>3, <2>4, <3>1, ReactivateKeepsInv DEF Ops
  <2>. QED BY <1>3, <2>2, <2>6, <2>7 DEF UpdateExpirationTx, Errors
<1>. QED BY <1>2, <1>3

LEMMA DeleteEntryKeepsInv ==
    ASSUME IInv, NEW c \in Clients, NEW ref \in Refs, DeleteEntry(c, ref)
    PROVE  IInv'
<1>1. UNCHANGED now
  BY DEF DeleteEntry
<1>2. CASE ref \in Ids /\ Delete(ref, <<>>) /\ UNCHANGED deleting
  <2>1. deleting' \in [Clients -> Deletions] /\ <<>> \in Words
    BY <1>2 DEF IInv, TypeOK, Words
  <2>. QED BY <1>1, <1>2, <2>1, DeleteKeepsInv
<1>3. CASE \E err \in Errors : Refuse("delete_entry", err) /\ UNCHANGED deleting
  <2>1. PICK err \in Errors : Refuse("delete_entry", err) /\ UNCHANGED deleting
    BY <1>3
  <2>2. deleting' \in [Clients -> Deletions] /\ "delete_entry" \in Ops
    BY <2>1 DEF IInv, TypeOK, Ops
  <2>. QED BY <1>1, <2>1, <2>2, RefuseKeepsInv
<1>4. CASE /\ ref \notin Ids
           /\ \E id \in GetByWord(ref, FALSE) :
                 deleting' = [deleting EXCEPT ![c] = [id |-> id, word |-> ref]]
           /\ UNCHANGED <<entries, minted, reply>>
  <2>1. PICK id \in Ids : deleting' = [deleting EXCEPT ![c] = [id |-> id, word |-> ref]]
    BY <1>4 DEF GetByWord
  <2>2. ref \in Words
    BY <1>4 DEF Refs
  <2>3. deleting' \in [Clients -> Deletions]
    BY <2>1, <2>2 DEF IInv, TypeOK, Deletions
  <2>. QED BY <1>1, <1>4, <2>3 DEF IInv, TypeOK, UniqueWordStatus, Present
<1>. QED BY <1>2, <1>3, <1>4 DEF DeleteEntry, Errors

LEMMA DeleteFoundKeepsInv ==
    ASSUME IInv, NEW c \in Clients, DeleteFound(c)
    PROVE  IInv'
<1>. DEFINE d == deleting[c]
<1>1. Delete(d.id, d.word) /\ UNCHANGED now /\ deleting' = [deleting EXCEPT ![c] = NoDelete]
  BY DEF DeleteFound
<1>2. d.id \in Ids /\ d.word \in Words
  BY DEF IInv, TypeOK, DeleteFound, Deletions
<1>3. deleting' \in [Clients -> Deletions]
  BY <1>1 DEF IInv, TypeOK, Deletions
<1>. QED BY <1>1, <1>2, <1>3, DeleteKeepsInv

-----------------------------------------------------------------------------
(* The theorems *)

LEMMA InitInv == Init => IInv
<1>. SUFFICES ASSUME Init PROVE IInv
  OBVIOUS
<1>1. NoReply \in Answers
  <2>1. <<>> \in Words
    BY DEF Words
  <2>. QED BY <2>1 DEF NoReply, Answers, Ops, Errors
<1>2. TypeOK
  BY <1>1 DEF Init, TypeOK, Deletions
<1>3. UniqueWordStatus
  BY DEF Init, UniqueWordStatus, Present
<1>. QED BY <1>2, <1>3 DEF IInv

LEMMA NextKeepsInv == IInv /\ [Next]_vars => IInv'
<1>. SUFFICES ASSUME IInv, [Next]_vars PROVE IInv'
  OBVIOUS
<1>1. ASSUME NEW w \in RequestWords, NEW p, NEW ttl \in TTLArgs, StoreEntry(w, p, ttl)
      PROVE  IInv'
  <2>1. UNCHANGED <<now, deleting>>
    BY <1>1 DEF StoreEntry
  <2>2. CASE StoreRefusal(w, p, ttl) # "none"
    <3>1. StoreRefusal(w, p, ttl) \in Errors
      BY DEF StoreRefusal, Errors
    <3>. QED BY <1>1, <2>1, <2>2, <3>1, RefuseKeepsInv DEF StoreEntry, IInv, TypeOK, Ops
  <2>3. CASE StoreRefusal(w, p, ttl) = "none"
    <3>1. ValidTTL(ttl)
      BY <2>3 DEF StoreRefusal
    <3>. QED BY <1>1, <2>1, <2>3, <3>1, StoreTxKeepsInv DEF StoreEntry, Ops
  <2>. QED BY <2>2, <2>3
<1>2. ASSUME NEW ref \in Refs, NEW ttl \in TTLArgs, RestoreEntry(ref, ttl)
      PROVE  IInv'
  BY <1>2, RestoreKeepsInv
<1>3. ASSUME NEW ref \in Refs, NEW ttl \in TTLArgs, UpdateExpiration(ref, ttl)
      PROVE  IInv'
  BY <1>3, UpdateExpirationKeepsInv
<1>4. ASSUME NEW c \in Clients, NEW ref \in Refs, DeleteEntry(c, ref)
      PROVE  IInv'
  BY <1>4, DeleteEntryKeepsInv
<1>5. ASSUME NEW c \in Clients, DeleteFound(c)
      PROVE  IInv'
  BY <1>5, DeleteFoundKeepsInv
<1>6. CASE Sweep
  BY <1>6, SweepKeepsInv
<1>7. CASE Tick
  BY <1>7 DEF Tick, IInv, TypeOK, UniqueWordStatus, Present
<1>8. CASE Crash
  BY <1>8 DEF Crash, IInv, TypeOK, UniqueWordStatus, Present, Deletions
<1>9. CASE UNCHANGED vars
  BY <1>9 DEF vars, IInv, TypeOK, UniqueWordStatus, Present
<1>. QED BY <1>1, <1>2, <1>3, <1>4, <1>5, <1>6, <1>7, <1>8, <1>9 DEF Next

\* The invariant holds in every reachable state, whatever the number of
\* entries, clients and words.
THEOREM Invariance == Spec => []IInv
BY InitInv, NextKeepsInv, PTL DEF Spec

\* Every reachable state of the store is well typed; in particular a suffixed
\* word is again a word.
THEOREM TypeCorrect == Spec => []TypeOK
<1>1. IInv => TypeOK
  BY DEF IInv
<1>. QED BY <1>1, Invariance, PTL

\* No two rows of the table ever share a word and a status (001_init.sql:10):
\* the constraint of the schema and the sweep that respects it.
THEOREM UniqueWords == Spec => []UniqueWordStatus
<1>1. IInv => UniqueWordStatus
  BY DEF IInv
<1>. QED BY <1>1, Invariance, PTL

-----------------------------------------------------------------------------
(* No client sees the unique constraint *)

\* The error in an answer.
LEMMA AnswerError ==
    /\ \A op, err : Refuse(op, err) => reply'.err = err
    /\ \A op, id, w, original : Accept(op, id, w, original) => reply'.err = "none"
<1>1. ASSUME NEW op, NEW err, Refuse(op, err) PROVE reply'.err = err
  BY <1>1 DEF Refuse, NoReply
<1>2. ASSUME NEW op, NEW id, NEW w, NEW original, Accept(op, id, w, original)
      PROVE  reply'.err = "none"
  BY <1>2 DEF Accept
<1>. QED BY <1>1, <1>2

\* A step of the service answers with the constraint's error only if it wrote
\* into a conflict; no step does.
LEMMA NextNoUniqueError == IInv /\ NoUniqueError /\ [Next]_vars => NoUniqueError'
<1>. SUFFICES ASSUME IInv, NoUniqueError, [Next]_vars
              PROVE  reply'.err # "ErrUnique"
  BY DEF NoUniqueError
<1>1. ASSUME NEW w \in RequestWords, NEW p, NEW ttl \in TTLArgs, StoreEntry(w, p, ttl)
      PROVE  reply'.err # "ErrUnique"
  <2>1. CASE StoreRefusal(w, p, ttl) # "none"
    BY <1>1, <2>1, AnswerError DEF StoreEntry, StoreRefusal
  <2>2. CASE StoreRefusal(w, p, ttl) = "none"
    <3>1. CASE Refuse("store_entry", "ErrCollisionLimitExceeded")
      BY <3>1, AnswerError
    <3>2. CASE \E i \in ResolveWord(w), id \in Ids \ minted :
                 Store("store_entry", id, Candidate(w, i), "text", ExpiresAt(ttl),
                       IF i > 1 THEN w ELSE <<>>)
      <4>1. PICK i \in ResolveWord(w), id \in Ids \ minted :
                 Store("store_entry", id, Candidate(w, i), "text", ExpiresAt(ttl),
                       IF i > 1 THEN w ELSE <<>>)
        BY <3>2
      <4>2. ~Conflict(id, Candidate(w, i), "active")
        BY ResolvedWordIsFree
      <4>. QED BY <4>1, <4>2, AnswerError DEF Store
    <3>. QED BY <1>1, <2>2, <3>1, <3>2 DEF StoreEntry, StoreTx
  <2>. QED BY <2>1, <2>2
<1>2. ASSUME NEW ref \in Refs, NEW ttl \in TTLArgs, RestoreEntry(ref, ttl)
      PROVE  reply'.err # "ErrUnique"
  <2>1. CASE ref \in Ids /\ RestoreTx(ref, ttl)
    <3>. DEFINE base == entries[ref].word
    <3>1. ASSUME NEW i \in ResolveWord(base), NEW w, NEW original,
                 w = Candidate(base, i),
                 UpdateStatus("restore_entry", ref, "active", w, ExpiresAt(ttl), original)
          PROVE  reply'.err # "ErrUnique"
      <4>1. ~Conflict(ref, w, "active")
        BY <2>1, <3>1, ResolvedWordIsFree
      <4>. QED BY <3>1, <4>1, AnswerError DEF UpdateStatus
    <3>. QED BY <2>1, <3>1, AnswerError DEF RestoreTx
  <2>. QED BY <1>2, <2>1, AnswerError DEF RestoreEntry
<1>3. ASSUME NEW ref \in Refs, NEW ttl \in TTLArgs, UpdateExpiration(ref, ttl)
      PROVE  reply'.err # "ErrUnique"
  <2>1. ASSUME NEW id \in Lookup(ref), UpdateExpirationTx(id, ttl)
        PROVE  reply'.err # "ErrUnique"
    <3>. DEFINE base == entries[id].word
    <3>1. id \in Ids /\ Present(id)
      BY DEF Lookup, GetByWord, Active, Expired
    <3>2. ASSUME NEW i \in ResolveWord(base), NEW original,
                 UpdateStatus("update_expiration", id, "active", Candidate(base, i),
                              ExpiresAt(ttl), original)
          PROVE  reply'.err # "ErrUnique"
      <4>1. ~Conflict(id, Candidate(base, i), "active")
        BY <3>1, ResolvedWordIsFree
      <4>. QED BY <3>2, <4>1, AnswerError DEF UpdateStatus
    <3>3. CASE /\ Active(id)
               /\ UpdateStatus("update_expiration", id, "active", base, ExpiresAt(ttl), <<>>)
      \* An active row is alone with its word among the active rows already.
      <4>1. ~Conflict(id, base, "active")
        BY <3>1, <3>3 DEF Conflict, IInv, UniqueWordStatus, Active
      <4>. QED BY <3>3, <4>1, AnswerError DEF UpdateStatus
    <3>. QED BY <2>1, <3>2, <3>3, AnswerError DEF UpdateExpirationTx
  <2>. QED BY <1>3, <2>1, AnswerError DEF UpdateExpiration
<1>4. ASSUME NEW c \in Clients, NEW ref \in Refs, DeleteEntry(c, ref)
      PROVE  reply'.err # "ErrUnique"
  BY <1>4, AnswerError DEF DeleteEntry, Delete, NoUniqueError
<1>5. ASSUME NEW c \in Clients, DeleteFound(c)
      PROVE  reply'.err # "ErrUnique"
  BY <1>5, AnswerError DEF DeleteFound, Delete
<1>6. CASE Sweep \/ Tick \/ Crash \/ UNCHANGED vars
  BY <1>6 DEF Sweep, Tick, Crash, vars, NoUniqueError
<1>. QED BY <1>1, <1>2, <1>3, <1>4, <1>5, <1>6 DEF Next

\* On SQLite no store, restore or update_expiration ever fails on the unique
\* constraint (entry_service_concurrent_test.go:29-33): the collision is always
\* resolved before the write, whatever the interleaving of the calls.
THEOREM CollisionsAreResolved == Spec => []NoUniqueError
<1>1. Init => NoUniqueError
  BY DEF Init, NoReply, NoUniqueError
<1>. QED BY <1>1, NextNoUniqueError, Invariance, PTL DEF Spec

-----------------------------------------------------------------------------
(* Answers tell the truth *)

Resolving == {"store_entry", "restore_entry", "update_expiration"}

\* The entry of an accepted answer is active and carries the word of the answer.
Written == reply.id \in Ids /\ Active(reply.id) /\ entries[reply.id].word = reply.word

\* What an answer says of the step that gave it.
Truthful ==
    /\ reply'.err = "none" /\ reply'.op \in Resolving => Written'
    /\ reply'.err = "none" /\ reply'.op = "delete_entry"
       => Present(reply'.id) /\ (~Present(reply.id))'

\* The word of an active row leads to this row and to no other.
LEMMA ActiveRowResolves ==
    ASSUME UniqueWordStatus, NEW id \in Ids, Active(id)
    PROVE  GetByWord(entries[id].word, TRUE) = {id}
<1>. DEFINE live == {j \in Ids : Active(j) /\ entries[j].word = entries[id].word}
<1>1. id \in live
  OBVIOUS
<1>2. ASSUME NEW j \in live PROVE j = id
  BY <1>2 DEF UniqueWordStatus, Active
<1>3. live = {id}
  BY <1>1, <1>2
<1>. QED BY <1>3 DEF GetByWord

LEMMA RefusalIsTruthful ==
    ASSUME NEW op, NEW err, err # "none", Refuse(op, err)
    PROVE  Truthful
BY DEF Refuse, NoReply, Truthful

\* A row is written under the word of the answer.
LEMMA WriteIsTruthful ==
    ASSUME IInv, NEW op \in Ops \ {"delete_entry"}, NEW id \in Ids, NEW row \in Row,
           row.status = "active", NEW original,
           entries' = [entries EXCEPT ![id] = row],
           Accept(op, id, row.word, original)
    PROVE  Truthful
<1>1. /\ reply'.op = op /\ reply'.id = id /\ reply'.word = row.word
      /\ reply'.original = original
  BY DEF Accept
<1>2. entries'[id] = row /\ row # NoRow
  BY DEF IInv, TypeOK
<1>3. Written'
  BY <1>1, <1>2 DEF Written, Active, Present
<1>. QED BY <1>1, <1>3 DEF Truthful

LEMMA StoreIsTruthful ==
    ASSUME IInv, NEW op \in {"store_entry", "upload_file"}, NEW base \in Words,
           NEW i \in ResolveWord(base), NEW id \in Ids, NEW type \in {"text", "file"},
           NEW expires \in Nat \cup {Never},
           Store(op, id, Candidate(base, i), type, expires, IF i > 1 THEN base ELSE <<>>)
    PROVE  Truthful
<1>. DEFINE w == Candidate(base, i)
            original == IF i > 1 THEN base ELSE <<>>
            row == [word |-> w, type |-> type, status |-> "active", expires |-> expires]
<1>1. ~Conflict(id, w, "active")
  BY ResolvedWordIsFree
<1>2. entries' = [entries EXCEPT ![id] = row] /\ Accept(op, id, w, original)
  BY <1>1 DEF Store
<1>3. w \in Words
  BY CandidateType DEF ResolveWord, FreeAttempts
<1>. HIDE DEF w, original
<1>4. row \in Row /\ row.word = w /\ row.status = "active"
  BY <1>3 DEF Row
<1>5. op \in Ops \ {"delete_entry"}
  BY DEF Ops
<1>. HIDE DEF row
<1>. QED BY <1>2, <1>4, <1>5, WriteIsTruthful

LEMMA UpdateIsTruthful ==
    ASSUME IInv, NEW op \in Resolving, NEW id \in Ids, Present(id), NEW w \in Words,
           NEW expires \in Nat \cup {Never}, NEW original,
           UpdateStatus(op, id, "active", w, expires, original)
    PROVE  Truthful
<1>. DEFINE row == [entries[id] EXCEPT !.status = "active", !.word = w, !.expires = expires]
<1>1. CASE Refuse(op, "ErrUnique")
  BY <1>1, RefusalIsTruthful
<1>2. CASE ~Refuse(op, "ErrUnique")
  <2>1. entries' = [entries EXCEPT ![id] = row] /\ Accept(op, id, w, original)
    BY <1>2 DEF UpdateStatus
  <2>2. entries[id] \in Row
    BY DEF IInv, TypeOK, Present
  <2>3. row \in Row /\ row.word = w /\ row.status = "active"
    BY <2>2 DEF Row
  <2>4. op \in Ops \ {"delete_entry"}
    BY DEF Resolving, Ops
  <2>. HIDE DEF row
  <2>. QED BY <2>1, <2>3, <2>4, WriteIsTruthful
<1>. QED BY <1>1, <1>2

\* The UPDATE of an expired entry under a resolved word.
LEMMA ReactivateIsTruthful ==
    ASSUME IInv, NEW op \in {"restore_entry", "update_expiration"}, NEW id \in Ids, Present(id),
           NEW i \in ResolveWord(entries[id].word), NEW ttl \in TTLArgs, ValidTTL(ttl),
           NEW original,
           UpdateStatus(op, id, "active", Candidate(entries[id].word, i),
                        ExpiresAt(ttl), original)
    PROVE  Truthful
<1>. DEFINE base == entries[id].word
            w == Candidate(base, i)
            expires == ExpiresAt(ttl)
<1>1. base \in Words
  BY DEF IInv, TypeOK, Present, Row
<1>2. w \in Words
  BY <1>1, CandidateType DEF ResolveWord, FreeAttempts
<1>3. expires \in Nat \cup {Never}
  BY ExpiresAtType DEF IInv
<1>4. op \in Resolving /\ UpdateStatus(op, id, "active", w, expires, original)
  BY DEF Resolving
<1>. HIDE DEF w, expires
<1>. QED BY <1>2, <1>3, <1>4, UpdateIsTruthful

LEMMA DeleteIsTruthful ==
    ASSUME IInv, NEW id \in Ids, NEW w, Delete(id, w)
    PROVE  Truthful
<1>1. CASE Present(id)
  <2>1. entries' = [entries EXCEPT ![id] = NoRow] /\ Accept("delete_entry", id, w, <<>>)
    BY <1>1 DEF Delete
  <2>2. /\ reply'.op = "delete_entry" /\ reply'.id = id /\ reply'.original = <<>>
        /\ entries'[id] = NoRow
    BY <2>1 DEF Accept, IInv, TypeOK
  <2>. QED BY <1>1, <2>2 DEF Truthful, Present, Resolving
<1>2. CASE ~Present(id)
  BY <1>2, RefusalIsTruthful DEF Delete
<1>. QED BY <1>1, <1>2

LEMMA NextIsTruthful == IInv /\ [Next]_vars => UNCHANGED reply \/ Truthful
<1>. SUFFICES ASSUME IInv, [Next]_vars PROVE UNCHANGED reply \/ Truthful
  OBVIOUS
<1>1. ASSUME NEW w \in RequestWords, NEW p, NEW ttl \in TTLArgs, StoreEntry(w, p, ttl)
      PROVE  Truthful
  <2>1. CASE StoreRefusal(w, p, ttl) # "none"
    BY <1>1, <2>1, RefusalIsTruthful DEF StoreEntry
  <2>2. CASE StoreRefusal(w, p, ttl) = "none"
    <3>1. ValidTTL(ttl) /\ StoreTx("store_entry", w, "text", ttl)
      BY <1>1, <2>2 DEF StoreEntry, StoreRefusal
    <3>2. CASE Refuse("store_entry", "ErrCollisionLimitExceeded")
      BY <3>2, RefusalIsTruthful
    <3>3. CASE ~Refuse("store_entry", "ErrCollisionLimitExceeded")
      <4>1. PICK i \in ResolveWord(w), id \in Ids \ minted :
                 Store("store_entry", id, Candidate(w, i), "text", ExpiresAt(ttl),
                       IF i > 1 THEN w ELSE <<>>)
        BY <3>1, <3>3 DEF StoreTx
      <4>2. ExpiresAt(ttl) \in Nat \cup {Never} /\ w \in Words
        BY <3>1, ExpiresAtType DEF IInv
      <4>. QED BY <4>1, <4>2, StoreIsTruthful
    <3>. QED BY <3>2, <3>3
  <2>. QED BY <2>1, <2>2
<1>2. ASSUME NEW ref \in Refs, NEW ttl \in TTLArgs, RestoreEntry(ref, ttl)
      PROVE  Truthful
  <2>1. CASE \E err \in Errors \ {"none"} : Refuse("restore_entry", err)
    BY <2>1, RefusalIsTruthful
  <2>2. CASE ~\E err \in Errors \ {"none"} : Refuse("restore_entry", err)
    <3>1. ref \in Ids /\ ValidTTL(ttl) /\ Present(ref) /\ RestoreTx(ref, ttl)
      BY <1>2, <2>2 DEF RestoreEntry, Errors
    <3>2. PICK i \in ResolveWord(entries[ref].word) :
            UpdateStatus("restore_entry", ref, "active", Candidate(entries[ref].word, i),
                         ExpiresAt(ttl),
                         IF i > 1 THEN Candidate(entries[ref].word, i) ELSE <<>>)
      BY <2>2, <3>1 DEF RestoreTx, Errors
    <3>. QED BY <3>1, <3>2, ReactivateIsTruthful
  <2>. QED BY <2>1, <2>2
<1>3. ASSUME NEW ref \in Refs, NEW ttl \in TTLArgs, UpdateExpiration(ref, ttl)
      PROVE  Truthful
  <2>1. CASE \E err \in Errors \ {"none"} : Refuse("update_expiration", err)
    BY <2>1, RefusalIsTruthful
  <2>2. CASE ~\E err \in Errors \ {"none"} : Refuse("update_expiration", err)
    <3>1. ValidTTL(ttl) /\ \E id \in Lookup(ref) : UpdateExpirationTx(id, ttl)
      BY <1>3, <2>2 DEF UpdateExpiration, Errors
    <3>2. PICK id \in Lookup(ref) : UpdateExpirationTx(id, ttl)
      BY <3>1
    <3>3. id \in Ids /\ Present(id)
      BY <3>2 DEF Lookup, GetByWord, Active, Expired
    <3>4. CASE UpdateStatus("update_expiration", id, "active", entries[id].word,
                            ExpiresAt(ttl), <<>>)
      <4>1. entries[id].word \in Words
        BY <3>3 DEF IInv, TypeOK, Present, Row
      <4>2. ExpiresAt(ttl) \in Nat \cup {Never}
        BY <3>1, ExpiresAtType DEF IInv
      <4>3. "update_expiration" \in Resolving
        BY DEF Resolving
      <4>. QED BY <3>3, <3>4, <4>1, <4>2, <4>3, UpdateIsTruthful
    <3>5. CASE \E i \in ResolveWord(entries[id].word) :
                 UpdateStatus("update_expiration", id, "active", Candidate(entries[id].word, i),
                              ExpiresAt(ttl), IF i > 1 THEN entries[id].word ELSE <<>>)
      <4>1. PICK i \in ResolveWord(entries[id].word) :
                 UpdateStatus("update_expiration", id, "active", Candidate(entries[id].word, i),
                              ExpiresAt(ttl), IF i > 1 THEN entries[id].word ELSE <<>>)
        BY <3>5
      <4>. QED BY <3>1, <3>3, <4>1, ReactivateIsTruthful
    <3>. QED BY <2>2, <3>2, <3>4, <3>5 DEF UpdateExpirationTx, Errors
  <2>. QED BY <2>1, <2>2
<1>4. ASSUME NEW c \in Clients, NEW ref \in Refs, DeleteEntry(c, ref)
      PROVE  UNCHANGED reply \/ Truthful
  <2>1. CASE ref \in Ids /\ Delete(ref, <<>>)
    BY <2>1, DeleteIsTruthful
  <2>. QED BY <1>4, <2>1, RefusalIsTruthful DEF DeleteEntry
<1>5. ASSUME NEW c \in Clients, DeleteFound(c)
      PROVE  Truthful
  <2>1. deleting[c].id \in Ids
    BY <1>5 DEF IInv, TypeOK, DeleteFound, Deletions
  <2>. QED BY <1>5, <2>1, DeleteIsTruthful DEF DeleteFound
<1>6. CASE Sweep \/ Tick \/ Crash \/ UNCHANGED vars
  BY <1>6 DEF Sweep, Tick, Crash, vars
<1>. QED BY <1>1, <1>2, <1>3, <1>4, <1>5, <1>6 DEF Next

\* The word in an answer of store, restore and update_expiration leads to the
\* entry and to no other at that moment, however many entries, aliasing words and
\* concurrent calls there are (entry_service.go:70-123, 226-354).
THEOREM AnswersResolve == Spec => AnswerResolves
<1>1. IInv /\ Written => GetByWord(reply.word, TRUE) = {reply.id}
  BY ActiveRowResolves DEF IInv, Written
<1>2. (IInv /\ Written => GetByWord(reply.word, TRUE) = {reply.id})'
  BY <1>1, PTL
<1>3. IInv /\ IInv' /\ [Next]_vars =>
        [/\ reply' # reply
         /\ reply'.err = "none"
         /\ reply'.op \in {"store_entry", "restore_entry", "update_expiration"}
         => (GetByWord(reply.word, TRUE) = {reply.id})']_vars
  BY <1>2, NextIsTruthful DEF Truthful, Resolving
<1>. QED BY <1>3, Invariance, PTL DEF Spec, AnswerResolves

\* Of any number of deletes that race for one entry only one succeeds: the row was
\* there before and is not afterwards (entry_service.go:337-354, sqlite.go:276-289).
THEOREM DeletesHappenOnce == Spec => DeletedOnce
<1>1. IInv /\ [Next]_vars =>
        [/\ reply' # reply
         /\ reply'.err = "none"
         /\ reply'.op = "delete_entry"
         => Present(reply'.id) /\ (~Present(reply.id))']_vars
  BY NextIsTruthful DEF Truthful
<1>. QED BY <1>1, Invariance, PTL DEF Spec, DeletedOnce

-----------------------------------------------------------------------------
(* Collisions are reported *)

\* There is a suffix exactly when the word itself is somebody's
\* (entry_service.go:356-376).
LEMMA SuffixMeansTaken ==
    ASSUME NEW base, NEW i \in ResolveWord(base)
    PROVE  /\ i \in 1 .. MaxCollisionAttempts
           /\ i > 1 <=> WordExistsActive(base)
<1>1. i \in 1 .. MaxCollisionAttempts /\ 1 \in 1 .. MaxCollisionAttempts
  BY DEF ResolveWord, FreeAttempts
<1>2. Candidate(base, 1) = base
  BY DEF Candidate
<1>3. CASE i > 1
  <2>1. 1 \notin FreeAttempts(base)
    BY <1>1, <1>3 DEF ResolveWord
  <2>. QED BY <1>1, <1>2, <1>3, <2>1 DEF FreeAttempts
<1>4. CASE i = 1
  BY <1>1, <1>2, <1>4 DEF ResolveWord, FreeAttempts
<1>. QED BY <1>1, <1>3, <1>4

\* An answer with a resolved word tells of a collision where there was one.
LEMMA ResolvedTells ==
    ASSUME NEW base, NEW i \in ResolveWord(base), NEW op, NEW id,
           Accept(op, id, Candidate(base, i), IF i > 1 THEN base ELSE <<>>)
    PROVE  Tells(base, WordExistsActive(base))
<1>1. reply'.word = Candidate(base, i) /\ reply'.original = IF i > 1 THEN base ELSE <<>>
  BY DEF Accept
<1>2. i \in 1 .. MaxCollisionAttempts /\ (i > 1 <=> WordExistsActive(base))
  BY SuffixMeansTaken
<1>3. CASE i > 1
  BY <1>1, <1>2, <1>3 DEF Tells
<1>4. CASE i = 1
  <2>1. Candidate(base, i) = base
    BY <1>4 DEF Candidate
  <2>. QED BY <1>1, <1>2, <1>4, <2>1 DEF Tells
<1>. QED BY <1>2, <1>3, <1>4

LEMMA StoreTells ==
    ASSUME NEW w, NEW ttl, StoreEntry(w, "fits", ttl), reply'.err = "none"
    PROVE  Tells(w, WordExistsActive(w))
<1>1. StoreTx("store_entry", w, "text", ttl)
  BY AnswerError DEF StoreEntry
<1>2. PICK i \in ResolveWord(w), id \in Ids \ minted :
           Store("store_entry", id, Candidate(w, i), "text", ExpiresAt(ttl),
                 IF i > 1 THEN w ELSE <<>>)
  BY <1>1, AnswerError DEF StoreTx
<1>3. Accept("store_entry", id, Candidate(w, i), IF i > 1 THEN w ELSE <<>>)
  BY <1>2, AnswerError DEF Store
<1>. QED BY <1>3, ResolvedTells

\* An UPDATE that was not refused met no conflict.
LEMMA UpdateAccepted ==
    ASSUME NEW op, NEW id, NEW w, NEW expires, NEW original,
           UpdateStatus(op, id, "active", w, expires, original), reply'.err = "none"
    PROVE  ~Conflict(id, w, "active") /\ Accept(op, id, w, original)
BY AnswerError DEF UpdateStatus

\* For an entry that is not active every active owner of a word is another one.
LEMMA OthersConflict ==
    ASSUME NEW id \in Ids, ~Active(id), NEW w
    PROVE  Conflict(id, w, "active") <=> WordExistsActive(w)
BY DEF Conflict, WordExistsActive, Active

LEMMA UpdateTells ==
    ASSUME NEW ref, NEW ttl, UpdateExpiration(ref, ttl), reply'.err = "none"
    PROVE  Tells(entries[reply'.id].word,
                 Conflict(reply'.id, entries[reply'.id].word, "active"))
<1>1. PICK id \in Lookup(ref) : UpdateExpirationTx(id, ttl)
  BY AnswerError DEF UpdateExpiration
<1>. DEFINE base == entries[id].word
<1>2. id \in Ids
  BY DEF Lookup, GetByWord
<1>3. CASE UpdateStatus("update_expiration", id, "active", base, ExpiresAt(ttl), <<>>)
  <2>1. /\ ~Conflict(id, base, "active")
        /\ reply'.id = id /\ reply'.word = base /\ reply'.original = <<>>
    BY <1>3, UpdateAccepted DEF Accept
  <2>. QED BY <2>1 DEF Tells
<1>4. CASE Expired(id) /\ \E i \in ResolveWord(base) :
             UpdateStatus("update_expiration", id, "active", Candidate(base, i),
                          ExpiresAt(ttl), IF i > 1 THEN base ELSE <<>>)
  <2>1. PICK i \in ResolveWord(base) :
             UpdateStatus("update_expiration", id, "active", Candidate(base, i),
                          ExpiresAt(ttl), IF i > 1 THEN base ELSE <<>>)
    BY <1>4
  <2>2. Accept("update_expiration", id, Candidate(base, i), IF i > 1 THEN base ELSE <<>>)
    BY <2>1, UpdateAccepted
  <2>3. Tells(base, WordExistsActive(base))
    BY <2>2, ResolvedTells
  <2>4. reply'.id = id
    BY <2>2 DEF Accept
  <2>5. Conflict(id, base, "active") <=> WordExistsActive(base)
    BY <1>2, <1>4, OthersConflict DEF Expired, Active
  <2>. QED BY <2>3, <2>4, <2>5 DEF Tells
<1>. QED BY <1>1, <1>3, <1>4, AnswerError DEF UpdateExpirationTx

\* A suffixed word is never empty, so restore_entry's original word is there exactly
\* when there was a collision, although it is not the one the entry had.
LEMMA RestoreTells ==
    ASSUME IInv, NEW id \in Ids, NEW ttl, RestoreEntry(id, ttl), reply'.err = "none"
    PROVE  reply'.original # <<>> <=> WordExistsActive(entries[id].word)
<1>. DEFINE base == entries[id].word
<1>1. Present(id) /\ RestoreTx(id, ttl)
  BY AnswerError DEF RestoreEntry
<1>2. PICK i \in ResolveWord(base) :
           UpdateStatus("restore_entry", id, "active", Candidate(base, i), ExpiresAt(ttl),
                        IF i > 1 THEN Candidate(base, i) ELSE <<>>)
  BY <1>1, AnswerError DEF RestoreTx
<1>3. reply'.original = IF i > 1 THEN Candidate(base, i) ELSE <<>>
  BY <1>2, UpdateAccepted DEF Accept
<1>4. i \in 1 .. MaxCollisionAttempts /\ (i > 1 <=> WordExistsActive(base))
  BY SuffixMeansTaken
<1>5. ASSUME i > 1 PROVE Candidate(base, i) # <<>>
  <2>1. base \in Seq(Letters \cup Digits)
    BY <1>1 DEF IInv, TypeOK, Present, Row, Words
  <2>2. /\ Decimal(i) \in Seq(Letters \cup Digits) /\ Len(Decimal(i)) > 0
    <3>1. i \in Nat
      BY <1>4
    <3>2. Decimal(i) \in Seq(Letters \cup Digits)
      BY <1>4, DecimalType DEF Words
    <3>. QED BY <3>1, <3>2 DEF Decimal
  <2>3. Len(base \o Decimal(i)) > 0
    BY <2>1, <2>2
  <2>. QED BY <1>5, <2>3 DEF Candidate
<1>. QED BY <1>3, <1>4, <1>5

\* A client whose store, extension or restore met a collision is told so, and no
\* other is: a word somebody holds is reported and extended, a free word is given
\* as it is, for any number of entries and candidates (entry_service.go:98-128,
\* 203-232, 265-304).
THEOREM CollisionsAreReported == Spec => CollisionReported
<1>1. ASSUME NEW id, NEW ttl, RestoreEntry(id, ttl), reply'.err = "none"
      PROVE  id \in Ids
  BY <1>1, AnswerError DEF RestoreEntry
<1>2. IInv /\ [Next]_vars =>
        [/\ Accepted("store_entry") =>
              \A w \in RequestWords :
                 (\E ttl \in TTLArgs : StoreEntry(w, "fits", ttl)) => Tells(w, WordExistsActive(w))
         /\ Accepted("update_expiration") =>
              LET id == reply'.id
              IN  (\E ttl \in TTLArgs, ref \in Refs : UpdateExpiration(ref, ttl)) =>
                     Tells(entries[id].word, Conflict(id, entries[id].word, "active"))
         /\ Accepted("restore_entry") =>
              LET id == reply'.id
              IN  (\E ttl \in TTLArgs : RestoreEntry(id, ttl)) =>
                     (reply'.original # <<>> <=> WordExistsActive(entries[id].word))]_vars
  BY <1>1, StoreTells, UpdateTells, RestoreTells DEF Accepted
<1>. QED BY <1>2, Invariance, PTL DEF Spec, CollisionReported
=============================================================================
