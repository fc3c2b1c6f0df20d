------------------------------ MODULE PgProofs ------------------------------
(***************************************************************************)
(* The store on a database server: what stays true when the statements of   *)
(* several replicas interleave, for any number of clients, workers and      *)
(* entries and for both drivers.                                            *)
(*                                                                          *)
(* A write acts on what its transaction read before. The proof rests on     *)
(* Unraced: as long as nobody else wrote, what a transaction read is still  *)
(* true of the table. Whatever goes wrong therefore goes wrong in a race,   *)
(* and on libSQL, which refuses the write of a raced transaction, nowhere.  *)
(***************************************************************************)
EXTENDS PgEntryStore, DirectoryProofs

USE IdsAssumption, WordsAssumption, TTLAssumption, LimitsAssumption, ShapeAssumption,
    PgAssumption

-----------------------------------------------------------------------------
(* Words that begin with another word *)

Begins(w, o) == Len(w) >= Len(o) /\ SubSeq(w, 1, Len(o)) = o

LEMMA BeginsPointwise ==
    ASSUME NEW w \in Words, NEW o \in Words
    PROVE  Begins(w, o) <=> Len(w) >= Len(o) /\ \A i \in 1 .. Len(o) : w[i] = o[i]
BY DEF Words, Begins

LEMMA WordBeginsItself ==
    ASSUME NEW w \in Words
    PROVE  Begins(w, w)
BY BeginsPointwise DEF Words

\* Every word resolveWord tries begins with whatever the base word begins with.
LEMMA CandidateBegins ==
    ASSUME NEW base \in Words, NEW o \in Words, Begins(base, o),
           NEW i \in 1 .. MaxCollisionAttempts
    PROVE  Begins(Candidate(base, i), o)
<1>1. Candidate(base, i) \in Words
  BY CandidateType
<1>2. Len(base) >= Len(o) /\ \A j \in 1 .. Len(o) : base[j] = o[j]
  BY BeginsPointwise
<1>3. CASE i = 1
  BY <1>3 DEF Candidate
<1>4. CASE i # 1
  <2>. DEFINE d == Decimal(i)
  <2>1. d \in Seq(Digits)
    BY DecimalType
  <2>2. Candidate(base, i) = base \o d
    BY <1>4 DEF Candidate
  <2>. HIDE DEF d
  <2>3. Len(base \o d) >= Len(o) /\ \A j \in 1 .. Len(o) : (base \o d)[j] = o[j]
    BY <1>2, <2>1 DEF Words
  <2>. QED BY <1>1, <2>2, <2>3, BeginsPointwise
<1>. QED BY <1>3, <1>4

-----------------------------------------------------------------------------
(* What a step does to the table *)

\* UPDATE of a row that is there, whatever became of it since it was read.
Renewed(id, row) ==
    /\ Present(id) /\ row.status = "active" /\ row.type = entries[id].type
    /\ ~Conflict(id, row.word, "active")
    /\ Write(id, row) /\ UNCHANGED minted

\* A batch of rows that are there, due or not.
Marked(rows) ==
    /\ \A id \in rows : Present(id)
    /\ ~BatchFails(rows)
    /\ entries' = [id \in Ids |->
          IF id \in rows THEN [entries[id] EXCEPT !.status = "expired"] ELSE entries[id]]
    /\ UNCHANGED minted

PgEffect ==
    \/ UNCHANGED <<entries, minted>>
    \/ \E id \in Ids, row \in Row : Stored(id, row) \/ Renewed(id, row)
    \/ \E id \in Ids : Deleted(id)
    \/ \E rows \in SUBSET Ids : Marked(rows)

TableOK ==
    /\ entries \in [Ids -> Row \cup {NoRow}] /\ minted \subseteq Ids
    /\ UniqueWordStatus /\ RowsAreMinted

LEMMA MarkedKeepsTable ==
    ASSUME TableOK, NEW rows \in SUBSET Ids, Marked(rows)
    PROVE  TableOK'
<1>. USE DEF TableOK
<1>1. ASSUME NEW id \in rows
      PROVE  /\ entries[id] \in Row /\ entries'[id] \in Row
             /\ entries'[id].word = entries[id].word /\ entries'[id].status = "expired"
  <2>1. entries[id] \in Row
    BY DEF Marked, Present
  <2>2. entries'[id] = [entries[id] EXCEPT !.status = "expired"]
    BY DEF Marked
  <2>. QED BY <2>1, <2>2 DEF Row
<1>2. ASSUME NEW id \in Ids \ rows PROVE entries'[id] = entries[id]
  BY DEF Marked
<1>3. entries' \in [Ids -> Row \cup {NoRow}]
  <2>1. entries' = [id \in Ids |-> entries'[id]]
    BY DEF Marked
  <2>2. \A id \in Ids : entries'[id] \in Row \cup {NoRow}
    BY <1>1, <1>2
  <2>. QED BY <2>1, <2>2
<1>4. minted' = minted
  BY DEF Marked
<1>5. RowsAreMinted'
  BY <1>2, <1>4 DEF RowsAreMinted, Marked, Present
<1>6. UniqueWordStatus'
  <2>. SUFFICES ASSUME NEW a \in Ids, NEW b \in Ids, Present(a)', Present(b)',
                       entries'[a].word = entries'[b].word,
                       entries'[a].status = entries'[b].status, a # b
                PROVE  FALSE
    BY DEF UniqueWordStatus
  <2>1. Present(a) /\ Present(b) /\ entries[a].word = entries[b].word
    BY <1>1, <1>2 DEF Marked, Present
  <2>2. entries[a].status # entries[b].status
    BY <2>1 DEF UniqueWordStatus
  <2>3. a \in rows \/ b \in rows
    BY <1>2, <2>2
  <2>4. ASSUME NEW x \in rows, NEW y \in Ids \ {x}, Present(y), entries[y].word = entries[x].word
        PROVE  entries[y].status # "expired"
    BY <2>4 DEF Marked, BatchFails, Conflict
  <2>5. entries[a] \in Row /\ entries[b] \in Row
    BY <2>1 DEF Present
  <2>6. entries[a].status \in {"active", "expired"} /\ entries[b].status \in {"active", "expired"}
    BY <2>5 DEF Row
  <2>7. CASE a \in rows /\ b \in rows
    BY <2>1, <2>2, <2>4, <2>6, <2>7
  <2>8. CASE a \in rows /\ b \notin rows
    BY <1>1, <1>2, <2>1, <2>4, <2>8
  <2>9. CASE a \notin rows /\ b \in rows
    BY <1>1, <1>2, <2>1, <2>4, <2>9
  <2>. QED BY <2>3, <2>7, <2>8, <2>9
<1>. QED BY <1>3, <1>4, <1>5, <1>6

\* No effect, in whatever race, gives two rows one word and one status.
LEMMA EffectKeepsTable ==
    ASSUME TableOK, PgEffect
    PROVE  TableOK'
<1>. USE DEF TableOK
<1>1. CASE UNCHANGED <<entries, minted>>
  BY <1>1 DEF UniqueWordStatus, RowsAreMinted, Present
<1>2. ASSUME NEW id \in Ids, NEW row \in Row, Stored(id, row) \/ Renewed(id, row)
      PROVE  TableOK'
  <2>1. /\ entries' = [entries EXCEPT ![id] = row] /\ row.status = "active"
        /\ ~Conflict(id, row.word, "active")
    BY <1>2 DEF Stored, Renewed, Takes, Write
  <2>2. UniqueWordStatus'
    BY <2>1 DEF UniqueWordStatus, Conflict, Present
  <2>3. minted' \subseteq Ids /\ minted \subseteq minted' /\ (Present(id) \/ id \in minted')
    BY <1>2 DEF Stored, Renewed
  <2>4. RowsAreMinted'
    BY <2>1, <2>3 DEF RowsAreMinted, Present
  <2>. QED BY <2>1, <2>2, <2>3, <2>4
<1>3. ASSUME NEW id \in Ids, Deleted(id) PROVE TableOK'
  <2>1. entries' = [entries EXCEPT ![id] = NoRow] /\ minted' = minted
    BY <1>3 DEF Deleted, Write
  <2>. QED BY <2>1 DEF UniqueWordStatus, RowsAreMinted, Present
<1>4. ASSUME NEW rows \in SUBSET Ids, Marked(rows) PROVE TableOK'
  BY <1>4, MarkedKeepsTable
<1>. QED BY <1>1, <1>2, <1>3, <1>4 DEF PgEffect

\* A row that is gone does not come back.
LEMMA PgGoneStaysGone ==
    ASSUME TableOK, PgEffect, NEW id \in minted, ~Present(id)
    PROVE  ~Present(id)' /\ id \in minted'
BY DEF TableOK, PgEffect, Stored, Renewed, Deleted, Marked, Takes, Write, Present

-----------------------------------------------------------------------------
(* The invariant *)

Transactions ==
    [at : {"idle", "probe", "write"}, op : Ops, id : Ids \cup {NoId}, base : Words,
     try : 0 .. MaxCollisionAttempts, expires : Nat \cup {Never}]

PgRange ==
    /\ tx \in [Clients -> Transactions]
    /\ batch \in [Workers -> SUBSET Ids]
    /\ driver \in Drivers
    /\ snapshot \in [Clients -> [Ids -> Row \cup {NoRow}]]
    /\ raced \subseteq Busy
    /\ origin \in [Ids -> Words]
    /\ unheard \in [Clients -> minted \cup {NoId}]

\* A transaction is about an entry that was handed out, under a word of its own.
TxKnown(c) ==
    LET t == tx[c] IN
    /\ t.at = "idle" => t = NoTx
    /\ t.at # "idle" => t.op \in Resolving /\ t.try >= 1 /\ deleting[c] = NoDelete
    /\ t.at # "idle" /\ t.op = "store_entry" => t.id = NoId
    /\ t.at # "idle" /\ t.op # "store_entry" =>
          t.id \in minted /\ Begins(t.base, origin[t.id])

Free(c) == ~WordExistsActive(Candidate(tx[c].base, tx[c].try))

\* The row is as update_expiration read it.
AsRead(c) ==
    /\ tx[c].op # "store_entry" /\ tx[c].try = 1
    /\ Active(tx[c].id) /\ entries[tx[c].id].word = tx[c].base

\* What a transaction read is true of the table as long as nobody else wrote.
Unraced(c) ==
    HasRead(c) /\ c \notin raced =>
    /\ tx[c].at = "probe" => /\ driver = "libsql" => snapshot[c] = entries
                             /\ tx[c].op # "store_entry" => Expired(tx[c].id)
    /\ tx[c].at = "write" => \/ Free(c) /\ (tx[c].op # "store_entry" => Expired(tx[c].id))
                             \/ AsRead(c)

\* So are the rows a batch selected; on libSQL a batch is never in between.
BatchKnown(k) ==
    /\ k \notin raced => \A id \in batch[k] : Due(id)
    /\ driver = "libsql" => batch[k] = {}

PInv ==
    /\ DInv /\ PgRange /\ WordsExtendOrigin
    /\ \A c \in Clients : TxKnown(c) /\ Unraced(c)
    /\ \A k \in Workers : BatchKnown(k)

LEMMA TableOfDInv == (DInv => TableOK) /\ (TableOK /\ TypeOK => DInv)
BY DEF DInv, IInv, TypeOK, TableOK

LEMMA InitPInv == PgInit => PInv
<1>. SUFFICES ASSUME PgInit PROVE PInv
  OBVIOUS
<1>1. DInv
  BY InitDInv DEF PgInit
<1>2. PgRange
  <2>1. <<>> \in Words
    BY DEF Words
  <2>2. NoTx \in Transactions
    BY <2>1 DEF NoTx, Transactions, Ops
  <2>. QED BY <2>1, <2>2 DEF PgInit, PgRange, NoTable
<1>3. WordsExtendOrigin
  BY DEF PgInit, Init, WordsExtendOrigin, Present
<1>4. \A c \in Clients : TxKnown(c) /\ Unraced(c)
  BY DEF PgInit, TxKnown, Unraced, HasRead, NoTx
<1>5. \A k \in Workers : BatchKnown(k)
  BY DEF PgInit, BatchKnown
<1>. QED BY <1>1, <1>2, <1>3, <1>4, <1>5 DEF PInv

-----------------------------------------------------------------------------
(* A step of one process, and what it leaves alone *)

\* If p wrote, all that are in the middle of an operation have been raced.
Races(p) ==
    \/ UNCHANGED entries /\ raced' \in {raced, raced \ {p}}
    \/ raced' = (raced \cup Busy) \ {p}

LEMMA EndsRaces ==
    ASSUME NEW p, NEW wrote, wrote \in BOOLEAN, ~wrote => UNCHANGED entries, Ends(p, wrote)
    PROVE  Races(p) /\ p \notin raced'
BY DEF Ends, Races

\* A client whose own variables a step leaves alone.
LEMMA OtherClientKeeps ==
    ASSUME PInv, NEW p, Races(p), NEW d \in Clients \ {p},
           tx'[d] = tx[d], snapshot'[d] = snapshot[d], deleting'[d] = deleting[d],
           driver' = driver, minted \subseteq minted',
           \A id \in minted : origin'[id] = origin[id]
    PROVE  TxKnown(d)' /\ Unraced(d)'
<1>1. TxKnown(d) /\ Unraced(d)
  BY DEF PInv
<1>2. TxKnown(d)'
  BY <1>1 DEF TxKnown
<1>3. HasRead(d)' <=> HasRead(d)
  BY DEF HasRead
<1>4. CASE UNCHANGED entries /\ raced' \in {raced, raced \ {p}}
  <2>1. d \in raced' <=> d \in raced
    BY <1>4
  <2>2. (Expired(tx[d].id)' <=> Expired(tx[d].id)) /\ (Free(d)' <=> Free(d))
    BY <1>4 DEF Expired, Present, Free, WordExistsActive, Active
  <2>3. AsRead(d)' <=> AsRead(d)
    BY <1>4 DEF AsRead, Active, Present
  <2>. QED BY <1>1, <1>2, <1>3, <1>4, <2>1, <2>2, <2>3 DEF Unraced, Expired, Present
<1>5. CASE raced' = (raced \cup Busy) \ {p}
  BY <1>2, <1>3, <1>5 DEF Unraced, Busy
<1>. QED BY <1>4, <1>5 DEF Races

LEMMA OtherWorkerKeeps ==
    ASSUME PInv, NEW p, Races(p), NEW k \in Workers \ {p},
           batch'[k] = batch[k], now' = now, driver' = driver
    PROVE  BatchKnown(k)'
<1>1. BatchKnown(k)
  BY DEF PInv
<1>2. CASE UNCHANGED entries /\ raced' \in {raced, raced \ {p}}
  BY <1>1, <1>2 DEF BatchKnown, Due, Active, Present
<1>3. CASE raced' = (raced \cup Busy) \ {p}
  BY <1>1, <1>3 DEF BatchKnown, Busy
<1>. QED BY <1>2, <1>3 DEF Races

\* The words that a step writes begin with the words of their origin.
WritesBegin ==
    /\ \A id \in minted : origin'[id] = origin[id]
    /\ \A id \in Ids : Present(id)' /\ entries'[id] # entries[id] =>
          \/ Begins(entries'[id].word, origin'[id])
          \/ Present(id) /\ entries'[id].word = entries[id].word

LEMMA OriginKept ==
    ASSUME PInv, WritesBegin
    PROVE  WordsExtendOrigin'
<1>. SUFFICES ASSUME NEW id \in Ids, Present(id)' PROVE Begins(entries'[id].word, origin'[id])
  BY DEF WordsExtendOrigin, Begins
<1>1. Present(id) => Begins(entries[id].word, origin[id]) /\ id \in minted
  BY DEF PInv, DInv, RowsAreMinted, WordsExtendOrigin, Begins
<1>2. CASE entries'[id] = entries[id]
  BY <1>1, <1>2 DEF WritesBegin, Present
<1>3. CASE entries'[id] # entries[id]
  BY <1>1, <1>3 DEF WritesBegin
<1>. QED BY <1>2, <1>3

LEMMA EffectMinted == PgEffect => minted \subseteq minted'
BY DEF PgEffect, Stored, Renewed, Deleted, Marked

\* The step of a client keeps the invariant if it keeps what concerns this client.
ClientFrame(c) ==
    /\ UNCHANGED <<now, driver, batch>>
    /\ \A d \in Clients \ {c} :
          tx'[d] = tx[d] /\ snapshot'[d] = snapshot[d] /\ deleting'[d] = deleting[d]

LEMMA ClientStepKeepsPInv ==
    ASSUME PInv, NEW c \in Clients, PgEffect, Races(c), ClientFrame(c), WritesBegin,
           reply' \in Answers, deleting' \in [Clients -> Deletions],
           tx' \in [Clients -> Transactions],
           snapshot' \in [Clients -> [Ids -> Row \cup {NoRow}]],
           origin' \in [Ids -> Words], unheard' \in [Clients -> minted' \cup {NoId}],
           c \in raced' => c \in Busy',
           TxKnown(c)', Unraced(c)'
    PROVE  PInv'
<1>1. TableOK'
  BY TableOfDInv, EffectKeepsTable DEF PInv
<1>2. DInv'
  BY <1>1, TableOfDInv DEF PInv, DInv, IInv, TypeOK, TableOK, UniqueWordStatus, RowsAreMinted,
     ClientFrame
<1>3. raced' \subseteq Busy'
  <2>1. raced \subseteq Busy
    BY DEF PInv, PgRange
  <2>2. Busy \ {c} \subseteq Busy'
    BY DEF Busy, HasRead, ClientFrame
  <2>. QED BY <2>1, <2>2 DEF Races
<1>4. PgRange'
  BY <1>3 DEF PInv, PgRange, ClientFrame
<1>5. WordsExtendOrigin'
  BY OriginKept
<1>6. minted \subseteq minted'
  BY EffectMinted
<1>7. ASSUME NEW d \in Clients PROVE TxKnown(d)' /\ Unraced(d)'
  <2>1. CASE d = c
    BY <2>1
  <2>2. CASE d # c
    BY <1>6, <2>2, OtherClientKeeps DEF ClientFrame, WritesBegin
  <2>. QED BY <2>1, <2>2
<1>8. ASSUME NEW k \in Workers PROVE BatchKnown(k)'
  BY OtherWorkerKeeps DEF ClientFrame
<1>. QED BY <1>2, <1>4, <1>5, <1>7, <1>8 DEF PInv

-----------------------------------------------------------------------------
(* The first statement *)

\* A call that is refused, or any other step that only answers.
LEMMA AnswerKeepsPInv ==
    ASSUME PInv, NEW c \in Clients, Calls(c), NEW op \in Ops, NEW err \in Errors,
           Refuse(op, err), UNCHANGED <<tx, snapshot>>, FirstFrame
    PROVE  PInv' /\ UNCHANGED <<entries, minted, tx>>
<1>1. UNCHANGED <<entries, minted>>
  BY DEF Refuse
<1>2. IInv'
  BY RefuseKeepsInv DEF PInv, DInv, IInv, TypeOK, FirstFrame
<1>3. reply' \in Answers /\ deleting' \in [Clients -> Deletions]
  BY <1>2 DEF IInv, TypeOK
<1>4. PgEffect /\ Races(c) /\ ClientFrame(c) /\ WritesBegin
  BY <1>1 DEF PgEffect, Races, ClientFrame, WritesBegin, FirstFrame
<1>5. TxKnown(c)' /\ Unraced(c)'
  <2>1. TxKnown(c) /\ Unraced(c)
    BY DEF PInv
  <2>. QED BY <1>1, <2>1 DEF TxKnown, Unraced, HasRead, Calls, NoTx, FirstFrame
<1>6. c \in raced' => c \in Busy'
  BY DEF PInv, PgRange, Busy, HasRead, FirstFrame
<1>7. /\ tx' \in [Clients -> Transactions]
      /\ snapshot' \in [Clients -> [Ids -> Row \cup {NoRow}]]
      /\ origin' \in [Ids -> Words] /\ unheard' \in [Clients -> minted' \cup {NoId}]
  BY <1>1 DEF PInv, PgRange, FirstFrame
<1>. QED BY <1>1, <1>3, <1>4, <1>5, <1>6, <1>7, ClientStepKeepsPInv

\* A client that is not in the middle of an operation has raced with nobody.
LEMMA IdleIsUnraced ==
    ASSUME PInv, NEW c \in Clients, ~HasRead(c), deleting[c] = NoDelete
    PROVE  c \notin raced
BY DEF PInv, PgRange, Busy

\* A transaction begins with what it read of the entry.
LEMMA BeginKeepsPInv ==
    ASSUME PInv, NEW c \in Clients, Calls(c), NEW op \in Resolving, NEW id \in Ids \cup {NoId},
           NEW base \in Words, NEW place \in {"probe", "write"},
           NEW ttl \in TTLArgs, ValidTTL(ttl),
           Begin(c, op, id, base, place, ttl), FirstFrame,
           IF op = "store_entry" THEN id = NoId /\ place = "probe" /\ UNCHANGED snapshot
           ELSE /\ id \in minted /\ Present(id) /\ base = entries[id].word /\ Opens(c)
                /\ IF place = "probe" THEN Expired(id) ELSE Active(id)
    PROVE  PInv' /\ UNCHANGED <<entries, minted, reply>>
<1>1. UNCHANGED <<entries, minted, reply>>
  BY DEF Begin
<1>. DEFINE t == [at |-> place, op |-> op, id |-> id, base |-> base, try |-> 1,
                  expires |-> ExpiresAt(ttl)]
<1>2. tx \in [Clients -> Transactions] /\ tx' = [tx EXCEPT ![c] = t] /\ tx'[c] = t
  BY DEF PInv, PgRange, Begin
<1>3. ExpiresAt(ttl) \in Nat \cup {Never}
  BY ExpiresAtType DEF PInv, DInv, IInv
<1>4. t \in Transactions
  <2>1. op \in Ops
    BY DEF Resolving, Ops
  <2>. QED BY <1>3, <2>1 DEF Transactions
<1>5. /\ t.at = place /\ t.op = op /\ t.id = id /\ t.base = base /\ t.try = 1
      /\ t # NoTx
  BY DEF NoTx
<1>. HIDE DEF t
<1>6. deleting[c] = NoDelete /\ tx[c] = NoTx /\ c \notin raced
  BY IdleIsUnraced DEF Calls, HasRead
<1>7. /\ UNCHANGED <<now, deleting, driver, batch, raced, origin, unheard>>
      /\ snapshot' = snapshot \/ \E x \in {View(c), NoTable} : snapshot' = [snapshot EXCEPT ![c] = x]
  BY DEF FirstFrame, Opens
<1>8. entries \in [Ids -> Row \cup {NoRow}] /\ snapshot \in [Clients -> [Ids -> Row \cup {NoRow}]]
  BY DEF PInv, DInv, IInv, TypeOK, PgRange
<1>9. View(c) = entries
  BY <1>6 DEF View, HasRead
<1>10. snapshot' \in [Clients -> [Ids -> Row \cup {NoRow}]]
  BY <1>7, <1>8, <1>9 DEF NoTable
<1>11. tx' \in [Clients -> Transactions]
  BY <1>2, <1>4
<1>12. PgEffect /\ Races(c) /\ WritesBegin
  BY <1>1, <1>7 DEF PgEffect, Races, WritesBegin
<1>13. ClientFrame(c)
  <2>1. \A d \in Clients \ {c} : tx'[d] = tx[d]
    BY <1>2
  <2>2. \A d \in Clients \ {c} : snapshot'[d] = snapshot[d]
    BY <1>7, <1>8
  <2>. QED BY <1>7, <2>1, <2>2 DEF ClientFrame
<1>14. TxKnown(c)'
  <2>1. op # "store_entry" => Begins(base, origin[id])
    BY DEF PInv, DInv, IInv, TypeOK, WordsExtendOrigin, Begins
  <2>. QED BY <1>1, <1>2, <1>5, <1>6, <1>7, <2>1 DEF TxKnown
<1>15. Unraced(c)'
  <2>1. CASE op = "store_entry"
    BY <1>2, <1>5, <2>1 DEF Unraced, HasRead
  <2>2. CASE op # "store_entry" /\ place = "probe"
    <3>1. driver = "libsql" => snapshot'[c] = entries
      BY <1>2, <1>5, <1>8, <1>9, <2>2 DEF Opens
    <3>2. Expired(id)'
      BY <1>1, <2>2 DEF Expired, Present
    <3>. QED BY <1>1, <1>2, <1>5, <1>7, <2>2, <3>1, <3>2 DEF Unraced
  <2>3. CASE op # "store_entry" /\ place = "write"
    <3>1. AsRead(c)'
      BY <1>1, <1>2, <1>5, <2>3 DEF AsRead, Active, Present
    <3>. QED BY <1>2, <1>5, <2>3, <3>1 DEF Unraced
  <2>. QED BY <2>1, <2>2, <2>3
<1>16. /\ reply' \in Answers /\ deleting' \in [Clients -> Deletions]
       /\ origin' \in [Ids -> Words] /\ unheard' \in [Clients -> minted' \cup {NoId}]
  BY <1>1, <1>7 DEF PInv, DInv, IInv, TypeOK, PgRange
<1>17. c \notin raced'
  BY <1>6, <1>7
<1>. QED BY <1>1, <1>10, <1>11, <1>12, <1>13, <1>14, <1>15, <1>16, <1>17, ClientStepKeepsPInv

LEMMA PgStoreEntryKeepsPInv ==
    ASSUME PInv, NEW c \in Clients, NEW w \in RequestWords, NEW ttl \in TTLArgs,
           PgStoreEntry(c, w, ttl)
    PROVE  PInv' /\ UNCHANGED <<entries, minted>>
<1>. DEFINE err == StoreRefusal(w, "fits", ttl)
<1>1. Calls(c) /\ FirstFrame /\ UNCHANGED snapshot
  BY DEF PgStoreEntry
<1>2. CASE err # "none"
  <2>1. Refuse("store_entry", err) /\ UNCHANGED tx
    BY <1>2 DEF PgStoreEntry
  <2>2. err \in Errors /\ "store_entry" \in Ops
    BY DEF StoreRefusal, Errors, Ops
  <2>. HIDE DEF err
  <2>. QED BY <1>1, <2>1, <2>2, AnswerKeepsPInv
<1>3. CASE err = "none"
  <2>1. Begin(c, "store_entry", NoId, w, "probe", ttl) /\ ValidTTL(ttl)
    BY <1>3 DEF PgStoreEntry, StoreRefusal
  <2>2. "store_entry" \in Resolving /\ w \in Words
    BY DEF Resolving
  <2>. QED BY <1>1, <2>1, <2>2, BeginKeepsPInv
<1>. QED BY <1>2, <1>3

LEMMA PgRestoreEntryKeepsPInv ==
    ASSUME PInv, NEW c \in Clients, NEW id \in Ids, NEW ttl \in TTLArgs,
           PgRestoreEntry(c, id, ttl)
    PROVE  PInv' /\ UNCHANGED <<entries, minted>>
<1>1. Calls(c) /\ FirstFrame /\ "restore_entry" \in Ops /\ "restore_entry" \in Resolving
  BY DEF PgRestoreEntry, Ops, Resolving
<1>2. CASE \E err \in {"ErrInvalidTTL", "ErrNotFound", "ErrAlreadyActive"} :
               Refuse("restore_entry", err) /\ UNCHANGED <<tx, snapshot>>
  <2>1. PICK err \in Errors : Refuse("restore_entry", err) /\ UNCHANGED <<tx, snapshot>>
    BY <1>2 DEF Errors
  <2>. QED BY <1>1, <2>1, AnswerKeepsPInv
<1>3. CASE /\ ValidTTL(ttl) /\ Present(id) /\ ~Active(id)
           /\ Begin(c, "restore_entry", id, entries[id].word, "probe", ttl) /\ Opens(c)
  <2>1. entries[id] \in Row /\ id \in minted
    BY <1>3 DEF PInv, DInv, IInv, TypeOK, RowsAreMinted, Present
  <2>2. Expired(id) /\ entries[id].word \in Words
    BY <1>3, <2>1 DEF Row, Expired, Active
  <2>. DEFINE base == entries[id].word
  <2>3. Begin(c, "restore_entry", id, base, "probe", ttl) /\ base \in Words /\ base = entries[id].word
    BY <1>3, <2>2
  <2>. HIDE DEF base
  <2>. QED BY <1>1, <1>3, <2>1, <2>2, <2>3, BeginKeepsPInv
<1>. QED BY <1>2, <1>3 DEF PgRestoreEntry

LEMMA PgUpdateExpirationKeepsPInv ==
    ASSUME PInv, NEW c \in Clients, NEW ref \in Refs, NEW ttl \in TTLArgs,
           PgUpdateExpiration(c, ref, ttl)
    PROVE  PInv' /\ UNCHANGED <<entries, minted>>
<1>1. Calls(c) /\ FirstFrame /\ "update_expiration" \in Ops /\ "update_expiration" \in Resolving
  BY DEF PgUpdateExpiration, Ops, Resolving
<1>2. CASE \E err \in {"ErrInvalidWord", "ErrInvalidTTL", "ErrNotFound"} :
               Refuse("update_expiration", err) /\ UNCHANGED <<tx, snapshot>>
  <2>1. PICK err \in Errors : Refuse("update_expiration", err) /\ UNCHANGED <<tx, snapshot>>
    BY <1>2 DEF Errors
  <2>. QED BY <1>1, <2>1, AnswerKeepsPInv
<1>3. CASE /\ ValidTTL(ttl) /\ Opens(c)
           /\ \E id \in Lookup(ref) :
                 Begin(c, "update_expiration", id, entries[id].word,
                       IF Active(id) THEN "write" ELSE "probe", ttl)
  <2>1. PICK id \in Lookup(ref) :
                 Begin(c, "update_expiration", id, entries[id].word,
                       IF Active(id) THEN "write" ELSE "probe", ttl)
    BY <1>3
  <2>2. id \in Ids /\ Present(id)
    BY DEF Lookup, GetByWord, Active, Expired
  <2>3. entries[id] \in Row /\ id \in minted
    BY <2>2 DEF PInv, DInv, IInv, TypeOK, RowsAreMinted, Present
  <2>4. entries[id].word \in Words /\ (Expired(id) \/ Active(id))
    BY <2>2, <2>3 DEF Row, Expired, Active
  <2>. DEFINE base == entries[id].word
              place == IF Active(id) THEN "write" ELSE "probe"
  <2>5. /\ Begin(c, "update_expiration", id, base, place, ttl)
        /\ base \in Words /\ base = entries[id].word
        /\ place \in {"probe", "write"} /\ IF place = "probe" THEN Expired(id) ELSE Active(id)
    BY <2>1, <2>4
  <2>. HIDE DEF base, place
  <2>. QED BY <1>1, <1>3, <2>2, <2>3, <2>5, BeginKeepsPInv
<1>. QED BY <1>2, <1>3 DEF PgUpdateExpiration

-----------------------------------------------------------------------------
(* The probes *)

\* A transaction in progress: types, and what it is.
LEMMA InProgress ==
    ASSUME PInv, NEW c \in Clients, tx[c].at # "idle"
    PROVE  /\ tx[c] \in Transactions /\ tx[c].op \in Resolving
           /\ tx[c].try \in 1 .. MaxCollisionAttempts /\ tx[c].base \in Words
           /\ tx[c].expires \in Nat \cup {Never}
           /\ Candidate(tx[c].base, tx[c].try) \in Words
           /\ deleting[c] = NoDelete /\ tx[c] # NoTx
           /\ tx[c].op = "store_entry" => tx[c].id = NoId
           /\ tx[c].op # "store_entry" =>
                 tx[c].id \in minted /\ Begins(tx[c].base, origin[tx[c].id])
<1>1. tx[c] \in Transactions /\ TxKnown(c) /\ Unraced(c)
  BY DEF PInv, PgRange
<1>2. /\ tx[c].base \in Words /\ tx[c].try \in 0 .. MaxCollisionAttempts
      /\ tx[c].expires \in Nat \cup {Never}
  BY <1>1 DEF Transactions
<1>3. tx[c].try >= 1 /\ tx[c].op \in Resolving /\ deleting[c] = NoDelete /\ tx[c] # NoTx
  BY <1>1 DEF TxKnown, NoTx
<1>4. tx[c].try \in 1 .. MaxCollisionAttempts
  BY <1>2, <1>3
<1>. QED BY <1>1, <1>2, <1>3, <1>4, CandidateType DEF TxKnown

\* The end of an operation: its transaction is forgotten.
LEMMA DoneKeepsPInv ==
    ASSUME PInv, NEW c \in Clients, PgEffect, WritesBegin, Leave(c), Races(c), c \notin raced',
           UNCHANGED <<now, driver, batch>>,
           deleting' \in [Clients -> Deletions],
           \A d \in Clients \ {c} : deleting'[d] = deleting[d],
           reply' \in Answers,
           origin' \in [Ids -> Words], unheard' \in [Clients -> minted' \cup {NoId}]
    PROVE  PInv'
<1>1. tx \in [Clients -> Transactions] /\ snapshot \in [Clients -> [Ids -> Row \cup {NoRow}]]
  BY DEF PInv, PgRange
<1>2. NoTx \in Transactions
  <2>1. <<>> \in Words
    BY DEF Words
  <2>. QED BY <2>1 DEF NoTx, Transactions, Ops
<1>3. NoTable \in [Ids -> Row \cup {NoRow}]
  BY DEF NoTable
<1>4. tx' \in [Clients -> Transactions] /\ tx'[c] = NoTx
  BY <1>1, <1>2 DEF Leave
<1>5. snapshot' \in [Clients -> [Ids -> Row \cup {NoRow}]]
  BY <1>1, <1>3 DEF Leave
<1>6. ClientFrame(c)
  BY <1>1 DEF ClientFrame, Leave
<1>7. TxKnown(c)' /\ Unraced(c)'
  BY <1>4 DEF TxKnown, Unraced, HasRead, NoTx
<1>. QED BY <1>4, <1>5, <1>6, <1>7, ClientStepKeepsPInv

LEMMA RefusalType ==
    ASSUME NEW op \in Ops, NEW err \in Errors, Refuse(op, err)
    PROVE  reply' \in Answers /\ reply'.err = err
<1>1. <<>> \in Words
  BY DEF Words
<1>. QED BY <1>1 DEF Refuse, NoReply, Answers, Ops, Errors

\* An operation that ends without a write.
LEMMA GiveUpKeepsPInv ==
    ASSUME PInv, NEW c \in Clients, tx[c].at # "idle", NEW err \in Errors,
           Refuse(tx[c].op, err), Leave(c), Ends(c, FALSE),
           UNCHANGED <<now, deleting, driver, batch, origin, unheard>>
    PROVE  PInv'
<1>1. UNCHANGED <<entries, minted>>
  BY DEF Refuse
<1>2. reply' \in Answers
  <2>1. tx[c].op \in Ops
    BY InProgress DEF Transactions
  <2>. QED BY <2>1, RefusalType
<1>3. PgEffect /\ WritesBegin
  BY <1>1 DEF PgEffect, WritesBegin
<1>4. Races(c) /\ c \notin raced'
  BY <1>1 DEF Ends, Races
<1>5. /\ deleting' \in [Clients -> Deletions]
      /\ origin' \in [Ids -> Words] /\ unheard' \in [Clients -> minted' \cup {NoId}]
  BY <1>1 DEF PInv, DInv, IInv, TypeOK, PgRange
<1>. QED BY <1>2, <1>3, <1>4, <1>5, DoneKeepsPInv

\* What an unraced transaction sees is the table.
LEMMA ViewIsTable ==
    ASSUME PInv, NEW c \in Clients, tx[c].at = "probe", c \notin raced
    PROVE  View(c) = entries
BY DEF PInv, Unraced, View

LEMMA ProbeKeepsPInv ==
    ASSUME PInv, NEW c \in Clients, Probe(c)
    PROVE  PInv' /\ UNCHANGED <<entries, minted>>
<1>. DEFINE taken == Taken(c, Candidate(tx[c].base, tx[c].try))
<1>1. /\ tx[c].at = "probe"
      /\ UNCHANGED <<now, deleting, driver, batch, origin, unheard>>
  BY DEF Probe
<1>2. /\ tx[c] \in Transactions /\ tx[c].op \in Resolving
      /\ tx[c].try \in 1 .. MaxCollisionAttempts
      /\ deleting[c] = NoDelete /\ tx[c] # NoTx
  BY <1>1, InProgress
<1>3. CASE taken /\ Refuse(tx[c].op, "ErrCollisionLimitExceeded") /\ Leave(c) /\ Ends(c, FALSE)
  <2>1. "ErrCollisionLimitExceeded" \in Errors
    BY DEF Errors
  <2>. QED BY <1>1, <1>3, <2>1, GiveUpKeepsPInv DEF Refuse
<1>4. ASSUME NEW t \in Transactions, tx' = [tx EXCEPT ![c] = t], Opens(c),
             UNCHANGED <<entries, minted, reply, raced>>,
             t.op = tx[c].op, t.id = tx[c].id, t.base = tx[c].base, t.try >= 1,
             \/ t.at = "write" /\ ~taken /\ t.try = tx[c].try
             \/ t.at = "probe" /\ t.try > 1
      PROVE  PInv'
  <2>1. tx \in [Clients -> Transactions] /\ snapshot \in [Clients -> [Ids -> Row \cup {NoRow}]]
    BY DEF PInv, PgRange
  <2>2. tx'[c] = t /\ tx' \in [Clients -> Transactions] /\ t.at # "idle"
    BY <1>4, <2>1
  <2>3. entries \in [Ids -> Row \cup {NoRow}]
    BY DEF PInv, DInv, IInv, TypeOK
  <2>4. View(c) \in [Ids -> Row \cup {NoRow}]
    BY <2>1, <2>3 DEF View
  <2>5. NoTable \in [Ids -> Row \cup {NoRow}]
    BY DEF NoTable
  <2>6. snapshot' \in [Clients -> [Ids -> Row \cup {NoRow}]]
    BY <1>4, <2>1, <2>4, <2>5 DEF Opens
  <2>7. PgEffect /\ Races(c) /\ WritesBegin
    BY <1>1, <1>4 DEF PgEffect, Races, WritesBegin
  <2>8. ClientFrame(c)
    <3>1. \A d \in Clients \ {c} : tx'[d] = tx[d]
      BY <1>4, <2>1
    <3>2. \A d \in Clients \ {c} : snapshot'[d] = snapshot[d]
      BY <1>4, <2>1 DEF Opens
    <3>. QED BY <1>1, <3>1, <3>2 DEF ClientFrame
  <2>9. TxKnown(c)'
    BY <1>1, <1>2, <1>4, <2>2, InProgress DEF TxKnown
  <2>10. HasRead(c)'
    BY <1>2, <1>4, <2>2 DEF HasRead, NoTx, Transactions
  <2>11. Unraced(c)'
    <3>. SUFFICES ASSUME c \notin raced' PROVE Unraced(c)'
      BY DEF Unraced
    <3>1. View(c) = entries
      BY <1>1, <1>4, ViewIsTable
    <3>2. tx[c].op # "store_entry" => Expired(tx[c].id)
      BY <1>1, <1>2, <1>4 DEF PInv, Unraced, HasRead
    <3>3. t.op # "store_entry" => Expired(t.id)'
      BY <1>4, <3>2 DEF Expired, Present
    <3>4. CASE t.at = "probe"
      <4>1. driver = "libsql" => snapshot'[c] = entries'
        BY <1>4, <2>1, <2>2, <3>1, <3>4 DEF Opens
      <4>. QED BY <1>1, <2>2, <3>3, <3>4, <4>1 DEF Unraced
    <3>5. CASE t.at = "write" /\ ~taken /\ t.try = tx[c].try
      <4>1. Free(c)'
        BY <1>4, <2>2, <3>1, <3>5 DEF Free, Taken, WordExistsActive, Active, Present
      <4>. QED BY <2>2, <3>3, <3>5, <4>1 DEF Unraced
    <3>. QED BY <1>4, <3>4, <3>5
  <2>12. c \in Busy'
    BY <2>10 DEF Busy
  <2>13. /\ reply' \in Answers /\ deleting' \in [Clients -> Deletions]
         /\ origin' \in [Ids -> Words] /\ unheard' \in [Clients -> minted' \cup {NoId}]
    BY <1>1, <1>4 DEF PInv, DInv, IInv, TypeOK, PgRange
  <2>. QED BY <2>2, <2>6, <2>7, <2>8, <2>9, <2>11, <2>12, <2>13, ClientStepKeepsPInv
<1>5. CASE /\ ~taken /\ tx' = [tx EXCEPT ![c].at = "write"] /\ Opens(c)
           /\ UNCHANGED <<entries, minted, reply, raced>>
  <2>. DEFINE t == [tx[c] EXCEPT !.at = "write"]
  <2>1. /\ t \in Transactions /\ t.at = "write" /\ t.op = tx[c].op /\ t.id = tx[c].id
        /\ t.base = tx[c].base /\ t.try = tx[c].try /\ t.try >= 1
    BY <1>2 DEF Transactions
  <2>2. tx' = [tx EXCEPT ![c] = t]
    BY <1>5
  <2>. HIDE DEF t
  <2>. QED BY <1>4, <1>5, <2>1, <2>2
<1>6. CASE /\ taken /\ tx[c].try < MaxCollisionAttempts
           /\ tx' = [tx EXCEPT ![c].try = tx[c].try + 1] /\ Opens(c)
           /\ UNCHANGED <<entries, minted, reply, raced>>
  <2>. DEFINE t == [tx[c] EXCEPT !.try = tx[c].try + 1]
  <2>1. /\ t.at = "probe" /\ t.op = tx[c].op /\ t.id = tx[c].id
        /\ t.base = tx[c].base /\ t.try = tx[c].try + 1
    BY <1>1, <1>2 DEF Transactions
  <2>2. tx[c].try + 1 \in 0 .. MaxCollisionAttempts /\ tx[c].try + 1 > 1
    <3>. DEFINE n == tx[c].try
    <3>1. n \in Nat /\ n >= 1 /\ n < MaxCollisionAttempts /\ MaxCollisionAttempts \in Nat
      BY <1>2, <1>6
    <3>. HIDE DEF n
    <3>2. n + 1 \in 0 .. MaxCollisionAttempts /\ n + 1 > 1
      BY <3>1
    <3>. QED BY <3>2 DEF n
  <2>3. t \in Transactions
    BY <1>2, <2>2 DEF Transactions
  <2>4. tx' = [tx EXCEPT ![c] = t]
    BY <1>6
  <2>5. t.try > 1 /\ t.try >= 1
    BY <2>1, <2>2
  <2>. HIDE DEF t
  <2>. QED BY <1>4, <1>6, <2>1, <2>3, <2>4, <2>5
<1>. QED BY <1>3, <1>5, <1>6 DEF Probe

-----------------------------------------------------------------------------
(* The writes *)

Word(c) == Candidate(tx[c].base, tx[c].try)

\* An operation ends with a refusal; the unique-constraint error needs a
\* transaction that is not stale and a word that is taken.
Refused(c) ==
    /\ \E err \in Errors \ {"none"} : Refuse(tx[c].op, err)
    /\ Leave(c) /\ Ends(c, FALSE)
    /\ UNCHANGED <<now, deleting, driver, batch, origin, unheard>>
    /\ reply'.err = "ErrUnique" => /\ ~Stale(c)
                                   /\ \E id \in Ids \ {tx[c].id} :
                                         Active(id) /\ entries[id].word = Word(c)

Inserted(c, id, row) ==
    /\ Stored(id, row) /\ row.word = Word(c)
    /\ ~Stale(c)
    /\ origin' = [origin EXCEPT ![id] = tx[c].base]
    /\ Leave(c) /\ Ends(c, TRUE)
    /\ UNCHANGED <<now, deleting, driver, batch>>

LEMMA RefusedKeepsPInv ==
    ASSUME PInv, NEW c \in Clients, tx[c].at # "idle", Refused(c)
    PROVE  PInv'
<1>1. PICK err \in Errors \ {"none"} : Refuse(tx[c].op, err)
  BY DEF Refused
<1>. QED BY <1>1, GiveUpKeepsPInv DEF Refused

LEMMA InsertOutcome ==
    ASSUME PInv, NEW c \in Clients, InsertAndCommit(c)
    PROVE  \/ Refused(c)
           \/ \E id \in Ids \ minted, row \in Row :
                 /\ Inserted(c, id, row)
                 /\ Accept("store_entry", id, row.word, IF tx[c].try > 1 THEN tx[c].base ELSE <<>>)
                 /\ unheard' = [unheard EXCEPT ![c] = NoId]
<1>. DEFINE w == Word(c)
            original == IF tx[c].try > 1 THEN tx[c].base ELSE <<>>
<1>1. /\ tx[c].at = "write" /\ tx[c].op = "store_entry"
      /\ Leave(c) /\ UNCHANGED <<now, deleting, driver, batch>>
  BY DEF InsertAndCommit
<1>2. w \in Words /\ tx[c].expires \in Nat \cup {Never}
  BY <1>1, InProgress DEF Word
<1>3. origin \in [Ids -> Words] /\ unheard \in [Clients -> minted \cup {NoId}]
  BY DEF PInv, PgRange
<1>4. "store_entry" \in Ops /\ {"ErrDatabase", "ErrUnique"} \subseteq Errors \ {"none"}
  BY DEF Ops, Errors
<1>5. ASSUME Refuse("store_entry", "ErrDatabase"), Ends(c, FALSE), UNCHANGED <<origin, unheard>>
      PROVE  Refused(c)
  <2>1. reply'.err = "ErrDatabase"
    BY <1>4, <1>5, RefusalType
  <2>2. \E err \in Errors \ {"none"} : Refuse(tx[c].op, err)
    BY <1>1, <1>4, <1>5
  <2>. QED BY <1>1, <1>5, <2>1, <2>2 DEF Refused
<1>6. ASSUME ~Stale(c), NEW id \in Ids \ minted,
             Store("store_entry", id, w, "text", tx[c].expires, original),
             origin' = (IF id \in minted' THEN [origin EXCEPT ![id] = tx[c].base] ELSE origin),
             unheard' = [unheard EXCEPT ![c] = IF reply'.err = "none" THEN NoId ELSE @],
             Ends(c, reply'.err = "none")
      PROVE  \/ Refused(c)
             \/ \E row \in Row : /\ Inserted(c, id, row)
                                 /\ Accept("store_entry", id, row.word, original)
                                 /\ unheard' = [unheard EXCEPT ![c] = NoId]
  <2>. HIDE DEF original
  <2>1. CASE Conflict(id, w, "active")
    <3>1. Refuse("store_entry", "ErrUnique")
      BY <1>6, <2>1 DEF Store
    <3>2. reply'.err = "ErrUnique"
      BY <1>4, <3>1, RefusalType
    <3>3. origin' = origin
      BY <1>6, <3>1 DEF Refuse
    <3>4. unheard' = unheard
      BY <1>3, <1>6, <3>2
    <3>5. Ends(c, FALSE)
      BY <1>6, <3>2
    <3>6. \E other \in Ids \ {tx[c].id} : Active(other) /\ entries[other].word = w
      <4>1. PICK other \in Ids \ {id} : Active(other) /\ entries[other].word = w
        BY <2>1 DEF Conflict, Active
      <4>2. tx[c].id = NoId
        BY <1>1, InProgress
      <4>. QED BY <4>1, <4>2
    <3>7. \E err \in Errors \ {"none"} : Refuse(tx[c].op, err)
      BY <1>1, <1>4, <3>1
    <3>. QED BY <1>1, <1>6, <3>3, <3>4, <3>5, <3>6, <3>7 DEF Refused
  <2>2. CASE ~Conflict(id, w, "active")
    <3>. DEFINE row == [word |-> w, type |-> "text", status |-> "active", expires |-> tx[c].expires]
    <3>1. /\ entries' = [entries EXCEPT ![id] = row] /\ minted' = minted \cup {id}
          /\ Accept("store_entry", id, w, original)
      BY <1>6, <2>2 DEF Store
    <3>2. row \in Row /\ row.word = w /\ row.status = "active"
      BY <1>2 DEF Row
    <3>. HIDE DEF row
    <3>3. Stored(id, row)
      BY <2>2, <3>1, <3>2 DEF Stored, Takes, Write
    <3>4. reply'.err = "none"
      BY <3>1 DEF Accept
    <3>5. origin' = [origin EXCEPT ![id] = tx[c].base] /\ unheard' = [unheard EXCEPT ![c] = NoId]
          /\ Ends(c, TRUE)
      BY <1>6, <3>1, <3>4
    <3>6. Inserted(c, id, row)
      BY <1>1, <1>6, <3>2, <3>3, <3>5 DEF Inserted
    <3>. QED BY <3>1, <3>2, <3>5, <3>6
  <2>. QED BY <2>1, <2>2
<1>7. CASE /\ ~TooLong(w) /\ ~Stale(c)
           /\ \E id \in Ids \ minted :
                 /\ Store(tx[c].op, id, w, "text", tx[c].expires, original)
                 /\ origin' = IF id \in minted' THEN [origin EXCEPT ![id] = tx[c].base] ELSE origin
           /\ unheard' = [unheard EXCEPT ![c] = IF reply'.err = "none" THEN NoId ELSE @]
           /\ Ends(c, reply'.err = "none")
  <2>1. PICK id \in Ids \ minted :
           /\ Store(tx[c].op, id, w, "text", tx[c].expires, original)
           /\ origin' = IF id \in minted' THEN [origin EXCEPT ![id] = tx[c].base] ELSE origin
    BY <1>7
  <2>2. Store("store_entry", id, w, "text", tx[c].expires, original)
    BY <1>1, <2>1
  <2>. QED BY <1>6, <1>7, <2>1, <2>2
<1>8. CASE /\ TooLong(w) \/ Stale(c)
           /\ Refuse(tx[c].op, "ErrDatabase")
           /\ Ends(c, FALSE)
           /\ UNCHANGED <<origin, unheard>>
  BY <1>1, <1>5, <1>8
<1>9. \/ /\ TooLong(w) \/ Stale(c)
         /\ Refuse(tx[c].op, "ErrDatabase")
         /\ Ends(c, FALSE)
         /\ UNCHANGED <<origin, unheard>>
      \/ /\ ~TooLong(w) /\ ~Stale(c)
         /\ \E id \in Ids \ minted :
               /\ Store(tx[c].op, id, w, "text", tx[c].expires, original)
               /\ origin' = IF id \in minted' THEN [origin EXCEPT ![id] = tx[c].base] ELSE origin
         /\ unheard' = [unheard EXCEPT ![c] = IF reply'.err = "none" THEN NoId ELSE @]
         /\ Ends(c, reply'.err = "none")
  BY DEF InsertAndCommit, Word
<1>. QED BY <1>7, <1>8, <1>9

LEMMA InsertedKeepsPInv ==
    ASSUME PInv, NEW c \in Clients, tx[c].at = "write",
           NEW id \in Ids \ minted, NEW row \in Row, Inserted(c, id, row),
           reply' \in Answers, unheard' \in [Clients -> minted' \cup {NoId}]
    PROVE  PInv'
<1>1. /\ Stored(id, row) /\ row.word = Word(c) /\ Leave(c) /\ Ends(c, TRUE)
      /\ origin' = [origin EXCEPT ![id] = tx[c].base]
      /\ UNCHANGED <<now, deleting, driver, batch>>
  BY DEF Inserted
<1>2. PgEffect
  BY <1>1 DEF PgEffect
<1>3. Races(c) /\ c \notin raced'
  BY <1>1 DEF Ends, Races
<1>4. origin \in [Ids -> Words] /\ tx[c].base \in Words /\ entries \in [Ids -> Row \cup {NoRow}]
  BY InProgress DEF PInv, DInv, IInv, TypeOK, PgRange
<1>5. Begins(row.word, tx[c].base)
  <2>1. tx[c].try \in 1 .. MaxCollisionAttempts /\ Begins(tx[c].base, tx[c].base)
    BY <1>4, InProgress, WordBeginsItself
  <2>. QED BY <1>1, <1>4, <2>1, CandidateBegins DEF Word
<1>6. origin' \in [Ids -> Words] /\ origin'[id] = tx[c].base
      /\ \A other \in Ids \ {id} : origin'[other] = origin[other]
  BY <1>1, <1>4
<1>7. entries'[id] = row /\ \A other \in Ids \ {id} : entries'[other] = entries[other]
  BY <1>1, <1>4 DEF Stored, Takes, Write
<1>8. WritesBegin
  <2>1. minted \subseteq Ids
    BY DEF PInv, DInv, IInv, TypeOK
  <2>. QED BY <1>5, <1>6, <1>7, <2>1 DEF WritesBegin
<1>9. deleting' \in [Clients -> Deletions]
  BY <1>1 DEF PInv, DInv, IInv, TypeOK
<1>. QED BY <1>1, <1>2, <1>3, <1>6, <1>8, <1>9, DoneKeepsPInv

LEMMA InsertKeepsPInv ==
    ASSUME PInv, NEW c \in Clients, InsertAndCommit(c)
    PROVE  PInv'
<1>1. tx[c].at = "write"
  BY DEF InsertAndCommit
<1>2. CASE Refused(c)
  BY <1>1, <1>2, RefusedKeepsPInv
<1>3. ASSUME NEW id \in Ids \ minted, NEW row \in Row, Inserted(c, id, row),
             Accept("store_entry", id, row.word, IF tx[c].try > 1 THEN tx[c].base ELSE <<>>),
             unheard' = [unheard EXCEPT ![c] = NoId]
      PROVE  PInv'
  <2>1. minted \subseteq minted'
    BY <1>3 DEF Inserted, Stored
  <2>2. unheard' \in [Clients -> minted' \cup {NoId}]
    BY <1>3, <2>1 DEF PInv, PgRange
  <2>. DEFINE original == IF tx[c].try > 1 THEN tx[c].base ELSE <<>>
  <2>3. original \in Words
    <3>1. <<>> \in Words
      BY DEF Words
    <3>. QED BY <1>1, <3>1, InProgress
  <2>4. "store_entry" \in Ops /\ row.word \in Words /\ Accept("store_entry", id, row.word, original)
    BY <1>3 DEF Ops, Row
  <2>. HIDE DEF original
  <2>5. reply' \in Answers
    BY <2>3, <2>4, AcceptType
  <2>. QED BY <1>1, <1>3, <2>2, <2>5, InsertedKeepsPInv
<1>. QED BY <1>2, <1>3, InsertOutcome

\* The INSERT whose answer is lost is an INSERT like any other.
LEMMA UnheardOutcome ==
    ASSUME PInv, NEW c \in Clients, CommitUnheard(c)
    PROVE  /\ tx[c].at = "write" /\ reply'.err = "ErrDatabase" /\ unheard[c] = NoId
           /\ reply' \in Answers
           /\ \E id \in Ids \ minted, row \in Row :
                 Inserted(c, id, row) /\ unheard' = [unheard EXCEPT ![c] = id]
<1>1. /\ tx[c].at = "write" /\ tx[c].op = "store_entry" /\ unheard[c] = NoId /\ ~Stale(c)
      /\ Leave(c) /\ Ends(c, TRUE) /\ UNCHANGED <<now, deleting, driver, batch>>
      /\ reply' = [NoReply EXCEPT !.op = tx[c].op, !.err = "ErrDatabase"]
  BY DEF CommitUnheard
<1>2. reply' \in Answers /\ reply'.err = "ErrDatabase"
  <2>1. <<>> \in Words
    BY DEF Words
  <2>. QED BY <1>1, <2>1 DEF NoReply, Answers, Ops, Errors
<1>. DEFINE row == [word |-> Word(c), type |-> "text", status |-> "active",
                    expires |-> tx[c].expires]
<1>3. PICK id \in Ids \ minted :
          /\ ~Conflict(id, Word(c), "active") /\ entries' = [entries EXCEPT ![id] = row]
          /\ minted' = minted \cup {id} /\ origin' = [origin EXCEPT ![id] = tx[c].base]
          /\ unheard' = [unheard EXCEPT ![c] = id]
  BY DEF CommitUnheard, Word
<1>4. Word(c) \in Words /\ tx[c].expires \in Nat \cup {Never}
  BY <1>1, InProgress DEF Word
<1>5. row \in Row /\ row.word = Word(c) /\ row.status = "active"
  BY <1>4 DEF Row
<1>. HIDE DEF row
<1>6. Inserted(c, id, row)
  <2>1. Stored(id, row)
    BY <1>3, <1>5 DEF Stored, Takes, Write
  <2>. QED BY <1>1, <1>3, <1>5, <2>1 DEF Inserted
<1>. QED BY <1>1, <1>2, <1>3, <1>5, <1>6

LEMMA UnheardKeepsPInv ==
    ASSUME PInv, NEW c \in Clients, CommitUnheard(c)
    PROVE  PInv'
<1>1. PICK id \in Ids \ minted, row \in Row :
          Inserted(c, id, row) /\ unheard' = [unheard EXCEPT ![c] = id]
  BY UnheardOutcome
<1>2. minted' = minted \cup {id}
  BY <1>1 DEF Inserted, Stored
<1>3. unheard' \in [Clients -> minted' \cup {NoId}]
  BY <1>1, <1>2 DEF PInv, PgRange
<1>. QED BY <1>1, <1>3, UnheardOutcome, InsertedKeepsPInv

Original(c) ==
    IF tx[c].try = 1 THEN <<>> ELSE IF tx[c].op = "restore_entry" THEN Word(c) ELSE tx[c].base

Updated(c, row) ==
    /\ Renewed(tx[c].id, row) /\ row.word = Word(c)
    /\ ~Stale(c)
    /\ Accept(tx[c].op, tx[c].id, Word(c), Original(c))
    /\ Leave(c) /\ Ends(c, TRUE)
    /\ UNCHANGED <<now, deleting, driver, batch, origin, unheard>>

LEMMA UpdateOutcome ==
    ASSUME PInv, NEW c \in Clients, UpdateAndCommit(c)
    PROVE  Refused(c) \/ \E row \in Row : Updated(c, row)
<1>. DEFINE id == tx[c].id
            w == Word(c)
<1>1. /\ tx[c].at = "write" /\ tx[c].op # "store_entry"
      /\ Leave(c) /\ Ends(c, reply'.err = "none")
      /\ UNCHANGED <<now, deleting, driver, batch, origin, unheard>>
      /\ IF Stale(c) THEN Refuse(tx[c].op, "ErrDatabase")
         ELSE IF ~Present(id) THEN Refuse(tx[c].op, "ErrNotFound")
         ELSE IF TooLong(w) THEN Refuse(tx[c].op, "ErrDatabase")
         ELSE UpdateStatus(tx[c].op, id, "active", w, tx[c].expires, Original(c))
  BY DEF UpdateAndCommit, Word, Original
<1>2. /\ tx[c].op \in Ops /\ id \in Ids /\ w \in Words /\ tx[c].expires \in Nat \cup {Never}
      /\ {"ErrDatabase", "ErrNotFound", "ErrUnique"} \subseteq Errors \ {"none"}
  BY <1>1, InProgress DEF Word, Transactions, PInv, DInv, IInv, TypeOK, Errors
<1>. HIDE DEF id, w
<1>3. ASSUME NEW err \in {"ErrDatabase", "ErrNotFound", "ErrUnique"}, Refuse(tx[c].op, err),
             err = "ErrUnique" => ~Stale(c) /\ Conflict(id, w, "active")
      PROVE  Refused(c)
  <2>1. reply'.err = err /\ err # "none"
    BY <1>2, <1>3, RefusalType
  <2>2. Ends(c, FALSE)
    BY <1>1, <2>1
  <2>3. \E e \in Errors \ {"none"} : Refuse(tx[c].op, e)
    BY <1>2, <1>3
  <2>. QED BY <1>1, <1>3, <2>1, <2>2, <2>3 DEF Refused, Conflict, Active, id, w
<1>4. CASE /\ ~Stale(c) /\ Present(id)
           /\ UpdateStatus(tx[c].op, id, "active", w, tx[c].expires, Original(c))
  <2>1. CASE Conflict(id, w, "active")
    <3>1. Refuse(tx[c].op, "ErrUnique")
      BY <1>4, <2>1 DEF UpdateStatus
    <3>. QED BY <1>3, <1>4, <2>1, <3>1
  <2>2. CASE ~Conflict(id, w, "active")
    <3>. DEFINE row == [entries[id] EXCEPT !.status = "active", !.word = w,
                                           !.expires = tx[c].expires]
    <3>1. /\ entries' = [entries EXCEPT ![id] = row] /\ UNCHANGED minted
          /\ Accept(tx[c].op, id, w, Original(c))
      BY <1>4, <2>2 DEF UpdateStatus
    <3>2. entries[id] \in Row
      BY <1>2, <1>4 DEF PInv, DInv, IInv, TypeOK, Present
    <3>3. row \in Row /\ row.word = w /\ row.status = "active" /\ row.type = entries[id].type
      BY <1>2, <3>2 DEF Row
    <3>. HIDE DEF row
    <3>4. Renewed(id, row)
      BY <1>4, <2>2, <3>1, <3>3 DEF Renewed, Write
    <3>5. reply'.err = "none"
      BY <3>1 DEF Accept
    <3>6. Ends(c, TRUE)
      BY <1>1, <3>5
    <3>. QED BY <1>1, <1>4, <3>1, <3>3, <3>4, <3>6 DEF Updated, id, w
  <2>. QED BY <2>1, <2>2
<1>. QED BY <1>1, <1>3, <1>4

LEMMA UpdateKeepsPInv ==
    ASSUME PInv, NEW c \in Clients, UpdateAndCommit(c)
    PROVE  PInv'
<1>1. tx[c].at = "write" /\ tx[c].op # "store_entry"
  BY DEF UpdateAndCommit
<1>2. CASE Refused(c)
  BY <1>1, <1>2, RefusedKeepsPInv
<1>3. ASSUME NEW row \in Row, Updated(c, row) PROVE PInv'
  <2>. DEFINE id == tx[c].id
  <2>1. /\ tx[c].op \in Ops /\ id \in Ids /\ id \in minted /\ Word(c) \in Words
        /\ tx[c].base \in Words /\ Begins(tx[c].base, origin[id])
        /\ tx[c].try \in 1 .. MaxCollisionAttempts
    BY <1>1, InProgress DEF Word, Transactions, PInv, DInv, IInv, TypeOK
  <2>. HIDE DEF id
  <2>2. /\ Renewed(id, row) /\ row.word = Word(c)
        /\ Accept(tx[c].op, id, Word(c), Original(c))
        /\ Leave(c) /\ Ends(c, TRUE)
        /\ UNCHANGED <<now, deleting, driver, batch, origin, unheard>>
    BY <1>3 DEF Updated, id
  <2>3. PgEffect /\ UNCHANGED minted
    BY <2>1, <2>2 DEF PgEffect, Renewed
  <2>4. Races(c) /\ c \notin raced'
    BY <2>2 DEF Ends, Races
  <2>5. Begins(row.word, origin[id])
    <3>1. origin[id] \in Words
      BY <2>1 DEF PInv, PgRange
    <3>. QED BY <2>1, <2>2, <3>1, CandidateBegins DEF Word
  <2>6. WritesBegin
    <3>1. entries \in [Ids -> Row \cup {NoRow}]
      BY DEF PInv, DInv, IInv, TypeOK
    <3>2. entries'[id] = row /\ \A other \in Ids \ {id} : entries'[other] = entries[other]
      BY <2>1, <2>2, <3>1 DEF Renewed, Write
    <3>. QED BY <2>2, <2>5, <3>2 DEF WritesBegin
  <2>7. reply' \in Answers
    <3>1. Original(c) \in Words
      <4>1. <<>> \in Words
        BY DEF Words
      <4>. QED BY <2>1, <4>1 DEF Original
    <3>. QED BY <2>1, <2>2, <3>1, AcceptType
  <2>8. /\ deleting' \in [Clients -> Deletions] /\ origin' \in [Ids -> Words]
        /\ unheard' \in [Clients -> minted' \cup {NoId}]
    BY <2>2, <2>3 DEF PInv, DInv, IInv, TypeOK, PgRange
  <2>. QED BY <2>2, <2>3, <2>4, <2>6, <2>7, <2>8, DoneKeepsPInv
<1>. QED BY <1>2, <1>3, UpdateOutcome

-----------------------------------------------------------------------------
(* Deletes, lost clients, batches and the clock *)

LEMMA DeletingKeepsPInv ==
    ASSUME PInv, NEW c \in Clients, tx[c].at = "idle", IInv',
           UNCHANGED entries \/ \E id \in Ids : Deleted(id),
           Ends(c, entries' # entries), \A d \in Clients \ {c} : deleting'[d] = deleting[d],
           UNCHANGED <<minted, now, driver, tx, snapshot, batch, origin, unheard>>
    PROVE  PInv'
<1>1. PgEffect
  BY DEF PgEffect
<1>2. Races(c) /\ c \notin raced'
  BY EndsRaces
<1>3. WritesBegin
  <2>1. ASSUME NEW id \in Ids, Present(id)' PROVE entries'[id] = entries[id]
    <3>1. entries \in [Ids -> Row \cup {NoRow}]
      BY DEF PInv, DInv, IInv, TypeOK
    <3>. QED BY <2>1, <3>1 DEF Deleted, Write, Present
  <2>. QED BY <2>1 DEF WritesBegin
<1>4. ClientFrame(c)
  BY DEF ClientFrame
<1>5. TxKnown(c)' /\ Unraced(c)'
  <2>1. TxKnown(c)
    BY DEF PInv
  <2>. QED BY <2>1 DEF TxKnown, Unraced, HasRead
<1>6. /\ reply' \in Answers /\ deleting' \in [Clients -> Deletions]
      /\ tx' \in [Clients -> Transactions]
      /\ snapshot' \in [Clients -> [Ids -> Row \cup {NoRow}]]
      /\ origin' \in [Ids -> Words] /\ unheard' \in [Clients -> minted' \cup {NoId}]
  BY DEF IInv, TypeOK, PInv, PgRange
<1>. QED BY <1>1, <1>2, <1>3, <1>4, <1>5, <1>6, ClientStepKeepsPInv

LEMMA PgDeleteEntryKeepsPInv ==
    ASSUME PInv, NEW c \in Clients, NEW ref \in Refs, PgDeleteEntry(c, ref)
    PROVE  PInv' /\ PgEffect
<1>0. tx[c].at = "idle" /\ UNCHANGED now
  BY DEF PgDeleteEntry, DeleteEntry, Calls, NoTx
<1>1. /\ DeleteEntry(c, ref) /\ Ends(c, entries' # entries)
      /\ UNCHANGED <<now, driver, tx, snapshot, batch, origin, unheard>>
      /\ tx[c].at = "idle"
  BY <1>0 DEF PgDeleteEntry
<1>2. IInv'
  BY <1>1, DeleteEntryKeepsInv DEF PInv, DInv
<1>3. UNCHANGED minted /\ (UNCHANGED entries \/ \E id \in Ids : Deleted(id))
  <2>1. CASE UNCHANGED <<entries, minted>>
    BY <2>1
  <2>2. CASE ~UNCHANGED <<entries, minted>>
    <3>1. ref \in Ids /\ Delete(ref, <<>>)
      BY <1>1, <2>2 DEF DeleteEntry, Refuse
    <3>2. Present(ref)
      BY <2>2, <3>1 DEF Delete, Refuse
    <3>3. Deleted(ref)
      BY <3>1, <3>2, DeleteEffect
    <3>. QED BY <3>1, <3>3 DEF Deleted
  <2>. QED BY <2>1, <2>2
<1>4. \A d \in Clients \ {c} : deleting'[d] = deleting[d]
  <2>1. deleting \in [Clients -> Deletions]
    BY DEF PInv, DInv, IInv, TypeOK
  <2>2. deleting' = deleting \/ \E r : deleting' = [deleting EXCEPT ![c] = r]
    BY <1>1 DEF DeleteEntry
  <2>. QED BY <2>1, <2>2
<1>5. PgEffect
  BY <1>3 DEF PgEffect
<1>. QED BY <1>1, <1>2, <1>3, <1>4, <1>5, DeletingKeepsPInv

LEMMA PgDeleteFoundKeepsPInv ==
    ASSUME PInv, NEW c \in Clients, PgDeleteFound(c)
    PROVE  PInv' /\ PgEffect
<1>1. /\ DeleteFound(c) /\ Ends(c, entries' # entries)
      /\ UNCHANGED <<now, driver, tx, snapshot, batch, origin, unheard>>
      /\ deleting[c] # NoDelete /\ deleting' = [deleting EXCEPT ![c] = NoDelete]
  BY DEF PgDeleteFound, DeleteFound
<1>2. tx[c].at = "idle"
  BY <1>1, InProgress
<1>3. IInv'
  BY <1>1, DeleteFoundKeepsInv DEF PInv, DInv
<1>4. deleting \in [Clients -> Deletions]
  BY DEF PInv, DInv, IInv, TypeOK
<1>5. UNCHANGED minted /\ (UNCHANGED entries \/ \E id \in Ids : Deleted(id))
  <2>. DEFINE id == deleting[c].id
  <2>1. id \in Ids /\ Delete(id, deleting[c].word)
    BY <1>1, <1>4 DEF DeleteFound, Deletions
  <2>. HIDE DEF id
  <2>2. CASE Present(id)
    <3>1. Deleted(id)
      BY <2>1, <2>2, DeleteEffect
    <3>. QED BY <2>1, <3>1 DEF Deleted
  <2>3. CASE ~Present(id)
    BY <2>1, <2>3 DEF Delete, Refuse
  <2>. QED BY <2>2, <2>3
<1>6. \A d \in Clients \ {c} : deleting'[d] = deleting[d]
  BY <1>1, <1>4
<1>7. PgEffect
  BY <1>5 DEF PgEffect
<1>. QED BY <1>1, <1>2, <1>3, <1>5, <1>6, <1>7, DeletingKeepsPInv

LEMMA AbortKeepsPInv ==
    ASSUME PInv, NEW c \in Clients, Abort(c)
    PROVE  PInv'
<1>1. /\ Leave(c) /\ deleting' = [deleting EXCEPT ![c] = NoDelete] /\ raced' = raced \ {c}
      /\ UNCHANGED <<entries, minted, now, reply, driver, batch, origin, unheard>>
  BY DEF Abort
<1>2. PgEffect /\ WritesBegin /\ Races(c) /\ c \notin raced'
  BY <1>1 DEF PgEffect, WritesBegin, Races
<1>3. deleting \in [Clients -> Deletions]
  BY DEF PInv, DInv, IInv, TypeOK
<1>4. deleting' \in [Clients -> Deletions] /\ \A d \in Clients \ {c} : deleting'[d] = deleting[d]
  BY <1>1, <1>3 DEF Deletions
<1>5. /\ reply' \in Answers /\ origin' \in [Ids -> Words]
      /\ unheard' \in [Clients -> minted' \cup {NoId}]
  BY <1>1 DEF PInv, DInv, IInv, TypeOK, PgRange
<1>. QED BY <1>1, <1>2, <1>4, <1>5, DoneKeepsPInv

\* The step of a worker keeps the invariant if it keeps what concerns its batch.
LEMMA WorkerStepKeepsPInv ==
    ASSUME PInv, NEW k \in Workers, PgEffect, Races(k), WritesBegin,
           UNCHANGED <<minted, now, deleting, reply, driver, tx, snapshot, origin, unheard>>,
           \A j \in Workers \ {k} : batch'[j] = batch[j],
           batch' \in [Workers -> SUBSET Ids],
           k \in raced' => k \in Busy', BatchKnown(k)'
    PROVE  PInv'
<1>1. TableOK'
  BY TableOfDInv, EffectKeepsTable DEF PInv
<1>2. DInv'
  BY <1>1, TableOfDInv DEF PInv, DInv, IInv, TypeOK, TableOK, UniqueWordStatus, RowsAreMinted
<1>3. raced' \subseteq Busy'
  <2>1. raced \subseteq Busy
    BY DEF PInv, PgRange
  <2>2. Busy \ {k} \subseteq Busy'
    BY DEF Busy, HasRead
  <2>. QED BY <2>1, <2>2 DEF Races
<1>4. PgRange'
  BY <1>3 DEF PInv, PgRange
<1>5. WordsExtendOrigin'
  BY OriginKept
<1>6. ASSUME NEW d \in Clients PROVE TxKnown(d)' /\ Unraced(d)'
  BY OtherClientKeeps
<1>7. ASSUME NEW j \in Workers PROVE BatchKnown(j)'
  BY OtherWorkerKeeps
<1>. QED BY <1>2, <1>4, <1>5, <1>6, <1>7 DEF PInv

LEMMA SelectBatchKeepsPInv ==
    ASSUME PInv, NEW k \in Workers, SelectBatch(k)
    PROVE  PInv'
<1>1. PICK b \in Batches : b # {} /\ batch' = [batch EXCEPT ![k] = b]
  BY DEF SelectBatch
<1>2. /\ UNCHANGED <<vars, driver, tx, snapshot, raced, origin, unheard>>
      /\ driver = "postgres" /\ batch \in [Workers -> SUBSET Ids]
  BY DEF SelectBatch, PInv, PgRange
<1>3. b \in SUBSET Ids /\ \A id \in b : Due(id)
  BY DEF Batches
<1>4. /\ batch' \in [Workers -> SUBSET Ids] /\ batch'[k] = b
      /\ \A j \in Workers \ {k} : batch'[j] = batch[j]
  BY <1>1, <1>2, <1>3
<1>5. PgEffect /\ Races(k) /\ WritesBegin
  BY <1>2 DEF PgEffect, Races, WritesBegin, vars
<1>6. BatchKnown(k)'
  BY <1>2, <1>3, <1>4 DEF BatchKnown, Due, Active, Present, vars
<1>7. k \in Busy'
  BY <1>1, <1>4 DEF Busy
<1>. QED BY <1>2, <1>4, <1>5, <1>6, <1>7, WorkerStepKeepsPInv DEF vars

\* The UPDATE of a batch: it marks rows, or changes nothing.
LEMMA MarkOutcome ==
    ASSUME PInv, NEW k \in Workers, NEW rows \in SUBSET Ids, \A id \in rows : Present(id),
           Mark(k, rows)
    PROVE  /\ UNCHANGED entries \/ Marked(rows)
           /\ PgEffect /\ Races(k) /\ k \notin raced' /\ WritesBegin
           /\ UNCHANGED <<minted, now, deleting, reply, driver, tx, snapshot, origin, unheard>>
<1>1. /\ UNCHANGED <<minted, now, deleting, reply, driver, tx, snapshot, origin, unheard>>
      /\ MarkExpiredBatch(rows) /\ Ends(k, rows # {} /\ ~BatchFails(rows))
  BY DEF Mark
<1>2. entries \in [Ids -> Row \cup {NoRow}]
  BY DEF PInv, DInv, IInv, TypeOK
<1>3. CASE BatchFails(rows) \/ rows = {}
  <2>1. UNCHANGED entries
    <3>1. CASE BatchFails(rows)
      BY <1>1, <3>1 DEF MarkExpiredBatch
    <3>2. CASE ~BatchFails(rows) /\ rows = {}
      <4>1. entries' = [id \in Ids |-> entries[id]]
        BY <1>1, <3>2 DEF MarkExpiredBatch
      <4>. QED BY <1>2, <4>1
    <3>. QED BY <1>3, <3>1, <3>2
  <2>. QED BY <1>1, <1>3, <2>1 DEF Ends, Races, PgEffect, WritesBegin
<1>4. CASE ~BatchFails(rows) /\ rows # {}
  <2>1. Marked(rows)
    BY <1>1, <1>4 DEF MarkExpiredBatch, Marked
  <2>2. Races(k) /\ k \notin raced'
    BY <1>1, <1>4 DEF Ends, Races
  <2>3. WritesBegin
    <3>1. ASSUME NEW id \in Ids, entries'[id] # entries[id]
          PROVE  Present(id) /\ entries'[id].word = entries[id].word
      <4>1. id \in rows /\ entries[id] \in Row
        BY <1>2, <2>1, <3>1 DEF Marked, Present
      <4>2. entries'[id] = [entries[id] EXCEPT !.status = "expired"]
        BY <2>1, <4>1 DEF Marked
      <4>3. entries'[id].word = entries[id].word
        BY <4>1, <4>2 DEF Row
      <4>. QED BY <2>1, <4>1, <4>3 DEF Marked
    <3>. QED BY <1>1, <3>1 DEF WritesBegin
  <2>. QED BY <1>1, <2>1, <2>2, <2>3 DEF PgEffect
<1>. QED BY <1>3, <1>4

LEMMA UpdateBatchOutcome ==
    ASSUME PInv, NEW k \in Workers, UpdateBatch(k)
    PROVE  /\ PInv' /\ PgEffect
           /\ UNCHANGED entries \/ Marked({id \in batch[k] : Present(id)})
<1>. DEFINE rows == {id \in batch[k] : Present(id)}
<1>1. batch[k] # {} /\ Mark(k, rows) /\ batch' = [batch EXCEPT ![k] = {}]
  BY DEF UpdateBatch
<1>2. batch \in [Workers -> SUBSET Ids]
  BY DEF PInv, PgRange
<1>3. rows \in SUBSET Ids /\ \A id \in rows : Present(id)
  BY <1>2
<1>. HIDE DEF rows
<1>4. /\ UNCHANGED entries \/ Marked(rows)
      /\ PgEffect /\ Races(k) /\ k \notin raced' /\ WritesBegin
      /\ UNCHANGED <<minted, now, deleting, reply, driver, tx, snapshot, origin, unheard>>
  BY <1>1, <1>3, MarkOutcome
<1>5. /\ batch' \in [Workers -> SUBSET Ids] /\ batch'[k] = {}
      /\ \A j \in Workers \ {k} : batch'[j] = batch[j]
  BY <1>1, <1>2
<1>6. BatchKnown(k)'
  BY <1>5 DEF BatchKnown
<1>7. PInv'
  BY <1>4, <1>5, <1>6, WorkerStepKeepsPInv
<1>. QED BY <1>4, <1>7 DEF rows

LEMMA SweepLibSQLOutcome ==
    ASSUME PInv, NEW k \in Workers, SweepLibSQL(k)
    PROVE  /\ PInv' /\ PgEffect
           /\ UNCHANGED entries \/ \E b \in Batches : b # {} /\ Marked(b)
<1>1. PICK b \in Batches : b # {} /\ Mark(k, b)
  BY DEF SweepLibSQL
<1>2. UNCHANGED batch /\ driver = "libsql"
  BY DEF SweepLibSQL
<1>3. b \in SUBSET Ids /\ \A id \in b : Present(id)
  BY DEF Batches, Due, Active
<1>4. /\ UNCHANGED entries \/ Marked(b)
      /\ PgEffect /\ Races(k) /\ k \notin raced' /\ WritesBegin
      /\ UNCHANGED <<minted, now, deleting, reply, driver, tx, snapshot, origin, unheard>>
  BY <1>1, <1>3, MarkOutcome
<1>5. batch' \in [Workers -> SUBSET Ids]
  BY <1>2 DEF PInv, PgRange
<1>6. BatchKnown(k)'
  BY <1>2, <1>4 DEF BatchKnown, PInv
<1>7. PInv'
  BY <1>2, <1>4, <1>5, <1>6, WorkerStepKeepsPInv
<1>. QED BY <1>1, <1>4, <1>7

LEMMA PgTickKeepsPInv ==
    ASSUME PInv, PgTick
    PROVE  PInv'
<1>1. /\ UNCHANGED <<entries, minted, deleting, reply, driver, tx, snapshot, batch, raced,
                      origin, unheard>>
      /\ Tick /\ now' = now + 1
  BY DEF PgTick, Tick
<1>2. DInv'
  BY <1>1, NextKeepsDInv DEF PInv, Next
<1>3. PgRange' /\ WordsExtendOrigin'
  BY <1>1 DEF PInv, PgRange, Busy, HasRead, WordsExtendOrigin, Present
<1>4. ASSUME NEW c \in Clients PROVE TxKnown(c)' /\ Unraced(c)'
  BY <1>1 DEF PInv, TxKnown, Unraced, HasRead, Free, AsRead, WordExistsActive, Expired, Active,
              Present
<1>5. ASSUME NEW id \in Ids, Due(id) PROVE Due(id)'
  <2>1. entries[id] \in Row /\ now \in Nat
    BY <1>5 DEF PInv, DInv, IInv, TypeOK, Due, Active, Present
  <2>2. entries[id].expires \in Nat
    BY <1>5, <2>1 DEF Row, Due
  <2>3. entries[id].expires <= now + 1
    BY <1>5, <2>1, <2>2 DEF Due
  <2>. QED BY <1>1, <1>5, <2>3 DEF Due, Active, Present
<1>6. ASSUME NEW k \in Workers PROVE BatchKnown(k)'
  BY <1>1, <1>5 DEF PInv, PgRange, BatchKnown
<1>. QED BY <1>2, <1>3, <1>4, <1>6 DEF PInv

-----------------------------------------------------------------------------
(* The invariant holds *)

LEMMA StutterKeepsPInv ==
    ASSUME PInv, UNCHANGED pgVars
    PROVE  PInv'
<1>1. /\ UNCHANGED <<entries, minted, now, deleting, reply, driver, tx, snapshot, batch, raced,
                      origin, unheard>>
      /\ UNCHANGED vars
  BY DEF pgVars, vars
<1>2. DInv'
  BY <1>1, NextKeepsDInv DEF PInv
<1>3. PgRange' /\ WordsExtendOrigin'
  BY <1>1 DEF PInv, PgRange, Busy, HasRead, WordsExtendOrigin, Present
<1>4. ASSUME NEW c \in Clients PROVE TxKnown(c)' /\ Unraced(c)'
  BY <1>1 DEF PInv, TxKnown, Unraced, HasRead, Free, AsRead, WordExistsActive, Expired, Active,
              Present
<1>5. ASSUME NEW k \in Workers PROVE BatchKnown(k)'
  BY <1>1 DEF PInv, BatchKnown, Due, Active, Present
<1>. QED BY <1>2, <1>3, <1>4, <1>5 DEF PInv

LEMMA PgNextKeepsPInv == PInv /\ [PgNext]_pgVars => PInv'
<1>. SUFFICES ASSUME PInv, [PgNext]_pgVars PROVE PInv'
  OBVIOUS
<1>1. ASSUME NEW c \in Clients, NEW w \in RequestWords, NEW ttl \in TTLArgs, PgStoreEntry(c, w, ttl)
      PROVE  PInv'
  BY <1>1, PgStoreEntryKeepsPInv
<1>2. ASSUME NEW c \in Clients, NEW id \in Ids, NEW ttl \in TTLArgs, PgRestoreEntry(c, id, ttl)
      PROVE  PInv'
  BY <1>2, PgRestoreEntryKeepsPInv
<1>3. ASSUME NEW c \in Clients, NEW ref \in Refs, NEW ttl \in TTLArgs, PgUpdateExpiration(c, ref, ttl)
      PROVE  PInv'
  BY <1>3, PgUpdateExpirationKeepsPInv
<1>4. ASSUME NEW c \in Clients,
             Probe(c) \/ InsertAndCommit(c) \/ CommitUnheard(c) \/ UpdateAndCommit(c)
             \/ PgDeleteFound(c) \/ Abort(c)
      PROVE  PInv'
  BY <1>4, ProbeKeepsPInv, InsertKeepsPInv, UnheardKeepsPInv, UpdateKeepsPInv,
     PgDeleteFoundKeepsPInv, AbortKeepsPInv
<1>5. ASSUME NEW c \in Clients, NEW ref \in Refs, PgDeleteEntry(c, ref) PROVE PInv'
  BY <1>5, PgDeleteEntryKeepsPInv
<1>6. ASSUME NEW k \in Workers, SelectBatch(k) \/ UpdateBatch(k) \/ SweepLibSQL(k) PROVE PInv'
  BY <1>6, SelectBatchKeepsPInv, UpdateBatchOutcome, SweepLibSQLOutcome
<1>7. CASE PgTick
  BY <1>7, PgTickKeepsPInv
<1>8. CASE UNCHANGED pgVars
  BY <1>8, StutterKeepsPInv
<1>. QED BY <1>1, <1>2, <1>3, <1>4, <1>5, <1>6, <1>7, <1>8 DEF PgNext

\* What every transaction read, and how far it got, fits the table in every
\* reachable state of both drivers.
THEOREM PgInvariance == PgSpec => []PInv
BY InitPInv, PgNextKeepsPInv, PTL DEF PgSpec

\* Types, the attempts of resolveWord, and the history variables' meaning
\* (entry_service.go:356-376).
THEOREM PgTypeCorrect == PgSpec => []PgTypeOK
<1>1. PInv => PgTypeOK
  BY DEF PInv, DInv, IInv, PgRange, PgTypeOK, Transactions
<1>. QED BY <1>1, PgInvariance, PTL

\* UNIQUE (word, status) holds through every race, batches of rows that changed
\* since they were selected included.
THEOREM PgUniqueWords == PgSpec => []UniqueWordStatus
<1>1. PInv => UniqueWordStatus
  BY DEF PInv, DInv, IInv
<1>. QED BY <1>1, PgInvariance, PTL

\* Renames never drop the word an entry was stored under, in whatever race
\* (entry_service.go:356-376, postgres.go:191-204).
THEOREM WordsKeepOrigin == PgSpec => []WordsExtendOrigin
<1>1. PInv => WordsExtendOrigin
  BY DEF PInv
<1>. QED BY <1>1, PgInvariance, PTL

-----------------------------------------------------------------------------
(* Who writes, and when *)

\* The steps that change the table.
Writes ==
    \/ \E c \in Clients, id \in Ids \ minted, row \in Row :
          tx[c].at = "write" /\ Inserted(c, id, row)
    \/ \E c \in Clients, row \in Row :
          tx[c].at = "write" /\ tx[c].op # "store_entry" /\ Updated(c, row)
    \/ \E id \in Ids : Deleted(id)
    \/ \E k \in Workers :
          /\ batch[k] # {} /\ batch'[k] = {}
          /\ Marked({id \in batch[k] : Present(id)})
    \/ driver = "libsql" /\ \E b \in Batches : b # {} /\ Marked(b)

LEMMA OnlyWrites == PInv /\ [PgNext]_pgVars => UNCHANGED <<entries, minted>> \/ Writes
<1>. SUFFICES ASSUME PInv, [PgNext]_pgVars PROVE UNCHANGED <<entries, minted>> \/ Writes
  OBVIOUS
<1>1. ASSUME NEW c \in Clients, NEW w \in RequestWords, NEW ttl \in TTLArgs, PgStoreEntry(c, w, ttl)
      PROVE  UNCHANGED <<entries, minted>>
  BY <1>1, PgStoreEntryKeepsPInv
<1>2. ASSUME NEW c \in Clients, NEW id \in Ids, NEW ttl \in TTLArgs, PgRestoreEntry(c, id, ttl)
      PROVE  UNCHANGED <<entries, minted>>
  BY <1>2, PgRestoreEntryKeepsPInv
<1>3. ASSUME NEW c \in Clients, NEW ref \in Refs, NEW ttl \in TTLArgs, PgUpdateExpiration(c, ref, ttl)
      PROVE  UNCHANGED <<entries, minted>>
  BY <1>3, PgUpdateExpirationKeepsPInv
<1>4. ASSUME NEW c \in Clients, Probe(c) PROVE UNCHANGED <<entries, minted>>
  BY <1>4, ProbeKeepsPInv
<1>5. ASSUME NEW c \in Clients, Refused(c) PROVE UNCHANGED <<entries, minted>>
  BY <1>5 DEF Refused, Refuse
<1>6. ASSUME NEW c \in Clients, InsertAndCommit(c) PROVE UNCHANGED <<entries, minted>> \/ Writes
  <2>1. tx[c].at = "write"
    BY <1>6 DEF InsertAndCommit
  <2>. QED BY <1>5, <1>6, <2>1, InsertOutcome DEF Writes
<1>7. ASSUME NEW c \in Clients, CommitUnheard(c) PROVE Writes
  BY <1>7, UnheardOutcome DEF Writes
<1>8. ASSUME NEW c \in Clients, UpdateAndCommit(c) PROVE UNCHANGED <<entries, minted>> \/ Writes
  <2>1. tx[c].at = "write" /\ tx[c].op # "store_entry"
    BY <1>8 DEF UpdateAndCommit
  <2>. QED BY <1>5, <1>8, <2>1, UpdateOutcome DEF Writes
<1>9. ASSUME NEW id \in Ids, NEW w, Delete(id, w) PROVE UNCHANGED <<entries, minted>> \/ Writes
  BY <1>9, DeleteEffect DEF Writes, Delete, Refuse
<1>10. ASSUME NEW c \in Clients, NEW ref \in Refs, PgDeleteEntry(c, ref)
       PROVE  UNCHANGED <<entries, minted>> \/ Writes
  BY <1>9, <1>10 DEF PgDeleteEntry, DeleteEntry, Refuse
<1>11. ASSUME NEW c \in Clients, PgDeleteFound(c) PROVE UNCHANGED <<entries, minted>> \/ Writes
  <2>1. deleting[c].id \in Ids
    BY <1>11 DEF PInv, DInv, IInv, TypeOK, PgDeleteFound, DeleteFound, Deletions
  <2>. QED BY <1>9, <1>11, <2>1 DEF PgDeleteFound, DeleteFound
<1>12. ASSUME NEW k \in Workers, UpdateBatch(k) PROVE UNCHANGED <<entries, minted>> \/ Writes
  <2>1. batch[k] # {} /\ batch'[k] = {} /\ UNCHANGED minted
    BY <1>12 DEF UpdateBatch, Mark, PInv, PgRange
  <2>2. UNCHANGED entries \/ Marked({id \in batch[k] : Present(id)})
    BY <1>12, UpdateBatchOutcome
  <2>. QED BY <2>1, <2>2 DEF Writes
<1>13. ASSUME NEW k \in Workers, SweepLibSQL(k) PROVE UNCHANGED <<entries, minted>> \/ Writes
  <2>1. driver = "libsql" /\ UNCHANGED minted
    BY <1>13 DEF SweepLibSQL, Mark
  <2>2. UNCHANGED entries \/ \E b \in Batches : b # {} /\ Marked(b)
    BY <1>13, SweepLibSQLOutcome
  <2>. QED BY <2>1, <2>2 DEF Writes
<1>14. ASSUME NEW c \in Clients, Abort(c) PROVE UNCHANGED <<entries, minted>>
  BY <1>14 DEF Abort
<1>15. ASSUME NEW k \in Workers, SelectBatch(k) PROVE UNCHANGED <<entries, minted>>
  BY <1>15 DEF SelectBatch, vars
<1>16. CASE PgTick \/ UNCHANGED pgVars
  BY <1>16 DEF PgTick, Tick, pgVars, vars
<1>. QED BY <1>1, <1>2, <1>3, <1>4, <1>6, <1>7, <1>8, <1>10, <1>11, <1>12, <1>13, <1>14, <1>15,
            <1>16 DEF PgNext

\* Only its own step ends the transaction of a client.
LEMMA CommitStep ==
    ASSUME PInv, [PgNext]_pgVars, NEW c \in Clients, tx[c].at = "write", tx'[c] = NoTx
    PROVE  InsertAndCommit(c) \/ CommitUnheard(c) \/ UpdateAndCommit(c) \/ Abort(c)
<1>. DEFINE Mine == InsertAndCommit(c) \/ CommitUnheard(c) \/ UpdateAndCommit(c) \/ Abort(c)
<1>1. tx \in [Clients -> Transactions] /\ tx'[c] # tx[c]
  BY DEF PInv, PgRange, NoTx
<1>2. ASSUME NEW d \in Clients \ {c}, \E t : tx' = [tx EXCEPT ![d] = t] PROVE FALSE
  BY <1>1, <1>2
<1>3. ASSUME UNCHANGED tx PROVE FALSE
  BY <1>1, <1>3
<1>4. ASSUME NEW d \in Clients, Calls(d), \E t : tx' = [tx EXCEPT ![d] = t] PROVE FALSE
  <2>1. d # c
    BY <1>4 DEF Calls, NoTx
  <2>. QED BY <1>2, <1>4, <2>1
<1>5. ASSUME NEW d \in Clients, NEW w \in RequestWords, NEW ttl \in TTLArgs, PgStoreEntry(d, w, ttl)
      PROVE  FALSE
  BY <1>3, <1>4, <1>5 DEF PgStoreEntry, Begin
<1>6. ASSUME NEW d \in Clients, NEW id \in Ids, NEW ttl \in TTLArgs, PgRestoreEntry(d, id, ttl)
      PROVE  FALSE
  BY <1>3, <1>4, <1>6 DEF PgRestoreEntry, Begin
<1>7. ASSUME NEW d \in Clients, NEW ref \in Refs, NEW ttl \in TTLArgs, PgUpdateExpiration(d, ref, ttl)
      PROVE  FALSE
  BY <1>3, <1>4, <1>7 DEF PgUpdateExpiration, Begin
<1>8. ASSUME NEW d \in Clients, Probe(d) PROVE FALSE
  <2>1. d # c
    BY <1>8 DEF Probe
  <2>2. \/ tx' = [tx EXCEPT ![d].at = "write"]
        \/ tx' = [tx EXCEPT ![d].try = tx[d].try + 1]
        \/ tx' = [tx EXCEPT ![d] = NoTx]
    BY <1>8 DEF Probe, Leave
  <2>3. tx'[c] = tx[c]
    BY <1>1, <2>1, <2>2
  <2>. QED BY <1>1, <2>3
<1>9. ASSUME NEW d \in Clients, Leave(d) PROVE d = c
  BY <1>2, <1>9 DEF Leave
<1>10. ASSUME NEW d \in Clients,
              InsertAndCommit(d) \/ CommitUnheard(d) \/ UpdateAndCommit(d) \/ Abort(d)
       PROVE  Mine
  <2>1. Leave(d)
    BY <1>10 DEF InsertAndCommit, CommitUnheard, UpdateAndCommit, Abort
  <2>2. d = c
    BY <1>9, <2>1
  <2>. QED BY <1>10, <2>2
<1>11. ASSUME NEW d \in Clients, (\E ref \in Refs : PgDeleteEntry(d, ref)) \/ PgDeleteFound(d)
       PROVE  FALSE
  BY <1>3, <1>11 DEF PgDeleteEntry, PgDeleteFound
<1>12. ASSUME NEW k \in Workers, SelectBatch(k) \/ UpdateBatch(k) \/ SweepLibSQL(k) PROVE FALSE
  BY <1>3, <1>12 DEF SelectBatch, UpdateBatch, SweepLibSQL, Mark
<1>13. CASE PgTick \/ UNCHANGED pgVars
  BY <1>3, <1>13 DEF PgTick, pgVars
<1>. QED BY <1>5, <1>6, <1>7, <1>8, <1>10, <1>11, <1>12, <1>13 DEF PgNext

\* An unraced transaction at its write: what it is going to write fits.
LEMMA UnracedWrite ==
    ASSUME PInv, NEW c \in Clients, tx[c].at = "write", c \notin raced
    PROVE  \/ Free(c) /\ (tx[c].op # "store_entry" => Expired(tx[c].id))
           \/ AsRead(c)
<1>1. HasRead(c)
  BY DEF HasRead, NoTx
<1>. QED BY <1>1 DEF PInv, Unraced

-----------------------------------------------------------------------------
(* The theorems on steps *)

\* No operation on a stale read brings a deleted entry back (postgres.go:191-231,
\* 258-270).
THEOREM GoneForever == PgSpec => NoResurrection
<1>1. PInv /\ [PgNext]_pgVars => [\A id \in minted : ~Present(id) => ~Present(id)']_pgVars
  <2>. SUFFICES ASSUME PInv, [PgNext]_pgVars, NEW id \in minted, ~Present(id)
                PROVE  ~Present(id)'
    OBVIOUS
  <2>1. ASSUME NEW c \in Clients, NEW j \in Ids \ minted, NEW row \in Row, Inserted(c, j, row)
        PROVE  PgEffect
    BY <2>1 DEF Inserted, PgEffect
  <2>2. ASSUME NEW c \in Clients, NEW row \in Row, tx[c].at = "write",
               tx[c].op # "store_entry", Updated(c, row)
        PROVE  PgEffect
    <3>1. tx[c].id \in Ids
      BY <2>2, InProgress DEF PInv, DInv, IInv, TypeOK
    <3>. QED BY <2>2, <3>1 DEF Updated, PgEffect
  <2>3. ASSUME NEW k \in Workers, Marked({j \in batch[k] : Present(j)}) PROVE PgEffect
    <3>1. {j \in batch[k] : Present(j)} \in SUBSET Ids
      BY DEF PInv, PgRange
    <3>. QED BY <2>3, <3>1 DEF PgEffect
  <2>4. ASSUME NEW b \in Batches, Marked(b) PROVE PgEffect
    BY <2>4 DEF PgEffect, Batches
  <2>5. PgEffect
    BY <2>1, <2>2, <2>3, <2>4, OnlyWrites DEF Writes, PgEffect
  <2>6. TableOK
    BY TableOfDInv DEF PInv
  <2>. QED BY <2>5, <2>6, PgGoneStaysGone
<1>. QED BY <1>1, PgInvariance, PTL DEF PgSpec, NoResurrection
\* How the write of a transaction ends.
LEMMA CommitOutcome ==
    ASSUME PInv, [PgNext]_pgVars, NEW c \in Clients, tx[c].at = "write", tx'[c] = NoTx
    PROVE  \/ Refused(c)
           \/ \E id \in Ids \ minted, row \in Row :
                 /\ Inserted(c, id, row)
                 /\ \/ \E original : Accept("store_entry", id, row.word, original)
                    \/ reply'.err = "ErrDatabase"
           \/ tx[c].op # "store_entry" /\ \E row \in Row : Updated(c, row)
           \/ UNCHANGED <<entries, reply>>
<1>1. CASE InsertAndCommit(c)
  BY <1>1, InsertOutcome
<1>2. CASE CommitUnheard(c)
  BY <1>2, UnheardOutcome
<1>3. CASE UpdateAndCommit(c)
  BY <1>3, UpdateOutcome DEF UpdateAndCommit
<1>4. CASE Abort(c)
  BY <1>4 DEF Abort
<1>. QED BY <1>1, <1>2, <1>3, <1>4, CommitStep

\* Whatever a transaction read, the word it tells its client after a write leads
\* to the entry and to no other at the commit (postgres.go:191-204, 258-270).
THEOREM CommitsResolve == PgSpec => CommitResolves
<1>1. PInv /\ Written => GetByWord(reply.word, TRUE) = {reply.id}
  BY ActiveRowResolves DEF PInv, DInv, IInv, Written
<1>2. (PInv /\ Written => GetByWord(reply.word, TRUE) = {reply.id})'
  BY <1>1, PTL
<1>3. ASSUME PInv, [PgNext]_pgVars, NEW c \in Clients, tx[c].at = "write", tx'[c] = NoTx,
             reply'.err = "none", entries' # entries
      PROVE  Written'
  <2>0. entries \in [Ids -> Row \cup {NoRow}]
    BY <1>3 DEF PInv, DInv, IInv, TypeOK
  <2>1. ~Refused(c)
    BY <1>3 DEF Refused, Refuse
  <2>2. ASSUME NEW id \in Ids, NEW row \in Row, Write(id, row), row.status = "active",
               NEW op, NEW original, Accept(op, id, row.word, original)
        PROVE  Written'
    <3>1. reply'.id = id /\ reply'.word = row.word
      BY <2>2 DEF Accept
    <3>2. entries'[id] = row /\ row # NoRow
      BY <2>0, <2>2 DEF Write
    <3>. QED BY <2>2, <3>1, <3>2 DEF Written, Active, Present
  <2>3. ASSUME NEW id \in Ids \ minted, NEW row \in Row, Inserted(c, id, row), NEW original,
               Accept("store_entry", id, row.word, original)
        PROVE  Written'
    BY <2>2, <2>3 DEF Inserted, Stored, Takes
  <2>4. ASSUME NEW row \in Row, tx[c].op # "store_entry", Updated(c, row) PROVE Written'
    <3>1. tx[c].id \in Ids
      BY <1>3, <2>4, InProgress DEF PInv, DInv, IInv, TypeOK
    <3>. QED BY <2>2, <2>4, <3>1 DEF Updated, Renewed
  <2>. QED BY <1>3, <2>1, <2>3, <2>4, CommitOutcome
<1>4. PInv /\ PInv' /\ [PgNext]_pgVars =>
        [\A c \in Clients :
            /\ tx[c].at = "write" /\ tx'[c] = NoTx
            /\ reply'.err = "none" /\ entries' # entries
            => (GetByWord(reply.word, TRUE) = {reply.id})']_pgVars
  BY <1>2, <1>3
<1>. QED BY <1>4, PgInvariance, PTL DEF PgSpec, CommitResolves

\* The error of UNIQUE (word, status) reaches only a client of PostgreSQL, and only
\* if somebody else wrote while its operation was running (001_init.sql:10,
\* postgres.go:252-270).
THEOREM UniqueErrorsMeanRaces == PgSpec => UniqueErrorMeansRace
<1>1. ASSUME PInv, [PgNext]_pgVars, NEW c \in Clients, tx[c].at = "write", tx'[c] = NoTx,
             reply' # reply, reply'.err = "ErrUnique"
      PROVE  driver = "postgres" /\ c \in raced
  <2>1. Refused(c)
    <3>1. \A op, id, w, original : ~Accept(op, id, w, original)
      BY <1>1 DEF Accept
    <3>. QED BY <1>1, <3>1, CommitOutcome DEF Updated
  <2>2. ~Stale(c) /\ \E id \in Ids \ {tx[c].id} : Active(id) /\ entries[id].word = Word(c)
    BY <1>1, <2>1 DEF Refused
  <2>3. ~Free(c)
    BY <2>2 DEF Free, Word, WordExistsActive
  <2>4. ASSUME AsRead(c) PROVE FALSE
    <3>1. tx[c].id \in Ids
      BY <1>1, <2>4, InProgress DEF AsRead, PInv, DInv, IInv, TypeOK
    <3>2. entries[tx[c].id].word = Word(c) /\ Active(tx[c].id)
      BY <2>4 DEF AsRead, Word, Candidate
    <3>. QED BY <1>1, <2>2, <3>1, <3>2 DEF PInv, DInv, IInv, UniqueWordStatus, Active
  <2>5. c \in raced
    BY <1>1, <2>3, <2>4, UnracedWrite
  <2>6. driver \in {"postgres", "libsql"}
    BY <1>1 DEF PInv, PgRange
  <2>. QED BY <2>2, <2>5, <2>6 DEF Stale
<1>2. PInv /\ [PgNext]_pgVars =>
        [\A c \in Clients :
            tx[c].at = "write" /\ tx'[c] = NoTx /\ reply' # reply /\ reply'.err = "ErrUnique"
            => driver = "postgres" /\ c \in raced]_pgVars
  BY <1>1
<1>. QED BY <1>2, PgInvariance, PTL DEF PgSpec, UniqueErrorMeansRace

\* An UPDATE that nobody raced wakes an expired entry under a free word, or extends
\* an active one.
LEMMA UnracedUpdate ==
    ASSUME PInv, NEW c \in Clients, tx[c].at = "write", tx[c].op # "store_entry",
           c \notin raced, NEW row \in Row, Updated(c, row)
    PROVE  tx[c].id \in Ids /\ (Woken(tx[c].id, row) \/ Extended(tx[c].id, row))
<1>1. tx[c].id \in Ids
  BY InProgress DEF PInv, DInv, IInv, TypeOK
<1>2. Renewed(tx[c].id, row) /\ row.word = Word(c)
  BY DEF Updated
<1>3. CASE Expired(tx[c].id)
  BY <1>1, <1>2, <1>3 DEF Renewed, Woken, Takes
<1>4. CASE AsRead(c)
  <2>1. entries[tx[c].id].word = Word(c) /\ Active(tx[c].id)
    BY <1>4 DEF AsRead, Word, Candidate
  <2>. QED BY <1>1, <1>2, <2>1 DEF Renewed, Extended
<1>. QED BY <1>3, <1>4, UnracedWrite

\* An active entry is renamed, or expired before its time, only by an operation on
\* this entry during which somebody else wrote (postgres.go:191-204, 217-231).
THEOREM DisturbancesAreRaces == PgSpec => DisturbedOnlyInRaces
<1>1. ASSUME PInv, [PgNext]_pgVars, NEW id \in Ids, Active(id)
      PROVE  \/ Undisturbed(id)
             \/ \E c \in Clients \cap raced :
                   tx[c].at = "write" /\ tx[c].id = id /\ tx'[c] = NoTx
             \/ \E k \in Workers \cap raced : id \in batch[k] /\ batch'[k] = {}
  <2>. DEFINE Raced == \/ \E c \in Clients \cap raced :
                            tx[c].at = "write" /\ tx[c].id = id /\ tx'[c] = NoTx
                       \/ \E k \in Workers \cap raced : id \in batch[k] /\ batch'[k] = {}
  <2>1. /\ entries \in [Ids -> Row \cup {NoRow}] /\ entries[id] \in Row /\ id \in minted
        /\ DInv /\ tx \in [Clients -> Transactions]
    BY <1>1 DEF PInv, DInv, IInv, TypeOK, Active, Present, RowsAreMinted, PgRange
  <2>2. ASSUME entries'[id] = entries[id] PROVE Undisturbed(id)
    BY <1>1, <2>2 DEF Undisturbed, Active, Present
  <2>3. ASSUME Effect PROVE Undisturbed(id)
    BY <1>1, <2>1, <2>3, EffectKeeps DEF Kept, Undisturbed
  <2>4. ASSUME UNCHANGED <<entries, minted>> PROVE Undisturbed(id)
    BY <2>2, <2>4
  <2>5. ASSUME NEW c \in Clients, NEW j \in Ids \ minted, NEW row \in Row, Inserted(c, j, row)
        PROVE  Undisturbed(id)
    BY <2>3, <2>5 DEF Inserted, Effect, Growth
  <2>6. ASSUME NEW c \in Clients, NEW row \in Row, tx[c].at = "write",
               tx[c].op # "store_entry", Updated(c, row)
        PROVE  Undisturbed(id) \/ Raced
    <3>1. CASE tx[c].id # id
      BY <2>1, <2>2, <2>6, <3>1 DEF Updated, Renewed, Write
    <3>2. CASE tx[c].id = id /\ c \in raced
      <4>1. tx'[c] = NoTx
        BY <2>1, <2>6 DEF Updated, Leave
      <4>. QED BY <2>6, <3>2, <4>1
    <3>3. CASE c \notin raced
      <4>1. tx[c].id \in Ids /\ (Woken(tx[c].id, row) \/ Extended(tx[c].id, row))
        BY <1>1, <2>6, <3>3, UnracedUpdate
      <4>. QED BY <2>3, <4>1 DEF Effect, Growth
    <3>. QED BY <3>1, <3>2, <3>3
  <2>7. ASSUME NEW j \in Ids, Deleted(j) PROVE Undisturbed(id)
    BY <2>3, <2>7 DEF Effect
  <2>8. ASSUME NEW rows, id \in rows => Due(id), Marked(rows) PROVE Undisturbed(id)
    <3>1. CASE id \notin rows
      BY <2>2, <2>8, <3>1 DEF Marked
    <3>2. CASE id \in rows
      <4>1. entries'[id] = [entries[id] EXCEPT !.status = "expired"]
        BY <2>8, <3>2 DEF Marked
      <4>2. /\ entries'[id].word = entries[id].word /\ entries'[id].status = "expired"
            /\ entries'[id] \in Row
        BY <2>1, <4>1 DEF Row
      <4>. QED BY <2>8, <3>2, <4>2 DEF Undisturbed, Expired, Present
    <3>. QED BY <3>1, <3>2
  <2>9. ASSUME NEW k \in Workers, batch'[k] = {}, Marked({j \in batch[k] : Present(j)})
        PROVE  Undisturbed(id) \/ Raced
    <3>1. CASE id \in batch[k] /\ k \in raced
      BY <2>9, <3>1
    <3>2. CASE ~(id \in batch[k] /\ k \in raced)
      <4>1. id \in batch[k] => Due(id)
        BY <1>1, <3>2 DEF PInv, BatchKnown
      <4>. QED BY <2>8, <2>9, <4>1
    <3>. QED BY <3>1, <3>2
  <2>10. ASSUME NEW b \in Batches, Marked(b) PROVE Undisturbed(id)
    BY <2>8, <2>10 DEF Batches
  <2>. HIDE DEF Raced
  <2>11. Undisturbed(id) \/ Raced
    BY <1>1, <2>4, <2>5, <2>6, <2>7, <2>9, <2>10, OnlyWrites DEF Writes
  <2>. QED BY <2>11 DEF Raced
<1>2. PInv /\ [PgNext]_pgVars =>
        [\A id \in Ids : Active(id) =>
            \/ Undisturbed(id)
            \/ \E c \in Clients \cap raced : tx[c].at = "write" /\ tx[c].id = id /\ tx'[c] = NoTx
            \/ \E k \in Workers \cap raced : id \in batch[k] /\ batch'[k] = {}]_pgVars
  BY <1>1
<1>. QED BY <1>2, PgInvariance, PTL DEF PgSpec, DisturbedOnlyInRaces

\* On libSQL every step is a step of the directory of words, as on SQLite, although
\* its transactions take no lock when they begin (libsql.go:19-23): whoever loses a
\* race gets a database error and leaves the table as it is.
THEOREM LibsqlImplementsDirectory == PgSpec => LibsqlKeepsDirectory
<1>1. ASSUME PInv, [PgNext]_pgVars, driver = "libsql" PROVE Effect
  <2>1. ASSUME NEW c \in Clients, NEW j \in Ids \ minted, NEW row \in Row, Inserted(c, j, row)
        PROVE  Effect
    BY <2>1 DEF Inserted, Effect, Growth
  <2>2. ASSUME NEW c \in Clients, NEW row \in Row, tx[c].at = "write",
               tx[c].op # "store_entry", Updated(c, row)
        PROVE  Effect
    <3>1. c \notin raced
      BY <1>1, <2>2 DEF Updated, Stale
    <3>. QED BY <1>1, <2>2, <3>1, UnracedUpdate DEF Effect, Growth
  <2>3. ASSUME NEW k \in Workers, batch[k] # {} PROVE FALSE
    BY <1>1, <2>3 DEF PInv, BatchKnown
  <2>4. ASSUME NEW b \in Batches, b # {}, Marked(b) PROVE Effect
    <3>1. b \in SUBSET Ids /\ \A id \in b : Due(id)
      BY <2>4 DEF Batches
    <3>. QED BY <2>4, <3>1 DEF Marked, Swept, Effect, Growth
  <2>. QED BY <1>1, <2>1, <2>2, <2>3, <2>4, OnlyWrites DEF Writes, Effect, Growth
<1>2. PInv /\ [PgNext]_pgVars => [driver = "libsql" => Directory!DirNext]_<<Life, Name>>
  BY <1>1, EffectIsDirectoryStep DEF PInv
<1>. QED BY <1>2, PgInvariance, PTL DEF PgSpec, LibsqlKeepsDirectory

\* Only an INSERT of the client itself changes what it stored without an answer.
LEMMA UnheardStep ==
    ASSUME PInv, [PgNext]_pgVars, NEW c \in Clients, unheard'[c] # unheard[c]
    PROVE  InsertAndCommit(c) \/ CommitUnheard(c)
<1>1. unheard \in [Clients -> minted \cup {NoId}]
  BY DEF PInv, PgRange
<1>2. ASSUME UNCHANGED unheard PROVE FALSE
  BY <1>2
<1>3. ASSUME NEW d \in Clients, InsertAndCommit(d) \/ CommitUnheard(d) PROVE d = c
  <2>1. UNCHANGED unheard \/ \E u : unheard' = [unheard EXCEPT ![d] = u]
    BY <1>3 DEF InsertAndCommit, CommitUnheard
  <2>. QED BY <1>1, <2>1
<1>4. ASSUME NEW d \in Clients,
             \/ \E w \in RequestWords, ttl \in TTLArgs : PgStoreEntry(d, w, ttl)
             \/ \E id \in Ids, ttl \in TTLArgs : PgRestoreEntry(d, id, ttl)
             \/ \E ref \in Refs, ttl \in TTLArgs : PgUpdateExpiration(d, ref, ttl)
      PROVE  UNCHANGED unheard
  BY <1>4 DEF PgStoreEntry, PgRestoreEntry, PgUpdateExpiration, FirstFrame
<1>5. ASSUME NEW d \in Clients, Probe(d) \/ UpdateAndCommit(d) \/ PgDeleteFound(d) \/ Abort(d)
      PROVE  UNCHANGED unheard
  BY <1>5 DEF Probe, UpdateAndCommit, PgDeleteFound, Abort
<1>6. ASSUME NEW d \in Clients, NEW ref \in Refs, PgDeleteEntry(d, ref)
      PROVE  UNCHANGED unheard
  BY <1>6 DEF PgDeleteEntry
<1>7. ASSUME NEW k \in Workers, SelectBatch(k) \/ UpdateBatch(k) \/ SweepLibSQL(k)
      PROVE  UNCHANGED unheard
  BY <1>7 DEF SelectBatch, UpdateBatch, SweepLibSQL, Mark
<1>8. CASE PgTick \/ UNCHANGED pgVars
  BY <1>2, <1>8 DEF PgTick, pgVars
<1>. QED BY <1>2, <1>3, <1>4, <1>5, <1>6, <1>7, <1>8 DEF PgNext

\* A client that repeats a store_entry whose COMMIT it did not hear of is told of
\* the collision with its own first entry (entry_service.go:120-122).
THEOREM RetriesAreReported == PgSpec => RetryIsReported
<1>1. ASSUME PInv, [PgNext]_pgVars, NEW c \in Clients, NEW first \in Ids,
             unheard[c] = first, unheard'[c] = NoId, Active(first)',
             entries'[first].word = tx[c].base
      PROVE  reply'.original = tx[c].base
  <2>1. first # NoId /\ first \in minted /\ entries \in [Ids -> Row \cup {NoRow}]
    BY <1>1 DEF PInv, PgRange, DInv, IInv, TypeOK
  <2>2. InsertAndCommit(c)
    <3>1. ~CommitUnheard(c)
      BY <1>1, <2>1 DEF CommitUnheard
    <3>. QED BY <1>1, <2>1, <3>1, UnheardStep
  <2>3. ~Refused(c)
    BY <1>1, <2>1 DEF Refused
  <2>4. PICK id \in Ids \ minted, row \in Row :
           /\ Inserted(c, id, row)
           /\ Accept("store_entry", id, row.word, IF tx[c].try > 1 THEN tx[c].base ELSE <<>>)
    BY <1>1, <2>2, <2>3, InsertOutcome
  <2>5. entries' = [entries EXCEPT ![id] = row] /\ ~Conflict(id, row.word, "active") /\ id # first
    BY <2>1, <2>4 DEF Inserted, Stored, Takes, Write
  <2>6. Present(first) /\ entries[first].status = "active" /\ entries[first].word = tx[c].base
    BY <1>1, <2>1, <2>5 DEF Active, Present
  <2>7. row.word # tx[c].base
    BY <2>5, <2>6 DEF Conflict
  <2>8. tx[c].try \in 1 .. MaxCollisionAttempts
    BY <1>1, <2>2, InProgress DEF InsertAndCommit
  <2>9. tx[c].try # 1
    BY <2>4, <2>7 DEF Inserted, Word, Candidate
  <2>10. tx[c].try > 1
    BY <2>8, <2>9
  <2>. QED BY <2>4, <2>10 DEF Accept
<1>2. PInv /\ [PgNext]_pgVars =>
        [\A c \in Clients, first \in Ids :
            /\ unheard[c] = first /\ unheard'[c] = NoId
            /\ Active(first)' /\ entries'[first].word = tx[c].base
            => reply'.original = tx[c].base]_pgVars
  BY <1>1
<1>. QED BY <1>2, PgInvariance, PTL DEF PgSpec, RetryIsReported
=============================================================================
