----------------------------- MODULE FileProofs -----------------------------
(***************************************************************************)
(* An entry and its file go together: RowKeepsFileById and ObjectHasRow for *)
(* any number of entries, clients, faults and restarts.                     *)
(*                                                                          *)
(* Neither is inductive. A late upload is harmless only because every URL   *)
(* belongs to an id that was handed out for a file (UploadsKnown), and a    *)
(* delete that is past the bucket leaves nothing behind only because it     *)
(* still remembers the entry whose object it removed (CallsKnown).          *)
(***************************************************************************)
EXTENDS FileService, DirectoryProofs

USE IdsAssumption, WordsAssumption, TTLAssumption, LimitsAssumption, ShapeAssumption,
    FileAssumption

-----------------------------------------------------------------------------
(* The invariant *)

FileRange ==
    /\ objects \cup urls \cup uploading \cup uploaded \cup stray \subseteq Ids
    /\ bereft \subseteq Ids \cup {NoId} /\ byWord \subseteq Ids /\ filesOn \in BOOLEAN
    /\ call \in [Clients -> [at : {"idle", "object", "row"}, ref : Refs \cup {<<>>},
                             id : Ids \cup {NoId}]]

\* Files come by way of a URL, and a URL is made for an entry that is a file.
UploadsKnown ==
    /\ objects \subseteq uploaded /\ uploaded \subseteq urls /\ uploading \subseteq urls
    /\ urls \subseteq minted
    /\ \A id \in urls : Present(id) => entries[id].type = "file"

\* A delete by UUID that saw a file is about that file, and past the bucket its
\* object is gone or known to be stray. One that saw no file will remove none,
\* or is known to strand its object.
CallKnown(c) ==
    LET ref == call[c].ref
        id == call[c].id
    IN  /\ call[c].at # "idle" => ref \in Refs
        /\ call[c].at = "object" => id \in Ids
        /\ call[c].at # "idle" /\ id \in Ids /\ ref \in Ids => id = ref
        /\ call[c].at = "row" /\ id \in Ids =>
              (id \in objects => id \in stray) /\ (ref \in Ids \/ id \in byWord)
        /\ call[c].at = "row" /\ id \notin Ids /\ ref \in Ids =>
              ref \in minted /\ (IsFile(ref) => ref \in stray)

CallsKnown == \A c \in Clients : CallKnown(c)

FInv == DInv /\ FileRange /\ UploadsKnown /\ CallsKnown /\ RowKeepsFileById /\ ObjectHasRow

LEMMA InitFInv == FileInit => FInv
<1>. SUFFICES ASSUME FileInit PROVE FInv
  OBVIOUS
<1>1. DInv
  BY InitDInv DEF FileInit
<1>2. FileRange
  BY DEF FileInit, FileRange, NoCall
<1>3. UploadsKnown
  BY DEF FileInit, UploadsKnown
<1>4. CallsKnown
  BY DEF FileInit, CallsKnown, CallKnown, NoCall
<1>5. RowKeepsFileById /\ ObjectHasRow
  BY DEF FileInit, RowKeepsFileById, ObjectHasRow
<1>. QED BY <1>1, <1>2, <1>3, <1>4, <1>5 DEF FInv

-----------------------------------------------------------------------------
(* What the steps do to the table *)

\* upload_file adds at most one row, a file's.
LEMMA UploadGrows ==
    ASSUME DInv, NEW w \in RequestWords, NEW ok \in BOOLEAN, NEW ttl \in TTLArgs,
           UploadFile(w, ok, ttl)
    PROVE  /\ DInv' /\ Growth
           /\ urls' = urls \cup (urls' \ urls)
           /\ \A id \in urls' \ urls :
                 id \in Ids /\ id \in minted' \ minted /\ entries'[id].type = "file"
<1>1. UNCHANGED <<now, deleting>> /\ "upload_file" \in Ops /\ w \in Words
  BY DEF UploadFile, Ops
<1>2. deleting' \in [Clients -> Deletions]
  BY <1>1 DEF DInv, IInv, TypeOK
<1>3. ASSUME NEW err \in Errors, Refuse("upload_file", err), UNCHANGED urls
      PROVE  DInv' /\ Growth /\ urls' \ urls = {}
  <2>1. Growth
    BY <1>3 DEF Refuse, Growth
  <2>2. IInv'
    BY <1>1, <1>2, <1>3, RefuseKeepsInv DEF DInv
  <2>3. RowsAreMinted'
    BY <2>1, EffectKeepsMinted DEF DInv, Effect
  <2>. QED BY <1>3, <2>1, <2>2, <2>3 DEF DInv
<1>4. CASE UploadRefusal(w, ok, ttl) # "none"
  <2>1. UploadRefusal(w, ok, ttl) \in Errors
    BY DEF UploadRefusal, Errors
  <2>2. Refuse("upload_file", UploadRefusal(w, ok, ttl)) /\ UNCHANGED urls
    BY <1>4 DEF UploadFile
  <2>. QED BY <1>3, <2>1, <2>2
<1>5. CASE Refuse("upload_file", "ErrPresign") /\ UNCHANGED urls
  <2>1. "ErrPresign" \in Errors
    BY DEF Errors
  <2>. QED BY <1>3, <1>5, <2>1
<1>6. CASE /\ UploadRefusal(w, ok, ttl) = "none"
           /\ StoreTx("upload_file", w, "file", ttl) /\ urls' = urls \cup (minted' \ minted)
  <2>1. ValidTTL(ttl)
    BY <1>6 DEF UploadRefusal
  <2>2. Growth
    BY <1>1, <1>6, <2>1, StoreTxEffect DEF DInv
  <2>3. IInv'
    BY <1>1, <1>6, <2>1, StoreTxKeepsInv DEF DInv
  <2>4. RowsAreMinted'
    BY <2>2, EffectKeepsMinted DEF DInv, Effect
  <2>5. ASSUME NEW id \in minted' \ minted
        PROVE  id \in Ids /\ entries'[id].type = "file"
    BY <1>6, <2>5 DEF StoreTx, Store, Refuse, DInv, IInv, TypeOK
  <2>. QED BY <1>6, <2>2, <2>3, <2>4, <2>5 DEF DInv
<1>. QED BY <1>3, <1>4, <1>5, <1>6 DEF UploadFile

\* download_file changes nothing.
LEMMA DownloadGrows ==
    ASSUME DInv, NEW w \in RequestWords, DownloadFile(w)
    PROVE  DInv' /\ Growth
<1>1. UNCHANGED <<now, deleting, entries, minted>>
  BY DEF DownloadFile, Refuse
<1>2. "download_file" \in Ops
  BY DEF Ops
<1>3. w \in Words /\ <<>> \in Words
  BY DEF Words
<1>4. reply' \in Answers
  <2>1. CASE \E id \in Ids : Accept("download_file", id, w, <<>>)
    BY <1>2, <1>3, <2>1, AcceptType
  <2>2. CASE \E err \in {"ErrInvalidWord", "ErrNotFound", "ErrNotAFileEntry", "ErrPresign"} :
               Refuse("download_file", err)
    <3>1. PICK err \in Errors : Refuse("download_file", err)
      BY <2>2 DEF Errors
    <3>. QED BY <1>2, <1>3, <3>1 DEF Refuse, NoReply, Answers, Errors
  <2>. QED BY <2>1, <2>2 DEF DownloadFile, GetByWord
<1>. QED BY <1>1, <1>4 DEF DInv, IInv, TypeOK, UniqueWordStatus, RowsAreMinted, Present, Growth

\* The tools for text entries, the sweep and the clock.
LEMMA EntriesGrow ==
    ASSUME DInv, Entries
    PROVE  DInv' /\ Growth /\ UNCHANGED <<deleting, fileVars>>
<1>1. [Next]_vars
  BY DEF Entries, Next, Refs
<1>2. DInv'
  BY <1>1, NextKeepsDInv
<1>3. Growth
  <2>1. ASSUME NEW w \in RequestWords, NEW ttl \in TTLArgs, StoreEntry(w, "fits", ttl)
        PROVE  Growth
    BY <2>1, StoreEntryEffect DEF DInv
  <2>2. ASSUME NEW ref \in Ids, NEW ttl \in TTLArgs, RestoreEntry(ref, ttl) PROVE Growth
    BY <2>2, RestoreEffect DEF DInv, Refs
  <2>3. ASSUME NEW ref \in Ids, NEW ttl \in TTLArgs, UpdateExpiration(ref, ttl) PROVE Growth
    BY <2>3, UpdateExpirationEffect DEF DInv, Refs
  <2>4. CASE Sweep
    BY <2>4, SweepEffect
  <2>5. CASE Tick
    BY <2>5 DEF Tick, Growth
  <2>. QED BY <2>1, <2>2, <2>3, <2>4, <2>5 DEF Entries
<1>4. UNCHANGED <<deleting, fileVars>>
  BY DEF Entries, StoreEntry, RestoreEntry, UpdateExpiration, Sweep, Tick
<1>. QED BY <1>2, <1>3, <1>4

-----------------------------------------------------------------------------
(* Steps that do not delete *)

\* A table that only grows, and new URLs only for new files, keep the invariant.
LEMMA GrowthKeepsFInv ==
    ASSUME FInv, DInv', Growth,
           UNCHANGED <<deleting, objects, uploading, call, filesOn, uploaded, stray,
                       bereft, byWord>>,
           NEW new, urls' = urls \cup new,
           \A id \in new : id \in Ids /\ id \in minted' \ minted /\ entries'[id].type = "file"
    PROVE  FInv'
<1>. USE DEF FInv
<1>1. Effect /\ minted \subseteq minted'
  BY MintedGrows DEF Effect
<1>2. minted \subseteq Ids
  BY DEF DInv, IInv, TypeOK
<1>3. ASSUME NEW id \in Ids, Present(id)
      PROVE  Present(id)' /\ entries'[id].type = entries[id].type
  BY <1>3, GrowthKeepsRows
<1>4. ASSUME NEW id \in minted, Present(id)' PROVE Present(id)
  BY <1>1, <1>4, GoneStaysGone
<1>5. ASSUME NEW id \in minted, IsFile(id)' PROVE IsFile(id)
  BY <1>2, <1>3, <1>4, <1>5 DEF IsFile
<1>6. FileRange'
  BY DEF FileRange
<1>7. UploadsKnown'
  <2>1. urls' \subseteq minted'
    BY <1>1 DEF UploadsKnown
  <2>2. ASSUME NEW id \in urls, Present(id)' PROVE entries'[id].type = "file"
    <3>1. id \in minted
      BY DEF UploadsKnown
    <3>. QED BY <1>2, <1>3, <1>4, <2>2, <3>1 DEF UploadsKnown
  <2>. QED BY <2>1, <2>2 DEF UploadsKnown
<1>8. CallsKnown'
  <2>. SUFFICES ASSUME NEW c \in Clients PROVE CallKnown(c)'
    BY DEF CallsKnown
  <2>1. CallKnown(c)
    BY DEF CallsKnown
  <2>. QED BY <1>1, <1>5, <2>1 DEF CallKnown
<1>9. RowKeepsFileById'
  BY <1>5 DEF RowKeepsFileById, MayBeMissing, UnderDelete, UploadsKnown
<1>10. ObjectHasRow'
  BY <1>3 DEF ObjectHasRow, FileRange
<1>. QED BY <1>6, <1>7, <1>8, <1>9, <1>10

\* An object arrives, for a row that is there or not.
LEMMA PutKeepsFInv ==
    ASSUME FInv, NEW id \in urls, PutObject(id), uploading' \subseteq uploading
    PROVE  FInv'
<1>. USE DEF FInv
<1>1. /\ UNCHANGED <<vars, urls, call, filesOn, bereft, byWord>>
      /\ objects' = objects \cup {id} /\ uploaded' = uploaded \cup {id}
      /\ stray' = IF Present(id) /\ ~UnderDelete(id) THEN stray ELSE stray \cup {id}
  BY DEF PutObject
<1>2. DInv'
  BY <1>1 DEF DInv, IInv, TypeOK, UniqueWordStatus, RowsAreMinted, Present, vars
<1>3. FileRange'
  BY <1>1 DEF FileRange
<1>4. UploadsKnown'
  BY <1>1 DEF UploadsKnown, Present, vars
<1>5. CallsKnown'
  <2>. SUFFICES ASSUME NEW c \in Clients PROVE CallKnown(c)'
    BY DEF CallsKnown
  <2>1. CallKnown(c)
    BY DEF CallsKnown
  <2>2. call[c].at = "row" /\ call[c].id = id => id \in stray'
    BY <1>1 DEF UnderDelete
  <2>. QED BY <1>1, <2>1, <2>2 DEF CallKnown, IsFile, Present, vars
<1>6. RowKeepsFileById'
  BY <1>1 DEF RowKeepsFileById, MayBeMissing, UnderDelete, IsFile, Present, vars
<1>7. ObjectHasRow'
  BY <1>1 DEF ObjectHasRow, Present, vars
<1>. QED BY <1>2, <1>3, <1>4, <1>5, <1>6, <1>7

\* The proxy has found the entry of a URL.
LEMMA ProxyStartKeepsFInv ==
    ASSUME FInv, NEW id \in Ids, ProxyUploadStart(id)
    PROVE  FInv'
<1>. USE DEF FInv, ProxyUploadStart
<1>1. DInv'
  BY DEF DInv, IInv, TypeOK, UniqueWordStatus, RowsAreMinted, Present, vars
<1>2. FileRange' /\ UploadsKnown'
  BY DEF FileRange, UploadsKnown, Present, vars
<1>3. CallsKnown'
  BY DEF CallsKnown, CallKnown, IsFile, Present, vars
<1>4. RowKeepsFileById' /\ ObjectHasRow'
  BY DEF RowKeepsFileById, ObjectHasRow, MayBeMissing, UnderDelete, IsFile, Present, vars
<1>. QED BY <1>1, <1>2, <1>3, <1>4

-----------------------------------------------------------------------------
(* delete_entry, up to the row *)

LEMMA DeleteCallKeepsFInv ==
    ASSUME FInv, NEW c \in Clients, NEW ref \in DeleteRefs, DeleteCall(c, ref)
    PROVE  FInv'
<1>. USE DEF FInv
<1>. DEFINE files == {id \in IF ref = <<>> THEN {} ELSE Lookup(ref) : IsFile(id)}
            skip == call' = [call EXCEPT ![c] = [at |-> "row", ref |-> ref, id |-> NoId]]
<1>1. /\ UNCHANGED <<vars, objects, urls, uploading, filesOn, uploaded, bereft, byWord>>
      /\ call[c] = NoCall /\ ref \in Refs /\ (ref \in Ids => ref \in minted)
  BY DEF DeleteCall
<1>2. files \subseteq Ids /\ (ref \in Ids => files \subseteq {ref})
  BY DEF Lookup, GetByWord
<1>3. ref \in Ids /\ IsFile(ref) => ref \in files
  <2>1. <<>> \in Words
    BY DEF Words
  <2>. QED BY <2>1 DEF Lookup, IsFile
<1>4. \/ skip /\ (files = {} \/ stray' = stray \cup files) /\ stray' \in {stray, stray \cup files}
      \/ /\ \E id \in files :
               call' = [call EXCEPT ![c] = [at |-> "object", ref |-> ref, id |-> id]]
         /\ UNCHANGED stray
  BY DEF DeleteCall
<1>. HIDE DEF files
<1>5. DInv'
  BY <1>1 DEF DInv, IInv, TypeOK, UniqueWordStatus, RowsAreMinted, Present, vars
<1>6. FileRange'
  BY <1>1, <1>2, <1>4 DEF FileRange
<1>7. UploadsKnown'
  BY <1>1 DEF UploadsKnown, Present, vars
<1>8. call \in [Clients -> [at : {"idle", "object", "row"}, ref : Refs \cup {<<>>},
                             id : Ids \cup {NoId}]]
  BY DEF FileRange
<1>9. stray \subseteq stray'
  BY <1>4
<1>10. CallsKnown'
  <2>. SUFFICES ASSUME NEW d \in Clients PROVE CallKnown(d)'
    BY DEF CallsKnown
  <2>1. CallKnown(d)
    BY DEF CallsKnown
  <2>2. CASE d # c
    <3>1. call'[d] = call[d]
      BY <1>4, <1>8, <2>2
    <3>. QED BY <1>1, <1>9, <2>1, <3>1 DEF CallKnown, IsFile, Present, vars
  <2>3. CASE d = c /\ skip /\ (files = {} \/ stray' = stray \cup files)
    <3>1. call'[c] = [at |-> "row", ref |-> ref, id |-> NoId]
      BY <1>8, <2>3
    <3>2. ref \in Ids /\ IsFile(ref) => ref \in stray'
      BY <1>3, <2>3
    <3>. QED BY <1>1, <2>3, <3>1, <3>2 DEF CallKnown, IsFile, Present, vars
  <2>4. CASE d = c /\ \E id \in files :
               call' = [call EXCEPT ![c] = [at |-> "object", ref |-> ref, id |-> id]]
    <3>1. PICK id \in files : call'[c] = [at |-> "object", ref |-> ref, id |-> id]
      BY <1>8, <2>4
    <3>. QED BY <1>1, <1>2, <2>4, <3>1 DEF CallKnown
  <2>. QED BY <1>4, <2>2, <2>3, <2>4
<1>11. ASSUME NEW id, UnderDelete(id), id \in Ids PROVE UnderDelete(id)'
  BY <1>1, <1>4, <1>8, <1>11 DEF UnderDelete, NoCall, vars
<1>12. RowKeepsFileById'
  BY <1>1, <1>11 DEF RowKeepsFileById, MayBeMissing, IsFile, Present, vars, FileRange
<1>13. ObjectHasRow'
  BY <1>1, <1>9 DEF ObjectHasRow, Present, vars
<1>. QED BY <1>5, <1>6, <1>7, <1>10, <1>12, <1>13

LEMMA DeleteFileObjectKeepsFInv ==
    ASSUME FInv, NEW c \in Clients, DeleteFileObject(c)
    PROVE  FInv'
<1>. USE DEF FInv
<1>. DEFINE id == call[c].id
<1>1. /\ UNCHANGED <<vars, urls, uploading, filesOn, uploaded, bereft>>
      /\ call[c].at = "object" /\ call' = [call EXCEPT ![c].at = "row"]
      /\ \/ objects' = objects \ {id} /\ UNCHANGED stray
         \/ objects' = objects /\ stray' = stray \cup {id}
      /\ byWord' = IF call[c].ref \in Ids THEN byWord ELSE byWord \cup {id}
  BY DEF DeleteFileObject
<1>2. CallKnown(c) /\ id \in Ids
  BY <1>1 DEF CallsKnown, CallKnown
<1>3. call \in [Clients -> [at : {"idle", "object", "row"}, ref : Refs \cup {<<>>},
                             id : Ids \cup {NoId}]]
  BY DEF FileRange
<1>4. call'[c] = [at |-> "row", ref |-> call[c].ref, id |-> id]
  BY <1>1, <1>3
<1>5. \A d \in Clients \ {c} : call'[d] = call[d]
  BY <1>1, <1>3
<1>6. call' \in [Clients -> [at : {"idle", "object", "row"}, ref : Refs \cup {<<>>},
                              id : Ids \cup {NoId}]]
  BY <1>1, <1>3
<1>. HIDE DEF id
<1>7. DInv'
  BY <1>1 DEF DInv, IInv, TypeOK, UniqueWordStatus, RowsAreMinted, Present, vars
<1>8. FileRange'
  BY <1>1, <1>2, <1>6 DEF FileRange
<1>9. UploadsKnown'
  BY <1>1 DEF UploadsKnown, Present, vars
<1>10. CallsKnown'
  <2>. SUFFICES ASSUME NEW d \in Clients PROVE CallKnown(d)'
    BY DEF CallsKnown
  <2>1. CallKnown(d)
    BY DEF CallsKnown
  <2>2. CASE d # c
    BY <1>1, <1>5, <2>1, <2>2 DEF CallKnown, IsFile, Present, vars
  <2>3. CASE d = c
    <3>1. call[c].ref \in Refs /\ (call[c].ref \in Ids => id = call[c].ref)
      BY <1>1, <1>2 DEF CallKnown, id
    <3>. QED BY <1>1, <1>2, <1>4, <2>3, <3>1 DEF CallKnown
  <2>. QED BY <2>2, <2>3
<1>11. ASSUME NEW k \in Ids, UnderDelete(k) \/ k = id PROVE UnderDelete(k)'
  BY <1>1, <1>4, <1>5, <1>11 DEF UnderDelete, vars
<1>12. RowKeepsFileById'
  BY <1>1, <1>11 DEF RowKeepsFileById, MayBeMissing, IsFile, Present, vars, FileRange
<1>13. ObjectHasRow'
  BY <1>1 DEF ObjectHasRow, Present, vars
<1>. QED BY <1>7, <1>8, <1>9, <1>10, <1>12, <1>13

-----------------------------------------------------------------------------
(* delete_entry, the row *)

\* The entry whose object a call removed has lost its row when the call is done
\* with it, or the call was by word.
LEMMA DeleteRowKeepsFInv ==
    ASSUME FInv, NEW c \in Clients, DeleteRow(c)
    PROVE  FInv'
<1>. USE DEF FInv
<1>. DEFINE ref == call[c].ref
<1>1. /\ UNCHANGED <<objects, urls, uploading, filesOn, uploaded, stray, bereft, byWord>>
      /\ call[c].at = "row" /\ call' = [call EXCEPT ![c] = NoCall] /\ DeleteEntry(c, ref)
  BY DEF DeleteRow
<1>2. CallKnown(c) /\ ref \in Refs
  BY <1>1 DEF CallsKnown, CallKnown
<1>. HIDE DEF ref
<1>3. [Next]_vars
  BY <1>1, <1>2 DEF Next
<1>4. DInv'
  BY <1>3, NextKeepsDInv
<1>5. call \in [Clients -> [at : {"idle", "object", "row"}, ref : Refs \cup {<<>>},
                             id : Ids \cup {NoId}]]
  BY DEF FileRange
<1>6. call'[c] = NoCall /\ \A d \in Clients \ {c} : call'[d] = call[d]
  BY <1>1, <1>5
<1>7. FileRange'
  BY <1>1, <1>5 DEF FileRange, NoCall
<1>8. entries \in [Ids -> Row \cup {NoRow}] /\ deleting \in [Clients -> Deletions]
  BY DEF DInv, IInv, TypeOK
<1>9. /\ UNCHANGED minted
      /\ \/ UNCHANGED entries /\ (ref \in Ids => ~Present(ref))
         \/ ref \in Ids /\ Present(ref) /\ entries' = [entries EXCEPT ![ref] = NoRow]
  BY <1>1 DEF DeleteEntry, Delete, Refuse
<1>10. ASSUME NEW k \in Ids, Present(k)' PROVE Present(k) /\ entries'[k] = entries[k] /\ k # ref
  BY <1>8, <1>9, <1>10 DEF Present
<1>11. ASSUME NEW k \in Ids, Present(k), ~Present(k)' PROVE k = ref
  BY <1>8, <1>9, <1>11 DEF Present
<1>12. UploadsKnown'
  BY <1>1, <1>9, <1>10 DEF UploadsKnown, FileRange
<1>13. ASSUME NEW k \in Ids, IsFile(k)' PROVE IsFile(k)
  BY <1>10, <1>13 DEF IsFile
<1>14. CallsKnown'
  <2>. SUFFICES ASSUME NEW d \in Clients PROVE CallKnown(d)'
    BY DEF CallsKnown
  <2>1. CallKnown(d)
    BY DEF CallsKnown
  <2>2. CASE d # c
    BY <1>1, <1>6, <1>9, <1>13, <2>1, <2>2 DEF CallKnown
  <2>3. CASE d = c
    BY <1>6, <2>3 DEF CallKnown, NoCall
  <2>. QED BY <2>2, <2>3
<1>15. ASSUME NEW k \in Ids \ byWord, Present(k)', UnderDelete(k) PROVE UnderDelete(k)'
  <2>1. PICK d \in Clients : deleting[d].id = k \/ (call[d].at = "row" /\ call[d].id = k)
    BY <1>15 DEF UnderDelete
  <2>2. CASE deleting[d].id = k
    <3>1. deleting[d] # NoDelete
      BY <2>2 DEF NoDelete
    <3>2. /\ deleting[c] = NoDelete
          /\ \/ deleting' = deleting
             \/ \E r : deleting' = [deleting EXCEPT ![c] = r]
      BY <1>1 DEF DeleteEntry
    <3>3. deleting'[d] = deleting[d]
      BY <1>8, <3>1, <3>2
    <3>. QED BY <2>2, <3>3 DEF UnderDelete
  <2>3. CASE call[d].at = "row" /\ call[d].id = k
    <3>1. d # c
      BY <1>2, <1>10, <1>15, <2>3 DEF CallKnown, ref
    <3>. QED BY <1>6, <2>3, <3>1 DEF UnderDelete
  <2>. QED BY <2>1, <2>2, <2>3
<1>16. RowKeepsFileById'
  <2>. SUFFICES ASSUME NEW k \in uploaded \ byWord, IsFile(k)'
                PROVE  k \in objects \/ k \in bereft \/ UnderDelete(k)'
    BY <1>1 DEF RowKeepsFileById, MayBeMissing
  <2>1. k \in Ids /\ Present(k)'
    BY DEF FileRange, IsFile
  <2>. QED BY <1>13, <1>15, <2>1 DEF RowKeepsFileById, MayBeMissing
<1>17. ObjectHasRow'
  <2>. SUFFICES ASSUME NEW k \in objects, ~Present(k)' PROVE k \in stray \cup byWord
    BY <1>1 DEF ObjectHasRow
  <2>1. CASE Present(k)
    <3>1. k \in Ids /\ k = ref /\ IsFile(k)
      BY <1>11, <2>1 DEF FileRange, UploadsKnown, IsFile
    <3>2. call[c].id \in Ids \cup {NoId}
      BY <1>5
    <3>. QED BY <1>1, <1>2, <3>1, <3>2 DEF CallKnown, ref
  <2>2. CASE ~Present(k)
    BY <2>2 DEF ObjectHasRow
  <2>. QED BY <2>1, <2>2
<1>. QED BY <1>4, <1>7, <1>12, <1>14, <1>16, <1>17

LEMMA DeleteRowFoundKeepsFInv ==
    ASSUME FInv, NEW c \in Clients, DeleteRowFound(c)
    PROVE  FInv'
<1>. USE DEF FInv
<1>. DEFINE id == deleting[c].id
<1>1. /\ UNCHANGED <<objects, urls, uploading, call, filesOn, uploaded, stray, bereft>>
      /\ byWord' = byWord \cup {id} /\ DeleteFound(c)
  BY DEF DeleteRowFound
<1>2. DInv'
  BY <1>1, NextKeepsDInv DEF Next
<1>3. entries \in [Ids -> Row \cup {NoRow}] /\ deleting \in [Clients -> Deletions]
  BY DEF DInv, IInv, TypeOK
<1>4. id \in Ids
  BY <1>1, <1>3 DEF DeleteFound, Deletions
<1>5. UNCHANGED minted /\ (UNCHANGED entries \/ entries' = [entries EXCEPT ![id] = NoRow])
  BY <1>1 DEF DeleteFound, Delete, Refuse
<1>6. deleting' = [deleting EXCEPT ![c] = NoDelete]
  BY <1>1 DEF DeleteFound
<1>. HIDE DEF id
<1>7. FileRange'
  BY <1>1, <1>4 DEF FileRange
<1>8. ASSUME NEW k \in Ids, Present(k)' PROVE Present(k) /\ entries'[k] = entries[k]
  BY <1>3, <1>5, <1>8 DEF Present
<1>9. ASSUME NEW k \in Ids, Present(k), ~Present(k)' PROVE k \in byWord'
  BY <1>1, <1>3, <1>5, <1>9 DEF Present
<1>10. UploadsKnown'
  BY <1>1, <1>5, <1>8 DEF UploadsKnown, FileRange
<1>11. ASSUME NEW k \in Ids, IsFile(k)' PROVE IsFile(k)
  BY <1>8, <1>11 DEF IsFile
<1>12. CallsKnown'
  BY <1>1, <1>5, <1>11 DEF CallsKnown, CallKnown
<1>13. ASSUME NEW k \in Ids \ byWord', UnderDelete(k) PROVE UnderDelete(k)'
  BY <1>1, <1>3, <1>6, <1>13 DEF UnderDelete, id
<1>14. RowKeepsFileById'
  BY <1>1, <1>11, <1>13 DEF RowKeepsFileById, MayBeMissing, FileRange
<1>15. ObjectHasRow'
  BY <1>1, <1>9 DEF ObjectHasRow, FileRange
<1>. QED BY <1>2, <1>7, <1>10, <1>12, <1>14, <1>15

LEMMA DeleteRowFailsKeepsFInv ==
    ASSUME FInv, NEW c \in Clients, DeleteRowFails(c)
    PROVE  FInv'
<1>. USE DEF FInv
<1>1. /\ UNCHANGED <<now, deleting, objects, urls, uploading, filesOn, uploaded, stray, byWord>>
      /\ call' = [call EXCEPT ![c] = NoCall]
      /\ bereft' = bereft \cup {call[c].id} /\ Refuse("delete_entry", "ErrDatabase")
  BY DEF DeleteRowFails
<1>2. UNCHANGED <<entries, minted>>
  BY <1>1 DEF Refuse
<1>3. IInv'
  <2>1. "delete_entry" \in Ops /\ "ErrDatabase" \in Errors
    BY DEF Ops, Errors
  <2>2. deleting' \in [Clients -> Deletions]
    BY <1>1 DEF DInv, IInv, TypeOK
  <2>. QED BY <1>1, <2>1, <2>2, RefuseKeepsInv DEF DInv
<1>4. DInv'
  BY <1>2, <1>3 DEF DInv, RowsAreMinted, Present
<1>5. call \in [Clients -> [at : {"idle", "object", "row"}, ref : Refs \cup {<<>>},
                             id : Ids \cup {NoId}]]
  BY DEF FileRange
<1>6. call'[c] = NoCall /\ \A d \in Clients \ {c} : call'[d] = call[d]
  BY <1>1, <1>5
<1>7. FileRange'
  BY <1>1, <1>5 DEF FileRange, NoCall
<1>8. UploadsKnown'
  BY <1>1, <1>2 DEF UploadsKnown, Present
<1>9. CallsKnown'
  <2>. SUFFICES ASSUME NEW d \in Clients PROVE CallKnown(d)'
    BY DEF CallsKnown
  <2>1. CASE d # c
    BY <1>1, <1>2, <1>6, <2>1 DEF CallsKnown, CallKnown, IsFile, Present
  <2>2. CASE d = c
    BY <1>6, <2>2 DEF CallKnown, NoCall
  <2>. QED BY <2>1, <2>2
<1>10. RowKeepsFileById'
  BY <1>1, <1>2, <1>6 DEF RowKeepsFileById, MayBeMissing, UnderDelete, IsFile, Present
<1>11. ObjectHasRow'
  BY <1>1, <1>2 DEF ObjectHasRow, Present
<1>. QED BY <1>4, <1>7, <1>8, <1>9, <1>10, <1>11

LEMMA RestartKeepsFInv ==
    ASSUME FInv, Restart
    PROVE  FInv'
<1>. USE DEF FInv
<1>1. /\ UNCHANGED <<entries, minted, now, reply, objects, urls, uploaded, stray, byWord>>
      /\ Crash /\ filesOn' \in BOOLEAN /\ uploading' = {}
      /\ call' = [c \in Clients |-> NoCall]
      /\ bereft' = bereft \cup {id \in Ids : UnderDelete(id)}
  BY DEF Restart, Crash
<1>2. DInv'
  BY <1>1, NextKeepsDInv DEF Next
<1>3. FileRange'
  BY <1>1 DEF FileRange, NoCall
<1>4. UploadsKnown'
  BY <1>1 DEF UploadsKnown, Present
<1>5. CallsKnown'
  BY <1>1 DEF CallsKnown, CallKnown, NoCall
<1>6. RowKeepsFileById'
  BY <1>1 DEF RowKeepsFileById, MayBeMissing, IsFile, Present, FileRange
<1>7. ObjectHasRow'
  BY <1>1 DEF ObjectHasRow, Present
<1>. QED BY <1>2, <1>3, <1>4, <1>5, <1>6, <1>7

-----------------------------------------------------------------------------
(* The theorems *)

LEMMA FileNextKeepsFInv == FInv /\ [FileNext]_fullVars => FInv'
<1>. SUFFICES ASSUME FInv, [FileNext]_fullVars PROVE FInv'
  OBVIOUS
<1>1. ASSUME NEW w \in RequestWords, NEW ok \in BOOLEAN, NEW ttl \in TTLArgs,
             UploadFile(w, ok, ttl)
      PROVE  FInv'
  <2>. DEFINE new == urls' \ urls
  <2>1. /\ DInv' /\ Growth /\ urls' = urls \cup new
        /\ \A id \in new : id \in Ids /\ id \in minted' \ minted /\ entries'[id].type = "file"
    BY <1>1, UploadGrows DEF FInv
  <2>2. UNCHANGED <<deleting, objects, uploading, call, filesOn, uploaded, stray, bereft, byWord>>
    BY <1>1 DEF UploadFile
  <2>. HIDE DEF new
  <2>. QED BY <2>1, <2>2, GrowthKeepsFInv
<1>2. ASSUME NEW id \in Ids, PresignedPut(id) PROVE FInv'
  BY <1>2, PutKeepsFInv DEF PresignedPut
<1>3. ASSUME NEW id \in Ids, ProxyUploadStart(id) PROVE FInv'
  BY <1>3, ProxyStartKeepsFInv
<1>4. ASSUME NEW id \in Ids, ProxyUploadPut(id) PROVE FInv'
  <2>1. id \in urls /\ uploading' \subseteq uploading /\ PutObject(id)
    BY <1>4 DEF ProxyUploadPut, FInv, UploadsKnown
  <2>. QED BY <2>1, PutKeepsFInv
<1>5. ASSUME NEW w \in RequestWords, DownloadFile(w) PROVE FInv'
  <2>1. UNCHANGED <<deleting, objects, urls, uploading, call, filesOn, uploaded, stray, bereft,
                    byWord>>
    BY <1>5 DEF DownloadFile
  <2>2. DInv' /\ Growth
    BY <1>5, DownloadGrows DEF FInv
  <2>3. urls' = urls \cup {}
    BY <2>1
  <2>. QED BY <2>1, <2>2, <2>3, GrowthKeepsFInv
<1>6. ASSUME NEW c \in Clients, NEW ref \in DeleteRefs, DeleteCall(c, ref) PROVE FInv'
  BY <1>6, DeleteCallKeepsFInv
<1>7. ASSUME NEW c \in Clients, DeleteFileObject(c) PROVE FInv'
  BY <1>7, DeleteFileObjectKeepsFInv
<1>8. ASSUME NEW c \in Clients, DeleteRow(c) \/ DeleteRowFound(c) \/ DeleteRowFails(c)
      PROVE  FInv'
  BY <1>8, DeleteRowKeepsFInv, DeleteRowFoundKeepsFInv, DeleteRowFailsKeepsFInv
<1>9. CASE Restart
  BY <1>9, RestartKeepsFInv
<1>10. CASE Entries
  <2>1. DInv' /\ Growth /\ UNCHANGED <<deleting, fileVars>>
    BY <1>10, EntriesGrow DEF FInv
  <2>2. urls' = urls \cup {}
    BY <2>1 DEF fileVars
  <2>. QED BY <2>1, <2>2, GrowthKeepsFInv DEF fileVars
<1>11. CASE UNCHANGED fullVars
  <2>1. UNCHANGED vars /\ UNCHANGED fileVars
    BY <1>11 DEF fullVars
  <2>2. DInv'
    BY <2>1, NextKeepsDInv DEF FInv
  <2>3. Growth
    BY <2>1 DEF Growth, vars
  <2>4. urls' = urls \cup {}
    BY <2>1 DEF fileVars
  <2>. QED BY <2>1, <2>2, <2>3, <2>4, GrowthKeepsFInv DEF fileVars, vars
<1>. QED BY <1>1, <1>2, <1>3, <1>4, <1>5, <1>6, <1>7, <1>8, <1>9, <1>10, <1>11 DEF FileNext

\* The table, the bucket, the calls and the uploads in flight fit together in
\* every reachable state.
THEOREM FileInvariance == FileSpec => []FInv
BY InitFInv, FileNextKeepsFInv, PTL DEF FileSpec

\* Objects, URLs and uploads are kept under the ids of entries
\* (file_service.go:96-192, upload_handler.go).
THEOREM FileTypeCorrect == FileSpec => []FileTypeOK
<1>1. FInv => FileTypeOK
  BY DEF FInv, DInv, IInv, FileRange, FileTypeOK
<1>. QED BY <1>1, FileInvariance, PTL

\* An entry that is only ever deleted by UUID keeps its file as long as it is in
\* the table, through any interleaving of uploads, deletes, sweeps and restores,
\* and any number of faults and restarts (handlers.go:291-315,
\* file_service.go:153-192).
THEOREM RowsKeepFilesById == FileSpec => []RowKeepsFileById
<1>1. FInv => RowKeepsFileById
  BY DEF FInv
<1>. QED BY <1>1, FileInvariance, PTL

\* An object whose entry is gone was left by a failed or skipped delete in the
\* bucket, by an upload that came late, or by a delete by word.
THEOREM ObjectsHaveRows == FileSpec => []ObjectHasRow
<1>1. FInv => ObjectHasRow
  BY DEF FInv
<1>. QED BY <1>1, FileInvariance, PTL
=============================================================================
