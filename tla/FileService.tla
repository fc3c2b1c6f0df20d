----------------------------- MODULE FileService -----------------------------
(***************************************************************************)
(* File entries: the table of EntryStore together with the S3 bucket, the   *)
(* upload_file, download_file and delete_entry tools, presigned URLs and    *)
(* the upload proxy.                                                        *)
(*                                                                          *)
(* The bucket takes part in no transaction. delete_entry resolves the       *)
(* reference, deletes the object and then runs DeleteEntry of EntryStore,   *)
(* which for a word resolves it a second time; an upload happens whenever   *)
(* the holder of a URL sends the file. The key of an object contains the    *)
(* id of its entry, so the bucket is the set of the ids with an object.     *)
(***************************************************************************)
EXTENDS EntryStore

CONSTANTS
    DeleteRefs,  \* the references clients give to delete_entry
    MaxFaults    \* bound: failing calls to S3 or the database, and restarts

ASSUME FileAssumption ==
    DeleteRefs \subseteq Refs /\ MaxFaults \in Nat

VARIABLES
    objects,    \* the bucket: ids of the entries with an object
    urls,       \* ids with a PUT URL, presigned or of the proxy; that a URL expires
                \* only takes possible steps away and is left out
    uploading,  \* ids the upload proxy looked up and has not yet stored
    call,       \* client -> progress of its delete_entry call
    filesOn,    \* the bucket's client came up at the start: else no file service
    faults,
    uploaded,   \* history: ids whose file was stored at some time
    stray,      \* history: ids whose object outlives them for a known reason
    bereft,     \* history: ids whose object went, with a fault keeping the row
    byWord      \* history: ids that lost object or row to a delete_entry by word

fileVars == <<objects, urls, uploading, call, filesOn, faults, uploaded, stray, bereft, byWord>>
fullVars == <<vars, fileVars>>

NoCall == [at |-> "idle", ref |-> <<>>, id |-> NoId]

IsFile(id) == Present(id) /\ entries[id].type = "file"

\* A delete_entry call is past the bucket and not yet done with the row of id.
UnderDelete(id) ==
    \E c \in Clients : deleting[c].id = id \/ (call[c].at = "row" /\ call[c].id = id)

-----------------------------------------------------------------------------
(* upload_file and the ways a file reaches the bucket *)

UploadRefusal(w, filenameOK, ttl) ==
    IF ~ValidateWord(w) THEN "ErrInvalidWord"
    ELSE IF ~filenameOK THEN "ErrInvalidFilename"
    ELSE IF ~ValidTTL(ttl) THEN "ErrInvalidTTL"
    ELSE "none"

\* Store the row and presign the URL in one transaction: a failing presigner
\* rolls the row back.
UploadFile(w, filenameOK, ttl) ==
    /\ filesOn
    /\ LET err == UploadRefusal(w, filenameOK, ttl) IN
       \/ /\ err # "none"
          /\ Refuse("upload_file", err) /\ UNCHANGED <<urls, faults>>
       \/ /\ err = "none"
          /\ StoreTx("upload_file", w, "file", ttl)
          /\ urls' = urls \cup (minted' \ minted)
          /\ UNCHANGED faults
       \/ /\ err = "none" /\ FreeAttempts(w) # {} /\ faults < MaxFaults
          /\ faults' = faults + 1
          /\ Refuse("upload_file", "ErrPresign") /\ UNCHANGED urls
    /\ UNCHANGED <<now, deleting, objects, uploading, call, filesOn, uploaded, stray, bereft, byWord>>

\* The object of id is written, whatever became of its entry. It is stray if
\* the row is gone or a delete_entry call has already been past the bucket.
PutObject(id) ==
    /\ objects' = objects \cup {id}
    /\ uploaded' = uploaded \cup {id}
    /\ stray' = IF Present(id) /\ ~UnderDelete(id) THEN stray ELSE stray \cup {id}
    /\ UNCHANGED <<vars, urls, call, filesOn, faults, bereft, byWord>>

PresignedPut(id) == id \in urls /\ PutObject(id) /\ UNCHANGED uploading

\* Mutant: the upload is kept under the word instead of the id.
ProxyUploadByWord(id) ==
    /\ id \in urls /\ IsFile(id)
    /\ uploading' = uploading \cup {entries[id].word}
    /\ UNCHANGED <<vars, objects, urls, call, filesOn, faults, uploaded, stray, bereft, byWord>>

\* The upload proxy looks the entry up, in whatever status, then streams.
ProxyUploadStart(id) ==
    /\ filesOn /\ id \in urls /\ IsFile(id)
    /\ uploading' = uploading \cup {id}
    /\ UNCHANGED <<vars, objects, urls, call, filesOn, faults, uploaded, stray, bereft, byWord>>

ProxyUploadPut(id) ==
    /\ id \in uploading
    /\ uploading' = uploading \ {id}
    /\ PutObject(id)

\* download_file: a GET URL for the active entry of the word, if it is a file.
DownloadFile(w) ==
    /\ filesOn
    /\ LET found == GetByWord(w, FALSE)
           files == {id \in found : IsFile(id)} IN
       \/ /\ w = <<>> \/ files = {}
          /\ Refuse("download_file", IF w = <<>> THEN "ErrInvalidWord"
                ELSE IF found = {} THEN "ErrNotFound" ELSE "ErrNotAFileEntry")
          /\ UNCHANGED faults
       \/ /\ \E id \in files : Accept("download_file", id, w, <<>>)
          /\ UNCHANGED <<entries, minted, faults>>
       \/ /\ files # {} /\ faults < MaxFaults
          /\ faults' = faults + 1
          /\ Refuse("download_file", "ErrPresign")
    /\ UNCHANGED <<now, deleting, objects, urls, uploading, call, filesOn, uploaded, stray, bereft, byWord>>

-----------------------------------------------------------------------------
(* delete_entry *)

\* Mutant: only an active entry is looked up.
DeleteCallActive(c, ref) ==
    /\ call[c] = NoCall /\ deleting[c] = NoDelete
    /\ ref \in Ids => ref \in minted
    /\ LET files == {id \in Lookup(ref) : IsFile(id) /\ Active(id)} IN
       \/ /\ files = {}
          /\ call' = [call EXCEPT ![c] = [at |-> "row", ref |-> ref, id |-> NoId]]
       \/ \E id \in files :
             call' = [call EXCEPT ![c] = [at |-> "object", ref |-> ref, id |-> id]]
    /\ UNCHANGED <<vars, objects, urls, uploading, filesOn, faults, uploaded, stray, bereft, byWord>>

\* ResolveEntry, which also finds expired entries; only a file goes by way of
\* the bucket. A lookup that fails is taken for "not a file", and without the
\* file service no entry is. Clients send ids they were given.
DeleteCall(c, ref) ==
    /\ call[c] = NoCall /\ deleting[c] = NoDelete
    /\ ref \in Ids => ref \in minted
    /\ LET files == {id \in IF ref = <<>> THEN {} ELSE Lookup(ref) : IsFile(id)}
           skip == call' = [call EXCEPT ![c] = [at |-> "row", ref |-> ref, id |-> NoId]]
       IN
       \/ files = {} /\ skip /\ UNCHANGED <<faults, stray>>
       \/ files # {} /\ ~filesOn /\ skip /\ stray' = stray \cup files /\ UNCHANGED faults
       \/ /\ files # {} /\ filesOn /\ faults < MaxFaults
          /\ faults' = faults + 1
          /\ stray' = stray \cup files
          /\ skip
       \/ /\ filesOn
          /\ \E id \in files :
                call' = [call EXCEPT ![c] = [at |-> "object", ref |-> ref, id |-> id]]
          /\ UNCHANGED <<faults, stray>>
    /\ UNCHANGED <<vars, objects, urls, uploading, filesOn, uploaded, bereft, byWord>>

\* DeleteFileObject, best effort: a failure is logged and the call goes on.
DeleteFileObject(c) ==
    LET id == call[c].id IN
    /\ call[c].at = "object"
    /\ call' = [call EXCEPT ![c].at = "row"]
    /\ \/ objects' = objects \ {id} /\ UNCHANGED <<faults, stray>>
       \/ /\ faults < MaxFaults /\ faults' = faults + 1
          /\ stray' = stray \cup {id} /\ UNCHANGED objects
    /\ byWord' = IF call[c].ref \in Ids THEN byWord ELSE byWord \cup {id}
    /\ UNCHANGED <<vars, urls, uploading, filesOn, uploaded, bereft>>

\* Mutant: the row of an expired entry is not deleted.
DeleteActiveRow(c) ==
    /\ call[c].at = "row"
    /\ IF call[c].ref \in Ids /\ Expired(call[c].ref)
       THEN Refuse("delete_entry", "ErrNotFound") /\ UNCHANGED <<now, deleting>>
       ELSE DeleteEntry(c, call[c].ref)
    /\ call' = [call EXCEPT ![c] = NoCall]
    /\ UNCHANGED <<objects, urls, uploading, filesOn, faults, uploaded, stray, bereft, byWord>>

\* svc.DeleteEntry, in one statement or in two.
DeleteRow(c) ==
    /\ call[c].at = "row"
    /\ DeleteEntry(c, call[c].ref)
    /\ call' = [call EXCEPT ![c] = NoCall]
    /\ UNCHANGED <<objects, urls, uploading, filesOn, faults, uploaded, stray, bereft, byWord>>

\* The second statement of a delete by word, which named no id.
DeleteRowFound(c) ==
    /\ DeleteFound(c)
    /\ byWord' = byWord \cup {deleting[c].id}
    /\ UNCHANGED <<objects, urls, uploading, call, filesOn, faults, uploaded, stray, bereft>>

\* The statement fails after the object is gone: the row stays.
DeleteRowFails(c) ==
    /\ call[c].at = "row" /\ faults < MaxFaults
    /\ faults' = faults + 1
    /\ Refuse("delete_entry", "ErrDatabase")
    /\ call' = [call EXCEPT ![c] = NoCall]
    /\ bereft' = bereft \cup {call[c].id}
    /\ UNCHANGED <<now, deleting, objects, urls, uploading, filesOn, uploaded, stray, byWord>>

\* A crash forgets the calls and the uploads in flight. If the bucket's client
\* does not come up, the server starts without the file tools and the proxy.
Restart ==
    /\ faults < MaxFaults /\ faults' = faults + 1
    /\ Crash
    /\ filesOn' \in BOOLEAN
    /\ call' = [c \in Clients |-> NoCall]
    /\ uploading' = {}
    /\ bereft' = bereft \cup {id \in Ids : UnderDelete(id)}
    /\ UNCHANGED <<objects, urls, uploaded, stray, byWord>>

-----------------------------------------------------------------------------

FileInit ==
    /\ Init
    /\ objects = {} /\ urls = {} /\ uploading = {}
    /\ call = [c \in Clients |-> NoCall]
    /\ filesOn = TRUE /\ faults = 0
    /\ uploaded = {} /\ stray = {} /\ bereft = {} /\ byWord = {}

\* What the store does besides: the entry tools, the sweep and the clock.
Entries ==
    /\ \/ \E w \in RequestWords, ttl \in TTLArgs : StoreEntry(w, "fits", ttl)
       \/ \E ref \in Ids, ttl \in TTLArgs : RestoreEntry(ref, ttl)
       \/ \E ref \in Ids, ttl \in TTLArgs : UpdateExpiration(ref, ttl)
       \/ Sweep
       \/ Tick
    /\ UNCHANGED fileVars

FileNext ==
    \/ \E w \in RequestWords, ok \in BOOLEAN, ttl \in TTLArgs : UploadFile(w, ok, ttl)
    \/ \E id \in Ids : PresignedPut(id)
    \/ \E id \in Ids : ProxyUploadStart(id)
    \/ \E id \in Ids : ProxyUploadPut(id)
    \/ \E w \in RequestWords : DownloadFile(w)
    \/ \E c \in Clients, ref \in DeleteRefs : DeleteCall(c, ref)
    \/ \E c \in Clients : DeleteFileObject(c)
    \/ \E c \in Clients : DeleteRow(c)
    \/ \E c \in Clients : DeleteRowFound(c)
    \/ \E c \in Clients : DeleteRowFails(c)
    \/ Restart
    \/ Entries

FileSpec == FileInit /\ [][FileNext]_fullVars

-----------------------------------------------------------------------------
(* Properties *)

\* Every variable keeps its range: objects are kept, uploaded and removed under the
\* ids of entries, never under words (file_service.go:96-192, upload_handler.go).
FileTypeOK ==
    /\ TypeOK
    /\ objects \cup urls \cup uploading \cup uploaded \cup stray \subseteq Ids
    /\ bereft \subseteq Ids \cup {NoId} /\ byWord \subseteq Ids /\ filesOn \in BOOLEAN
    /\ call \in [Clients -> [at : {"idle", "object", "row"}, ref : Refs \cup {<<>>},
                             id : Ids \cup {NoId}]]

Deleting(id) == \E c \in Clients : call[c].at = "row" /\ call[c].id = id

\* The file of id may be missing: a delete_entry call is about to remove its
\* row, or would have, had no crash or failing statement stopped it.
MayBeMissing(id) == id \in bereft \/ UnderDelete(id)

\* An entry in the table, active or expired, keeps the file that was uploaded
\* for it: "Expired file entries do not auto-delete S3 objects" (README.md:434).
\* Refuted: delete_entry by word looks expired entries up for the object, but not
\* for the row.
RowKeepsFile == \A id \in uploaded : IsFile(id) => id \in objects \/ MayBeMissing(id)

\* It does as long as entries are deleted by UUID, whatever uploads, restores,
\* expirations, faults and other deletes happen at the same time.
RowKeepsFileById ==
    \A id \in uploaded \ byWord : IsFile(id) => id \in objects \/ MayBeMissing(id)

\* The converse for deletes by UUID: an object without a row has a known reason,
\* a failed lookup or a failed delete in the bucket, a delete while the file service
\* was off, or an upload that came too late for the delete.
ObjectHasRow == \A id \in objects : Present(id) \/ id \in stray \cup byWord
=============================================================================
