------------------------------- MODULE Server -------------------------------
(***************************************************************************)
(* The life of a server process (cmd/server/main.go) with an HTTP transport, *)
(* and what is in flight when it ends: downloads through the proxy, their    *)
(* background records in download_history, health probes, tool calls.        *)
(*                                                                          *)
(* main starts step by step, serves, and on a signal returns as soon as      *)
(* ListenAndServe does: http.Server.Shutdown makes it return at once, while  *)
(* the goroutine that called Shutdown still waits for the handlers. Only the *)
(* health server is waited for.                                             *)
(***************************************************************************)
EXTENDS EntryStore

CONSTANTS
    Requests,        \* concurrent GET requests to the download proxy
    URLHours,        \* life of a signed URL
    MaxRestarts      \* bound: starts after the first

ASSUME ServerAssumption ==
    URLHours \in Nat /\ MaxRestarts \in Nat

VARIABLES
    main,      \* where main is, or how the process ended
    cancelled, \* the root context: a signal came
    files,     \* "off", "direct" (no proxy) or "proxied", as this start went
    request,   \* request -> [at, id, word] of its handler
    probing,   \* a health probe: "no", "ping" while its handler runs, "body" after it
    urls,      \* [id, exp] of the signed download URLs in clients' hands
    history,   \* the table download_history: [id, word]
    restarts,
    served,    \* history variable: ids whose file was streamed to its end
    names      \* history variable: the words each id ever had

serverVars == <<main, cancelled, files, request, probing, urls, history,
                restarts, served, names>>
allVars == <<vars, serverVars>>

FileModes == {"off", "direct", "proxied"}
Starting == {"repo", "migrate", "auth", "bucket"}
Ended == {"returned", "failed", "killed"}

\* The goroutines of the process run: the worker's, the handlers'.
Up == main \in {"serving", "draining"}

NoRequest == [at |-> "idle", id |-> NoId, word |-> <<>>]

\* The process is gone, and with it whatever its goroutines were doing.
End(how) ==
    /\ main' = how
    /\ request' = [r \in Requests |-> NoRequest]
    /\ probing' = "no"
    /\ Crash

-----------------------------------------------------------------------------
(* main *)

\* The database is opened, the files are migrated under the root context, the
\* authenticator fetches its keys: each may fail, and a signal fails Migrate
\* unless it comes too late.
StartStep ==
    /\ \/ main = "repo" /\ main' = "migrate"
       \/ main = "migrate" /\ main' = "auth"
       \/ main = "auth" /\ main' = "bucket"
    /\ UNCHANGED <<vars, cancelled, files, request, probing, urls, history, restarts, served>>

StartFails ==
    /\ main \in {"repo", "migrate", "auth"}
    /\ End("failed")
    /\ UNCHANGED <<cancelled, files, urls, history, restarts, served>>

\* A bucket that is not configured, or whose client fails, only turns the file
\* tools off, and an incomplete proxy configuration the proxy.
\* The worker, the health server and the transport start after it.
OpenBucket ==
    /\ main = "bucket"
    /\ main' = "serving" /\ files' \in FileModes
    /\ UNCHANGED <<vars, cancelled, request, probing, urls, history, restarts, served>>

\* ListenAndServe ends by itself: the port is taken.
ListenFails ==
    /\ main = "serving"
    /\ End("failed")
    /\ UNCHANGED <<cancelled, files, urls, history, restarts, served>>

Signal ==
    /\ main \notin Ended /\ ~cancelled /\ cancelled' = TRUE
    /\ UNCHANGED <<vars, main, files, request, probing, urls, history, restarts, served>>

\* Shutdown has closed the listener and ListenAndServe returns.
ListenerCloses ==
    /\ main = "serving" /\ cancelled
    /\ main' = "draining"
    /\ UNCHANGED <<vars, cancelled, files, request, probing, urls, history, restarts, served>>

\* Mutant: main waits for every handler.
ReturnWhenIdle ==
    /\ main = "draining" /\ probing = "no"
    /\ \A r \in Requests : request[r] = NoRequest
    /\ End("returned")
    /\ UNCHANGED <<cancelled, files, urls, history, restarts, served>>

\* healthSrv.Shutdown has seen its last connection idle; main closes the database
\* and returns. It does not ask for the other server's Shutdown.
Return ==
    /\ main = "draining" /\ probing = "no"
    /\ End("returned")
    /\ UNCHANGED <<cancelled, files, urls, history, restarts, served>>

Kill ==
    /\ main \notin Ended
    /\ End("killed")
    /\ UNCHANGED <<cancelled, files, urls, history, restarts, served>>

Restart ==
    /\ main \in Ended /\ restarts < MaxRestarts
    /\ main' = "repo" /\ cancelled' = FALSE /\ restarts' = restarts + 1
    /\ UNCHANGED <<vars, files, request, probing, urls, history, served>>

-----------------------------------------------------------------------------
(* The health server *)

Probe ==
    /\ main = "serving" /\ probing = "no" /\ probing' = "ping"
    /\ UNCHANGED <<vars, main, cancelled, files, request, urls, history, restarts, served>>

\* The handler's ping has a timeout of three seconds. The server has none: if the
\* client announced a body and holds it back, the connection stays active.
ProbeAnswered ==
    /\ probing = "ping" /\ probing' \in {"no", "body"}
    /\ UNCHANGED <<vars, main, cancelled, files, request, urls, history, restarts, served>>

\* The client sends the rest of its request, or hangs up.
ProbeLeaves ==
    /\ probing = "body" /\ probing' = "no"
    /\ UNCHANGED <<vars, main, cancelled, files, request, urls, history, restarts, served>>

-----------------------------------------------------------------------------
(* Downloads through the proxy *)

\* Mutant: the URL names the word instead of the id.
SignDownloadOfWord(w) ==
    /\ Up /\ files = "proxied"
    /\ \E id \in GetByWord(w, FALSE) :
          /\ entries[id].type = "file"
          /\ urls' = urls \cup {[id |-> w, exp |-> now + URLHours]}
    /\ UNCHANGED <<vars, main, cancelled, files, request, probing, history, restarts, served>>

\* download_file signs a URL for the active file entry of a word; the answer
\* itself is in FileService.
SignDownload(w) ==
    /\ Up /\ files = "proxied"
    /\ \E id \in GetByWord(w, FALSE) :
          /\ entries[id].type = "file"
          /\ urls' = urls \cup {[id |-> id, exp |-> now + URLHours]}
    /\ UNCHANGED <<vars, main, cancelled, files, request, probing, history, restarts, served>>

\* ServeHTTP takes a URL with a good signature that has not expired.
ValidateSignature(r, url) ==
    /\ main = "serving" /\ files = "proxied" /\ request[r] = NoRequest
    /\ now <= url.exp
    /\ request' = [request EXCEPT ![r] = [NoRequest EXCEPT !.at = "lookup", !.id = url.id]]
    /\ UNCHANGED <<vars, main, cancelled, files, probing, urls, history, restarts, served>>

\* GetByID: the entry must still be there, in whatever status.
LookUp(r) ==
    /\ request[r].at = "lookup"
    /\ LET id == request[r].id
           found == [at |-> "stream", id |-> id, word |-> entries[id].word]
       IN  request' = [request EXCEPT ![r] =
               IF Present(id) /\ entries[id].type = "file" THEN found ELSE NoRequest]
    /\ UNCHANGED <<vars, main, cancelled, files, probing, urls, history, restarts, served>>

\* A lookup, GetObject or io.Copy fails, or the client goes away: no record.
RequestFails(r) ==
    /\ request[r].at \in {"lookup", "stream"}
    /\ request' = [request EXCEPT ![r] = NoRequest]
    /\ UNCHANGED <<vars, main, cancelled, files, probing, urls, history, restarts, served>>

\* Mutant: the record is written before the file was streamed.
RecordFirst(r) ==
    /\ request[r].at = "stream"
    /\ request' = [request EXCEPT ![r].at = "record"]
    /\ UNCHANGED <<vars, main, cancelled, files, probing, urls, history, restarts, served>>

\* io.Copy comes to its end; the record is left to a goroutine, and ServeHTTP
\* returns, which cancels the request's context.
StreamDone(r) ==
    /\ request[r].at = "stream"
    /\ request' = [request EXCEPT ![r].at = "record"]
    /\ served' = served \cup {request[r].id}
    /\ UNCHANGED <<vars, main, cancelled, files, probing, urls, history, restarts>>

\* The goroutine's INSERT, if it wins against the cancellation of its context.
RecordDownload(r) ==
    /\ request[r].at = "record"
    /\ \/ history' = history \cup {[id |-> request[r].id, word |-> request[r].word]}
       \/ UNCHANGED history
    /\ request' = [request EXCEPT ![r] = NoRequest]
    /\ UNCHANGED <<vars, main, cancelled, files, probing, urls, restarts, served>>

-----------------------------------------------------------------------------
(* The tool calls and the sweep, and the whole *)

\* What changes file entries; text entries have no URLs, and calls that change
\* nothing but the last answer do not concern the process. Calls that are in
\* flight when the listener closes go on while main drains.
Tools ==
    /\ Up
    /\ \/ /\ files # "off"
          /\ \E w \in RequestWords, ttl \in TTLArgs :
                ValidateWord(w) /\ ValidTTL(ttl) /\ StoreTx("upload_file", w, "file", ttl)
          /\ UNCHANGED <<now, deleting>>
       \/ \E id \in Ids, ttl \in TTLArgs : RestoreEntry(id, ttl)
       \/ \E c \in Clients, ref \in Refs : DeleteEntry(c, ref)
       \/ \E c \in Clients : DeleteFound(c)
       \/ Sweep
    /\ <<entries, deleting>>' # <<entries, deleting>>
    /\ UNCHANGED <<main, cancelled, files, request, probing, urls, history, restarts, served>>

ClockTick ==
    /\ Tick
    /\ UNCHANGED <<main, cancelled, files, request, probing, urls, history, restarts, served>>

ServerInit ==
    /\ Init
    /\ main = "repo" /\ cancelled = FALSE /\ files = "off"
    /\ request = [r \in Requests |-> NoRequest] /\ probing = "no"
    /\ urls = {} /\ history = {} /\ restarts = 0
    /\ served = {} /\ names = {}

Main == StartStep \/ StartFails \/ OpenBucket \/ ListenerCloses \/ Return

Handlers ==
    \/ \E w \in RequestWords : SignDownload(w)
    \/ \E r \in Requests, url \in urls : ValidateSignature(r, url)
    \/ \E r \in Requests :
          LookUp(r) \/ RequestFails(r) \/ StreamDone(r) \/ RecordDownload(r)
    \/ Probe

ServerNext ==
    /\ Main \/ ListenFails \/ Signal \/ Kill \/ Restart \/ Handlers
       \/ ProbeAnswered \/ ProbeLeaves \/ Tools \/ ClockTick
    /\ names' = names \cup {<<id, entries'[id].word>> : id \in {i \in Ids : Present(i)'}}

ServerSpec == ServerInit /\ [][ServerNext]_allVars

\* main runs and the ping of a probe ends; of clients, who may read their file as
\* slowly as they like and hold their request back, nothing is assumed.
FairServerSpec ==
    ServerSpec /\ WF_allVars(Main /\ ServerNext) /\ WF_allVars(ProbeAnswered /\ ServerNext)

-----------------------------------------------------------------------------
(* Properties *)

\* Every variable keeps its range: signed URLs and requests carry ids of entries
\* (file_service.go:194-229, proxy/handler.go:52-79).
ServerTypeOK ==
    /\ TypeOK
    /\ main \in Starting \cup {"serving", "draining"} \cup Ended
    /\ cancelled \in BOOLEAN /\ probing \in {"no", "ping", "body"} /\ files \in FileModes
    /\ request \in [Requests -> [at : {"idle", "lookup", "stream", "record"},
                                 id : Ids \cup {NoId}, word : Words]]
    /\ urls \subseteq [id : Ids, exp : Nat]
    /\ history \subseteq [id : Ids, word : Words]

\* Every row of the download history tells of a file that was streamed to its
\* end, under a word its entry really had, however the entry was renamed, deleted
\* or the process restarted in between.
HistoryIsTrue == \A row \in history : row.id \in served /\ <<row.id, row.word>> \in names

\* A signal ends the process, wherever in its start or its service it comes and
\* however slowly clients read their downloads, unless a client of the health server
\* keeps back for ever what it announced: that server has no timeouts
\* (main.go:234-237), and main waits for it without a limit (main.go:222).
SignalEnds == cancelled ~> (main \in Ended \/ [](probing = "body"))
=============================================================================
