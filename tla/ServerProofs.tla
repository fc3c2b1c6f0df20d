---------------------------- MODULE ServerProofs ----------------------------
(***************************************************************************)
(* Starts, signals, kills and restarts of the process, with downloads and   *)
(* their records in flight, for any number of entries, requests and         *)
(* restarts: the history tells only of downloads that took place, under     *)
(* words their entries had.                                                 *)
(*                                                                          *)
(* HistoryIsTrue is not inductive: the record is written two steps after    *)
(* the row was read, by when the entry may have another word or be gone.    *)
(* What the handler carries is true because it was once (RequestsKnown).    *)
(***************************************************************************)
EXTENDS Server, DirectoryProofs

USE IdsAssumption, WordsAssumption, TTLAssumption, LimitsAssumption, ShapeAssumption,
    ServerAssumption

-----------------------------------------------------------------------------
(* The invariant *)

ServerRange ==
    /\ main \in Starting \cup {"serving", "draining"} \cup Ended
    /\ cancelled \in BOOLEAN /\ probing \in {"no", "ping", "body"} /\ files \in FileModes
    /\ request \in [Requests -> [at : {"idle", "lookup", "stream", "record"},
                                 id : Ids \cup {NoId}, word : Words]]
    /\ urls \subseteq [id : Ids, exp : Nat]
    /\ history \subseteq [id : Ids, word : Words]

\* The present word of an entry is one of those it ever had.
NamesKnown == \A id \in Ids : Present(id) => <<id, entries[id].word>> \in names

\* A handler past its lookup carries a word that its entry had, and its record is
\* written after the file was streamed.
RequestsKnown ==
    \A r \in Requests :
        /\ request[r].at # "idle" => request[r].id \in Ids
        /\ request[r].at \in {"stream", "record"} =>
              <<request[r].id, request[r].word>> \in names
        /\ request[r].at = "record" => request[r].id \in served

SInv == DInv /\ ServerRange /\ NamesKnown /\ RequestsKnown /\ HistoryIsTrue

LEMMA InitSInv == ServerInit => SInv
<1>. SUFFICES ASSUME ServerInit PROVE SInv
  OBVIOUS
<1>1. DInv
  BY InitDInv DEF ServerInit
<1>2. ServerRange
  <2>1. <<>> \in Words
    BY DEF Words
  <2>. QED BY <2>1 DEF ServerInit, ServerRange, NoRequest, Starting, FileModes
<1>3. NamesKnown
  BY DEF ServerInit, Init, NamesKnown, Present
<1>4. RequestsKnown /\ HistoryIsTrue
  BY DEF ServerInit, RequestsKnown, HistoryIsTrue, NoRequest
<1>. QED BY <1>1, <1>2, <1>3, <1>4 DEF SInv

-----------------------------------------------------------------------------
(* What a step does to the table *)

\* Main, signals and requests leave the table alone or forget the calls in flight.
LEMMA ProcessStep ==
    ASSUME Main \/ ListenFails \/ Signal \/ Kill \/ Restart \/ Handlers
           \/ ProbeAnswered \/ ProbeLeaves \/ ClockTick
    PROVE  [Next]_vars
<1>1. ASSUME NEW how, End(how) PROVE [Next]_vars
  BY <1>1 DEF End, Next
<1>2. CASE Main
  BY <1>1, <1>2 DEF Main, StartStep, StartFails, OpenBucket, ListenerCloses, Return
<1>3. CASE ListenFails \/ Kill
  BY <1>1, <1>3 DEF ListenFails, Kill
<1>4. CASE Signal \/ Restart \/ ProbeAnswered \/ ProbeLeaves
  BY <1>4 DEF Signal, Restart, ProbeAnswered, ProbeLeaves
<1>5. CASE Handlers
  BY <1>5 DEF Handlers, SignDownload, ValidateSignature, LookUp, RequestFails, StreamDone,
              RecordDownload, Probe
<1>6. CASE ClockTick
  BY <1>6 DEF ClockTick, Next
<1>. QED BY <1>2, <1>3, <1>4, <1>5, <1>6

LEMMA ServerEffect == DInv /\ [ServerNext]_allVars => DInv' /\ Effect
<1>. SUFFICES ASSUME DInv, [ServerNext]_allVars PROVE DInv' /\ Effect
  OBVIOUS
<1>1. ASSUME [Next]_vars PROVE DInv' /\ Effect
  BY <1>1, NextKeepsDInv, NextEffect DEF DInv
<1>2. ASSUME NEW w \in RequestWords, NEW ttl \in TTLArgs, ValidTTL(ttl),
             StoreTx("upload_file", w, "file", ttl), UNCHANGED <<now, deleting>>
      PROVE  DInv' /\ Effect
  <2>1. "upload_file" \in Ops /\ w \in Words
    BY DEF Ops
  <2>2. Effect
    BY <1>2, <2>1, StoreTxEffect DEF DInv, Effect
  <2>3. IInv'
    BY <1>2, <2>1, StoreTxKeepsInv DEF DInv
  <2>4. RowsAreMinted'
    BY <2>2, EffectKeepsMinted DEF DInv
  <2>. QED BY <2>2, <2>3, <2>4 DEF DInv
<1>3. CASE Tools
  <2>1. CASE \E w \in RequestWords, ttl \in TTLArgs :
                /\ ValidTTL(ttl) /\ StoreTx("upload_file", w, "file", ttl)
                /\ UNCHANGED <<now, deleting>>
    BY <1>2, <2>1
  <2>2. CASE [Next]_vars
    BY <1>1, <2>2
  <2>. QED BY <1>3, <2>1, <2>2 DEF Tools, Next, Refs
<1>4. CASE UNCHANGED allVars
  BY <1>1, <1>4 DEF allVars
<1>. QED BY <1>1, <1>3, <1>4, ProcessStep DEF ServerNext

\* Every step notes the words that the rows have after it.
LEMMA NamesGrow ==
    ASSUME SInv, [ServerNext]_allVars
    PROVE  names \subseteq names' /\ NamesKnown'
<1>1. CASE ServerNext
  <2>1. names' = names \cup {<<id, entries'[id].word>> : id \in {i \in Ids : Present(i)'}}
    BY <1>1 DEF ServerNext
  <2>. QED BY <2>1 DEF NamesKnown
<1>2. CASE UNCHANGED allVars
  BY <1>2 DEF SInv, NamesKnown, Present, allVars, vars, serverVars
<1>. QED BY <1>1, <1>2

-----------------------------------------------------------------------------
(* What a step does to the requests and their records *)

Own == ServerRange /\ RequestsKnown /\ HistoryIsTrue

\* A step of main, a signal or a tool call adds nothing to what handlers know.
LEMMA QuietKeepsOwn ==
    ASSUME SInv, names \subseteq names',
           main' \in Starting \cup {"serving", "draining"} \cup Ended,
           cancelled' \in BOOLEAN, probing' \in {"no", "ping", "body"}, files' \in FileModes,
           request' \in {request, [r \in Requests |-> NoRequest]},
           UNCHANGED <<urls, history, served>>
    PROVE  Own'
<1>1. <<>> \in Words
  BY DEF Words
<1>2. ServerRange'
  BY <1>1 DEF SInv, ServerRange, NoRequest
<1>3. RequestsKnown'
  BY DEF SInv, RequestsKnown, NoRequest
<1>4. HistoryIsTrue'
  BY DEF SInv, HistoryIsTrue
<1>. QED BY <1>2, <1>3, <1>4 DEF Own

LEMMA MainKeepsOwn ==
    ASSUME SInv, names \subseteq names',
           Main \/ ListenFails \/ Signal \/ Kill \/ Restart \/ Probe \/ ProbeAnswered
           \/ ProbeLeaves \/ Tools \/ ClockTick
    PROVE  Own'
<1>. USE DEF Starting, Ended, FileModes
<1>1. /\ main \in Starting \cup {"serving", "draining"} \cup Ended
      /\ cancelled \in BOOLEAN /\ probing \in {"no", "ping", "body"} /\ files \in FileModes
  BY DEF SInv, ServerRange
<1>2. ASSUME NEW how \in Ended, End(how), UNCHANGED <<cancelled, files, urls, history, served>>
      PROVE  Own'
  <2>1. main' = how /\ probing' = "no" /\ request' = [r \in Requests |-> NoRequest]
    BY <1>2 DEF End
  <2>. QED BY <1>1, <1>2, <2>1, QuietKeepsOwn
<1>3. CASE StartFails
  BY <1>2, <1>3 DEF StartFails
<1>4. CASE Return
  BY <1>2, <1>4 DEF Return
<1>5. CASE ListenFails \/ Kill
  BY <1>2, <1>5 DEF ListenFails, Kill
<1>6. CASE StartStep \/ OpenBucket \/ ListenerCloses
  BY <1>1, <1>6, QuietKeepsOwn DEF StartStep, OpenBucket, ListenerCloses
<1>7. CASE Signal \/ Restart \/ Probe \/ ProbeAnswered \/ ProbeLeaves
  BY <1>1, <1>7, QuietKeepsOwn DEF Signal, Restart, Probe, ProbeAnswered, ProbeLeaves
<1>8. CASE Tools \/ ClockTick
  BY <1>1, <1>8, QuietKeepsOwn DEF Tools, ClockTick
<1>. QED BY <1>3, <1>4, <1>5, <1>6, <1>7, <1>8 DEF Main

\* download_file signs for the id of the row it found.
LEMMA SignDownloadKeepsOwn ==
    ASSUME SInv, names \subseteq names', NEW w \in RequestWords, SignDownload(w)
    PROVE  Own'
<1>1. PICK id \in GetByWord(w, FALSE) : urls' = urls \cup {[id |-> id, exp |-> now + URLHours]}
  BY DEF SignDownload
<1>2. id \in Ids
  BY DEF GetByWord
<1>3. now + URLHours \in Nat
  BY DEF SInv, DInv, IInv, TypeOK
<1>4. /\ UNCHANGED <<main, cancelled, files, request, probing, history, served>>
      /\ urls' \subseteq [id : Ids, exp : Nat]
  BY <1>1, <1>2, <1>3 DEF SignDownload, SInv, ServerRange
<1>. QED BY <1>4 DEF SInv, Own, ServerRange, RequestsKnown, HistoryIsTrue

\* A handler goes on, with what it knows.
LEMMA RequestKeepsOwn ==
    ASSUME SInv, names \subseteq names', NEW r \in Requests, NEW to,
           to \in [at : {"idle", "lookup", "stream", "record"}, id : Ids \cup {NoId}, word : Words],
           request' = [request EXCEPT ![r] = to],
           to.at # "idle" => to.id \in Ids,
           to.at \in {"stream", "record"} => <<to.id, to.word>> \in names,
           to.at = "record" => to.id \in served',
           served \subseteq served',
           history' \subseteq [id : Ids, word : Words],
           \A row \in history' : row.id \in served' /\ <<row.id, row.word>> \in names,
           UNCHANGED <<main, cancelled, files, probing, urls>>
    PROVE  Own'
<1>1. ServerRange'
  BY DEF SInv, ServerRange
<1>2. RequestsKnown'
  <2>. SUFFICES ASSUME NEW q \in Requests
                PROVE  /\ request'[q].at # "idle" => request'[q].id \in Ids
                       /\ request'[q].at \in {"stream", "record"} =>
                             <<request'[q].id, request'[q].word>> \in names'
                       /\ request'[q].at = "record" => request'[q].id \in served'
    BY DEF RequestsKnown
  <2>1. CASE q = r
    <3>1. request'[q] = to
      BY <2>1 DEF SInv, ServerRange
    <3>. QED BY <3>1
  <2>2. CASE q # r
    <3>1. request'[q] = request[q]
      BY <2>2 DEF SInv, ServerRange
    <3>. QED BY <3>1 DEF SInv, RequestsKnown
  <2>. QED BY <2>1, <2>2
<1>3. HistoryIsTrue'
  BY DEF HistoryIsTrue
<1>. QED BY <1>1, <1>2, <1>3 DEF Own

LEMMA HandlersKeepOwn ==
    ASSUME SInv, names \subseteq names', NEW r \in Requests,
           \/ \E url \in urls : ValidateSignature(r, url)
           \/ LookUp(r) \/ RequestFails(r) \/ StreamDone(r) \/ RecordDownload(r)
    PROVE  Own'
<1>. DEFINE Shape == [at : {"idle", "lookup", "stream", "record"}, id : Ids \cup {NoId},
                      word : Words]
            HistoryOK == /\ history \subseteq [id : Ids, word : Words]
                         /\ \A row \in history : row.id \in served /\ <<row.id, row.word>> \in names
<1>1. request[r] \in Shape /\ NoRequest \in Shape /\ NoRequest.at = "idle" /\ HistoryOK
  <2>1. <<>> \in Words
    BY DEF Words
  <2>. QED BY <2>1 DEF SInv, ServerRange, NoRequest, HistoryIsTrue
<1>2. ASSUME request' = [request EXCEPT ![r] = NoRequest], UNCHANGED <<history, served>>,
             UNCHANGED <<main, cancelled, files, probing, urls>>
      PROVE  Own'
  BY <1>1, <1>2, RequestKeepsOwn
<1>3. ASSUME NEW url \in urls, ValidateSignature(r, url) PROVE Own'
  <2>. DEFINE to == [NoRequest EXCEPT !.at = "lookup", !.id = url.id]
  <2>1. url.id \in Ids
    BY DEF SInv, ServerRange
  <2>2. to \in Shape /\ to.at = "lookup" /\ to.id \in Ids
    BY <1>1, <2>1 DEF NoRequest
  <2>3. /\ request' = [request EXCEPT ![r] = to] /\ UNCHANGED <<history, served>>
        /\ UNCHANGED <<main, cancelled, files, probing, urls>>
    BY <1>3 DEF ValidateSignature
  <2>. HIDE DEF to
  <2>. QED BY <1>1, <2>2, <2>3, RequestKeepsOwn
<1>4. CASE LookUp(r)
  <2>. DEFINE id == request[r].id
              found == [at |-> "stream", id |-> id, word |-> entries[id].word]
  <2>1. id \in Ids
    BY <1>4 DEF LookUp, SInv, RequestsKnown
  <2>2. /\ request' = [request EXCEPT ![r] =
               IF Present(id) /\ entries[id].type = "file" THEN found ELSE NoRequest]
        /\ UNCHANGED <<history, served>> /\ UNCHANGED <<main, cancelled, files, probing, urls>>
    BY <1>4 DEF LookUp
  <2>3. CASE Present(id) /\ entries[id].type = "file"
    <3>1. entries[id].word \in Words
      BY <2>1, <2>3 DEF SInv, DInv, IInv, TypeOK, Present, Row
    <3>2. <<id, entries[id].word>> \in names
      BY <2>1, <2>3 DEF SInv, NamesKnown
    <3>3. found \in Shape /\ found.at = "stream" /\ found.id \in Ids
          /\ <<found.id, found.word>> \in names
      BY <2>1, <3>1, <3>2
    <3>4. request' = [request EXCEPT ![r] = found]
      BY <2>2, <2>3
    <3>5. UNCHANGED <<history, served>> /\ UNCHANGED <<main, cancelled, files, probing, urls>>
      BY <2>2
    <3>. HIDE DEF found
    <3>. QED BY <1>1, <3>3, <3>4, <3>5, RequestKeepsOwn
  <2>4. CASE ~(Present(id) /\ entries[id].type = "file")
    BY <1>2, <2>2, <2>4
  <2>. QED BY <2>3, <2>4
<1>5. CASE RequestFails(r)
  BY <1>2, <1>5 DEF RequestFails
<1>6. CASE StreamDone(r)
  <2>. DEFINE to == [request[r] EXCEPT !.at = "record"]
  <2>1. /\ request[r].at = "stream" /\ request[r].id \in Ids
        /\ <<request[r].id, request[r].word>> \in names
    BY <1>6 DEF StreamDone, SInv, RequestsKnown
  <2>2. /\ to \in Shape /\ to.at = "record" /\ to.id = request[r].id
        /\ to.word = request[r].word
    BY <1>1
  <2>3. /\ request' = [request EXCEPT ![r] = to] /\ UNCHANGED history
        /\ served' = served \cup {request[r].id}
        /\ UNCHANGED <<main, cancelled, files, probing, urls>>
    BY <1>6 DEF StreamDone
  <2>. HIDE DEF to
  <2>. QED BY <1>1, <2>1, <2>2, <2>3, RequestKeepsOwn
<1>7. CASE RecordDownload(r)
  <2>. DEFINE new == [id |-> request[r].id, word |-> request[r].word]
  <2>1. /\ request[r].id \in Ids /\ <<request[r].id, request[r].word>> \in names
        /\ request[r].id \in served
    BY <1>7 DEF RecordDownload, SInv, RequestsKnown
  <2>2. /\ request' = [request EXCEPT ![r] = NoRequest] /\ UNCHANGED served
        /\ UNCHANGED <<main, cancelled, files, probing, urls>>
        /\ history' = history \cup {new} \/ UNCHANGED history
    BY <1>7 DEF RecordDownload
  <2>3. /\ new \in [id : Ids, word : Words]
        /\ new.id \in served /\ <<new.id, new.word>> \in names
    BY <1>1, <2>1
  <2>. HIDE DEF new
  <2>4. /\ history' \subseteq [id : Ids, word : Words]
        /\ \A row \in history' : row.id \in served /\ <<row.id, row.word>> \in names
    BY <1>1, <2>2, <2>3
  <2>. QED BY <1>1, <2>2, <2>4, RequestKeepsOwn
<1>. QED BY <1>3, <1>4, <1>5, <1>6, <1>7

LEMMA ServerNextKeepsSInv == SInv /\ [ServerNext]_allVars => SInv'
<1>. SUFFICES ASSUME SInv, [ServerNext]_allVars PROVE SInv'
  OBVIOUS
<1>1. DInv' /\ names \subseteq names' /\ NamesKnown'
  BY ServerEffect, NamesGrow DEF SInv
<1>2. Own'
  <2>1. CASE UNCHANGED allVars
    BY <2>1 DEF SInv, Own, ServerRange, RequestsKnown, HistoryIsTrue, allVars, serverVars
  <2>2. CASE Handlers
    BY <1>1, <2>2, HandlersKeepOwn, SignDownloadKeepsOwn, MainKeepsOwn DEF Handlers
  <2>. QED BY <1>1, <2>1, <2>2, MainKeepsOwn DEF ServerNext
<1>. QED BY <1>1, <1>2 DEF SInv, Own

-----------------------------------------------------------------------------
(* The theorems *)

\* What handlers carry from a lookup to a record is true in every reachable state,
\* over any number of restarts.
THEOREM ServerInvariance == ServerSpec => []SInv
BY InitSInv, ServerNextKeepsSInv, PTL DEF ServerSpec

\* Types of the process, its requests and signed URLs (main.go:26-226,
\* proxy/handler.go:52-114).
THEOREM ServerTypeCorrect == ServerSpec => []ServerTypeOK
<1>1. SInv => ServerTypeOK
  BY DEF SInv, DInv, IInv, ServerRange, ServerTypeOK
<1>. QED BY <1>1, ServerInvariance, PTL

\* A row of download_history is of a file that was streamed to its end, under a word
\* that its entry had, whatever was renamed, deleted or restarted since
\* (proxy/handler.go:81-114).
THEOREM HistoryTellsTheTruth == ServerSpec => []HistoryIsTrue
<1>1. SInv => HistoryIsTrue
  BY DEF SInv
<1>. QED BY <1>1, ServerInvariance, PTL
=============================================================================
