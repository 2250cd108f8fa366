------------------------------ MODULE Messages ------------------------------
(***************************************************************************)
(* The messages component of the SMS gateway server                        *)
(* (internal/sms-gateway/modules/messages): the rows of the `messages',    *)
(* `message_recipients' and `message_states' tables, the cache of message  *)
(* states in front of them, the in-memory queue of the hashing worker, and *)
(* the API calls of senders and devices that run concurrently over them.   *)
(*                                                                         *)
(* A call is a sequence of steps; each step is one statement or            *)
(* transaction on the database, one operation on the cache, or one locked  *)
(* operation on the queue, so calls interleave between them as goroutines  *)
(* do.  All rows here belong to one user: the cache key and every query    *)
(* name the user, so users do not interact.                                *)
(***************************************************************************)

CONSTANTS
  ExtIDs,          \* message IDs the sender chooses (ext_id)
  Devices,         \* devices of the user
  Removable,       \* bound: those that the user, or the cleanup, may remove
  Phones,          \* recipients of a message
  BarePhones,      \* those stored without a leading '+' (validation skipped)
  Reports,         \* state reports a device may send
  Encryption,      \* values of IsEncrypted that senders use
  Calls,           \* API calls that may be in progress at once
  CacheMayFail,    \* a cache operation may time out (redis:// only)
  CacheSurvives    \* the cache outlives the server process (redis:// only)

ProcessingStates ==
  {"Pending", "Cancelling", "Cancelled", "Processed", "Sent", "Delivered", "Failed"}

(* The states in which a message waits for its device; the other states    *)
(* settle it.                                                              *)
Open == {"Pending", "Cancelling"}

Report ==
  [ state      : ProcessingStates,
    states     : SUBSET ProcessingStates,
    recipients : [Phones -> ProcessingStates \cup {"Unlisted"}] ]

ASSUME ConstantsAssumption ==
  /\ ExtIDs # {} /\ Devices # {}
  /\ Removable \subseteq Devices
  /\ BarePhones \subseteq Phones
  /\ Reports \subseteq Report
  /\ Encryption \subseteq BOOLEAN
  /\ CacheMayFail \in BOOLEAN
  /\ CacheSurvives \in BOOLEAN

(* The server would store a report of Cancelling, also over a settled or   *)
(* hashed row, which would then wait for its device again.  It is the      *)
(* server that puts a message into this state; assumption: no device says  *)
(* of a message of its own that it is there.                               *)
ASSUME ReportsAssumption == \A m \in Reports : m.state # "Cancelling"

VARIABLES
  db,              \* the stored messages
  cache,           \* the state cache: external ID -> entry
  call,            \* the progress of every API call
  queue,           \* rows waiting in the hashing worker's queue
  batch,           \* rows the hashing worker took and has not hashed yet
  registered,      \* devices that are not removed
  seen,            \* history: every state each row has held
  forgotten        \* history: rows whose request to be hashed was lost

vars == <<db, cache, call, queue, batch, registered, seen, forgotten>>

-----------------------------------------------------------------------------
(* Data.  The unique index on (ext_id, device_id) allows one row for each  *)
(* pair.  `hashed' stands for is_hashed, for the content and for the phone *)
(* numbers of the row's recipients, which one statement rewrites together. *)

Rows == ExtIDs \X Devices

Row ==
  [ st      : ProcessingStates \cup {"Absent"},
    hashed  : BOOLEAN,
    enc     : BOOLEAN,
    deleted : BOOLEAN,
    rcp     : [Phones -> ProcessingStates],
    hist    : SUBSET ProcessingStates ]

NoRow ==
  [ st |-> "Absent", hashed |-> FALSE, enc |-> FALSE, deleted |-> FALSE,
    rcp |-> [p \in Phones |-> "Pending"], hist |-> {} ]

(* A MessageState document, as it is answered and cached.                  *)
Doc ==
  [ dev    : Devices,
    st     : ProcessingStates,
    hashed : BOOLEAN,
    enc    : BOOLEAN,
    rcp    : [Phones -> ProcessingStates \cup {"Unlisted"}],
    hist   : SUBSET ProcessingStates ]

NewDoc(d, enc) ==
  [ dev |-> d, st |-> "Pending", hashed |-> FALSE, enc |-> enc,
    rcp |-> [p \in Phones |-> "Pending"], hist |-> {"Pending"} ]

BlankDoc == NewDoc(CHOOSE d \in Devices : TRUE, FALSE)

Entry == [kind : {"miss", "nil", "doc"}, doc : Doc]
Miss  == [kind |-> "miss", doc |-> BlankDoc]
Nil   == [kind |-> "nil", doc |-> BlankDoc]
Hit(d) == [kind |-> "doc", doc |-> d]

Call ==
  [ op  : {"none", "enqueue", "report", "get", "cancel"},
    pc  : {"idle", "write", "fill", "fillnil", "queue", "mark", "drop",
           "lookup", "select", "preload", "answer"},
    ext : ExtIDs,
    doc : Doc ]

Idle == [op |-> "none", pc |-> "idle", ext |-> CHOOSE e \in ExtIDs : TRUE, doc |-> BlankDoc]

At(c, pc) == call[c].pc = pc
RowOf(c) == <<call[c].ext, call[c].doc.dev>>
Goto(c, pc) == call' = [call EXCEPT ![c].pc = pc]
Return(c) == call' = [call EXCEPT ![c] = Idle]

Live(r) == db[r].st # "Absent" /\ ~db[r].deleted
Matching(e) == {r \in Rows : r[1] = e /\ Live(r)}

(* Records in the history variable the states that a step gives to rows.   *)
Witness == seen' = [r \in Rows |-> seen[r] \cup ({db'[r].st} \ {"Absent"})]

Init ==
  /\ db = [r \in Rows |-> NoRow]
  /\ cache = [e \in ExtIDs |-> Miss]
  /\ call = [c \in Calls |-> Idle]
  /\ queue = {}
  /\ batch = {}
  /\ registered = Devices
  /\ seen = [r \in Rows |-> {}]
  /\ forgotten = {}

-----------------------------------------------------------------------------
(* Enqueue: the row is inserted, then its state is cached.  An existing    *)
(* row, or a device that is gone, makes the insert fail: nothing changes.  *)
(* An ID whose row has been cleaned up could be used again; assumption:    *)
(* senders do not, as cleanup comes weeks after the message.               *)

Creatable(r) == db[r].st = "Absent" /\ r[2] \in registered

Insert(c, r, enc) ==
  /\ At(c, "idle")
  /\ Creatable(r)
  /\ LET d == NewDoc(r[2], enc) IN
       /\ db' = [db EXCEPT ![r] =
                   [st |-> d.st, hashed |-> FALSE, enc |-> enc, deleted |-> FALSE,
                    rcp |-> d.rcp, hist |-> d.hist]]
       /\ call' = [call EXCEPT ![c] =
                     [op |-> "enqueue", pc |-> "fill", ext |-> r[1], doc |-> d]]
  /\ Witness
  /\ UNCHANGED <<cache, queue, batch, forgotten, registered>>

-----------------------------------------------------------------------------
(* UpdateState: a device reports the state of one of its messages.         *)

(* Fault: a report of Pending is stored as it is.                          *)
Received_Verbatim(s) == s

(* A device that has merely received the message may still call it         *)
(* Pending; the server stores Processed.                                   *)
Received(s) == IF s = "Pending" THEN "Processed" ELSE s

(* The row is read before it is written, and the document that will be     *)
(* written and cached is built from that read: whether the phone numbers   *)
(* are hashed, whether the message is encrypted, and everything else from  *)
(* the report.                                                             *)
ReportedDoc(r, m) ==
  [ dev |-> r[2], st |-> Received(m.state), hashed |-> db[r].hashed, enc |-> db[r].enc,
    rcp |-> [p \in Phones |-> Received(m.recipients[p])], hist |-> m.states ]

(* Fault: the cache is written before the database.                        *)
ReadForReport_CachesFirst(c, r, m) ==
  /\ At(c, "idle")
  /\ Live(r)
  /\ call' = [call EXCEPT ![c] =
                [op |-> "report", pc |-> "write", ext |-> r[1], doc |-> ReportedDoc(r, m)]]
  /\ cache' = [cache EXCEPT ![r[1]] = Hit(ReportedDoc(r, m))]
  /\ UNCHANGED <<db, queue, batch, seen, forgotten, registered>>

ReadForReport(c, r, m) ==
  /\ At(c, "idle")
  /\ Live(r)
  /\ call' = [call EXCEPT ![c] =
                [op |-> "report", pc |-> "write", ext |-> r[1], doc |-> ReportedDoc(r, m)]]
  /\ UNCHANGED <<db, cache, queue, batch, seen, forgotten, registered>>

(* A recipient row is found by its phone number, in the form the read      *)
(* said it has, and with a '+' in front.                                   *)
Finds(r, d, p) ==
  /\ d.rcp[p] # "Unlisted"
  /\ d.hashed = db[r].hashed
  /\ p \notin BarePhones

(* The transaction: the state is set whatever it was, reported history     *)
(* entries that are missing are added, and the recipients that are found   *)
(* get their reported state.                                               *)
Reported(r, d) ==
  [db[r] EXCEPT !.st   = d.st,
                !.hist = @ \cup d.hist,
                !.rcp  = [p \in Phones |-> IF Finds(r, d, p) THEN d.rcp[p] ELSE @[p]]]

WriteReport(c) ==
  /\ At(c, "write")
  /\ ~db[RowOf(c)].deleted
  /\ db' = [db EXCEPT ![RowOf(c)] = Reported(RowOf(c), call[c].doc)]
  /\ Goto(c, "fill")
  /\ Witness
  /\ UNCHANGED <<cache, queue, batch, forgotten, registered>>

(* A row that was cleaned up after it was read is updated in vain, which   *)
(* is no error; but a history entry refers to its row, so adding one is.   *)
WriteToGone(c) ==
  /\ At(c, "write")
  /\ db[RowOf(c)].deleted
  /\ \/ call[c].doc.hist = {} /\ Goto(c, "fill")
     \/ call[c].doc.hist # {} /\ Return(c)
  /\ UNCHANGED <<db, cache, queue, batch, seen, forgotten, registered>>

(* The last step of a report: the row is queued for hashing.               *)
QueueForHashing(c) ==
  /\ At(c, "queue")
  /\ queue' = queue \cup {RowOf(c)}
  /\ Return(c)
  /\ UNCHANGED <<db, cache, batch, seen, forgotten, registered>>

-----------------------------------------------------------------------------
(* The cache.  Enqueue, UpdateState and GetState each end by caching the   *)
(* document they hold; a failure to do so is only logged.                  *)

Store(e, entry) ==
  \/ cache' = [cache EXCEPT ![e] = entry]
  \/ CacheMayFail /\ UNCHANGED cache

(* Fault: a failing cache operation ends the call.                         *)
Fill_ReturnsOnError(c) ==
  /\ At(c, "fill")
  /\ \/ /\ cache' = [cache EXCEPT ![call[c].ext] = Hit(call[c].doc)]
        /\ \/ call[c].op = "enqueue" /\ Return(c)
           \/ call[c].op = "report" /\ Goto(c, "queue")
           \/ call[c].op \in {"get", "cancel"} /\ Goto(c, "answer")
     \/ CacheMayFail /\ UNCHANGED cache /\ Return(c)
  /\ UNCHANGED <<db, queue, batch, seen, forgotten, registered>>

Fill(c) ==
  /\ At(c, "fill")
  /\ Store(call[c].ext, Hit(call[c].doc))
  /\ \/ call[c].op = "enqueue" /\ Return(c)
     \/ call[c].op = "report" /\ Goto(c, "queue")
     \/ call[c].op \in {"get", "cancel"} /\ Goto(c, "answer")
  /\ UNCHANGED <<db, queue, batch, seen, forgotten, registered>>

(* GetState remembers that it found nothing.                               *)
FillNil(c) ==
  /\ At(c, "fillnil")
  /\ Store(call[c].ext, Nil)
  /\ Return(c)
  /\ UNCHANGED <<db, queue, batch, seen, forgotten, registered>>

(* Entries live for cache_ttl after they were last written or read, so at  *)
(* any time one may be gone; one that is read often enough never is.       *)
Expire(e) ==
  /\ cache[e].kind # "miss"
  /\ cache' = [cache EXCEPT ![e] = Miss]
  /\ UNCHANGED <<db, call, queue, batch, seen, forgotten, registered>>

-----------------------------------------------------------------------------
(* GetState: the cache, then the database, then the cache again.  A cached *)
(* nil answers "not found"; an error of the cache becomes a miss.          *)

LookUp(c, op, e) ==
  \/ /\ cache[e].kind = "doc"
     /\ call' = [call EXCEPT ![c] =
                   [op |-> op, pc |-> "answer", ext |-> e, doc |-> cache[e].doc]]
  \/ /\ cache[e].kind = "nil"
     /\ Return(c)
  \/ /\ cache[e].kind = "miss" \/ CacheMayFail
     /\ call' = [call EXCEPT ![c] =
                   [op |-> op, pc |-> "select", ext |-> e, doc |-> BlankDoc]]

GetLookUp(c, e) ==
  /\ At(c, "idle")
  /\ LookUp(c, "get", e)
  /\ UNCHANGED <<db, cache, queue, batch, seen, forgotten, registered>>

StoredDoc(r) ==
  [ dev |-> r[2], st |-> db[r].st, hashed |-> db[r].hashed, enc |-> db[r].enc,
    rcp |-> db[r].rcp, hist |-> db[r].hist ]

(* The ID may match no row, one, or, on several devices, more than one,    *)
(* which is an error.                                                      *)
Select(c) ==
  /\ At(c, "select")
  /\ LET e == call[c].ext IN
       \/ /\ Matching(e) = {}
          /\ Goto(c, "fillnil")
       \/ \E r \in Matching(e) :
            /\ Matching(e) = {r}
            /\ call' = [call EXCEPT ![c].pc = "preload", ![c].doc = StoredDoc(r)]
       \/ /\ \E r, q \in Matching(e) : r # q
          /\ Return(c)
  /\ UNCHANGED <<db, cache, queue, batch, seen, forgotten, registered>>

(* Further statements read the recipients and the history of the row that  *)
(* was found, whatever has become of it since.                             *)
PreloadedDoc(r, d) ==
  [d EXCEPT !.rcp  = [p \in Phones |-> IF Live(r) THEN db[r].rcp[p] ELSE "Unlisted"],
            !.hist = IF Live(r) THEN db[r].hist ELSE {}]

Preload(c) ==
  /\ At(c, "preload")
  /\ call' = [call EXCEPT ![c].pc = "fill", ![c].doc = PreloadedDoc(RowOf(c), call[c].doc)]
  /\ UNCHANGED <<db, cache, queue, batch, seen, forgotten, registered>>

Answer(c) ==
  /\ At(c, "answer")
  /\ Return(c)
  /\ UNCHANGED <<db, cache, queue, batch, seen, forgotten, registered>>

-----------------------------------------------------------------------------
(* CancelMessage: exactly one row must match; a guarded update then moves  *)
(* it from Pending to Cancelling; the cache entry is dropped; and the      *)
(* answer is whatever GetState now says.                                   *)

ReadForCancel(c, e) ==
  /\ At(c, "idle")
  /\ \E r \in Matching(e) : Matching(e) = {r}
  /\ call' = [call EXCEPT ![c] =
                [op |-> "cancel", pc |-> "mark", ext |-> e, doc |-> BlankDoc]]
  /\ UNCHANGED <<db, cache, queue, batch, seen, forgotten, registered>>

(* Fault: the update does not require the Pending state.                   *)
Cancellable_AnyState(e) == Matching(e)

(* The update names the user and the external ID, not the device: a row    *)
(* that another device got under the ID after the check is marked too.     *)
Cancellable(e) == {r \in Matching(e) : db[r].st = "Pending"}

MarkCancelling(c) ==
  /\ At(c, "mark")
  /\ LET S == Cancellable(call[c].ext) IN
       \/ /\ S # {}
          /\ db' = [r \in Rows |->
                      IF r \in S THEN [db[r] EXCEPT !.st = "Cancelling"] ELSE db[r]]
          /\ Goto(c, "drop")
       \/ /\ S = {}
          /\ Return(c)
          /\ UNCHANGED db
  /\ Witness
  /\ UNCHANGED <<cache, queue, batch, forgotten, registered>>

(* Fault: the cache entry is kept.                                         *)
DropEntry_Kept(c) ==
  /\ At(c, "drop")
  /\ Goto(c, "lookup")
  /\ UNCHANGED <<db, cache, queue, batch, seen, forgotten, registered>>

DropEntry(c) ==
  /\ At(c, "drop")
  /\ Store(call[c].ext, Miss)
  /\ Goto(c, "lookup")
  /\ UNCHANGED <<db, queue, batch, seen, forgotten, registered>>

CancelLookUp(c) ==
  /\ At(c, "lookup")
  /\ LookUp(c, "cancel", call[c].ext)
  /\ UNCHANGED <<db, cache, queue, batch, seen, forgotten, registered>>

-----------------------------------------------------------------------------
(* Lists: a filter names the IDs, devices and states that are asked for.   *)
AnyMessage == [ext |-> ExtIDs, dev |-> Devices, states |-> ProcessingStates]
WithDeviceID(f, D) == [f EXCEPT !.dev = D]
WithStates(f, S) == [f EXCEPT !.states = S]

list(f) ==
  {r \in Rows : Live(r) /\ r[1] \in f.ext /\ r[2] \in f.dev /\ db[r].st \in f.states}

(* What a device asks for: fewer than maxPendingBatch messages wait for it *)
(* here.  A hashed row has no content to send.                             *)
GetContent(r) == IF db[r].hashed THEN "none" ELSE "content"

messageToDomain(r) ==
  [id |-> r[1], st |-> db[r].st, enc |-> db[r].enc, content |-> GetContent(r)]

SelectPending(d) ==
  {messageToDomain(r) : r \in list(WithStates(WithDeviceID(AnyMessage, {d}), Open))}

(* What a sender asks for, without the cache: the history of messages.     *)
ToFilter(devices) == WithDeviceID(AnyMessage, devices)

SelectStates(f) == {[id |-> r[1], doc |-> StoredDoc(r)] : r \in list(f)}

-----------------------------------------------------------------------------
(* Hashing.  HashProcessed rewrites, in one statement, every given row     *)
(* that is settled, not hashed yet and not encrypted by its sender.        *)

(* Fault: failed messages are left out.                                    *)
Unhashed_NotFailed(r) ==
  /\ db[r].st \notin Open \cup {"Absent", "Failed"}
  /\ ~db[r].deleted
  /\ ~db[r].enc
  /\ ~db[r].hashed

Unhashed(r) ==
  /\ db[r].st \notin Open \cup {"Absent"}
  /\ ~db[r].deleted
  /\ ~db[r].enc
  /\ ~db[r].hashed

HashProcessed(S) ==
  db' = [r \in Rows |->
           IF r \in S /\ Unhashed(r) THEN [db[r] EXCEPT !.hashed = TRUE] ELSE db[r]]

(* The worker copies and clears its queue under one lock ...               *)
TakeBatch ==
  /\ batch = {}
  /\ queue # {}
  /\ batch' = queue
  /\ queue' = {}
  /\ UNCHANGED <<db, cache, call, seen, forgotten, registered>>

(* ... and then runs the statement, which may fail: the batch is gone.     *)
HashBatch ==
  /\ batch # {}
  /\ \/ HashProcessed(batch) /\ UNCHANGED forgotten
     \/ forgotten' = forgotten \cup batch /\ UNCHANGED db
  /\ batch' = {}
  /\ UNCHANGED <<cache, call, queue, seen, registered>>

(* The worker program's periodic task hashes all there is.                 *)
HashAll ==
  /\ HashProcessed(Rows)
  /\ UNCHANGED <<cache, call, queue, batch, seen, forgotten, registered>>

-----------------------------------------------------------------------------
(* The cleanup task deletes settled rows that are old enough; any set of   *)
(* settled rows may be.  The cache is not told.  (DeletedAt is a plain     *)
(* time, which gives no soft deletion.)  `deleted' marks a row that is     *)
(* gone; what else the model still says of it is history.                  *)
(* Fault: a row that still waits for its device is old enough, too.        *)
Settled_Any(r) == Live(r)

Settled(r) == Live(r) /\ db[r].st \notin Open

Cleanup(S) ==
  /\ S # {}
  /\ \A r \in S : Settled(r)
  /\ db' = [r \in Rows |-> IF r \in S THEN [db[r] EXCEPT !.deleted = TRUE] ELSE db[r]]
  /\ UNCHANGED <<cache, call, queue, batch, seen, forgotten, registered>>

(* A device that is removed takes its rows with it, whatever their state.  *)
RemoveDevice(d) ==
  /\ d \in registered
  /\ registered' = registered \ {d}
  /\ db' = [r \in Rows |-> IF r[2] = d /\ Live(r) THEN [db[r] EXCEPT !.deleted = TRUE] ELSE db[r]]
  /\ UNCHANGED <<cache, call, queue, batch, seen, forgotten>>

(* A database error ends a call at its next statement.                     *)
FailCall(c) ==
  /\ call[c].pc \in {"write", "mark", "select", "preload"}
  /\ Return(c)
  /\ UNCHANGED <<db, cache, queue, batch, seen, forgotten, registered>>

(* Rows of reports that are stored but not queued yet.                     *)
Reporting == {RowOf(c) : c \in {x \in Calls : call[x].op = "report" /\ call[x].pc \in {"fill", "queue"}}}

(* The server stops and starts again: calls, queue and batch are lost, and *)
(* the cache too when it lives in the process.                             *)
Restart ==
  /\ call' = [c \in Calls |-> Idle]
  /\ queue' = {}
  /\ batch' = {}
  /\ \/ CacheSurvives /\ UNCHANGED cache
     \/ ~CacheSurvives /\ cache' = [e \in ExtIDs |-> Miss]
  /\ forgotten' = forgotten \cup queue \cup batch \cup Reporting
  /\ UNCHANGED <<db, seen, registered>>

-----------------------------------------------------------------------------
(* The handlers: they select the device, call the service, and answer.     *)
post(c) == \E r \in Rows, enc \in Encryption : Insert(c, r, enc)
patch(c) == \E r \in Rows, m \in Reports : ReadForReport(c, r, m)
get(c) == \E e \in ExtIDs : GetLookUp(c, e)
delete(c) == \E e \in ExtIDs : ReadForCancel(c, e)

CallStep(c) ==
  \/ post(c) \/ patch(c) \/ get(c) \/ delete(c)
  \/ WriteReport(c) \/ WriteToGone(c) \/ QueueForHashing(c)
  \/ Fill(c) \/ FillNil(c)
  \/ Select(c) \/ Preload(c) \/ Answer(c)
  \/ MarkCancelling(c) \/ DropEntry(c) \/ CancelLookUp(c)
  \/ FailCall(c)

Next ==
  \/ \E c \in Calls : CallStep(c)
  \/ \E e \in ExtIDs : Expire(e)
  \/ TakeBatch \/ HashBatch \/ HashAll
  \/ \E S \in SUBSET Rows : Cleanup(S)
  \/ \E d \in Removable : RemoveDevice(d)
  \/ Restart

Spec == Init /\ [][Next]_vars

(* The worker program runs messages:hashing again and again.               *)
FairSpec == Spec /\ WF_vars(HashAll)

-----------------------------------------------------------------------------
(* Properties.                                                             *)

(* Every variable keeps to its type.                                       *)
TypeOK ==
  /\ db \in [Rows -> Row]
  /\ cache \in [ExtIDs -> Entry]
  /\ call \in [Calls -> Call]
  /\ queue \subseteq Rows
  /\ batch \subseteq Rows
  /\ registered \subseteq Devices
  /\ seen \in [Rows -> SUBSET ProcessingStates]
  /\ forgotten \subseteq Rows

(* What a device is served has its content, and a message that waits for a *)
(* registered device is served to it, however late reports, hashing jobs   *)
(* and the cleanup interleave; what the sender encrypted is never hashed.  *)
PullableIntact ==
  /\ \A d \in Devices : \A m \in SelectPending(d) : m.content = "content"
  /\ \A r \in Rows :
       /\ db[r].st \in Open /\ r[2] \in registered => messageToDomain(r) \in SelectPending(r[2])
       /\ db[r].enc => ~db[r].hashed

(* The cache never runs ahead of the database: the state it shows for a    *)
(* message is one the stored row has held (a report that finds its row     *)
(* gone may be cached without being stored, hence Live), the history       *)
(* it shows is stored, and what it shows as hashed is hashed.              *)
Shown(r, d) ==
  /\ db[r].st # "Absent"
  /\ Live(r) => d.st \in seen[r]
  /\ d.hist \subseteq db[r].hist
  /\ d.hashed => db[r].hashed
  /\ d.enc = db[r].enc

EntrySound(e) == cache[e].kind = "doc" => Shown(<<e, cache[e].doc.dev>>, cache[e].doc)

CacheNeverAhead == \A e \in ExtIDs : EntrySound(e)

(* The inductive invariant behind the two: what calls in progress hold is  *)
(* as sound as what the cache holds, a report about to be written settles  *)
(* its row, and a row that is not stored yet has no marks.                 *)
RowsSound ==
  \A r \in Rows :
    /\ db[r].st \in Open \cup {"Absent"} => ~db[r].hashed
    /\ db[r].st \in Open /\ r[2] \in registered => ~db[r].deleted
    /\ db[r].st = "Absent" => ~db[r].deleted /\ ~db[r].enc /\ db[r].hist = {}
    /\ db[r].st # "Absent" => db[r].st \in seen[r]
    /\ db[r].enc => ~db[r].hashed

CallSound(c) ==
  LET r == RowOf(c)
      d == call[c].doc
  IN  /\ At(c, "write") =>
           /\ call[c].op = "report"
           /\ d.st \notin Open
           /\ db[r].st # "Absent"
           /\ d.hashed => db[r].hashed
           /\ d.enc = db[r].enc
      /\ call[c].pc \in {"preload", "fill", "answer"} => Shown(r, d)

Sound ==
  /\ RowsSound
  /\ \A c \in Calls : CallSound(c)
  /\ CacheNeverAhead

(* While the server keeps running and the hashing statement succeeds, no   *)
(* row that has to be hashed is forgotten: it is queued, taken, or about   *)
(* to be queued by the call that reported it.                              *)
HashRequestNeverLost ==
  \A r \in Rows : Unhashed(r) => r \in queue \cup batch \cup Reporting \cup forgotten

(* When no call is in progress, what a sender gets for one ID, from the    *)
(* cache, agrees with the history of messages, from the database: the      *)
(* state, and, if the numbers are shown in the same form, the states of    *)
(* the recipients; "not found" is cached only for messages that are not in *)
(* the history.  (For calls of which no two about one ID overlap.)         *)
AgreesAtRest(e) ==
  \A m \in SelectStates(ToFilter(Devices)) : m.id = e =>
    LET d == cache[e].doc IN
    /\ cache[e].kind # "nil"
    /\ cache[e].kind = "doc" /\ d.dev = m.doc.dev =>
         /\ d.st = m.doc.st
         /\ d.hashed = m.doc.hashed =>
              \A p \in Phones \ BarePhones : d.rcp[p] \in {"Unlisted", m.doc.rcp[p]}

CacheAgreesAtRest ==
  (\A c \in Calls : At(c, "idle")) => \A e \in ExtIDs : AgreesAtRest(e)

(* Every settled row that its sender did not encrypt is hashed in the end, *)
(* unless it is cleaned up first, even when the server's own queue lost it.*)
EventuallyHashed ==
  \A r \in Rows :
    (db[r].st \notin Open \cup {"Absent"} /\ ~db[r].enc) ~> (db[r].hashed \/ db[r].deleted)

(* The component implements the life cycle of MessageLifecycle.            *)
PhaseOf(row) ==
  IF row.hashed THEN "hashed"
  ELSE IF row.st = "Absent" THEN "absent"
  ELSE IF row.st = "Pending" THEN "queued"
  ELSE IF row.st = "Cancelling" THEN "cancelling"
  ELSE "settled"

phases == [r \in Rows |-> PhaseOf(db[r])]
sealedRows == {r \in Rows : db[r].enc}

Life == INSTANCE MessageLifecycle WITH Rows <- Rows, phase <- phases, sealed <- sealedRows

ImplementsLifecycle == Life!Spec
=============================================================================
