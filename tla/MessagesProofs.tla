--------------------------- MODULE MessagesProofs ---------------------------
(***************************************************************************)
(* Proofs about Messages, for every value of its constants: the type       *)
(* invariant, the safety invariants that the runs check on small instances *)
(* and the implementation of MessageLifecycle.                             *)
(***************************************************************************)
EXTENDS Messages, TLAPS

-----------------------------------------------------------------------------
(* The documents and calls that handlers build are of their types.         *)

LEMMA NewDocType ==
  ASSUME NEW d \in Devices, NEW enc \in BOOLEAN
  PROVE  NewDoc(d, enc) \in Doc
BY DEF NewDoc, Doc, ProcessingStates

LEMMA BlankTypes == BlankDoc \in Doc /\ Miss \in Entry /\ Nil \in Entry
<1>1. (CHOOSE d \in Devices : TRUE) \in Devices
  BY ConstantsAssumption
<1>2. BlankDoc \in Doc
  BY <1>1, NewDocType DEF BlankDoc
<1> QED
  BY <1>2 DEF Miss, Nil, Entry

LEMMA IdleType == Idle \in Call
<1>1. (CHOOSE e \in ExtIDs : TRUE) \in ExtIDs
  BY ConstantsAssumption
<1> QED
  BY <1>1, BlankTypes DEF Idle, Call

LEMMA HitType == ASSUME NEW d \in Doc PROVE Hit(d) \in Entry
BY DEF Hit, Entry

LEMMA StoredDocType ==
  ASSUME TypeOK, NEW r \in Rows, Live(r)
  PROVE  StoredDoc(r) \in Doc
<1>1. db[r] \in Row /\ r[2] \in Devices
  BY DEF TypeOK, Rows
<1>2. db[r].st \in ProcessingStates
  BY <1>1 DEF Live, Row
<1> QED
  BY <1>1, <1>2 DEF StoredDoc, Doc, Row

LEMMA ReportedDocType ==
  ASSUME TypeOK, NEW r \in Rows, NEW m \in Reports
  PROVE  /\ ReportedDoc(r, m) \in Doc
         /\ ReportedDoc(r, m).st \notin Open
<1>1. db[r] \in Row /\ r[2] \in Devices
  BY DEF TypeOK, Rows
<1>2. m \in Report /\ m.state # "Cancelling"
  BY ConstantsAssumption, ReportsAssumption
<1>3. Received(m.state) \in ProcessingStates \ Open
  BY <1>2 DEF Report, Received, ProcessingStates, Open
<1>4. \A p \in Phones : Received(m.recipients[p]) \in ProcessingStates \cup {"Unlisted"}
  BY <1>2 DEF Report, Received, ProcessingStates
<1>5. m.states \in SUBSET ProcessingStates
  BY <1>2 DEF Report
<1> QED
  BY <1>1, <1>3, <1>4, <1>5 DEF ReportedDoc, Doc, Row

LEMMA RowOfType == ASSUME TypeOK, NEW c \in Calls PROVE RowOf(c) \in Rows
<1>1. call[c] \in Call
  BY DEF TypeOK
<1> QED
  BY <1>1 DEF RowOf, Rows, Call, Doc

LEMMA ReportedType ==
  ASSUME TypeOK, NEW r \in Rows, NEW d \in Doc
  PROVE  Reported(r, d) \in Row
<1>1. db[r] \in Row
  BY DEF TypeOK
<1>2. \A p \in Phones : Finds(r, d, p) => d.rcp[p] \in ProcessingStates
  BY DEF Finds, Doc
<1>3. [p \in Phones |-> IF Finds(r, d, p) THEN d.rcp[p] ELSE db[r].rcp[p]]
        \in [Phones -> ProcessingStates]
  BY <1>1, <1>2 DEF Row
<1> QED
  BY <1>1, <1>3 DEF Reported, Row, Doc

-----------------------------------------------------------------------------
(* Steps keep the types.                                                   *)

LEMMA ReturnType ==
  ASSUME TypeOK, NEW c \in Calls, Return(c)
  PROVE  call' \in [Calls -> Call]
BY IdleType DEF Return, TypeOK

LEMMA GotoType ==
  ASSUME TypeOK, NEW c \in Calls,
         NEW pc \in {"idle", "write", "fill", "fillnil", "queue", "mark", "drop",
                     "lookup", "select", "answer"},
         Goto(c, pc)
  PROVE  call' \in [Calls -> Call]
<1>1. call[c] \in Call
  BY DEF TypeOK
<1>2. [call[c] EXCEPT !.pc = pc] \in Call
  BY <1>1 DEF Call
<1> QED
  BY <1>2 DEF Goto, TypeOK

LEMMA WitnessType ==
  ASSUME TypeOK, db' \in [Rows -> Row], Witness
  PROVE  seen' \in [Rows -> SUBSET ProcessingStates]
<1>1. \A r \in Rows : db'[r].st \in ProcessingStates \cup {"Absent"}
  BY DEF Row
<1> QED
  BY <1>1 DEF Witness, TypeOK

LEMMA StoreType ==
  ASSUME TypeOK, NEW e \in ExtIDs, NEW entry \in Entry, Store(e, entry)
  PROVE  cache' \in [ExtIDs -> Entry]
BY DEF Store, TypeOK

LEMMA LookUpType ==
  ASSUME TypeOK, NEW c \in Calls, NEW op \in {"get", "cancel"}, NEW e \in ExtIDs,
         LookUp(c, op, e)
  PROVE  call' \in [Calls -> Call]
<1>1. cache[e] \in Entry
  BY DEF TypeOK
<1>2. cache[e].doc \in Doc
  BY <1>1 DEF Entry
<1>3. CASE Return(c)
  BY <1>3, ReturnType
<1>4. ASSUME NEW d \in Doc, NEW pc \in {"answer", "select"},
             call' = [call EXCEPT ![c] = [op |-> op, pc |-> pc, ext |-> e, doc |-> d]]
      PROVE  call' \in [Calls -> Call]
  <2>1. [op |-> op, pc |-> pc, ext |-> e, doc |-> d] \in Call
    BY DEF Call
  <2> QED
    BY <2>1, <1>4 DEF TypeOK
<1> QED
  BY <1>2, <1>3, <1>4, BlankTypes DEF LookUp

LEMMA InitType == Init => TypeOK
<1> SUFFICES ASSUME Init PROVE TypeOK
  OBVIOUS
<1>1. NoRow \in Row
  BY DEF NoRow, Row, ProcessingStates
<1>2. db \in [Rows -> Row] /\ queue \subseteq Rows /\ batch \subseteq Rows
  BY <1>1 DEF Init
<1>3. cache \in [ExtIDs -> Entry] /\ call \in [Calls -> Call]
  BY BlankTypes, IdleType DEF Init
<1>4. /\ seen \in [Rows -> SUBSET ProcessingStates] /\ forgotten \subseteq Rows
      /\ registered \subseteq Devices
  BY DEF Init
<1> QED
  BY <1>2, <1>3, <1>4 DEF TypeOK

(* One lemma for each kind of action of a call.                            *)
LEMMA InsertType ==
  ASSUME TypeOK, NEW c \in Calls, NEW r \in Rows, NEW enc \in Encryption, Insert(c, r, enc)
  PROVE  TypeOK'
<1>1. enc \in BOOLEAN /\ r[1] \in ExtIDs /\ r[2] \in Devices
  BY ConstantsAssumption DEF Rows
<1> DEFINE d == NewDoc(r[2], enc)
<1>2. d \in Doc
  BY <1>1, NewDocType
<1>3. d.rcp \in [Phones -> ProcessingStates] /\ d.st \in ProcessingStates
  BY DEF NewDoc, ProcessingStates
<1>4. [st |-> d.st, hashed |-> FALSE, enc |-> enc, deleted |-> FALSE,
       rcp |-> d.rcp, hist |-> d.hist] \in Row
  BY <1>1, <1>2, <1>3 DEF Row, Doc
<1>5. db' \in [Rows -> Row]
  BY <1>4 DEF Insert, Creatable, TypeOK
<1>6. [op |-> "enqueue", pc |-> "fill", ext |-> r[1], doc |-> d] \in Call
  BY <1>1, <1>2 DEF Call
<1>7. call' \in [Calls -> Call]
  BY <1>6 DEF Insert, Creatable, TypeOK
<1>8. seen' \in [Rows -> SUBSET ProcessingStates]
  BY <1>5, WitnessType DEF Insert, Creatable
<1> QED
  BY <1>5, <1>7, <1>8 DEF Insert, Creatable, TypeOK

LEMMA ReadForReportType ==
  ASSUME TypeOK, NEW c \in Calls, NEW r \in Rows, NEW m \in Reports, ReadForReport(c, r, m)
  PROVE  TypeOK'
<1>1. r[1] \in ExtIDs
  BY DEF Rows
<1>2. [op |-> "report", pc |-> "write", ext |-> r[1], doc |-> ReportedDoc(r, m)] \in Call
  BY <1>1, ReportedDocType DEF Call
<1> QED
  BY <1>2 DEF ReadForReport, TypeOK

LEMMA WriteReportType ==
  ASSUME TypeOK, NEW c \in Calls, WriteReport(c)
  PROVE  TypeOK'
<1>1. RowOf(c) \in Rows /\ call[c].doc \in Doc
  BY RowOfType DEF TypeOK, Call
<1>2. db' \in [Rows -> Row]
  BY <1>1, ReportedType DEF WriteReport, TypeOK
<1>3. seen' \in [Rows -> SUBSET ProcessingStates]
  BY <1>2, WitnessType DEF WriteReport
<1>4. call' \in [Calls -> Call]
  BY GotoType DEF WriteReport
<1> QED
  BY <1>2, <1>3, <1>4 DEF WriteReport, TypeOK

LEMMA CacheStepType ==
  ASSUME TypeOK, NEW c \in Calls, Fill(c) \/ FillNil(c) \/ DropEntry(c)
  PROVE  TypeOK'
<1>1. call[c].ext \in ExtIDs /\ call[c].doc \in Doc
  BY DEF TypeOK, Call
<1>2. cache' \in [ExtIDs -> Entry]
  BY <1>1, HitType, BlankTypes, StoreType DEF Fill, FillNil, DropEntry
<1>3. call' \in [Calls -> Call]
  BY ReturnType, GotoType DEF Fill, FillNil, DropEntry
<1> QED
  BY <1>2, <1>3 DEF Fill, FillNil, DropEntry, TypeOK

LEMMA SelectType ==
  ASSUME TypeOK, NEW c \in Calls, Select(c)
  PROVE  TypeOK'
<1> DEFINE e == call[c].ext
<1>1. CASE Goto(c, "fillnil")
  BY <1>1, GotoType DEF Select, TypeOK
<1>2. CASE Return(c)
  BY <1>2, ReturnType DEF Select, TypeOK
<1>3. ASSUME NEW r \in Matching(e),
             call' = [call EXCEPT ![c].pc = "preload", ![c].doc = StoredDoc(r)]
      PROVE  TypeOK'
  <2>1. StoredDoc(r) \in Doc
    BY StoredDocType DEF Matching
  <2>2. call[c] \in Call
    BY DEF TypeOK
  <2>3. [call[c] EXCEPT !.pc = "preload", !.doc = StoredDoc(r)] \in Call
    BY <2>1, <2>2 DEF Call
  <2>4. call' \in [Calls -> Call]
    BY <1>3, <2>3 DEF TypeOK
  <2> QED
    BY <2>4 DEF Select, TypeOK
<1> QED
  BY <1>1, <1>2, <1>3 DEF Select

LEMMA PreloadType ==
  ASSUME TypeOK, NEW c \in Calls, Preload(c)
  PROVE  TypeOK'
<1> DEFINE r == RowOf(c)
<1>1. call[c] \in Call /\ r \in Rows /\ db[r] \in Row
  BY RowOfType DEF TypeOK
<1>2. PreloadedDoc(r, call[c].doc) \in Doc
  BY <1>1 DEF PreloadedDoc, Call, Doc, Row
<1>3. [call[c] EXCEPT !.pc = "fill", !.doc = PreloadedDoc(r, call[c].doc)] \in Call
  BY <1>1, <1>2 DEF Call
<1> QED
  BY <1>3 DEF Preload, TypeOK

LEMMA CancelType ==
  ASSUME TypeOK, NEW c \in Calls, MarkCancelling(c)
  PROVE  TypeOK'
<1>1. \A r \in Rows : [db[r] EXCEPT !.st = "Cancelling"] \in Row
  BY DEF TypeOK, Row, ProcessingStates
<1>2. db' \in [Rows -> Row]
  BY <1>1 DEF MarkCancelling, TypeOK
<1>3. call' \in [Calls -> Call]
  BY ReturnType, GotoType DEF MarkCancelling
<1>4. seen' \in [Rows -> SUBSET ProcessingStates]
  BY <1>2, WitnessType DEF MarkCancelling
<1> QED
  BY <1>2, <1>3, <1>4 DEF MarkCancelling, TypeOK

LEMMA HashType ==
  ASSUME TypeOK, NEW S, HashProcessed(S)
  PROVE  db' \in [Rows -> Row]
<1>1. \A r \in Rows : [db[r] EXCEPT !.hashed = TRUE] \in Row
  BY DEF TypeOK, Row
<1> QED
  BY <1>1 DEF HashProcessed, TypeOK

LEMMA CallStepType ==
  ASSUME TypeOK, NEW c \in Calls, CallStep(c)
  PROVE  TypeOK'
<1>1. ASSUME NEW r \in Rows, NEW enc \in Encryption, Insert(c, r, enc) PROVE TypeOK'
  BY <1>1, InsertType
<1>2. ASSUME NEW r \in Rows, NEW m \in Reports, ReadForReport(c, r, m) PROVE TypeOK'
  BY <1>2, ReadForReportType
<1>3. ASSUME NEW e \in ExtIDs, GetLookUp(c, e) PROVE TypeOK'
  BY <1>3, LookUpType DEF GetLookUp, TypeOK
<1>4. ASSUME NEW e \in ExtIDs, ReadForCancel(c, e) PROVE TypeOK'
  <2>1. [op |-> "cancel", pc |-> "mark", ext |-> e, doc |-> BlankDoc] \in Call
    BY BlankTypes DEF Call
  <2> QED
    BY <1>4, <2>1 DEF ReadForCancel, TypeOK
<1>5. CASE WriteReport(c)
  BY <1>5, WriteReportType
<1>6. CASE QueueForHashing(c)
  BY <1>6, RowOfType, ReturnType DEF QueueForHashing, TypeOK
<1>7. CASE Fill(c) \/ FillNil(c) \/ DropEntry(c)
  BY <1>7, CacheStepType
<1>8. CASE Select(c) \/ Preload(c)
  BY <1>8, SelectType, PreloadType
<1>9. CASE Answer(c) \/ FailCall(c)
  BY <1>9, ReturnType DEF Answer, FailCall, TypeOK
<1>10. CASE MarkCancelling(c)
  BY <1>10, CancelType
<1>11. CASE CancelLookUp(c)
  <2>1. call[c].ext \in ExtIDs
    BY DEF TypeOK, Call
  <2> QED
    BY <1>11, <2>1, LookUpType DEF CancelLookUp, TypeOK
<1>12. CASE WriteToGone(c)
  BY <1>12, GotoType, ReturnType DEF WriteToGone, TypeOK
<1> QED
  BY <1>1, <1>2, <1>3, <1>4, <1>5, <1>6, <1>7, <1>8, <1>9, <1>10, <1>11, <1>12
  DEF CallStep, post, patch, get, delete

(* The cleanup and the removal of a device delete rows; of those that wait *)
(* for their device, only those of a device that is removed.               *)
Deletes ==
  /\ \E S \in SUBSET Rows :
       /\ \A r \in S : db[r].st # "Absent"
       /\ \A r \in S : db[r].st \in Open => r[2] \notin registered'
       /\ db' = [r \in Rows |-> IF r \in S THEN [db[r] EXCEPT !.deleted = TRUE] ELSE db[r]]
  /\ registered' \subseteq registered
  /\ UNCHANGED <<cache, call, queue, batch, seen, forgotten>>

LEMMA Deleting ==
  /\ \A S \in SUBSET Rows : Cleanup(S) => Deletes
  /\ \A d \in Removable : RemoveDevice(d) => Deletes
<1>1. ASSUME NEW S \in SUBSET Rows, Cleanup(S) PROVE Deletes
  BY <1>1 DEF Cleanup, Settled, Live, Deletes
<1>2. ASSUME NEW d \in Removable, RemoveDevice(d) PROVE Deletes
  <2>1. PICK S \in SUBSET Rows : \A r \in Rows : r \in S <=> r[2] = d /\ Live(r)
    <3> DEFINE T == {r \in Rows : r[2] = d /\ Live(r)}
    <3>1. T \in SUBSET Rows /\ \A r \in Rows : r \in T <=> r[2] = d /\ Live(r)
      OBVIOUS
    <3> QED
      BY <3>1
  <2>2. db' = [r \in Rows |-> IF r \in S THEN [db[r] EXCEPT !.deleted = TRUE] ELSE db[r]]
    BY <1>2, <2>1 DEF RemoveDevice
  <2> QED
    BY <1>2, <2>1, <2>2 DEF RemoveDevice, Deletes, Live
<1> QED
  BY <1>1, <1>2

LEMMA DeletedRows ==
  ASSUME TypeOK, Deletes
  PROVE  \A r \in Rows :
           /\ db'[r] = db[r] \/ db'[r] = [db[r] EXCEPT !.deleted = TRUE]
           /\ db'[r].st = db[r].st /\ db'[r].enc = db[r].enc
           /\ db'[r].hashed = db[r].hashed /\ db'[r].hist = db[r].hist
           /\ db[r].deleted => db'[r].deleted
           /\ Live(r)' => Live(r)
BY DEF Deletes, TypeOK, Row, Live

LEMMA NextType == TypeOK /\ [Next]_vars => TypeOK'
<1> SUFFICES ASSUME TypeOK, [Next]_vars PROVE TypeOK'
  OBVIOUS
<1>1. ASSUME NEW c \in Calls, CallStep(c) PROVE TypeOK'
  BY <1>1, CallStepType
<1>2. ASSUME NEW e \in ExtIDs, Expire(e) PROVE TypeOK'
  BY <1>2, BlankTypes DEF Expire, TypeOK
<1>3. CASE TakeBatch
  BY <1>3 DEF TakeBatch, TypeOK
<1>4. CASE HashBatch
  <2>1. db' \in [Rows -> Row]
    BY <1>4, HashType DEF HashBatch, TypeOK
  <2> QED
    BY <1>4, <2>1 DEF HashBatch, TypeOK
<1>5. CASE HashAll
  BY <1>5, HashType DEF HashAll, TypeOK
<1>6. CASE Deletes
  <2>1. \A r \in Rows : [db[r] EXCEPT !.deleted = TRUE] \in Row
    BY DEF TypeOK, Row
  <2> QED
    BY <1>6, <2>1 DEF Deletes, TypeOK
<1>7. CASE Restart
  <2>1. Reporting \subseteq Rows
    BY RowOfType DEF Reporting
  <2> QED
    BY <1>7, <2>1, BlankTypes, IdleType DEF Restart, TypeOK
<1>8. CASE UNCHANGED vars
  BY <1>8 DEF vars, TypeOK
<1> QED
  BY <1>1, <1>2, <1>3, <1>4, <1>5, <1>6, <1>7, <1>8, Deleting DEF Next

(* The variables keep to their types: of the whole component, whatever the *)
(* calls, the cache and the restarts do.                                   *)
THEOREM TypeCorrect == Spec => []TypeOK
BY InitType, NextType, PTL DEF Spec

-----------------------------------------------------------------------------
(* The inductive invariant.  Rows only grow - they never become absent,    *)
(* readable again, visible again or shorter of history - so that whatever  *)
(* was shown of a row stays shown.                                         *)

Grows ==
  \A r \in Rows :
    /\ db[r].st # "Absent" => db'[r].st # "Absent" /\ db'[r].enc = db[r].enc
    /\ db[r].hashed => db'[r].hashed
    /\ db[r].deleted => db'[r].deleted
    /\ db[r].hist \subseteq db'[r].hist
    /\ seen[r] \subseteq seen'[r]

LEMMA ShownGrows ==
  ASSUME Grows, NEW r \in Rows, NEW d \in Doc, Shown(r, d)
  PROVE  Shown(r, d)'
BY DEF Grows, Shown, Live

LEMMA CallKept ==
  ASSUME TypeOK, Sound, Grows, NEW c \in Calls,
         call'[c] = call[c] \/ call'[c].pc \notin {"write", "preload", "fill", "answer"}
  PROVE  CallSound(c)'
<1>1. RowOf(c) \in Rows /\ call[c].doc \in Doc
  BY RowOfType DEF TypeOK, Call
<1>2. CASE call'[c].pc \notin {"write", "preload", "fill", "answer"}
  BY <1>2 DEF CallSound, At
<1>3. CASE call'[c] = call[c]
  <2>1. CallSound(c)
    BY DEF Sound
  <2>2. RowOf(c)' = RowOf(c) /\ call'[c].doc = call[c].doc /\ call'[c].op = call[c].op
    BY <1>3 DEF RowOf
  <2>3. CASE call[c].pc = "write"
    BY <1>1, <1>3, <2>1, <2>2, <2>3 DEF CallSound, At, Grows
  <2>4. CASE call[c].pc \in {"preload", "fill", "answer"}
    <3>1. Shown(RowOf(c), call[c].doc)
      BY <2>1, <2>4 DEF CallSound
    <3>2. \A r \in Rows, d \in Doc : Shown(r, d) => Shown(r, d)'
      BY ShownGrows
    <3>3. Shown(RowOf(c), call[c].doc)'
      BY <1>1, <1>3, <2>2, <3>1, <3>2 DEF Shown, Live
    <3> QED
      BY <1>3, <2>2, <2>4, <3>3 DEF CallSound, At
  <2>5. CASE call[c].pc \notin {"write", "preload", "fill", "answer"}
    BY <1>3, <2>5 DEF CallSound, At
  <2> QED
    BY <2>3, <2>4, <2>5
<1> QED
  BY <1>2, <1>3

LEMMA EntryKept ==
  ASSUME TypeOK, Sound, Grows, NEW e \in ExtIDs,
         cache'[e] = cache[e] \/ cache'[e].kind # "doc"
  PROVE  EntrySound(e)'
<1>1. CASE cache'[e].kind # "doc"
  BY <1>1 DEF EntrySound
<1>2. CASE cache'[e] = cache[e] /\ cache[e].kind = "doc"
  <2>1. cache[e].doc \in Doc /\ <<e, cache[e].doc.dev>> \in Rows
    BY DEF TypeOK, Entry, Doc, Rows
  <2>2. Shown(<<e, cache[e].doc.dev>>, cache[e].doc)
    BY <1>2 DEF Sound, CacheNeverAhead, EntrySound
  <2>3. \A r \in Rows, d \in Doc : Shown(r, d) => Shown(r, d)'
    BY ShownGrows
  <2> QED
    BY <1>2, <2>1, <2>2, <2>3 DEF EntrySound, Shown, Live
<1> QED
  BY <1>1, <1>2

(* What is left to show of a step: that rows grow and stay sound, and that *)
(* the one call and the one entry it changes are sound.                    *)
LEMMA StepSound ==
  ASSUME TypeOK, Sound, Grows, RowsSound',
         \A c \in Calls : \/ call'[c] = call[c]
                          \/ call'[c].pc \notin {"write", "preload", "fill", "answer"}
                          \/ CallSound(c)',
         \A e \in ExtIDs : \/ cache'[e] = cache[e]
                           \/ cache'[e].kind # "doc"
                           \/ EntrySound(e)'
  PROVE  Sound'
<1>1. \A c \in Calls : CallSound(c)'
  BY CallKept
<1>2. \A e \in ExtIDs : EntrySound(e)'
  BY EntryKept
<1> QED
  BY <1>1, <1>2 DEF Sound, CacheNeverAhead

LEMMA RowsKept ==
  ASSUME Sound, UNCHANGED <<db, seen, registered>>
  PROVE  Grows /\ RowsSound'
BY DEF Grows, Sound, RowsSound

LEMMA InitSound == Init => Sound
<1> SUFFICES ASSUME Init PROVE Sound
  OBVIOUS
<1>1. RowsSound
  BY DEF Init, RowsSound, NoRow, Open
<1>2. \A c \in Calls : CallSound(c)
  BY DEF Init, CallSound, At, Idle
<1>3. CacheNeverAhead
  BY DEF Init, CacheNeverAhead, EntrySound, Miss
<1> QED
  BY <1>1, <1>2, <1>3 DEF Sound

(* What the two ways to move a call do to the others.                      *)
LEMMA ReturnFrame ==
  ASSUME TypeOK, NEW c \in Calls, Return(c)
  PROVE  \A x \in Calls : call'[x] = call[x] \/ call'[x].pc = "idle"
BY DEF Return, Idle, TypeOK

LEMMA GotoFrame ==
  ASSUME TypeOK, NEW c \in Calls, NEW pc, Goto(c, pc)
  PROVE  /\ \A x \in Calls : call'[x] = call[x] \/ x = c
         /\ call'[c] = [call[c] EXCEPT !.pc = pc]
         /\ call'[c].pc = pc
<1>1. call[c] \in Call
  BY DEF TypeOK
<1> QED
  BY <1>1 DEF Goto, TypeOK, Call

(* Steps that leave the stored rows alone.                                 *)
LEMMA LookUpSound ==
  ASSUME TypeOK, Sound, NEW c \in Calls, NEW op \in {"get", "cancel"}, NEW e \in ExtIDs,
         LookUp(c, op, e), UNCHANGED <<db, cache, registered, seen>>
  PROVE  Sound'
<1>1. Grows /\ RowsSound'
  BY RowsKept
<1>2. CASE Return(c)
  BY <1>1, <1>2, ReturnFrame, StepSound
<1>3. CASE call' = [call EXCEPT ![c] = [op |-> op, pc |-> "select", ext |-> e, doc |-> BlankDoc]]
  <2>1. \A x \in Calls : call'[x] = call[x] \/ call'[x].pc = "select"
    BY <1>3 DEF TypeOK
  <2> QED
    BY <1>1, <2>1, StepSound
<1>4. CASE /\ cache[e].kind = "doc"
           /\ call' = [call EXCEPT ![c] =
                         [op |-> op, pc |-> "answer", ext |-> e, doc |-> cache[e].doc]]
  <2>1. /\ \A x \in Calls : call'[x] = call[x] \/ x = c
        /\ call'[c] = [op |-> op, pc |-> "answer", ext |-> e, doc |-> cache[e].doc]
    BY <1>4 DEF TypeOK
  <2>2. Shown(<<e, cache[e].doc.dev>>, cache[e].doc)
    BY <1>4 DEF Sound, CacheNeverAhead, EntrySound
  <2>3. CallSound(c)'
    BY <2>1, <2>2 DEF CallSound, At, RowOf, Shown, Live
  <2> QED
    BY <1>1, <2>1, <2>3, StepSound
<1> QED
  BY <1>2, <1>3, <1>4 DEF LookUp

LEMMA ReadForReportSound ==
  ASSUME TypeOK, Sound, NEW c \in Calls, NEW r \in Rows, NEW m \in Reports,
         ReadForReport(c, r, m)
  PROVE  Sound'
<1>1. Grows /\ RowsSound'
  BY RowsKept DEF ReadForReport
<1> DEFINE d == ReportedDoc(r, m)
<1>2. /\ \A x \in Calls : call'[x] = call[x] \/ x = c
      /\ call'[c] = [op |-> "report", pc |-> "write", ext |-> r[1], doc |-> d]
  BY DEF ReadForReport, TypeOK
<1>3. d.st \notin Open
  BY ReportedDocType
<1>4. d.dev = r[2] /\ d.hashed = db[r].hashed /\ d.enc = db[r].enc
  BY DEF ReportedDoc
<1>5. RowOf(c)' = r
  BY <1>2, <1>4 DEF RowOf, Rows
<1>6. CallSound(c)'
  BY <1>2, <1>3, <1>4, <1>5 DEF CallSound, At, ReadForReport, Live
<1> QED
  BY <1>1, <1>2, <1>6, StepSound DEF ReadForReport

LEMMA FillSound ==
  ASSUME TypeOK, Sound, NEW c \in Calls, Fill(c)
  PROVE  Sound'
<1>1. Grows /\ RowsSound'
  BY RowsKept DEF Fill
<1>0. PICK e \in ExtIDs, d \in Doc : e = call[c].ext /\ d = call[c].doc
  BY DEF TypeOK, Call
<1>2. Shown(<<e, d.dev>>, d)
  BY <1>0 DEF Fill, At, Sound, CallSound, RowOf
<1>3. Shown(<<e, d.dev>>, d)'
  BY <1>2 DEF Fill, Shown, Live
<1>4. \A x \in ExtIDs : cache'[x] = cache[x] \/ EntrySound(x)'
  <2>1. CASE UNCHANGED cache
    BY <2>1
  <2>2. CASE cache' = [cache EXCEPT ![e] = Hit(d)]
    <3>1. cache'[e] = Hit(d) /\ \A x \in ExtIDs : x = e \/ cache'[x] = cache[x]
      BY <1>2, <2>2 DEF TypeOK
    <3>2. EntrySound(e)'
      BY <1>3, <3>1 DEF EntrySound, Hit, Fill, Shown, Live
    <3> QED
      BY <3>1, <3>2
  <2> QED
    BY <1>0, <2>1, <2>2 DEF Fill, Store
<1>5. \A x \in Calls : \/ call'[x] = call[x]
                       \/ call'[x].pc \notin {"write", "preload", "fill", "answer"}
                       \/ CallSound(x)'
  <2>1. CASE Return(c)
    BY <2>1, ReturnFrame
  <2>2. CASE Goto(c, "queue")
    BY <2>2, GotoFrame
  <2>3. CASE Goto(c, "answer")
    <3>1. /\ \A x \in Calls : call'[x] = call[x] \/ x = c
          /\ call'[c] = [call[c] EXCEPT !.pc = "answer"]
          /\ call'[c].pc = "answer"
      BY <2>3, GotoFrame
    <3>2. call'[c].doc = d /\ RowOf(c)' = <<e, d.dev>>
      BY <1>0, <3>1 DEF RowOf, TypeOK, Call
    <3>3. CallSound(c)'
      BY <1>3, <3>1, <3>2 DEF CallSound, At, Fill, Shown, Live
    <3> QED
      BY <3>1, <3>3
  <2> QED
    BY <2>1, <2>2, <2>3 DEF Fill
<1> QED
  BY <1>1, <1>4, <1>5, StepSound

LEMMA SelectSound ==
  ASSUME TypeOK, Sound, NEW c \in Calls, Select(c)
  PROVE  Sound'
<1>1. Grows /\ RowsSound'
  BY RowsKept DEF Select
<1> DEFINE e == call[c].ext
<1>2. CASE Goto(c, "fillnil")
  BY <1>1, <1>2, GotoFrame, StepSound DEF Select
<1>3. CASE Return(c)
  BY <1>1, <1>3, ReturnFrame, StepSound DEF Select
<1>4. ASSUME NEW r \in Matching(e),
             call' = [call EXCEPT ![c].pc = "preload", ![c].doc = StoredDoc(r)]
      PROVE  Sound'
  <2>1. call[c] \in Call /\ StoredDoc(r).dev = r[2] /\ r = <<e, r[2]>>
    BY DEF TypeOK, StoredDoc, Matching, Rows
  <2>2. \A x \in Calls : call'[x] = call[x] \/ x = c
    BY <1>4 DEF TypeOK
  <2>3. /\ call'[c].pc = "preload" /\ call'[c].doc = StoredDoc(r)
        /\ call'[c].ext = e
    BY <1>4, <2>1 DEF TypeOK, Call
  <2>4. Shown(r, StoredDoc(r))
    <3>1. r \in Rows /\ Live(r)
      BY DEF Matching
    <3>2. db[r].st \in seen[r]
      BY <3>1 DEF Sound, RowsSound, Live
    <3> QED
      BY <3>1, <3>2 DEF Shown, StoredDoc, Live
  <2>5. CallSound(c)'
    BY <2>1, <2>3, <2>4 DEF CallSound, At, RowOf, Select, Shown, Live
  <2> QED
    BY <1>1, <2>2, <2>5, StepSound DEF Select
<1> QED
  BY <1>2, <1>3, <1>4 DEF Select

LEMMA PreloadSound ==
  ASSUME TypeOK, Sound, NEW c \in Calls, Preload(c)
  PROVE  Sound'
<1> DEFINE r == RowOf(c)
           d == PreloadedDoc(r, call[c].doc)
<1>1. Grows /\ RowsSound'
  BY RowsKept DEF Preload
<1>2. call[c] \in Call /\ r \in Rows /\ db[r] \in Row /\ call[c].doc \in Doc
  BY RowOfType DEF TypeOK, Call
<1>3. \A x \in Calls : call'[x] = call[x] \/ x = c
  BY DEF Preload, TypeOK
<1>4. call'[c].pc = "fill" /\ call'[c].doc = d /\ call'[c].ext = call[c].ext
  BY <1>2 DEF Preload, TypeOK, Call
<1>5. /\ d.dev = call[c].doc.dev /\ d.st = call[c].doc.st
      /\ d.hashed = call[c].doc.hashed /\ d.enc = call[c].doc.enc
      /\ d.hist \subseteq db[r].hist
  BY <1>2 DEF PreloadedDoc, Doc, Row
<1>6. Shown(r, call[c].doc)
  BY DEF Sound, CallSound, Preload, At
<1>7. Shown(r, d)
  BY <1>5, <1>6 DEF Shown
<1>8. RowOf(c)' = r
  BY <1>4, <1>5 DEF RowOf
<1>9. CallSound(c)'
  BY <1>4, <1>7, <1>8 DEF CallSound, At, Preload, Shown, Live
<1> QED
  BY <1>1, <1>3, <1>9, StepSound DEF Preload

(* Steps that write rows.                                                  *)
LEMMA InsertSound ==
  ASSUME TypeOK, Sound, NEW c \in Calls, NEW r \in Rows, NEW enc \in Encryption,
         Insert(c, r, enc)
  PROVE  Sound'
<1> DEFINE d == NewDoc(r[2], enc)
<1>1. /\ \A q \in Rows : q = r \/ db'[q] = db[q]
      /\ db'[r] = [st |-> "Pending", hashed |-> FALSE, enc |-> enc, deleted |-> FALSE,
                   rcp |-> d.rcp, hist |-> {"Pending"}]
  BY DEF Insert, Creatable, TypeOK, NewDoc
<1>2. \A q \in Rows : seen[q] \subseteq seen'[q]
  BY DEF Insert, Creatable, Witness
<1>3. "Pending" \in seen'[r]
  BY <1>1 DEF Insert, Creatable, Witness
<1>4. Grows
  <2>1. db[r].st = "Absent" /\ ~db[r].hashed /\ ~db[r].deleted
    BY DEF Insert, Creatable, Sound, RowsSound, Open
  <2>2. db[r].hist = {}
    BY <2>1 DEF Sound, RowsSound
  <2> QED
    BY <1>1, <1>2, <2>1, <2>2 DEF Grows
<1>5. RowsSound'
  BY <1>1, <1>2, <1>3 DEF Insert, Sound, RowsSound
<1>6. /\ \A x \in Calls : call'[x] = call[x] \/ x = c
      /\ call'[c] = [op |-> "enqueue", pc |-> "fill", ext |-> r[1], doc |-> d]
  BY DEF Insert, Creatable, TypeOK
<1>7. RowOf(c)' = r
  BY <1>6 DEF RowOf, NewDoc, Rows
<1>8. CallSound(c)'
  BY <1>1, <1>3, <1>6, <1>7 DEF CallSound, At, Shown, NewDoc
<1> QED
  BY <1>4, <1>5, <1>6, <1>8, StepSound DEF Insert, Creatable

LEMMA WriteReportSound ==
  ASSUME TypeOK, Sound, NEW c \in Calls, WriteReport(c)
  PROVE  Sound'
<1>1. PICK r \in Rows, d \in Doc : r = RowOf(c) /\ d = call[c].doc
  BY RowOfType DEF TypeOK, Call
<1>2. /\ d.st \notin Open /\ db[r].st # "Absent"
      /\ d.hashed => db[r].hashed
      /\ d.enc = db[r].enc
  BY <1>1 DEF WriteReport, Sound, CallSound
<1>3. d.st \in ProcessingStates /\ d.st # "Absent"
  BY DEF Doc, ProcessingStates
<1>4. db[r] \in Row
  BY DEF TypeOK
<1>5. /\ \A q \in Rows : q = r \/ db'[q] = db[q]
      /\ db'[r] = Reported(r, d)
  BY <1>1 DEF WriteReport, TypeOK
<1>6. /\ db'[r].st = d.st
      /\ db'[r].hashed = db[r].hashed
      /\ db'[r].enc = db[r].enc
      /\ db'[r].deleted = db[r].deleted
      /\ db'[r].hist = db[r].hist \cup d.hist
  BY <1>4, <1>5 DEF Reported, Row
<1>7. \A q \in Rows : seen[q] \subseteq seen'[q]
  BY DEF WriteReport, Witness
<1>8. db'[r].st # "Absent" => db'[r].st \in seen'[r]
  BY DEF WriteReport, Witness
<1>9. Grows
  BY <1>2, <1>3, <1>5, <1>6, <1>7 DEF Grows
<1>10. RowsSound'
  BY <1>2, <1>3, <1>5, <1>6, <1>7, <1>8 DEF WriteReport, Sound, RowsSound
<1>11. /\ \A x \in Calls : call'[x] = call[x] \/ x = c
       /\ call'[c] = [call[c] EXCEPT !.pc = "fill"]
       /\ call'[c].pc = "fill"
  BY GotoFrame DEF WriteReport
<1>12. call'[c].doc = d /\ RowOf(c)' = r
  BY <1>1, <1>11 DEF RowOf, TypeOK, Call
<1>13. Shown(r, d)'
  <2>1. db'[r].st # "Absent"
    BY <1>2, <1>3, <1>6
  <2>2. ~db'[r].deleted => d.st \in seen'[r]
    BY <1>6, <1>8, <2>1
  <2>3. d.hist \subseteq db'[r].hist /\ (d.hashed => db'[r].hashed) /\ d.enc = db'[r].enc
    BY <1>2, <1>6
  <2> QED
    BY <2>1, <2>2, <2>3 DEF Shown, Live
<1>14. CallSound(c)'
  BY <1>11, <1>12, <1>13 DEF CallSound, At
<1> QED
  BY <1>9, <1>10, <1>11, <1>14, StepSound DEF WriteReport

LEMMA WriteToGoneSound ==
  ASSUME TypeOK, Sound, NEW c \in Calls, WriteToGone(c)
  PROVE  Sound'
<1>1. Grows /\ RowsSound'
  BY RowsKept DEF WriteToGone
<1>2. CASE Return(c)
  BY <1>1, <1>2, ReturnFrame, StepSound DEF WriteToGone
<1>3. CASE Goto(c, "fill") /\ call[c].doc.hist = {}
  <2>1. PICK r \in Rows, d \in Doc : r = RowOf(c) /\ d = call[c].doc
    BY RowOfType DEF TypeOK, Call
  <2>2. /\ db[r].st # "Absent" /\ db[r].deleted
        /\ d.hashed => db[r].hashed
        /\ d.enc = db[r].enc
    BY <2>1 DEF WriteToGone, Sound, CallSound
  <2>3. /\ \A x \in Calls : call'[x] = call[x] \/ x = c
        /\ call'[c] = [call[c] EXCEPT !.pc = "fill"]
        /\ call'[c].pc = "fill"
    BY <1>3, GotoFrame
  <2>4. call'[c].doc = d /\ RowOf(c)' = r
    BY <2>1, <2>3 DEF RowOf, TypeOK, Call
  <2>5. CallSound(c)'
    BY <1>3, <2>1, <2>2, <2>3, <2>4 DEF CallSound, At, Shown, Live, WriteToGone
  <2> QED
    BY <1>1, <2>3, <2>5, StepSound DEF WriteToGone
<1> QED
  BY <1>2, <1>3 DEF WriteToGone

LEMMA MarkCancellingSound ==
  ASSUME TypeOK, Sound, NEW c \in Calls, MarkCancelling(c)
  PROVE  Sound'
<1>1. \A x \in Calls : call'[x] = call[x] \/ call'[x].pc \notin {"write", "preload", "fill", "answer"}
  <2>1. CASE Return(c)
    BY <2>1, ReturnFrame
  <2>2. CASE Goto(c, "drop")
    BY <2>2, GotoFrame
  <2> QED
    BY <2>1, <2>2 DEF MarkCancelling
<1>2. \A r \in Rows : seen[r] \subseteq seen'[r] /\ (db'[r].st # "Absent" => db'[r].st \in seen'[r])
  BY DEF MarkCancelling, Witness
<1>3. \A r \in Rows :
         \/ db'[r] = db[r]
         \/ db[r].st = "Pending" /\ db'[r] = [db[r] EXCEPT !.st = "Cancelling"]
  BY DEF MarkCancelling, Cancellable
<1>4. \A r \in Rows :
         /\ db'[r].hashed = db[r].hashed /\ db'[r].enc = db[r].enc
         /\ db'[r].deleted = db[r].deleted /\ db'[r].hist = db[r].hist
         /\ (db'[r].st = db[r].st \/ (db[r].st = "Pending" /\ db'[r].st = "Cancelling"))
  <2> SUFFICES ASSUME NEW r \in Rows
      PROVE  /\ db'[r].hashed = db[r].hashed /\ db'[r].enc = db[r].enc
             /\ db'[r].deleted = db[r].deleted /\ db'[r].hist = db[r].hist
             /\ (db'[r].st = db[r].st \/ (db[r].st = "Pending" /\ db'[r].st = "Cancelling"))
    OBVIOUS
  <2>1. db[r] \in Row
    BY DEF TypeOK
  <2> QED
    BY <1>3, <2>1 DEF Row
<1>5. Grows
  BY <1>2, <1>4 DEF Grows
<1>6. RowsSound'
  BY <1>2, <1>4 DEF MarkCancelling, Sound, RowsSound, Open
<1> QED
  BY <1>1, <1>5, <1>6, StepSound DEF MarkCancelling

LEMMA HashSound ==
  ASSUME TypeOK, Sound, NEW S, HashProcessed(S), UNCHANGED <<cache, call, registered, seen>>
  PROVE  Sound'
<1>1. \A r \in Rows :
         /\ db'[r].st = db[r].st /\ db'[r].enc = db[r].enc
         /\ db'[r].deleted = db[r].deleted /\ db'[r].hist = db[r].hist
         /\ (db'[r].hashed = db[r].hashed \/ (Unhashed(r) /\ db'[r].hashed))
  <2> SUFFICES ASSUME NEW r \in Rows
      PROVE  /\ db'[r].st = db[r].st /\ db'[r].enc = db[r].enc
             /\ db'[r].deleted = db[r].deleted /\ db'[r].hist = db[r].hist
             /\ (db'[r].hashed = db[r].hashed \/ (Unhashed(r) /\ db'[r].hashed))
    OBVIOUS
  <2>1. db[r] \in Row
    BY DEF TypeOK
  <2>2. CASE Unhashed(r) /\ db'[r] = [db[r] EXCEPT !.hashed = TRUE]
    BY <2>1, <2>2 DEF Row
  <2>3. CASE db'[r] = db[r]
    BY <2>3
  <2> QED
    BY <2>2, <2>3 DEF HashProcessed
<1>2. Grows
  BY <1>1 DEF Grows
<1>3. RowsSound'
  BY <1>1 DEF Sound, RowsSound, Unhashed
<1> QED
  BY <1>2, <1>3, StepSound

LEMMA DeletesSound ==
  ASSUME TypeOK, Sound, Deletes
  PROVE  Sound'
<1>1. Grows
  BY DeletedRows DEF Deletes, Grows
<1>2. RowsSound'
  <2>1. \A r \in Rows : db[r].st = "Absent" => db'[r] = db[r]
    BY DEF Deletes, TypeOK
  <2>2. \A r \in Rows : db[r].st \in Open /\ r[2] \in registered' => db'[r] = db[r] /\ r[2] \in registered
    BY DEF Deletes, TypeOK
  <2> QED
    BY <2>1, <2>2, DeletedRows DEF Deletes, Sound, RowsSound
<1> QED
  BY <1>1, <1>2, StepSound DEF Deletes

LEMMA NextSound == TypeOK /\ Sound /\ [Next]_vars => Sound'
<1> SUFFICES ASSUME TypeOK, Sound, [Next]_vars PROVE Sound'
  OBVIOUS
<1>1. ASSUME NEW c \in Calls, CallStep(c) PROVE Sound'
  <2>1. ASSUME NEW r \in Rows, NEW enc \in Encryption, Insert(c, r, enc) PROVE Sound'
    BY <2>1, InsertSound
  <2>2. ASSUME NEW r \in Rows, NEW m \in Reports, ReadForReport(c, r, m) PROVE Sound'
    BY <2>2, ReadForReportSound
  <2>3. ASSUME NEW e \in ExtIDs, GetLookUp(c, e) PROVE Sound'
    BY <2>3, LookUpSound DEF GetLookUp
  <2>4. ASSUME NEW e \in ExtIDs, ReadForCancel(c, e) PROVE Sound'
    <3>1. \A x \in Calls : call'[x] = call[x] \/ call'[x].pc = "mark"
      BY <2>4 DEF ReadForCancel, TypeOK
    <3> QED
      BY <2>4, <3>1, RowsKept, StepSound DEF ReadForCancel
  <2>5. CASE WriteReport(c)
    BY <2>5, WriteReportSound
  <2>6. CASE QueueForHashing(c) \/ Answer(c) \/ FailCall(c)
    BY <2>6, ReturnFrame, RowsKept, StepSound DEF QueueForHashing, Answer, FailCall
  <2>7. CASE Fill(c)
    BY <2>7, FillSound
  <2>8. CASE FillNil(c) \/ DropEntry(c)
    <3>1. \A x \in Calls : call'[x] = call[x] \/ call'[x].pc \in {"idle", "lookup"}
      BY <2>8, ReturnFrame, GotoFrame DEF FillNil, DropEntry
    <3>2. \A e \in ExtIDs : cache'[e] = cache[e] \/ cache'[e].kind # "doc"
      BY <2>8 DEF FillNil, DropEntry, Store, Nil, Miss, TypeOK
    <3>3. Grows /\ RowsSound'
      BY <2>8, RowsKept DEF FillNil, DropEntry
    <3> QED
      BY <3>1, <3>2, <3>3, StepSound
  <2>9. CASE Select(c) \/ Preload(c)
    BY <2>9, SelectSound, PreloadSound
  <2>10. CASE MarkCancelling(c)
    BY <2>10, MarkCancellingSound
  <2>11. CASE CancelLookUp(c)
    BY <2>11, LookUpSound DEF CancelLookUp, TypeOK, Call
  <2>12. CASE WriteToGone(c)
    BY <2>12, WriteToGoneSound
  <2> QED
    BY <1>1, <2>1, <2>2, <2>3, <2>4, <2>5, <2>6, <2>7, <2>8, <2>9, <2>10, <2>11, <2>12
    DEF CallStep, post, patch, get, delete
<1>2. ASSUME NEW e \in ExtIDs, Expire(e) PROVE Sound'
  <2>1. \A x \in ExtIDs : cache'[x] = cache[x] \/ cache'[x].kind # "doc"
    BY <1>2 DEF Expire, Miss, TypeOK
  <2> QED
    BY <1>2, <2>1, RowsKept, StepSound DEF Expire
<1>3. CASE TakeBatch
  BY <1>3, RowsKept, StepSound DEF TakeBatch
<1>4. CASE HashBatch
  <2>1. CASE UNCHANGED db
    BY <1>4, <2>1, RowsKept, StepSound DEF HashBatch
  <2>2. CASE HashProcessed(batch)
    BY <1>4, <2>2, HashSound DEF HashBatch
  <2> QED
    BY <1>4, <2>1, <2>2 DEF HashBatch
<1>5. CASE HashAll
  BY <1>5, HashSound DEF HashAll
<1>6. CASE Deletes
  BY <1>6, DeletesSound
<1>7. CASE Restart
  <2>1. \A c \in Calls : call'[c].pc = "idle"
    BY <1>7 DEF Restart, Idle
  <2>2. \A e \in ExtIDs : cache'[e] = cache[e] \/ cache'[e].kind # "doc"
    BY <1>7 DEF Restart, Miss
  <2> QED
    BY <1>7, <2>1, <2>2, RowsKept, StepSound DEF Restart
<1>8. CASE UNCHANGED vars
  BY <1>8, RowsKept, StepSound DEF vars
<1> QED
  BY <1>1, <1>2, <1>3, <1>4, <1>5, <1>6, <1>7, <1>8, Deleting DEF Next

LEMMA SoundAlways == Spec => []Sound
BY InitSound, NextSound, TypeCorrect, PTL DEF Spec

(* A filter asks for what it was built from.                               *)
LEMMA FilterNames ==
  ASSUME NEW D, NEW S
  PROVE  LET f == WithStates(WithDeviceID(AnyMessage, D), S)
         IN  f.ext = ExtIDs /\ f.dev = D /\ f.states = S
BY DEF AnyMessage, WithDeviceID, WithStates

(* What a device pulls is intact: no interleaving of reports, cancels,     *)
(* hashing jobs and cleanups hashes or removes a row that still waits.     *)
THEOREM PullableIntactAlways == Spec => []PullableIntact
<1>1. Sound => PullableIntact
  <2> SUFFICES ASSUME Sound PROVE PullableIntact
    OBVIOUS
  <2>1. \A r \in Rows : db[r].st \in Open => ~db[r].hashed
    BY DEF Sound, RowsSound
  <2>2. ASSUME NEW d \in Devices, NEW m \in SelectPending(d)
        PROVE  m.content = "content"
    BY <2>1, <2>2 DEF SelectPending, list, AnyMessage, WithDeviceID, WithStates,
                      messageToDomain, GetContent
  <2>3. ASSUME NEW r \in Rows, db[r].st \in Open, r[2] \in registered
        PROVE  messageToDomain(r) \in SelectPending(r[2])
    <3> DEFINE F == WithStates(WithDeviceID(AnyMessage, {r[2]}), Open)
    <3>1. F.ext = ExtIDs /\ F.dev = {r[2]} /\ F.states = Open
      BY FilterNames
    <3> HIDE DEF F
    <3>2. r[1] \in F.ext /\ r[2] \in F.dev /\ db[r].st \in F.states
      BY <2>3, <3>1 DEF Rows
    <3>3. Live(r)
      BY <2>3 DEF Sound, RowsSound, Live, Open
    <3>4. r \in list(F)
      BY <2>3, <3>2, <3>3 DEF list
    <3> QED
      BY <3>4 DEF SelectPending, F
  <2> QED
    BY <2>2, <2>3 DEF PullableIntact, Sound, RowsSound
<1> QED
  BY <1>1, SoundAlways, PTL

(* The cache shows nothing that the database has not committed, with any   *)
(* number of concurrent calls, failing cache operations and restarts.      *)
THEOREM CacheNeverAheadAlways == Spec => []CacheNeverAhead
<1>1. Sound => CacheNeverAhead
  BY DEF Sound
<1> QED
  BY <1>1, SoundAlways, PTL

-----------------------------------------------------------------------------
(* No request to hash a row is lost.                                       *)

InReport(c) == call[c].op = "report" /\ call[c].pc \in {"fill", "queue"}

(* A step keeps every request when no row starts to need hashing, nothing  *)
(* leaves the queue, the batch and the lost ones, and a call that owes the *)
(* queue a row still does, or has paid.                                    *)
LEMMA RequestsKept ==
  ASSUME HashRequestNeverLost,
         \A r \in Rows : Unhashed(r)' => Unhashed(r),
         queue \cup batch \cup forgotten \subseteq (queue \cup batch \cup forgotten)',
         \A c \in Calls : InReport(c) => \/ InReport(c)' /\ RowOf(c)' = RowOf(c)
                                         \/ RowOf(c) \in (queue \cup forgotten)'
  PROVE  HashRequestNeverLost'
<1> SUFFICES ASSUME NEW r \in Rows, Unhashed(r)'
    PROVE  r \in (queue \cup batch \cup Reporting \cup forgotten)'
  BY DEF HashRequestNeverLost
<1>1. r \in queue \cup batch \cup Reporting \cup forgotten
  BY DEF HashRequestNeverLost
<1>2. ASSUME NEW c \in Calls, InReport(c), r = RowOf(c)
      PROVE  r \in (Reporting \cup queue \cup forgotten)'
  BY <1>2 DEF InReport, Reporting
<1> QED
  BY <1>1, <1>2 DEF Reporting, InReport

(* Calls that are not the reporting call of the step.                      *)
LEMMA ReturnRequests ==
  ASSUME TypeOK, NEW c \in Calls, ~InReport(c), Return(c)
  PROVE  \A x \in Calls : InReport(x) => InReport(x)' /\ RowOf(x)' = RowOf(x)
BY DEF Return, TypeOK, InReport, RowOf

LEMMA GotoRequests ==
  ASSUME TypeOK, NEW c \in Calls, NEW pc, Goto(c, pc), InReport(c) => pc = "queue"
  PROVE  \A x \in Calls : InReport(x) => InReport(x)' /\ RowOf(x)' = RowOf(x)
<1>1. call[c] \in Call
  BY DEF TypeOK
<1>2. /\ call'[c].op = call[c].op /\ call'[c].pc = pc
      /\ call'[c].ext = call[c].ext /\ call'[c].doc = call[c].doc
      /\ \A x \in Calls : x = c \/ call'[x] = call[x]
  BY <1>1 DEF Goto, TypeOK, Call
<1> QED
  BY <1>2 DEF InReport, RowOf

LEMMA StartRequests ==
  ASSUME TypeOK, NEW c \in Calls, ~InReport(c), NEW new, call' = [call EXCEPT ![c] = new]
  PROVE  \A x \in Calls : InReport(x) => InReport(x)' /\ RowOf(x)' = RowOf(x)
BY DEF TypeOK, InReport, RowOf

LEMMA HashRequests ==
  ASSUME TypeOK, NEW S, HashProcessed(S)
  PROVE  /\ \A r \in Rows : Unhashed(r)' => Unhashed(r)
         /\ \A r \in S \cap Rows : ~Unhashed(r)'
<1> SUFFICES ASSUME NEW r \in Rows
    PROVE  /\ Unhashed(r)' => Unhashed(r)
           /\ r \in S => ~Unhashed(r)'
  OBVIOUS
<1>1. db[r] \in Row
  BY DEF TypeOK
<1>2. db'[r] = IF r \in S /\ Unhashed(r) THEN [db[r] EXCEPT !.hashed = TRUE] ELSE db[r]
  BY DEF HashProcessed
<1>3. CASE r \in S /\ Unhashed(r)
  BY <1>1, <1>2, <1>3 DEF Unhashed, Row
<1>4. CASE ~(r \in S /\ Unhashed(r))
  BY <1>2, <1>4 DEF Unhashed
<1> QED
  BY <1>3, <1>4

(* The only step after which a row starts to need hashing is the one that  *)
(* stores its report: the call then owes the queue that row.               *)
LEMMA WriteReportRequests ==
  ASSUME TypeOK, Sound, HashRequestNeverLost, NEW c \in Calls, WriteReport(c)
  PROVE  HashRequestNeverLost'
<1>1. call[c] \in Call /\ call[c].op = "report" /\ RowOf(c) \in Rows
  BY RowOfType DEF WriteReport, Sound, CallSound, TypeOK
<1>2. /\ call'[c].op = "report" /\ call'[c].pc = "fill" /\ RowOf(c)' = RowOf(c)
  <2>1. call'[c] = [call[c] EXCEPT !.pc = "fill"]
    BY GotoFrame DEF WriteReport
  <2> QED
    BY <1>1, <2>1 DEF Call, RowOf
<1>3. RowOf(c) \in Reporting'
  BY <1>2 DEF Reporting
<1>4. \A x \in Calls : InReport(x) => InReport(x)' /\ RowOf(x)' = RowOf(x)
  BY GotoRequests DEF WriteReport, At, InReport
<1>5. Reporting \subseteq Reporting'
  BY <1>4 DEF Reporting, InReport
<1>6. \A r \in Rows : r = RowOf(c) \/ db'[r] = db[r]
  BY DEF WriteReport, TypeOK
<1>7. ASSUME NEW r \in Rows, Unhashed(r)'
      PROVE  r \in (queue \cup batch \cup Reporting \cup forgotten)'
  <2>1. CASE r = RowOf(c)
    BY <1>3, <2>1
  <2>2. CASE db'[r] = db[r]
    BY <1>5, <1>7, <2>2 DEF Unhashed, HashRequestNeverLost, WriteReport
  <2> QED
    BY <1>6, <2>1, <2>2
<1> QED
  BY <1>7 DEF HashRequestNeverLost

LEMMA CallStepRequests ==
  ASSUME TypeOK, Sound, HashRequestNeverLost, NEW c \in Calls, CallStep(c)
  PROVE  HashRequestNeverLost'
<1>1. CASE At(c, "idle") /\ \/ \E r \in Rows, enc \in Encryption : Insert(c, r, enc)
                            \/ \E r \in Rows, m \in Reports : ReadForReport(c, r, m)
                            \/ \E e \in ExtIDs : GetLookUp(c, e) \/ ReadForCancel(c, e)
  <2>1. ~InReport(c)
    BY <1>1 DEF At, InReport
  <2>2. \A x \in Calls : InReport(x) => InReport(x)' /\ RowOf(x)' = RowOf(x)
    <3>1. \E new : call' = [call EXCEPT ![c] = new]
      BY <1>1 DEF Insert, Creatable, ReadForReport, GetLookUp, ReadForCancel, LookUp, Return
    <3> QED
      BY <2>1, <3>1, StartRequests
  <2>3. UNCHANGED <<queue, batch, forgotten>>
    BY <1>1 DEF Insert, Creatable, ReadForReport, GetLookUp, ReadForCancel
  <2>4. \A r \in Rows : Unhashed(r)' => Unhashed(r)
    <3>1. CASE UNCHANGED db
      BY <3>1 DEF Unhashed
    <3>2. ASSUME NEW r \in Rows, NEW enc \in Encryption, Insert(c, r, enc)
          PROVE  \A q \in Rows : Unhashed(q)' => Unhashed(q)
      <4>1. db'[r].st = "Pending" /\ \A q \in Rows : q = r \/ db'[q] = db[q]
        BY <3>2 DEF Insert, Creatable, TypeOK, NewDoc
      <4> QED
        BY <4>1 DEF Unhashed, Open
    <3> QED
      BY <1>1, <3>1, <3>2 DEF ReadForReport, GetLookUp, ReadForCancel
  <2> QED
    BY <2>2, <2>3, <2>4, RequestsKept
<1>2. CASE WriteReport(c)
  BY <1>2, WriteReportRequests
<1>3. CASE QueueForHashing(c)
  <2>1. \A x \in Calls : InReport(x) => \/ InReport(x)' /\ RowOf(x)' = RowOf(x)
                                        \/ RowOf(x) \in queue'
    BY <1>3 DEF QueueForHashing, Return, TypeOK, InReport, RowOf
  <2>2. UNCHANGED <<db, batch, forgotten>> /\ queue \subseteq queue'
    BY <1>3 DEF QueueForHashing
  <2> QED
    BY <2>1, <2>2, RequestsKept DEF Unhashed
<1>4. CASE Fill(c)
  <2>1. CASE InReport(c)
    BY <1>4, <2>1, GotoRequests, RequestsKept DEF Fill, InReport, Unhashed
  <2>2. CASE ~InReport(c) /\ \/ Return(c)
                             \/ Goto(c, "queue")
                             \/ Goto(c, "answer")
    BY <1>4, <2>2, ReturnRequests, GotoRequests, RequestsKept DEF Fill, Unhashed
  <2> QED
    BY <1>4, <2>1, <2>2 DEF Fill
<1>5. CASE MarkCancelling(c)
  <2>1. ~InReport(c) /\ UNCHANGED <<queue, batch, forgotten>>
    BY <1>5 DEF MarkCancelling, At, InReport
  <2>2. \A x \in Calls : InReport(x) => InReport(x)' /\ RowOf(x)' = RowOf(x)
    BY <1>5, <2>1, ReturnRequests, GotoRequests DEF MarkCancelling
  <2>3. \A r \in Rows : Unhashed(r)' => Unhashed(r)
    <3>1. \A r \in Rows :
            \/ db'[r] = db[r]
            \/ db'[r] = [db[r] EXCEPT !.st = "Cancelling"]
      BY <1>5 DEF MarkCancelling
    <3> QED
      BY <3>1 DEF Unhashed, Open, TypeOK, Row
  <2> QED
    BY <2>1, <2>2, <2>3, RequestsKept
<1>6. CASE \/ FillNil(c) \/ Select(c) \/ Preload(c) \/ Answer(c) \/ DropEntry(c)
           \/ CancelLookUp(c) \/ FailCall(c) \/ WriteToGone(c)
  <2>1. ~InReport(c) /\ UNCHANGED <<db, queue, batch, forgotten>>
    BY <1>6 DEF FillNil, Select, Preload, Answer, DropEntry, CancelLookUp, FailCall, WriteToGone, At, InReport
  <2>2. \A x \in Calls : InReport(x) => InReport(x)' /\ RowOf(x)' = RowOf(x)
    <3>1. CASE Return(c)
      BY <2>1, <3>1, ReturnRequests
    <3>2. CASE Goto(c, "lookup") \/ Goto(c, "fillnil") \/ Goto(c, "fill")
      BY <2>1, <3>2, GotoRequests
    <3>3. CASE Select(c) \/ Preload(c)
      <4>1. ASSUME NEW pc, NEW d, call' = [call EXCEPT ![c].pc = pc, ![c].doc = d]
            PROVE  \A x \in Calls : InReport(x) => InReport(x)' /\ RowOf(x)' = RowOf(x)
        BY <2>1, <4>1 DEF TypeOK, InReport, RowOf
      <4> QED
        BY <3>1, <3>2, <3>3, <4>1 DEF Select, Preload
    <3>4. CASE CancelLookUp(c)
      <4>1. \E new : call' = [call EXCEPT ![c] = new]
        BY <3>4 DEF CancelLookUp, LookUp, Return
      <4> QED
        BY <2>1, <4>1, StartRequests
    <3> QED
      BY <1>6, <3>1, <3>2, <3>3, <3>4 DEF FillNil, Answer, DropEntry, FailCall, WriteToGone
  <2> QED
    BY <2>1, <2>2, RequestsKept DEF Unhashed
<1> QED
  BY <1>1, <1>2, <1>3, <1>4, <1>5, <1>6
  DEF CallStep, post, patch, get, delete, Insert, Creatable, ReadForReport, GetLookUp, ReadForCancel

LEMMA NextRequests ==
  TypeOK /\ Sound /\ HashRequestNeverLost /\ [Next]_vars => HashRequestNeverLost'
<1> SUFFICES ASSUME TypeOK, Sound, HashRequestNeverLost, [Next]_vars
    PROVE  HashRequestNeverLost'
  OBVIOUS
<1>1. ASSUME NEW c \in Calls, CallStep(c) PROVE HashRequestNeverLost'
  BY <1>1, CallStepRequests
<1>2. CASE TakeBatch
  BY <1>2, RequestsKept DEF TakeBatch, Unhashed, InReport, RowOf
<1>3. CASE HashBatch
  <2>1. CASE HashProcessed(batch)
    <3>1. \A r \in Rows : Unhashed(r)' => Unhashed(r) /\ r \notin batch
      BY <2>1, HashRequests DEF TypeOK
    <3>2. UNCHANGED <<queue, call>> /\ forgotten \subseteq forgotten' /\ Reporting' = Reporting
      BY <1>3 DEF HashBatch, Reporting, RowOf
    <3> QED
      BY <3>1, <3>2 DEF HashRequestNeverLost
  <2>2. CASE UNCHANGED db /\ forgotten' = forgotten \cup batch
    BY <1>3, <2>2, RequestsKept DEF HashBatch, Unhashed, InReport, RowOf
  <2> QED
    BY <1>3, <2>1, <2>2 DEF HashBatch
<1>4. CASE HashAll
  <2>1. \A r \in Rows : Unhashed(r)' => Unhashed(r)
    BY <1>4, HashRequests DEF HashAll
  <2> QED
    BY <1>4, <2>1, RequestsKept DEF HashAll, InReport, RowOf
<1>5. CASE Deletes
  <2>1. \A r \in Rows : Unhashed(r)' => Unhashed(r)
    BY <1>5, DeletedRows DEF Unhashed
  <2> QED
    BY <1>5, <2>1, RequestsKept DEF Deletes, InReport, RowOf
<1>6. CASE Restart
  BY <1>6, RequestsKept DEF Restart, Unhashed, InReport, Reporting
<1>7. CASE UNCHANGED vars \/ \E e \in ExtIDs : Expire(e)
  BY <1>7, RequestsKept DEF vars, Expire, Unhashed, InReport, RowOf
<1> QED
  BY <1>1, <1>2, <1>3, <1>4, <1>5, <1>6, <1>7, Deleting DEF Next

(* Between a device's report and the row's hash there is always someone    *)
(* who has the row on a list, unless the server stopped or the hashing     *)
(* statement failed.                                                       *)
THEOREM HashRequestNeverLostAlways == Spec => []HashRequestNeverLost
<1>1. Init => HashRequestNeverLost
  BY DEF Init, HashRequestNeverLost, Unhashed, NoRow
<1> QED
  BY <1>1, NextRequests, TypeCorrect, SoundAlways, PTL DEF Spec

-----------------------------------------------------------------------------
(* The component implements MessageLifecycle: the phases and the sealed    *)
(* rows that the stored rows show start empty, and every step either       *)
(* leaves them alone or is one step of the life cycle.                     *)

LEMMA PhasesAfter ==
  /\ phases' = [r \in Rows |-> PhaseOf(db'[r])]
  /\ sealedRows' = {r \in Rows : db'[r].enc}
BY DEF phases, sealedRows

LEMMA SamePhases ==
  ASSUME \A r \in Rows : PhaseOf(db'[r]) = PhaseOf(db[r]) /\ db'[r].enc = db[r].enc
  PROVE  UNCHANGED <<phases, sealedRows>>
BY PhasesAfter DEF phases, sealedRows

LEMMA InsertAccepts ==
  ASSUME TypeOK, Sound, NEW c \in Calls, NEW r \in Rows, NEW enc \in Encryption,
         Insert(c, r, enc)
  PROVE  Life!Accept(r)
<1>1. /\ db'[r].st = "Pending" /\ ~db'[r].hashed /\ db'[r].enc = enc
      /\ \A q \in Rows : q = r \/ db'[q] = db[q]
  BY DEF Insert, Creatable, NewDoc, TypeOK
<1>2. db[r].st = "Absent" /\ ~db[r].hashed /\ ~db[r].enc
  BY DEF Insert, Creatable, Sound, RowsSound
<1>3. phases[r] = "absent"
  BY <1>2 DEF phases, PhaseOf
<1>4. Life!Move({r}, "queued")
  <2>1. \A q \in Rows : PhaseOf(db'[q]) = IF q = r THEN "queued" ELSE PhaseOf(db[q])
    BY <1>1 DEF PhaseOf
  <2> QED
    BY <2>1, PhasesAfter DEF Life!Move, phases
<1>5. sealedRows' = IF enc THEN sealedRows \cup {r} ELSE sealedRows
  <2>1. enc \in BOOLEAN
    BY ConstantsAssumption
  <2>2. CASE enc
    BY <1>1, <2>2, PhasesAfter DEF sealedRows
  <2>3. CASE ~enc
    BY <1>1, <1>2, <2>3, PhasesAfter DEF sealedRows
  <2> QED
    BY <2>1, <2>2, <2>3
<1> QED
  BY <1>3, <1>4, <1>5 DEF Life!Accept

LEMMA WriteReportSettles ==
  ASSUME TypeOK, Sound, NEW c \in Calls, WriteReport(c)
  PROVE  Life!Settle(RowOf(c)) \/ UNCHANGED <<phases, sealedRows>>
<1>1. PICK r \in Rows, d \in Doc : r = RowOf(c) /\ d = call[c].doc
  BY RowOfType DEF TypeOK, Call
<1>2. d.st \in ProcessingStates \ Open /\ db[r].st # "Absent"
  BY <1>1 DEF WriteReport, Sound, CallSound, Doc
<1>3. db[r] \in Row
  BY DEF TypeOK
<1>4. /\ \A q \in Rows : q = r \/ db'[q] = db[q]
      /\ db'[r] = Reported(r, d)
  BY <1>1 DEF WriteReport, TypeOK
<1>5. /\ db'[r].st = d.st
      /\ db'[r].hashed = db[r].hashed /\ db'[r].enc = db[r].enc
  BY <1>3, <1>4 DEF Reported, Row
<1>6. CASE PhaseOf(db'[r]) = PhaseOf(db[r])
  BY <1>4, <1>5, <1>6, SamePhases
<1>7. CASE PhaseOf(db'[r]) # PhaseOf(db[r])
  <2>1. ~db[r].hashed
    BY <1>5, <1>7 DEF PhaseOf
  <2>2. PhaseOf(db'[r]) = "settled"
    BY <1>2, <1>5, <2>1 DEF PhaseOf, ProcessingStates, Open
  <2>3. PhaseOf(db[r]) \in {"queued", "cancelling"}
    BY <1>2, <1>7, <2>1, <2>2 DEF PhaseOf
  <2>4. Life!Move({r}, "settled")
    BY <1>4, <2>2, PhasesAfter DEF Life!Move, phases
  <2>5. sealedRows' = sealedRows
    BY <1>4, <1>5, PhasesAfter DEF sealedRows
  <2> QED
    BY <1>1, <2>3, <2>4, <2>5 DEF Life!Settle, phases
<1> QED
  BY <1>6, <1>7

LEMMA MarkCancellingRequests ==
  ASSUME TypeOK, Sound, NEW c \in Calls, MarkCancelling(c)
  PROVE  Life!RequestCancel(Cancellable(call[c].ext)) \/ UNCHANGED <<phases, sealedRows>>
<1>1. CASE UNCHANGED db
  BY <1>1, SamePhases
<1>2. CASE db' = [r \in Rows |-> IF r \in Cancellable(call[c].ext)
                                 THEN [db[r] EXCEPT !.st = "Cancelling"] ELSE db[r]]
  <2>1. \A r \in Cancellable(call[c].ext) :
          r \in Rows /\ db[r].st = "Pending" /\ ~db[r].hashed
    BY DEF Cancellable, Matching, Sound, RowsSound, Open
  <2>2. Cancellable(call[c].ext) \subseteq Life!In("queued")
    BY <2>1 DEF Life!In, phases, PhaseOf
  <2>3. \A r \in Rows :
          /\ db'[r].enc = db[r].enc
          /\ PhaseOf(db'[r]) = IF r \in Cancellable(call[c].ext) THEN "cancelling" ELSE PhaseOf(db[r])
    BY <1>2, <2>1 DEF TypeOK, Row, PhaseOf
  <2>4. Life!Move(Cancellable(call[c].ext), "cancelling") /\ sealedRows' = sealedRows
    BY <2>3, PhasesAfter DEF Life!Move, phases, sealedRows
  <2> QED
    BY <2>2, <2>4 DEF Life!RequestCancel
<1> QED
  BY <1>1, <1>2 DEF MarkCancelling

LEMMA HashProcessedHashes ==
  ASSUME TypeOK, NEW S, HashProcessed(S)
  PROVE  \E T \in SUBSET Rows : Life!Hash(T)
<1> DEFINE T == {r \in Rows : r \in S /\ Unhashed(r)}
<1>1. T \subseteq Life!In("settled") \ sealedRows
  BY DEF Life!In, phases, PhaseOf, sealedRows, Unhashed, Open
<1>2. \A r \in Rows : /\ db'[r].enc = db[r].enc
                      /\ PhaseOf(db'[r]) = IF r \in T THEN "hashed" ELSE PhaseOf(db[r])
  BY DEF HashProcessed, TypeOK, Row, PhaseOf
<1>3. Life!Move(T, "hashed") /\ sealedRows' = sealedRows
  BY <1>2, PhasesAfter DEF Life!Move, phases, sealedRows
<1>4. Life!Hash(T)
  BY <1>1, <1>3 DEF Life!Hash
<1> QED
  BY <1>4

LEMMA NextLives ==
  TypeOK /\ Sound /\ [Next]_vars => [Life!Next]_(Life!vars)
<1> SUFFICES ASSUME TypeOK, Sound, [Next]_vars
    PROVE  Life!Next \/ UNCHANGED <<phases, sealedRows>>
  BY DEF Life!vars
<1>1. CASE UNCHANGED db
  BY <1>1, SamePhases
<1>2. ASSUME NEW c \in Calls, NEW r \in Rows, NEW enc \in Encryption, Insert(c, r, enc)
      PROVE  Life!Next
  BY <1>2, InsertAccepts DEF Life!Next
<1>3. ASSUME NEW c \in Calls, WriteReport(c)
      PROVE  Life!Next \/ UNCHANGED <<phases, sealedRows>>
  BY <1>3, WriteReportSettles, RowOfType DEF Life!Next
<1>4. ASSUME NEW c \in Calls, MarkCancelling(c)
      PROVE  Life!Next \/ UNCHANGED <<phases, sealedRows>>
  BY <1>4, MarkCancellingRequests DEF Life!Next, Cancellable, Matching
<1>5. ASSUME NEW S, HashProcessed(S) PROVE Life!Next
  BY <1>5, HashProcessedHashes DEF Life!Next
<1>6. ASSUME Deletes PROVE UNCHANGED <<phases, sealedRows>>
  <2>1. \A r \in Rows : PhaseOf(db'[r]) = PhaseOf(db[r]) /\ db'[r].enc = db[r].enc
    BY <1>6, DeletedRows DEF PhaseOf
  <2> QED
    BY <2>1, SamePhases
<1>7. ASSUME NEW c \in Calls, CallStep(c)
      PROVE  Life!Next \/ UNCHANGED <<phases, sealedRows>>
  BY <1>1, <1>2, <1>3, <1>4, <1>7
  DEF CallStep, post, patch, get, delete, ReadForReport, WriteToGone, GetLookUp, ReadForCancel, QueueForHashing, Fill, FillNil,
      Select, Preload, Answer, DropEntry, CancelLookUp, FailCall
<1> QED
  BY <1>1, <1>5, <1>6, <1>7, Deleting DEF Next, Expire, TakeBatch, HashBatch, HashAll, Restart, vars

(* Handlers, jobs and the cleanup together keep the life cycle of every    *)
(* message: it never returns to the queue, is cancelled only from it, is   *)
(* hashed only when settled and not encrypted, and stays hashed.           *)
THEOREM LifecycleImplemented == Spec => ImplementsLifecycle
<1>1. Init => Life!Init
  BY DEF Init, Life!Init, NoRow, phases, PhaseOf, sealedRows
<1> QED
  BY <1>1, NextLives, TypeCorrect, SoundAlways, PTL DEF Spec, ImplementsLifecycle, Life!Spec

-----------------------------------------------------------------------------
(* One property holds for one call at a time.  More than that: calls may   *)
(* overlap as long as no two of them are about the same message ID.        *)

Serial ==
  \A c, x \in Calls :
    ~At(c, "idle") /\ ~At(x, "idle") /\ call[c].ext = call[x].ext => c = x

(* One call at a time is serial.                                           *)
LEMMA OneCallIsSerial ==
  ASSUME NEW c, Calls = {c} PROVE Serial
BY DEF Serial

(* What a document says of a stored row it is about.                       *)
Agrees(e, d) ==
  \A r \in Matching(e) :
    d.dev = r[2] =>
      /\ d.st = db[r].st
      /\ d.hashed = db[r].hashed =>
           \A p \in Phones \ BarePhones : d.rcp[p] \in {"Unlisted", db[r].rcp[p]}

EntryAgrees(e) ==
  /\ cache[e].kind = "nil" => Matching(e) = {}
  /\ cache[e].kind = "doc" => Agrees(e, cache[e].doc)

(* The call that has just written the rows and is about to fill or drop    *)
(* the entry.                                                              *)
Renewing(c, e) == ~At(c, "idle") /\ call[c].ext = e /\ call[c].pc \in {"fill", "drop"}

CallAgrees(c) ==
  /\ At(c, "fillnil") => Matching(call[c].ext) = {}
  /\ call[c].pc \in {"preload", "fill"} => Agrees(call[c].ext, call[c].doc)

Coherent ==
  /\ \A e \in ExtIDs : EntryAgrees(e) \/ \E c \in Calls : Renewing(c, e)
  /\ \A c \in Calls : CallAgrees(c)

(* The entry of an ID that no call is about agrees with the rows.          *)
LEMMA AgreesWithHistory ==
  ASSUME NEW e \in ExtIDs, EntryAgrees(e)
  PROVE  AgreesAtRest(e)
<1> SUFFICES ASSUME NEW m \in SelectStates(ToFilter(Devices)), m.id = e
    PROVE  LET d == cache[e].doc IN
           /\ cache[e].kind # "nil"
           /\ cache[e].kind = "doc" /\ d.dev = m.doc.dev =>
                /\ d.st = m.doc.st
                /\ d.hashed = m.doc.hashed =>
                     \A p \in Phones \ BarePhones : d.rcp[p] \in {"Unlisted", m.doc.rcp[p]}
  BY DEF AgreesAtRest
<1>1. PICK r \in list(ToFilter(Devices)) : m = [id |-> r[1], doc |-> StoredDoc(r)]
  BY DEF SelectStates
<1>2. r \in Matching(e)
  BY <1>1 DEF list, Matching
<1> QED
  BY <1>1, <1>2 DEF EntryAgrees, Agrees, StoredDoc

LEMMA CoherentAtRest ==
  ASSUME Coherent PROVE CacheAgreesAtRest
BY AgreesWithHistory DEF Coherent, Renewing, CacheAgreesAtRest

(* Rows of one ID that stay as they are are matched, and agreed with, as   *)
(* before.                                                                 *)
LEMMA SameRows ==
  ASSUME NEW e \in ExtIDs, \A r \in Rows : r[1] = e => db'[r] = db[r]
  PROVE  /\ Matching(e)' = Matching(e)
         /\ \A d : Agrees(e, d)' <=> Agrees(e, d)
<1>1. Matching(e)' = Matching(e)
  BY DEF Matching, Live
<1>2. \A r \in Matching(e) : db'[r] = db[r]
  BY DEF Matching
<1> QED
  BY <1>1, <1>2 DEF Agrees

LEMMA CallStays ==
  ASSUME NEW x \in Calls, call'[x] = call[x], CallAgrees(x),
         \A r \in Rows : r[1] = call[x].ext => db'[r] = db[r]
  PROVE  CallAgrees(x)'
<1> DEFINE M(e) == {r \in Rows : r[1] = e /\ Live(r)}
<1>1. {r \in Rows : r[1] = call'[x].ext /\ Live(r)'} = M(call[x].ext)
  BY DEF Live
<1>2. \A r \in M(call[x].ext) : db'[r] = db[r]
  OBVIOUS
<1> QED
  BY <1>1, <1>2 DEF CallAgrees, At, Agrees, Matching

(* Two calls about one ID never overlap, so while one writes rows of an ID *)
(* the others are about other IDs.                                         *)
LEMMA OthersElsewhere ==
  ASSUME TypeOK, Serial, Serial', NEW c \in Calls, NEW e \in ExtIDs,
         \A x \in Calls : x = c \/ call'[x] = call[x],
         \/ ~At(c, "idle") /\ call[c].ext = e
         \/ ~At(c, "idle")' /\ call'[c].ext = e
  PROVE  \A x \in Calls : x = c \/ At(x, "idle") \/ call[x].ext # e
BY DEF Serial, At

(* A step of one call that writes only rows of its own ID ...              *)
LEMMA WriteCoherent ==
  ASSUME TypeOK, Coherent, Serial, Serial', NEW c \in Calls, NEW e \in ExtIDs,
         \A x \in Calls : x = c \/ call'[x] = call[x],
         At(c, "idle") \/ call[c].ext = e,
         \A r \in Rows : r[1] # e => db'[r] = db[r],
         UNCHANGED cache,
         CallAgrees(c)',
         Renewing(c, e)'
  PROVE  Coherent'
<1>0. /\ \A x \in Calls : x = c \/ At(x, "idle") \/ call[x].ext # e
      /\ \A x \in Calls : call[x].ext \in ExtIDs
  BY OthersElsewhere DEF Renewing, TypeOK, Call
<1>1. ASSUME NEW y \in ExtIDs
      PROVE  EntryAgrees(y)' \/ \E x \in Calls : Renewing(x, y)'
  <2>1. CASE y = e
    BY <2>1
  <2>2. CASE y # e /\ EntryAgrees(y)
    <3>1. Matching(y)' = Matching(y) /\ \A d : Agrees(y, d)' <=> Agrees(y, d)
      BY <2>2, SameRows
    <3> QED
      BY <2>2, <3>1 DEF EntryAgrees
  <2>3. CASE y # e /\ \E x \in Calls : Renewing(x, y)
    BY <1>0, <2>3 DEF Renewing, At
  <2> QED
    BY <2>1, <2>2, <2>3 DEF Coherent
<1>2. ASSUME NEW x \in Calls
      PROVE  CallAgrees(x)'
  <2>1. CASE x = c
    BY <2>1
  <2>2. CASE x # c /\ At(x, "idle")
    BY <2>2 DEF CallAgrees, At
  <2>3. CASE x # c /\ ~At(x, "idle")
    <3>1. call[x].ext # e /\ call'[x] = call[x] /\ CallAgrees(x)
      BY <1>0, <2>3 DEF Coherent
    <3> QED
      BY <3>1, CallStays
  <2> QED
    BY <2>1, <2>2, <2>3
<1> QED
  BY <1>1, <1>2 DEF Coherent

(* ... and a step that writes no row.                                      *)
LEMMA CacheCoherent ==
  ASSUME TypeOK, Coherent, UNCHANGED db,
         \A y \in ExtIDs : cache'[y] = cache[y] \/ EntryAgrees(y)',
         \A x \in Calls :
           \/ call'[x] = call[x]
           \/ /\ CallAgrees(x)'
              /\ \/ call[x].pc \notin {"fill", "drop"}
                 \/ \E y \in ExtIDs : y = call[x].ext /\ EntryAgrees(y)'
  PROVE  Coherent'
<1>1. ASSUME NEW y \in ExtIDs
      PROVE  EntryAgrees(y)' \/ \E x \in Calls : Renewing(x, y)'
  <2>1. CASE cache'[y] = cache[y] /\ EntryAgrees(y)
    <3>1. Matching(y)' = Matching(y) /\ \A d : Agrees(y, d)' <=> Agrees(y, d)
      BY SameRows
    <3> QED
      BY <2>1, <3>1 DEF EntryAgrees
  <2>2. CASE \E x \in Calls : Renewing(x, y)
    BY <2>2 DEF Renewing, At
  <2> QED
    BY <2>1, <2>2 DEF Coherent
<1>2. \A x \in Calls : CallAgrees(x)'
  BY CallStays DEF Coherent
<1> QED
  BY <1>1, <1>2 DEF Coherent

(* Rows that are hashed or cleaned up agree with as much as before: what   *)
(* was shown before is shown in the other form now, or is not compared.    *)
LEMMA FadeCoherent ==
  ASSUME TypeOK, Sound, Coherent, UNCHANGED <<cache, call>>,
         \A r \in Rows :
           /\ Live(r)' => Live(r)
           /\ db'[r].st = db[r].st /\ db'[r].rcp = db[r].rcp
           /\ db'[r].hashed = db[r].hashed \/ (~db[r].hashed /\ db'[r].hashed)
  PROVE  Coherent'
<1>1. ASSUME NEW e \in ExtIDs, NEW d \in Doc, Agrees(e, d), Shown(<<e, d.dev>>, d)
      PROVE  Agrees(e, d)'
  <2> SUFFICES ASSUME NEW r \in Matching(e)', d.dev = r[2]
      PROVE  /\ d.st = db'[r].st
             /\ d.hashed = db'[r].hashed =>
                  \A p \in Phones \ BarePhones : d.rcp[p] \in {"Unlisted", db'[r].rcp[p]}
    BY DEF Agrees
  <2>1. r \in Rows /\ r \in Matching(e) /\ r = <<e, d.dev>>
    BY DEF Matching, Rows
  <2>2. d.hashed => db[r].hashed
    BY <1>1, <2>1 DEF Shown
  <2> QED
    BY <1>1, <2>1, <2>2 DEF Agrees
<1>2. \A e \in ExtIDs : Matching(e) = {} => Matching(e)' = {}
  BY DEF Matching
<1>3. ASSUME NEW e \in ExtIDs, EntryAgrees(e) PROVE EntryAgrees(e)'
  <2>1. cache[e].kind = "doc" => cache[e].doc \in Doc /\ Shown(<<e, cache[e].doc.dev>>, cache[e].doc)
    BY DEF Sound, CacheNeverAhead, EntrySound, TypeOK, Entry
  <2>2. PICK d : d = cache[e].doc
    OBVIOUS
  <2>3. cache[e].kind = "doc" => Agrees(e, d)'
    BY <1>1, <1>3, <2>1, <2>2 DEF EntryAgrees
  <2>4. cache[e].kind = "nil" => Matching(e)' = {}
    BY <1>2, <1>3 DEF EntryAgrees
  <2> QED
    BY <2>2, <2>3, <2>4 DEF EntryAgrees
<1>4. ASSUME NEW c \in Calls PROVE CallAgrees(c)'
  <2>1. PICK e \in ExtIDs, d \in Doc : e = call[c].ext /\ d = call[c].doc
    BY DEF TypeOK, Call
  <2>2. CallAgrees(c)
    BY DEF Coherent
  <2>3. CASE call[c].pc \in {"preload", "fill"}
    <3>1. Shown(<<e, d.dev>>, d)
      BY <2>1, <2>3 DEF Sound, CallSound, RowOf
    <3>2. Agrees(e, d)'
      BY <1>1, <2>1, <2>2, <2>3, <3>1 DEF CallAgrees
    <3> QED
      BY <2>1, <2>3, <3>2 DEF CallAgrees, At
  <2>4. CASE At(c, "fillnil")
    BY <1>2, <2>1, <2>2, <2>4 DEF CallAgrees, At
  <2>5. CASE call[c].pc \notin {"preload", "fill", "fillnil"}
    BY <2>5 DEF CallAgrees, At
  <2> QED
    BY <2>3, <2>4, <2>5 DEF At
<1>5. \A c \in Calls, e \in ExtIDs : Renewing(c, e) => Renewing(c, e)'
  BY DEF Renewing, At
<1> QED
  BY <1>3, <1>4, <1>5 DEF Coherent

LEMMA GotoKeeps ==
  ASSUME TypeOK, NEW c \in Calls, NEW pc, Goto(c, pc)
  PROVE  /\ \A x \in Calls : call'[x] = call[x] \/ x = c
         /\ call'[c].pc = pc
         /\ call'[c].ext = call[c].ext
         /\ call'[c].doc = call[c].doc
<1>1. call[c] \in Call
  BY DEF TypeOK
<1> QED
  BY <1>1 DEF Goto, TypeOK, Call

(* The steps of a call.                                                    *)
LEMMA InsertCoherent ==
  ASSUME TypeOK, Coherent, Serial, Serial',
         NEW c \in Calls, NEW r \in Rows, NEW enc \in Encryption, Insert(c, r, enc)
  PROVE  Coherent'
<1> DEFINE d == NewDoc(r[2], enc)
<1>1. r[1] \in ExtIDs /\ r = <<r[1], r[2]>>
  BY DEF Rows
<1>2. /\ \A q \in Rows : q = r \/ db'[q] = db[q]
      /\ db'[r].st = d.st /\ db'[r].rcp = d.rcp
  BY DEF Insert, Creatable, TypeOK
<1>3. /\ \A x \in Calls : x = c \/ call'[x] = call[x]
      /\ call'[c] = [op |-> "enqueue", pc |-> "fill", ext |-> r[1], doc |-> d]
  BY DEF Insert, Creatable, TypeOK
<1>4. Agrees(r[1], d)'
  <2> SUFFICES ASSUME NEW q \in Matching(r[1])', d.dev = q[2]
      PROVE  /\ d.st = db'[q].st
             /\ d.hashed = db'[q].hashed =>
                  \A p \in Phones \ BarePhones : d.rcp[p] \in {"Unlisted", db'[q].rcp[p]}
    BY DEF Agrees
  <2>1. q = r
    BY <1>1 DEF Matching, Rows, NewDoc
  <2> QED
    BY <1>2, <2>1
<1>5. CallAgrees(c)'
  BY <1>3, <1>4 DEF CallAgrees, At
<1>6. Renewing(c, r[1])'
  BY <1>3 DEF Renewing, At
<1>7. At(c, "idle") /\ UNCHANGED cache /\ \A q \in Rows : q[1] # r[1] => db'[q] = db[q]
  BY <1>2 DEF Insert, Creatable
<1> QED
  BY <1>1, <1>3, <1>5, <1>6, <1>7, WriteCoherent

LEMMA WriteReportCoherent ==
  ASSUME TypeOK, Coherent, Serial, Serial', NEW c \in Calls, WriteReport(c)
  PROVE  Coherent'
<1>1. PICK r \in Rows, d \in Doc : r = RowOf(c) /\ d = call[c].doc /\ r = <<call[c].ext, d.dev>>
  BY RowOfType DEF TypeOK, Call, RowOf
<1>2. r[1] \in ExtIDs /\ r[1] = call[c].ext /\ db[r] \in Row
  BY <1>1 DEF Rows, TypeOK
<1>3. /\ \A q \in Rows : q = r \/ db'[q] = db[q]
      /\ db'[r] = Reported(r, d)
  BY <1>1 DEF WriteReport, TypeOK
<1>4. /\ db'[r].st = d.st /\ db'[r].hashed = db[r].hashed
      /\ db'[r].rcp = [p \in Phones |-> IF Finds(r, d, p) THEN d.rcp[p] ELSE db[r].rcp[p]]
  BY <1>2, <1>3 DEF Reported, Row
<1>5. /\ \A x \in Calls : call'[x] = call[x] \/ x = c
      /\ call'[c].pc = "fill" /\ call'[c].ext = call[c].ext /\ call'[c].doc = call[c].doc
  BY GotoKeeps DEF WriteReport
<1>6. call'[c].doc = d /\ call'[c].ext = r[1]
  BY <1>1, <1>2, <1>5
<1>7. Agrees(r[1], d)'
  <2> SUFFICES ASSUME NEW q \in Matching(r[1])', d.dev = q[2]
      PROVE  /\ d.st = db'[q].st
             /\ d.hashed = db'[q].hashed =>
                  \A p \in Phones \ BarePhones : d.rcp[p] \in {"Unlisted", db'[q].rcp[p]}
    BY DEF Agrees
  <2>1. q = r
    BY <1>1, <1>2 DEF Matching, Rows
  <2>2. ASSUME d.hashed = db'[r].hashed, NEW p \in Phones \ BarePhones, d.rcp[p] # "Unlisted"
        PROVE  d.rcp[p] = db'[r].rcp[p]
    BY <1>4, <2>2 DEF Finds
  <2> QED
    BY <1>4, <2>1, <2>2
<1>8. CallAgrees(c)'
  BY <1>5, <1>6, <1>7 DEF CallAgrees, At
<1>9. Renewing(c, r[1])'
  BY <1>5, <1>6 DEF Renewing, At
<1>10. /\ At(c, "idle") \/ call[c].ext = r[1]
       /\ UNCHANGED cache
       /\ \A q \in Rows : q[1] # r[1] => db'[q] = db[q]
  BY <1>2, <1>3 DEF WriteReport
<1> QED
  BY <1>2, <1>5, <1>8, <1>9, <1>10, WriteCoherent

LEMMA MarkCoherent ==
  ASSUME TypeOK, Coherent, Serial, Serial', NEW c \in Calls, MarkCancelling(c)
  PROVE  Coherent'
<1>1. PICK e \in ExtIDs : e = call[c].ext
  BY DEF TypeOK, Call
<1>2. CASE Return(c) /\ UNCHANGED db
  <2>1. \A x \in Calls : call'[x] = call[x] \/ (x = c /\ call'[x].pc = "idle")
    BY <1>2 DEF Return, Idle, TypeOK
  <2>2. \A x \in Calls : call'[x] = call[x] \/ (CallAgrees(x)' /\ call[x].pc \notin {"fill", "drop"})
    BY <2>1 DEF CallAgrees, At, MarkCancelling
  <2> QED
    BY <1>2, <2>2, CacheCoherent DEF MarkCancelling
<1>3. CASE /\ db' = [r \in Rows |-> IF r \in Cancellable(call[c].ext)
                                    THEN [db[r] EXCEPT !.st = "Cancelling"] ELSE db[r]]
           /\ Goto(c, "drop")
  <2>1. \A r \in Rows : r[1] # e => db'[r] = db[r]
    BY <1>1, <1>3 DEF Cancellable, Matching
  <2>2. /\ \A x \in Calls : x = c \/ call'[x] = call[x]
        /\ call'[c].pc = "drop" /\ call'[c].ext = e
    BY <1>1, <1>3, GotoKeeps
  <2>3. CallAgrees(c)' /\ Renewing(c, e)'
    BY <2>2 DEF CallAgrees, Renewing, At
  <2> QED
    BY <1>1, <2>1, <2>2, <2>3, WriteCoherent DEF MarkCancelling
<1> QED
  BY <1>2, <1>3 DEF MarkCancelling

(* A cache that does not fail holds what a call stores in it.              *)
LEMMA StoreCoherent ==
  ASSUME TypeOK, Coherent, CacheMayFail = FALSE,
         NEW c \in Calls, Fill(c) \/ FillNil(c) \/ DropEntry(c)
  PROVE  Coherent'
<1>1. PICK e \in ExtIDs, d \in Doc : e = call[c].ext /\ d = call[c].doc
  BY DEF TypeOK, Call
<1>2. PICK entry \in Entry : /\ cache' = [cache EXCEPT ![e] = entry]
                             /\ \/ At(c, "fill") /\ entry = Hit(d)
                                \/ At(c, "fillnil") /\ entry = Nil
                                \/ At(c, "drop") /\ entry = Miss
  BY <1>1, HitType, BlankTypes DEF Fill, FillNil, DropEntry, Store
<1>3. CallAgrees(c) /\ UNCHANGED db
  BY DEF Coherent, Fill, FillNil, DropEntry
<1>4. /\ Matching(e)' = Matching(e)
      /\ Agrees(e, d)' <=> Agrees(e, d)
  BY <1>3, SameRows
<1>5. cache'[e] = entry /\ \A y \in ExtIDs : y = e \/ cache'[y] = cache[y]
  BY <1>2 DEF TypeOK
<1>6. EntryAgrees(e)'
  <2>1. CASE At(c, "fill") /\ entry = Hit(d)
    BY <1>1, <1>3, <1>4, <1>5, <2>1 DEF CallAgrees, At, EntryAgrees, Hit
  <2>2. CASE At(c, "fillnil") /\ entry = Nil
    BY <1>1, <1>3, <1>4, <1>5, <2>2 DEF CallAgrees, At, EntryAgrees, Nil
  <2>3. CASE entry = Miss
    BY <1>5, <2>3 DEF EntryAgrees, Miss
  <2> QED
    BY <1>2, <2>1, <2>2, <2>3
<1>7. \A x \in Calls : call'[x] = call[x] \/ (x = c /\ call'[x].pc \in {"idle", "queue", "answer", "lookup"})
  <2>1. CASE Return(c)
    BY <2>1 DEF Return, Idle, TypeOK
  <2>2. ASSUME NEW pc \in {"queue", "answer", "lookup"}, Goto(c, pc)
        PROVE  \A x \in Calls : call'[x] = call[x] \/ (x = c /\ call'[x].pc = pc)
    BY <2>2, GotoFrame
  <2> QED
    BY <2>1, <2>2 DEF Fill, FillNil, DropEntry
<1>8. \A x \in Calls : call'[x] = call[x] \/ (x = c /\ CallAgrees(x)')
  BY <1>7 DEF CallAgrees, At
<1> QED
  BY <1>1, <1>3, <1>5, <1>6, <1>8, CacheCoherent

LEMMA SelectCoherent ==
  ASSUME TypeOK, Coherent, NEW c \in Calls, Select(c)
  PROVE  Coherent'
<1>1. PICK e \in ExtIDs : e = call[c].ext
  BY DEF TypeOK, Call
<1>2. call[c].pc \notin {"fill", "drop"} /\ UNCHANGED <<db, cache>>
  BY DEF Select, At
<1>3. (\A x \in Calls : call'[x] = call[x] \/ x = c) /\ CallAgrees(c)'
  <2>1. CASE Matching(e) = {} /\ Goto(c, "fillnil")
    <3>1. /\ \A x \in Calls : call'[x] = call[x] \/ x = c
          /\ call'[c].pc = "fillnil" /\ call'[c].ext = e
      BY <1>1, <2>1, GotoKeeps
    <3>2. Matching(e)' = {}
      BY <1>2, <2>1, SameRows
    <3> QED
      BY <3>1, <3>2 DEF CallAgrees, At
  <2>2. CASE Return(c)
    BY <2>2 DEF Return, Idle, TypeOK, CallAgrees, At
  <2>3. ASSUME NEW r \in Matching(e),
               call' = [call EXCEPT ![c].pc = "preload", ![c].doc = StoredDoc(r)]
        PROVE  (\A x \in Calls : call'[x] = call[x] \/ x = c) /\ CallAgrees(c)'
    <3>1. PICK d : d = StoredDoc(r)
      OBVIOUS
    <3>2. /\ \A x \in Calls : call'[x] = call[x] \/ x = c
          /\ call'[c].pc = "preload" /\ call'[c].ext = e /\ call'[c].doc = d
      BY <1>1, <2>3, <3>1 DEF TypeOK, Call
    <3>3. \A q \in Matching(e) : d.dev = q[2] => q = r
      BY <3>1 DEF Matching, Rows, StoredDoc
    <3>4. Agrees(e, d)
      BY <3>1, <3>3 DEF Agrees, StoredDoc
    <3>5. Agrees(e, d)'
      BY <1>2, <3>4, SameRows
    <3> QED
      BY <3>2, <3>5 DEF CallAgrees, At
  <2> QED
    BY <1>1, <2>1, <2>2, <2>3 DEF Select
<1> QED
  BY <1>2, <1>3, CacheCoherent

LEMMA PreloadCoherent ==
  ASSUME TypeOK, Coherent, NEW c \in Calls, Preload(c)
  PROVE  Coherent'
<1>1. PICK e \in ExtIDs, d \in Doc, r \in Rows :
        e = call[c].ext /\ d = call[c].doc /\ r = RowOf(c) /\ r = <<e, d.dev>>
  BY RowOfType DEF TypeOK, Call, RowOf
<1>2. PICK new : new = PreloadedDoc(r, d)
  OBVIOUS
<1>3. /\ \A x \in Calls : call'[x] = call[x] \/ x = c
      /\ call'[c].pc = "fill" /\ call'[c].ext = e /\ call'[c].doc = new
  BY <1>1, <1>2 DEF Preload, TypeOK, Call
<1>4. /\ new.dev = d.dev /\ new.st = d.st /\ new.hashed = d.hashed
      /\ new.rcp = [p \in Phones |-> IF Live(r) THEN db[r].rcp[p] ELSE "Unlisted"]
  BY <1>2 DEF PreloadedDoc, Doc
<1>5. Agrees(e, d)
  BY <1>1 DEF Coherent, CallAgrees, Preload, At
<1>6. \A q \in Matching(e) : new.dev = q[2] => q = r /\ Live(r)
  BY <1>1, <1>4 DEF Matching, Rows
<1>7. Agrees(e, new)
  BY <1>4, <1>5, <1>6 DEF Agrees
<1>8. Agrees(e, new)' /\ UNCHANGED <<db, cache>>
  BY <1>7, SameRows DEF Preload
<1>9. CallAgrees(c)'
  BY <1>3, <1>8 DEF CallAgrees, At
<1> QED
  BY <1>3, <1>8, <1>9, CacheCoherent DEF Preload, At

LEMMA WriteToGoneCoherent ==
  ASSUME TypeOK, Coherent, NEW c \in Calls, WriteToGone(c)
  PROVE  Coherent'
<1>1. PICK e \in ExtIDs, d \in Doc, r \in Rows :
        e = call[c].ext /\ d = call[c].doc /\ r = RowOf(c) /\ r = <<e, d.dev>>
  BY RowOfType DEF TypeOK, Call, RowOf
<1>2. UNCHANGED <<db, cache>> /\ call[c].pc \notin {"fill", "drop"}
  BY DEF WriteToGone, At
<1>3. (\A x \in Calls : call'[x] = call[x] \/ x = c) /\ CallAgrees(c)'
  <2>1. CASE Return(c)
    BY <2>1 DEF Return, Idle, TypeOK, CallAgrees, At
  <2>2. CASE Goto(c, "fill")
    <3>1. /\ \A x \in Calls : call'[x] = call[x] \/ x = c
          /\ call'[c].pc = "fill" /\ call'[c].ext = e /\ call'[c].doc = d
      BY <1>1, <2>2, GotoKeeps
    <3>2. Agrees(e, d)
      BY <1>1 DEF Agrees, Matching, Rows, Live, WriteToGone
    <3>3. Agrees(e, d)'
      BY <1>2, <3>2, SameRows
    <3> QED
      BY <3>1, <3>3 DEF CallAgrees, At
  <2> QED
    BY <2>1, <2>2 DEF WriteToGone
<1> QED
  BY <1>2, <1>3, CacheCoherent

(* Steps that only move a call, to where it holds nothing to agree with.   *)
LEMMA MoveCoherent ==
  ASSUME TypeOK, Coherent, NEW c \in Calls,
         UNCHANGED <<db, cache>>,
         call[c].pc \notin {"fill", "drop"},
         \A x \in Calls : call'[x] = call[x] \/ x = c,
         call'[c].pc \notin {"fillnil", "preload", "fill"}
  PROVE  Coherent'
<1>1. CallAgrees(c)'
  BY DEF CallAgrees, At
<1> QED
  BY <1>1, CacheCoherent

LEMMA LookUpMoves ==
  ASSUME TypeOK, NEW c \in Calls, NEW op, NEW e, LookUp(c, op, e)
  PROVE  /\ \A x \in Calls : call'[x] = call[x] \/ x = c
         /\ call'[c].pc \in {"idle", "answer", "select"}
BY DEF LookUp, Return, Idle, TypeOK

LEMMA ReturnMoves ==
  ASSUME TypeOK, NEW c \in Calls, Return(c)
  PROVE  /\ \A x \in Calls : call'[x] = call[x] \/ x = c
         /\ call'[c].pc = "idle"
BY DEF Return, Idle, TypeOK

LEMMA CallStepCoherent ==
  ASSUME TypeOK, Coherent, Serial, Serial', CacheMayFail = FALSE,
         NEW c \in Calls, CallStep(c)
  PROVE  Coherent'
<1>1. ASSUME NEW r \in Rows, NEW enc \in Encryption, Insert(c, r, enc) PROVE Coherent'
  BY <1>1, InsertCoherent
<1>2. ASSUME NEW r \in Rows, NEW m \in Reports, ReadForReport(c, r, m) PROVE Coherent'
  <2>1. (\A x \in Calls : call'[x] = call[x] \/ x = c) /\ call'[c].pc = "write"
    BY <1>2 DEF ReadForReport, TypeOK
  <2> QED
    BY <1>2, <2>1, MoveCoherent DEF ReadForReport, At
<1>3. ASSUME NEW e \in ExtIDs, GetLookUp(c, e) PROVE Coherent'
  BY <1>3, LookUpMoves, MoveCoherent DEF GetLookUp, At
<1>4. ASSUME NEW e \in ExtIDs, ReadForCancel(c, e) PROVE Coherent'
  <2>1. (\A x \in Calls : call'[x] = call[x] \/ x = c) /\ call'[c].pc = "mark"
    BY <1>4 DEF ReadForCancel, TypeOK
  <2> QED
    BY <1>4, <2>1, MoveCoherent DEF ReadForCancel, At
<1>5. CASE WriteReport(c)
  BY <1>5, WriteReportCoherent
<1>6. CASE QueueForHashing(c) \/ Answer(c) \/ FailCall(c)
  BY <1>6, ReturnMoves, MoveCoherent DEF QueueForHashing, Answer, FailCall, At
<1>7. CASE Fill(c) \/ FillNil(c) \/ DropEntry(c)
  BY <1>7, StoreCoherent
<1>8. CASE Select(c) \/ Preload(c) \/ WriteToGone(c)
  BY <1>8, SelectCoherent, PreloadCoherent, WriteToGoneCoherent
<1>9. CASE MarkCancelling(c)
  BY <1>9, MarkCoherent
<1>10. CASE CancelLookUp(c)
  BY <1>10, LookUpMoves, MoveCoherent DEF CancelLookUp, At
<1> QED
  BY <1>1, <1>2, <1>3, <1>4, <1>5, <1>6, <1>7, <1>8, <1>9, <1>10
  DEF CallStep, post, patch, get, delete

LEMMA NextCoherent ==
  ASSUME CacheMayFail = FALSE, CacheSurvives = FALSE
  PROVE  TypeOK /\ Sound /\ Coherent /\ Serial /\ Serial' /\ [Next]_vars => Coherent'
<1> SUFFICES ASSUME TypeOK, Sound, Coherent, Serial, Serial', [Next]_vars
    PROVE  Coherent'
  OBVIOUS
<1>1. ASSUME NEW c \in Calls, CallStep(c) PROVE Coherent'
  BY <1>1, CallStepCoherent
<1>2. ASSUME NEW e \in ExtIDs, Expire(e) PROVE Coherent'
  <2>1. /\ cache'[e] = Miss /\ \A y \in ExtIDs : y = e \/ cache'[y] = cache[y]
        /\ UNCHANGED <<db, call>>
    BY <1>2 DEF Expire, TypeOK
  <2>2. EntryAgrees(e)'
    BY <2>1 DEF EntryAgrees, Miss
  <2> QED
    BY <2>1, <2>2, CacheCoherent
<1>3. CASE TakeBatch \/ UNCHANGED vars
  <2>1. UNCHANGED <<db, cache, call>>
    BY <1>3 DEF TakeBatch, vars
  <2> QED
    BY <2>1, CacheCoherent
<1>4. ASSUME NEW S, HashProcessed(S), UNCHANGED <<cache, call>> PROVE Coherent'
  <2>1. \A r \in Rows :
          /\ Live(r)' => Live(r)
          /\ db'[r].st = db[r].st /\ db'[r].rcp = db[r].rcp
          /\ db'[r].hashed = db[r].hashed \/ (~db[r].hashed /\ db'[r].hashed)
    BY <1>4 DEF HashProcessed, Unhashed, TypeOK, Row, Live
  <2> QED
    BY <1>4, <2>1, FadeCoherent
<1>5. CASE HashBatch \/ HashAll
  <2>1. CASE UNCHANGED <<db, cache, call>>
    BY <2>1, CacheCoherent
  <2> QED
    BY <1>4, <1>5, <2>1 DEF HashBatch, HashAll
<1>6. CASE Deletes
  <2>1. \A r \in Rows :
          /\ Live(r)' => Live(r)
          /\ db'[r].st = db[r].st /\ db'[r].rcp = db[r].rcp
          /\ db'[r].hashed = db[r].hashed \/ (~db[r].hashed /\ db'[r].hashed)
    BY <1>6, DeletedRows DEF TypeOK, Row
  <2> QED
    BY <1>6, <2>1, FadeCoherent DEF Deletes
<1>7. CASE Restart
  <2>1. /\ \A e \in ExtIDs : EntryAgrees(e)'
        /\ \A x \in Calls : CallAgrees(x)'
    BY <1>7 DEF Restart, EntryAgrees, CallAgrees, At, Miss, Idle
  <2> QED
    BY <2>1 DEF Coherent
<1> QED
  BY <1>1, <1>2, <1>3, <1>5, <1>6, <1>7, Deleting DEF Next

(* Whatever else the hashing worker, expiry, the cleanup and restarts do   *)
(* between and during calls, when no call is in progress what a sender     *)
(* gets from the cache agrees with the history it gets from the database;  *)
(* for a cache in the process that does not fail, and for calls of which   *)
(* no two about one message ID overlap.                                    *)
THEOREM CacheAgreesAtRestAlways ==
  ASSUME CacheMayFail = FALSE, CacheSurvives = FALSE
  PROVE  Spec /\ []Serial => []CacheAgreesAtRest
<1>1. Init => Coherent
  <2>1. ASSUME Init
        PROVE  /\ \A e \in ExtIDs : cache[e].kind = "miss"
               /\ \A c \in Calls : call[c].pc = "idle"
    BY <2>1 DEF Init, Miss, Idle
  <2> QED
    BY <2>1 DEF Coherent, EntryAgrees, CallAgrees, At
<1>2. Coherent => CacheAgreesAtRest
  BY CoherentAtRest
<1>3. TypeOK /\ Sound /\ Coherent /\ Serial /\ Serial' /\ [Next]_vars => Coherent'
  BY NextCoherent
<1> QED
  BY <1>1, <1>2, <1>3, TypeCorrect, SoundAlways, PTL DEF Spec
=============================================================================
