--------------------------- MODULE DeliveryProofs ---------------------------
(***************************************************************************)
(* Proofs about the settings, the limiter and the delivery of events, for  *)
(* any number of requests, servers and devices, and any documents.         *)
(*                                                                         *)
(* Locked: a transaction about to write holds the row, or the gap, and has *)
(* read what is still there; so no patch is lost.  Typed: what is on its   *)
(* way has a kind and an addressee.  With it ToldOfChanges is inductive:   *)
(* whatever takes a notification away from where it is either hands it on, *)
(* records that it was missed, or is the answer itself.                    *)
(***************************************************************************)
EXTENDS Delivery, SequenceTheorems, TLAPS

-----------------------------------------------------------------------------
(* The settings.  Transactions in progress, and what they have read.       *)
Locked ==
  /\ request = [c \in Clients |-> request[c]]
  /\ DOMAIN settings \subseteq Rules
  /\ \A f \in Rules : written[f] = IF f \in DOMAIN settings THEN settings[f] ELSE Unset
  /\ \A c \in Clients :
       /\ At(c, "lock") => DOMAIN request[c].body \subseteq Rules
       /\ At(c, "write") =>
            /\ c \in holders
            /\ request[c].source = settings
            /\ DOMAIN request[c].body \subseteq Rules

LEMMA LockedInit == Init => Locked
BY DEF Init, SettingsInit, Locked, At, Idle

(* A step of a request that does not touch the settings, and leaves others *)
(* their locks.                                                            *)
LEMMA LockedAside ==
  ASSUME Locked, NEW c \in Clients, NEW r,
         Go(c, r), r.pc \notin {"lock", "write"},
         holders \ {c} \subseteq holders', UNCHANGED <<settings, written>>
  PROVE  Locked'
BY DEF Locked, At, Go

(* The steps of the transactions.                                          *)
LEMMA LockedWrite ==
  ASSUME Locked, NEW c \in Clients, NEW job, NEW document, WriteSettings(c, job, document),
         \/ job = "patch" /\ document = AppendMap(request[c].source, request[c].body, Rules)
         \/ job = "put" /\ document = request[c].body
  PROVE  Locked'
<1>1. /\ request[c].source = settings /\ DOMAIN request[c].body \subseteq Rules
      /\ settings' = document /\ request' = [request EXCEPT ![c] = notifyDevices]
      /\ written' = [f \in Rules |-> IF f \in DOMAIN request[c].body THEN request[c].body[f]
                                     ELSE IF job = "put" THEN Unset ELSE written[f]]
  BY DEF Locked, WriteSettings, Go, At
(* Who else was about to write would hold the row as well.                 *)
<1>2. \A x \in Clients \ {c} : ~At(x, "write") /\ request'[x] = request[x]
  BY <1>1 DEF Locked, WriteSettings
<1>3. DOMAIN settings' \subseteq Rules
  BY <1>1 DEF AppendMap, Locked
<1>4. \A f \in Rules : written'[f] = IF f \in DOMAIN settings' THEN settings'[f] ELSE Unset
  <2>1. CASE job = "put"
    BY <1>1, <2>1
  <2>2. CASE job = "patch"
    BY <1>1, <2>2 DEF AppendMap, Locked
  <2> QED
    BY <2>1, <2>2
<1>5. request'[c].pc = "notify"
  BY <1>1 DEF Locked, notifyDevices
<1> QED
  BY <1>1, <1>2, <1>3, <1>4, <1>5 DEF Locked, At

LEMMA LockedStep == Locked /\ [Next]_vars => Locked'
<1> SUFFICES ASSUME Locked, [Next]_vars
             PROVE  Locked'
  OBVIOUS
<1>1. ASSUME NEW c \in Clients, NEW body, NEW job, BeginSettings(c, job, body)
      PROVE  Locked'
  BY <1>1 DEF Locked, BeginSettings, Begin, Go, At, FilterMap, settingsVars
<1>2. ASSUME NEW c \in Clients, LockSettings(c)
      PROVE  Locked'
  BY <1>2 DEF Locked, LockSettings, Go, At
<1>3. ASSUME NEW c \in Clients, UpdateSettings(c) \/ ReplaceSettings(c)
      PROVE  Locked'
  BY <1>3, LockedWrite DEF UpdateSettings, ReplaceSettings
<1>4. ASSUME NEW c \in Clients, RollBack(c)
      PROVE  Locked'
  BY <1>4, LockedAside DEF RollBack, Idle
<1>5. ASSUME NEW c \in Clients, ChangeSettings(c)
      PROVE  Locked'
  BY <1>1, <1>2, <1>3, <1>4, <1>5 DEF ChangeSettings, patch, put, SettingsStep
(* The other requests.                                                     *)
<1>6. ASSUME NEW c \in Clients, Step(c), ~ChangeSettings(c)
      PROVE  Locked'
  <2>1. \A r : Begin(c, r) => Go(c, r)
    BY DEF Begin
  <2>2. ASSUME NEW d, BeginEnqueue(c, d)
        PROVE  Locked'
    BY <2>1, <2>2, LockedAside DEF BeginEnqueue, settingsVars
  <2>3. CASE CheckLimit(c)
    <3>1. UNCHANGED <<holders, settings, written>>
      BY <2>3 DEF CheckLimit, settingsVars
    <3>2. \E r : Go(c, r) /\ r.pc \notin {"lock", "write"}
      BY <2>3 DEF CheckLimit, Idle
    <3> QED
      BY <3>1, <3>2, LockedAside
  <2>4. CASE InsertMessage(c)
    BY <2>4, LockedAside DEF InsertMessage, settingsVars, Notify
  <2>5. ASSUME NEW to, ReplaceWebhook(c, to)
        PROVE  Locked'
    BY <2>1, <2>5, LockedAside DEF ReplaceWebhook, settingsVars, notifyHooks, Notify
  <2>6. ASSUME NEW to, RefreshInbox(c, to)
        PROVE  Locked'
    BY <2>1, <2>6, LockedAside DEF RefreshInbox, InboxRefresh, postInboxExport, settingsVars, Notify
  <2>7. CASE DeleteWebhook(c)
    BY <2>1, <2>7, LockedAside DEF DeleteWebhook, settingsVars, notifyHooks, Notify
  <2>8. CASE Publish(c)
    BY <2>8, LockedAside DEF Publish, settingsVars, Idle
  <2>9. CASE Stop(c)
    BY <2>9, LockedAside DEF Stop, Idle
  <2> QED
    BY <1>6, <2>2, <2>3, <2>4, <2>5, <2>6, <2>7, <2>8, <2>9 DEF Step
(* What servers and devices do, and the limiter.                           *)
<1>7. CASE UNCHANGED <<settingsVars, request>>
  BY <1>7 DEF Locked, settingsVars, At
<1>8. ASSUME NEW s \in Servers, NEW d,
             Lose(s) \/ Close(s) \/ ReceiveEvent(s) \/ ProcessDeviceEvent(s, d)
      PROVE  UNCHANGED <<settingsVars, request>>
  BY <1>8 DEF Lose, Close, ReceiveEvent, ProcessDeviceEvent, base
<1>9. ASSUME NEW d, NEW s, Move(d, s) \/ Handle(d) \/ Poll(d)
      PROVE  UNCHANGED <<settingsVars, request>>
  BY <1>9 DEF Move, Handle, Poll, GetMessages, GetSettingsOf, GetWebhooks, Export, Pull, base
<1> QED
  BY <1>5, <1>6, <1>7, <1>8, <1>9 DEF Next, Limit, vars, base

(* No change of the settings is lost, whoever patches, puts, is rolled     *)
(* back or stops meanwhile, with a row or without; and what is answered    *)
(* never has a secret.                                                     *)
THEOREM NoPatchLostAlways == Spec => []NoPatchLost
<1>1. Locked => NoPatchLost
  BY DEF Locked, NoPatchLost, GetSettings, FilterMap, RulesPublic
<1> QED
  BY <1>1, LockedInit, LockedStep, PTL DEF Spec

-----------------------------------------------------------------------------
(* The limiter.  What was asked for is waited for; what was found out is   *)
(* about a device in hand.                                                 *)
Served ==
  /\ refreshQueue \cup batch \cup asked \subseteq DeviceIds
  /\ found # Nothing => found.device \in batch
  /\ RefreshKept

LEMMA ServedStep == Served /\ [Next]_vars => Served'
<1> SUFFICES ASSUME Served, [Next]_vars
             PROVE  Served'
  OBVIOUS
<1>1. ASSUME NEW c \in Clients, NEW d \in GetAny, BeginEnqueue(c, d)
      PROVE  Served'
  BY <1>1 DEF Served, RefreshKept, BeginEnqueue, Refresh, GetAny
<1>2. CASE TakeBatch
  BY <1>2 DEF Served, RefreshKept, TakeBatch
<1>3. ASSUME NEW d \in DeviceIds, ProcessDevice(d)
      PROVE  Served'
  BY <1>3 DEF Served, RefreshKept, ProcessDevice
<1>4. CASE StoreItem
  BY <1>4 DEF Served, RefreshKept, StoreItem
<1>5. CASE UNCHANGED <<refreshQueue, batch, asked, found>>
  BY <1>5 DEF Served, RefreshKept
<1>6. ASSUME NEW d \in DeviceIds, ForgetItem(d)
      PROVE  UNCHANGED <<refreshQueue, batch, asked, found>>
  BY <1>6 DEF ForgetItem
<1>7. ASSUME NEW c \in Clients, Step(c), ~\E d \in GetAny : BeginEnqueue(c, d)
      PROVE  UNCHANGED <<refreshQueue, batch, asked, found>>
  BY <1>7 DEF Step, CheckLimit, InsertMessage, ReplaceWebhook, RefreshInbox, DeleteWebhook,
              ChangeSettings, Publish, Stop, limiterVars
<1>8. ASSUME NEW s \in Servers, NEW d,
             Lose(s) \/ ReceiveEvent(s) \/ ProcessDeviceEvent(s, d)
      PROVE  UNCHANGED <<refreshQueue, batch, asked, found>>
  BY <1>8 DEF Lose, ReceiveEvent, ProcessDeviceEvent, base, limiterVars
<1>9. ASSUME NEW d, NEW s, Move(d, s) \/ Handle(d) \/ Poll(d)
      PROVE  UNCHANGED <<refreshQueue, batch, asked, found>>
  BY <1>9 DEF Move, Handle, Poll, GetMessages, GetSettingsOf, GetWebhooks, Export, Pull, base, limiterVars
<1>10. ASSUME NEW s \in Servers, Close(s)
       PROVE  Served'
  BY <1>5, <1>10 DEF Close, Restart, Served, RefreshKept, limiterVars
<1> QED
  BY <1>1, <1>2, <1>3, <1>4, <1>5, <1>6, <1>7, <1>8, <1>9, <1>10
  DEF Next, Limit, LimiterStep, Pass, vars, base, limiterVars

LEMMA ServedInit == Init => Served
BY DEF Init, LimiterInit, Served, RefreshKept

(* No request for a refresh is dropped, whenever it comes, while the       *)
(* server runs: what RefreshServed needs of the limiter besides its        *)
(* ticker.                                                                 *)
THEOREM RefreshKeptAlways == Spec => []RefreshKept
<1>1. Served => RefreshKept
  BY DEF Served
<1> QED
  BY <1>1, ServedInit, ServedStep, PTL DEF Spec

-----------------------------------------------------------------------------
(* Events.  Every notification has a kind, and an addressee that a request *)
(* named, wherever it is.                                                  *)
Addressees == Receivers \cup {"all"}
Events == [kind : Kinds, to : Addressees]

Typed ==
  /\ request = [c \in Clients |-> request[c]]
  /\ \A c \in Clients :
       /\ At(c, "check") \/ At(c, "insert") => request[c].device \in GetAny
       /\ At(c, "notify") => request[c].kind \in Kinds /\ request[c].to \in Addressees
  /\ holders \subseteq Clients
  /\ hook \in Receivers \cup {"all", None}
  /\ channel \in [Servers -> Seq(Events)]
  /\ work \in [Servers -> [event : Kinds \cup {None}, todo : SUBSET DeviceIds]]
  /\ \A s \in Servers : work[s].todo # {} => work[s].event \in Kinds
  /\ stream \in [DeviceIds -> Servers \cup {None}]
  /\ \A d \in PushDevices : stream[d] = None
  /\ inbox \in [DeviceIds -> SUBSET Kinds]
  /\ due \subseteq DeviceIds \X Changes /\ missed \subseteq DeviceIds \X Kinds

eventHistory == <<channel, work, stream, inbox, missed>>

LEMMA TypedInit == Init => Typed
<1> SUFFICES ASSUME Init
             PROVE  Typed
  OBVIOUS
<1>1. channel \in [Servers -> Seq(Events)]
  BY DEF Init
<1>2. /\ work \in [Servers -> [event : Kinds \cup {None}, todo : SUBSET DeviceIds]]
      /\ \A s \in Servers : work[s].todo = {}
  BY DEF Init, NoWork
<1>3. \A c \in Clients : request[c].pc = "idle"
  BY DEF Init, Idle
<1>4. inbox \in [DeviceIds -> SUBSET Kinds] /\ due = {} /\ missed = {} /\ holders = {} /\ hook = None
  BY DEF Init, SettingsInit
<1>5. request = [c \in Clients |-> request[c]]
  BY DEF Init
<1>6. \A d \in PushDevices : stream[d] = None
  BY DeliveryAssumption DEF Init
<1>7. stream \in [DeviceIds -> Servers \cup {None}]
  BY DEF Init
<1> QED
  BY <1>1, <1>2, <1>3, <1>4, <1>5, <1>6, <1>7 DEF Typed, At

(* A step of a request that leaves events alone.                           *)
LEMMA TypedRequest ==
  ASSUME Typed, NEW c \in Clients, NEW r, Go(c, r),
         r.pc \in {"check", "insert"} => r.device \in GetAny,
         r.pc = "notify" => r.kind \in Kinds /\ r.to \in Addressees,
         holders' \subseteq holders \cup {c}, hook' \in Receivers \cup {"all", None},
         due' \subseteq DeviceIds \X Changes, UNCHANGED eventHistory
  PROVE  Typed'
BY DEF Typed, At, Go, eventHistory

(* A step of a transaction over the settings.                              *)
LEMMA SettingsGo ==
  ASSUME NEW c \in Clients, ChangeSettings(c)
  PROVE  /\ \E r : Go(c, r) /\ (r.pc \in {"lock", "write", "idle"} \/ r = notifyDevices)
         /\ ~At(c, "notify")
         /\ holders' \subseteq holders \cup {c}
         /\ UNCHANGED <<hook, eventHistory>>
<1>1. UNCHANGED <<hook, eventHistory>>
  BY DEF ChangeSettings, eventVars, eventHistory
<1>2. ASSUME NEW job, NEW body, BeginSettings(c, job, body)
      PROVE  /\ \E r : Go(c, r) /\ r.pc = "lock"
             /\ ~At(c, "notify") /\ holders' = holders
  BY <1>2 DEF BeginSettings, Begin, Ready, At, Idle, settingsVars
<1>3. ASSUME LockSettings(c)
      PROVE  /\ \E r : Go(c, r) /\ r.pc = "write"
             /\ ~At(c, "notify") /\ holders' = holders \cup {c}
  BY <1>3 DEF LockSettings, At
<1>4. ASSUME NEW job, NEW document, WriteSettings(c, job, document)
      PROVE  Go(c, notifyDevices) /\ ~At(c, "notify") /\ holders' = {}
  BY <1>4 DEF WriteSettings, At
<1>5. ASSUME RollBack(c)
      PROVE  Go(c, Idle) /\ Idle.pc = "idle" /\ ~At(c, "notify") /\ holders' \subseteq holders
  BY <1>5 DEF RollBack, At, Idle
<1> QED
  BY <1>1, <1>2, <1>3, <1>4, <1>5
  DEF ChangeSettings, patch, put, SettingsStep, UpdateSettings, ReplaceSettings

LEMMA TargetsOf == \A to : Targets(to) \subseteq DeviceIds
BY DEF Targets

LEMMA TypedRequests ==
  ASSUME Typed, NEW c \in Clients, Step(c), ~Publish(c), ~Stop(c)
  PROVE  Typed'
<1>1. ASSUME NEW d \in GetAny, BeginEnqueue(c, d)
      PROVE  Typed'
  BY <1>1, TypedRequest DEF BeginEnqueue, Begin, Typed, settingsVars, eventVars, eventHistory
<1>2. CASE CheckLimit(c)
  <2>1. \E r : /\ Go(c, r)
               /\ r.pc \in {"check", "insert"} => r.device \in GetAny
               /\ r.pc # "notify"
    BY <1>2 DEF CheckLimit, Typed, Idle
  <2> QED
    BY <1>2, <2>1, TypedRequest DEF CheckLimit, Typed, settingsVars, eventVars, eventHistory
<1>3. CASE InsertMessage(c)
  <2>1. request[c].device \in DeviceIds /\ request[c].device \in Addressees
    BY <1>3 DEF InsertMessage, Typed, GetAny, Addressees
  <2>2. due' \subseteq DeviceIds \X Changes
    BY <1>3, <2>1 DEF InsertMessage, Typed, Kinds, Changes
  <2> QED
    BY <1>3, <2>1, <2>2, TypedRequest
    DEF InsertMessage, Notify, Kinds, Typed, settingsVars, eventVars, eventHistory
<1>4. ASSUME NEW to \in Receivers \cup {"all"}, ReplaceWebhook(c, to)
      PROVE  Typed'
  <2>1. due' \subseteq DeviceIds \X Changes
    BY <1>4, TargetsOf DEF ReplaceWebhook, Typed, Kinds, Changes
  <2> QED
    BY <1>4, <2>1, TypedRequest
    DEF ReplaceWebhook, notifyHooks, Notify, Begin, Addressees, Kinds, Typed, settingsVars, eventHistory
<1>5. ASSUME NEW to \in Receivers, RefreshInbox(c, to)
      PROVE  Typed'
  <2>1. due' \subseteq DeviceIds \X Changes
    BY <1>5, TargetsOf DEF RefreshInbox, Typed, Kinds, Changes
  <2> QED
    BY <1>5, <2>1, TypedRequest
    DEF RefreshInbox, postInboxExport, InboxRefresh, Notify, Begin, Addressees, Kinds, Typed,
        settingsVars, eventVars, eventHistory
<1>6. CASE DeleteWebhook(c)
  <2>1. due' \subseteq DeviceIds \X Changes
    BY <1>6, TargetsOf DEF DeleteWebhook, Typed, Kinds, Changes
  <2> QED
    BY <1>6, <2>1, TypedRequest
    DEF DeleteWebhook, notifyHooks, Notify, Begin, Addressees, Kinds, Typed, settingsVars, eventHistory
<1>7. CASE ChangeSettings(c)
  <2>1. due' \subseteq DeviceIds \X Changes
    BY <1>7 DEF ChangeSettings, Typed, Kinds, Changes
  <2>2. notifyDevices.kind \in Kinds /\ notifyDevices.to \in Addressees /\ notifyDevices.pc = "notify"
    BY DEF notifyDevices, Kinds, Addressees
  <2> QED
    BY <1>7, <2>1, <2>2, SettingsGo, TypedRequest DEF Typed
<1> QED
  BY <1>1, <1>2, <1>3, <1>4, <1>5, <1>6, <1>7 DEF Step

(* What a channel holds: the first message, and what comes after it; or    *)
(* what it held before, and the last one.                                  *)
LEMMA FirstAndRest ==
  ASSUME NEW S, NEW q \in Seq(S), q # <<>>
  PROVE  /\ Head(q) \in S /\ Tail(q) \in Seq(S)
         /\ Range(q) = {Head(q)} \cup Range(Tail(q))
<1>1. /\ Len(q) \in Nat \ {0} /\ DOMAIN q = 1 .. Len(q)
      /\ Head(q) = q[1] /\ Tail(q) \in Seq(S)
      /\ DOMAIN Tail(q) = 1 .. Len(q) - 1
      /\ \A i \in 1 .. Len(q) - 1 : Tail(q)[i] = q[i + 1]
  OBVIOUS
<1>2. \A i \in 1 .. Len(q) : i = 1 \/ i - 1 \in 1 .. Len(q) - 1
  BY <1>1
<1>3. \A i \in 1 .. Len(q) - 1 : i + 1 \in 1 .. Len(q)
  BY <1>1
<1>4. \A x : x \in Range(q) => x = Head(q) \/ x \in Range(Tail(q))
  <2> SUFFICES ASSUME NEW i \in 1 .. Len(q)
               PROVE  q[i] = Head(q) \/ q[i] \in Range(Tail(q))
    BY <1>1 DEF Range
  <2>1. CASE i = 1
    BY <1>1, <2>1
  <2>2. CASE i # 1
    <3>1. i - 1 \in 1 .. Len(q) - 1 /\ (i - 1) + 1 = i
      BY <1>1, <1>2, <2>2
    <3>2. Tail(q)[i - 1] = q[i]
      BY <1>1, <3>1
    <3> QED
      BY <1>1, <3>1, <3>2 DEF Range
  <2> QED
    BY <2>1, <2>2
<1>5. \A x : x \in Range(Tail(q)) => x \in Range(q)
  BY <1>1, <1>3 DEF Range
<1>6. Head(q) \in Range(q) /\ Head(q) \in S
  BY <1>1 DEF Range
<1> QED
  BY <1>1, <1>4, <1>5, <1>6

LEMMA RestAndLast ==
  ASSUME NEW S, NEW q \in Seq(S), NEW e \in S
  PROVE  /\ Append(q, e) \in Seq(S)
         /\ Range(q) \subseteq Range(Append(q, e)) /\ e \in Range(Append(q, e))
<1>1. /\ Append(q, e) \in Seq(S) /\ Len(q) \in Nat /\ DOMAIN q = 1 .. Len(q)
      /\ DOMAIN Append(q, e) = 1 .. Len(q) + 1
      /\ Append(q, e)[Len(q) + 1] = e
      /\ \A i \in 1 .. Len(q) : Append(q, e)[i] = q[i] /\ i \in 1 .. Len(q) + 1
  OBVIOUS
<1>2. Len(q) + 1 \in 1 .. Len(q) + 1
  BY <1>1
<1> QED
  BY <1>1, <1>2 DEF Range

(* What a device misses is what an event would have told it.               *)
LEMMA MissedTyped ==
  ASSUME Typed, NEW D, NEW event \in Kinds, Miss(D, event)
  PROVE  missed' \subseteq DeviceIds \X Kinds
BY DEF Typed, Miss

(* A request that ends, published or stopped.                              *)
LEMMA TypedEnds ==
  ASSUME Typed, NEW c \in Clients, Publish(c) \/ Stop(c)
  PROVE  Typed'
<1>1. Go(c, Idle) /\ Idle.pc = "idle" /\ UNCHANGED <<work, stream, inbox, hook, due>>
  BY DEF Publish, Stop, Idle, eventVars
<1>2. holders' \subseteq holders /\ missed' \subseteq DeviceIds \X Kinds
  <2>1. At(c, "notify") => request[c].kind \in Kinds
    BY DEF Typed
  <2> QED
    BY <2>1, MissedTyped DEF Publish, Stop, settingsVars, Typed
<1>3. channel' \in [Servers -> Seq(Events)]
  <2>1. CASE channel' = channel
    BY <2>1 DEF Typed
  <2>2. CASE Publish(c) /\ Published([kind |-> request[c].kind, to |-> request[c].to])
    <3>1. [kind |-> request[c].kind, to |-> request[c].to] \in Events
      BY <2>2 DEF Publish, Typed, Events
    <3>2. \A s \in Servers : Append(channel[s], [kind |-> request[c].kind, to |-> request[c].to]) \in Seq(Events)
      BY <3>1, RestAndLast DEF Typed
    <3> QED
      BY <2>2, <3>2 DEF Published
  <2> QED
    BY <2>1, <2>2 DEF Publish, Stop, eventVars
<1> QED
  BY <1>1, <1>2, <1>3 DEF Typed, At, Go

(* What servers and devices do.                                            *)
LEMMA TypedElsewhere ==
  ASSUME Typed, UNCHANGED <<request, holders, hook>>,
         channel' \in [Servers -> Seq(Events)],
         work' \in [Servers -> [event : Kinds \cup {None}, todo : SUBSET DeviceIds]],
         \A s \in Servers : work'[s].todo # {} => work'[s].event \in Kinds,
         stream' \in [DeviceIds -> Servers \cup {None}],
         \A d \in PushDevices : stream'[d] = None,
         inbox' \in [DeviceIds -> SUBSET Kinds],
         due' \subseteq due, missed' \subseteq DeviceIds \X Kinds
  PROVE  Typed'
BY DEF Typed, At

LEMMA TypedServer ==
  ASSUME Typed, NEW s \in Servers, Lose(s) \/ Close(s) \/ ReceiveEvent(s)
  PROVE  Typed'
<1>1. UNCHANGED <<request, holders, hook, inbox, due>>
  BY DEF Lose, Close, ReceiveEvent, base, settingsVars
<1>2. CASE Lose(s)
  <2>1. Tail(channel[s]) \in Seq(Events)
    BY <1>2, FirstAndRest DEF Lose, Typed
  <2>2. channel' \in [Servers -> Seq(Events)] /\ UNCHANGED <<work, stream>>
    BY <1>2, <2>1 DEF Lose, Typed
  <2>3. Head(channel[s]) \in Events
    BY <1>2, FirstAndRest DEF Lose, Typed
  <2>4. missed' \subseteq DeviceIds \X Kinds
    BY <1>2, <2>3, MissedTyped DEF Lose, Events
  <2> QED
    BY <1>1, <2>2, <2>4, TypedElsewhere DEF Typed
<1>3. CASE Close(s)
  <2>1. channel' \in [Servers -> Seq(Events)]
    BY <1>3, EmptySeq DEF Close, Typed
  <2>2. /\ work' \in [Servers -> [event : Kinds \cup {None}, todo : SUBSET DeviceIds]]
        /\ \A x \in Servers : work'[x].todo # {} => work'[x].event \in Kinds
    BY <1>3 DEF Close, Typed, NoWork
  <2>3. /\ stream' \in [DeviceIds -> Servers \cup {None}]
        /\ \A d \in PushDevices : stream'[d] = None
    BY <1>3, DeliveryAssumption DEF Close, Typed
  <2>4. missed' \subseteq DeviceIds \X Kinds
    BY <1>3, DeliveryAssumption DEF Close, Typed
  <2> QED
    BY <1>1, <2>1, <2>2, <2>3, <2>4, TypedElsewhere DEF Typed
<1>4. CASE ReceiveEvent(s)
  <2>1. Head(channel[s]) \in Events /\ Tail(channel[s]) \in Seq(Events)
    BY <1>4, FirstAndRest DEF ReceiveEvent, Receive, Typed
  <2>2. channel' \in [Servers -> Seq(Events)] /\ UNCHANGED stream
    BY <1>4, <2>1 DEF ReceiveEvent, Receive, Typed
  <2>3. /\ work' \in [Servers -> [event : Kinds \cup {None}, todo : SUBSET DeviceIds]]
        /\ \A x \in Servers : work'[x].todo # {} => work'[x].event \in Kinds
    BY <1>4, <2>1, TargetsOf DEF ReceiveEvent, Typed, NoWork, Events
  <2>4. missed' = missed
    BY <1>4 DEF ReceiveEvent
  <2> QED
    BY <1>1, <2>2, <2>3, <2>4, TypedElsewhere DEF Typed
<1> QED
  BY <1>2, <1>3, <1>4

(* One device fewer is left to try.                                        *)
LEMMA OneDone ==
  ASSUME Typed, NEW s \in Servers, NEW d \in DeviceIds, Done(s, {d})
  PROVE  /\ work' \in [Servers -> [event : Kinds \cup {None}, todo : SUBSET DeviceIds]]
         /\ \A x \in Servers \ {s} : work'[x] = work[x]
         /\ work'[s].todo = work[s].todo \ {d}
         /\ work'[s].todo # {} => work'[s].event = work[s].event
<1>1. work[s] \in [event : Kinds \cup {None}, todo : SUBSET DeviceIds]
  BY DEF Typed
<1>2. /\ DOMAIN work = Servers
      /\ work' = [work EXCEPT ![s] = IF work[s].todo = {d} THEN NoWork
                                     ELSE [event |-> work[s].event, todo |-> work[s].todo \ {d}]]
  BY DEF Typed, Done
<1> DEFINE w == work'[s]
<1>3. w \in [event : Kinds \cup {None}, todo : SUBSET DeviceIds] /\ w.todo = work[s].todo \ {d}
      /\ (w.todo # {} => w.event = work[s].event)
  <2>1. CASE work[s].todo = {d}
    <3>1. w = [event |-> None, todo |-> {}]
      BY <1>2, <2>1 DEF NoWork
    <3> QED
      BY <2>1, <3>1
  <2>2. CASE work[s].todo # {d}
    <3>1. w = [event |-> work[s].event, todo |-> work[s].todo \ {d}]
      BY <1>2, <2>2
    <3> QED
      BY <1>1, <3>1
  <2> QED
    BY <2>1, <2>2
<1>4. \A x \in Servers \ {s} : work'[x] = work[x]
  BY <1>2
<1>5. work' = [x \in Servers |-> work'[x]]
  BY <1>2
<1>6. \A x \in Servers : work'[x] \in [event : Kinds \cup {None}, todo : SUBSET DeviceIds]
  BY <1>3, <1>4 DEF Typed
<1> HIDE DEF w
<1> QED
  BY <1>3, <1>4, <1>5, <1>6 DEF w

LEMMA TypedProcess ==
  ASSUME Typed, NEW s \in Servers, NEW d \in DeviceIds, ProcessDeviceEvent(s, d)
  PROVE  Typed'
<1>1. UNCHANGED <<request, holders, hook, channel, stream, due>> /\ missed' \subseteq DeviceIds \X Kinds
  <2>1. work[s].event \in Kinds
    BY DEF ProcessDeviceEvent, SendTo, Typed
  <2> QED
    BY <2>1, MissedTyped DEF ProcessDeviceEvent, SendTo, base, settingsVars, Typed
<1>2. inbox' \in [DeviceIds -> SUBSET Kinds]
  BY DEF ProcessDeviceEvent, SendTo, Typed
<1>3. /\ work' \in [Servers -> [event : Kinds \cup {None}, todo : SUBSET DeviceIds]]
      /\ \A x \in Servers : work'[x].todo # {} => work'[x].event \in Kinds
  BY OneDone DEF ProcessDeviceEvent, Typed
<1> QED
  BY <1>1, <1>2, <1>3, TypedElsewhere DEF Typed

(* What a device asks for.                                                 *)
LEMMA Pulls ==
  ASSUME NEW d, Handle(d) \/ Poll(d)
  PROVE  \E event \in Kinds : Pull(d, event)
BY DEF Handle, Poll, GetMessages, GetSettingsOf, GetWebhooks, Export, Kinds

LEMMA TypedDevice ==
  ASSUME Typed, NEW d \in DeviceIds,
         \/ \E s \in Servers \cup {None} : Move(d, s)
         \/ Handle(d) \/ Poll(d)
  PROVE  Typed'
<1>1. ASSUME NEW s \in Servers \cup {None}, Move(d, s)
      PROVE  Typed'
  <2>1. /\ UNCHANGED <<request, holders, hook, channel, work, inbox, due>>
        /\ missed' \subseteq DeviceIds \X Kinds
    BY <1>1 DEF Move, base, settingsVars, Typed
  <2>2. /\ stream' \in [DeviceIds -> Servers \cup {None}]
        /\ \A x \in PushDevices : stream'[x] = None
    BY <1>1, DeliveryAssumption DEF Move, Typed
  <2> QED
    BY <2>1, <2>2, TypedElsewhere DEF Typed
<1>2. ASSUME NEW event, Pull(d, event)
      PROVE  Typed'
  <2>1. UNCHANGED <<request, holders, hook, channel, work, stream>>
    BY <1>2 DEF Pull, base, settingsVars
  <2>2. inbox' \in [DeviceIds -> SUBSET Kinds] /\ due' \subseteq due /\ missed' \subseteq DeviceIds \X Kinds
    BY <1>2 DEF Pull, Typed
  <2> QED
    BY <2>1, <2>2, TypedElsewhere DEF Typed
<1> QED
  BY <1>1, <1>2, Pulls

LEMMA TypedStep == Typed /\ [Next]_vars => Typed'
<1> SUFFICES ASSUME Typed, [Next]_vars
             PROVE  Typed'
  OBVIOUS
<1>1. CASE Limit \/ UNCHANGED vars
  <2>1. UNCHANGED <<request, settingsVars, eventVars, due, missed>>
    BY <1>1 DEF Limit, vars, base
  <2> QED
    BY <2>1, TypedElsewhere DEF Typed, settingsVars, eventVars
<1> QED
  BY <1>1, TypedRequests, TypedEnds, TypedServer, TypedProcess, TypedDevice DEF Next

(* Every variable keeps to its type.                                       *)
THEOREM TypeCorrect == Spec => []TypeOK
<1>1. Typed /\ Served => TypeOK
  BY DEF Typed, Served, TypeOK
<1> QED
  BY <1>1, TypedInit, TypedStep, ServedInit, ServedStep, PTL DEF Spec

-----------------------------------------------------------------------------
(* Nobody believes to be up to date who is not.                            *)

(* What changed, and was missed, as pairs.                                 *)
LEMMA ChangesArePairs ==
  ASSUME Typed, NEW change \in due
  PROVE  /\ change = <<change[1], change[2]>> /\ change[1] \in DeviceIds
         /\ ~Moved(change) => change[2] \in Kinds
BY DEF Typed, Changes, Moved

LEMMA MissRecords ==
  ASSUME Typed, NEW D, NEW event, Miss(D, event)
  PROVE  /\ missed \subseteq missed'
         /\ \A change \in due : change[1] \in D /\ change[2] = event => change \in missed'
BY ChangesArePairs DEF Miss

(* What a server holds: its work, and what is in its channel.              *)
LEMMA Pairs ==
  ASSUME NEW w, NEW R, NEW d, NEW event
  PROVE  <<d, event>> \in (w.todo \X {w.event}) \cup UNION {Targets(e.to) \X {e.kind} : e \in R} <=>
           \/ d \in w.todo /\ event = w.event
           \/ \E e \in R : d \in Targets(e.to) /\ event = e.kind
<1>1. <<d, event>> \in w.todo \X {w.event} <=> d \in w.todo /\ event = w.event
  OBVIOUS
<1>2. <<d, event>> \in UNION {Targets(e.to) \X {e.kind} : e \in R} <=>
         \E e \in R : <<d, event>> \in Targets(e.to) \X {e.kind}
  BY Zenon
<1>3. \A e \in R : <<d, event>> \in Targets(e.to) \X {e.kind} <=> d \in Targets(e.to) /\ event = e.kind
  OBVIOUS
<1> QED
  BY <1>1, <1>2, <1>3

LEMMA HeldByServer ==
  ASSUME NEW s \in Servers
  PROVE  \A d, event : <<d, event>> \in HeldBy(s) <=>
           \/ d \in work[s].todo /\ event = work[s].event
           \/ \E e \in Range(channel[s]) : d \in Targets(e.to) /\ event = e.kind
<1> SUFFICES ASSUME NEW d, NEW event
             PROVE  <<d, event>> \in HeldBy(s) <=>
                      \/ d \in work[s].todo /\ event = work[s].event
                      \/ \E e \in Range(channel[s]) : d \in Targets(e.to) /\ event = e.kind
  OBVIOUS
<1>1. HeldBy(s) = (work[s].todo \X {work[s].event})
                    \cup UNION {Targets(e.to) \X {e.kind} : e \in Range(channel[s])}
  BY DEF HeldBy
<1> QED
  BY <1>1, Pairs

LEMMA HeldAfterwards ==
  ASSUME NEW s \in Servers
  PROVE  \A d, event : <<d, event>> \in HeldBy(s)' <=>
           \/ d \in work'[s].todo /\ event = work'[s].event
           \/ \E e \in Range(channel'[s]) : d \in Targets(e.to) /\ event = e.kind
<1> SUFFICES ASSUME NEW d, NEW event
             PROVE  <<d, event>> \in HeldBy(s)' <=>
                      \/ d \in work'[s].todo /\ event = work'[s].event
                      \/ \E e \in Range(channel'[s]) : d \in Targets(e.to) /\ event = e.kind
  OBVIOUS
<1>1. HeldBy(s)' = (work'[s].todo \X {work'[s].event})
                     \cup UNION {Targets(e.to) \X {e.kind} : e \in Range(channel'[s])}
  BY DEF HeldBy, Targets
<1> QED
  BY <1>1, Pairs

(* What is being told is told elsewhere, and by other servers, as before.  *)
LEMMA StaysUnderWay ==
  ASSUME NEW d, NEW event, UnderWay(d, event),
         \A c \in Clients :
            At(c, "notify") /\ request[c].kind = event /\ d \in Targets(request[c].to) =>
              request'[c] = request[c],
         \A s \in Servers :
            (d \in PushDevices \/ stream[d] = s) /\ <<d, event>> \in HeldBy(s) =>
              (d \in PushDevices \/ stream'[d] = s) /\ <<d, event>> \in HeldBy(s)',
         event \in inbox[d] => event \in inbox'[d]
  PROVE  UnderWay(d, event)'
BY DEF UnderWay, At

(* A request changes something and leaves it to be published, or neither.  *)
LEMMA ToldByRequest ==
  ASSUME ToldOfChanges, NEW c \in Clients, ~At(c, "notify"), Typed,
         NEW r, Go(c, r), UNCHANGED eventHistory,
         \A change \in due' :
            \/ change \in due \/ Moved(change)
            \/ r.pc = "notify" /\ r.kind = change[2] /\ change[1] \in Targets(r.to)
  PROVE  ToldOfChanges'
<1> SUFFICES ASSUME NEW change \in due', ~Moved(change)
             PROVE  change \in missed' \/ UnderWay(change[1], change[2])'
  BY DEF ToldOfChanges
<1>1. request'[c] = r /\ \A x \in Clients \ {c} : request'[x] = request[x]
  BY DEF Typed, Go
<1>2. \A s \in Servers : HeldBy(s)' = HeldBy(s)
  BY DEF HeldBy, eventHistory
<1>3. CASE change \in due
  <2>1. change \in missed => change \in missed'
    BY DEF eventHistory
  <2>2. UnderWay(change[1], change[2]) => UnderWay(change[1], change[2])'
    <3>1. stream' = stream /\ inbox' = inbox
      BY DEF eventHistory
    <3> QED
      BY <1>1, <1>2, <3>1, StaysUnderWay
  <2> QED
    BY <1>3, <2>1, <2>2 DEF ToldOfChanges
<1>4. CASE r.pc = "notify" /\ r.kind = change[2] /\ change[1] \in Targets(r.to)
  <2>1. At(c, "notify")' /\ request'[c].kind = change[2] /\ change[1] \in Targets(request'[c].to)
    BY <1>1, <1>4 DEF At
  <2>2. Targets(request'[c].to) = Targets(request[c].to)'
    BY DEF Targets
  <2> QED
    BY <2>1, <2>2 DEF UnderWay
<1> QED
  BY <1>3, <1>4

LEMMA ToldRequests ==
  ASSUME Typed, ToldOfChanges, NEW c \in Clients, Step(c), ~Publish(c), ~Stop(c)
  PROVE  ToldOfChanges'
<1>1. ASSUME NEW d, BeginEnqueue(c, d)
      PROVE  ToldOfChanges'
  BY <1>1, ToldByRequest DEF BeginEnqueue, Begin, Ready, Idle, At, eventVars, eventHistory
<1>2. CASE CheckLimit(c)
  <2>1. (\E r : Go(c, r)) /\ ~At(c, "notify") /\ due' = due /\ UNCHANGED eventHistory
    BY <1>2 DEF CheckLimit, At, eventVars, eventHistory
  <2> QED
    BY <2>1, ToldByRequest
<1>3. CASE InsertMessage(c)
  <2> DEFINE d == request[c].device
  <2>1. d \in Targets(d)
    BY <1>3 DEF InsertMessage, Typed, GetAny, Targets
  <2>2. /\ Go(c, Notify("messages", d)) /\ ~At(c, "notify") /\ UNCHANGED eventHistory
        /\ due' = due \cup {<<d, "messages">>}
    BY <1>3 DEF InsertMessage, At, eventVars, eventHistory
  <2> QED
    BY <2>1, <2>2, ToldByRequest DEF Notify
<1>4. ASSUME NEW to, NEW kind, NEW D, NEW M, Begin(c, Notify(kind, to)), D \subseteq Targets(to),
             due' = due \cup (D \X {kind}) \cup (M \X {"moved"}), UNCHANGED eventHistory
      PROVE  ToldOfChanges'
  <2>1. Go(c, Notify(kind, to)) /\ ~At(c, "notify")
    BY <1>4 DEF Begin, Ready, Idle, At
  <2>2. /\ Notify(kind, to).pc = "notify" /\ Notify(kind, to).kind = kind
        /\ Notify(kind, to).to = to
    BY DEF Notify
  <2> QED
    BY <1>4, <2>1, <2>2, ToldByRequest DEF Moved
<1>5. ASSUME NEW to, ReplaceWebhook(c, to)
      PROVE  ToldOfChanges'
  BY <1>4, <1>5 DEF ReplaceWebhook, notifyHooks, eventHistory
<1>6. ASSUME NEW to, RefreshInbox(c, to)
      PROVE  ToldOfChanges'
  <2>1. due' = due \cup (Targets(to) \X {"export"}) \cup ({} \X {"moved"})
    BY <1>6 DEF RefreshInbox
  <2> QED
    BY <1>4, <1>6, <2>1 DEF RefreshInbox, postInboxExport, InboxRefresh, eventVars, eventHistory
<1>7. CASE DeleteWebhook(c)
  <2>1. Targets(hook) \subseteq Targets("all")
    BY DEF Targets
  <2>2. due' = due \cup (Targets(hook) \X {"webhooks"}) \cup ({} \X {"moved"})
    BY <1>7 DEF DeleteWebhook
  <2> QED
    BY <1>4, <1>7, <2>1, <2>2 DEF DeleteWebhook, notifyHooks, eventHistory
<1>8. CASE ChangeSettings(c)
  <2>1. PICK r : Go(c, r) /\ (r.pc \in {"lock", "write", "idle"} \/ r = notifyDevices)
    BY <1>8, SettingsGo
  <2>2. ~At(c, "notify") /\ UNCHANGED eventHistory
    BY <1>8, SettingsGo
  <2>3. request'[c] = r
    BY <2>1 DEF Go, Typed
  <2>4. CASE r = notifyDevices
    <3>1. r.pc = "notify" /\ r.kind = "settings" /\ Targets(r.to) = DeviceIds
      BY <2>4 DEF notifyDevices, Targets
    <3>2. due' = due \cup (DeviceIds \X {"settings"})
      BY <1>8, <2>3, <3>1 DEF ChangeSettings
    <3> QED
      BY <2>1, <2>2, <3>1, <3>2, ToldByRequest
  <2>5. CASE r.pc \in {"lock", "write", "idle"}
    <3>1. due' = due
      BY <1>8, <2>3, <2>5 DEF ChangeSettings
    <3> QED
      BY <2>1, <2>2, <3>1, ToldByRequest
  <2> QED
    BY <2>1, <2>4, <2>5
<1> QED
  BY <1>1, <1>2, <1>3, <1>5, <1>6, <1>7, <1>8 DEF Step

(* A server holds every event that is published, and a device that can be  *)
(* reached is some server's to tell.                                       *)
LEMMA ToldPublished ==
  ASSUME Typed, ToldOfChanges, NEW c \in Clients, Publish(c)
  PROVE  ToldOfChanges'
<1> DEFINE r == request[c]
           e == [kind |-> r.kind, to |-> r.to]
<1> SUFFICES ASSUME NEW change \in due', ~Moved(change)
             PROVE  change \in missed' \/ UnderWay(change[1], change[2])'
  BY DEF ToldOfChanges
<1>1. /\ change \in due /\ At(c, "notify") /\ UNCHANGED <<work, stream, inbox>>
      /\ \A x \in Clients \ {c} : request'[x] = request[x]
  BY DEF Publish, Go, Typed
<1>2. change[1] \in DeviceIds
  BY <1>1, ChangesArePairs
<1>3. e \in Events
  BY <1>1 DEF Typed, Events
<1>4. CASE Miss(Targets(r.to), r.kind) /\ channel' = channel
  <2>1. \A s \in Servers : HeldBy(s)' = HeldBy(s)
    BY <1>1, <1>4 DEF HeldBy
  <2>2. ASSUME change \notin missed'
        PROVE  UnderWay(change[1], change[2])'
    <3>1. change \notin missed /\ ~(change[1] \in Targets(r.to) /\ change[2] = r.kind)
      BY <1>1, <1>4, <2>2, MissRecords
    <3>2. UnderWay(change[1], change[2])
      BY <1>1, <3>1 DEF ToldOfChanges
    <3>3. \A x \in Clients :
             At(x, "notify") /\ request[x].kind = change[2] /\ change[1] \in Targets(request[x].to) =>
               request'[x] = request[x]
      BY <1>1, <3>1
    <3> QED
      BY <1>1, <2>1, <3>2, <3>3, StaysUnderWay
  <2> QED
    BY <2>2
<1>5. CASE Published(e) /\ Miss({d \in Targets(r.to) : ~Reachable(d)}, r.kind)
  <2>1. \A s \in Servers : /\ Range(channel[s]) \subseteq Range(channel'[s])
                           /\ e \in Range(channel'[s])
    <3> SUFFICES ASSUME NEW s \in Servers
                 PROVE  Range(channel[s]) \subseteq Range(channel'[s]) /\ e \in Range(channel'[s])
      OBVIOUS
    <3>1. channel'[s] = Append(channel[s], e) /\ channel[s] \in Seq(Events)
      BY <1>5 DEF Published, Typed
    <3> QED
      BY <1>3, <3>1, RestAndLast
  <2>2. \A s \in Servers : HeldBy(s) \subseteq HeldBy(s)'
    BY <1>1, <2>1 DEF HeldBy, Targets
  <2>3. ASSUME NEW s \in Servers, change[1] \in Targets(r.to), change[2] = r.kind
        PROVE  <<change[1], change[2]>> \in HeldBy(s)'
    <3>1. e.to = r.to /\ e.kind = r.kind
      OBVIOUS
    <3> HIDE DEF e
    <3> QED
      BY <2>1, <2>3, <3>1 DEF HeldBy, Targets
  <2>4. CASE change[1] \in Targets(r.to) /\ change[2] = r.kind
    <3>1. CASE ~Reachable(change[1])
      BY <1>1, <1>5, <2>4, <3>1, MissRecords
    <3>2. CASE change[1] \in PushDevices
      BY <2>3, <2>4, <3>2, DeliveryAssumption DEF UnderWay
    <3>3. CASE stream[change[1]] # None
      BY <1>1, <1>2, <2>3, <2>4, <3>3 DEF UnderWay, Typed
    <3> QED
      BY <3>1, <3>2, <3>3 DEF Reachable
  <2>5. CASE ~(change[1] \in Targets(r.to) /\ change[2] = r.kind)
    <3>1. change \in missed => change \in missed'
      BY <1>5, MissRecords
    <3>2. \A x \in Clients :
             At(x, "notify") /\ request[x].kind = change[2] /\ change[1] \in Targets(request[x].to) =>
               request'[x] = request[x]
      BY <1>1, <2>5
    <3>3. UnderWay(change[1], change[2]) => UnderWay(change[1], change[2])'
      BY <1>1, <2>2, <3>2, StaysUnderWay
    <3> QED
      BY <1>1, <3>1, <3>3 DEF ToldOfChanges
  <2> QED
    BY <2>4, <2>5
<1> QED
  BY <1>4, <1>5 DEF Publish

(* What a request that is stopped had to publish is missed.                *)
LEMMA ToldStopped ==
  ASSUME Typed, ToldOfChanges, NEW c \in Clients, Stop(c)
  PROVE  ToldOfChanges'
<1> SUFFICES ASSUME NEW change \in due', ~Moved(change)
             PROVE  change \in missed' \/ UnderWay(change[1], change[2])'
  BY DEF ToldOfChanges
<1>1. /\ change \in due /\ UNCHANGED <<channel, work, stream, inbox>>
      /\ \A x \in Clients \ {c} : request'[x] = request[x]
  BY DEF Stop, Go, Typed, eventVars
<1>2. \A s \in Servers : HeldBy(s)' = HeldBy(s)
  BY <1>1 DEF HeldBy
<1>3. ASSUME change \notin missed'
      PROVE  UnderWay(change[1], change[2])'
  <2>1. /\ change \notin missed
        /\ At(c, "notify") => ~(change[1] \in Targets(request[c].to) /\ change[2] = request[c].kind)
    BY <1>1, <1>3, MissRecords DEF Stop
  <2>2. UnderWay(change[1], change[2])
    BY <1>1, <2>1 DEF ToldOfChanges
  <2>3. \A x \in Clients :
           At(x, "notify") /\ request[x].kind = change[2] /\ change[1] \in Targets(request[x].to) =>
             request'[x] = request[x]
    BY <1>1, <2>1
  <2> QED
    BY <1>1, <1>2, <2>2, <2>3, StaysUnderWay
<1> QED
  BY <1>3

(* What a server drops is missed, if the device was that server's to tell. *)
LEMMA ToldDropped ==
  ASSUME Typed, ToldOfChanges, NEW s \in Servers,
         UNCHANGED <<request, stream, inbox, due>>,
         missed \subseteq missed',
         \A x \in Servers \ {s} : HeldBy(x)' = HeldBy(x),
         \A change \in due :
            /\ change[1] \in PushDevices \/ stream[change[1]] = s
            /\ <<change[1], change[2]>> \in HeldBy(s) \ HeldBy(s)'
            => change \in missed' \/ change[2] \in inbox[change[1]]
  PROVE  ToldOfChanges'
<1> SUFFICES ASSUME NEW change \in due, change \notin missed', ~Moved(change)
             PROVE  UnderWay(change[1], change[2])'
  BY DEF ToldOfChanges
<1>1. UnderWay(change[1], change[2])
  BY DEF ToldOfChanges
<1>2. CASE change[2] \in inbox[change[1]]
  BY <1>2 DEF UnderWay
<1>3. CASE change[2] \notin inbox[change[1]]
  <2>1. ASSUME NEW x \in Servers, change[1] \in PushDevices \/ stream[change[1]] = x,
               <<change[1], change[2]>> \in HeldBy(x)
        PROVE  <<change[1], change[2]>> \in HeldBy(x)'
    BY <1>3, <2>1
  <2>2. \A x \in Servers :
           (change[1] \in PushDevices \/ stream[change[1]] = x) /\ <<change[1], change[2]>> \in HeldBy(x) =>
             (change[1] \in PushDevices \/ stream'[change[1]] = x) /\ <<change[1], change[2]>> \in HeldBy(x)'
    BY <2>1
  <2> QED
    BY <1>1, <2>2, StaysUnderWay
<1> QED
  BY <1>2, <1>3

LEMMA ToldLost ==
  ASSUME Typed, ToldOfChanges, NEW s \in Servers, Lose(s)
  PROVE  ToldOfChanges'
<1> DEFINE e == Head(channel[s])
           D == {d \in Targets(e.to) : d \in PushDevices \/ stream[d] = s}
<1>1. /\ UNCHANGED <<request, work, stream, inbox, due>> /\ Miss(D, e.kind)
      /\ channel[s] \in Seq(Events) /\ channel[s] # <<>>
      /\ channel'[s] = Tail(channel[s])
      /\ \A x \in Servers \ {s} : channel'[x] = channel[x]
  BY DEF Lose, base, Typed
<1>2. Range(channel[s]) = {e} \cup Range(channel'[s])
  BY <1>1, FirstAndRest
<1>3. \A x \in Servers \ {s} : HeldBy(x)' = HeldBy(x)
  BY <1>1 DEF HeldBy, Targets
<1>4. \A d, event : <<d, event>> \in HeldBy(s)' <=>
         \/ d \in work'[s].todo /\ event = work'[s].event
         \/ \E x \in Range(channel'[s]) : d \in Targets(x.to) /\ event = x.kind
  BY HeldAfterwards
<1> HIDE DEF e
<1>5. ASSUME NEW change \in due, change[1] \in PushDevices \/ stream[change[1]] = s,
             <<change[1], change[2]>> \in HeldBy(s), <<change[1], change[2]>> \notin HeldBy(s)'
      PROVE  change \in missed'
  <2>1. change[1] \in Targets(e.to) /\ change[2] = e.kind
    BY <1>1, <1>2, <1>4, <1>5, HeldByServer
  <2> QED
    BY <1>1, <1>5, <2>1, MissRecords
<1> QED
  BY <1>1, <1>3, <1>5, MissRecords, ToldDropped

(* The event that a server takes up is held as before, as work.            *)
LEMMA ToldReceived ==
  ASSUME Typed, ToldOfChanges, NEW s \in Servers, ReceiveEvent(s)
  PROVE  ToldOfChanges'
<1> DEFINE e == Head(channel[s])
<1>1. /\ UNCHANGED <<request, stream, inbox, due, missed>>
      /\ work[s].todo = {}
      /\ channel[s] \in Seq(Events) /\ channel[s] # <<>>
      /\ channel'[s] = Tail(channel[s])
      /\ \A x \in Servers \ {s} : channel'[x] = channel[x] /\ work'[x] = work[x]
      /\ work'[s] = IF Targets(e.to) = {} THEN NoWork ELSE [event |-> e.kind, todo |-> Targets(e.to)]
  BY DEF ReceiveEvent, Receive, base, Typed, NoWork
<1>2. Range(channel[s]) = {e} \cup Range(channel'[s])
  BY <1>1, FirstAndRest
<1>3. \A x \in Servers \ {s} : HeldBy(x)' = HeldBy(x)
  BY <1>1 DEF HeldBy, Targets
<1> HIDE DEF e
<1>4. \A d, event : <<d, event>> \in HeldBy(s)' <=>
         \/ d \in work'[s].todo /\ event = work'[s].event
         \/ \E x \in Range(channel'[s]) : d \in Targets(x.to) /\ event = x.kind
  BY HeldAfterwards
<1>5. ASSUME NEW d, NEW event, <<d, event>> \in HeldBy(s)
      PROVE  <<d, event>> \in HeldBy(s)'
  <2>1. CASE d \in Targets(e.to) /\ event = e.kind
    BY <1>1, <1>4, <2>1
  <2>2. CASE \E x \in Range(channel'[s]) : d \in Targets(x.to) /\ event = x.kind
    BY <1>4, <2>2
  <2> QED
    BY <1>1, <1>2, <1>5, <2>1, <2>2, HeldByServer
<1> QED
  BY <1>1, <1>3, <1>5, ToldDropped

(* A device that is tried gets the event, or misses it, or is not this     *)
(* server's to tell.                                                       *)
LEMMA ToldProcessed ==
  ASSUME Typed, ToldOfChanges, NEW s \in Servers, NEW d \in DeviceIds, ProcessDeviceEvent(s, d)
  PROVE  ToldOfChanges'
<1>1. /\ UNCHANGED <<request, channel, stream, due>> /\ Done(s, {d}) /\ SendTo(s, d)
      /\ missed \subseteq missed'
  BY MissRecords DEF ProcessDeviceEvent, SendTo, base
<1>2. \A x \in Servers \ {s} : work'[x] = work[x]
  BY <1>1, OneDone
<1>3. \A x \in Servers \ {s} : HeldBy(x)' = HeldBy(x)
  BY <1>1, <1>2 DEF HeldBy, Targets
<1>4. ASSUME NEW y, NEW event, <<y, event>> \in HeldBy(s), ~(y = d /\ event = work[s].event)
      PROVE  <<y, event>> \in HeldBy(s)'
  <2>1. CASE \E e \in Range(channel[s]) : y \in Targets(e.to) /\ event = e.kind
    BY <1>1, <2>1, HeldAfterwards
  <2>2. CASE y \in work[s].todo /\ event = work[s].event
    <3>1. y \in work'[s].todo /\ work'[s].event = event
      BY <1>1, <1>4, <2>2, OneDone
    <3> QED
      BY <3>1, HeldAfterwards
  <2> QED
    BY <1>4, <2>1, <2>2, HeldByServer
<1>5. \A x \in DeviceIds : inbox[x] \subseteq inbox'[x]
  BY <1>1 DEF SendTo, Typed
<1> SUFFICES ASSUME NEW change \in due, change \notin missed', ~Moved(change)
             PROVE  UnderWay(change[1], change[2])'
  BY <1>1 DEF ToldOfChanges
<1>6. UnderWay(change[1], change[2]) /\ change[1] \in DeviceIds
  BY <1>1, ChangesArePairs DEF ToldOfChanges
<1>7. CASE /\ change[1] = d /\ change[2] = work[s].event
           /\ d \in PushDevices \/ stream[d] = s
  <2>1. change[2] \in inbox'[d]
    BY <1>1, <1>7, MissRecords DEF SendTo, Typed
  <2> QED
    BY <1>7, <2>1 DEF UnderWay
<1>8. CASE ~(/\ change[1] = d /\ change[2] = work[s].event
             /\ d \in PushDevices \/ stream[d] = s)
  <2>1. ASSUME NEW x \in Servers, change[1] \in PushDevices \/ stream[change[1]] = x,
               <<change[1], change[2]>> \in HeldBy(x)
        PROVE  <<change[1], change[2]>> \in HeldBy(x)'
    BY <1>3, <1>4, <1>8, <2>1
  <2>2. \A x \in Servers :
           (change[1] \in PushDevices \/ stream[change[1]] = x) /\ <<change[1], change[2]>> \in HeldBy(x) =>
             (change[1] \in PushDevices \/ stream'[change[1]] = x) /\ <<change[1], change[2]>> \in HeldBy(x)'
    BY <1>1, <2>1
  <2> QED
    BY <1>1, <1>5, <1>6, <2>2, StaysUnderWay
<1> QED
  BY <1>7, <1>8

(* A device that loses its stream misses what is under way to it.          *)
LEMMA ToldMoved ==
  ASSUME Typed, ToldOfChanges, NEW d \in DeviceIds, NEW s, Move(d, s)
  PROVE  ToldOfChanges'
<1>1. /\ UNCHANGED <<request, channel, work, inbox, due>> /\ missed \subseteq missed'
      /\ \A x \in DeviceIds \ {d} : stream'[x] = stream[x]
  BY DEF Move, base, Typed
<1>2. \A change \in due : change[1] = d /\ ~Moved(change) => change \in missed'
  BY ChangesArePairs DEF Move
<1>3. \A x \in Servers : HeldBy(x)' = HeldBy(x)
  BY <1>1 DEF HeldBy, Targets
<1> SUFFICES ASSUME NEW change \in due, change \notin missed', ~Moved(change)
             PROVE  UnderWay(change[1], change[2])'
  BY <1>1 DEF ToldOfChanges
<1>4. UnderWay(change[1], change[2]) /\ change[1] \in DeviceIds \ {d}
  BY <1>1, <1>2, ChangesArePairs DEF ToldOfChanges
<1>5. stream'[change[1]] = stream[change[1]] /\ inbox' = inbox /\ request' = request
  BY <1>1, <1>4
<1>6. \A x \in Servers :
         (change[1] \in PushDevices \/ stream[change[1]] = x) /\ <<change[1], change[2]>> \in HeldBy(x) =>
           (change[1] \in PushDevices \/ stream'[change[1]] = x) /\ <<change[1], change[2]>> \in HeldBy(x)'
  BY <1>3, <1>5
<1> QED
  BY <1>4, <1>5, <1>6, StaysUnderWay

(* An answer is all that ends a change without its being told.             *)
LEMMA ToldPulled ==
  ASSUME Typed, ToldOfChanges, NEW d \in DeviceIds, NEW event, Pull(d, event)
  PROVE  ToldOfChanges'
<1>1. /\ UNCHANGED <<request, channel, work, stream>>
      /\ due' = due \ ({d} \X Answered(event)) /\ missed' = missed \ {<<d, event>>}
      /\ inbox' = [inbox EXCEPT ![d] = inbox[d] \ {event}]
  BY DEF Pull, base
<1>2. \A x \in Servers : HeldBy(x)' = HeldBy(x)
  BY <1>1 DEF HeldBy, Targets
<1> SUFFICES ASSUME NEW change \in due', change \notin missed', ~Moved(change)
             PROVE  UnderWay(change[1], change[2])'
  BY DEF ToldOfChanges
<1>3. change \in due /\ change \notin missed /\ ~(change[1] = d /\ change[2] = event)
  BY <1>1, ChangesArePairs DEF Answered
<1>4. UnderWay(change[1], change[2]) /\ change[1] \in DeviceIds
  BY <1>3, ChangesArePairs DEF ToldOfChanges
<1>5. change[2] \in inbox[change[1]] => change[2] \in inbox'[change[1]]
  BY <1>1, <1>3, <1>4 DEF Typed
<1> QED
  BY <1>1, <1>2, <1>4, <1>5, StaysUnderWay

(* A server that stops cuts its streams off, and drops what it held for    *)
(* the devices with a push token.                                          *)
LEMMA ToldClosed ==
  ASSUME Typed, ToldOfChanges, NEW s \in Servers, Close(s)
  PROVE  ToldOfChanges'
<1>1. /\ UNCHANGED <<request, inbox, due>> /\ missed \subseteq missed'
      /\ \A x \in Servers \ {s} : channel'[x] = channel[x] /\ work'[x] = work[x]
      /\ \A d \in DeviceIds : stream[d] # s => stream'[d] = stream[d]
  BY DEF Close, base, Typed
<1>2. \A change \in due :
         /\ ~Moved(change)
         /\ \/ stream[change[1]] = s
            \/ change[1] \in PushDevices /\ <<change[1], change[2]>> \in HeldBy(s)
         => change \in missed'
  <2> SUFFICES ASSUME NEW change \in due, ~Moved(change),
                      \/ stream[change[1]] = s
                      \/ change[1] \in PushDevices /\ <<change[1], change[2]>> \in HeldBy(s)
               PROVE  change \in missed'
    OBVIOUS
  <2>1. change = <<change[1], change[2]>> /\ change[1] \in DeviceIds /\ change[2] \in Kinds
    BY ChangesArePairs
  <2>2. CASE stream[change[1]] = s
    BY <2>1, <2>2 DEF Close
  <2>3. CASE change[1] \in PushDevices /\ <<change[1], change[2]>> \in HeldBy(s)
    BY <2>1, <2>3 DEF Close
  <2> QED
    BY <2>2, <2>3
<1>3. \A x \in Servers \ {s} : HeldBy(x)' = HeldBy(x)
  BY <1>1 DEF HeldBy, Targets
<1> SUFFICES ASSUME NEW change \in due, change \notin missed', ~Moved(change)
             PROVE  UnderWay(change[1], change[2])'
  BY <1>1 DEF ToldOfChanges
<1>4. UnderWay(change[1], change[2]) /\ change[1] \in DeviceIds
  BY <1>1, ChangesArePairs DEF ToldOfChanges
<1>5. stream'[change[1]] = stream[change[1]] /\ stream[change[1]] # s
  BY <1>1, <1>2, <1>4
<1>6. ASSUME NEW x \in Servers, change[1] \in PushDevices \/ stream[change[1]] = x,
             <<change[1], change[2]>> \in HeldBy(x)
      PROVE  <<change[1], change[2]>> \in HeldBy(x)'
  BY <1>2, <1>3, <1>5, <1>6
<1>7. \A x \in Servers :
         (change[1] \in PushDevices \/ stream[change[1]] = x) /\ <<change[1], change[2]>> \in HeldBy(x) =>
           (change[1] \in PushDevices \/ stream'[change[1]] = x) /\ <<change[1], change[2]>> \in HeldBy(x)'
  BY <1>5, <1>6
<1> QED
  BY <1>1, <1>4, <1>7, StaysUnderWay

LEMMA ToldInit == Init => ToldOfChanges
BY DEF Init, ToldOfChanges

LEMMA ToldStep == Typed /\ ToldOfChanges /\ [Next]_vars => ToldOfChanges'
<1> SUFFICES ASSUME Typed, ToldOfChanges, [Next]_vars
             PROVE  ToldOfChanges'
  OBVIOUS
<1>1. CASE Limit \/ UNCHANGED vars
  <2>1. UNCHANGED <<request, channel, work, stream, inbox, due, missed>>
    BY <1>1 DEF Limit, vars, base, eventVars
  <2> QED
    BY <2>1 DEF ToldOfChanges, UnderWay, HeldBy, Targets, At
<1>2. ASSUME NEW d \in DeviceIds, Handle(d) \/ Poll(d)
      PROVE  ToldOfChanges'
  BY <1>2, Pulls, ToldPulled
<1> QED
  BY <1>1, <1>2, ToldRequests, ToldPublished, ToldStopped, ToldLost, ToldReceived,
     ToldProcessed, ToldMoved, ToldClosed DEF Next

(* No order of changes, publications, losses, streams that come and go,    *)
(* servers that stop and answers makes a device believe that it is up to   *)
(* date: what it has not asked for since it changed is on its way to it,   *)
(* or is known to be lost; or it is a webhook's being moved away from it,  *)
(* which the code tells nobody of.                                         *)
THEOREM ToldOfChangesAlways == Spec => []ToldOfChanges
BY TypedInit, TypedStep, ToldInit, ToldStep, PTL DEF Spec
=============================================================================
