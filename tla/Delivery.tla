------------------------------- MODULE Delivery -------------------------------
(***************************************************************************)
(* How a user's devices come to know of what changed on the servers        *)
(* (internal/sms-gateway: module events, the parts of messages, webhooks   *)
(* and settings that notify, and the redis publisher of pkg/pubsub), with  *)
(* the settings and the limiter in full.                                   *)
(*                                                                         *)
(* A request changes the database and leaves a goroutine that publishes an *)
(* event.  Every server has a subscription, a buffered channel, and a loop *)
(* that hands each event to the devices it is for: by push when a device   *)
(* has a push token, else through the stream the device has to a server.   *)
(* A device that is notified asks for what changed.  Redis delivers what   *)
(* is published at most once.                                              *)
(***************************************************************************)
EXTENDS Settings, Limiter

CONSTANTS
  Servers,         \* server processes
  Home,            \* the server that takes the messages, and whose limiter it is
  PushDevices,     \* the devices with a push token
  Receivers,       \* bound: the devices that requests name
  None             \* no server, no target

ASSUME DeliveryAssumption ==
  /\ PushDevices \subseteq DeviceIds
  /\ Home \in Servers /\ None \notin Servers

VARIABLES
  hook,            \* a webhook of the user: the device it is for, "all", or None
  channel,         \* the channel of every server's subscription
  work,            \* the event each server's loop is at, and for which devices
  stream,          \* the server each device has a stream to, or None
  inbox,           \* kinds of events a device has got
  due,             \* history: what changed since a device asked for it
  missed           \* history: those of which it will not be told

eventVars == <<hook, channel, work, stream, inbox>>
base == <<settingsVars, limiterVars, request, started>>
vars == <<base, eventVars, due, missed>>

-----------------------------------------------------------------------------
Kinds == {"settings", "messages", "webhooks", "export"}

(* What changes for a device: what events are about, or that a webhook is  *)
(* no longer for it.                                                       *)
Changes == Kinds \cup {"moved"}

(* The devices an event for one device, or for all, is for.                *)
Targets(to) == IF to = "all" THEN DeviceIds ELSE {to} \cap DeviceIds

NoWork == [event |-> None, todo |-> {}]

Init ==
  /\ SettingsInit /\ LimiterInit
  /\ request = [c \in Clients |-> Idle] /\ started = 0
  /\ hook = None
  /\ channel = [s \in Servers |-> <<>>]
  /\ work = [s \in Servers |-> NoWork]
  /\ stream \in [DeviceIds -> Servers \cup {None}]
  /\ \A d \in DeviceIds : stream[d] = None <=> d \in PushDevices
  /\ inbox = [d \in DeviceIds |-> {}]
  /\ due = {} /\ missed = {}

-----------------------------------------------------------------------------
(* What changes.                                                           *)

(* notifyDevices: an event for a device, or for all, is left to publish.   *)
Notify(kind, to) == [pc |-> "notify", kind |-> kind, to |-> to]

(* post: for the device that is named, or for any of the user's.           *)
GetAny == DeviceIds \cap Receivers

(* Enqueue: a refresh is asked for, the last statistics are consulted ...  *)
BeginEnqueue(c, d) ==
  /\ Begin(c, [pc |-> "check", device |-> d])
  /\ Refresh(d)
  /\ UNCHANGED <<settingsVars, item, batch, found, eventVars, due, missed>>

(* which refuse it, or cannot be read ...                                  *)
CheckLimit(c) ==
  /\ At(c, "check")
  /\ \/ /\ Check(request[c].device)
        /\ Go(c, [pc |-> "insert", device |-> request[c].device])
     \/ ~IsEmpty /\ Go(c, Idle)
  /\ UNCHANGED <<settingsVars, limiterVars, started, eventVars, due, missed>>

(* ... and the message is inserted.                                        *)
InsertMessage(c) ==
  LET d == request[c].device IN
  /\ At(c, "insert")
  /\ due' = due \cup {<<d, "messages">>}
  /\ Go(c, Notify("messages", d))
  /\ UNCHANGED <<settingsVars, limiterVars, started, eventVars, missed>>

notifyHooks(to) == Notify("webhooks", to)

(* A webhook is put, for a device or for all.  The event is for those whom *)
(* it is for now: a device that it was for before is not told that it has  *)
(* moved, although all of the user's devices are said to be.               *)
ReplaceWebhook(c, to) ==
  /\ Begin(c, notifyHooks(to))
  /\ hook' = to
  /\ due' = due \cup (Targets(to) \X {"webhooks"})
             \cup ((Targets(hook) \ Targets(to)) \X {"moved"})
  /\ UNCHANGED <<settingsVars, limiterVars, channel, work, stream, inbox, missed>>

DeleteWebhook(c) ==
  /\ Begin(c, notifyHooks("all"))
  /\ hook' = None
  /\ due' = due \cup (Targets(hook) \X {"webhooks"})
  /\ UNCHANGED <<settingsVars, limiterVars, channel, work, stream, inbox, missed>>

(* refresh: devices are asked to export their inboxes again; the old path, *)
(* postInboxExport, asks for less and comes to the same.                   *)
InboxRefresh(c, to) == Begin(c, Notify("export", to))

postInboxExport(c, to) == InboxRefresh(c, to)

RefreshInbox(c, to) ==
  /\ InboxRefresh(c, to) \/ postInboxExport(c, to)
  /\ due' = due \cup (Targets(to) \X {"export"})
  /\ UNCHANGED <<settingsVars, limiterVars, eventVars, missed>>

(* Settings, as in their module.                                           *)
ChangeSettings(c) ==
  /\ \/ \E body \in Documents : patch(c, body) \/ put(c, body)
     \/ SettingsStep(c)
  /\ due' = IF request'[c].pc = "notify"
            THEN due \cup (DeviceIds \X {"settings"}) ELSE due
  /\ UNCHANGED <<limiterVars, eventVars, missed>>

-----------------------------------------------------------------------------
(* Events.                                                                 *)

(* Devices are not told, by this event, of what changed.                   *)
Miss(D, event) == missed' = missed \cup (due \cap (D \X {event}))

Reachable(d) == d \in PushDevices \/ stream[d] # None

(* Redis hands what is published to every subscription there is.           *)
Published(event) == channel' = [s \in Servers |-> Append(channel[s], event)]

(* Notify, in a goroutine: the event is published, to every subscription   *)
(* there is, or that fails within five seconds; it is not tried again.     *)
Publish(c) ==
  LET r == request[c]
      event == [kind |-> r.kind, to |-> r.to]
  IN  /\ At(c, "notify")
      /\ \/ /\ Published(event)
            /\ Miss({d \in Targets(r.to) : ~Reachable(d)}, r.kind)
         \/ Miss(Targets(r.to), r.kind) /\ UNCHANGED channel
      /\ Go(c, Idle)
      /\ UNCHANGED <<settingsVars, limiterVars, started, hook, work, stream, inbox, due>>

(* Redis, or its connection to a server, loses what was published.         *)
Lose(s) ==
  /\ channel[s] # <<>>
  /\ LET event == Head(channel[s]) IN
       Miss({d \in Targets(event.to) : d \in PushDevices \/ stream[d] = s}, event.kind)
  /\ channel' = [channel EXCEPT ![s] = Tail(@)]
  /\ UNCHANGED <<base, hook, work, stream, inbox, due>>

(* The goroutine of a subscription passes events on in their order.        *)
Receive(s) == channel[s] # <<>> /\ channel' = [channel EXCEPT ![s] = Tail(@)]

(* Run and processEvent: an event is received and its devices selected ... *)
ReceiveEvent(s) ==
  /\ work[s] = NoWork
  /\ Receive(s)
  /\ LET event == Head(channel[s]) IN
       work' = [work EXCEPT ![s] = IF Targets(event.to) = {} THEN NoWork
                                   ELSE [event |-> event.kind, todo |-> Targets(event.to)]]
  /\ UNCHANGED <<base, hook, stream, inbox, due, missed>>

Done(s, D) ==
  work' = [work EXCEPT ![s] = IF @.todo = D THEN NoWork
                              ELSE [event |-> @.event, todo |-> @.todo \ D]]

(* ... and tried one after the other.  A push may be refused by its cache; *)
(* a stream may have no room, or be to another server.                     *)
SendTo(s, d) ==
  /\ d \in work[s].todo
  /\ \/ /\ d \in PushDevices \/ stream[d] = s
        /\ \/ inbox' = [inbox EXCEPT ![d] = @ \cup {work[s].event}] /\ UNCHANGED missed
           \/ Miss({d}, work[s].event) /\ UNCHANGED inbox
     \/ /\ d \notin PushDevices /\ stream[d] # s
        /\ UNCHANGED <<inbox, missed>>

(* Fault: an event that cannot be handed to a device is given up.          *)
ProcessDeviceEvent_GivesUp(s, d) ==
  /\ SendTo(s, d)
  /\ IF inbox' = inbox THEN Done(s, work[s].todo) ELSE Done(s, {d})
  /\ UNCHANGED <<base, hook, channel, stream, due>>

ProcessDeviceEvent(s, d) ==
  /\ SendTo(s, d)
  /\ Done(s, {d})
  /\ UNCHANGED <<base, hook, channel, stream, due>>

(* A device loses its stream, or has one again: what is under way to it    *)
(* may never arrive.                                                       *)
Move(d, s) ==
  /\ d \notin PushDevices /\ stream[d] # s
  /\ stream' = [stream EXCEPT ![d] = s]
  /\ missed' = missed \cup (due \cap ({d} \X Kinds))
  /\ UNCHANGED <<base, hook, channel, work, inbox, due>>

(* A device gets an answer, which it is given in full or not at all.  That *)
(* of the webhooks also shows which are no longer for it.                  *)
Answered(event) == IF event = "webhooks" THEN {"webhooks", "moved"} ELSE {event}

Pull(d, event) ==
  /\ inbox' = [inbox EXCEPT ![d] = @ \ {event}]
  /\ due' = due \ ({d} \X Answered(event))
  /\ missed' = missed \ {<<d, event>>}
  /\ UNCHANGED <<base, hook, channel, work, stream>>

(* A device asks for its pending messages, for its user's settings, or for *)
(* the webhooks of its user that are for it or for all; or it exports what *)
(* it has received.                                                        *)
GetMessages(d) == Pull(d, "messages")
GetSettingsOf(d) == Pull(d, "settings")
GetWebhooks(d) == Pull(d, "webhooks")
Export(d) == Pull(d, "export")

(* It does so because it was told ...                                      *)
Handle(d) ==
  \/ "messages" \in inbox[d] /\ GetMessages(d)
  \/ "settings" \in inbox[d] /\ GetSettingsOf(d)
  \/ "webhooks" \in inbox[d] /\ GetWebhooks(d)
  \/ "export" \in inbox[d] /\ Export(d)

(* ... or all the same.                                                    *)
Poll(d) ==
  /\ Reachable(d)
  /\ \/ <<d, "messages">> \in missed /\ "messages" \notin inbox[d] /\ GetMessages(d)
     \/ <<d, "settings">> \in missed /\ "settings" \notin inbox[d] /\ GetSettingsOf(d)
     \/ /\ <<d, "webhooks">> \in missed \/ <<d, "moved">> \in due
        /\ "webhooks" \notin inbox[d] /\ GetWebhooks(d)

(* What the loop of a server and its subscription have yet to hand on.     *)
HeldBy(s) ==
  (work[s].todo \X {work[s].event})
    \cup UNION { Targets(event.to) \X {event.kind} : event \in Range(channel[s]) }

(* A server stops and starts again: Close ends its subscription, and with  *)
(* it the loop; the streams to it end, and what it held is not handed on.  *)
(* Its limiter starts anew.                                                *)
Close(s) ==
  /\ channel' = [channel EXCEPT ![s] = <<>>]
  /\ work' = [work EXCEPT ![s] = NoWork]
  /\ stream' = [d \in DeviceIds |-> IF stream[d] = s THEN None ELSE stream[d]]
  /\ LET cutOff == {d \in DeviceIds : stream[d] = s} IN
       missed' = missed \cup (due \cap ((cutOff \X Kinds) \cup (HeldBy(s) \cap (PushDevices \X Kinds))))
  /\ IF s = Home THEN Restart ELSE UNCHANGED limiterVars
  /\ UNCHANGED <<settingsVars, request, started, hook, inbox, due>>

-----------------------------------------------------------------------------
(* A server stops in the middle of a request: the database rolls back what *)
(* was not committed, and what was is never published.                     *)
Stop(c) ==
  /\ request[c] # Idle
  /\ holders' = holders \ {c}
  /\ IF At(c, "notify") THEN Miss(Targets(request[c].to), request[c].kind) ELSE UNCHANGED missed
  /\ Go(c, Idle)
  /\ UNCHANGED <<hasRow, settings, written, limiterVars, started, eventVars, due>>

Step(c) ==
  \/ \E d \in GetAny : BeginEnqueue(c, d)
  \/ CheckLimit(c) \/ InsertMessage(c)
  \/ \E to \in Receivers \cup {"all"} : ReplaceWebhook(c, to)
  \/ \E to \in Receivers : RefreshInbox(c, to)
  \/ DeleteWebhook(c)
  \/ ChangeSettings(c)
  \/ Publish(c) \/ Stop(c)

Limit == LimiterStep /\ UNCHANGED <<settingsVars, request, started, eventVars, due, missed>>

Next ==
  \/ \E c \in Clients : Step(c)
  \/ Limit
  \/ \E s \in Servers : Lose(s) \/ Close(s) \/ ReceiveEvent(s) \/ (\E d \in DeviceIds : ProcessDeviceEvent(s, d))
  \/ \E d \in DeviceIds : \E s \in Servers \cup {None} : Move(d, s)
  \/ \E d \in DeviceIds : Handle(d) \/ Poll(d)

(* The limiter's goroutine has a ticker.                                   *)
Fairness == WF_vars(Pass /\ UNCHANGED <<settingsVars, request, started, eventVars, due, missed>>)

Spec == Init /\ [][Next]_vars
FairSpec == Spec /\ Fairness

-----------------------------------------------------------------------------
(* Properties.                                                             *)

(* Every variable keeps to its type.                                       *)
TypeOK ==
  /\ holders \subseteq Clients
  /\ refreshQueue \cup batch \cup asked \subseteq DeviceIds
  /\ hook \in Receivers \cup {"all", None}
  /\ stream \in [DeviceIds -> Servers \cup {None}]
  /\ inbox \in [DeviceIds -> SUBSET Kinds]
  /\ due \subseteq DeviceIds \X Changes /\ missed \subseteq DeviceIds \X Kinds

(* A notification of a kind that is on its way to a device.                *)
UnderWay(d, event) ==
  \/ \E c \in Clients : /\ At(c, "notify") /\ request[c].kind = event
                        /\ d \in Targets(request[c].to)
  \/ \E s \in Servers :
       /\ d \in PushDevices \/ stream[d] = s
       /\ <<d, event>> \in HeldBy(s)
  \/ event \in inbox[d]

(* A change that the code tells a device nothing of.                       *)
Moved(change) == change[2] = "moved"

(* Of what changed, a device that has not asked for it since is being      *)
(* told, unless the notification was lost on the way, the device had no    *)
(* stream, or the change is that a webhook was moved away from it: no      *)
(* order of changes, events and requests makes a device believe that it is *)
(* up to date in any other case.                                           *)
ToldOfChanges ==
  \A change \in due : \/ change \in missed
                     \/ UnderWay(change[1], change[2])
                     \/ Moved(change)
=============================================================================
