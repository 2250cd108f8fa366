-------------------------------- MODULE Sse ---------------------------------
(***************************************************************************)
(* The server-sent-events service of the SMS gateway server                *)
(* (internal/sms-gateway/modules/sse): the connections of devices, each a  *)
(* goroutine that writes events to a stream, and the sender (the loop of   *)
(* the events service) that puts events into their channels.               *)
(*                                                                         *)
(* The sender holds the read lock of the service while it walks over the   *)
(* connections of a device, so connections come and go only in between;    *)
(* the goroutines that write take events out of the channels meanwhile.    *)
(***************************************************************************)
EXTENDS Naturals, Sequences

CONSTANTS
  Devices,
  Conns,           \* connections, each used once
  eventsBufferSize,
  keepAlivePeriod, \* 0: no keep-alives
  MaxEvents        \* bound: events sent in a behaviour

ASSUME SseAssumption ==
  /\ eventsBufferSize \in Nat \ {0}
  /\ MaxEvents \in Nat /\ keepAlivePeriod \in Nat

VARIABLES
  connections,     \* the registered connections of each device
  handler,         \* the progress of every connection's goroutine
  device,          \* the device of every connection
  pending,         \* the channel of every connection
  closings,        \* how often each closeSignal was closed
  sender,          \* the progress of Send
  sent,            \* history: the number of events sent so far
  written          \* history: what was written to each stream

sseVars == <<connections, handler, device, pending, closings, sender, sent, written>>

-----------------------------------------------------------------------------
SenderIdle == [todo |-> {}, busy |-> FALSE]

Registered == UNION {connections[d] : d \in Devices}

SseInit ==
  /\ connections = [d \in Devices |-> {}]
  /\ handler = [c \in Conns |-> "new"]
  /\ device \in [Conns -> Devices]
  /\ pending = [c \in Conns |-> <<>>]
  /\ closings = [c \in Conns |-> 0]
  /\ sender = SenderIdle
  /\ sent = 0
  /\ written = [c \in Conns |-> <<>>]

(* The write lock is free.                                                 *)
Unlocked == ~sender.busy

-----------------------------------------------------------------------------
(* handleStream registers the connection ...                               *)
registerConnection(c) ==
  /\ handler[c] = "new"
  /\ Unlocked
  /\ connections' = [connections EXCEPT ![device[c]] = @ \cup {c}]
  /\ handler' = [handler EXCEPT ![c] = "run"]
  /\ UNCHANGED <<device, pending, closings, sender, sent, written>>

(* Fault: an event that could not be written goes back into the channel.   *)
WriteEvent_Requeues(c) ==
  /\ handler[c] = "run"
  /\ pending[c] # <<>>
  /\ \/ /\ written' = [written EXCEPT ![c] = Append(@, Head(pending[c]))]
        /\ pending' = [pending EXCEPT ![c] = Tail(@)]
     \/ /\ pending' = [pending EXCEPT ![c] = Append(Tail(@), Head(@))]
        /\ UNCHANGED written
  /\ UNCHANGED <<connections, handler, device, closings, sender, sent>>

(* An event is written and flushed, or that fails.                         *)
writeToStream(c, event) == written' = [written EXCEPT ![c] = Append(@, event)]

(* ... takes an event and writes it, and gives up when that fails ...      *)
WriteEvent(c) ==
  /\ handler[c] = "run"
  /\ pending[c] # <<>>
  /\ pending' = [pending EXCEPT ![c] = Tail(@)]
  /\ \/ /\ writeToStream(c, Head(pending[c]))
        /\ UNCHANGED handler
     \/ /\ handler' = [handler EXCEPT ![c] = "leave"]
        /\ UNCHANGED written
  /\ UNCHANGED <<connections, device, closings, sender, sent>>

(* ... or, with a ticker, fails to write a keep-alive ...                  *)
HasTicker == keepAlivePeriod > 0

KeepAliveFails(c) ==
  /\ HasTicker
  /\ handler[c] = "run"
  /\ handler' = [handler EXCEPT ![c] = "leave"]
  /\ UNCHANGED <<connections, device, pending, closings, sender, sent, written>>

(* Fault: it stops only when no event waits.                               *)
Stop_WhenEmpty(c) ==
  /\ handler[c] = "run"
  /\ closings[c] > 0
  /\ pending[c] = <<>>
  /\ handler' = [handler EXCEPT ![c] = "leave"]
  /\ UNCHANGED <<connections, device, pending, closings, sender, sent, written>>

(* ... or is told to stop, even when events wait.                          *)
Stop(c) ==
  /\ handler[c] = "run"
  /\ closings[c] > 0
  /\ handler' = [handler EXCEPT ![c] = "leave"]
  /\ UNCHANGED <<connections, device, pending, closings, sender, sent, written>>

(* Fault: the signal is closed whether the connection is registered or not. *)
removeConnection_Always(c) ==
  /\ handler[c] = "leave"
  /\ Unlocked
  /\ connections' = [connections EXCEPT ![device[c]] = @ \ {c}]
  /\ closings' = [closings EXCEPT ![c] = @ + 1]
  /\ handler' = [handler EXCEPT ![c] = "done"]
  /\ UNCHANGED <<device, pending, sender, sent, written>>

(* In the end the connection is removed, unless Close was faster, and its  *)
(* signal closed.                                                          *)
removeConnection(c) ==
  /\ handler[c] = "leave"
  /\ Unlocked
  /\ \/ /\ c \in connections[device[c]]
        /\ connections' = [connections EXCEPT ![device[c]] = @ \ {c}]
        /\ closings' = [closings EXCEPT ![c] = @ + 1]
     \/ /\ c \notin connections[device[c]]
        /\ UNCHANGED <<connections, closings>>
  /\ handler' = [handler EXCEPT ![c] = "done"]
  /\ UNCHANGED <<device, pending, sender, sent, written>>

(* Close tells every registered connection to stop and forgets it.         *)
CloseService ==
  /\ Unlocked
  /\ Registered # {}
  /\ closings' = [c \in Conns |-> IF c \in Registered THEN closings[c] + 1 ELSE closings[c]]
  /\ connections' = [d \in Devices |-> {}]
  /\ UNCHANGED <<handler, device, pending, sender, sent, written>>

-----------------------------------------------------------------------------
(* Send: with connections to the device, it walks over them, in some order *)
(* ...                                                                     *)
Send(d) ==
  /\ Unlocked
  /\ sent < MaxEvents
  /\ connections[d] # {}
  /\ sender' = [todo |-> connections[d], busy |-> TRUE]
  /\ sent' = sent + 1
  /\ UNCHANGED <<connections, handler, device, pending, closings, written>>

(* ... and offers the event to each: a full channel drops it, a closed     *)
(* signal may.                                                             *)
Offer(c) ==
  /\ c \in sender.todo
  /\ \/ /\ Len(pending[c]) < eventsBufferSize
        /\ pending' = [pending EXCEPT ![c] = Append(@, sent)]
     \/ /\ closings[c] > 0 \/ Len(pending[c]) = eventsBufferSize
        /\ UNCHANGED pending
  /\ sender' = [sender EXCEPT !.todo = @ \ {c}]
  /\ UNCHANGED <<connections, handler, device, closings, sent, written>>

(* Send returns and gives the lock back.                                   *)
Sent ==
  /\ sender.busy
  /\ sender.todo = {}
  /\ sender' = SenderIdle
  /\ UNCHANGED <<connections, handler, device, pending, closings, sent, written>>

-----------------------------------------------------------------------------
SseNext ==
  \/ \E c \in Conns : \/ registerConnection(c) \/ WriteEvent(c)
                      \/ KeepAliveFails(c) \/ Stop(c) \/ removeConnection(c)
                      \/ Offer(c)
  \/ CloseService
  \/ \E d \in Devices : Send(d)
  \/ Sent

SseSpec == SseInit /\ [][SseNext]_sseVars

(* Sends go on, and connections that are told to stop, or failed, clean    *)
(* up; devices need not connect, and streams need not fail.                *)
SseFairSpec ==
  /\ SseSpec
  /\ WF_sseVars(Sent)
  /\ \A c \in Conns : WF_sseVars(Offer(c)) /\ SF_sseVars(removeConnection(c)) /\ WF_sseVars(Stop(c))

-----------------------------------------------------------------------------
(* Properties.                                                             *)

(* Every variable keeps to its type, and channels to their size.           *)
SseTypeOK ==
  /\ connections \in [Devices -> SUBSET Conns]
  /\ handler \in [Conns -> {"new", "run", "leave", "done"}]
  /\ device \in [Conns -> Devices]
  /\ \A c \in Conns : pending[c] \in Seq(1 .. MaxEvents) /\ Len(pending[c]) <= eventsBufferSize
  /\ closings \in [Conns -> Nat]
  /\ sender \in [todo : SUBSET Conns, busy : BOOLEAN]
  /\ sent \in 0 .. MaxEvents
  /\ \A c \in Conns : written[c] \in Seq(1 .. MaxEvents)

(* However a connection's own end races with Close, its signal is closed   *)
(* at most once (a second time would panic), and every goroutine that is   *)
(* not registered any more has been told to stop.                          *)
SignalledOnce ==
  \A c \in Conns :
    /\ closings[c] <= 1
    /\ handler[c] \in {"run", "leave"} => (c \in Registered <=> closings[c] = 0)

(* A sender only walks over connections that are registered and have not   *)
(* been told to stop.                                                      *)
WalksRegistered ==
  \A c \in sender.todo : c \in Registered /\ closings[c] = 0

(* Every stream shows events in the order in which they were sent, none    *)
(* twice, with gaps only where events were dropped; what its channel holds *)
(* comes after them.                                                       *)
StreamInOrder ==
  \A c \in Conns :
    LET s == written[c] \o pending[c]
    IN  \A i, j \in DOMAIN s : i < j => s[i] < s[j]

(* Close ends every connection it finds, even while events keep coming.    *)
CloseEndsConnections == \A c \in Conns : (closings[c] > 0) ~> (handler[c] = "done")

(* A slow or dead stream never blocks the sender, who serves all devices.  *)
SendReturns == sender.busy ~> ~sender.busy
=============================================================================
