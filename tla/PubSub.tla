------------------------------- MODULE PubSub -------------------------------
(***************************************************************************)
(* One topic of the in-memory publish/subscribe hub (pkg/pubsub,           *)
(* MemoryPubSub), through which the server's components notify devices:    *)
(* publishers, each with one message; subscriptions, each with a channel   *)
(* and a goroutine that cleans up after it; and the closing of the hub.    *)
(*                                                                         *)
(* A publisher holds the read lock of the hub while it waits for the       *)
(* subscribers; subscribing and unsubscribing take the write lock.  As     *)
(* with Go's sync.RWMutex, a writer that waits keeps new readers out.      *)
(***************************************************************************)
EXTENDS Naturals, Sequences

CONSTANTS
  Pubs,            \* calls of Publish, each with its message
  Subs,            \* calls of Subscribe
  bufferSize       \* buffer of a subscription's channel

ASSUME ConstantsAssumption == bufferSize \in Nat

VARIABLES
  closeCh,         \* the hub was closed
  closer,          \* the progress of Close
  topic,           \* the registered subscriptions
  sub,             \* the progress of every subscription
  cancelled,       \* subscriptions whose context is done
  channel,         \* messages put into each channel and not processed yet
  open,            \* subscriptions whose channel is open
  pub,             \* the progress of every Publish
  left,            \* subscribers each Publish still waits for
  expired,         \* publishers whose context is done
  received,        \* history: the messages each consumer took, in order
  after            \* history: publishers that were done when each one began

vars == <<closeCh, closer, topic, sub, cancelled, channel, open, pub, left, expired, received, after>>

subVars == <<topic, sub, cancelled, open>>
pubVars == <<pub, left, expired, after>>

Init ==
  /\ closeCh = FALSE
  /\ closer = "idle"
  /\ topic = {}
  /\ sub = [s \in Subs |-> "new"]
  /\ cancelled = {}
  /\ channel = [s \in Subs |-> <<>>]
  /\ open = {}
  /\ pub = [p \in Pubs |-> "new"]
  /\ left = [p \in Pubs |-> {}]
  /\ expired = {}
  /\ received = [s \in Subs |-> <<>>]
  /\ after = [p \in Pubs |-> {}]

-----------------------------------------------------------------------------
(* The lock.                                                               *)
Readers == {p \in Pubs : pub[p] = "sending"}
WritersWaiting == {s \in Subs : sub[s] \in {"joining", "leaving"}}

(* Fault: the write lock does not wait for readers.                        *)
CanWrite_Always == TRUE

CanRead == WritersWaiting = {}
CanWrite == Readers = {}

-----------------------------------------------------------------------------
(* Publish: refused when the hub is closed ...                             *)
Begin(p) ==
  /\ pub[p] = "new"
  /\ pub' = [pub EXCEPT ![p] = IF closeCh THEN "done" ELSE "entering"]
  /\ after' = [after EXCEPT ![p] = {q \in Pubs : pub[q] = "done"}]
  /\ UNCHANGED <<closeCh, closer, subVars, channel, left, expired, received>>

(* ... else, with the read lock, one goroutine is started for each         *)
(* subscriber of the moment ...                                            *)
Enter(p) ==
  /\ pub[p] = "entering"
  /\ CanRead
  /\ pub' = [pub EXCEPT ![p] = "sending"]
  /\ left' = [left EXCEPT ![p] = topic]
  /\ UNCHANGED <<closeCh, closer, subVars, channel, expired, received, after>>

(* ... which puts the message into the channel when there is room: the     *)
(* buffer and what the consumer is working on.                             *)
Deliver(p, s) ==
  /\ s \in left[p]
  /\ Len(channel[s]) <= bufferSize
  /\ channel' = [channel EXCEPT ![s] = Append(@, p)]
  /\ left' = [left EXCEPT ![p] = @ \ {s}]
  /\ UNCHANGED <<closeCh, closer, subVars, pub, expired, received, after>>

(* Fault: the publisher's own context is not watched.                      *)
Skip_NoContext(p, s) ==
  /\ s \in left[p]
  /\ closeCh \/ s \in cancelled
  /\ left' = [left EXCEPT ![p] = @ \ {s}]
  /\ UNCHANGED <<closeCh, closer, subVars, channel, pub, expired, received, after>>

(* ... or stops waiting.                                                   *)
Skip(p, s) ==
  /\ s \in left[p]
  /\ p \in expired \/ closeCh \/ s \in cancelled
  /\ left' = [left EXCEPT ![p] = @ \ {s}]
  /\ UNCHANGED <<closeCh, closer, subVars, channel, pub, expired, received, after>>

(* Fault: Publish does not wait for its goroutines.                        *)
End_Early(p) ==
  /\ pub[p] = "sending"
  /\ pub' = [pub EXCEPT ![p] = "done"]
  /\ UNCHANGED <<closeCh, closer, subVars, channel, left, expired, received, after>>

(* When all of them ended, Publish returns and gives the lock back.        *)
End(p) ==
  /\ pub[p] = "sending"
  /\ left[p] = {}
  /\ pub' = [pub EXCEPT ![p] = "done"]
  /\ UNCHANGED <<closeCh, closer, subVars, channel, left, expired, received, after>>

(* The publisher's context is cancelled or runs out of time.               *)
Expire(p) ==
  /\ p \notin expired
  /\ pub[p] \in {"entering", "sending"}
  /\ expired' = expired \cup {p}
  /\ UNCHANGED <<closeCh, closer, subVars, channel, pub, left, received, after>>

-----------------------------------------------------------------------------
(* Subscribe: refused when the hub is closed ...                           *)
SubscribeBegin(s) ==
  /\ sub[s] = "new"
  /\ sub' = [sub EXCEPT ![s] = IF closeCh THEN "gone" ELSE "joining"]
  /\ UNCHANGED <<closeCh, closer, topic, cancelled, channel, open, pubVars, received>>

(* ... else the subscription is registered and its goroutine started.      *)
Subscribe(s) ==
  /\ sub[s] = "joining"
  /\ CanWrite
  /\ topic' = topic \cup {s}
  /\ open' = open \cup {s}
  /\ sub' = [sub EXCEPT ![s] = "live"]
  /\ UNCHANGED <<closeCh, closer, cancelled, channel, pubVars, received>>

(* The consumer closes the subscription, or its context is done.           *)
Cancel(s) ==
  /\ sub[s] = "live"
  /\ s \notin cancelled
  /\ cancelled' = cancelled \cup {s}
  /\ UNCHANGED <<closeCh, closer, topic, sub, channel, open, pubVars, received>>

(* Fault: the goroutine waits for the closing only.                        *)
Wake_CloseOnly(s) ==
  /\ sub[s] = "live"
  /\ closeCh
  /\ cancelled' = cancelled \cup {s}
  /\ sub' = [sub EXCEPT ![s] = "leaving"]
  /\ UNCHANGED <<closeCh, closer, topic, channel, open, pubVars, received>>

(* The goroutine wakes up and cancels the context ...                      *)
Wake(s) ==
  /\ sub[s] = "live"
  /\ s \in cancelled \/ closeCh
  /\ cancelled' = cancelled \cup {s}
  /\ sub' = [sub EXCEPT ![s] = "leaving"]
  /\ UNCHANGED <<closeCh, closer, topic, channel, open, pubVars, received>>

(* ... removes the subscription ...                                        *)
Unsubscribe(s) ==
  /\ sub[s] = "leaving"
  /\ CanWrite
  /\ topic' = topic \ {s}
  /\ sub' = [sub EXCEPT ![s] = "removed"]
  /\ UNCHANGED <<closeCh, closer, cancelled, channel, open, pubVars, received>>

(* ... and closes the channel.                                             *)
CloseChannel(s) ==
  /\ sub[s] = "removed"
  /\ open' = open \ {s}
  /\ sub' = [sub EXCEPT ![s] = "gone"]
  /\ UNCHANGED <<closeCh, closer, topic, cancelled, channel, pubVars, received>>

(* The consumer is done with a message; a closed channel still gives what  *)
(* it holds.                                                               *)
Consume(s) ==
  /\ channel[s] # <<>>
  /\ received' = [received EXCEPT ![s] = Append(@, Head(channel[s]))]
  /\ channel' = [channel EXCEPT ![s] = Tail(@)]
  /\ UNCHANGED <<closeCh, closer, subVars, pubVars>>

-----------------------------------------------------------------------------
(* Close wakes everybody up and waits for the goroutines of subscriptions. *)
Close ==
  /\ closer = "idle"
  /\ closeCh' = TRUE
  /\ closer' = "waiting"
  /\ UNCHANGED <<subVars, channel, pubVars, received>>

Closed ==
  /\ closer = "waiting"
  /\ \A s \in Subs : sub[s] \notin {"live", "leaving", "removed"}
  /\ closer' = "done"
  /\ UNCHANGED <<closeCh, subVars, channel, pubVars, received>>

-----------------------------------------------------------------------------
PublishStep(p) == Enter(p) \/ End(p) \/ \E s \in Subs : Deliver(p, s) \/ Skip(p, s)
SubscribeStep(s) == Subscribe(s) \/ Wake(s) \/ Unsubscribe(s) \/ CloseChannel(s)

Next ==
  \/ \E p \in Pubs : Begin(p) \/ PublishStep(p) \/ Expire(p)
  \/ \E s \in Subs : SubscribeBegin(s) \/ SubscribeStep(s) \/ Cancel(s) \/ Consume(s)
  \/ Close \/ Closed

Spec == Init /\ [][Next]_vars

(* Goroutines that can go on do, and contexts run out of time; nobody has  *)
(* to publish, subscribe, cancel, close, or read a channel.                *)
FairSpec ==
  /\ Spec
  /\ \A p \in Pubs : WF_vars(PublishStep(p)) /\ WF_vars(Expire(p))
  /\ \A s \in Subs : WF_vars(SubscribeStep(s))
  /\ WF_vars(Closed)

-----------------------------------------------------------------------------
(* Properties.                                                             *)

(* Every variable keeps to its type, and channels to their size.           *)
TypeOK ==
  /\ closeCh \in BOOLEAN
  /\ closer \in {"idle", "waiting", "done"}
  /\ topic \subseteq Subs
  /\ sub \in [Subs -> {"new", "joining", "live", "leaving", "removed", "gone"}]
  /\ cancelled \subseteq Subs
  /\ channel \in [Subs -> Seq(Pubs)]
  /\ \A s \in Subs : Len(channel[s]) <= bufferSize + 1
  /\ open \subseteq Subs
  /\ pub \in [Pubs -> {"new", "entering", "sending", "done"}]
  /\ left \in [Pubs -> SUBSET Subs]
  /\ expired \subseteq Pubs
  /\ received \in [Subs -> Seq(Pubs)]
  /\ after \in [Pubs -> SUBSET Pubs]

(* No publisher ever has a closed channel to send to, which would panic,   *)
(* however cancelling, closing and publishing interleave.                  *)
NoSendOnClosed == \A p \in Pubs : left[p] \subseteq open

(* What makes it inductive: publishers wait only while they hold the lock, *)
(* for subscribers that are registered, and those have open channels.      *)
LockProtects ==
  /\ \A p \in Pubs : left[p] # {} => p \in Readers
  /\ \A p \in Pubs : left[p] \subseteq topic
  /\ topic = {s \in Subs : sub[s] \in {"live", "leaving"}}
  /\ open = {s \in Subs : sub[s] \in {"live", "leaving", "removed"}}

(* A consumer that gets two messages of which one was published when the   *)
(* other's Publish had returned gets them in that order, and none twice.   *)
Delivered(s) == received[s] \o channel[s]

OrderKept ==
  \A s \in Subs : \A i, j \in DOMAIN Delivered(s) :
    i < j => /\ Delivered(s)[i] # Delivered(s)[j]
             /\ Delivered(s)[j] \notin after[Delivered(s)[i]]

(* A cancelled subscription's channel is closed in the end, as Subscribe   *)
(* promises, even while publishers hold the lock.                          *)
ChannelCloses == \A s \in Subs : (s \in cancelled) ~> (s \notin open)

(* Close returns, whatever publishers and consumers do.                    *)
CloseReturns == (closer = "waiting") ~> (closer = "done")

(* A Publish whose context is done returns, as its comment says, although  *)
(* it waits for the read lock without looking at its context: whoever      *)
(* keeps it waiting has a deadline too (events.Service gives every Publish *)
(* one, see FairSpec).                                                     *)
CancelEndsPublish == \A p \in Pubs : (p \in expired) ~> (pub[p] = "done")
=============================================================================
