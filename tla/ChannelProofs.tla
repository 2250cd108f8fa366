---------------------------- MODULE ChannelProofs ----------------------------
(***************************************************************************)
(* Proofs about the two components that hand messages out over channels.   *)
(*                                                                         *)
(* The publish/subscribe hub, for any number of publishers and subscribers *)
(* and any buffer size: LockProtects is inductive, and a publisher         *)
(* therefore never sends to a channel that was closed; Ordered is          *)
(* inductive with it, and messages therefore keep their order.             *)
(*                                                                         *)
(* The server-sent-events service, for any number of devices and           *)
(* connections: the inductive invariant Kept relates where a connection is *)
(* registered to how far its goroutine is: a connection is registered from *)
(* registerConnection until either removeConnection or Close, whichever    *)
(* comes first, and that one closes its signal.  A second one, Flow, keeps *)
(* the order of events from the sender to the stream.                      *)
(***************************************************************************)
EXTENDS PubSub, Sse, SequenceTheorems, TLAPS

-----------------------------------------------------------------------------
(* The hub.                                                                *)

(* The inductive invariant: what LockProtects says, and the types it uses. *)
Guarded ==
  /\ sub \in [Subs -> {"new", "joining", "live", "leaving", "removed", "gone"}]
  /\ pub \in [Pubs -> {"new", "entering", "sending", "done"}]
  /\ left \in [Pubs -> SUBSET Subs]
  /\ LockProtects

LEMMA GuardedInit == Init => Guarded
BY DEF Init, Guarded, LockProtects

LEMMA GuardedStep == Guarded /\ [Next]_vars => Guarded'
<1> SUFFICES ASSUME Guarded, [Next]_vars
             PROVE  Guarded'
  OBVIOUS
<1> USE DEF Guarded, LockProtects, Readers, subVars, pubVars
<1>1. ASSUME NEW p \in Pubs, Begin(p)
      PROVE  Guarded'
  BY <1>1 DEF Begin
<1>2. ASSUME NEW p \in Pubs, Enter(p)
      PROVE  Guarded'
  BY <1>2 DEF Enter
<1>3. ASSUME NEW p \in Pubs, End(p)
      PROVE  Guarded'
  BY <1>3 DEF End
<1>4. ASSUME NEW p \in Pubs, NEW s \in Subs, Deliver(p, s)
      PROVE  Guarded'
  BY <1>4 DEF Deliver
<1>5. ASSUME NEW p \in Pubs, NEW s \in Subs, Skip(p, s)
      PROVE  Guarded'
  BY <1>5 DEF Skip
<1>6. ASSUME NEW p \in Pubs, Expire(p)
      PROVE  Guarded'
  BY <1>6 DEF Expire
<1>7. ASSUME NEW s \in Subs, SubscribeBegin(s)
      PROVE  Guarded'
  BY <1>7 DEF SubscribeBegin
<1>8. ASSUME NEW s \in Subs, Subscribe(s)
      PROVE  Guarded'
  BY <1>8 DEF Subscribe
<1>9. ASSUME NEW s \in Subs, Cancel(s)
      PROVE  Guarded'
  BY <1>9 DEF Cancel
<1>10. ASSUME NEW s \in Subs, Wake(s)
       PROVE  Guarded'
  BY <1>10 DEF Wake
<1>11. ASSUME NEW s \in Subs, Unsubscribe(s)
       PROVE  Guarded'
  (* The write lock is free, so no publisher waits for anybody.            *)
  <2>1. \A p \in Pubs : left[p] = {}
    BY <1>11 DEF Unsubscribe, CanWrite
  <2> QED
    BY <1>11, <2>1 DEF Unsubscribe
<1>12. ASSUME NEW s \in Subs, CloseChannel(s)
       PROVE  Guarded'
  BY <1>12 DEF CloseChannel
<1>13. ASSUME NEW s \in Subs, Consume(s)
       PROVE  Guarded'
  BY <1>13 DEF Consume
<1>14. CASE Close \/ Closed \/ UNCHANGED vars
  BY <1>14 DEF Close, Closed, vars
<1> QED
  BY <1>1, <1>2, <1>3, <1>4, <1>5, <1>6, <1>7, <1>8, <1>9, <1>10, <1>11, <1>12, <1>13, <1>14
     DEF Next, PublishStep, SubscribeStep

(* Publishers wait only while they hold the read lock, and only for        *)
(* registered subscriptions, whose channels are open.                      *)
THEOREM LockProtectsAlways == Spec => []LockProtects
<1>1. Guarded => LockProtects
  BY DEF Guarded
<1> QED
  BY <1>1, GuardedInit, GuardedStep, PTL DEF Spec

(* No publisher ever has a closed channel to send to: the hub cannot panic *)
(* however publishing, cancelling and closing interleave.                  *)
THEOREM NoSendOnClosedAlways == Spec => []NoSendOnClosed
<1>1. Guarded => NoSendOnClosed
  BY DEF Guarded, LockProtects, NoSendOnClosed
<1> QED
  BY <1>1, GuardedInit, GuardedStep, PTL DEF Spec

-----------------------------------------------------------------------------
(* The order of messages.  What a subscription got or will get was sent by *)
(* publishers that do not wait for it any more, and a publisher that had   *)
(* returned when another began is done.                                    *)
Sorted(d) ==
  \A i, j \in DOMAIN d : i < j => d[i] # d[j] /\ d[j] \notin after[d[i]]

SentBefore(s, d) ==
  \A i \in DOMAIN d : pub[d[i]] \in {"sending", "done"} /\ s \notin left[d[i]]

Ordered ==
  /\ channel \in [Subs -> Seq(Pubs)]
  /\ received \in [Subs -> Seq(Pubs)]
  /\ after \in [Pubs -> SUBSET Pubs]
  /\ \A p \in Pubs : \A q \in after[p] : pub[q] = "done"
  /\ \A s \in Subs : Sorted(Delivered(s)) /\ SentBefore(s, Delivered(s))

(* A consumer that takes a message does not change what was delivered.     *)
LEMMA TakeKeeps ==
  ASSUME NEW w \in Seq(Pubs), NEW ch \in Seq(Pubs), ch # <<>>
  PROVE  Append(w, Head(ch)) \o Tail(ch) = w \o ch
<1> DEFINE v == Append(w, Head(ch))
           t == Tail(ch)
<1>1. /\ v \in Seq(Pubs) /\ t \in Seq(Pubs)
      /\ Len(v) = Len(w) + 1 /\ Len(t) = Len(ch) - 1
      /\ Len(w) \in Nat /\ Len(ch) \in Nat
  BY HeadTailProperties
<1>2. /\ \A i \in 1 .. Len(w) : v[i] = w[i]
      /\ v[Len(w) + 1] = ch[1]
      /\ \A i \in 1 .. Len(t) : t[i] = ch[i + 1]
  BY HeadTailProperties
<1>3. /\ v \o t \in Seq(Pubs) /\ Len(v \o t) = Len(v) + Len(t)
      /\ \A i \in 1 .. Len(v) + Len(t) : (v \o t)[i] = IF i <= Len(v) THEN v[i] ELSE t[i - Len(v)]
  BY <1>1, ConcatProperties
<1>4. /\ w \o ch \in Seq(Pubs) /\ Len(w \o ch) = Len(w) + Len(ch)
      /\ \A i \in 1 .. Len(w) + Len(ch) : (w \o ch)[i] = IF i <= Len(w) THEN w[i] ELSE ch[i - Len(w)]
  BY ConcatProperties
<1> HIDE DEF v, t
<1>5. ASSUME NEW i \in 1 .. Len(w) + Len(ch)
      PROVE  (v \o t)[i] = (w \o ch)[i]
  <2>1. CASE i <= Len(w)
    BY <1>1, <1>2, <1>3, <1>4, <2>1
  <2>2. CASE i = Len(w) + 1
    BY <1>1, <1>2, <1>3, <1>4, <2>2
  <2>3. CASE i > Len(w) + 1
    <3>1. (v \o t)[i] = t[i - Len(v)] /\ i - Len(v) \in 1 .. Len(t)
      BY <1>1, <1>3, <2>3
    <3>2. t[i - Len(v)] = ch[i - Len(v) + 1] /\ i - Len(v) + 1 = i - Len(w)
      BY <1>1, <1>2, <3>1
    <3>3. (w \o ch)[i] = ch[i - Len(w)]
      BY <1>1, <1>4, <2>3
    <3> QED
      BY <3>1, <3>2, <3>3
  <2> QED
    BY <1>1, <2>1, <2>2, <2>3
<1>6. v \o t = w \o ch
  <2>1. Len(v \o t) = Len(w) + Len(ch) /\ Len(w \o ch) = Len(w) + Len(ch)
    BY <1>1, <1>3, <1>4
  <2>2. \A i \in 1 .. Len(v \o t) : (v \o t)[i] = (w \o ch)[i]
    BY <1>5, <2>1
  <2> QED
    BY <1>3, <1>4, <2>1, <2>2, SeqEqual
<1> QED
  BY <1>6 DEF v, t

(* A message that is put into a channel comes last.                        *)
LEMMA PutLast ==
  ASSUME NEW w \in Seq(Pubs), NEW ch \in Seq(Pubs), NEW p \in Pubs
  PROVE  w \o Append(ch, p) = Append(w \o ch, p)
<1> DEFINE c == Append(ch, p)
           d == w \o ch
<1>1. /\ c \in Seq(Pubs) /\ Len(c) = Len(ch) + 1
      /\ Len(w) \in Nat /\ Len(ch) \in Nat
      /\ \A i \in 1 .. Len(ch) : c[i] = ch[i]
      /\ c[Len(ch) + 1] = p
  OBVIOUS
<1>2. /\ d \in Seq(Pubs) /\ Len(d) = Len(w) + Len(ch)
      /\ \A i \in 1 .. Len(w) + Len(ch) : d[i] = IF i <= Len(w) THEN w[i] ELSE ch[i - Len(w)]
  BY ConcatProperties
<1>3. /\ w \o c \in Seq(Pubs) /\ Len(w \o c) = Len(w) + Len(c)
      /\ \A i \in 1 .. Len(w) + Len(c) : (w \o c)[i] = IF i <= Len(w) THEN w[i] ELSE c[i - Len(w)]
  BY <1>1, ConcatProperties
<1> HIDE DEF c, d
<1>4. /\ Append(d, p) \in Seq(Pubs) /\ Len(Append(d, p)) = Len(d) + 1
      /\ \A i \in 1 .. Len(d) : Append(d, p)[i] = d[i]
      /\ Append(d, p)[Len(d) + 1] = p
  <2>1. d \in Seq(Pubs)
    BY <1>2
  <2> QED
    BY <2>1
<1>5. ASSUME NEW i \in 1 .. Len(w) + Len(c)
      PROVE  (w \o c)[i] = Append(d, p)[i]
  <2>1. CASE i <= Len(w)
    BY <1>1, <1>2, <1>3, <1>4, <2>1
  <2>2. CASE i > Len(w) /\ i <= Len(d)
    <3>1. (w \o c)[i] = c[i - Len(w)] /\ i - Len(w) \in 1 .. Len(ch)
      BY <1>1, <1>2, <1>3, <2>2
    <3>2. Append(d, p)[i] = ch[i - Len(w)]
      BY <1>1, <1>2, <1>4, <2>2
    <3> QED
      BY <1>1, <3>1, <3>2
  <2>3. CASE i = Len(d) + 1
    <3>1. i - Len(w) = Len(ch) + 1 /\ ~(i <= Len(w))
      BY <1>1, <1>2, <2>3
    <3>2. (w \o c)[i] = c[Len(ch) + 1]
      BY <1>3, <3>1
    <3> QED
      BY <1>1, <1>4, <2>3, <3>2
  <2>4. i \in Nat /\ Len(d) \in Nat /\ i <= Len(d) + 1 /\ Len(w) \in Nat
    BY <1>1, <1>2
  <2>5. i <= Len(w) \/ (i > Len(w) /\ i <= Len(d)) \/ i = Len(d) + 1
    BY <2>4
  <2> QED
    BY <2>1, <2>2, <2>3, <2>5
<1>6. w \o c = Append(d, p)
  <2>1. Len(w \o c) = Len(w) + Len(c) /\ Len(Append(d, p)) = Len(w) + Len(c)
    BY <1>1, <1>2, <1>3, <1>4
  <2>2. \A i \in 1 .. Len(w \o c) : (w \o c)[i] = Append(d, p)[i]
    BY <1>5, <2>1
  <2> QED
    BY <1>3, <1>4, <2>1, <2>2, SeqEqual
<1> QED
  BY <1>6 DEF c, d

LEMMA OrderedInit == Init => Ordered
BY DEF Init, Ordered, Delivered, Sorted, SentBefore

LEMMA DeliveredSeq ==
  ASSUME Ordered
  PROVE  \A s \in Subs : Delivered(s) \in Seq(Pubs)
BY DEF Ordered, Delivered

(* Steps that deliver nothing and leave the publishers' state, but for     *)
(* waiting for fewer subscriptions and returning.                          *)
LEMMA QuietSteps ==
  ASSUME Guarded, Ordered, UNCHANGED <<channel, received, after>>, 
         \A p \in Pubs : pub'[p] = pub[p] \/ (pub[p] = "sending" /\ pub'[p] = "done"),
         \A p \in Pubs : left'[p] \subseteq left[p]
  PROVE  Ordered'
<1>1. \A s \in Subs : Delivered(s)' = Delivered(s) /\ Delivered(s) \in Seq(Pubs)
  BY DeliveredSeq DEF Delivered
<1>2. ASSUME NEW s \in Subs
      PROVE  Sorted(Delivered(s))' /\ SentBefore(s, Delivered(s))'
  <2> DEFINE d == Delivered(s)
  <2>1. d \in Seq(Pubs) /\ Sorted(d) /\ SentBefore(s, d)
    BY <1>1 DEF Ordered
  <2>2. d' = d
    BY <1>1
  <2> HIDE DEF d
  <2>3. Sorted(d)' /\ SentBefore(s, d)'
    BY <2>1, <2>2 DEF Sorted, SentBefore
  <2> QED
    BY <2>3 DEF d
<1>3. \A p \in Pubs : \A q \in after'[p] : pub'[q] = "done"
  BY DEF Ordered
<1> QED
  BY <1>2, <1>3 DEF Ordered

LEMMA OrderedStep == Guarded /\ Ordered /\ [Next]_vars => Ordered'
<1> SUFFICES ASSUME Guarded, Ordered, [Next]_vars
             PROVE  Ordered'
  OBVIOUS
<1> USE DEF subVars, pubVars
<1>0. \A s \in Subs : /\ Delivered(s) \in Seq(Pubs) /\ Sorted(Delivered(s))
                       /\ SentBefore(s, Delivered(s))
  BY DeliveredSeq DEF Ordered
<1>1. ASSUME NEW p \in Pubs, Begin(p)
      PROVE  Ordered'
  <2>1. \A s \in Subs : Delivered(s)' = Delivered(s)
    BY <1>1 DEF Begin, Delivered
  <2>2. /\ \A x \in Pubs \ {p} : pub'[x] = pub[x] /\ after'[x] = after[x]
        /\ pub[p] = "new" /\ left' = left
        /\ after'[p] = {q \in Pubs : pub[q] = "done"}
        /\ after' \in [Pubs -> SUBSET Pubs]
    BY <1>1 DEF Begin, Guarded, Ordered
  <2>3. ASSUME NEW s \in Subs
        PROVE  Sorted(Delivered(s))' /\ SentBefore(s, Delivered(s))'
    <3> DEFINE d == Delivered(s)
    <3>1. d' = d /\ d \in Seq(Pubs) /\ Sorted(d) /\ SentBefore(s, d)
      BY <1>0, <2>1
    <3> HIDE DEF d
    <3>2. \A i \in DOMAIN d : d[i] \in Pubs \ {p}
      BY <2>2, <3>1 DEF SentBefore
    <3>3. Sorted(d)' /\ SentBefore(s, d)'
      BY <2>2, <3>1, <3>2 DEF Sorted, SentBefore
    <3> QED
      BY <3>3 DEF d
  <2>4. \A x \in Pubs : \A q \in after'[x] : pub'[q] = "done"
    BY <2>2 DEF Ordered
  <2> QED
    BY <1>1, <2>2, <2>3, <2>4 DEF Begin, Ordered
<1>2. ASSUME NEW p \in Pubs, Enter(p)
      PROVE  Ordered'
  <2>1. \A s \in Subs : Delivered(s)' = Delivered(s)
    BY <1>2 DEF Enter, Delivered
  <2>2. /\ \A x \in Pubs \ {p} : pub'[x] = pub[x] /\ left'[x] = left[x]
        /\ pub[p] = "entering" /\ UNCHANGED <<after, channel, received>>
    BY <1>2 DEF Enter, Guarded
  <2>3. ASSUME NEW s \in Subs
        PROVE  Sorted(Delivered(s))' /\ SentBefore(s, Delivered(s))'
    <3> DEFINE d == Delivered(s)
    <3>1. d' = d /\ d \in Seq(Pubs) /\ Sorted(d) /\ SentBefore(s, d)
      BY <1>0, <2>1
    <3> HIDE DEF d
    <3>2. \A i \in DOMAIN d : d[i] \in Pubs \ {p}
      BY <2>2, <3>1 DEF SentBefore
    <3>3. Sorted(d)' /\ SentBefore(s, d)'
      BY <2>2, <3>1, <3>2 DEF Sorted, SentBefore
    <3> QED
      BY <3>3 DEF d
  <2>4. \A x \in Pubs : \A q \in after'[x] : pub'[q] = "done"
    BY <2>2 DEF Ordered
  <2> QED
    BY <2>2, <2>3, <2>4 DEF Ordered
<1>3. ASSUME NEW p \in Pubs, NEW s \in Subs, Deliver(p, s)
      PROVE  Ordered'
  <2> DEFINE d == Delivered(s)
  <2>1. pub[p] = "sending" /\ s \in left[p]
    BY <1>3 DEF Deliver, Guarded, LockProtects, Readers
  <2>2. /\ UNCHANGED <<pub, after, received>>
        /\ channel' = [channel EXCEPT ![s] = Append(channel[s], p)]
        /\ \A x \in Pubs : left'[x] \subseteq left[x]
        /\ left'[p] = left[p] \ {s}
    BY <1>3 DEF Deliver, Guarded
  <2>3. d' = Append(d, p)
    BY <2>2, PutLast DEF Delivered, Ordered
  <2>4. \A x \in Subs \ {s} : Delivered(x)' = Delivered(x)
    BY <2>2 DEF Delivered, Ordered
  <2>5. d \in Seq(Pubs) /\ Sorted(d) /\ SentBefore(s, d)
    BY <1>0
  <2>6. \A i \in DOMAIN d : d[i] # p /\ p \notin after[d[i]]
    BY <2>1, <2>5 DEF SentBefore, Ordered
  <2>7. Sorted(d)' /\ SentBefore(s, d)'
    <3> HIDE DEF d
    <3>1. Sorted(d)'
      BY <2>2, <2>3, <2>5, <2>6 DEF Sorted
    <3>2. SentBefore(s, d)'
      BY <2>1, <2>2, <2>3, <2>5 DEF SentBefore
    <3> QED
      BY <3>1, <3>2
  <2>8. ASSUME NEW x \in Subs \ {s}
        PROVE  Sorted(Delivered(x))' /\ SentBefore(x, Delivered(x))'
    <3> DEFINE e == Delivered(x)
    <3>1. e' = e /\ e \in Seq(Pubs) /\ Sorted(e) /\ SentBefore(x, e)
      BY <1>0, <2>4
    <3> HIDE DEF e
    <3>2. Sorted(e)' /\ SentBefore(x, e)'
      BY <2>2, <3>1 DEF Sorted, SentBefore
    <3> QED
      BY <3>2 DEF e
  <2>9. channel' \in [Subs -> Seq(Pubs)]
    BY <2>2 DEF Ordered
  <2> QED
    BY <2>2, <2>7, <2>8, <2>9 DEF Ordered
<1>4. ASSUME NEW s \in Subs, Consume(s)
      PROVE  Ordered'
  <2>1. /\ channel[s] # <<>> /\ UNCHANGED <<pub, left, after>>
        /\ received' = [received EXCEPT ![s] = Append(received[s], Head(channel[s]))]
        /\ channel' = [channel EXCEPT ![s] = Tail(channel[s])]
    BY <1>4 DEF Consume
  <2>2. channel' \in [Subs -> Seq(Pubs)] /\ received' \in [Subs -> Seq(Pubs)]
    BY <2>1 DEF Ordered
  <2>3. \A x \in Subs : Delivered(x)' = Delivered(x)
    BY <2>1, TakeKeeps DEF Ordered, Delivered
  <2>4. ASSUME NEW x \in Subs
        PROVE  Sorted(Delivered(x))' /\ SentBefore(x, Delivered(x))'
    <3> DEFINE e == Delivered(x)
    <3>1. e' = e /\ e \in Seq(Pubs) /\ Sorted(e) /\ SentBefore(x, e)
      BY <1>0, <2>3
    <3> HIDE DEF e
    <3>2. Sorted(e)' /\ SentBefore(x, e)'
      BY <2>1, <3>1 DEF Sorted, SentBefore
    <3> QED
      BY <3>2 DEF e
  <2> QED
    BY <2>1, <2>2, <2>4 DEF Ordered
<1>5. ASSUME NEW p \in Pubs, End(p)
      PROVE  Ordered'
  BY <1>5, QuietSteps DEF End, Guarded
<1>6. ASSUME NEW p \in Pubs, NEW s \in Subs, Skip(p, s)
      PROVE  Ordered'
  BY <1>6, QuietSteps DEF Skip, Guarded
<1>7. ASSUME NEW p \in Pubs, Expire(p)
      PROVE  Ordered'
  BY <1>7, QuietSteps DEF Expire
<1>8. ASSUME NEW s \in Subs, SubscribeBegin(s) \/ SubscribeStep(s) \/ Cancel(s)
      PROVE  Ordered'
  BY <1>8, QuietSteps
  DEF SubscribeBegin, SubscribeStep, Subscribe, Wake, Unsubscribe, CloseChannel, Cancel
<1>9. CASE Close \/ Closed \/ UNCHANGED vars
  BY <1>9, QuietSteps DEF Close, Closed, vars
<1> QED
  BY <1>1, <1>2, <1>3, <1>4, <1>5, <1>6, <1>7, <1>8, <1>9 DEF Next, PublishStep

(* A consumer gets the message of a Publish that had returned before that  *)
(* of one that began afterwards, and none twice, for any number of         *)
(* publishers and subscriptions and any buffer.                            *)
THEOREM OrderKeptAlways == Spec => []OrderKept
<1>1. Ordered => OrderKept
  BY DEF Ordered, Sorted, OrderKept
<1> QED
  BY <1>1, OrderedInit, OrderedStep, GuardedInit, GuardedStep, PTL DEF Spec

-----------------------------------------------------------------------------
(* The server-sent-events service.                                         *)

(* The inductive invariant.                                                *)
Kept ==
  /\ connections \in [Devices -> SUBSET Conns]
  /\ handler \in [Conns -> {"new", "run", "leave", "done"}]
  /\ device \in [Conns -> Devices]
  /\ closings \in [Conns -> Nat]
  /\ sender.todo \subseteq Conns
  /\ \A d \in Devices : \A c \in connections[d] : device[c] = d
  /\ \A c \in Conns :
       /\ closings[c] \in {0, 1}
       /\ handler[c] = "new" => closings[c] = 0
       /\ c \in connections[device[c]] <=> handler[c] \in {"run", "leave"} /\ closings[c] = 0
  /\ sender = [todo |-> sender.todo, busy |-> sender.busy]
  /\ sender.todo # {} => sender.busy
  /\ \A c \in sender.todo : c \in connections[device[c]]

(* A connection is registered where its device is.                         *)
LEMMA RegisteredAt ==
  ASSUME connections \in [Devices -> SUBSET Conns], device \in [Conns -> Devices],
         \A d \in Devices : \A c \in connections[d] : device[c] = d
  PROVE  \A c \in Conns : c \in Registered <=> c \in connections[device[c]]
BY DEF Registered

LEMMA KeptInit == SseInit => Kept
BY DEF SseInit, Kept, SenderIdle

LEMMA KeptStep == Kept /\ [SseNext]_sseVars => Kept'
<1> SUFFICES ASSUME Kept, [SseNext]_sseVars
             PROVE  Kept'
  OBVIOUS
<1> USE DEF Kept
<1>1. ASSUME NEW c \in Conns, registerConnection(c)
      PROVE  Kept'
  BY <1>1 DEF registerConnection
<1>2. ASSUME NEW c \in Conns, WriteEvent(c)
      PROVE  Kept'
  BY <1>2 DEF WriteEvent
<1>3. ASSUME NEW c \in Conns, KeepAliveFails(c) \/ Stop(c)
      PROVE  Kept'
  BY <1>3 DEF KeepAliveFails, Stop
<1>4. ASSUME NEW c \in Conns, removeConnection(c)
      PROVE  Kept'
  (* The lock is free, so no sender walks over the connection.             *)
  <2>1. sender.todo = {}
    BY <1>4 DEF removeConnection, Unlocked
  <2>2. CASE c \in connections[device[c]]
    BY <1>4, <2>1, <2>2 DEF removeConnection
  <2>3. CASE c \notin connections[device[c]]
    BY <1>4, <2>1, <2>3 DEF removeConnection
  <2> QED
    BY <2>2, <2>3
<1>5. CASE CloseService
  (* The registered connections, whose signals are open, are signalled.    *)
  <2>1. sender.todo = {}
    BY <1>5 DEF CloseService, Unlocked
  <2>2. \A c \in Conns : c \in Registered <=> c \in connections[device[c]]
    BY RegisteredAt
  <2> QED
    BY <1>5, <2>1, <2>2 DEF CloseService
<1>6. ASSUME NEW d \in Devices, Send(d)
      PROVE  Kept'
  BY <1>6 DEF Send
<1>7. ASSUME NEW c \in Conns, Offer(c)
      PROVE  Kept'
  BY <1>7 DEF Offer
<1>8. CASE Sent \/ UNCHANGED sseVars
  BY <1>8 DEF Sent, SenderIdle, sseVars
<1> QED
  BY <1>1, <1>2, <1>3, <1>4, <1>5, <1>6, <1>7, <1>8 DEF SseNext

(* However the end of a connection races with Close, its signal is closed  *)
(* at most once, and exactly when it is not registered any more.           *)
THEOREM SignalledOnceAlways == SseSpec => []SignalledOnce
<1>1. Kept => SignalledOnce
  BY RegisteredAt DEF Kept, SignalledOnce
<1> QED
  BY <1>1, KeptInit, KeptStep, PTL DEF SseSpec

(* Send never meets a connection that was told to stop.                    *)
THEOREM WalksRegisteredAlways == SseSpec => []WalksRegistered
<1>1. Kept => WalksRegistered
  BY RegisteredAt DEF Kept, WalksRegistered
<1> QED
  BY <1>1, KeptInit, KeptStep, PTL DEF SseSpec

-----------------------------------------------------------------------------
(* The order of events.  What a stream shows and its channel holds are in  *)
(* order, the channel after the stream, and all of it was sent; the event  *)
(* that is on offer is in no channel that it has yet to be offered to.     *)
Events == 1 .. MaxEvents

Typed ==
  /\ pending \in [Conns -> Seq(Events)]
  /\ written \in [Conns -> Seq(Events)]
  /\ sent \in 0 .. MaxEvents
  /\ sender.busy \in BOOLEAN

Rising(s) == \A i, j \in DOMAIN s : i < j => s[i] < s[j]

After(s, t) == \A i \in DOMAIN s : \A j \in DOMAIN t : s[i] < t[j]

Before(s, c) ==
  \A i \in DOMAIN s : s[i] <= sent /\ (c \in sender.todo => s[i] < sent)

Flow ==
  /\ Typed
  /\ \A c \in sender.todo : c \in Conns /\ sent > 0
  /\ \A c \in Conns :
       /\ Len(pending[c]) <= eventsBufferSize
       /\ Rising(written[c]) /\ Rising(pending[c])
       /\ After(written[c], pending[c])
       /\ Before(written[c], c) /\ Before(pending[c], c)

(* Taking the first of the events that wait keeps the order.               *)
LEMMA TakeFirst ==
  ASSUME NEW w \in Seq(Events), NEW ch \in Seq(Events), ch # <<>>,
         Rising(w), Rising(ch), After(w, ch)
  PROVE  /\ Rising(Append(w, Head(ch))) /\ Rising(Tail(ch))
         /\ After(w, Tail(ch)) /\ After(Append(w, Head(ch)), Tail(ch))
<1>1. /\ Len(Tail(ch)) = Len(ch) - 1
      /\ \A j \in 1 .. Len(ch) - 1 : Tail(ch)[j] = ch[j + 1]
      /\ Head(ch) = ch[1] /\ Len(ch) >= 1
      /\ Tail(ch) \in Seq(Events)
  OBVIOUS
<1>2. /\ Len(Append(w, Head(ch))) = Len(w) + 1
      /\ \A i \in 1 .. Len(w) : Append(w, Head(ch))[i] = w[i]
      /\ Append(w, Head(ch))[Len(w) + 1] = ch[1]
      /\ Append(w, Head(ch)) \in Seq(Events)
  BY <1>1
<1>3. Rising(Tail(ch)) /\ After(w, Tail(ch))
  BY <1>1 DEF Rising, After
<1>4. Rising(Append(w, Head(ch)))
  BY <1>1, <1>2 DEF Rising, After
<1>5. After(Append(w, Head(ch)), Tail(ch))
  BY <1>1, <1>2 DEF Rising, After
<1> QED
  BY <1>3, <1>4, <1>5

(* An event that is newer than all that wait goes behind them.             *)
LEMMA OfferLast ==
  ASSUME NEW w \in Seq(Events), NEW ch \in Seq(Events), NEW e \in Events,
         Rising(ch), After(w, ch),
         \A i \in DOMAIN w : w[i] < e, \A i \in DOMAIN ch : ch[i] < e
  PROVE  Rising(Append(ch, e)) /\ After(w, Append(ch, e))
BY DEF Rising, After

(* A stream in order, with what is in order after it, is in order.         *)
LEMMA ConcatRises ==
  ASSUME NEW w \in Seq(Events), NEW ch \in Seq(Events),
         Rising(w), Rising(ch), After(w, ch)
  PROVE  Rising(w \o ch)
<1> DEFINE s == w \o ch
<1>1. /\ s \in Seq(Events) /\ Len(s) = Len(w) + Len(ch)
      /\ \A i \in 1 .. Len(w) + Len(ch) : s[i] = IF i <= Len(w) THEN w[i] ELSE ch[i - Len(w)]
  BY ConcatProperties
<1>2. /\ Len(w) \in Nat /\ Len(ch) \in Nat
      /\ DOMAIN w = 1 .. Len(w) /\ DOMAIN ch = 1 .. Len(ch)
      /\ DOMAIN s = 1 .. Len(w) + Len(ch)
  BY <1>1
<1> HIDE DEF s
<1> SUFFICES ASSUME NEW i \in 1 .. Len(w) + Len(ch), NEW j \in 1 .. Len(w) + Len(ch), i < j
             PROVE  s[i] < s[j]
  BY <1>2 DEF Rising, s
<1>3. CASE j <= Len(w)
  <2>1. i \in DOMAIN w /\ j \in DOMAIN w
    BY <1>2, <1>3
  <2>2. s[i] = w[i] /\ s[j] = w[j]
    BY <1>1, <1>2, <1>3
  <2> QED
    BY <2>1, <2>2 DEF Rising
<1>4. CASE i <= Len(w) /\ j > Len(w)
  <2>1. i \in DOMAIN w /\ j - Len(w) \in DOMAIN ch
    BY <1>2, <1>4
  <2>2. s[i] = w[i] /\ s[j] = ch[j - Len(w)]
    BY <1>1, <1>2, <1>4
  <2>3. w[i] < ch[j - Len(w)]
    BY <2>1 DEF After
  <2> QED
    BY <2>2, <2>3
<1>5. CASE i > Len(w)
  <2>1. i - Len(w) \in DOMAIN ch /\ j - Len(w) \in DOMAIN ch /\ i - Len(w) < j - Len(w)
    BY <1>2, <1>5
  <2>2. s[i] = ch[i - Len(w)] /\ s[j] = ch[j - Len(w)]
    BY <1>1, <1>2, <1>5
  <2>3. ch[i - Len(w)] < ch[j - Len(w)]
    BY <2>1 DEF Rising
  <2> QED
    BY <2>2, <2>3
<1> QED
  BY <1>2, <1>3, <1>4, <1>5

LEMMA FlowInit == SseInit => Flow
BY SseAssumption
DEF SseInit, SenderIdle, Flow, Typed, Rising, After, Before

LEMMA FlowStep == Kept /\ Flow /\ [SseNext]_sseVars => Flow'
<1> SUFFICES ASSUME Kept, Flow, [SseNext]_sseVars
             PROVE  Flow'
  OBVIOUS
<1> USE SseAssumption DEF Typed
<1>1. ASSUME NEW c \in Conns, WriteEvent(c)
      PROVE  Flow'
  <2> DEFINE w == written[c]
             ch == pending[c]
  <2>1. w \in Seq(Events) /\ ch \in Seq(Events) /\ ch # <<>>
    BY <1>1 DEF Flow, WriteEvent
  <2>2. /\ Rising(w) /\ Rising(ch) /\ After(w, ch)
        /\ Before(w, c) /\ Before(ch, c) /\ Len(ch) <= eventsBufferSize
    BY DEF Flow
  <2>3. /\ Rising(Append(w, Head(ch))) /\ Rising(Tail(ch))
        /\ After(w, Tail(ch)) /\ After(Append(w, Head(ch)), Tail(ch))
    BY <2>1, <2>2, TakeFirst
  <2>4. Before(Tail(ch), c) /\ Before(Append(w, Head(ch)), c) /\ Len(Tail(ch)) <= eventsBufferSize
    BY <2>1, <2>2 DEF Before
  <2>5. Tail(ch) \in Seq(Events) /\ Append(w, Head(ch)) \in Seq(Events)
    BY <2>1
  <2>6. UNCHANGED <<sent, sender>>
    BY <1>1 DEF WriteEvent
  <2>7. pending' = [pending EXCEPT ![c] = Tail(ch)]
    BY <1>1 DEF WriteEvent
  <2>8. CASE written' = [written EXCEPT ![c] = Append(w, Head(ch))]
    BY <2>3, <2>4, <2>5, <2>6, <2>7, <2>8 DEF Flow, Before
  <2>9. CASE written' = written
    BY <2>2, <2>3, <2>4, <2>5, <2>6, <2>7, <2>9 DEF Flow, Before
  <2> QED
    BY <1>1, <2>8, <2>9 DEF WriteEvent, writeToStream
<1>2. ASSUME NEW d \in Devices, Send(d)
      PROVE  Flow'
  <2>1. UNCHANGED <<pending, written>> /\ sent' = sent + 1 /\ sent' \in 0 .. MaxEvents
    BY <1>2 DEF Send, Flow
  <2>2. \A c \in sender'.todo : c \in Conns
    BY <1>2 DEF Send, Kept
  <2>3. ASSUME NEW c \in Conns, NEW s \in Seq(Events), Before(s, c)
        PROVE  \A i \in DOMAIN s : s[i] <= sent' /\ s[i] < sent'
    BY <2>1, <2>3 DEF Before, Flow, Events
  <2>4. ASSUME NEW c \in Conns
        PROVE  Before(written[c], c)' /\ Before(pending[c], c)'
    <3>1. written[c] \in Seq(Events) /\ pending[c] \in Seq(Events)
      BY DEF Flow
    <3>2. Before(written[c], c) /\ Before(pending[c], c)
      BY DEF Flow
    <3> QED
      BY <2>1, <2>3, <3>1, <3>2 DEF Before
  <2>5. sent' > 0 /\ sender'.busy \in BOOLEAN
    BY <1>2, <2>1 DEF Send, Flow
  <2> QED
    BY <2>1, <2>2, <2>4, <2>5 DEF Flow, Rising, After
<1>3. ASSUME NEW c \in Conns, Offer(c)
      PROVE  Flow'
  <2> DEFINE ch == pending[c]
  <2>1. /\ UNCHANGED <<written, sent>> /\ c \in sender.todo
        /\ sender'.todo = sender.todo \ {c}
    BY <1>3 DEF Offer, Kept
  <2>5. sender'.busy \in BOOLEAN
    BY <1>3 DEF Offer, Kept, Flow
  <2>2. ASSUME NEW x \in Conns, NEW s \in Seq(Events), Before(s, x)
        PROVE  Before(s, x)'
    BY <2>1, <2>2 DEF Before
  <2>3. CASE pending' = pending
    BY <2>1, <2>2, <2>3, <2>5 DEF Flow
  <2>4. CASE pending' = [pending EXCEPT ![c] = Append(ch, sent)] /\ Len(ch) < eventsBufferSize
    <3>1. sent \in Events
      BY <2>1 DEF Flow, Events
    <3>2. ch \in Seq(Events) /\ written[c] \in Seq(Events)
      BY DEF Flow
    <3>3. Rising(Append(ch, sent)) /\ After(written[c], Append(ch, sent))
      BY <2>1, <3>1, <3>2, OfferLast DEF Flow, Before
    <3>4. \A i \in DOMAIN Append(ch, sent) : Append(ch, sent)[i] <= sent
      BY <2>1, <3>1, <3>2 DEF Flow, Before
    <3>5. Append(ch, sent) \in Seq(Events) /\ Len(Append(ch, sent)) <= eventsBufferSize
      BY <2>4, <3>1, <3>2
    <3>6. ASSUME NEW x \in Conns
          PROVE  /\ Rising(pending'[x]) /\ After(written[x], pending'[x])
                 /\ pending'[x] \in Seq(Events) /\ Len(pending'[x]) <= eventsBufferSize
                 /\ Before(written[x], x)' /\ Before(pending[x], x)'
      <4>1. CASE x = c
        <5>1. pending'[c] = Append(ch, sent)
          BY <2>4 DEF Flow
        <5>2. Before(pending[c], c)'
          BY <2>1, <3>4, <5>1 DEF Before
        <5> QED
          BY <2>1, <2>2, <3>2, <3>3, <3>5, <4>1, <5>1, <5>2 DEF Flow, Before
      <4>2. CASE x # c
        BY <2>1, <2>2, <2>4, <4>2 DEF Flow, Before
      <4> QED
        BY <4>1, <4>2
    <3> QED
      BY <2>1, <2>4, <2>5, <3>6 DEF Flow
  <2> QED
    BY <1>3, <2>3, <2>4 DEF Offer
<1>4. CASE Sent
  BY <1>4 DEF Sent, SenderIdle, Flow, Before, Rising, After
<1>5. CASE UNCHANGED <<pending, written, sent, sender>>
  BY <1>5 DEF Flow, Before, Rising, After
<1>6. ASSUME NEW c \in Conns,
             registerConnection(c) \/ KeepAliveFails(c) \/ Stop(c) \/ removeConnection(c)
      PROVE  UNCHANGED <<pending, written, sent, sender>>
  BY <1>6 DEF registerConnection, KeepAliveFails, Stop, removeConnection
<1> QED
  BY <1>1, <1>2, <1>3, <1>4, <1>5, <1>6 DEF SseNext, CloseService, sseVars

(* Every stream shows events in the order in which they were sent, and     *)
(* none twice, for any number of connections and any size of channels.     *)
THEOREM StreamInOrderAlways == SseSpec => []StreamInOrder
<1>1. Flow => StreamInOrder
  <2> SUFFICES ASSUME Flow, NEW c \in Conns,
                      NEW i \in DOMAIN (written[c] \o pending[c]),
                      NEW j \in DOMAIN (written[c] \o pending[c]), i < j
               PROVE  (written[c] \o pending[c])[i] < (written[c] \o pending[c])[j]
    BY DEF StreamInOrder
  <2>1. written[c] \in Seq(Events) /\ pending[c] \in Seq(Events)
    BY DEF Flow, Typed
  <2>2. Rising(written[c]) /\ Rising(pending[c]) /\ After(written[c], pending[c])
    BY DEF Flow
  <2> QED
    BY <2>1, <2>2, ConcatRises DEF Rising
<1> QED
  BY <1>1, FlowInit, FlowStep, KeptInit, KeptStep, PTL DEF SseSpec

(* Every variable keeps to its type, and channels to their size.           *)
THEOREM SseTypeCorrect == SseSpec => []SseTypeOK
<1>1. Kept /\ Flow => SseTypeOK
  BY DEF Kept, Flow, Typed, Events, SseTypeOK
<1> QED
  BY <1>1, FlowInit, FlowStep, KeptInit, KeptStep, PTL DEF SseSpec
=============================================================================
