----------------------------- MODULE PushProofs -----------------------------
(***************************************************************************)
(* Proofs about the push service, for any number of servers, callers and   *)
(* tokens, and any maxRetries.  The invariants of the runs rest on one     *)
(* more, Placed: every accepted event is in at most one place, the cache   *)
(* or the hands of one server.                                             *)
(***************************************************************************)
EXTENDS Push, TLAPS

(* What waits under a key was accepted for it; what a server holds was     *)
(* accepted, does not wait, and nobody else holds it, and that server has  *)
(* taken something out; what was not accepted yet was never sent.          *)
Placed ==
  /\ \A k \in Waiting : events[k].id \in Accepted /\ accepted[events[k].id] = k
  /\ \A s \in Servers : server[s].pc = "idle" => server[s].items = {}
  /\ \A s \in Servers : \A it \in server[s].items :
       /\ it.id \in Accepted
       /\ \A k \in Waiting : events[k].id # it.id
       /\ \A t \in Servers : \A jt \in server[t].items : it.id = jt.id => it = jt /\ s = t
  /\ \A s \in Servers : server[s].items # {} => s \in used
  /\ \A i \in Ids : i \notin Accepted => attempts[i] = 0

(* The inductive invariant.                                                *)
Sound == TypeOK /\ Placed /\ RetriesCountAttempts /\ BlacklistEarned

-----------------------------------------------------------------------------
(* Facts about keys and items.                                             *)

LEMMA SomeKey == Keys # {}
<1>1. PICK t \in Tokens, y \in Types : TRUE
  BY ConstantsAssumption
<1>2. <<t, y>> \in Tokens \X Types
  BY <1>1
<1> QED
  BY <1>2 DEF Keys

LEMMA TokenOfKey == \A k \in Keys : k[1] \in Tokens
BY DEF Keys

LEMMA Counters ==
  /\ maxRetries \in Nat \ {0}
  /\ MaxEvents \in Nat
  /\ Ids \subseteq Nat \ {0}
  /\ 0 \notin Ids
BY ConstantsAssumption DEF Ids

LEMMA ItemFields ==
  /\ \A it \in Item : it.id \in Ids /\ it.retries \in Nat /\ it.retries < maxRetries
  /\ \A it \in Item : it = [id |-> it.id, retries |-> it.retries]
  /\ \A i \in Ids, r \in Nat : r < maxRetries => [id |-> i, retries |-> r] \in Item
  /\ Nothing \notin Item
  /\ Nothing.id = 0 /\ Nothing.retries = 0
BY Counters DEF Item, Nothing

(* Under a key there is an item when its number is not 0.                  *)
LEMMA WaitingItem ==
  ASSUME TypeOK
  PROVE  /\ \A k \in Waiting : k \in Keys /\ events[k] \in Item
         /\ \A k \in Keys : k \in Waiting <=> events[k] # Nothing
         /\ \A k \in Keys : k \notin Waiting <=> events[k] = Nothing
BY ItemFields, Counters DEF TypeOK, Waiting

-----------------------------------------------------------------------------
LEMMA SoundInit == Init => Sound
<1> SUFFICES ASSUME Init PROVE Sound
  OBVIOUS
<1> USE DEF Init, Idle
<1>1. TypeOK
  BY SomeKey, Counters, ConstantsAssumption DEF TypeOK
<1>2. Waiting = {}
  BY ItemFields DEF Waiting
<1>3. Placed
  BY <1>2, Counters DEF Placed
<1>4. RetriesCountAttempts
  BY <1>2, Counters DEF RetriesCountAttempts
<1>5. BlacklistEarned
  BY DEF BlacklistEarned
<1> QED
  BY <1>1, <1>3, <1>4, <1>5 DEF Sound

(* The steps of Enqueue.                                                   *)

LEMMA CheckBlacklistSound ==
  ASSUME Sound, NEW c \in Callers, NEW k \in Keys, CheckBlacklist(c, k)
  PROVE  Sound'
<1> USE DEF CheckBlacklist, Sound
<1>1. TypeOK'
  BY DEF TypeOK
<1>2. Placed'
  BY DEF Placed, Waiting, Accepted
<1>3. RetriesCountAttempts'
  BY DEF RetriesCountAttempts, Waiting
<1>4. BlacklistEarned'
  BY DEF BlacklistEarned, Accepted
<1> QED
  BY <1>1, <1>2, <1>3, <1>4

(* An event that is put into the cache gets a new number, larger than all  *)
(* others, and waits under its key.                                        *)
LEMMA PutEffect ==
  ASSUME TypeOK, NEW c \in Callers, Put(c), ~UNCHANGED <<accepted, events, replacedBy>>
  PROVE  /\ UNCHANGED <<blacklist, server, attempts, settled, lost, used>>
         /\ caller' = [caller EXCEPT ![c].pc = "idle"]
         /\ \E m \in Keys, w \in Item :
              /\ w.retries = 0
              /\ Accepted' = Accepted \cup {w.id}
              /\ \A i \in Accepted : i \in Nat /\ i < w.id
              /\ accepted'[w.id] = m
              /\ \A i \in Accepted : accepted'[i] = accepted[i]
              /\ accepted' \in Seq(Keys)
              /\ Len(accepted') <= MaxEvents
              /\ Waiting' = Waiting \cup {m}
              /\ events' = [events EXCEPT ![m] = w]
              /\ events'[m] = w
              /\ \A j \in Keys \ {m} : events'[j] = events[j]
              /\ replacedBy' = IF m \in Waiting THEN [replacedBy EXCEPT ![events[m].id] = w.id]
                               ELSE replacedBy
<1> DEFINE n == Len(accepted) + 1
           k == caller[c].key
           new == [id |-> n, retries |-> 0]
<1>1. /\ k \in Keys
      /\ Len(accepted) < MaxEvents
      /\ accepted' = Append(accepted, k)
      /\ events' = [events EXCEPT ![k] = new]
      /\ replacedBy' = IF k \in Waiting THEN [replacedBy EXCEPT ![events[k].id] = n] ELSE replacedBy
      /\ UNCHANGED <<blacklist, server, attempts, settled, lost, used>>
      /\ caller' = [caller EXCEPT ![c].pc = "idle"]
  BY DEF Put, TypeOK
<1>2. PICK m \in Keys, w \in Item : m = k /\ w = new /\ w.id = n /\ w.retries = 0
  <2>1. n \in Ids
    BY <1>1, Counters DEF TypeOK, Ids
  <2>2. new \in Item
    BY <2>1, ItemFields, Counters
  <2> QED
    BY <1>1, <2>2
<1>3. /\ events' = [events EXCEPT ![m] = w]
      /\ replacedBy' = IF m \in Waiting THEN [replacedBy EXCEPT ![events[m].id] = w.id]
                       ELSE replacedBy
  BY <1>1, <1>2
<1>4. /\ Accepted' = Accepted \cup {w.id}
      /\ \A i \in Accepted : i \in Nat /\ i < w.id
      /\ accepted'[w.id] = m
      /\ \A i \in Accepted : accepted'[i] = accepted[i]
      /\ accepted' \in Seq(Keys)
      /\ Len(accepted') <= MaxEvents
  <2>1. accepted \in Seq(Keys) /\ Len(accepted) \in Nat /\ accepted' = Append(accepted, m)
    BY <1>1, <1>2 DEF TypeOK
  <2>2. Len(accepted') = Len(accepted) + 1
    BY <2>1
  <2>3. accepted'[Len(accepted) + 1] = m /\ \A i \in 1 .. Len(accepted) : accepted'[i] = accepted[i]
    BY <2>1
  <2>4. accepted' \in Seq(Keys)
    BY <2>1
  <2> QED
    BY <1>1, <1>2, <2>1, <2>2, <2>3, <2>4, Counters DEF Accepted
<1>5. /\ Waiting' = Waiting \cup {m}
      /\ events'[m] = w
      /\ \A j \in Keys \ {m} : events'[j] = events[j]
  BY <1>2, <1>3, Counters, ItemFields DEF Waiting, TypeOK
<1> HIDE DEF n, k, new
<1> QED
  BY <1>1, <1>2, <1>3, <1>4, <1>5

LEMMA PutSound ==
  ASSUME Sound, NEW c \in Callers, Put(c)
  PROVE  Sound'
<1> USE DEF Sound
<1>1. CASE UNCHANGED <<accepted, events, replacedBy>>
  <2>1. TypeOK'
    BY <1>1 DEF TypeOK, Put
  <2>2. Placed'
    BY <1>1 DEF Placed, Waiting, Accepted, Put
  <2>3. RetriesCountAttempts'
    BY <1>1 DEF RetriesCountAttempts, Waiting, Put
  <2>4. BlacklistEarned'
    BY <1>1 DEF BlacklistEarned, Accepted, Put
  <2> QED
    BY <2>1, <2>2, <2>3, <2>4
<1>2. CASE ~UNCHANGED <<accepted, events, replacedBy>>
  <2>1. /\ UNCHANGED <<blacklist, server, attempts, settled, lost, used>>
        /\ caller' = [caller EXCEPT ![c].pc = "idle"]
    BY <1>2, PutEffect
  <2>2. PICK m \in Keys, w \in Item :
              /\ w.retries = 0
              /\ Accepted' = Accepted \cup {w.id}
              /\ \A i \in Accepted : i \in Nat /\ i < w.id
              /\ accepted'[w.id] = m
              /\ \A i \in Accepted : accepted'[i] = accepted[i]
              /\ accepted' \in Seq(Keys)
              /\ Len(accepted') <= MaxEvents
              /\ Waiting' = Waiting \cup {m}
              /\ events' = [events EXCEPT ![m] = w]
              /\ events'[m] = w
              /\ \A j \in Keys \ {m} : events'[j] = events[j]
              /\ replacedBy' = IF m \in Waiting THEN [replacedBy EXCEPT ![events[m].id] = w.id]
                               ELSE replacedBy
    BY <1>2, PutEffect
  <2>3. w.id \notin Accepted
    BY <2>2
  <2>6. TypeOK'
    <3>1. caller' \in [Callers -> [pc : {"idle", "put"}, key : Keys]]
      BY <2>1 DEF TypeOK
    <3>2. replacedBy' \in [Ids -> Ids \cup {0}]
      <4>1. w.id \in Ids
        BY <2>2, ItemFields
      <4> QED
        BY <2>2, <4>1 DEF TypeOK
    <3> QED
      BY <2>1, <2>2, <3>1, <3>2 DEF TypeOK
  <2>7. Placed'
    <3>1. \A j \in Waiting' : events'[j].id \in Accepted' /\ accepted'[events'[j].id] = j
      <4> SUFFICES ASSUME NEW j \in Waiting'
                   PROVE  events'[j].id \in Accepted' /\ accepted'[events'[j].id] = j
        OBVIOUS
      <4>1. CASE j = m
        BY <2>2, <2>3, <4>1
      <4>2. CASE j # m
        BY <2>2, <2>3, <4>2, WaitingItem DEF Placed
      <4> QED
        BY <4>1, <4>2
    <3>2. \A s \in Servers : \A it \in server[s].items : \A j \in Waiting' : events'[j].id # it.id
      BY <2>2, <2>3, WaitingItem DEF Placed
    <3>3. \A i \in Ids : i \notin Accepted' => attempts'[i] = 0
      BY <2>1, <2>2, <2>3 DEF Placed
    <3>4. \A s \in Servers : /\ server[s].pc = "idle" => server[s].items = {}
                             /\ server[s].items # {} => s \in used
      BY DEF Placed
    <3>5. \A s \in Servers : \A it \in server[s].items :
            /\ it.id \in Accepted'
            /\ \A t \in Servers : \A jt \in server[t].items : it.id = jt.id => it = jt /\ s = t
      BY <2>2, <2>3 DEF Placed
    <3>6. server' = server /\ used' = used
      BY <2>1
    <3> QED
      BY <3>1, <3>2, <3>3, <3>4, <3>5, <3>6 DEF Placed
  <2>8. RetriesCountAttempts'
    <3>1. attempts[w.id] = 0
      BY <2>2, <2>3, ItemFields DEF Placed
    <3>2. \A j \in Waiting' : attempts'[events'[j].id] = events'[j].retries
      BY <2>1, <2>2, <3>1, WaitingItem DEF RetriesCountAttempts
    <3> QED
      BY <2>1, <3>2 DEF RetriesCountAttempts
  <2>9. BlacklistEarned'
    BY <2>1, <2>2, <2>3 DEF BlacklistEarned
  <2> QED
    BY <2>6, <2>7, <2>8, <2>9
<1> QED
  BY <1>1, <1>2

-----------------------------------------------------------------------------
(* The steps of sendAll.                                                   *)

LEMMA DrainSound ==
  ASSUME Sound, NEW s \in Servers, Drain(s)
  PROVE  Sound'
<1> USE DEF Sound
<1> DEFINE all == {events[k] : k \in Waiting}
<1>1. Waiting' = {}
  BY ItemFields DEF Drain, Waiting
<1>2. /\ server' = [server EXCEPT ![s] = [pc |-> "send", items |-> all]]
      /\ UNCHANGED <<blacklist, caller, accepted, attempts, settled, lost, replacedBy>>
      /\ used' = used \cup {s}
      /\ server[s].pc = "idle"
      /\ events' = [k \in Keys |-> Nothing]
  BY DEF Drain
<1>3. all \subseteq Item
  BY WaitingItem
<1>4. \A it \in all : \E k \in Waiting : it = events[k]
  OBVIOUS
<1> HIDE DEF all
<1>5. \A it, jt \in all : it.id = jt.id => it = jt
  BY <1>4 DEF Placed
<1>6. /\ server'[s].pc = "send" /\ server'[s].items = all
      /\ \A t \in Servers \ {s} : server'[t] = server[t]
  BY <1>2 DEF TypeOK
<1>7. TypeOK'
  BY <1>2, <1>3 DEF TypeOK
<1>8. Placed'
  <2>1. \A it \in all : it.id \in Accepted
    BY <1>4 DEF Placed
  <2>2. \A t \in Servers : \A it \in server[t].items, jt \in all : it.id # jt.id
    BY <1>4 DEF Placed
  <2> QED
    BY <1>1, <1>2, <1>5, <1>6, <2>1, <2>2 DEF Placed, Accepted
<1>9. RetriesCountAttempts'
  BY <1>1, <1>2, <1>4, <1>6 DEF RetriesCountAttempts
<1>10. BlacklistEarned'
  BY <1>2 DEF BlacklistEarned, Accepted
<1> QED
  BY <1>7, <1>8, <1>9, <1>10

LEMMA SendSound ==
  ASSUME Sound, NEW s \in Servers, Send(s)
  PROVE  Sound'
<1> USE DEF Sound
<1>1. PICK failed \in SUBSET server[s].items :
        /\ server' = [server EXCEPT ![s] =
                        IF failed = {} THEN Idle ELSE [pc |-> "retry", items |-> failed]]
        /\ settled' = settled \cup IdsOf(server[s].items \ failed)
  BY DEF Send, Failures, FcmFailures, UpstreamFailures
<1>2. /\ server[s].pc = "send"
      /\ attempts' = [i \in Ids |-> IF i \in IdsOf(server[s].items) THEN attempts[i] + 1
                                    ELSE attempts[i]]
      /\ UNCHANGED <<events, blacklist, caller, accepted, lost, replacedBy, used>>
  BY DEF Send
<1>3. server[s].items \subseteq Item
  BY DEF TypeOK
<1>4. IdsOf(server[s].items) \subseteq Accepted /\ IdsOf(server[s].items) \subseteq Ids
  BY <1>3, ItemFields DEF IdsOf, Placed
<1>5. /\ server'[s].items = failed
      /\ server'[s].pc = IF failed = {} THEN "idle" ELSE "retry"
      /\ \A t \in Servers \ {s} : server'[t] = server[t]
  BY <1>1 DEF TypeOK, Idle
<1>6. \A i \in Ids : attempts[i] \in Nat /\ attempts'[i] \in Nat /\ attempts'[i] >= attempts[i]
  BY <1>2 DEF TypeOK
<1>7. TypeOK'
  <2>1. IdsOf(server[s].items \ failed) \subseteq Ids
    BY <1>4 DEF IdsOf
  <2>2. server' \in [Servers -> [pc : {"idle", "send", "retry"}, items : SUBSET Item]]
    BY <1>1, <1>3 DEF TypeOK, Idle
  <2> QED
    BY <1>1, <1>2, <1>6, <2>1, <2>2 DEF TypeOK
<1>8. Placed'
  <2>1. \A i \in Ids : i \notin Accepted => attempts'[i] = 0
    BY <1>2, <1>4 DEF Placed
  <2> QED
    BY <1>1, <1>2, <1>5, <2>1 DEF Placed, Waiting, Accepted
<1>9. RetriesCountAttempts'
  <2>1. \A k \in Waiting' : attempts'[events'[k].id] = events'[k].retries
    <3> SUFFICES ASSUME NEW k \in Waiting PROVE attempts'[events[k].id] = events[k].retries
      BY <1>2 DEF Waiting
    <3>1. events[k].id \in Ids /\ events[k].id \notin IdsOf(server[s].items)
      BY WaitingItem, ItemFields DEF Placed, IdsOf
    <3> QED
      BY <1>2, <3>1 DEF RetriesCountAttempts
  <2>2. \A it \in failed : attempts'[it.id] = it.retries + 1
    BY <1>2, <1>3, ItemFields DEF RetriesCountAttempts, IdsOf
  <2>3. \A t \in Servers \ {s} : \A it \in server[t].items : attempts'[it.id] = attempts[it.id]
    <3> SUFFICES ASSUME NEW t \in Servers \ {s}, NEW it \in server[t].items
                 PROVE  attempts'[it.id] = attempts[it.id]
      OBVIOUS
    <3>1. it.id \in Ids
      BY ItemFields DEF TypeOK
    <3>2. it.id \notin IdsOf(server[s].items)
      BY DEF Placed, IdsOf
    <3> QED
      BY <1>2, <3>1, <3>2
  <2>4. \A i \in Ids : attempts'[i] <= maxRetries
    <3> SUFFICES ASSUME NEW i \in Ids PROVE attempts'[i] <= maxRetries
      OBVIOUS
    <3>1. CASE i \notin IdsOf(server[s].items)
      BY <1>2, <3>1 DEF RetriesCountAttempts
    <3>2. CASE i \in IdsOf(server[s].items)
      <4>1. PICK it \in server[s].items : i = it.id
        BY <3>2 DEF IdsOf
      <4>2. it.retries \in Nat /\ it.retries < maxRetries /\ attempts[i] = it.retries
        BY <1>2, <1>3, <4>1, ItemFields DEF RetriesCountAttempts
      <4> QED
        BY <1>2, <3>2, <4>2, Counters
    <3> QED
      BY <3>1, <3>2
  <2>5. \A t \in Servers : \A it \in server'[t].items :
          attempts'[it.id] = IF server'[t].pc = "send" THEN it.retries ELSE it.retries + 1
    BY <1>5, <2>2, <2>3 DEF RetriesCountAttempts
  <2> QED
    BY <2>1, <2>4, <2>5 DEF RetriesCountAttempts
<1>10. BlacklistEarned'
  <2> SUFFICES ASSUME NEW t \in blacklist
               PROVE  \E i \in Accepted : accepted[i][1] = t /\ attempts'[i] >= maxRetries
    BY <1>2 DEF BlacklistEarned, Accepted
  <2>1. PICK i \in Accepted : accepted[i][1] = t /\ attempts[i] >= maxRetries
    BY DEF BlacklistEarned
  <2>2. i \in Ids
    BY Counters DEF Accepted, Ids, TypeOK
  <2> QED
    BY <1>6, <2>1, <2>2, Counters
<1> QED
  BY <1>7, <1>8, <1>9, <1>10

-----------------------------------------------------------------------------
(* The steps of retry, of the blacklist, and of a restart.                 *)

(* A server that lets go of one item, which then is nowhere, waits again   *)
(* with one more failure, or was given up.                                 *)
LEMMA RetryEffect ==
  ASSUME Sound, NEW s \in Servers, Retry(s)
  PROVE  /\ UNCHANGED <<caller, accepted, attempts, used>>
         /\ server[s].pc = "retry" /\ server'[s].pc \in {"idle", "retry"}
         /\ server'[s].pc = "idle" => server'[s].items = {}
         /\ \A t \in Servers \ {s} : server'[t] = server[t]
         /\ server' \in [Servers -> [pc : {"idle", "send", "retry"}, items : SUBSET Item]]
         /\ \E it \in server[s].items :
              /\ server'[s].items = server[s].items \ {it}
              /\ it \in Item /\ it.id \in Ids /\ it.id \in Accepted
              /\ accepted[it.id] \in Keys
              /\ it.retries \in Nat /\ attempts[it.id] = it.retries + 1
              /\ \/ LastTry(it) /\ GiveUp(it) /\ UNCHANGED <<events, lost, replacedBy>>
                 \/ ~LastTry(it) /\ PutBack(it) /\ UNCHANGED <<blacklist, settled>>
<1> USE DEF Sound
<1>1. PICK it \in server[s].items :
        /\ server' = [server EXCEPT ![s] =
                        IF server[s].items = {it} THEN Idle
                        ELSE [pc |-> "retry", items |-> server[s].items \ {it}]]
        /\ \/ LastTry(it) /\ GiveUp(it) /\ UNCHANGED <<events, lost, replacedBy>>
           \/ ~LastTry(it) /\ PutBack(it) /\ UNCHANGED <<blacklist, settled>>
  BY DEF Retry
<1>2. server[s].pc = "retry" /\ UNCHANGED <<caller, accepted, attempts, used>>
  BY DEF Retry
<1>3. /\ it \in Item /\ it.id \in Ids /\ it.id \in Accepted
      /\ it.retries \in Nat /\ attempts[it.id] = it.retries + 1
  BY <1>2, ItemFields DEF TypeOK, Placed, RetriesCountAttempts
<1>4. /\ server'[s].items = server[s].items \ {it}
      /\ server'[s].pc \in {"idle", "retry"}
      /\ server'[s].pc = "idle" => server'[s].items = {}
      /\ \A t \in Servers \ {s} : server'[t] = server[t]
      /\ server' \in [Servers -> [pc : {"idle", "send", "retry"}, items : SUBSET Item]]
  <2>1. /\ server[s] \in [pc : {"idle", "send", "retry"}, items : SUBSET Item]
        /\ DOMAIN server = Servers
    BY DEF TypeOK
  <2>2. PICK r \in [pc : {"idle", "retry"}, items : SUBSET Item] :
          /\ server' = [server EXCEPT ![s] = r]
          /\ r.items = server[s].items \ {it}
          /\ r.pc = "idle" => r.items = {}
    <3>1. CASE server[s].items = {it}
      <4>1. Idle \in [pc : {"idle", "retry"}, items : SUBSET Item] /\ Idle.items = {}
        BY DEF Idle
      <4> QED
        BY <1>1, <3>1, <4>1
    <3>2. CASE server[s].items # {it}
      <4> DEFINE rest == [pc |-> "retry", items |-> server[s].items \ {it}]
      <4>1. rest \in [pc : {"idle", "retry"}, items : SUBSET Item]
        BY <2>1
      <4> QED
        BY <1>1, <3>2, <4>1
    <3> QED
      BY <3>1, <3>2
  <2>3. server'[s] = r /\ \A t \in Servers \ {s} : server'[t] = server[t]
    BY <2>1, <2>2
  <2> QED
    BY <2>2, <2>3 DEF TypeOK
<1>5. accepted[it.id] \in Keys
  BY <1>3 DEF TypeOK, Accepted
<1> QED
  BY <1>1, <1>2, <1>3, <1>4, <1>5

(* One that goes back waits under its key, which was free.                 *)
LEMMA BackEffect ==
  ASSUME Sound, NEW it \in Item, it.id \in Accepted, accepted[it.id] \in Keys,
         ~LastTry(it), PutBack(it), ~UNCHANGED events
  PROVE  /\ UNCHANGED <<lost, replacedBy>>
         /\ \E m \in Keys, w \in Item :
              /\ m = accepted[it.id] /\ w.id = it.id /\ w.retries = it.retries + 1
              /\ m \notin Waiting
              /\ Waiting' = Waiting \cup {m}
              /\ events' = [events EXCEPT ![m] = w]
              /\ events'[m] = w
              /\ \A j \in Keys \ {m} : events'[j] = events[j]
<1> USE DEF Sound
<1> DEFINE back == [id |-> it.id, retries |-> it.retries + 1]
<1>1. /\ events[KeyOf(it)] = Nothing
      /\ events' = [events EXCEPT ![KeyOf(it)] = back]
      /\ UNCHANGED <<lost, replacedBy>>
  BY DEF PutBack
<1>2. PICK m \in Keys, w \in Item :
        m = accepted[it.id] /\ w = back /\ w.id = it.id /\ w.retries = it.retries + 1
  <2>1. back \in Item
    BY ItemFields, Counters DEF LastTry
  <2> QED
    BY <2>1
<1>3. events' = [events EXCEPT ![m] = w] /\ events[m] = Nothing
  BY <1>1, <1>2 DEF KeyOf
<1> HIDE DEF back
<1>4. /\ Waiting' = Waiting \cup {m}
      /\ events'[m] = w
      /\ m \notin Waiting
      /\ \A j \in Keys \ {m} : events'[j] = events[j]
  BY <1>2, <1>3, Counters, ItemFields DEF Waiting, TypeOK
<1> QED
  BY <1>1, <1>2, <1>3, <1>4

LEMMA RetrySound ==
  ASSUME Sound, NEW s \in Servers, Retry(s)
  PROVE  Sound'
<1> USE DEF Sound
<1>1. /\ UNCHANGED <<caller, accepted, attempts, used>>
      /\ server[s].pc = "retry" /\ server'[s].pc \in {"idle", "retry"}
      /\ server'[s].pc = "idle" => server'[s].items = {}
      /\ \A t \in Servers \ {s} : server'[t] = server[t]
      /\ server' \in [Servers -> [pc : {"idle", "send", "retry"}, items : SUBSET Item]]
  BY RetryEffect
<1>2. PICK it \in server[s].items :
              /\ server'[s].items = server[s].items \ {it}
              /\ it \in Item /\ it.id \in Ids /\ it.id \in Accepted
              /\ accepted[it.id] \in Keys
              /\ it.retries \in Nat /\ attempts[it.id] = it.retries + 1
              /\ \/ LastTry(it) /\ GiveUp(it) /\ UNCHANGED <<events, lost, replacedBy>>
                 \/ ~LastTry(it) /\ PutBack(it) /\ UNCHANGED <<blacklist, settled>>
  BY RetryEffect
<1>3. CASE UNCHANGED events
  <2>1. \/ blacklist' = blacklist
        \/ LastTry(it) /\ blacklist' = blacklist \cup {TokenOf(it)}
    BY <1>2 DEF GiveUp
  <2>2. TypeOK'
    <3>0. TokenOf(it) \in Tokens
      BY <1>2, TokenOfKey DEF TokenOf, KeyOf
    <3>1. blacklist' \subseteq Tokens
      BY <2>1, <3>0 DEF TypeOK
    <3>2. settled' \subseteq Ids /\ lost' \subseteq Ids
      BY <1>2 DEF TypeOK, GiveUp, PutBack
    <3>3. replacedBy' \in [Ids -> Ids \cup {0}]
      <4>1. CASE UNCHANGED replacedBy
        BY <4>1 DEF TypeOK
      <4>2. CASE ~UNCHANGED replacedBy
        <5>1. events[KeyOf(it)] # Nothing /\ replacedBy' = [replacedBy EXCEPT ![it.id] = events[KeyOf(it)].id]
          BY <1>2, <4>2 DEF PutBack
        <5>2. events[KeyOf(it)].id \in Ids
          BY <1>2, <5>1, WaitingItem, ItemFields DEF KeyOf
        <5> QED
          BY <5>1, <5>2 DEF TypeOK
      <4> QED
        BY <4>1, <4>2
    <3> QED
      BY <1>1, <1>2, <1>3, <3>1, <3>2, <3>3 DEF TypeOK
  <2>3. Placed'
    BY <1>1, <1>2, <1>3 DEF Placed, Waiting, Accepted
  <2>4. RetriesCountAttempts'
    BY <1>1, <1>2, <1>3 DEF RetriesCountAttempts, Waiting
  <2>5. BlacklistEarned'
    BY <1>1, <1>2, <2>1, Counters DEF BlacklistEarned, Accepted, LastTry, TokenOf, KeyOf
  <2> QED
    BY <2>2, <2>3, <2>4, <2>5
<1>4. CASE ~UNCHANGED events
  <2>1. ~LastTry(it) /\ PutBack(it) /\ UNCHANGED <<blacklist, settled, lost, replacedBy>>
    BY <1>2, <1>4, BackEffect
  <2>2. PICK m \in Keys, w \in Item :
              /\ m = accepted[it.id] /\ w.id = it.id /\ w.retries = it.retries + 1
              /\ m \notin Waiting
              /\ Waiting' = Waiting \cup {m}
              /\ events' = [events EXCEPT ![m] = w]
              /\ events'[m] = w
              /\ \A j \in Keys \ {m} : events'[j] = events[j]
    BY <1>2, <1>4, <2>1, BackEffect
  <2>5. TypeOK'
    <3>1. events' \in [Keys -> Item \cup {Nothing}]
      BY <2>2 DEF TypeOK
    <3> QED
      BY <1>1, <1>2, <2>1, <3>1 DEF TypeOK
  <2>6. Placed'
    <3>1. Accepted' = Accepted /\ accepted' = accepted /\ attempts' = attempts
      BY <1>1 DEF Accepted
    <3>2. \A j \in Waiting' : events'[j].id \in Accepted /\ accepted[events'[j].id] = j
      BY <1>2, <2>2, WaitingItem DEF Placed
    <3>3. \A t \in Servers : server'[t].items \subseteq server[t].items \ {it}
      BY <1>1, <1>2 DEF Placed
    <3>4. \A t \in Servers : \A jt \in server'[t].items : \A j \in Waiting' : events'[j].id # jt.id
      <4> SUFFICES ASSUME NEW t \in Servers, NEW jt \in server'[t].items, NEW j \in Waiting'
                   PROVE  events'[j].id # jt.id
        OBVIOUS
      <4>1. jt \in server[t].items /\ jt # it
        BY <3>3
      <4>2. CASE j = m
        BY <2>2, <4>1, <4>2 DEF Placed
      <4>3. CASE j # m
        BY <2>2, <4>1, <4>3, WaitingItem DEF Placed
      <4> QED
        BY <4>2, <4>3
    <3>5. \A t \in Servers : \A jt \in server'[t].items :
            /\ jt.id \in Accepted
            /\ \A u \in Servers : \A kt \in server'[u].items : jt.id = kt.id => jt = kt /\ t = u
      BY <3>3 DEF Placed
    <3>6. \A t \in Servers : /\ server'[t].pc = "idle" => server'[t].items = {}
                             /\ server'[t].items # {} => t \in used'
      <4>1. \A t \in Servers : server'[t].pc = "idle" => server'[t].items = {}
        BY <1>1 DEF Placed
      <4>2. \A t \in Servers : server'[t].items # {} => server[t].items # {}
        BY <3>3
      <4> QED
        BY <1>1, <4>1, <4>2 DEF Placed
    <3>7. \A i \in Ids : i \notin Accepted => attempts[i] = 0
      BY DEF Placed
    <3> QED
      BY <3>1, <3>2, <3>4, <3>5, <3>6, <3>7 DEF Placed
  <2>7. RetriesCountAttempts'
    <3>1. \A j \in Waiting' : attempts[events'[j].id] = events'[j].retries
      BY <1>2, <2>2, WaitingItem DEF RetriesCountAttempts
    <3>2. \A t \in Servers : \A jt \in server'[t].items :
            attempts[jt.id] = IF server'[t].pc = "send" THEN jt.retries ELSE jt.retries + 1
      BY <1>1, <1>2 DEF RetriesCountAttempts
    <3> QED
      BY <1>1, <3>1, <3>2 DEF RetriesCountAttempts
  <2>8. BlacklistEarned'
    BY <1>1, <2>1 DEF BlacklistEarned, Accepted
  <2> QED
    BY <2>5, <2>6, <2>7, <2>8
<1> QED
  BY <1>3, <1>4

LEMMA ForgiveSound ==
  ASSUME Sound, NEW t \in Tokens, Forgive(t)
  PROVE  Sound'
<1> USE DEF Forgive, Sound
<1>1. TypeOK'
  BY DEF TypeOK
<1>2. Placed'
  BY DEF Placed, Waiting, Accepted
<1>3. RetriesCountAttempts'
  BY DEF RetriesCountAttempts, Waiting
<1>4. BlacklistEarned'
  BY DEF BlacklistEarned, Accepted
<1> QED
  BY <1>1, <1>2, <1>3, <1>4

LEMMA RestartSound ==
  ASSUME Sound, NEW s \in Servers, Restart(s)
  PROVE  Sound'
<1> USE DEF Sound
<1>1. /\ server' = [server EXCEPT ![s] = Idle]
      /\ UNCHANGED <<accepted, attempts, settled, replacedBy, used>>
      /\ events' = events \/ events' = [k \in Keys |-> Nothing]
      /\ blacklist' \subseteq blacklist
      /\ caller' = caller \/ caller' = [c \in Callers |-> [caller[c] EXCEPT !.pc = "idle"]]
      /\ lost' \subseteq lost \cup IdsOf(server[s].items) \cup {events[k].id : k \in Waiting}
  BY DEF Restart
<1>2. /\ server'[s].pc = "idle" /\ server'[s].items = {}
      /\ \A t \in Servers \ {s} : server'[t] = server[t]
  BY <1>1 DEF TypeOK, Idle
<1>3. /\ Waiting' \subseteq Waiting
      /\ \A k \in Waiting' : events'[k] = events[k]
  BY <1>1, ItemFields DEF Waiting
<1>4. TypeOK'
  <2>1. server' \in [Servers -> [pc : {"idle", "send", "retry"}, items : SUBSET Item]]
    BY <1>1 DEF TypeOK, Idle
  <2>2. caller' \in [Callers -> [pc : {"idle", "put"}, key : Keys]]
    <3>1. CASE caller' = caller
      BY <3>1 DEF TypeOK
    <3>2. CASE caller' = [c \in Callers |-> [caller[c] EXCEPT !.pc = "idle"]]
      BY <3>2 DEF TypeOK
    <3> QED
      BY <1>1, <3>1, <3>2
  <2>3. lost' \subseteq Ids
    <3>1. IdsOf(server[s].items) \subseteq Ids
      BY ItemFields DEF TypeOK, IdsOf
    <3>2. {events[k].id : k \in Waiting} \subseteq Ids
      BY WaitingItem, ItemFields
    <3> QED
      BY <1>1, <3>1, <3>2 DEF TypeOK
  <2> QED
    BY <1>1, <2>1, <2>2, <2>3 DEF TypeOK
<1>5. Placed'
  BY <1>1, <1>2, <1>3 DEF Placed, Accepted
<1>6. RetriesCountAttempts'
  BY <1>1, <1>2, <1>3 DEF RetriesCountAttempts
<1>7. BlacklistEarned'
  BY <1>1 DEF BlacklistEarned, Accepted
<1> QED
  BY <1>4, <1>5, <1>6, <1>7

LEMMA SoundStep == Sound /\ [Next]_vars => Sound'
<1> SUFFICES ASSUME Sound, [Next]_vars PROVE Sound'
  OBVIOUS
<1>1. CASE UNCHANGED vars
  BY <1>1 DEF Sound, vars, TypeOK, Placed, RetriesCountAttempts, BlacklistEarned, Waiting, Accepted
<1> QED
  BY <1>1, CheckBlacklistSound, PutSound, DrainSound, SendSound, RetrySound, ForgiveSound,
     RestartSound DEF Next, postPush

-----------------------------------------------------------------------------
(* Every variable keeps to its type.                                       *)
THEOREM TypeCorrect == Spec => []TypeOK
<1>1. Sound => TypeOK
  BY DEF Sound
<1> QED
  BY <1>1, SoundInit, SoundStep, PTL DEF Spec

(* No event is sent more than maxRetries times, however many servers share *)
(* the cache, and the failures it carries are the times it was sent.       *)
THEOREM RetriesCountAttemptsAlways == Spec => []RetriesCountAttempts
<1>1. Sound => RetriesCountAttempts
  BY DEF Sound
<1> QED
  BY <1>1, SoundInit, SoundStep, PTL DEF Spec

(* A token is blacklisted only after an event for it failed maxRetries     *)
(* times.                                                                  *)
THEOREM BlacklistEarnedAlways == Spec => []BlacklistEarned
<1>1. Sound => BlacklistEarned
  BY DEF Sound
<1> QED
  BY <1>1, SoundInit, SoundStep, PTL DEF Spec

-----------------------------------------------------------------------------
(* No event is forgotten.                                                  *)

LEMMA PendingIs ==
  ASSUME NEW i
  PROVE  /\ i \in Pending <=>
              \/ \E k \in Waiting : events[k].id = i
              \/ \E s \in Servers : \E it \in server[s].items : it.id = i
         /\ i \in Pending' <=>
              \/ \E k \in Waiting' : events'[k].id = i
              \/ \E s \in Servers : \E it \in server'[s].items : it.id = i
BY DEF Pending, IdsOf, InCache, InHand

(* An event that waits or is held stays accounted for in every step.       *)
LEMMA AccountedStep ==
  ASSUME Sound, Accounted, [Next]_vars
  PROVE  Accounted'
<1> DEFINE Safe(i) == \/ i \in settled \cup lost \cup Pending
                      \/ /\ replacedBy[i] \in Accepted \ {i}
                         /\ accepted[replacedBy[i]] = accepted[i]
<1> SUFFICES ASSUME NEW i \in Accepted' PROVE Safe(i)'
  BY DEF Accounted
<1> USE DEF Sound
<1>1. ASSUME NEW c \in Callers, Put(c), ~UNCHANGED <<accepted, events, replacedBy>>
      PROVE  Safe(i)'
  <2>1. UNCHANGED <<server, settled, lost>>
    BY <1>1, PutEffect
  <2>2. PICK m \in Keys, w \in Item :
          /\ Accepted' = Accepted \cup {w.id}
          /\ \A j \in Accepted : j \in Nat /\ j < w.id
          /\ accepted'[w.id] = m
          /\ \A j \in Accepted : accepted'[j] = accepted[j]
          /\ Waiting' = Waiting \cup {m}
          /\ events'[m] = w
          /\ \A k \in Keys \ {m} : events'[k] = events[k]
          /\ replacedBy' = IF m \in Waiting THEN [replacedBy EXCEPT ![events[m].id] = w.id]
                           ELSE replacedBy
    BY <1>1, PutEffect
  <2>3. CASE i = w.id
    BY <2>2, <2>3, PendingIs
  <2>4. CASE i # w.id
    <3>1. i \in Accepted /\ Safe(i)
      BY <2>2, <2>4 DEF Accounted
    <3>2. CASE i \in settled \cup lost
      BY <2>1, <3>2
    <3>0. i \in Ids
      BY <3>1, Counters DEF Accepted, Ids, TypeOK
    <3>3. CASE replacedBy[i] \in Accepted \ {i} /\ accepted[replacedBy[i]] = accepted[i]
      <4>1. CASE m \in Waiting /\ events[m].id = i
        BY <2>2, <2>4, <3>0, <3>1, <3>3, <4>1 DEF Placed, TypeOK
      <4>2. CASE ~(m \in Waiting /\ events[m].id = i)
        BY <2>2, <3>0, <3>1, <3>3, <4>2 DEF TypeOK
      <4> QED
        BY <4>1, <4>2
    <3>4. CASE \E s \in Servers : \E it \in server[s].items : it.id = i
      BY <2>1, <3>4, PendingIs
    <3>5. CASE m \in Waiting /\ events[m].id = i
      BY <2>2, <2>4, <3>0, <3>1, <3>5 DEF Placed, TypeOK
    <3>6. CASE \E k \in Waiting \ {m} : events[k].id = i
      BY <2>2, <3>6, PendingIs, WaitingItem
    <3> QED
      BY <3>1, <3>2, <3>3, <3>4, <3>5, <3>6, PendingIs
  <2> QED
    BY <2>3, <2>4
<1>2. ASSUME NEW s \in Servers, Drain(s)
      PROVE  Safe(i)'
  <2>1. /\ server[s].pc = "idle"
        /\ server' = [server EXCEPT ![s] = [pc |-> "send", items |-> {events[k] : k \in Waiting}]]
        /\ UNCHANGED <<accepted, settled, lost, replacedBy>>
    BY <1>2 DEF Drain
  <2>2. server'[s].items = {events[k] : k \in Waiting} /\ \A t \in Servers \ {s} : server'[t] = server[t]
    BY <2>1 DEF TypeOK
  <2>3. server[s].items = {}
    BY <2>1 DEF Placed
  <2>4. i \in Pending => i \in Pending'
    BY <2>2, <2>3, PendingIs
  <2> QED
    BY <2>1, <2>4 DEF Accounted, Accepted
<1>3. ASSUME NEW s \in Servers, Send(s)
      PROVE  Safe(i)'
  <2>1. PICK failed \in SUBSET server[s].items :
          /\ server' = [server EXCEPT ![s] =
                          IF failed = {} THEN Idle ELSE [pc |-> "retry", items |-> failed]]
          /\ settled' = settled \cup IdsOf(server[s].items \ failed)
    BY <1>3 DEF Send, Failures, FcmFailures, UpstreamFailures
  <2>2. server'[s].items = failed /\ \A t \in Servers \ {s} : server'[t] = server[t]
    BY <2>1 DEF TypeOK, Idle
  <2>3. UNCHANGED <<events, accepted, lost, replacedBy>> /\ Waiting' = Waiting
    BY <1>3 DEF Send, Waiting
  <2>4. i \in Pending => i \in Pending' \cup settled'
    BY <2>1, <2>2, <2>3, PendingIs DEF IdsOf
  <2> QED
    BY <2>1, <2>3, <2>4 DEF Accounted, Accepted
<1>4. ASSUME NEW s \in Servers, Retry(s)
      PROVE  Safe(i)'
  <2>1. /\ UNCHANGED accepted
        /\ \A t \in Servers \ {s} : server'[t] = server[t]
    BY <1>4, RetryEffect
  <2>2. PICK it \in server[s].items :
          /\ server'[s].items = server[s].items \ {it}
          /\ it \in Item /\ it.id \in Accepted /\ accepted[it.id] \in Keys
          /\ \/ LastTry(it) /\ GiveUp(it) /\ UNCHANGED <<events, lost, replacedBy>>
             \/ ~LastTry(it) /\ PutBack(it) /\ UNCHANGED <<blacklist, settled>>
    BY <1>4, RetryEffect
  <2>3. settled \subseteq settled' /\ lost \subseteq lost'
    BY <2>2 DEF GiveUp, PutBack
  <2>4. \A k \in Waiting : k \in Waiting' /\ events'[k] = events[k]
    <3>1. CASE UNCHANGED events
      BY <3>1 DEF Waiting
    <3>2. CASE ~UNCHANGED events
      BY <2>2, <3>2, BackEffect, WaitingItem
    <3> QED
      BY <3>1, <3>2
  (* The item that left the hands was given up, waits again or gave way.   *)
  <2>5. CASE i = it.id
    <3>1. CASE LastTry(it)
      BY <2>2, <2>5, <3>1 DEF GiveUp
    <3>2. CASE ~LastTry(it) /\ ~UNCHANGED events
      BY <2>2, <2>5, <3>2, BackEffect, PendingIs
    <3>3. CASE ~LastTry(it) /\ UNCHANGED events /\ it.id \in lost'
      BY <2>5, <3>3
    <3>4. CASE ~LastTry(it) /\ UNCHANGED events /\ it.id \notin lost'
      <4>1. CASE events[accepted[i]] = Nothing
        <5>1. events' = [events EXCEPT ![accepted[i]] = [id |-> i, retries |-> it.retries + 1]]
          BY <2>2, <2>5, <3>4, <4>1 DEF PutBack, KeyOf
        <5>2. events'[accepted[i]].id = i
          BY <2>2, <2>5, <5>1 DEF TypeOK
        <5>3. i # 0
          BY <2>2, <2>5, ItemFields, Counters
        <5> QED
          BY <3>4, <4>1, <5>2, <5>3, ItemFields
      <4>2. CASE events[accepted[i]] # Nothing
        <5>1. accepted[i] \in Waiting /\ replacedBy' = [replacedBy EXCEPT ![i] = events[accepted[i]].id]
          BY <2>2, <2>5, <3>4, <4>2, WaitingItem DEF PutBack, KeyOf
        <5>2. events[accepted[i]].id # i
          BY <2>2, <2>5, <5>1 DEF Placed
        <5>3. events[accepted[i]].id \in Accepted /\ accepted[events[accepted[i]].id] = accepted[i]
          BY <5>1 DEF Placed
        <5>4. replacedBy'[i] = events[accepted[i]].id
          BY <2>2, <2>5, <5>1, ItemFields DEF TypeOK
        <5> QED
          BY <2>1, <5>2, <5>3, <5>4 DEF Accepted
      <4> QED
        BY <4>1, <4>2
    <3> QED
      BY <3>1, <3>2, <3>3, <3>4
  <2>6. CASE i # it.id
    <3>1. i \in Pending => i \in Pending'
      BY <2>1, <2>2, <2>4, <2>6, PendingIs
    <3>2. replacedBy'[i] = replacedBy[i]
      <4>1. CASE UNCHANGED replacedBy
        BY <4>1
      <4>2. CASE ~UNCHANGED replacedBy
        <5>1. replacedBy' = [replacedBy EXCEPT ![it.id] = events[KeyOf(it)].id]
          BY <2>2, <4>2 DEF PutBack
        <5> QED
          BY <2>6, <5>1 DEF TypeOK
      <4> QED
        BY <4>1, <4>2
    <3> QED
      BY <2>1, <2>3, <3>1, <3>2 DEF Accounted, Accepted
  <2> QED
    BY <2>5, <2>6
<1>5. ASSUME NEW s \in Servers, Restart(s)
      PROVE  Safe(i)'
  <2>1. /\ server' = [server EXCEPT ![s] = Idle]
        /\ UNCHANGED <<accepted, settled, replacedBy>>
        /\ lost \cup IdsOf(server[s].items) \subseteq lost'
        /\ UNCHANGED events \/ {events[k].id : k \in Waiting} \subseteq lost'
    BY <1>5 DEF Restart
  <2>2. \A t \in Servers \ {s} : server'[t] = server[t]
    BY <2>1 DEF TypeOK
  <2>3. i \in Pending => i \in Pending' \cup lost'
    BY <2>1, <2>2, PendingIs DEF IdsOf, Waiting
  <2> QED
    BY <2>1, <2>3 DEF Accounted, Accepted
<1>6. ASSUME UNCHANGED <<events, server, accepted, settled, lost, replacedBy>>
      PROVE  Safe(i)'
  BY <1>6 DEF Accounted, Accepted, Pending, InCache, InHand, IdsOf, Waiting
<1>7. ASSUME NEW c \in Callers, Put(c), UNCHANGED <<accepted, events, replacedBy>>
      PROVE  Safe(i)'
  BY <1>6, <1>7 DEF Put
<1> QED
  BY <1>1, <1>2, <1>3, <1>4, <1>5, <1>6, <1>7 DEF Next, postPush, CheckBlacklist, Forgive, vars

(* Every accepted event is sent, given up, pending, lost to a crash or a   *)
(* failing cache, or gave way to the event that took its place in the      *)
(* cache: the loop that sends and retries forgets none.                    *)
THEOREM AccountedAlways == Spec => []Accounted
<1>1. Init => Accounted
  BY DEF Init, Accounted, Accepted
<1>2. Sound /\ Accounted /\ [Next]_vars => Accounted'
  BY AccountedStep
<1> QED
  BY <1>1, <1>2, SoundInit, SoundStep, PTL DEF Spec

-----------------------------------------------------------------------------
(* While one server sends, newer events are never undone by a retry.       *)

LEMMA OrderedStep ==
  ASSUME Sound, NewestWins, [Next]_vars
  PROVE  NewestWins'
<1> USE DEF Sound
<1> DEFINE Ordered == WaitsInOrder /\ HeldInOrder /\ HeldOnce /\ HeldIsOlder /\ ReplacedByNewer
<1>0. used \subseteq used'
  BY DEF Next, postPush, vars, CheckBlacklist, Put, Drain, Send, Retry, Restart, Forgive
<1> SUFFICES ASSUME OneSender'
             PROVE  Ordered'
  BY DEF NewestWins
<1>a. OneSender /\ Ordered
  BY <1>0 DEF NewestWins, OneSender
<1>b. \A s \in Servers : \A it \in server[s].items :
        it \in Item /\ it.id \in Accepted /\ it.id \in Ids /\ it.id \in Nat
  BY ItemFields, Counters DEF Placed, TypeOK
<1>1. ASSUME NEW c \in Callers, Put(c), ~UNCHANGED <<accepted, events, replacedBy>>
      PROVE  Ordered'
  <2>1. UNCHANGED <<server, attempts>>
    BY <1>1, PutEffect
  <2>2. PICK m \in Keys, w \in Item :
          /\ Accepted' = Accepted \cup {w.id}
          /\ \A j \in Accepted : j \in Nat /\ j < w.id
          /\ accepted'[w.id] = m
          /\ \A j \in Accepted : accepted'[j] = accepted[j]
          /\ Waiting' = Waiting \cup {m}
          /\ events'[m] = w
          /\ \A k \in Keys \ {m} : events'[k] = events[k]
          /\ replacedBy' = IF m \in Waiting THEN [replacedBy EXCEPT ![events[m].id] = w.id]
                           ELSE replacedBy
    BY <1>1, PutEffect
  <2>3. attempts[w.id] = 0 /\ w.id \in Nat /\ w.id \notin Accepted
    BY <2>2, ItemFields, Counters DEF Placed
  <2>4. WaitsInOrder'
    BY <1>a, <2>1, <2>2, <2>3, WaitingItem DEF WaitsInOrder
  <2>5. HeldInOrder'
    BY <1>a, <1>b, <2>1, <2>2, <2>3 DEF HeldInOrder, KeyOf
  <2>6. HeldOnce'
    BY <1>a, <1>b, <2>1, <2>2 DEF HeldOnce, KeyOf
  <2>7. HeldIsOlder'
    BY <1>a, <1>b, <2>1, <2>2, <2>3, WaitingItem DEF HeldIsOlder, KeyOf
  <2>8. ReplacedByNewer'
    <3> SUFFICES ASSUME NEW i \in Ids, replacedBy'[i] # 0
                 PROVE  i < replacedBy'[i]
      BY DEF ReplacedByNewer
    <3>1. CASE m \in Waiting /\ events[m].id = i
      BY <2>2, <3>1 DEF Placed, TypeOK
    <3>2. CASE ~(m \in Waiting /\ events[m].id = i)
      BY <1>a, <2>2, <3>2 DEF ReplacedByNewer, TypeOK
    <3> QED
      BY <3>1, <3>2
  <2> QED
    BY <2>4, <2>5, <2>6, <2>7, <2>8
<1>2. ASSUME NEW s \in Servers, Drain(s)
      PROVE  Ordered'
  <2>1. /\ server' = [server EXCEPT ![s] = [pc |-> "send", items |-> {events[k] : k \in Waiting}]]
        /\ UNCHANGED <<accepted, attempts, replacedBy>>
        /\ Waiting' = {}
    BY <1>2, ItemFields DEF Drain, Waiting
  <2>2. /\ server'[s].items = {events[k] : k \in Waiting}
        /\ \A t \in Servers \ {s} : server'[t] = server[t]
    BY <2>1 DEF TypeOK
  <2>3. \A it \in server'[s].items : \E k \in Waiting : it = events[k] /\ KeyOf(it) = k
    BY <2>2 DEF Placed, KeyOf
  <2>4. HeldInOrder'
    BY <1>a, <2>1, <2>2, <2>3 DEF WaitsInOrder, HeldInOrder, KeyOf, Accepted
  <2>5. HeldOnce'
    BY <1>a, <2>1, <2>2, <2>3 DEF HeldOnce, KeyOf
  <2> QED
    BY <1>a, <2>1, <2>4, <2>5 DEF WaitsInOrder, HeldIsOlder, ReplacedByNewer
<1>3. ASSUME NEW s \in Servers, Send(s)
      PROVE  Ordered'
  <2>1. PICK failed \in SUBSET server[s].items :
          server' = [server EXCEPT ![s] =
                      IF failed = {} THEN Idle ELSE [pc |-> "retry", items |-> failed]]
    BY <1>3 DEF Send, Failures, FcmFailures, UpstreamFailures
  <2>2. /\ server'[s].items \subseteq server[s].items
        /\ \A t \in Servers \ {s} : server'[t] = server[t]
    BY <2>1 DEF TypeOK, Idle
  <2>3. /\ UNCHANGED <<events, accepted, replacedBy>>
        /\ attempts' = [i \in Ids |-> IF i \in IdsOf(server[s].items) THEN attempts[i] + 1
                                      ELSE attempts[i]]
    BY <1>3 DEF Send
  (* What is sent now is in hand, and one server only has any in hand.     *)
  <2>4. \A j \in Accepted : attempts'[j] > 0 =>
          attempts[j] > 0 \/ \E jt \in server[s].items : jt.id = j
    <3>1. Accepted \subseteq Ids
      BY Counters DEF TypeOK, Accepted, Ids
    <3> QED
      BY <2>3, <3>1 DEF IdsOf
  <2>5. \A t \in Servers : server[t].items # {} /\ server[s].items # {} => t = s
    BY <1>a DEF Placed, OneSender
  <2>6. HeldInOrder'
    <3> SUFFICES ASSUME NEW t \in Servers, NEW it \in server'[t].items, NEW j \in Accepted,
                        accepted[j] = KeyOf(it), attempts'[j] > 0
                 PROVE  j <= it.id
      BY <2>3 DEF HeldInOrder, KeyOf, Accepted
    <3>0. it \in server[t].items
      BY <2>2
    <3>1. CASE attempts[j] > 0
      BY <1>a, <3>0, <3>1 DEF HeldInOrder
    <3>2. CASE \E jt \in server[s].items : jt.id = j
      BY <1>a, <1>b, <2>5, <3>0, <3>2 DEF HeldOnce, KeyOf
    <3> QED
      BY <2>4, <3>1, <3>2
  <2>7. WaitsInOrder'
    <3> SUFFICES ASSUME NEW k \in Waiting, NEW j \in Accepted,
                        accepted[j] = k, attempts'[j] > 0
                 PROVE  j <= events[k].id
      BY <2>3 DEF WaitsInOrder, Waiting, Accepted
    <3>1. CASE attempts[j] > 0
      BY <1>a, <3>1 DEF WaitsInOrder
    <3>2. CASE \E jt \in server[s].items : jt.id = j
      BY <1>a, <3>2 DEF HeldIsOlder, KeyOf
    <3> QED
      BY <2>4, <3>1, <3>2
  <2>8. HeldOnce'
    BY <1>a, <2>2, <2>3 DEF HeldOnce, KeyOf
  <2>9. HeldIsOlder'
    BY <1>a, <2>2, <2>3 DEF HeldIsOlder, KeyOf, Waiting
  <2> QED
    BY <1>a, <2>3, <2>6, <2>7, <2>8, <2>9 DEF ReplacedByNewer
<1>4. ASSUME NEW s \in Servers, Retry(s)
      PROVE  Ordered'
  <2>1. /\ UNCHANGED <<accepted, attempts>>
        /\ \A t \in Servers \ {s} : server'[t] = server[t]
    BY <1>4, RetryEffect
  <2>2. PICK it \in server[s].items :
          /\ server'[s].items = server[s].items \ {it}
          /\ it \in Item /\ it.id \in Accepted /\ accepted[it.id] \in Keys
          /\ \/ LastTry(it) /\ GiveUp(it) /\ UNCHANGED <<events, lost, replacedBy>>
             \/ ~LastTry(it) /\ PutBack(it) /\ UNCHANGED <<blacklist, settled>>
    BY <1>4, RetryEffect
  <2>3. \A t \in Servers : server'[t].items \subseteq server[t].items
    BY <2>1, <2>2
  <2>4. HeldInOrder' /\ HeldOnce'
    BY <1>a, <2>1, <2>3 DEF HeldInOrder, HeldOnce, KeyOf, Accepted
  (* What gives way gives way to the event that waits, which is newer.     *)
  <2>7. ReplacedByNewer'
    <3>1. CASE UNCHANGED replacedBy
      BY <1>a, <3>1 DEF ReplacedByNewer
    <3>2. CASE ~UNCHANGED replacedBy
      <4>1. /\ events[KeyOf(it)] # Nothing
            /\ replacedBy' = [replacedBy EXCEPT ![it.id] = events[KeyOf(it)].id]
        BY <2>2, <3>2 DEF PutBack
      <4>2. KeyOf(it) \in Waiting
        BY <2>2, <4>1, WaitingItem DEF KeyOf
      <4>3. it.id <= events[KeyOf(it)].id /\ it.id # events[KeyOf(it)].id
        BY <1>a, <4>2 DEF HeldIsOlder, Placed
      <4>4. it.id \in Nat /\ events[KeyOf(it)].id \in Nat
        BY <1>b, <4>2, WaitingItem, ItemFields, Counters
      <4>5. it.id < events[KeyOf(it)].id
        BY <4>3, <4>4
      <4> QED
        BY <1>a, <4>1, <4>5 DEF ReplacedByNewer, TypeOK
    <3> QED
      BY <3>1, <3>2
  <2>5. CASE UNCHANGED events
    BY <1>a, <2>1, <2>3, <2>4, <2>5, <2>7 DEF WaitsInOrder, HeldIsOlder, KeyOf, Accepted, Waiting
  <2>6. CASE ~UNCHANGED events
    <3>1. PICK m \in Keys, w \in Item :
            /\ m = accepted[it.id] /\ w.id = it.id
            /\ m \notin Waiting
            /\ Waiting' = Waiting \cup {m}
            /\ events'[m] = w
            /\ \A j \in Keys \ {m} : events'[j] = events[j]
      BY <2>2, <2>6, BackEffect
    <3>2. \A j \in Accepted : accepted[j] = m /\ attempts[j] > 0 => j <= w.id
      BY <1>a, <2>2, <3>1 DEF HeldInOrder, KeyOf
    <3>3. WaitsInOrder'
      BY <1>a, <2>1, <3>1, <3>2, WaitingItem DEF WaitsInOrder, Accepted
    (* Nothing else is held under the key of the event put back.           *)
    <3>4. \A t \in Servers : server'[t].items # {} => t = s
      BY <1>a, <2>1, <2>2 DEF Placed, OneSender
    <3>5. \A jt \in server'[s].items : accepted[jt.id] # m
      BY <1>a, <2>2, <3>1 DEF HeldOnce, KeyOf
    <3>6. HeldIsOlder'
      BY <1>a, <2>1, <2>3, <3>1, <3>4, <3>5, WaitingItem DEF HeldIsOlder, KeyOf
    <3> QED
      BY <2>4, <2>7, <3>3, <3>6
  <2> QED
    BY <2>5, <2>6
<1>5. ASSUME NEW s \in Servers, Restart(s)
      PROVE  Ordered'
  <2>1. server' = [server EXCEPT ![s] = Idle] /\ UNCHANGED <<accepted, attempts, replacedBy>>
    BY <1>5 DEF Restart
  <2>2. \A t \in Servers : server'[t].items \subseteq server[t].items
    BY <2>1 DEF TypeOK, Idle
  <2>3. \A k \in Waiting' : k \in Waiting /\ events'[k] = events[k]
    BY <1>5, ItemFields DEF Restart, Waiting
  <2>4. HeldInOrder' /\ HeldOnce' /\ HeldIsOlder'
    BY <1>a, <2>1, <2>2, <2>3 DEF HeldInOrder, HeldOnce, HeldIsOlder, KeyOf, Accepted
  <2> QED
    BY <1>a, <2>1, <2>3, <2>4 DEF WaitsInOrder, ReplacedByNewer, Accepted
<1>6. ASSUME UNCHANGED <<events, server, accepted, attempts, replacedBy>>
      PROVE  Ordered'
  BY <1>a, <1>6 DEF WaitsInOrder, HeldInOrder, HeldOnce, HeldIsOlder, ReplacedByNewer, KeyOf,
     Accepted, Waiting
<1>7. ASSUME NEW c \in Callers, Put(c), UNCHANGED <<accepted, events, replacedBy>>
      PROVE  Ordered'
  BY <1>6, <1>7 DEF Put
<1> QED
  BY <1>1, <1>2, <1>3, <1>4, <1>5, <1>6, <1>7 DEF Next, postPush, CheckBlacklist, Forgive, vars

(* While one server sends, a retry never undoes a newer event: none is     *)
(* sent after a newer one of its key, and the newest is never dropped for  *)
(* an older one.                                                           *)
THEOREM NewerNeverUndoneAlways == Spec => []NewerNeverUndone
<1>1. Init => NewestWins
  <2> SUFFICES ASSUME Init PROVE NewestWins
    OBVIOUS
  <2>1. Waiting = {} /\ \A s \in Servers : server[s].items = {}
    BY ItemFields DEF Init, Waiting, Idle
  <2>2. ReplacedByNewer
    BY DEF Init, ReplacedByNewer
  <2> QED
    BY <2>1, <2>2 DEF NewestWins, WaitsInOrder, HeldInOrder, HeldOnce, HeldIsOlder
<1>2. Sound /\ NewestWins /\ [Next]_vars => NewestWins'
  BY OrderedStep
<1>3. Sound /\ Accounted /\ NewestWins => NewerNeverUndone
  <2> SUFFICES ASSUME Sound, Accounted, NewestWins, OneSender PROVE SentInOrder /\ NewestKept
    BY DEF NewerNeverUndone
  <2>1. HeldInOrder /\ ReplacedByNewer
    BY DEF NewestWins
  <2>2. SentInOrder
    BY <2>1 DEF HeldInOrder, SentInOrder
  <2>3. NewestKept
    <3> SUFFICES ASSUME NEW i \in Accepted,
                        \A j \in Accepted : accepted[j] = accepted[i] => j <= i,
                        i \notin settled \cup lost \cup Pending
                 PROVE  FALSE
      BY DEF NewestKept
    <3>1. replacedBy[i] \in Accepted /\ accepted[replacedBy[i]] = accepted[i]
      BY DEF Accounted
    <3>2. Accepted \subseteq Ids /\ Ids \subseteq Nat \ {0}
      BY Counters DEF Sound, TypeOK, Accepted, Ids
    <3>3. replacedBy[i] # 0 /\ replacedBy[i] \in Nat /\ i \in Nat
      BY <3>1, <3>2
    <3>4. i < replacedBy[i]
      BY <2>1, <3>2, <3>3 DEF ReplacedByNewer
    <3> QED
      BY <3>1, <3>3, <3>4
  <2> QED
    BY <2>2, <2>3
<1>4. Init => Accounted
  BY DEF Init, Accounted, Accepted
<1>5. Sound /\ Accounted /\ [Next]_vars => Accounted'
  BY AccountedStep
<1> QED
  BY <1>1, <1>2, <1>3, <1>4, <1>5, SoundInit, SoundStep, PTL DEF Spec
=============================================================================
