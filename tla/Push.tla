-------------------------------- MODULE Push --------------------------------
(***************************************************************************)
(* The push service of the SMS gateway server                              *)
(* (internal/sms-gateway/modules/push): notifications for devices wait in  *)
(* a cache, one for each device token and event type, until the ticker of  *)
(* some server drains them, hands them to the provider, and puts back what *)
(* failed; a token that failed too often is blacklisted for a while.       *)
(*                                                                         *)
(* Every step is one operation on a cache or one call of the provider.     *)
(* Several servers may share one cache (redis://); each has its own ticker *)
(* loop, which sends and retries before it ticks again.                    *)
(***************************************************************************)
EXTENDS Naturals, Sequences, FiniteSets

CONSTANTS
  Servers,         \* server processes
  Private,         \* those that push through the upstream server, not fcm
  Callers,         \* goroutines that call Enqueue
  Tokens,          \* push tokens of devices
  Types,           \* event types
  maxRetries,      \* failed attempts after which an event is given up
  MaxEvents,       \* bound: events accepted in a behaviour
  CacheMayFail     \* a cache operation may fail (redis:// only)

ASSUME ConstantsAssumption ==
  /\ Private \subseteq Servers
  /\ Tokens # {} /\ Types # {}
  /\ maxRetries \in Nat \ {0}
  /\ MaxEvents \in Nat
  /\ CacheMayFail \in BOOLEAN

VARIABLES
  events,          \* the cache of waiting events: key -> item
  blacklist,       \* the blacklisted tokens
  caller,          \* the progress of every Enqueue
  server,          \* the progress of every sendAll
  accepted,        \* history: the keys of the accepted events, in order
  attempts,        \* history: how often each accepted event was sent
  settled,         \* history: events sent without error or given up
  lost,            \* history: events a crash or a failing cache lost
  replacedBy,      \* history: the event that took an event's place, or 0
  used             \* history: servers that have taken events out

vars == <<events, blacklist, caller, server, accepted, attempts, settled, lost, replacedBy, used>>

-----------------------------------------------------------------------------
(* Events are numbered in the order in which they are accepted; number 0   *)
(* marks a key under which nothing waits.                                  *)

Keys == Tokens \X Types
Ids == 1 .. MaxEvents
Item == [id : Ids, retries : 0 .. maxRetries - 1]
Nothing == [id |-> 0, retries |-> 0]

Accepted == 1 .. Len(accepted)
KeyOf(it) == accepted[it.id]
TokenOf(it) == KeyOf(it)[1]
Waiting == {k \in Keys : events[k].id # 0}
IdsOf(S) == {it.id : it \in S}

Idle == [pc |-> "idle", items |-> {}]

Init ==
  /\ events = [k \in Keys |-> Nothing]
  /\ blacklist = {}
  /\ caller = [c \in Callers |-> [pc |-> "idle", key |-> CHOOSE k \in Keys : TRUE]]
  /\ server = [s \in Servers |-> Idle]
  /\ accepted = <<>>
  /\ attempts = [i \in Ids |-> 0]
  /\ settled = {}
  /\ lost = {}
  /\ replacedBy = [i \in Ids |-> 0]
  /\ used = {}

-----------------------------------------------------------------------------
(* Enqueue: an event for a blacklisted token is skipped; a blacklist that  *)
(* cannot be read blacklists nobody.                                       *)
CheckBlacklist(c, k) ==
  /\ caller[c].pc = "idle"
  /\ k[1] \notin blacklist \/ CacheMayFail
  /\ caller' = [caller EXCEPT ![c] = [pc |-> "put", key |-> k]]
  /\ UNCHANGED <<events, blacklist, server, accepted, attempts, settled, lost, replacedBy, used>>

(* ... then the event takes the place of one that waits under its key, and *)
(* has no failed attempts yet.                                             *)
Put(c) ==
  /\ caller[c].pc = "put"
  /\ \/ /\ Len(accepted) < MaxEvents
        /\ accepted' = Append(accepted, caller[c].key)
        /\ events' = [events EXCEPT ![caller[c].key] = [id |-> Len(accepted) + 1, retries |-> 0]]
        /\ replacedBy' = IF caller[c].key \in Waiting
                         THEN [replacedBy EXCEPT ![events[caller[c].key].id] = Len(accepted) + 1]
                         ELSE replacedBy
     \/ /\ CacheMayFail
        /\ UNCHANGED <<accepted, events, replacedBy>>
  /\ caller' = [caller EXCEPT ![c].pc = "idle"]
  /\ UNCHANGED <<blacklist, server, attempts, settled, lost, used>>

(* A request of a private server enqueues its events one after the other,  *)
(* and goes on when one cannot be; the events service enqueues one.        *)
postPush(c) == \E k \in Keys : CheckBlacklist(c, k)

-----------------------------------------------------------------------------
(* Fault: only events that have not failed yet are taken out.              *)
Drain_FreshOnly(s) ==
  LET Fresh == {k \in Waiting : events[k].retries = 0}
  IN  /\ server[s].pc = "idle"
      /\ Fresh # {}
      /\ server' = [server EXCEPT ![s] = [pc |-> "send", items |-> {events[k] : k \in Fresh}]]
      /\ events' = [k \in Keys |-> IF k \in Fresh THEN Nothing ELSE events[k]]
      /\ used' = used \cup {s}
      /\ UNCHANGED <<blacklist, caller, accepted, attempts, settled, lost, replacedBy>>

(* sendAll: everything that waits is taken out of the cache at once ...    *)
Drain(s) ==
  /\ server[s].pc = "idle"
  /\ Waiting # {}
  /\ server' = [server EXCEPT ![s] = [pc |-> "send", items |-> {events[k] : k \in Waiting}]]
  /\ events' = [k \in Keys |-> Nothing]
  /\ used' = used \cup {s}
  /\ UNCHANGED <<blacklist, caller, accepted, attempts, settled, lost, replacedBy>>

(* ... and sent.  With fcm each event has a request of its own, and may    *)
(* fail; upstream there is one request, and all of them do or none does.   *)
(* What is said to have failed may have arrived all the same.              *)
FcmFailures(items) == SUBSET items
UpstreamFailures(items) == {{}, items}

Failures(s) ==
  IF s \in Private THEN UpstreamFailures(server[s].items) ELSE FcmFailures(server[s].items)

Send(s) ==
  /\ server[s].pc = "send"
  /\ \E failed \in Failures(s) :
       /\ server' = [server EXCEPT ![s] =
                       IF failed = {} THEN Idle ELSE [pc |-> "retry", items |-> failed]]
       /\ settled' = settled \cup IdsOf(server[s].items \ failed)
  /\ attempts' = [i \in Ids |-> IF i \in IdsOf(server[s].items) THEN attempts[i] + 1
                                ELSE attempts[i]]
  /\ UNCHANGED <<events, blacklist, caller, accepted, lost, replacedBy, used>>

(* retry: a failed event goes back unless a newer one waits under its key. *)

(* Fault: the attempt is not counted.                                      *)
PutBack_Uncounted(it) ==
  /\ events' = IF events[KeyOf(it)] = Nothing THEN [events EXCEPT ![KeyOf(it)] = it] ELSE events
  /\ UNCHANGED <<lost, replacedBy>>

(* Fault: it goes back whatever waits under its key (Set, not SetOrFail).  *)
PutBack_Overwrites(it) ==
  /\ events' = [events EXCEPT ![KeyOf(it)] = [id |-> it.id, retries |-> it.retries + 1]]
  /\ replacedBy' = IF KeyOf(it) \in Waiting
                   THEN [replacedBy EXCEPT ![events[KeyOf(it)].id] = it.id] ELSE replacedBy
  /\ UNCHANGED lost

PutBack(it) ==
  \/ /\ events[KeyOf(it)] = Nothing
     /\ events' = [events EXCEPT ![KeyOf(it)] = [id |-> it.id, retries |-> it.retries + 1]]
     /\ UNCHANGED <<lost, replacedBy>>
  \/ /\ events[KeyOf(it)] # Nothing
     /\ replacedBy' = [replacedBy EXCEPT ![it.id] = events[KeyOf(it)].id]
     /\ UNCHANGED <<events, lost>>
  \/ /\ CacheMayFail
     /\ lost' = lost \cup {it.id}
     /\ UNCHANGED <<events, replacedBy>>

LastTry(it) == it.retries + 1 >= maxRetries

(* Its last failure blacklists its token instead.                          *)
GiveUp(it) ==
  /\ \/ blacklist' = blacklist \cup {TokenOf(it)}
     \/ CacheMayFail /\ UNCHANGED blacklist
  /\ settled' = settled \cup {it.id}

(* Fault: the loop ends at the first event that is given up.               *)
Retry_Breaks(s) ==
  /\ server[s].pc = "retry"
  /\ \E it \in server[s].items :
       /\ server' = [server EXCEPT ![s] =
                       IF server[s].items = {it} \/ LastTry(it) THEN Idle
                       ELSE [pc |-> "retry", items |-> server[s].items \ {it}]]
       /\ \/ LastTry(it) /\ GiveUp(it) /\ UNCHANGED <<events, lost, replacedBy>>
          \/ ~LastTry(it) /\ PutBack(it) /\ UNCHANGED <<blacklist, settled>>
  /\ UNCHANGED <<caller, accepted, attempts, used>>

Retry(s) ==
  /\ server[s].pc = "retry"
  /\ \E it \in server[s].items :
       /\ server' = [server EXCEPT ![s] =
                       IF server[s].items = {it} THEN Idle
                       ELSE [pc |-> "retry", items |-> server[s].items \ {it}]]
       /\ \/ LastTry(it) /\ GiveUp(it) /\ UNCHANGED <<events, lost, replacedBy>>
          \/ ~LastTry(it) /\ PutBack(it) /\ UNCHANGED <<blacklist, settled>>
  /\ UNCHANGED <<caller, accepted, attempts, used>>

(* A token stays blacklisted for blacklistTimeout.                         *)
Forgive(t) ==
  /\ t \in blacklist
  /\ blacklist' = blacklist \ {t}
  /\ UNCHANGED <<events, caller, server, accepted, attempts, settled, lost, replacedBy, used>>

(* A server stops and starts again: what it holds is lost, and the caches  *)
(* too when they live in the process (or redis starts anew as well).       *)
Restart(s) ==
  /\ server' = [server EXCEPT ![s] = Idle]
  /\ \/ /\ lost' = lost \cup IdsOf(server[s].items)
        /\ UNCHANGED <<events, blacklist, caller>>
     \/ /\ lost' = lost \cup IdsOf(server[s].items) \cup {events[k].id : k \in Waiting}
        /\ events' = [k \in Keys |-> Nothing]
        /\ blacklist' = {}
        /\ caller' = [c \in Callers |-> [caller[c] EXCEPT !.pc = "idle"]]
  /\ UNCHANGED <<accepted, attempts, settled, replacedBy, used>>

-----------------------------------------------------------------------------
Next ==
  \/ \E c \in Callers : postPush(c) \/ Put(c)
  \/ \E s \in Servers : Drain(s) \/ Send(s) \/ Retry(s) \/ Restart(s)
  \/ \E t \in Tokens : Forgive(t)

Spec == Init /\ [][Next]_vars

(* Each server's ticker keeps ticking, a call of the provider ends (it has *)
(* a timeout), and the loop over what failed goes on.                      *)
FairSpec ==
  Spec /\ \A s \in Servers : WF_vars(Drain(s)) /\ WF_vars(Send(s)) /\ WF_vars(Retry(s))

-----------------------------------------------------------------------------
(* Properties.                                                             *)

(* Every variable keeps to its type.                                       *)
TypeOK ==
  /\ events \in [Keys -> Item \cup {Nothing}]
  /\ blacklist \subseteq Tokens
  /\ caller \in [Callers -> [pc : {"idle", "put"}, key : Keys]]
  /\ server \in [Servers -> [pc : {"idle", "send", "retry"}, items : SUBSET Item]]
  /\ accepted \in Seq(Keys) /\ Len(accepted) <= MaxEvents
  /\ attempts \in [Ids -> Nat]
  /\ settled \subseteq Ids
  /\ lost \subseteq Ids
  /\ replacedBy \in [Ids -> Ids \cup {0}]
  /\ used \subseteq Servers

(* The items in hand and in the cache.                                     *)
InCache == {events[k] : k \in Waiting}
InHand == UNION {server[s].items : s \in Servers}
Pending == IdsOf(InCache \cup InHand)

(* Every accepted event is sent, given up, still pending, lost to a crash  *)
(* or a failing cache, or gave way to the event that took its place under  *)
(* its key: a newer one that was put while it waited, or one that waited   *)
(* when it should have gone back.  The loop that sends and retries forgets *)
(* none, however often events of one token and type follow each other.     *)
Accounted ==
  \A i \in Accepted :
    \/ i \in settled \cup lost \cup Pending
    \/ /\ replacedBy[i] \in Accepted \ {i}
       /\ accepted[replacedBy[i]] = accepted[i]

(* However Enqueue, the ticker loops and restarts interleave, the number   *)
(* of failures an event carries is the number of times it was sent, so no  *)
(* event is sent more than maxRetries times.                               *)
RetriesCountAttempts ==
  /\ \A k \in Waiting : attempts[events[k].id] = events[k].retries
  /\ \A s \in Servers : \A it \in server[s].items :
       attempts[it.id] = IF server[s].pc = "send" THEN it.retries ELSE it.retries + 1
  /\ \A i \in Ids : attempts[i] <= maxRetries

(* A token is blacklisted only after some event for it failed maxRetries   *)
(* times.                                                                  *)
BlacklistEarned ==
  \A t \in blacklist : \E i \in Accepted : accepted[i][1] = t /\ attempts[i] >= maxRetries

(* While one server sends, a retry never undoes a newer event.  What is    *)
(* about to be sent is not older than what was sent before under the same  *)
(* key, and the newest event of a key never gives way to an older one: it  *)
(* is sent, given up, still pending, or a crash or a failing cache lost    *)
(* it.  (Two servers may undo one: an event that one puts back while the   *)
(* other has the newer one in hand keeps that one from going back.)        *)
OneSender == \A s, t \in used : s = t

SentInOrder ==
  \A s \in Servers : server[s].pc = "send" =>
    \A it \in server[s].items, j \in Accepted :
      accepted[j] = KeyOf(it) /\ attempts[j] > 0 => j <= it.id

NewestKept ==
  \A i \in Accepted :
    (\A j \in Accepted : accepted[j] = accepted[i] => j <= i) => i \in settled \cup lost \cup Pending

NewerNeverUndone == OneSender => SentInOrder /\ NewestKept

(* The inductive invariant behind it: what waits or is held, sent or to be *)
(* put back, is not older than what was sent under its key; a server holds *)
(* at most one event of each key, and a newer one may wait; whatever gave  *)
(* way gave way to a newer one.                                            *)
WaitsInOrder ==
  \A k \in Waiting : \A j \in Accepted :
    accepted[j] = k /\ attempts[j] > 0 => j <= events[k].id

HeldInOrder ==
  \A s \in Servers : \A it \in server[s].items : \A j \in Accepted :
    accepted[j] = KeyOf(it) /\ attempts[j] > 0 => j <= it.id

HeldOnce ==
  \A s \in Servers : \A it, jt \in server[s].items : KeyOf(it) = KeyOf(jt) => it = jt

HeldIsOlder ==
  \A s \in Servers : \A it \in server[s].items :
    KeyOf(it) \in Waiting => it.id <= events[KeyOf(it)].id

ReplacedByNewer == \A i \in Ids : replacedBy[i] # 0 => i < replacedBy[i]

NewestWins ==
  OneSender => WaitsInOrder /\ HeldInOrder /\ HeldOnce /\ HeldIsOlder /\ ReplacedByNewer

(* No event is pending for ever: it is sent, given up, replaced or lost.   *)
EventuallyResolved == \A i \in Ids : (i \in Pending) ~> (i \notin Pending)

=============================================================================
