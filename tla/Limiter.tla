------------------------------- MODULE Limiter -------------------------------
(***************************************************************************)
(* The limiter of a device's queue (internal/sms-gateway/modules/messages: *)
(* limiter.go and the statistics of repository.go).                        *)
(*                                                                         *)
(* Every Enqueue asks for a refresh of its device's statistics and then    *)
(* consults the last ones; a goroutine takes all requests there are, under *)
(* the mutex, and computes what they ask for one after the other.          *)
(***************************************************************************)
EXTENDS Naturals, FiniteSets, SequencesExt

CONSTANTS
  DeviceIds,       \* the devices of the user
  MaxPending, MaxPendingAge,   \* the configured limits of the pending messages
  MaxFailed, MaxFailedAge,     \* and of the last ones that failed; 0: no limit
  MaxQueue                     \* bound: the messages of a device

ASSUME LimiterAssumption ==
  {MaxPending, MaxPendingAge, MaxFailed, MaxFailedAge, MaxQueue} \subseteq Nat

VARIABLES
  item,            \* the cache: the reason why a device takes no messages
  refreshQueue,    \* requests for a refresh
  batch,           \* requests the goroutine has taken, and not served
  found,           \* what it found out about one of them
  asked            \* history: asked for since the server started, not computed since

limiterVars == <<item, refreshQueue, batch, found, asked>>

Nothing == [device |-> "none", reason |-> ""]

LimiterInit ==
  /\ item = [d \in DeviceIds |-> ""]
  /\ refreshQueue = {} /\ batch = {} /\ asked = {}
  /\ found = Nothing

(* Fault: a device that is being served is not queued.                     *)
Refresh_Skips(d) ==
  /\ refreshQueue' = IF d \in batch THEN refreshQueue ELSE refreshQueue \cup {d}
  /\ asked' = asked \cup {d}

Refresh(d) ==
  /\ refreshQueue' = refreshQueue \cup {d}
  /\ asked' = asked \cup {d}

IsEmpty == MaxPending = 0 /\ MaxPendingAge = 0 /\ MaxFailed = 0

Check(d) == IsEmpty \/ item[d] = ""

(* process: the requests are taken.                                        *)
TakeBatch ==
  /\ batch = {} /\ refreshQueue # {}
  /\ batch' = refreshQueue /\ refreshQueue' = {}
  /\ UNCHANGED <<item, found, asked>>

(* What a device's queue can be, the oldest message first: how long each   *)
(* message is there, and whether it is scheduled for later.                *)
MaxAge == MaxPendingAge + MaxFailedAge
QueuedMessages == [state : {"Pending", "Failed", "Sent"}, age : 0..MaxAge, later : BOOLEAN]
Queues == {q \in UNION {[1..n -> QueuedMessages] : n \in 0..MaxQueue} :
             \A i, j \in DOMAIN q : i < j => q[i].age >= q[j].age}

Waiting(q) == SelectSeq(q, LAMBDA x : x.state = "Pending" /\ ~x.later)
CountPending(q) == Len(Waiting(q))
GetStatesInTimeWindow(q) ==
  LET recent == SelectSeq(q, LAMBDA x : x.age <= MaxFailedAge)
  IN  SubSeq(recent, IF Len(recent) > MaxFailed THEN Len(recent) - MaxFailed + 1 ELSE 1, Len(recent))

(* The limits that a queue exceeds.                                        *)
checkOldestPending(q) ==
  MaxPendingAge > 0 /\ CountPending(q) > 0 /\ Head(Waiting(q)).age > MaxPendingAge
checkMaxPending(q) == MaxPending > 0 /\ CountPending(q) >= MaxPending
checkLastStates(q) ==
  LET last == GetStatesInTimeWindow(q) IN
  /\ MaxFailed > 0 /\ MaxFailedAge > 0
  /\ Len(last) = MaxFailed
  /\ \A i \in DOMAIN last : last[i].state = "Failed"

(* A query that fails limits nothing.                                      *)
processDevice(q, failing) ==
  IF \/ checkOldestPending(q) /\ "oldest" \notin failing
     \/ checkMaxPending(q) /\ "pending" \notin failing
     \/ checkLastStates(q) /\ "last" \notin failing
  THEN "exceeded" ELSE ""

(* The messages are others' business: a device's queue may be any.         *)
Reasons == {processDevice(q, failing) :
              q \in Queues, failing \in SUBSET {"oldest", "pending", "last"}}

ProcessDevice(d) ==
  /\ found = Nothing /\ d \in batch
  /\ \E reason \in Reasons : found' = [device |-> d, reason |-> reason]
  /\ asked' = asked \ {d}
  /\ UNCHANGED <<item, refreshQueue, batch>>

(* ... and is cached, unless that fails.                                   *)
StoreItem ==
  /\ found # Nothing
  /\ item' \in {item, [item EXCEPT ![found.device] = found.reason]}
  /\ batch' = batch \ {found.device}
  /\ found' = Nothing
  /\ UNCHANGED <<refreshQueue, asked>>

(* The statistics are forgotten StatsCacheTTL later.                       *)
ForgetItem(d) ==
  /\ item[d] # "" /\ item' = [item EXCEPT ![d] = ""]
  /\ UNCHANGED <<refreshQueue, batch, found, asked>>

(* The requests are in the server's memory, and gone when it stops; so are *)
(* the statistics, unless they are cached in redis.                        *)
Restart ==
  /\ item' \in {item, [d \in DeviceIds |-> ""]}
  /\ refreshQueue' = {} /\ batch' = {} /\ asked' = {}
  /\ found' = Nothing

Pass == TakeBatch \/ (\E d \in DeviceIds : ProcessDevice(d)) \/ StoreItem
LimiterStep == Pass \/ \E d \in DeviceIds : ForgetItem(d)

-----------------------------------------------------------------------------
(* A refresh that was asked for waits for the goroutine, or is in its      *)
(* hands and not computed yet.                                             *)
RefreshKept ==
  \A d \in asked : \/ d \in refreshQueue
                   \/ d \in batch /\ (found = Nothing \/ found.device # d)

(* A refresh that was asked for is computed afterwards, also when the      *)
(* request comes in while the goroutine is at work on the same device,     *)
(* unless the server stops first.                                          *)
RefreshServed == \A d \in DeviceIds : d \in asked ~> d \notin asked
=============================================================================
