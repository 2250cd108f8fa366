------------------------------- MODULE Devices -------------------------------
(***************************************************************************)
(* Devices of the SMS gateway server's users (internal/sms-gateway:        *)
(* modules devices, auth, webhooks, online and otp, the middlewares        *)
(* userauth and deviceauth, the handlers of /mobile/v1/device and of       *)
(* /3rdparty/v1/devices and /webhooks; internal/worker/tasks/devices).     *)
(*                                                                         *)
(* A device registers, alone or with a code of its user's, and from then   *)
(* on shows its token.  Every server caches devices in two maps, by id and *)
(* by token; each access of a map, each statement of the database and each *)
(* access of the cache of online statuses, which the servers share, is a   *)
(* step.                                                                   *)
(***************************************************************************)
EXTENDS Naturals, FiniteSets

CONSTANTS
  Servers,         \* server processes
  Clients,         \* requests that may be under way
  Users,           \* user names the servers may give out
  DeviceIds,       \* device ids the servers may give out
  HookIds,         \* ids of webhooks, the users choose them
  HookTargets,     \* the devices webhooks are asked for, or NoDevice: all of them
  Codes,           \* registration codes that may be drawn
  Public,          \* anybody may register
  Keys, PrivateToken,   \* keys that may be shown, and the right one
  MaxCodes,        \* bound: codes generated in a behaviour
  MaxRequests,     \* bound: requests started in a behaviour
  MaxTime,         \* bound: the time
  MaxAge           \* how long after it was seen a device may be deleted

ASSUME ConstantsAssumption ==
  /\ MaxTime \in Nat /\ MaxAge \in Nat /\ MaxCodes \in Nat /\ MaxRequests \in Nat
  /\ IsFiniteSet(Codes)

NoUser == "nobody"
NoDevice == "all devices"
NoHook == "no hook"
ASSUME NoneAssumption ==
  /\ NoUser \notin Users /\ {NoDevice, NoHook} \cap DeviceIds = {}
  /\ HookTargets \subseteq DeviceIds \cup {NoDevice}

VARIABLES
  users,           \* the users table
  owner,           \* the devices table: the user of each device, NoUser: no row
  lastSeen,        \* its column last_seen
  hooks,           \* the webhooks table: the device of each webhook of a user
  codes,           \* registration codes in store: the user of each
  byID, byToken,   \* the devices each server has cached, in both maps
  online,          \* statuses not persisted yet: when each device was seen
  drained,         \* statuses each server has drained and is to persist
  now,             \* the time
  request,         \* the progress of every request
  started,         \* the number of requests started
  generated,       \* history: codes generated
  entered,         \* history: requests a code let in
  born             \* history: ids given out

stores == <<users, owner, lastSeen, hooks, codes>>
caches == <<byID, byToken>>
seen == <<online, drained, now>>
history == <<generated, entered, born>>
vars == <<stores, caches, seen, request, started, history>>

-----------------------------------------------------------------------------
Times == 1 .. MaxTime + 1                     \* zero stands for never
HookNames == Users \X HookIds                 \* unq_webhooks_user_extid

Rows == {d \in DeviceIds : owner[d] # NoUser}
Removed(d) == d \in born /\ owner[d] = NoUser

(* A request registers a device, comes from one or removes one, or saves a *)
(* webhook.                                                                *)
Requests ==
  [pc : {"idle"}]
    \cup [pc : {"insert"}, user : Users]
    \cup [pc : {"select", "setID", "setToken", "stamp", "evict", "evictToken", "delete"},
          server : Servers, device : DeviceIds, job : {"pull", "update", "remove"}]
    \cup [pc : {"online"}, server : Servers, device : DeviceIds,
          job : {"pull", "update", "remove"}, at : Times]
    \cup [pc : {"save"}, hook : HookNames, device : DeviceIds \cup {NoDevice}]

Idle == [pc |-> "idle"]
Busy(c) == request[c].pc # "idle"
Ready(c) == ~Busy(c) /\ started < MaxRequests
At(c, label) == request[c].pc = label
Go(c, r) == request' = [request EXCEPT ![c] = r]
GoTo(c, label) == request' = [request EXCEPT ![c].pc = label]
End(c) == Go(c, Idle)

Init ==
  /\ users = {}
  /\ owner = [d \in DeviceIds |-> NoUser]
  /\ lastSeen = [d \in DeviceIds |-> 0]
  /\ hooks = [h \in HookNames |-> NoHook]
  /\ codes = [k \in Codes |-> NoUser]
  /\ byID = [s \in Servers |-> {}] /\ byToken = [s \in Servers |-> {}]
  /\ online = [d \in DeviceIds |-> 0]
  /\ drained = [s \in Servers |-> [d \in DeviceIds |-> 0]]
  /\ now = 1
  /\ request = [c \in Clients |-> Idle] /\ started = 0
  /\ generated = 0 /\ entered = 0 /\ born = {}

-----------------------------------------------------------------------------
(* Registration: POST /mobile/v1/device.                                   *)

(* The store of codes: SetOrFail and GetAndDelete, each done at once.      *)
StoreCode(k, u) == codes[k] = NoUser /\ codes' = [codes EXCEPT ![k] = u]
TakeCode(k) == codes[k] # NoUser /\ codes' = [codes EXCEPT ![k] = NoUser]

(* A code nobody holds is drawn, within a few tries.                       *)
GenerateUserCode(u) == \E k \in Codes : StoreCode(k, u)

(* getUserCode, for a user who logged in.                                  *)
getUserCode(c, u) ==
  /\ Ready(c) /\ u \in users /\ generated < MaxCodes
  /\ GenerateUserCode(u)
  /\ generated' = generated + 1
  /\ UNCHANGED <<users, owner, lastSeen, hooks, caches, seen, request, entered, born>>

(* Its time is over.                                                       *)
ExpireCode(k) ==
  /\ TakeCode(k)
  /\ UNCHANGED <<users, owner, lastSeen, hooks, caches, seen, request, started, history>>

(* postDevice for a user; the row of the device is still to be inserted.   *)
postDevice(u) == [pc |-> "insert", user |-> u]

(* Fault: the code is read and stays in store.                             *)
Validate_Keeps(k) == codes[k] # NoUser /\ UNCHANGED codes

(* The code is read and deleted at once, and its user looked up.           *)
Validate(k) == TakeCode(k)
AuthorizeUserByCode(k) == Validate(k) /\ codes[k] \in users

(* NewCode: a request that shows a code acts for the user of the code.     *)
NewCode(c, k) ==
  /\ Ready(c) /\ AuthorizeUserByCode(k)
  /\ entered' = entered + 1
  /\ Go(c, postDevice(codes[k]))
  /\ UNCHANGED <<users, owner, lastSeen, hooks, caches, seen, generated, born>>

(* NewBasic let a user in.                                                 *)
LogIn(c, u) ==
  /\ Ready(c) /\ u \in users
  /\ Go(c, postDevice(u))
  /\ UNCHANGED <<stores, caches, seen, history>>

AuthorizeRegistration(key) == Public \/ key = PrivateToken

(* Nobody logged in, and the server is public or its key was shown:        *)
(* postDevice creates a user ...                                           *)
CreateUser(c, u) ==
  /\ Ready(c) /\ u \notin users
  /\ \E key \in Keys : AuthorizeRegistration(key)
  /\ users' = users \cup {u}
  /\ Go(c, postDevice(u))
  /\ UNCHANGED <<owner, lastSeen, hooks, codes, caches, seen, history>>

(* ... and in every case the row of a device.                              *)
newDeviceModel(u) == [owner |-> u, seen |-> now]

InsertRow(d, row) ==
  /\ owner' = [owner EXCEPT ![d] = row.owner]
  /\ lastSeen' = [lastSeen EXCEPT ![d] = row.seen]

(* Its id was never given out.                                             *)
Insert(d, u) ==
  /\ d \notin born
  /\ InsertRow(d, newDeviceModel(u))
  /\ born' = born \cup {d}

RegisterDevice(c, d) ==
  /\ At(c, "insert")
  /\ Insert(d, request[c].user)
  /\ End(c)
  /\ UNCHANGED <<users, hooks, codes, caches, seen, generated, entered>>

-----------------------------------------------------------------------------
(* A device shows its token (deviceauth, AuthorizeDevice, GetByToken): in  *)
(* the cache, else in the database, from where it is cached in two steps.  *)
Cached(s, d) == d \in byToken[s]

ShowToken(c, s, d, job) ==
  /\ Ready(c) /\ d \in born
  /\ Go(c, [pc |-> IF Cached(s, d) THEN "stamp" ELSE "select",
            server |-> s, device |-> d, job |-> job])
  /\ UNCHANGED <<stores, caches, seen, history>>

SelectByToken(c) ==
  /\ At(c, "select")
  /\ IF request[c].device \in Rows THEN GoTo(c, "setID") ELSE End(c)
  /\ UNCHANGED <<stores, caches, seen, history>>

SetByID(c) ==
  LET r == request[c] IN
  /\ At(c, "setID")
  /\ byID' = [byID EXCEPT ![r.server] = @ \cup {r.device}]
  /\ GoTo(c, "setToken")
  /\ UNCHANGED <<stores, byToken, seen, history>>

SetByToken(c) ==
  LET r == request[c] IN
  /\ At(c, "setToken")
  /\ byToken' = [byToken EXCEPT ![r.server] = @ \cup {r.device}]
  /\ GoTo(c, "stamp")
  /\ UNCHANGED <<stores, byID, seen, history>>

(* SetOnline reads the clock and stores what it read, in a goroutine of    *)
(* its own; what the handler does besides is of other variables.           *)
Stamp(c) ==
  /\ At(c, "stamp")
  /\ Go(c, [pc |-> "online", server |-> request[c].server, device |-> request[c].device,
            job |-> request[c].job, at |-> now])
  /\ UNCHANGED <<stores, caches, seen, history>>

patchDevice(r) == [pc |-> "evict", server |-> r.server, device |-> r.device, job |-> "update"]

SetOnline(c) ==
  LET r == request[c] IN
  /\ At(c, "online")
  /\ online' = [online EXCEPT ![r.device] = r.at]
  /\ IF r.job = "update" THEN Go(c, patchDevice(r)) ELSE End(c)
  /\ UNCHANGED <<stores, caches, drained, now, history>>

(* DeleteByID, for Update - once the row got its push token - and Remove:  *)
(* nothing is done when the map by id does not have the device.            *)
EvictByID(c) ==
  LET r == request[c] IN
  /\ At(c, "evict")
  /\ byID' = [byID EXCEPT ![r.server] = @ \ {r.device}]
  /\ IF r.device \in byID[r.server] THEN GoTo(c, "evictToken")
     ELSE IF r.job = "remove" THEN GoTo(c, "delete") ELSE End(c)
  /\ UNCHANGED <<stores, byToken, seen, history>>

EvictByToken(c) ==
  LET r == request[c] IN
  /\ At(c, "evictToken")
  /\ byToken' = [byToken EXCEPT ![r.server] = @ \ {r.device}]
  /\ IF r.job = "remove" THEN GoTo(c, "delete") ELSE End(c)
  /\ UNCHANGED <<stores, byID, seen, history>>

(* Fault: the map by token keeps its entries as long as they are used.     *)
ExpireCached_IdOnly(s, d) ==
  /\ d \in byID[s] /\ byID' = [byID EXCEPT ![s] = @ \ {d}] /\ UNCHANGED byToken
  /\ UNCHANGED <<stores, seen, request, started, history>>

(* Ten minutes after it was cached an entry is gone, of each map.          *)
ExpireCached(s, d) ==
  /\ \/ d \in byID[s] /\ byID' = [byID EXCEPT ![s] = @ \ {d}] /\ UNCHANGED byToken
     \/ d \in byToken[s] /\ byToken' = [byToken EXCEPT ![s] = @ \ {d}] /\ UNCHANGED byID
  /\ UNCHANGED <<stores, seen, request, started, history>>

-----------------------------------------------------------------------------
(* Removal: by its user (Remove: the devices are selected, evicted from    *)
(* this server's cache, and deleted), or by the worker when it was not     *)
(* seen for long.  The rows of its webhooks go with it (fk_webhooks_device).*)
Select(D, u) == {d \in D \cap Rows : owner[d] = u}
Exists(d, u) == Select({d}, u) # {}

Remove(c, s, u, d) ==
  /\ Ready(c) /\ d \in Select({d}, u)
  /\ Go(c, [pc |-> "evict", server |-> s, device |-> d, job |-> "remove"])
  /\ UNCHANGED <<stores, caches, seen, history>>

DeleteDevices(D) ==
  /\ owner' = [d \in DeviceIds |-> IF d \in D THEN NoUser ELSE owner[d]]
  /\ lastSeen' = [d \in DeviceIds |-> IF d \in D THEN 0 ELSE lastSeen[d]]
  /\ hooks' = [h \in HookNames |-> IF hooks[h] \in D THEN NoHook ELSE hooks[h]]

Delete(c) ==
  /\ At(c, "delete")
  /\ DeleteDevices({request[c].device})
  /\ End(c)
  /\ UNCHANGED <<users, codes, caches, seen, history>>

Outdated == {d \in Rows : lastSeen[d] + MaxAge < now}

Cleanup ==
  /\ Outdated # {}
  /\ DeleteDevices(Outdated)
  /\ UNCHANGED <<users, codes, caches, seen, request, started, history>>

-----------------------------------------------------------------------------
(* The online service: every minute a server drains the statuses and       *)
(* writes them to the rows, chunk by chunk; what it cannot write is lost.  *)
Drain(s) ==
  /\ \E d \in DeviceIds : online[d] > 0
  /\ \A d \in DeviceIds : drained[s][d] = 0
  /\ drained' = [drained EXCEPT ![s] = online]
  /\ online' = [d \in DeviceIds |-> 0]
  /\ UNCHANGED <<stores, caches, now, request, started, history>>

(* Fault: the column is set to the status.                                 *)
SetLastSeen_Latest(s) ==
  /\ \E d \in DeviceIds : drained[s][d] > 0
  /\ lastSeen' = [d \in DeviceIds |->
                    IF d \in Rows /\ drained[s][d] > 0 THEN drained[s][d] ELSE lastSeen[d]]
  /\ drained' = [drained EXCEPT ![s] = [d \in DeviceIds |-> 0]]
  /\ UNCHANGED <<users, owner, hooks, codes, caches, online, now, request, started, history>>

SetLastSeen(s) ==
  /\ \E d \in DeviceIds : drained[s][d] > 0
  /\ \E written \in SUBSET Rows :
       lastSeen' = [d \in DeviceIds |->
                      IF d \in written /\ drained[s][d] > lastSeen[d] THEN drained[s][d]
                      ELSE lastSeen[d]]
  /\ drained' = [drained EXCEPT ![s] = [d \in DeviceIds |-> 0]]
  /\ UNCHANGED <<users, owner, hooks, codes, caches, online, now, request, started, history>>

Tick ==
  /\ now < MaxTime + 1
  /\ now' = now + 1
  /\ UNCHANGED <<stores, caches, online, drained, request, started, history>>

-----------------------------------------------------------------------------
(* Webhooks of a user: for one device, which must be the user's, or all.   *)
ReplaceHook(c, u, h, d) ==
  /\ Ready(c) /\ u \in users
  /\ d # NoDevice => Exists(d, u)
  /\ Go(c, [pc |-> "save", hook |-> <<u, h>>, device |-> d])
  /\ UNCHANGED <<stores, caches, seen, history>>

(* Fault: no foreign key.                                                  *)
SaveHook_Unconstrained(c) ==
  /\ At(c, "save")
  /\ hooks' = [hooks EXCEPT ![request[c].hook] = request[c].device]
  /\ End(c)
  /\ UNCHANGED <<users, owner, lastSeen, codes, caches, seen, history>>

(* The row is inserted, or replaced; the device must still be there.       *)
SaveHook(c) ==
  LET r == request[c] IN
  /\ At(c, "save")
  /\ hooks' = IF r.device \in Rows \cup {NoDevice} THEN [hooks EXCEPT ![r.hook] = r.device]
              ELSE hooks
  /\ End(c)
  /\ UNCHANGED <<users, owner, lastSeen, codes, caches, seen, history>>

(* What a device is given: of its user, those of its own and those of all. *)
SelectHooks(d) ==
  {h \in HookNames : h[1] = owner[d] /\ hooks[h] \in {d, NoDevice}}

DeleteHook(c, h) ==
  /\ Ready(c) /\ hooks[h] # NoHook
  /\ hooks' = [hooks EXCEPT ![h] = NoHook]
  /\ UNCHANGED <<users, owner, lastSeen, codes, caches, seen, request, history>>

-----------------------------------------------------------------------------
(* A server stops in the middle of a request.                              *)
Stop(c) == Busy(c) /\ End(c) /\ UNCHANGED <<stores, caches, seen, history>>

Begin(c) ==
  \/ \E u \in Users : getUserCode(c, u) \/ LogIn(c, u) \/ CreateUser(c, u)
  \/ \E k \in Codes : NewCode(c, k)
  \/ \E s \in Servers, d \in DeviceIds, job \in {"pull", "update"} : ShowToken(c, s, d, job)
  \/ \E s \in Servers, u \in Users, d \in DeviceIds : Remove(c, s, u, d)
  \/ \E u \in Users, h \in HookIds, d \in HookTargets : ReplaceHook(c, u, h, d)
  \/ \E h \in HookNames : DeleteHook(c, h)

Continue(c) ==
  \/ \E d \in DeviceIds : RegisterDevice(c, d)
  \/ SelectByToken(c) \/ SetByID(c) \/ SetByToken(c) \/ Stamp(c) \/ SetOnline(c)
  \/ EvictByID(c) \/ EvictByToken(c) \/ Delete(c) \/ SaveHook(c)

Start(c) == Begin(c) /\ started' = started + 1
Proceed(c) == (Continue(c) \/ Stop(c)) /\ UNCHANGED started

Next ==
  \/ \E c \in Clients : Start(c) \/ Proceed(c)
  \/ \E k \in Codes : ExpireCode(k)
  \/ \E s \in Servers, d \in DeviceIds : ExpireCached(s, d)
  \/ \E s \in Servers : Drain(s) \/ SetLastSeen(s)
  \/ Cleanup \/ Tick

(* A request ends, one way or another, and the caches forget.              *)
Fairness ==
  /\ \A c \in Clients : WF_vars(Proceed(c))
  /\ \A s \in Servers, d \in DeviceIds : WF_vars(ExpireCached(s, d))

Spec == Init /\ [][Next]_vars
FairSpec == Spec /\ Fairness

-----------------------------------------------------------------------------
(* Properties.                                                             *)

(* Every variable keeps to its type.                                       *)
TypeOK ==
  /\ users \subseteq Users /\ born \subseteq DeviceIds
  /\ owner \in [DeviceIds -> Users \cup {NoUser}]
  /\ lastSeen \in [DeviceIds -> Times \cup {0}]
  /\ hooks \in [HookNames -> DeviceIds \cup {NoDevice, NoHook}]
  /\ codes \in [Codes -> Users \cup {NoUser}]
  /\ byID \in [Servers -> SUBSET DeviceIds] /\ byToken \in [Servers -> SUBSET DeviceIds]
  /\ online \in [DeviceIds -> Times \cup {0}]
  /\ drained \in [Servers -> [DeviceIds -> Times \cup {0}]]
  /\ now \in Times
  /\ request \in [Clients -> Requests]
  /\ started \in Nat /\ generated \in Nat /\ entered \in Nat

(* A code lets in one request, however many show it at the same time.      *)
CodesUsedOnce ==
  entered + Cardinality({k \in Codes : codes[k] # NoUser}) <= generated

(* A webhook for one device is given to that device, and so exists only as *)
(* long as the device, although the check and the insertion are apart.     *)
HookDeviceOwned ==
  \A h \in HookNames : hooks[h] \in DeviceIds => h \in SelectHooks(hooks[h])

(* When a device was last seen never goes back, in whatever order servers  *)
(* persist what they drained.                                              *)
LastSeenGrows ==
  [][\A d \in Rows : owner'[d] # NoUser => lastSeen'[d] >= lastSeen[d]]_vars

(* A device that was removed is locked out for good some time later, also  *)
(* by the servers that did not remove it, or that cached it meanwhile.     *)
RemovedLockedOut ==
  \A d \in DeviceIds : <>[](Removed(d) => \A s \in Servers : d \notin byToken[s])
=============================================================================
