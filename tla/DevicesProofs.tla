--------------------------- MODULE DevicesProofs ---------------------------
(***************************************************************************)
(* Theorems about Devices, for any number of servers, requests, users,     *)
(* devices, webhooks and codes.                                            *)
(***************************************************************************)
EXTENDS Devices, FiniteSetTheorems, TLAPS

-----------------------------------------------------------------------------
(* Types.                                                                  *)

LEMMA InitType == Init => TypeOK
<1> SUFFICES ASSUME Init PROVE TypeOK
  OBVIOUS
<1>1. 1 \in Times
  BY ConstantsAssumption DEF Times
<1> QED
  BY <1>1 DEF Init, TypeOK, Requests, Idle

(* Going on, to another step or with another record, and ending keep       *)
(* requests to their type.                                                 *)
LEMMA GoType ==
  ASSUME TypeOK, NEW c \in Clients, NEW r \in Requests, Go(c, r)
  PROVE  request' \in [Clients -> Requests]
BY DEF TypeOK, Go

LEMMA EndType ==
  ASSUME TypeOK, NEW c \in Clients, End(c)
  PROVE  request' \in [Clients -> Requests]
<1>1. Idle \in Requests
  BY DEF Idle, Requests
<1> QED
  BY <1>1, GoType DEF End

OnDevice == {"select", "setID", "setToken", "stamp", "evict", "evictToken", "delete"}

(* What a request in the middle of some job knows.                         *)
LEMMA RequestParts ==
  ASSUME TypeOK, NEW c \in Clients
  PROVE  LET r == request[c] IN
         /\ r.pc = "insert" => r.user \in Users
         /\ r.pc \in OnDevice \cup {"online"} =>
              /\ r.server \in Servers /\ r.device \in DeviceIds
              /\ r.job \in {"pull", "update", "remove"}
         /\ r.pc = "online" => r.at \in Times
         /\ r.pc = "save" => r.hook \in HookNames /\ r.device \in DeviceIds \cup {NoDevice}
BY DEF TypeOK, Requests, OnDevice

(* A step of a request about a device, to another one.                     *)
LEMMA GoToType ==
  ASSUME TypeOK, NEW c \in Clients, request[c].pc \in OnDevice, NEW label \in OnDevice,
         GoTo(c, label)
  PROVE  request' \in [Clients -> Requests]
<1>1. [request[c] EXCEPT !.pc = label] \in Requests
  <2>1. request[c] \in [pc : OnDevice, server : Servers, device : DeviceIds,
                        job : {"pull", "update", "remove"}]
    BY DEF TypeOK, Requests, OnDevice
  <2>2. [request[c] EXCEPT !.pc = label] \in
          [pc : OnDevice, server : Servers, device : DeviceIds, job : {"pull", "update", "remove"}]
    BY <2>1
  <2> QED
    BY <2>2 DEF Requests, OnDevice
<1> QED
  BY <1>1 DEF TypeOK, GoTo

LEMMA DeleteDevicesType ==
  ASSUME TypeOK, NEW D, DeleteDevices(D)
  PROVE  /\ owner' \in [DeviceIds -> Users \cup {NoUser}]
         /\ lastSeen' \in [DeviceIds -> Times \cup {0}]
         /\ hooks' \in [HookNames -> DeviceIds \cup {NoDevice, NoHook}]
BY DEF TypeOK, DeleteDevices

LEMMA NextType == TypeOK /\ [Next]_vars => TypeOK'
<1> SUFFICES ASSUME TypeOK, [Next]_vars PROVE TypeOK'
  OBVIOUS
<1> USE DEF stores, caches, seen, history
<1>1. ASSUME NEW c \in Clients, Start(c) PROVE TypeOK'
  <2>1. started' \in Nat /\ Begin(c)
    BY <1>1 DEF Start, TypeOK
  <2>2. ASSUME NEW u \in Users, getUserCode(c, u) PROVE TypeOK'
    BY <2>1, <2>2 DEF getUserCode, GenerateUserCode, StoreCode, TypeOK
  <2>3. ASSUME NEW u \in Users, LogIn(c, u) PROVE TypeOK'
    <3>1. postDevice(u) \in Requests
      BY DEF postDevice, Requests
    <3> QED
      BY <2>1, <2>3, <3>1, GoType DEF LogIn, TypeOK
  <2>4. ASSUME NEW u \in Users, CreateUser(c, u) PROVE TypeOK'
    <3>1. postDevice(u) \in Requests
      BY DEF postDevice, Requests
    <3> QED
      BY <2>1, <2>4, <3>1, GoType DEF CreateUser, TypeOK
  <2>5. ASSUME NEW k \in Codes, NewCode(c, k) PROVE TypeOK'
    <3>1. codes[k] \in Users
      BY <2>5 DEF NewCode, AuthorizeUserByCode, TypeOK
    <3>2. postDevice(codes[k]) \in Requests
      BY <3>1 DEF postDevice, Requests
    <3>3. codes' \in [Codes -> Users \cup {NoUser}] /\ entered' \in Nat
      BY <2>5 DEF NewCode, AuthorizeUserByCode, Validate, TakeCode, TypeOK
    <3> QED
      BY <2>1, <2>5, <3>2, <3>3, GoType DEF NewCode, TypeOK
  <2>6. ASSUME NEW s \in Servers, NEW d \in DeviceIds, NEW job \in {"pull", "update"},
               ShowToken(c, s, d, job)
        PROVE  TypeOK'
    <3>1. \A label \in {"stamp", "select"} :
            [pc |-> label, server |-> s, device |-> d, job |-> job] \in Requests
      BY DEF Requests
    <3>2. request' \in [Clients -> Requests]
      BY <2>6, <3>1, GoType DEF ShowToken
    <3> QED
      BY <2>1, <2>6, <3>2 DEF ShowToken, TypeOK
  <2>7. ASSUME NEW s \in Servers, NEW u \in Users, NEW d \in DeviceIds, Remove(c, s, u, d)
        PROVE  TypeOK'
    <3>1. [pc |-> "evict", server |-> s, device |-> d, job |-> "remove"] \in Requests
      BY DEF Requests
    <3> QED
      BY <2>1, <2>7, <3>1, GoType DEF Remove, TypeOK
  <2>8. ASSUME NEW u \in Users, NEW h \in HookIds, NEW d \in HookTargets, ReplaceHook(c, u, h, d)
        PROVE  TypeOK'
    <3>1. [pc |-> "save", hook |-> <<u, h>>, device |-> d] \in Requests
      BY NoneAssumption DEF Requests, HookNames
    <3> QED
      BY <2>1, <2>8, <3>1, GoType DEF ReplaceHook, TypeOK
  <2>9. ASSUME NEW h \in HookNames, DeleteHook(c, h) PROVE TypeOK'
    BY <2>1, <2>9 DEF DeleteHook, TypeOK
  <2> QED
    BY <2>1, <2>2, <2>3, <2>4, <2>5, <2>6, <2>7, <2>8, <2>9 DEF Begin
<1>2. ASSUME NEW c \in Clients, Continue(c), UNCHANGED started PROVE TypeOK'
  <2>1. ASSUME NEW d \in DeviceIds, RegisterDevice(c, d) PROVE TypeOK'
    <3>1. request[c].user \in Users
      BY <2>1, RequestParts DEF RegisterDevice, At
    <3>2. /\ owner' \in [DeviceIds -> Users \cup {NoUser}]
          /\ lastSeen' \in [DeviceIds -> Times \cup {0}]
          /\ born' \subseteq DeviceIds
      BY <2>1, <3>1 DEF RegisterDevice, Insert, InsertRow, newDeviceModel, TypeOK
    <3> QED
      BY <1>2, <2>1, <3>2, EndType DEF RegisterDevice, TypeOK
  <2>2. ASSUME SelectByToken(c) PROVE TypeOK'
    <3>1. request' \in [Clients -> Requests]
      BY <2>2, EndType, GoToType DEF SelectByToken, At, OnDevice
    <3> QED
      BY <1>2, <2>2, <3>1 DEF SelectByToken, TypeOK
  <2>3. ASSUME SetByID(c) PROVE TypeOK'
    <3>1. request' \in [Clients -> Requests] /\ request[c].device \in DeviceIds
      BY <2>3, RequestParts, GoToType DEF SetByID, At, OnDevice
    <3> QED
      BY <1>2, <2>3, <3>1 DEF SetByID, TypeOK
  <2>4. ASSUME SetByToken(c) PROVE TypeOK'
    <3>1. request' \in [Clients -> Requests] /\ request[c].device \in DeviceIds
      BY <2>4, RequestParts, GoToType DEF SetByToken, At, OnDevice
    <3> QED
      BY <1>2, <2>4, <3>1 DEF SetByToken, TypeOK
  <2>5. ASSUME Stamp(c) PROVE TypeOK'
    <3>1. [pc |-> "online", server |-> request[c].server, device |-> request[c].device,
           job |-> request[c].job, at |-> now] \in Requests
      BY <2>5, RequestParts DEF Stamp, At, OnDevice, Requests, TypeOK
    <3> QED
      BY <1>2, <2>5, <3>1, GoType DEF Stamp, TypeOK
  <2>6. ASSUME SetOnline(c) PROVE TypeOK'
    <3>1. /\ request[c].server \in Servers /\ request[c].device \in DeviceIds
          /\ request[c].at \in Times
      BY <2>6, RequestParts DEF SetOnline, At
    <3>2. patchDevice(request[c]) \in Requests
      BY <3>1 DEF patchDevice, Requests
    <3>3. request' \in [Clients -> Requests]
      BY <2>6, <3>2, GoType, EndType DEF SetOnline
    <3> QED
      BY <1>2, <2>6, <3>1, <3>3 DEF SetOnline, TypeOK
  <2>7. ASSUME EvictByID(c) PROVE TypeOK'
    <3>1. request' \in [Clients -> Requests]
      BY <2>7, EndType, GoToType DEF EvictByID, At, OnDevice
    <3>2. byID' \in [Servers -> SUBSET DeviceIds]
      BY <2>7 DEF EvictByID, TypeOK
    <3> QED
      BY <1>2, <2>7, <3>1, <3>2 DEF EvictByID, TypeOK
  <2>8. ASSUME EvictByToken(c) PROVE TypeOK'
    <3>1. request' \in [Clients -> Requests]
      BY <2>8, EndType, GoToType DEF EvictByToken, At, OnDevice
    <3>2. byToken' \in [Servers -> SUBSET DeviceIds]
      BY <2>8 DEF EvictByToken, TypeOK
    <3> QED
      BY <1>2, <2>8, <3>1, <3>2 DEF EvictByToken, TypeOK
  <2>9. ASSUME Delete(c) PROVE TypeOK'
    BY <1>2, <2>9, EndType, DeleteDevicesType DEF Delete, TypeOK
  <2>10. ASSUME SaveHook(c) PROVE TypeOK'
    <3>1. hooks' \in [HookNames -> DeviceIds \cup {NoDevice, NoHook}]
      BY <2>10, RequestParts DEF SaveHook, At, TypeOK
    <3> QED
      BY <1>2, <2>10, <3>1, EndType DEF SaveHook, TypeOK
  <2> QED
    BY <1>2, <2>1, <2>2, <2>3, <2>4, <2>5, <2>6, <2>7, <2>8, <2>9, <2>10 DEF Continue
<1>3. ASSUME NEW c \in Clients, Stop(c), UNCHANGED started PROVE TypeOK'
  BY <1>3, EndType DEF Stop, TypeOK
<1>4. ASSUME NEW k \in Codes, ExpireCode(k) PROVE TypeOK'
  BY <1>4 DEF ExpireCode, TakeCode, TypeOK
<1>5. ASSUME NEW s \in Servers, NEW d \in DeviceIds, ExpireCached(s, d) PROVE TypeOK'
  BY <1>5 DEF ExpireCached, TypeOK
<1>6. ASSUME NEW s \in Servers, Drain(s) PROVE TypeOK'
  BY <1>6 DEF Drain, TypeOK
<1>7. ASSUME NEW s \in Servers, SetLastSeen(s) PROVE TypeOK'
  <2>1. lastSeen' \in [DeviceIds -> Times \cup {0}]
    BY <1>7 DEF SetLastSeen, TypeOK
  <2>2. drained' \in [Servers -> [DeviceIds -> Times \cup {0}]]
    BY <1>7 DEF SetLastSeen, TypeOK
  <2> QED
    BY <1>7, <2>1, <2>2 DEF SetLastSeen, TypeOK
<1>8. ASSUME Cleanup PROVE TypeOK'
  BY <1>8, DeleteDevicesType DEF Cleanup, TypeOK
<1>9. ASSUME Tick PROVE TypeOK'
  <2>1. now' \in Times
    BY <1>9, ConstantsAssumption DEF Tick, Times, TypeOK
  <2> QED
    BY <1>9, <2>1 DEF Tick, TypeOK
<1>10. ASSUME UNCHANGED vars PROVE TypeOK'
  BY <1>10 DEF vars, TypeOK
<1> QED
  BY <1>1, <1>2, <1>3, <1>4, <1>5, <1>6, <1>7, <1>8, <1>9, <1>10 DEF Next, Proceed

(* Every variable keeps to its type.                                       *)
THEOREM TypeCorrect == Spec => []TypeOK
<1> QED
  BY InitType, NextType, PTL DEF Spec

-----------------------------------------------------------------------------
(* Devices and their webhooks.  Ids are given out once, so a webhook that  *)
(* is about to be saved for a device finds it still its user's, or gone.   *)
Known == Rows \subseteq born

Checked ==
  \A c \in Clients :
    LET r == request[c] IN
    r.pc = "save" => /\ r.device \in born \cup {NoDevice}
                     /\ r.device \in Rows => owner[r.device] = r.hook[1]

Owned == \A h \in HookNames : hooks[h] \in DeviceIds => owner[hooks[h]] = h[1]

HookInv == TypeOK /\ Known /\ Checked /\ Owned

LEMMA OwnedIsGiven == TypeOK => (Owned <=> HookDeviceOwned)
BY DEF TypeOK, Owned, HookDeviceOwned, SelectHooks

LEMMA InitHook == Init => HookInv
<1> SUFFICES ASSUME Init PROVE HookInv
  OBVIOUS
<1>1. Owned
  BY NoneAssumption DEF Init, Owned
<1>2. Known /\ Checked
  BY DEF Init, Known, Checked, Rows, Idle
<1> QED
  BY <1>1, <1>2, InitType DEF HookInv

(* A request that goes on to anything but the saving of a webhook.         *)
LEMMA StillChecked ==
  ASSUME HookInv, TypeOK', NEW c \in Clients, UNCHANGED <<owner, born>>,
         request'[c].pc # "save", \A x \in Clients \ {c} : request'[x] = request[x]
  PROVE  Checked'
BY DEF HookInv, Checked, Rows

LEMMA NextHook == HookInv /\ [Next]_vars => HookInv'
<1> SUFFICES ASSUME HookInv, [Next]_vars PROVE HookInv'
  OBVIOUS
<1> USE DEF stores, caches, seen, history
<1>1. TypeOK /\ TypeOK'
  BY NextType DEF HookInv
<1>2. ASSUME UNCHANGED <<owner, hooks, born>> PROVE Known' /\ Owned'
  BY <1>2 DEF HookInv, Known, Owned, Rows
<1>3. ASSUME UNCHANGED <<owner, hooks, born, request>> PROVE HookInv'
  BY <1>1, <1>2, <1>3 DEF HookInv, Checked, Rows
<1>4. ASSUME NEW c \in Clients, NEW r, Go(c, r)
      PROVE  request'[c] = r /\ \A x \in Clients \ {c} : request'[x] = request[x]
  BY <1>1, <1>4 DEF Go, TypeOK
<1>5. ASSUME NEW c \in Clients, End(c)
      PROVE  request'[c].pc # "save" /\ \A x \in Clients \ {c} : request'[x] = request[x]
  BY <1>4, <1>5 DEF End, Idle
<1>6. ASSUME NEW c \in Clients, NEW label \in OnDevice, GoTo(c, label),
             request[c].pc \in OnDevice
      PROVE  request'[c].pc # "save" /\ \A x \in Clients \ {c} : request'[x] = request[x]
  <2>1. request[c] \in [pc : OnDevice, server : Servers, device : DeviceIds,
                        job : {"pull", "update", "remove"}]
    BY <1>1, <1>6 DEF TypeOK, Requests, OnDevice
  <2>2. [request[c] EXCEPT !.pc = label].pc = label
    BY <2>1
  <2>3. request'[c].pc = label /\ \A x \in Clients \ {c} : request'[x] = request[x]
    BY <1>1, <1>6, <2>2 DEF GoTo, TypeOK
  <2> QED
    BY <2>3 DEF OnDevice
<1>7. ASSUME NEW D, DeleteDevices(D) PROVE Owned'
  <2>1. /\ \A d \in DeviceIds : owner'[d] = IF d \in D THEN NoUser ELSE owner[d]
        /\ \A h \in HookNames : hooks'[h] = IF hooks[h] \in D THEN NoHook ELSE hooks[h]
    BY <1>7 DEF DeleteDevices
  <2> QED
    BY <2>1, NoneAssumption DEF HookInv, Owned
<1>8. ASSUME NEW D, DeleteDevices(D), UNCHANGED born
      PROVE  Known' /\ \A d \in DeviceIds : d \in Rows' => d \in Rows /\ owner'[d] = owner[d]
  BY <1>8 DEF DeleteDevices, HookInv, Known, Rows
<1>9. ASSUME NEW c \in Clients, Begin(c) PROVE HookInv'
  <2>1. ASSUME NEW u \in Users, getUserCode(c, u) PROVE HookInv'
    BY <1>3, <2>1 DEF getUserCode
  <2>2. ASSUME NEW u \in Users, LogIn(c, u) \/ CreateUser(c, u) PROVE HookInv'
    <3>1. Go(c, postDevice(u)) /\ UNCHANGED <<owner, hooks, born>>
      BY <2>2 DEF LogIn, CreateUser
    <3>2. request'[c].pc # "save" /\ \A x \in Clients \ {c} : request'[x] = request[x]
      BY <1>4, <3>1 DEF postDevice
    <3> QED
      BY <1>1, <1>2, <3>1, <3>2, StillChecked DEF HookInv
  <2>3. ASSUME NEW k \in Codes, NewCode(c, k) PROVE HookInv'
    <3>1. Go(c, postDevice(codes[k])) /\ UNCHANGED <<owner, hooks, born>>
      BY <2>3 DEF NewCode
    <3>2. request'[c].pc # "save" /\ \A x \in Clients \ {c} : request'[x] = request[x]
      BY <1>4, <3>1 DEF postDevice
    <3> QED
      BY <1>1, <1>2, <3>1, <3>2, StillChecked DEF HookInv
  <2>4. ASSUME NEW s \in Servers, NEW d \in DeviceIds, NEW job \in {"pull", "update"},
               ShowToken(c, s, d, job)
        PROVE  HookInv'
    <3>1. UNCHANGED <<owner, hooks, born>>
      BY <2>4 DEF ShowToken
    <3>2. request'[c].pc # "save" /\ \A x \in Clients \ {c} : request'[x] = request[x]
      BY <1>4, <2>4 DEF ShowToken
    <3> QED
      BY <1>1, <1>2, <3>1, <3>2, StillChecked DEF HookInv
  <2>5. ASSUME NEW s \in Servers, NEW u \in Users, NEW d \in DeviceIds, Remove(c, s, u, d)
        PROVE  HookInv'
    <3>1. UNCHANGED <<owner, hooks, born>>
      BY <2>5 DEF Remove
    <3>2. request'[c].pc # "save" /\ \A x \in Clients \ {c} : request'[x] = request[x]
      BY <1>4, <2>5 DEF Remove
    <3> QED
      BY <1>1, <1>2, <3>1, <3>2, StillChecked DEF HookInv
  <2>6. ASSUME NEW u \in Users, NEW h \in HookIds, NEW d \in HookTargets, ReplaceHook(c, u, h, d)
        PROVE  HookInv'
    <3>1. UNCHANGED <<owner, hooks, born>>
      BY <2>6 DEF ReplaceHook
    <3>2. /\ request'[c] = [pc |-> "save", hook |-> <<u, h>>, device |-> d]
          /\ \A x \in Clients \ {c} : request'[x] = request[x]
      BY <1>4, <2>6 DEF ReplaceHook
    <3>3. d \in born \cup {NoDevice} /\ (d \in Rows => owner[d] = u)
      BY <2>6, NoneAssumption DEF ReplaceHook, Exists, Select, HookInv, Known, Rows
    <3>4. Checked'
      BY <3>1, <3>2, <3>3 DEF HookInv, Checked, Rows
    <3> QED
      BY <1>1, <1>2, <3>1, <3>4 DEF HookInv
  <2>7. ASSUME NEW h \in HookNames, DeleteHook(c, h) PROVE HookInv'
    <3>1. UNCHANGED <<owner, born, request>>
      BY <2>7 DEF DeleteHook
    <3>2. \A x \in HookNames : hooks'[x] \in DeviceIds => hooks'[x] = hooks[x]
      BY <1>1, <2>7, NoneAssumption DEF DeleteHook, TypeOK
    <3>3. Known' /\ Checked' /\ Owned'
      BY <3>1, <3>2 DEF HookInv, Known, Checked, Owned, Rows
    <3> QED
      BY <1>1, <3>3 DEF HookInv
  <2> QED
    BY <1>9, <2>1, <2>2, <2>3, <2>4, <2>5, <2>6, <2>7 DEF Begin
<1>10. ASSUME NEW c \in Clients, Continue(c) PROVE HookInv'
  <2>1. ASSUME NEW d \in DeviceIds, RegisterDevice(c, d) PROVE HookInv'
    <3>1. /\ d \notin born /\ born' = born \cup {d} /\ hooks' = hooks
          /\ \A x \in DeviceIds \ {d} : owner'[x] = owner[x]
      BY <1>1, <2>1 DEF RegisterDevice, Insert, InsertRow, TypeOK
    <3>2. Known'
      BY <3>1 DEF HookInv, Known, Rows
    <3>3. Owned'
      <4>1. \A h \in HookNames : hooks[h] \in DeviceIds => hooks[h] # d
        <5> SUFFICES ASSUME NEW h \in HookNames, hooks[h] \in DeviceIds PROVE hooks[h] # d
          OBVIOUS
        <5>1. owner[hooks[h]] \in Users
          BY DEF HookInv, Owned, HookNames
        <5> QED
          BY <3>1, <5>1, NoneAssumption DEF HookInv, Known, Rows
      <4> QED
        BY <3>1, <4>1 DEF HookInv, Owned
    <3>4. request'[c].pc # "save" /\ \A x \in Clients \ {c} : request'[x] = request[x]
      BY <1>5, <2>1 DEF RegisterDevice
    <3>5. Checked'
      <4> SUFFICES ASSUME NEW x \in Clients, request'[x].pc = "save"
                   PROVE  LET r == request'[x] IN
                          /\ r.device \in born' \cup {NoDevice}
                          /\ r.device \in Rows' => owner'[r.device] = r.hook[1]
        BY DEF Checked
      <4>1. request'[x] = request[x] /\ request[x].device \in born \cup {NoDevice}
        BY <3>4 DEF HookInv, Checked
      <4>2. request[x].device # d
        BY <3>1, <4>1, NoneAssumption
      <4> QED
        BY <3>1, <4>1, <4>2 DEF HookInv, Checked, Rows
    <3> QED
      BY <1>1, <3>2, <3>3, <3>5 DEF HookInv
  <2>2. ASSUME SelectByToken(c) \/ SetByID(c) \/ SetByToken(c) \/ EvictByID(c) \/ EvictByToken(c)
        PROVE  HookInv'
    <3>1. UNCHANGED <<owner, hooks, born>>
      BY <2>2 DEF SelectByToken, SetByID, SetByToken, EvictByID, EvictByToken
    <3>2. /\ request[c].pc \in OnDevice
          /\ End(c) \/ \E label \in OnDevice : GoTo(c, label)
      BY <2>2 DEF SelectByToken, SetByID, SetByToken, EvictByID, EvictByToken, At, OnDevice
    <3>3. request'[c].pc # "save" /\ \A x \in Clients \ {c} : request'[x] = request[x]
      BY <1>5, <1>6, <3>2
    <3> QED
      BY <1>1, <1>2, <3>1, <3>3, StillChecked DEF HookInv
  <2>3. ASSUME Stamp(c) PROVE HookInv'
    <3>1. UNCHANGED <<owner, hooks, born>>
      BY <2>3 DEF Stamp
    <3>2. request'[c].pc # "save" /\ \A x \in Clients \ {c} : request'[x] = request[x]
      BY <1>4, <2>3 DEF Stamp
    <3> QED
      BY <1>1, <1>2, <3>1, <3>2, StillChecked DEF HookInv
  <2>4. ASSUME SetOnline(c) PROVE HookInv'
    <3>1. UNCHANGED <<owner, hooks, born>>
      BY <2>4 DEF SetOnline
    <3>2. request'[c].pc # "save" /\ \A x \in Clients \ {c} : request'[x] = request[x]
      BY <1>4, <1>5, <2>4 DEF SetOnline, patchDevice
    <3> QED
      BY <1>1, <1>2, <3>1, <3>2, StillChecked DEF HookInv
  <2>5. ASSUME Delete(c) PROVE HookInv'
    <3>1. DeleteDevices({request[c].device}) /\ UNCHANGED born
      BY <2>5 DEF Delete
    <3>2. request'[c].pc # "save" /\ \A x \in Clients \ {c} : request'[x] = request[x]
      BY <1>5, <2>5 DEF Delete
    <3>3. Checked'
      BY <1>8, <3>1, <3>2 DEF HookInv, Checked, Rows
    <3> QED
      BY <1>1, <1>7, <1>8, <3>1, <3>3 DEF HookInv
  <2>6. ASSUME SaveHook(c) PROVE HookInv'
    <3> DEFINE r == request[c]
    <3>1. /\ r.hook \in HookNames /\ r.device \in DeviceIds \cup {NoDevice}
          /\ UNCHANGED <<owner, born>>
      BY <1>1, <2>6, RequestParts DEF SaveHook, At
    <3>2. request'[c].pc # "save" /\ \A x \in Clients \ {c} : request'[x] = request[x]
      BY <1>5, <2>6 DEF SaveHook
    <3>3. \A h \in HookNames :
            hooks'[h] = hooks[h] \/ (h = r.hook /\ hooks'[h] = r.device /\ r.device \in Rows \cup {NoDevice})
      BY <1>1, <2>6 DEF SaveHook, TypeOK
    <3>4. r.device \in Rows => owner[r.device] = r.hook[1]
      BY <2>6 DEF SaveHook, At, HookInv, Checked
    <3>5. Owned'
      <4> SUFFICES ASSUME NEW h \in HookNames, hooks'[h] \in DeviceIds
                   PROVE  owner[hooks'[h]] = h[1]
        BY <3>1 DEF Owned
      <4>1. CASE hooks'[h] = hooks[h]
        BY <4>1 DEF HookInv, Owned
      <4>2. CASE h = r.hook /\ hooks'[h] = r.device /\ r.device \in Rows \cup {NoDevice}
        BY <3>4, <4>2, NoneAssumption
      <4> QED
        BY <3>3, <4>1, <4>2
    <3>6. Checked' /\ Known'
      BY <1>1, <3>1, <3>2, StillChecked DEF HookInv, Known, Rows
    <3> QED
      BY <1>1, <3>5, <3>6 DEF HookInv
  <2> QED
    BY <1>10, <2>1, <2>2, <2>3, <2>4, <2>5, <2>6 DEF Continue
<1>11. ASSUME NEW c \in Clients, Stop(c) PROVE HookInv'
  <2>1. UNCHANGED <<owner, hooks, born>>
    BY <1>11 DEF Stop
  <2> QED
    BY <1>1, <1>2, <1>5, <1>11, <2>1, StillChecked DEF HookInv, Stop
<1>12. ASSUME \/ \E k \in Codes : ExpireCode(k)
              \/ \E s \in Servers, d \in DeviceIds : ExpireCached(s, d)
              \/ \E s \in Servers : Drain(s) \/ SetLastSeen(s)
              \/ Tick \/ UNCHANGED vars
       PROVE  HookInv'
  <2>1. UNCHANGED <<owner, hooks, born, request>>
    BY <1>12 DEF ExpireCode, ExpireCached, Drain, SetLastSeen, Tick, vars
  <2> QED
    BY <1>3, <2>1
<1>13. ASSUME Cleanup PROVE HookInv'
  <2>1. DeleteDevices(Outdated) /\ UNCHANGED <<born, request>>
    BY <1>13 DEF Cleanup
  <2>2. Checked'
    BY <1>8, <2>1 DEF HookInv, Checked, Rows
  <2> QED
    BY <1>1, <1>7, <1>8, <2>1, <2>2 DEF HookInv
<1> QED
  BY <1>9, <1>10, <1>11, <1>12, <1>13 DEF Next, Start, Proceed

LEMMA HookInvAlways == Spec => []HookInv
<1> QED
  BY InitHook, NextHook, PTL DEF Spec

(* A webhook for one device is given to that device: it is its user's, and *)
(* exists only as long as the device.                                      *)
THEOREM HookDeviceOwnedAlways == Spec => []HookDeviceOwned
<1>1. HookInv => HookDeviceOwned
  BY OwnedIsGiven DEF HookInv
<1> QED
  BY <1>1, HookInvAlways, PTL

(* When a device was last seen never goes back, whatever order the servers *)
(* persist it in.                                                          *)
THEOREM LastSeenGrowsAlways == Spec => LastSeenGrows
<1> DEFINE Grows == \A d \in Rows : owner'[d] # NoUser => lastSeen'[d] >= lastSeen[d]
<1>1. ASSUME HookInv, Next PROVE Grows
  <2>1. TypeOK
    BY <1>1 DEF HookInv
  <2>2. CASE lastSeen' = lastSeen
    BY <2>1, <2>2 DEF TypeOK, Times, Rows
  <2>3. ASSUME NEW c \in Clients, NEW d \in DeviceIds, RegisterDevice(c, d) PROVE Grows
    <3>1. d \notin Rows /\ \A x \in DeviceIds \ {d} : lastSeen'[x] = lastSeen[x]
      BY <1>1, <2>1, <2>3 DEF RegisterDevice, Insert, InsertRow, TypeOK, HookInv, Known
    <3> QED
      BY <2>1, <3>1 DEF TypeOK, Times, Rows
  <2>4. ASSUME NEW D, DeleteDevices(D) PROVE Grows
    BY <2>1, <2>4 DEF DeleteDevices, TypeOK, Times, Rows
  <2>5. ASSUME NEW s \in Servers, SetLastSeen(s) PROVE Grows
    <3>1. PICK written \in SUBSET Rows :
            lastSeen' = [d \in DeviceIds |->
                           IF d \in written /\ drained[s][d] > lastSeen[d] THEN drained[s][d]
                           ELSE lastSeen[d]]
      BY <2>5 DEF SetLastSeen
    <3> QED
      BY <2>1, <3>1 DEF TypeOK, Times, Rows
  <2>6. \/ lastSeen' = lastSeen
        \/ \E c \in Clients, d \in DeviceIds : RegisterDevice(c, d)
        \/ \E D : DeleteDevices(D)
        \/ \E s \in Servers : SetLastSeen(s)
    <3>1. ASSUME NEW c \in Clients, Begin(c) PROVE lastSeen' = lastSeen
      BY <3>1 DEF Begin, getUserCode, LogIn, CreateUser, NewCode, ShowToken, Remove, ReplaceHook,
                  DeleteHook, stores
    <3>2. ASSUME NEW c \in Clients, Continue(c),
                 ~(\E d \in DeviceIds : RegisterDevice(c, d)), ~Delete(c)
          PROVE  lastSeen' = lastSeen
      BY <3>2 DEF Continue, SelectByToken, SetByID, SetByToken, Stamp, SetOnline, EvictByID,
                  EvictByToken, SaveHook, stores
    <3>3. ASSUME \/ \E c \in Clients : Stop(c)
                 \/ \E k \in Codes : ExpireCode(k)
                 \/ \E s \in Servers, d \in DeviceIds : ExpireCached(s, d)
                 \/ \E s \in Servers : Drain(s)
                 \/ Tick
          PROVE  lastSeen' = lastSeen
      BY <3>3 DEF Stop, ExpireCode, ExpireCached, Drain, Tick, stores
    <3> QED
      BY <1>1, <3>1, <3>2, <3>3 DEF Next, Start, Proceed, Delete, Cleanup
  <2> QED
    BY <2>2, <2>3, <2>4, <2>5, <2>6
<1>2. ASSUME HookInv, UNCHANGED vars PROVE [Grows]_vars
  BY <1>2
<1>3. HookInv /\ [Next]_vars => [Grows]_vars
  BY <1>1, <1>2
<1> QED
  BY <1>3, HookInvAlways, PTL DEF Spec, LastSeenGrows

-----------------------------------------------------------------------------
(* Registration codes: each that was generated is in store, let a request  *)
(* in, or expired.                                                         *)
InStore == {k \in Codes : codes[k] # NoUser}

CodeInv == TypeOK /\ CodesUsedOnce

LEMMA StoreFacts ==
  /\ IsFiniteSet(InStore) /\ IsFiniteSet(InStore')
  /\ Cardinality(InStore) \in Nat /\ Cardinality(InStore') \in Nat
<1>1. InStore \subseteq Codes /\ InStore' \subseteq Codes
  BY DEF InStore
<1>2. IsFiniteSet(InStore) /\ IsFiniteSet(InStore')
  BY <1>1, ConstantsAssumption, FS_Subset
<1> QED
  BY <1>2, FS_CardinalityType

LEMMA TakenCode ==
  ASSUME TypeOK, NEW k \in Codes, TakeCode(k)
  PROVE  Cardinality(InStore') = Cardinality(InStore) - 1
<1>1. InStore' = InStore \ {k} /\ k \in InStore
  BY DEF TypeOK, TakeCode, InStore
<1> QED
  BY <1>1, StoreFacts, FS_RemoveElement

LEMMA StoredCode ==
  ASSUME TypeOK, NEW k \in Codes, NEW u \in Users, StoreCode(k, u)
  PROVE  Cardinality(InStore') = Cardinality(InStore) + 1
<1>1. InStore' = InStore \cup {k} /\ k \notin InStore
  BY NoneAssumption DEF TypeOK, StoreCode, InStore
<1> QED
  BY <1>1, StoreFacts, FS_AddElement

LEMMA NextCode == CodeInv /\ [Next]_vars => CodeInv'
<1> SUFFICES ASSUME CodeInv, [Next]_vars PROVE CodeInv'
  OBVIOUS
<1> USE DEF stores, history
<1>1. TypeOK /\ TypeOK'
  BY NextType DEF CodeInv
<1>2. /\ entered + Cardinality(InStore) <= generated
      /\ entered \in Nat /\ generated \in Nat
  BY <1>1 DEF CodeInv, CodesUsedOnce, InStore, TypeOK
<1>3. (entered' + Cardinality(InStore') <= generated') => CodeInv'
  BY <1>1 DEF CodeInv, CodesUsedOnce, InStore
<1>4. ASSUME UNCHANGED <<codes, entered, generated>> PROVE CodeInv'
  BY <1>2, <1>3, <1>4 DEF InStore
<1>5. ASSUME NEW c \in Clients, NEW u \in Users, getUserCode(c, u) PROVE CodeInv'
  <2>1. PICK k \in Codes : StoreCode(k, u)
    BY <1>5 DEF getUserCode, GenerateUserCode
  <2>2. entered' = entered /\ generated' = generated + 1
    BY <1>5 DEF getUserCode
  <2> QED
    BY <1>1, <1>2, <1>3, <2>1, <2>2, StoredCode, StoreFacts
<1>6. ASSUME NEW c \in Clients, NEW k \in Codes, NewCode(c, k) PROVE CodeInv'
  <2>1. TakeCode(k) /\ entered' = entered + 1 /\ generated' = generated
    BY <1>6 DEF NewCode, AuthorizeUserByCode, Validate
  <2> QED
    BY <1>1, <1>2, <1>3, <2>1, TakenCode, StoreFacts
<1>7. ASSUME NEW k \in Codes, ExpireCode(k) PROVE CodeInv'
  <2>1. TakeCode(k) /\ entered' = entered /\ generated' = generated
    BY <1>7 DEF ExpireCode
  <2> QED
    BY <1>1, <1>2, <1>3, <2>1, TakenCode, StoreFacts
<1>8. \/ UNCHANGED <<codes, entered, generated>>
      \/ \E c \in Clients, u \in Users : getUserCode(c, u)
      \/ \E c \in Clients, k \in Codes : NewCode(c, k)
      \/ \E k \in Codes : ExpireCode(k)
  <2>1. ASSUME NEW c \in Clients, Begin(c),
               ~(\E u \in Users : getUserCode(c, u)), ~(\E k \in Codes : NewCode(c, k))
        PROVE  UNCHANGED <<codes, entered, generated>>
    BY <2>1 DEF Begin, LogIn, CreateUser, ShowToken, Remove, ReplaceHook, DeleteHook
  <2>2. ASSUME NEW c \in Clients, Continue(c) \/ Stop(c)
        PROVE  UNCHANGED <<codes, entered, generated>>
    BY <2>2 DEF Continue, RegisterDevice, SelectByToken, SetByID, SetByToken, Stamp, SetOnline,
                EvictByID, EvictByToken, Delete, SaveHook, Stop
  <2>3. ASSUME \/ \E s \in Servers, d \in DeviceIds : ExpireCached(s, d)
               \/ \E s \in Servers : Drain(s) \/ SetLastSeen(s)
               \/ Cleanup \/ Tick \/ UNCHANGED vars
        PROVE  UNCHANGED <<codes, entered, generated>>
    BY <2>3 DEF ExpireCached, Drain, SetLastSeen, Cleanup, Tick, vars
  <2> QED
    BY <2>1, <2>2, <2>3 DEF Next, Start, Proceed
<1> QED
  BY <1>4, <1>5, <1>6, <1>7, <1>8

(* A code lets in one request, however many show it at the same time.      *)
THEOREM CodesUsedOnceAlways == Spec => []CodesUsedOnce
<1>1. Init => CodeInv
  <2> SUFFICES ASSUME Init PROVE CodeInv
    OBVIOUS
  <2>1. {k \in Codes : codes[k] # NoUser} = {}
    BY DEF Init
  <2>2. Cardinality({}) = 0
    BY FS_EmptySet
  <2> QED
    BY <2>1, <2>2, InitType DEF Init, CodeInv, CodesUsedOnce
<1>2. CodeInv => CodesUsedOnce
  BY DEF CodeInv
<1> QED
  BY <1>1, <1>2, NextCode, PTL DEF Spec
=============================================================================
