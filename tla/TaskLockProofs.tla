--------------------------- MODULE TaskLockProofs ---------------------------
(***************************************************************************)
(* Proofs about the lock of the periodic tasks, for any set of workers.    *)
(*                                                                         *)
(* TypeOK and RunnersHold are inductive together: a worker gets a live     *)
(* connection only with the lock, and nobody but its own session gives the *)
(* lock away.  That no two workers run at once follows, since the lock has *)
(* one owner.  An outage of the database keeps all of it: it takes the     *)
(* lock from its owner, whose session was ended from outside.              *)
(***************************************************************************)
EXTENDS Outage, TLAPS

(* The inductive invariant: the types, and that runners hold the lock.     *)
Guarded == TypeOK /\ RunnersHold

LEMMA GuardedInit == Init => Guarded
BY ConstantsAssumption DEF Init, Guarded, TypeOK, RunnersHold

LEMMA GuardedStep == Guarded /\ [Next]_vars => Guarded'
<1> SUFFICES ASSUME Guarded, [Next]_vars
             PROVE  Guarded'
  OBVIOUS
<1> USE ConstantsAssumption DEF Guarded, TypeOK, RunnersHold
<1>1. ASSUME NEW w \in Workers, AcquireLock(w)
      PROVE  Guarded'
  BY <1>1 DEF AcquireLock
<1>2. ASSUME NEW w \in Workers, RunEnds(w)
      PROVE  Guarded'
  BY <1>2 DEF RunEnds
<1>3. ASSUME NEW w \in Workers, ReleaseLock(w)
      PROVE  Guarded'
  BY <1>3 DEF ReleaseLock
<1>4. ASSUME NEW w \in Workers, Shutdown(w)
      PROVE  Guarded'
  BY <1>4 DEF Shutdown
<1>5. ASSUME NEW w \in Workers, Close(w)
      PROVE  Guarded'
  BY <1>5 DEF Close
<1>6. ASSUME NEW w \in Workers, Restart(w)
      PROVE  Guarded'
  BY <1>6 DEF Restart, Begin, SessionEnds
<1>7. ASSUME NEW w \in Workers, Crash(w)
      PROVE  Guarded'
  BY <1>7 DEF Crash, Begin, SessionEnds
<1>8. ASSUME NEW w \in Workers, Drop(w)
      PROVE  Guarded'
  BY <1>8 DEF Drop, SessionEnds
<1>9. CASE UNCHANGED vars
  BY <1>9 DEF vars
<1> QED
  BY <1>1, <1>2, <1>3, <1>4, <1>5, <1>6, <1>7, <1>8, <1>9 DEF Next

(* Whoever runs, or is about to release, has the lock, as execute assumes. *)
THEOREM RunnersHoldAlways == Spec => [](TypeOK /\ RunnersHold)
BY GuardedInit, GuardedStep, PTL DEF Spec, Guarded

(* The task never runs in two processes at once, unless the session of one *)
(* was ended from outside, for any number of workers, shutdowns and        *)
(* crashes.                                                                *)
THEOREM MutualExclusionAlways == Spec => []MutualExclusion
<1>1. Guarded => MutualExclusion
  BY DEF Guarded, TypeOK, RunnersHold, MutualExclusion
<1> QED
  BY <1>1, GuardedInit, GuardedStep, PTL DEF Spec

LEMMA LeaksStep == Guarded /\ NothingLeaks /\ [Next]_vars => NothingLeaks'
<1> SUFFICES ASSUME Guarded, NothingLeaks, [Next]_vars
             PROVE  NothingLeaks'
  OBVIOUS
<1> USE ConstantsAssumption DEF Guarded, TypeOK, RunnersHold, NothingLeaks
<1>1. ASSUME NEW w \in Workers, AcquireLock(w)
      PROVE  NothingLeaks'
  BY <1>1 DEF AcquireLock
<1>2. ASSUME NEW w \in Workers, ReleaseLock(w)
      PROVE  NothingLeaks'
  BY <1>2 DEF ReleaseLock
<1>3. ASSUME NEW w \in Workers, Shutdown(w) \/ Close(w)
      PROVE  NothingLeaks'
  BY <1>3 DEF Shutdown, Close
<1>4. ASSUME NEW w \in Workers, Restart(w) \/ Crash(w)
      PROVE  NothingLeaks'
  BY <1>4 DEF Restart, Crash, Begin, SessionEnds
<1>5. ASSUME NEW w \in Workers, Drop(w)
      PROVE  NothingLeaks'
  BY <1>5 DEF Drop, SessionEnds
<1>6. CASE (\E w \in Workers : RunEnds(w)) \/ UNCHANGED vars
  BY <1>6 DEF RunEnds, vars
<1> QED
  BY <1>1, <1>2, <1>3, <1>4, <1>5, <1>6 DEF Next

(* The lock is never left behind in the pool of a process that is up.      *)
THEOREM NothingLeaksAlways == Spec => []NothingLeaks
<1>1. Init => NothingLeaks
  BY ConstantsAssumption DEF Init, NothingLeaks
<1> QED
  BY <1>1, LeaksStep, GuardedInit, GuardedStep, PTL DEF Spec

-----------------------------------------------------------------------------
(* Outages.  A step of Outage is one of TaskLock, or a step of the gateway *)
(* server, which does nothing to the lock, or the outage itself.           *)
LEMMA OutageStep ==
  Guarded /\ NothingLeaks /\ [OutageNext]_allVars => Guarded' /\ NothingLeaks'
<1> SUFFICES ASSUME Guarded, NothingLeaks, [OutageNext]_allVars
             PROVE  Guarded' /\ NothingLeaks'
  OBVIOUS
<1>1. CASE \E w \in Workers : WorkerStep(w)
  <2>1. Next
    BY <1>1 DEF WorkerStep, Tick, Next
  <2> QED
    BY <2>1, GuardedStep, LeaksStep
<1>2. CASE DatabaseStops
  BY <1>2, ConstantsAssumption
  DEF DatabaseStops, Guarded, TypeOK, RunnersHold, NothingLeaks
<1>3. CASE UNCHANGED vars
  BY <1>3, GuardedStep, LeaksStep
<1> QED
  BY <1>1, <1>2, <1>3 DEF OutageNext, DatabaseStarts, allVars

(* Outages included, the task never runs in two processes at once, unless  *)
(* the session of one was ended from outside, and no end of a task leaves  *)
(* the lock behind.                                                        *)
THEOREM LockSurvivesOutages == OutageSpec => [](MutualExclusion /\ NothingLeaks)
<1>1. OutageInit => Guarded /\ NothingLeaks
  BY GuardedInit, ConstantsAssumption DEF OutageInit, Init, NothingLeaks
<1>2. Guarded => MutualExclusion
  BY DEF Guarded, TypeOK, RunnersHold, MutualExclusion
<1> QED
  BY <1>1, <1>2, OutageStep, PTL DEF OutageSpec

-----------------------------------------------------------------------------
(* Health.  A request's status is "fail" exactly when its ping was bad and *)
(* is counted, and only readiness has a ping to count.                     *)
Probed(r) ==
  /\ r.todo \subseteq IF r.kind = "none" THEN {} ELSE Checks(r.kind)
  /\ r.kind # "ready" => r.status # "fail"
  /\ r.kind = "ready" /\ "db" \notin r.todo => r.ping # "none"
  /\ r.kind = "ready" /\ "db" \in r.todo => r.status = "pass"
  /\ r.status = "fail" => r.ping = "bad"
  /\ r.kind = "ready" /\ r.ping = "bad" /\ "db" \notin r.todo => r.status = "fail"

HealthInv == HealthTypeOK /\ \A c \in Probers : Probed(probe[c])

LEMMA QuietSound == Quiet \in Requests /\ Probed(Quiet)
BY DEF Quiet, Requests, Kinds, Statuses, Probed

(* A server without requests, started or started again.                    *)
LEMMA FreshSound ==
  ASSUME probe = [c \in Probers |-> Quiet], failedPings = 0,
         database \in BOOLEAN, stopping \in BOOLEAN
  PROVE  HealthInv
<1>1. probe \in [Probers -> Requests] /\ \A c \in Probers : Probed(probe[c])
  BY QuietSound
<1>2. failedPings \in 0 .. MaxCount
  BY HealthAssumption
<1> QED
  BY <1>1, <1>2 DEF HealthInv, HealthTypeOK

LEMMA HealthInitInv == HealthInit => HealthInv
BY FreshSound DEF HealthInit

LEMMA ProbeStepInv ==
  ASSUME HealthInv, NEW c \in Probers,
         ProbeStep(c) \/ \E kind \in Asks[c] : getProbe(c, kind)
  PROVE  HealthInv'
<1> DEFINE r == probe[c]
<1> USE HealthAssumption
<1>0. r \in Requests /\ Probed(r)
  BY DEF HealthInv, HealthTypeOK
<1>1. ASSUME NEW q \in Requests, Set(c, q), Probed(q), failedPings' \in 0 .. MaxCount,
             UNCHANGED <<database, stopping>>
      PROVE  HealthInv'
  <2>1. HealthTypeOK'
    BY <1>1 DEF HealthInv, HealthTypeOK, Set
  <2>2. \A x \in Probers : probe'[x] = IF x = c THEN q ELSE probe[x]
    BY <1>1 DEF Set, HealthInv, HealthTypeOK
  <2>3. \A x \in Probers : Probed(probe[x])
    BY DEF HealthInv
  <2> QED
    BY <1>1, <2>1, <2>2, <2>3 DEF HealthInv, Probed
<1>2. failedPings \in 0 .. MaxCount
  BY DEF HealthInv, HealthTypeOK
<1>3. CASE LiveProbe(c)
  <2>1. PICK status \in {"pass", "warn"} : Checked(c, "system", status)
    BY <1>3 DEF LiveProbe
  <2> DEFINE q == [r EXCEPT !.todo = @ \ {"system"}, !.status = Worst(@, status)]
  <2>2. r.kind = "live"
    BY <1>0, <1>3 DEF LiveProbe, Probed, Checks, Requests, Kinds
  <2>3. q \in Requests /\ Probed(q)
    BY <1>0, <2>2 DEF Probed, Requests, Kinds, Statuses, Worst, Checks
  <2> QED
    BY <1>1, <1>2, <1>3, <2>1, <2>3 DEF Checked, LiveProbe
<1>4. CASE Ping(c)
  <2>1. PICK answer \in {"good", "bad"} : Set(c, [r EXCEPT !.ping = answer])
    BY <1>4 DEF Ping
  <2> DEFINE q == [r EXCEPT !.ping = answer]
  <2>2. q \in Requests /\ Probed(q)
    BY <1>0, <1>4 DEF Ping, Probed, Requests, Kinds, Statuses, Checks
  <2> QED
    BY <1>1, <1>2, <1>4, <2>1, <2>2 DEF Ping
<1>5. CASE CountPing(c)
  <2>1. r.kind = "ready"
    BY <1>0, <1>5 DEF CountPing, Probed, Checks, Requests, Kinds
  <2>2. PICK status \in {"pass", "fail"} :
          Checked(c, "db", status) /\ (status = "fail" <=> r.ping = "bad")
    BY <1>5 DEF CountPing
  <2> DEFINE q == [r EXCEPT !.todo = @ \ {"db"}, !.status = Worst(@, status)]
  <2>3. q \in Requests /\ Probed(q)
    BY <1>0, <1>5, <2>1, <2>2 DEF CountPing, Probed, Requests, Kinds, Statuses, Worst, Checks
  <2>4. failedPings' \in 0 .. MaxCount
    BY <1>2, <1>5 DEF CountPing
  <2> QED
    BY <1>1, <1>5, <2>2, <2>3, <2>4 DEF Checked, CountPing
<1>6. CASE writeProbe(c)
  BY <1>1, <1>2, <1>6, QuietSound DEF writeProbe
<1>7. ASSUME NEW kind \in Asks[c], getProbe(c, kind)
      PROVE  HealthInv'
  <2> DEFINE q == [Quiet EXCEPT !.kind = kind, !.todo = Checks(kind)]
  <2>1. kind \in Kinds
    BY <1>7
  <2>2. q \in Requests /\ Probed(q)
    BY <2>1 DEF Quiet, Requests, Kinds, Statuses, Probed, Checks
  <2> QED
    BY <1>1, <1>2, <1>7, <2>2 DEF getProbe
<1> QED
  BY <1>3, <1>4, <1>5, <1>6, <1>7 DEF ProbeStep

LEMMA HealthStepInv == HealthInv /\ [OutageNext]_allVars => HealthInv'
<1> SUFFICES ASSUME HealthInv, [OutageNext]_allVars
             PROVE  HealthInv'
  OBVIOUS
<1> USE DEF HealthInv, HealthTypeOK, Probed
<1>1. CASE UNCHANGED healthVars
  BY <1>1 DEF healthVars
<1>2. CASE StopServer
  BY <1>2 DEF StopServer
<1>3. CASE StartServer
  <2>1. probe' \in [Probers -> Requests] /\ \A c \in Probers : Probed(probe[c])'
    <3>1. Probed(Quiet)
      BY QuietSound
    <3> QED
      BY <1>3, <3>1, QuietSound DEF StartServer
  <2>2. failedPings' \in 0 .. MaxCount
    BY <1>3, HealthAssumption DEF StartServer
  <2> QED
    BY <1>3, <2>1, <2>2 DEF StartServer
<1>4. CASE DatabaseStops \/ DatabaseStarts
  BY <1>4 DEF DatabaseStops, DatabaseStarts
<1> QED
  BY <1>1, <1>2, <1>3, <1>4, ProbeStepInv DEF OutageNext, HealthStep, allVars

(* A prober's answer is truthful: 503 comes only of a failed ping of its   *)
(* own, and "ready" only of a good one or from a server that stops.        *)
THEOREM AnswersTruthfulAlways == OutageSpec => AnswersTruthful
<1> DEFINE Truthful ==
      \A c \in Probers : writeProbe(c) =>
        LET r == probe[c] IN
        /\ code(r.status) = 503 => r.kind = "ready" /\ r.ping = "bad"
        /\ r.kind = "ready" /\ code(r.status) = 200 => r.ping = "good" \/ stopping
<1>1. HealthInv => Truthful
  <2> SUFFICES ASSUME HealthInv, NEW c \in Probers, writeProbe(c)
               PROVE  LET r == probe[c] IN
                      /\ code(r.status) = 503 => r.kind = "ready" /\ r.ping = "bad"
                      /\ r.kind = "ready" /\ code(r.status) = 200 => r.ping = "good" \/ stopping
    OBVIOUS
  <2> QED
    BY DEF HealthInv, HealthTypeOK, Requests, Probed, writeProbe, Complete, code
<1>2. HealthInv /\ [OutageNext]_allVars => [Truthful]_healthVars
  BY <1>1
<1>3. OutageInit => HealthInv
  BY HealthInitInv DEF OutageInit
<1> QED
  BY <1>2, <1>3, HealthStepInv, PTL DEF OutageSpec, AnswersTruthful
=============================================================================
