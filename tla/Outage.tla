------------------------------- MODULE Outage -------------------------------
(***************************************************************************)
(* Outages of the one MySQL server that both programs use: the worker      *)
(* processes, whose locks live in sessions of it (TaskLock), and a gateway *)
(* server, whose readiness is a ping of it (Health).                       *)
(***************************************************************************)
EXTENDS TaskLock, Health

allVars == <<vars, healthVars>>

OutageInit == Init /\ HealthInit

(* No lock is taken while the database does not answer: AcquireLock fails, *)
(* and the loop waits for its next tick.  Everything else goes on.         *)
Tick(w) == database /\ AcquireLock(w)

WorkerStep(w) ==
  \/ Tick(w) \/ RunEnds(w) \/ ReleaseLock(w)
  \/ Shutdown(w) \/ Close(w) \/ Restart(w) \/ Crash(w) \/ Drop(w)

(* An outage ends all sessions, pinned or in a pool, and frees the lock.   *)
DatabaseStops ==
  /\ database
  /\ database' = FALSE
  /\ owner' = None
  /\ conn' = [w \in Workers |-> IF conn[w] = "live" THEN "dead" ELSE conn[w]]
  /\ cut' = cut \cup ({owner} \ {None})
  /\ UNCHANGED <<pc, phase, stops, stopping, failedPings, probe>>

DatabaseStarts ==
  /\ ~database
  /\ database' = TRUE
  /\ UNCHANGED <<vars, stopping, failedPings, probe>>

OutageNext ==
  \/ (\E w \in Workers : WorkerStep(w)) /\ UNCHANGED healthVars
  \/ HealthStep /\ UNCHANGED vars
  \/ DatabaseStops \/ DatabaseStarts

OutageSpec == OutageInit /\ [][OutageNext]_allVars

(* Tickers tick, tasks end, and processes that are stopped are started     *)
(* again; requests are answered, and supervisors probe again and again.    *)
FairOutageSpec ==
  /\ OutageSpec
  /\ \A w \in Workers :
       /\ WF_allVars(Tick(w) /\ UNCHANGED healthVars)
       /\ WF_allVars((RunEnds(w) \/ ReleaseLock(w)) /\ UNCHANGED healthVars)
       /\ WF_allVars((Close(w) \/ Restart(w)) /\ UNCHANGED healthVars)
  /\ \A c \in Probers :
       /\ WF_allVars(ProbeStep(c) /\ UNCHANGED vars)
       /\ WF_allVars((\E kind \in Asks[c] : getProbe(c, kind)) /\ UNCHANGED vars)

-----------------------------------------------------------------------------
(* Properties.                                                             *)

(* When the database is back for good, the task runs again, here or there, *)
(* and goes on to be run: no outage, shutdown or crash takes the lock away *)
(* for good or leaves a loop without a way on.                             *)
RunsAgain == <>[]database => KeepsRunning
=============================================================================
