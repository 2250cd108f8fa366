------------------------------ MODULE TaskLock ------------------------------
(***************************************************************************)
(* The periodic tasks of the worker program (internal/worker): the         *)
(* executor's loop for one task in every worker process, and the locker    *)
(* that is to keep two processes from running the task at the same time.   *)
(*                                                                         *)
(* The lock is a named lock of the MySQL server.  It belongs to a database *)
(* session and goes when the session ends.  A connection, that is its      *)
(* session, is pinned while its worker holds the lock; closing the pinned  *)
(* connection only returns the session to the pool of the process, with    *)
(* the lock if that was not released.                                      *)
(***************************************************************************)
EXTENDS Naturals

CONSTANTS
  Workers,         \* worker processes
  None,            \* no process
  MaxStops         \* bound: shutdowns and crashes in a behaviour

ASSUME ConstantsAssumption ==
  /\ None \notin Workers
  /\ MaxStops \in Nat

VARIABLES
  owner,           \* whose session holds the lock
  pc,              \* the progress of every worker's loop
  conn,            \* the pinned connection of every worker
  cut,             \* workers whose session was ended while they had the lock
  phase,           \* whether a process is up, stopping, or closed its locker
  stops            \* shutdowns and crashes so far

vars == <<owner, pc, conn, cut, phase, stops>>

Init ==
  /\ owner = None
  /\ pc = [w \in Workers |-> "wait"]
  /\ conn = [w \in Workers |-> "none"]
  /\ cut = {}
  /\ phase = [w \in Workers |-> "up"]
  /\ stops = 0

(* The session of w ends, and with it its hold on the lock.                *)
SessionEnds(w) == owner' = IF owner = w THEN None ELSE owner

-----------------------------------------------------------------------------
(* Fault: a lock that was not granted is taken for granted.                *)
AcquireLock_Ungranted(w) ==
  /\ pc[w] = "wait"
  /\ phase[w] = "up"
  /\ owner' = IF owner = None THEN w ELSE owner
  /\ conn' = [conn EXCEPT ![w] = "live"]
  /\ pc' = [pc EXCEPT ![w] = "run"]
  /\ cut' = cut \ {w}
  /\ UNCHANGED <<phase, stops>>

(* A tick: a session takes the lock when it is free.  When it is not, the  *)
(* loop waits for the next tick.  (A session may also take a lock it holds *)
(* already, but NothingLeaks shows that none in the pool does.)            *)
AcquireLock(w) ==
  /\ pc[w] = "wait"
  /\ phase[w] = "up"
  /\ owner = None
  /\ owner' = w
  /\ conn' = [conn EXCEPT ![w] = "live"]
  /\ pc' = [pc EXCEPT ![w] = "run"]
  /\ cut' = cut \ {w}
  /\ UNCHANGED <<phase, stops>>

(* The task ends, well, with an error or with a panic that is recovered.   *)
RunEnds(w) ==
  /\ pc[w] = "run"
  /\ pc' = [pc EXCEPT ![w] = "release"]
  /\ UNCHANGED <<owner, conn, cut, phase, stops>>

(* Fault: the pinned connection is closed and the lock not released.       *)
ReleaseLock_OnlyCloses(w) ==
  /\ pc[w] = "release"
  /\ pc' = [pc EXCEPT ![w] = "wait"]
  /\ conn' = [conn EXCEPT ![w] = "none"]
  /\ UNCHANGED <<owner, cut, phase, stops>>

(* The lock is released over the pinned connection - if there is one, if   *)
(* it is alive, and if the context, which the statement uses, is not       *)
(* cancelled - and the connection closed.                                  *)
ReleaseLock(w) ==
  /\ pc[w] = "release"
  /\ \/ /\ conn[w] = "live" /\ phase[w] = "up"
        /\ owner' = IF owner = w THEN None ELSE owner
     \/ /\ conn[w] # "live" \/ phase[w] # "up"
        /\ UNCHANGED owner
  /\ pc' = [pc EXCEPT ![w] = "wait"]
  /\ conn' = [conn EXCEPT ![w] = "none"]
  /\ UNCHANGED <<cut, phase, stops>>

-----------------------------------------------------------------------------
(* The process is asked to stop: the context of the executor is cancelled. *)
Shutdown(w) ==
  /\ phase[w] = "up"
  /\ stops < MaxStops
  /\ phase' = [phase EXCEPT ![w] = "stopping"]
  /\ stops' = stops + 1
  /\ UNCHANGED <<owner, pc, conn, cut>>

(* The locker closes the pinned connections on the way, whether the loops  *)
(* have ended or not.                                                      *)
Close(w) ==
  /\ phase[w] = "stopping"
  /\ phase' = [phase EXCEPT ![w] = "closed"]
  /\ conn' = [conn EXCEPT ![w] = "none"]
  /\ UNCHANGED <<owner, pc, cut, stops>>

(* The process ends, its sessions with it, and a new one starts.           *)
Begin(w) ==
  /\ pc' = [pc EXCEPT ![w] = "wait"]
  /\ conn' = [conn EXCEPT ![w] = "none"]
  /\ phase' = [phase EXCEPT ![w] = "up"]
  /\ cut' = cut \ {w}
  /\ SessionEnds(w)

Restart(w) ==
  /\ phase[w] = "closed"
  /\ Begin(w)
  /\ UNCHANGED stops

Crash(w) ==
  /\ stops < MaxStops
  /\ stops' = stops + 1
  /\ Begin(w)

(* The session of a pinned connection is ended from outside.               *)
Drop(w) ==
  /\ conn[w] = "live"
  /\ conn' = [conn EXCEPT ![w] = "dead"]
  /\ SessionEnds(w)
  /\ cut' = cut \cup {w}
  /\ UNCHANGED <<pc, phase, stops>>

-----------------------------------------------------------------------------
Next ==
  \E w \in Workers :
    \/ AcquireLock(w) \/ RunEnds(w) \/ ReleaseLock(w)
    \/ Shutdown(w) \/ Close(w) \/ Restart(w) \/ Crash(w) \/ Drop(w)

Spec == Init /\ [][Next]_vars

-----------------------------------------------------------------------------
(* Properties.                                                             *)

(* Every variable keeps to its type, and a connection is pinned only from  *)
(* AcquireLock to ReleaseLock.                                             *)
TypeOK ==
  /\ owner \in Workers \cup {None}
  /\ pc \in [Workers -> {"wait", "run", "release"}]
  /\ conn \in [Workers -> {"none", "live", "dead"}]
  /\ \A w \in Workers : pc[w] = "wait" => conn[w] = "none"
  /\ cut \subseteq Workers
  /\ phase \in [Workers -> {"up", "stopping", "closed"}]
  /\ stops \in 0 .. MaxStops

(* The task never runs in two processes at once, whatever is stopped,      *)
(* crashes or panics, unless the session of one of them was ended from     *)
(* outside while it ran.                                                   *)
MutualExclusion ==
  \A v, w \in Workers \ cut : pc[v] = "run" /\ pc[w] = "run" => v = w

(* A worker with a live pinned connection owns the lock, and so does every *)
(* worker that runs or is about to release, with its process stopping or   *)
(* its locker closed, as long as its session was not ended from outside.   *)
RunnersHold ==
  \A w \in Workers :
    /\ conn[w] = "live" => owner = w
    /\ w \notin cut /\ pc[w] \in {"run", "release"} => owner = w

(* ... and only a worker with a live connection has it, or one that is     *)
(* stopping: no end of a task leaves the lock behind in the pool, where    *)
(* nobody could release it.                                                *)
NothingLeaks ==
  \A w \in Workers : owner = w => conn[w] = "live" \/ phase[w] # "up"

(* The task keeps running, here or there.                                  *)
KeepsRunning == []<>(\E w \in Workers : pc[w] = "run")
=============================================================================
