-------------------------- MODULE MessageLifecycle --------------------------
(***************************************************************************)
(* What the messages component promises about one stored message, without  *)
(* saying how handlers, the cache and the hashing jobs get there: a        *)
(* message is accepted once, leaves the queue at most once and never comes *)
(* back, can be asked to cancel only while it is queued, is hashed only    *)
(* after the device settled it, never when the sender encrypted it, and    *)
(* stays hashed.                                                           *)
(***************************************************************************)

CONSTANT Rows            \* stored messages

VARIABLES phase,         \* where each message is in its life
          sealed         \* messages the sender encrypted, never hashed

vars == <<phase, sealed>>

Phases == {"absent", "queued", "cancelling", "settled", "hashed"}

TypeOK ==
  /\ phase \in [Rows -> Phases]
  /\ sealed \in SUBSET Rows

Init ==
  /\ phase = [r \in Rows |-> "absent"]
  /\ sealed = {}

(* Moves every message of S to phase p.                                    *)
Move(S, p) == phase' = [r \in Rows |-> IF r \in S THEN p ELSE phase[r]]

In(p) == {r \in Rows : phase[r] = p}

Accept(r) ==
  /\ phase[r] = "absent"
  /\ Move({r}, "queued")
  /\ \/ sealed' = sealed
     \/ sealed' = sealed \cup {r}

(* A cancellation is asked for by the message's external ID, which may     *)
(* name one message on each of several devices.                            *)
RequestCancel(S) ==
  /\ S \subseteq In("queued")
  /\ Move(S, "cancelling")
  /\ UNCHANGED sealed

Settle(r) ==
  /\ phase[r] \in {"queued", "cancelling"}
  /\ Move({r}, "settled")
  /\ UNCHANGED sealed

Hash(S) ==
  /\ S \subseteq In("settled") \ sealed
  /\ Move(S, "hashed")
  /\ UNCHANGED sealed

Next ==
  \/ \E r \in Rows : Accept(r) \/ Settle(r)
  \/ \E S \in SUBSET Rows : RequestCancel(S) \/ Hash(S)

Spec == Init /\ [][Next]_vars
=============================================================================
