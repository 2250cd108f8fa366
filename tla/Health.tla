------------------------------- MODULE Health -------------------------------
(***************************************************************************)
(* The health checks of the SMS gateway server (pkg/health, the database's *)
(* provider in modules/db, handlers/health.go): requests that probe        *)
(* one server process, over a database that may be away for a while.       *)
(*                                                                         *)
(* Readiness pings the database, liveness looks at the process only, and   *)
(* start-up at nothing; probes run concurrently and share one counter of   *)
(* failed pings.  While the server stops, the context of every request is  *)
(* done, and a probe that notices answers with the checks it has so far.   *)
(***************************************************************************)
EXTENDS Naturals

CONSTANTS
  Probers,         \* who probes: one request at a time each
  Asks,            \* the kinds of probes each of them asks for
  MaxCount         \* bound: failed pings are counted so far

Kinds == {"startup", "live", "ready"}

ASSUME HealthAssumption ==
  /\ Asks \in [Probers -> SUBSET Kinds \ {{}}]
  /\ MaxCount \in Nat

VARIABLES
  database,        \* whether the database answers
  stopping,        \* whether the server was told to stop
  failedPings,     \* pings that failed since the last that did not
  probe            \* the progress of every prober's request

healthVars == <<database, stopping, failedPings, probe>>

-----------------------------------------------------------------------------
Statuses == {"pass", "warn", "fail"}

Quiet == [kind |-> "none", todo |-> {}, ping |-> "none", status |-> "pass"]

Requests ==
  [ kind : Kinds \cup {"none"}, todo : SUBSET {"system", "db"},
    ping : {"none", "good", "bad"}, status : Statuses ]

Set(c, r) == probe' = [probe EXCEPT ![c] = r]

HealthInit ==
  /\ database = TRUE /\ stopping = FALSE
  /\ failedPings = 0
  /\ probe = [c \in Probers |-> Quiet]

-----------------------------------------------------------------------------
(* Fault: the database is part of every check.                             *)
Checks_Everything(kind) == {"db"}

(* The providers that have something to say to a kind of probe; those that *)
(* return no checks are passed over.                                       *)
Checks(kind) ==
  CASE kind = "ready" -> {"db"} [] kind = "live" -> {"system"} [] kind = "startup" -> {}

getProbe(c, kind) ==
  /\ probe[c] = Quiet
  /\ Set(c, [Quiet EXCEPT !.kind = kind, !.todo = Checks(kind)])
  /\ UNCHANGED <<database, stopping, failedPings>>

(* The worst status of the checks so far.                                  *)
Worst(a, b) ==
  IF "fail" \in {a, b} THEN "fail" ELSE IF "warn" \in {a, b} THEN "warn" ELSE "pass"

Checked(c, provider, status) ==
  Set(c, [probe[c] EXCEPT !.todo = @ \ {provider}, !.status = Worst(@, status)])

(* Memory and goroutines may give a warning.                               *)
LiveProbe(c) ==
  /\ "system" \in probe[c].todo
  /\ \E status \in {"pass", "warn"} : Checked(c, "system", status)
  /\ UNCHANGED <<database, stopping, failedPings>>

(* The ping fails when the database does not answer, and it may when the   *)
(* context is done ...                                                     *)
Ping(c) ==
  /\ "db" \in probe[c].todo /\ probe[c].ping = "none"
  /\ \/ database /\ Set(c, [probe[c] EXCEPT !.ping = "good"])
     \/ (~database \/ stopping) /\ Set(c, [probe[c] EXCEPT !.ping = "bad"])
  /\ UNCHANGED <<database, stopping, failedPings>>

(* Fault: a good ping does not reset the counter.                          *)
CountPing_KeepsCounting(c) ==
  /\ "db" \in probe[c].todo /\ probe[c].ping # "none"
  /\ IF probe[c].ping = "bad"
     THEN /\ failedPings' = IF failedPings < MaxCount THEN failedPings + 1 ELSE MaxCount
          /\ Checked(c, "db", "fail")
     ELSE UNCHANGED failedPings /\ Checked(c, "db", "pass")
  /\ UNCHANGED <<database, stopping>>

(* ... and is counted afterwards, not always in the order of the pings.    *)
CountPing(c) ==
  /\ "db" \in probe[c].todo /\ probe[c].ping # "none"
  /\ IF probe[c].ping = "bad"
     THEN /\ failedPings' = IF failedPings < MaxCount THEN failedPings + 1 ELSE MaxCount
          /\ Checked(c, "db", "fail")
     ELSE failedPings' = 0 /\ Checked(c, "db", "pass")
  /\ UNCHANGED <<database, stopping>>

(* checkProvider looks at the context before each provider.                *)
Complete(c) == probe[c].todo = {} \/ (stopping /\ probe[c].ping = "none")

code(status) == IF status = "fail" THEN 503 ELSE 200

writeProbe(c) ==
  /\ probe[c].kind # "none" /\ Complete(c)
  /\ Set(c, Quiet)
  /\ UNCHANGED <<database, stopping, failedPings>>

-----------------------------------------------------------------------------
(* The server is told to stop; and it ends, orderly or not, and is started *)
(* again.                                                                  *)
StopServer ==
  /\ ~stopping
  /\ stopping' = TRUE
  /\ UNCHANGED <<database, failedPings, probe>>

StartServer ==
  /\ stopping' = FALSE
  /\ failedPings' = 0
  /\ probe' = [c \in Probers |-> Quiet]
  /\ UNCHANGED database

ProbeStep(c) == LiveProbe(c) \/ Ping(c) \/ CountPing(c) \/ writeProbe(c)

HealthStep ==
  \/ \E c \in Probers : ProbeStep(c) \/ \E kind \in Asks[c] : getProbe(c, kind)
  \/ StopServer \/ StartServer

-----------------------------------------------------------------------------
(* Properties.                                                             *)

(* Every variable keeps to its type.                                       *)
HealthTypeOK ==
  /\ database \in BOOLEAN /\ stopping \in BOOLEAN
  /\ failedPings \in 0 .. MaxCount
  /\ probe \in [Probers -> Requests]

(* An outage of the database makes the server unready, but never makes a   *)
(* supervisor restart it: only a readiness probe whose own ping failed is  *)
(* answered 503, whatever the other probes find at the same time; and a    *)
(* probe is told "ready" only after its own ping was good, except by a     *)
(* server that stops, which answers without having asked the database.     *)
AnswersTruthful ==
  [][ \A c \in Probers : writeProbe(c) =>
        LET r == probe[c] IN
        /\ code(r.status) = 503 => r.kind = "ready" /\ r.ping = "bad"
        /\ r.kind = "ready" /\ code(r.status) = 200 => r.ping = "good" \/ stopping
    ]_healthVars

(* Once the database is back for good, no probe fails any more and the     *)
(* number of failed pings that is reported returns to zero, although pings *)
(* are not counted in the order in which they were answered.               *)
RecoversFromOutage ==
  <>[](database /\ ~stopping)
    => <>[](failedPings = 0 /\ \A c \in Probers : code(probe[c].status) = 200)
=============================================================================
