------------------------------- MODULE Settings -------------------------------
(***************************************************************************)
(* The settings of a user's devices (internal/sms-gateway: module settings *)
(* and the handlers of /settings).                                         *)
(*                                                                         *)
(* A document of settings is a function on some of the fields, "section    *)
(* dot field" in the code; that a section may be there and be empty is     *)
(* left out.  A section that is no object is refused before anything is    *)
(* done, so the inputs have none.                                          *)
(*                                                                         *)
(* PATCH reads the row FOR UPDATE, merges and writes it in one transaction;*)
(* PUT updates it, and inserts it when there is none.  In MySQL either     *)
(* locks the row; when there is no row they lock a gap, which many can do  *)
(* at once, and an insertion then waits for the others: of two that wait   *)
(* for each other one is rolled back and answered with an error.           *)
(***************************************************************************)
EXTENDS Naturals, FiniteSets

CONSTANTS
  Clients,         \* requests that may be under way
  Rules,           \* the fields there may be
  Secrets,         \* those that the API never shows
  Documents,       \* what clients send: functions on some fields
  MaxRequests      \* bound: requests started in a behaviour

ASSUME SettingsAssumption ==
  /\ MaxRequests \in Nat
  /\ Secrets \subseteq Rules

VARIABLES
  hasRow,          \* whether the user has a row
  settings,        \* the document in it, empty at the start
  holders,         \* transactions that hold the row, or the gap
  request,         \* the progress of every request
  started,         \* the number of requests started
  written          \* history: what the last change of each field set it to

settingsVars == <<hasRow, settings, holders, written>>

Unset == "unset"

Idle == [pc |-> "idle"]
Ready(c) == request[c] = Idle /\ started < MaxRequests
At(c, label) == request[c].pc = label
Go(c, r) == request' = [request EXCEPT ![c] = r]
Begin(c, r) == Ready(c) /\ Go(c, r) /\ started' = started + 1

SettingsInit ==
  /\ hasRow \in BOOLEAN
  /\ settings = [f \in {} |-> Unset]
  /\ holders = {}
  /\ written = [f \in Rules |-> Unset]

-----------------------------------------------------------------------------
(* filterMap: the fields the rules know.  appendMap: a document with these *)
(* fields of another one in place of its own.                              *)
FilterMap(m, rules) == [f \in DOMAIN m \cap rules |-> m[f]]

AppendMap(m1, m2, rules) ==
  [f \in DOMAIN m1 \cup (DOMAIN m2 \cap rules) |->
     IF f \in DOMAIN m2 \cap rules THEN m2[f] ELSE m1[f]]

RulesPublic == Rules \ Secrets

(* What the API answers with, and what a device reads.                     *)
GetSettings(public) == IF public THEN FilterMap(settings, RulesPublic) ELSE settings

(* PATCH and PUT of /settings.                                             *)
BeginSettings(c, job, body) ==
  /\ Begin(c, [pc |-> "lock", job |-> job, body |-> FilterMap(body, Rules)])
  /\ UNCHANGED settingsVars

patch(c, body) == BeginSettings(c, "patch", body)
put(c, body) == BeginSettings(c, "put", body)

(* Fault: the row is read without FOR UPDATE.                              *)
LockSettings_Plain(c) ==
  /\ At(c, "lock")
  /\ Go(c, [pc |-> "write", job |-> request[c].job, body |-> request[c].body, source |-> settings])
  /\ UNCHANGED <<hasRow, settings, holders, written, started>>

(* The first statement of either transaction.                              *)
LockSettings(c) ==
  /\ At(c, "lock")
  /\ hasRow => holders = {}
  /\ holders' = holders \cup {c}
  /\ Go(c, [pc |-> "write", job |-> request[c].job, body |-> request[c].body, source |-> settings])
  /\ UNCHANGED <<hasRow, settings, written, started>>

(* The second one, and the commit.  The devices are told later.            *)
notifyDevices == [pc |-> "notify", kind |-> "settings", to |-> "all"]

WriteSettings(c, job, document) ==
  /\ At(c, "write") /\ request[c].job = job
  /\ holders \subseteq {c}
  /\ hasRow' = TRUE
  /\ settings' = document
  /\ written' = [f \in Rules |-> IF f \in DOMAIN request[c].body THEN request[c].body[f]
                                 ELSE IF job = "put" THEN Unset ELSE written[f]]
  /\ holders' = {}
  /\ Go(c, notifyDevices)
  /\ UNCHANGED started

UpdateSettings(c) ==
  WriteSettings(c, "patch", AppendMap(request[c].source, request[c].body, Rules))

ReplaceSettings(c) == WriteSettings(c, "put", request[c].body)

(* A deadlock of insertions, and one who pays for it.                      *)
RollBack(c) ==
  /\ At(c, "write")
  /\ ~hasRow /\ holders # {c} /\ c \in holders
  /\ holders' = holders \ {c}
  /\ Go(c, Idle)
  /\ UNCHANGED <<hasRow, settings, written, started>>

SettingsStep(c) == LockSettings(c) \/ UpdateSettings(c) \/ ReplaceSettings(c) \/ RollBack(c)

-----------------------------------------------------------------------------
(* No change of the settings is lost: whatever was patched or put at the   *)
(* same time, a field has the value of the last change that set it, and    *)
(* one that none has set since the last replacement is not there.          *)
NoPatchLost ==
  /\ \A f \in Rules : written[f] = IF f \in DOMAIN settings THEN settings[f] ELSE Unset
  /\ Secrets \cap DOMAIN GetSettings(TRUE) = {}
=============================================================================
