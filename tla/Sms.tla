---------------------------------- MODULE Sms ----------------------------------
(***************************************************************************)
(* SMS from the call console: the two tabs of the page (call/static/js/    *)
(* app.js), the server behind them (call/app.py) and its gateways          *)
(* (call/*_gateway.py).                                                    *)
(*                                                                         *)
(* A tab sends one message to what was typed, the bulk tab in batches, one *)
(* request after the other; the server hands the message to a provider,    *)
(* number by number or all at once, and logs in SQLite, where one          *)
(* connection writes at a time: from its first INSERT to its commit.       *)
(***************************************************************************)
EXTENDS Naturals, FiniteSets

CONSTANTS
  Tabs,            \* tabs of open pages
  Numbers,         \* subscribers
  Texts,           \* what may be typed: sets of tokens
  SMS_BULK_MAX_RECIPIENTS,  \* how many numbers the server takes at once
  PageMax,         \* how many the page thinks it does, until it is told
  MaxJobs          \* bound: clicks on "Send"

ASSUME SmsAssumption ==
  /\ {SMS_BULK_MAX_RECIPIENTS, PageMax} \subseteq Nat \ {0}
  /\ MaxJobs \in Nat

VARIABLES
  provider,        \* config.SMS_PROVIDER, of the single tab
  tab,             \* the progress of every tab and of its request
  jobs,            \* the number of jobs so far
  rows,            \* the log: committed rows
  writer,          \* the tab whose request is writing to the log, or Nobody
  recipients,      \* history: how many recipients each job has
  shown,           \* history: what the page shows of each job
  accepted         \* history: how often a job's message was accepted for a number

smsVars == <<provider, tab, jobs, rows, writer, recipients, shown, accepted>>

-----------------------------------------------------------------------------
(* A token is a subscriber's number in one of several shapes.              *)
Shapes == {"plus", "local", "plus local", "country code", "other"}
Tokens == Shapes \X Numbers

(* What the page makes of it, and has the message sent to.                 *)
Forms == {"plus", "plus local"}
Keys == Forms \X Numbers

ASSUME TextsAssumption == \A text \in Texts : text \subseteq Tokens /\ IsFiniteSet(text)

(* _send_bulk: what is configured, or else "android".                      *)
Providers == {"android", "smpp", "dongle"}

JobIds == 1 .. MaxJobs
Nobody == "nobody"
Idle == [pc |-> "idle"]
Go(t, r) == tab' = [tab EXCEPT ![t] = r]
At(t, label) == tab[t].pc = label

SmsInit ==
  /\ provider \in Providers
  /\ tab = [t \in Tabs |-> Idle]
  /\ jobs = 0
  /\ rows = {}
  /\ writer = Nobody
  /\ recipients = [j \in JobIds |-> 0]
  /\ shown = [j \in JobIds |-> [sent |-> 0, failed |-> 0]]
  /\ accepted = [x \in JobIds \X Keys |-> 0]

-----------------------------------------------------------------------------
(* normalizeEthiopianNumber: a valid number with its plus and country      *)
(* code; but what starts with a plus is kept, +0911234567 too, which is    *)
(* thus another number to the page than 0911234567, and to afromessage     *)
(* the same again (_to_local_format).                                      *)
Valid(token) == token[1] # "other"
Normalize(token) == <<IF token[1] = "plus local" THEN "plus local" ELSE "plus", token[2]>>

(* Fault: what was typed twice, in two shapes, is there twice.             *)
ParseRecipients_Raw(text) == text

(* parseRecipients: the first token of every number.                       *)
ParseRecipients(text) ==
  {CHOOSE token \in text : Normalize(token) = n : n \in {Normalize(token) : token \in text}}

chunkArray(rest, size) ==
  {B \in SUBSET rest : \/ Cardinality(rest) <= size /\ B = rest
                       \/ Cardinality(rest) > size /\ Cardinality(B) = size}

(* A request of a job, for some of its recipients; none of its rows is     *)
(* written yet.                                                            *)
Request(t, id, kind, max, batch, rest) ==
  Go(t, [pc |-> IF kind = "call" THEN "insert" ELSE "send", id |-> id, kind |-> kind,
         max |-> max, batch |-> batch, todo |-> batch, rest |-> rest, fresh |-> {}])

(* A job is given an id nobody has; its button is disabled until it ends.  *)
newBatchId == jobs + 1

BeginJob(t, kind, to, max) ==
  /\ tab[t] = Idle /\ jobs < MaxJobs
  /\ jobs' = newBatchId
  /\ recipients' = [recipients EXCEPT ![newBatchId] = Cardinality(to)]
  /\ \E B \in chunkArray(to, max) : Request(t, newBatchId, kind, max, B, to \ B)
  /\ UNCHANGED <<provider, rows, writer, shown, accepted>>

(* "Send": nothing is sent as long as a number is invalid, and not to too  *)
(* many.                                                                   *)
SendSms(t, text) ==
  LET to == ParseRecipients(text) IN
  /\ to # {} /\ \A token \in text : Valid(token)
  /\ Cardinality(to) <= PageMax
  /\ BeginJob(t, "single", to, PageMax)

(* ... and in the bulk tab, to as many as there are, in batches of a size  *)
(* that comes with the configuration, once that is loaded.                 *)
SendBulkSms(t, text) ==
  LET to == ParseRecipients(text) IN
  /\ to # {} /\ \A token \in text : Valid(token)
  /\ \E max \in {PageMax, SMS_BULK_MAX_RECIPIENTS} : BeginJob(t, "bulk", to, max)

(* The page logs a call that ended, in the same database.                  *)
logCall(t) ==
  /\ tab[t] = Idle /\ jobs < MaxJobs
  /\ jobs' = newBatchId
  /\ Request(t, newBatchId, "call", PageMax, {}, {})
  /\ UNCHANGED <<provider, rows, writer, recipients, shown, accepted>>

-----------------------------------------------------------------------------
(* Sending.  A provider accepts, or does not, or does and the answer never *)
(* comes, which counts as a failure.                                       *)
Outcomes == {[accepted |-> TRUE,  ok |-> TRUE], [accepted |-> FALSE, ok |-> FALSE],
             [accepted |-> TRUE,  ok |-> FALSE]}

(* Whatever SMPP unit comes next is taken for the answer.                  *)
SmppOutcomes == Outcomes \cup {[accepted |-> FALSE, ok |-> TRUE]}

(* What the modem says is searched for "OK", which the message may hold.   *)
DongleOutcomes == Outcomes \cup {[accepted |-> FALSE, ok |-> TRUE]}

(* The bulk tab has a provider of its own.                                 *)
SentBy(r) == IF r.kind = "bulk" THEN "afromessage" ELSE provider

OutcomesOf(by) == CASE by = "smpp" -> SmppOutcomes
                    [] by = "dongle" -> DongleOutcomes
                    [] OTHER -> Outcomes

Row(r, token, ok) == [job |-> r.id, by |-> SentBy(r), to |-> Normalize(token), ok |-> ok]

Accept(id, tokens) ==
  accepted' = [x \in JobIds \X Keys |->
     IF x[1] = id THEN accepted[x] + Cardinality({token \in tokens : Normalize(token) = x[2]})
     ELSE accepted[x]]

(* The server takes a message for so many only.                            *)
TooMany(r) == Cardinality(r.batch) > SMS_BULK_MAX_RECIPIENTS

(* The android gateway takes all numbers in one request ...                *)
SendToAll(t) ==
  LET r == tab[t] IN
  /\ At(t, "send") /\ SentBy(r) = "android" /\ ~TooMany(r)
  /\ \E o \in OutcomesOf(SentBy(r)) :
       /\ IF o.accepted THEN Accept(r.id, r.todo) ELSE UNCHANGED accepted
       /\ Go(t, [r EXCEPT !.pc = "insert", !.todo = {},
                          !.fresh = {Row(r, token, o.ok) : token \in r.todo}])
  /\ UNCHANGED <<provider, jobs, rows, writer, recipients, shown>>

(* ... the others take one after the other.  For the bulk tab every number *)
(* has a row.                                                              *)
SendToNext(t) ==
  LET r == tab[t] IN
  /\ At(t, "send") /\ ~TooMany(r)
  /\ SentBy(r) # "android"
  /\ \E token \in r.todo, o \in OutcomesOf(SentBy(r)) :
       /\ IF o.accepted THEN Accept(r.id, {token}) ELSE UNCHANGED accepted
       /\ Go(t, [r EXCEPT !.pc = IF r.kind = "bulk" \/ r.todo = {token} THEN "insert" ELSE "send",
                          !.todo = @ \ {token},
                          !.fresh = @ \cup {Row(r, token, o.ok)}])
  /\ UNCHANGED <<provider, jobs, rows, writer, recipients, shown>>

(* The INSERT waits while another connection writes.                       *)
Insert(t) ==
  LET r == tab[t] IN
  /\ At(t, "insert") /\ r.kind # "call" /\ writer \in {Nobody, t}
  /\ writer' = t
  /\ Go(t, [r EXCEPT !.pc = IF r.todo = {} THEN "commit" ELSE "send"])
  /\ UNCHANGED <<provider, jobs, rows, recipients, shown, accepted>>

log_call(t) ==
  /\ At(t, "insert") /\ tab[t].kind = "call" /\ writer = Nobody
  /\ writer' = t
  /\ Go(t, [tab[t] EXCEPT !.pc = "commit"])
  /\ UNCHANGED <<provider, jobs, rows, recipients, shown, accepted>>

(* The single tab logs one row, sent when every number was.                *)
AllOk(fresh) == \A row \in fresh : row.ok
Logged(r) == IF r.kind = "bulk" THEN r.fresh
             ELSE {[row EXCEPT !.ok = AllOk(r.fresh)] : row \in r.fresh}

(* Fault: the rows are never committed.                                    *)
Commit_Forgets(t) ==
  /\ At(t, "commit")
  /\ writer' = Nobody
  /\ Go(t, [tab[t] EXCEPT !.pc = "answer", !.fresh = Logged(tab[t])])
  /\ UNCHANGED <<provider, jobs, rows, recipients, shown, accepted>>

Commit(t) ==
  /\ At(t, "commit")
  /\ rows' = rows \cup Logged(tab[t])
  /\ writer' = Nobody
  /\ Go(t, [tab[t] EXCEPT !.pc = "answer", !.fresh = Logged(tab[t])])
  /\ UNCHANGED <<provider, jobs, recipients, shown, accepted>>

-----------------------------------------------------------------------------
(* The page counts what it is told of a request, and sends the next batch. *)
Count(t, sent, failed) ==
  LET r == tab[t] IN
  /\ shown' = [shown EXCEPT ![r.id] = [sent |-> @.sent + sent, failed |-> @.failed + failed]]
  /\ IF r.rest = {} THEN Go(t, Idle)
     ELSE \E B \in chunkArray(r.rest, r.max) :
            Request(t, r.id, r.kind, r.max, B, r.rest \ B)

(* The answer of the single tab: all was sent, or the message failed.      *)
AnswerSms(t) ==
  LET r == tab[t]
      size == Cardinality(r.batch)
  IN  /\ At(t, "answer") /\ r.kind = "single"
      /\ IF AllOk(r.fresh) THEN Count(t, size, 0) ELSE Count(t, 0, size)
      /\ UNCHANGED <<provider, jobs, rows, writer, recipients, accepted>>

(* ... of the bulk tab: so many were sent, 502 when none was.              *)
AnswerBulk(t) ==
  LET r == tab[t]
      ok == Cardinality({row \in r.fresh : row.ok})
  IN  /\ At(t, "answer") /\ r.kind = "bulk"
      /\ Count(t, ok, Cardinality(r.batch) - ok)
      /\ UNCHANGED <<provider, jobs, rows, writer, recipients, accepted>>

(* ... of the log of calls.                                                *)
AnswerCall(t) ==
  /\ At(t, "answer") /\ tab[t].kind = "call"
  /\ Go(t, Idle)
  /\ UNCHANGED <<provider, jobs, rows, writer, recipients, shown, accepted>>

(* Too many numbers, 400: the page takes all of the batch for failed.      *)
Refuse(t) ==
  LET r == tab[t] IN
  /\ At(t, "send") /\ TooMany(r)
  /\ Count(t, 0, Cardinality(r.batch))
  /\ UNCHANGED <<provider, jobs, rows, writer, recipients, accepted>>

(* There is none: the log stayed locked for five seconds, the server threw *)
(* or was restarted, or the answer was lost.  What was written is rolled   *)
(* back unless it was committed, and the page takes all for failed.        *)
Fail(t) ==
  LET r == tab[t] IN
  /\ r # Idle
  /\ writer' = IF writer = t THEN Nobody ELSE writer
  /\ Count(t, 0, Cardinality(r.batch))
  /\ UNCHANGED <<provider, jobs, rows, recipients, accepted>>

(* list_bulk_sms_log: the totals of the report, here those of one job.     *)
Totals(j) ==
  LET log == {row \in rows : row.job = j} IN
  [recipients |-> Cardinality(log),
   sent       |-> Cardinality({row \in log : row.ok}),
   failed     |-> Cardinality({row \in log : ~row.ok})]

SmsNext ==
  \E t \in Tabs :
    \/ \E text \in Texts : SendSms(t, text) \/ SendBulkSms(t, text)
    \/ logCall(t) \/ log_call(t)
    \/ SendToAll(t) \/ SendToNext(t) \/ Insert(t) \/ Commit(t)
    \/ AnswerSms(t) \/ AnswerBulk(t) \/ AnswerCall(t) \/ Refuse(t) \/ Fail(t)

SmsSpec == SmsInit /\ [][SmsNext]_smsVars

-----------------------------------------------------------------------------
(* Properties.                                                             *)

(* Every variable keeps to its type.                                       *)
SmsTypeOK ==
  /\ provider \in Providers
  /\ jobs \in 0 .. MaxJobs
  /\ rows \subseteq [job : JobIds, by : Providers \cup {"afromessage"}, to : Keys, ok : BOOLEAN]
  /\ writer \in Tabs \cup {Nobody}
  /\ recipients \in [JobIds -> Nat]
  /\ accepted \in [JobIds \X Keys -> Nat]

(* The page accounts for every recipient of a job that is done; what it    *)
(* shows as sent is in the report, which never holds more than was asked   *)
(* for; and what the report of the bulk tab says was sent was accepted by  *)
(* its provider, whatever failed on the way and whoever wrote to the log   *)
(* meanwhile.                                                              *)
ReportAddsUp ==
  /\ \A j \in 1 .. jobs :
       /\ (\A t \in Tabs : tab[t] # Idle => tab[t].id # j) =>
            shown[j].sent + shown[j].failed = recipients[j]
       /\ shown[j].sent <= Totals(j).sent
       /\ Totals(j).recipients <= recipients[j]
  /\ \A row \in rows :
       row.ok /\ row.by \in {"afromessage", "android"} => accepted[<<row.job, row.to>>] > 0

(* The message of a job is accepted once for each number the page tells    *)
(* apart, in whichever batch it is and whatever failed: a subscriber who   *)
(* was typed more than once does not get it more than once, except with a  *)
(* plus before the zero, and without.                                      *)
OncePerJob == \A x \in JobIds \X Keys : accepted[x] <= 1
=============================================================================
