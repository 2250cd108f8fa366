---------------------------- MODULE CallConsole -----------------------------
(***************************************************************************)
(* The call console in the browser (call/static/js/app.js): one page with  *)
(* a SIP user agent for the agent's seat, the call in progress, the alert  *)
(* of an incoming call, the timer after which an unanswered call is handed *)
(* to the next seat, and the tones and timers that go with a call.         *)
(*                                                                         *)
(* The page is one thread: a step is one callback, from its start to its   *)
(* end or to the next await.  JsSIP's terminate, and stop, end sessions    *)
(* and run their `failed' or `ended' handlers before they return.          *)
(***************************************************************************)
EXTENDS Naturals

CONSTANTS
  Calls,           \* SIP sessions, incoming and outgoing, each used once
  Connects,        \* calls of connectAsAgent, each with its user agent
  None             \* no call, no user agent

ASSUME ConstantsAssumption == None \notin Calls \cup Connects

VARIABLES
  page,            \* the page's own variables and what it shows
  phase,           \* the progress of every session
  dir,             \* its direction
  line,            \* its user agent
  ice,             \* sessions whose bound on ICE gathering is running
  starting,        \* sessions whose tone waits for unlockAudio
  agent,           \* the progress of every connectAsAgent
  ua,              \* the page's user agent
  picker           \* the seat picker is open

vars == <<page, phase, dir, line, ice, starting, agent, ua, picker>>

-----------------------------------------------------------------------------
(* The page: `current', `hunt' and `popup' are the call that currentSession*)
(* names, that huntTimer would hand off, and that the alert shows; `tone'  *)
(* is the call whose tone sounds, `wanted' the one whose tone was asked    *)
(* for since the last stop (toneGeneration); `started' is callStartedAt    *)
(* and `ticking' the number of intervals that count seconds.               *)
Page ==
  [ current : Calls \cup {None}, hunt : Calls \cup {None}, popup : Calls \cup {None},
    tone : Calls \cup {None}, wanted : Calls \cup {None},
    stage : {"idle", "active", "outgoing"}, started : BOOLEAN, ticking : Nat ]

clearHuntTimer(p) == [p EXCEPT !.hunt = None]
stopRingtone(p) == [p EXCEPT !.tone = None, !.wanted = None]
startLocalTone(p, c) == [p EXCEPT !.tone = None, !.wanted = c]
hideIncomingCallAlert(p) == [p EXCEPT !.popup = None]
Silenced(p) == hideIncomingCallAlert(stopRingtone(clearHuntTimer(p)))

startTimer(p) == [p EXCEPT !.started = TRUE, !.ticking = p.ticking + 1]

(* Only the interval that was started last can be cleared.                 *)
stopTimer(p) ==
  [p EXCEPT !.started = FALSE, !.ticking = IF p.started THEN p.ticking - 1 ELSE p.ticking]

resetToIdle(p) ==
  hideIncomingCallAlert(clearHuntTimer([p EXCEPT !.current = None, !.stage = "idle"]))

(* The handlers of a session's events.                                     *)
onAccepted(p) == startTimer([Silenced(p) EXCEPT !.stage = "active"])

onConfirmed(p) ==
  LET q == [Silenced(p) EXCEPT !.stage = "active"]
  IN  IF p.started THEN q ELSE startTimer(q)

onOver(p) == resetToIdle(stopTimer(Silenced(p)))

-----------------------------------------------------------------------------
Live == {c \in Calls : phase[c] \notin {"new", "refused", "ended"}}
Refused == {c \in Calls : phase[c] = "refused"}
Answered == {c \in Calls : phase[c] \in {"accepted", "confirmed"}}
Ringing == {c \in Calls : phase[c] = "ringing"}

Init ==
  /\ page = [ current |-> None, hunt |-> None, popup |-> None, tone |-> None,
              wanted |-> None, stage |-> "idle", started |-> FALSE, ticking |-> 0 ]
  /\ phase = [c \in Calls |-> "new"]
  /\ dir \in [Calls -> {"in", "out"}]
  /\ line = [c \in Calls |-> None]
  /\ ice = {}
  /\ starting = {}
  /\ agent = [k \in Connects |-> "none"]
  /\ ua = None
  /\ picker = FALSE

(* A session ends, by whomever, and its handler runs.                      *)
Over(c) ==
  /\ phase' = [phase EXCEPT ![c] = "ended"]
  /\ ice' = ice \ {c}
  /\ page' = onOver(page)
  /\ UNCHANGED <<dir, line, starting, agent, ua, picker>>

-----------------------------------------------------------------------------
(* Incoming calls (newRTCSession).  Any user agent that runs may bring one.*)
Comes(c) ==
  /\ phase[c] = "new"
  /\ dir[c] = "in"
  /\ \E k \in Connects :
       /\ agent[k] = "up"
       /\ line' = [line EXCEPT ![c] = k]
  /\ UNCHANGED <<dir, ice, agent, ua, picker>>

(* An idle page shows the alert, and starts the tone and the hunt timer.   *)
Rings(c) ==
  /\ Comes(c)
  /\ page.current = None
  /\ phase' = [phase EXCEPT ![c] = "ringing"]
  /\ page' = startLocalTone([page EXCEPT !.current = c, !.popup = c, !.hunt = c], c)
  /\ starting' = starting \cup {c}

(* A busy page hands the new call to the next seat, and clears the hunt    *)
(* timer, the tone and the alert: those of the call it is busy with.       *)
HandsOnBusy(c) ==
  /\ Comes(c)
  /\ page.current # None
  /\ phase' = [phase EXCEPT ![c] = "ended"]
  /\ page' = Silenced(page)
  /\ UNCHANGED starting

(* The agent clicks on the alert.  answer() may throw; then the session is *)
(* terminated.                                                             *)

(* Fault: the hunt timer goes on until the call is accepted.               *)
acceptCall_KeepsHunting(c) ==
  /\ page.popup = c
  /\ phase[c] = "ringing"
  /\ \/ /\ phase' = [phase EXCEPT ![c] = "media"]
        /\ page' = stopRingtone(page)
        /\ UNCHANGED <<dir, line, ice, starting, agent, ua, picker>>
     \/ Over(c)

(* Fault: when answer() throws, the page stays as it is.                   *)
acceptCall_NoReset(c) ==
  /\ page.popup = c
  /\ phase[c] = "ringing"
  /\ \/ phase' = [phase EXCEPT ![c] = "media"]
     \/ phase' = [phase EXCEPT ![c] = "ended"]
  /\ page' = stopRingtone(clearHuntTimer(page))
  /\ UNCHANGED <<dir, line, ice, starting, agent, ua, picker>>

acceptCall(c) ==
  /\ page.popup = c
  /\ phase[c] = "ringing"
  /\ \/ /\ phase' = [phase EXCEPT ![c] = "media"]
        /\ page' = stopRingtone(clearHuntTimer(page))
        /\ UNCHANGED <<dir, line, ice, starting, agent, ua, picker>>
     \/ Over(c)

rejectCall(c) ==
  /\ page.popup = c
  /\ phase[c] = "ringing"
  /\ Over(c)

(* Nobody answers in time: the call is handed to the next seat.  (Were the *)
(* call over, terminate would throw: HuntsOnlyRinging says it is not.)     *)
HuntTimeout(c) ==
  /\ page.hunt = c
  /\ c \in Live
  /\ Over(c)

-----------------------------------------------------------------------------
(* Outgoing calls.  A user agent that was stopped, as it is while the next *)
(* one waits for its configuration and for good if that cannot be had,     *)
(* fails the call before ua.call returns it.  The page attaches its        *)
(* handlers afterwards, and never hears of it.                             *)
placeCall(c) ==
  /\ phase[c] = "new"
  /\ dir[c] = "out"
  /\ ua # None
  /\ page.current = None
  /\ line' = [line EXCEPT ![c] = ua]
  /\ \/ agent[ua] = "up" /\ phase' = [phase EXCEPT ![c] = "media"]
     \/ agent[ua] = "stopped" /\ phase' = [phase EXCEPT ![c] = "refused"]
  /\ page' = startLocalTone([page EXCEPT !.current = c, !.stage = "outgoing"], c)
  /\ starting' = starting \cup {c}
  /\ UNCHANGED <<dir, ice, agent, ua, picker>>

(* The other side accepts.                                                 *)
Accepted(c) ==
  /\ phase[c] = "calling"
  /\ phase' = [phase EXCEPT ![c] = "accepted"]
  /\ page' = onAccepted(page)
  /\ UNCHANGED <<dir, line, ice, starting, agent, ua, picker>>

(* Early media replaces the ringback.                                      *)
EarlyMedia(c) ==
  /\ phase[c] = "calling"
  /\ page' = stopRingtone(page)
  /\ UNCHANGED <<phase, dir, line, ice, starting, agent, ua, picker>>

-----------------------------------------------------------------------------
(* Both directions.  With the microphone allowed, ICE candidates are       *)
(* gathered; the first one starts a timer.                                 *)
Microphone(c) ==
  /\ phase[c] = "media"
  /\ phase' = [phase EXCEPT ![c] = "gathering"]
  /\ UNCHANGED <<page, dir, line, ice, starting, agent, ua, picker>>

IceCandidate(c) ==
  /\ phase[c] = "gathering"
  /\ c \notin ice
  /\ ice' = ice \cup {c}
  /\ UNCHANGED <<page, phase, dir, line, starting, agent, ua, picker>>

(* The local description goes out: a call is answered, or invited.         *)
LocalSdp(c) ==
  /\ phase[c] = "gathering"
  /\ ice' = ice \ {c}
  /\ \/ /\ dir[c] = "in"
        /\ phase' = [phase EXCEPT ![c] = "accepted"]
        /\ page' = onAccepted(page)
     \/ /\ dir[c] = "out"
        /\ phase' = [phase EXCEPT ![c] = "calling"]
        /\ UNCHANGED page
  /\ UNCHANGED <<dir, line, starting, agent, ua, picker>>

(* Fault: the test for an ended session is the wrong way round.            *)
IceTimeout_WhenEnded(c) ==
  /\ c \in ice
  /\ c \notin Live
  /\ LocalSdp(c)

(* It goes out five seconds after the first candidate at the latest.       *)
IceTimeout(c) ==
  /\ c \in ice
  /\ c \in Live
  /\ LocalSdp(c)

Confirmed(c) ==
  /\ phase[c] = "accepted"
  /\ phase' = [phase EXCEPT ![c] = "confirmed"]
  /\ page' = onConfirmed(page)
  /\ UNCHANGED <<dir, line, ice, starting, agent, ua, picker>>

(* The other side, the network or the microphone ends a session ...        *)
Fails(c) == c \in Live /\ Over(c)

(* ... or the agent, with the button of the stage, which throws when the   *)
(* call is over.                                                           *)
HangUp(c) ==
  /\ page.current = c
  /\ c \in Live
  /\ page.stage # "idle"
  /\ Over(c)

(* Audio is unlocked, or stays blocked: the tone that was asked for last   *)
(* sounds, unless it was stopped meanwhile.                                *)

(* Fault: the generation is not looked at.                                 *)
ToneReady_AnyGeneration(c) ==
  /\ c \in starting
  /\ starting' = starting \ {c}
  /\ page' = [page EXCEPT !.tone = c]
  /\ UNCHANGED <<phase, dir, line, ice, agent, ua, picker>>

ToneReady(c) ==
  /\ c \in starting
  /\ starting' = starting \ {c}
  /\ \/ page.wanted = c /\ page' = [page EXCEPT !.tone = c]
     \/ UNCHANGED page
  /\ UNCHANGED <<phase, dir, line, ice, agent, ua, picker>>

-----------------------------------------------------------------------------
(* Seats.  The picker opens when the page knows no seat of its own, or at  *)
(* its button, which works only between calls; it may then stay open.      *)
OpenPicker ==
  /\ ~picker
  /\ page.current = None
  /\ picker' = TRUE
  /\ UNCHANGED <<page, phase, dir, line, ice, starting, agent, ua>>

(* connectAsAgent stops the user agent it knows, and its sessions, and     *)
(* then waits for the configuration.                                       *)

(* Fault: the user agent of the seat before is left running.               *)
connectAsAgent_NoStop(k) ==
  /\ agent[k] = "none"
  /\ page' = resetToIdle(page)
  /\ agent' = [agent EXCEPT ![k] = "fetch"]
  /\ picker' = FALSE
  /\ UNCHANGED <<phase, ice, dir, line, starting, ua>>

connectAsAgent(k) ==
  LET hers == {c \in Live : line[c] = ua}
  IN  /\ agent[k] = "none"
      /\ phase' = [c \in Calls |-> IF c \in hers THEN "ended" ELSE phase[c]]
      /\ ice' = ice \ hers
      /\ page' = resetToIdle(IF hers = {} THEN page ELSE onOver(page))
      /\ agent' = [j \in Connects |-> IF j = k THEN "fetch"
                                      ELSE IF j = ua THEN "stopped" ELSE agent[j]]
      /\ picker' = FALSE
      /\ UNCHANGED <<dir, line, starting, ua>>

(* The agent picks a seat ...                                              *)
PickSeat(k) == picker /\ connectAsAgent(k)

(* ... or the page, when it is loaded, takes the seat that was saved, or   *)
(* the only one there is, unless it opens the picker instead.              *)
loadAgentsAndConnect(k) ==
  /\ ~picker
  /\ \A j \in Connects : agent[j] = "none"
  /\ connectAsAgent(k)

(* The user agent of the new seat starts, if the page gets the seat.       *)
Configured(k) ==
  /\ agent[k] = "fetch"
  /\ \/ agent' = [agent EXCEPT ![k] = "up"] /\ ua' = k
     \/ agent' = [agent EXCEPT ![k] = "failed"] /\ UNCHANGED ua
  /\ UNCHANGED <<page, phase, dir, line, ice, starting, picker>>

-----------------------------------------------------------------------------
Next ==
  \/ \E c \in Calls :
       \/ Rings(c) \/ HandsOnBusy(c) \/ acceptCall(c) \/ rejectCall(c) \/ HuntTimeout(c)
       \/ placeCall(c) \/ Accepted(c) \/ EarlyMedia(c)
       \/ Microphone(c) \/ IceCandidate(c) \/ LocalSdp(c) \/ IceTimeout(c) \/ Confirmed(c)
       \/ Fails(c) \/ HangUp(c) \/ ToneReady(c)
  \/ OpenPicker
  \/ \E k \in Connects : PickSeat(k) \/ loadAgentsAndConnect(k) \/ Configured(k)

Spec == Init /\ [][Next]_vars

(* A candidate of the machine's own is always found, and timers run.  No   *)
(* ICE server has to answer, and nobody has to allow the microphone.       *)
FairSpec == Spec /\ \A c \in Calls : WF_vars(IceCandidate(c)) /\ WF_vars(IceTimeout(c))

-----------------------------------------------------------------------------
(* Properties.                                                             *)

(* Every variable keeps to its type.                                       *)
TypeOK ==
  /\ page \in Page
  /\ phase \in [Calls -> {"new", "ringing", "media", "gathering", "calling",
                          "accepted", "confirmed", "refused", "ended"}]
  /\ dir \in [Calls -> {"in", "out"}]
  /\ line \in [Calls -> Connects \cup {None}]
  /\ ice \subseteq Calls
  /\ starting \subseteq Calls
  /\ agent \in [Connects -> {"none", "fetch", "up", "stopped", "failed"}]
  /\ ua \in Connects \cup {None}
  /\ picker \in BOOLEAN

(* The page is never busy with a session that is over, whatever ends it,   *)
(* so that no next call finds a busy seat for ever; but for a call that a  *)
(* stopped user agent refused, which keeps the page until it is reloaded   *)
(* or takes a seat from a picker that was open before.                     *)
NeverBusyForNothing == page.current # None => page.current \in Live \cup Refused

(* The hunt timer runs only for the call that rings: it never hands off a  *)
(* call that was answered, and never one that is over, on which terminate  *)
(* would throw.                                                            *)
HuntsOnlyRinging ==
  page.hunt # None => page.hunt \in Ringing /\ page.hunt = page.current

(* The alert, whose buttons answer or reject, shows the current call, and  *)
(* only until it is accepted.                                              *)
AlertShowsCurrent ==
  page.popup # None =>
    /\ page.popup = page.current
    /\ dir[page.popup] = "in"
    /\ page.popup \notin Answered

(* User agents that run and that the page does not know any more; they can *)
(* come from two changes of the seat that overlap.                         *)
Astray == {k \in Connects : agent[k] = "up" /\ k # ua}

(* As long as no user agent is astray, every session that is not over is   *)
(* the page's current one: none goes on behind its back, and the stage     *)
(* with its buttons fits it.                                               *)
OneCall ==
  Astray = {} =>
    /\ \A c \in Live : c = page.current
    /\ page.stage = IF page.current = None THEN "idle"
                    ELSE IF page.current \in Answered THEN "active"
                    ELSE IF dir[page.current] = "out" THEN "outgoing" ELSE "idle"

(* ... a tone sounds only for the current call before it is accepted,      *)
(* although it starts only when the browser lets it, which may be after    *)
(* the call is over and another one has come (a refused call's stays) ...  *)
ToneFitsCall ==
  Astray = {} /\ page.tone \notin {None} \cup Refused =>
    page.tone = page.current /\ page.tone \notin Answered

(* ... and one interval counts the seconds of an accepted call, and none   *)
(* is left over.                                                           *)
SecondsFitCall ==
  Astray = {} => page.ticking = IF page.current \in Answered THEN 1 ELSE 0

(* No ICE server that does not answer can hold up the answer to a call.    *)
GatheringEnds == \A c \in Calls : (phase[c] = "gathering") ~> (phase[c] # "gathering")

(* What the comment on call hunting says: a call that is not answered in   *)
(* time is redirected to the next seat; so while it rings the timer runs.  *)
RingingIsHunted == \A c \in Ringing : page.hunt = c
=============================================================================
