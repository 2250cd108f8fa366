---------------------------- MODULE ConsoleProofs ----------------------------
(***************************************************************************)
(* Theorems about the call console: about CallConsole, for any number of   *)
(* sessions and changes of the seat, overlapping ones included (Attached   *)
(* is inductive, and Tied and Toned with it), and about Sms, for any tabs, *)
(* subscribers and texts (Formed is inductive, Once with it, Books with    *)
(* both).                                                                  *)
(***************************************************************************)
EXTENDS CallConsole, Sms, FiniteSetTheorems, TLAPS

(* A page keeps to its type; for the number of intervals to stay a number, *)
(* it has to be positive whenever the seconds were started.                *)
Sane(p) == p \in Page /\ (p.started => p.ticking > 0)

(* The inductive invariant: what the page shows and times is about its     *)
(* current call, and that one is not over.                                 *)
Attached ==
  /\ TypeOK
  /\ Sane(page)
  /\ NeverBusyForNothing
  /\ HuntsOnlyRinging
  /\ AlertShowsCurrent

-----------------------------------------------------------------------------
(* The handlers keep a page sane.                                          *)
LEMMA SaneHandlers ==
  ASSUME NEW p, Sane(p)
  PROVE  /\ Sane(Silenced(p))
         /\ Sane(onAccepted(p))
         /\ Sane(onConfirmed(p))
         /\ Sane(onOver(p))
         /\ Sane(resetToIdle(p))
         /\ Sane(stopRingtone(p))
         /\ Sane(stopRingtone(clearHuntTimer(p)))
<1> USE DEF Sane, Page
<1>1. ASSUME NEW q, Sane(q) PROVE Sane(clearHuntTimer(q)) BY <1>1 DEF clearHuntTimer
<1>2. ASSUME NEW q, Sane(q) PROVE Sane(stopRingtone(q)) BY <1>2 DEF stopRingtone
<1>3. ASSUME NEW q, Sane(q) PROVE Sane(hideIncomingCallAlert(q))
  BY <1>3 DEF hideIncomingCallAlert
<1>4. ASSUME NEW q, Sane(q) PROVE Sane(startTimer(q))
  <2> DEFINE n == q.ticking + 1
  <2>1. n \in Nat /\ n > 0 BY <1>4
  <2>2. startTimer(q) = [q EXCEPT !.started = TRUE, !.ticking = n] BY DEF startTimer
  <2> HIDE DEF n
  <2> QED BY <1>4, <2>1, <2>2
<1>5. ASSUME NEW q, Sane(q) PROVE Sane(stopTimer(q))
  <2> DEFINE n == IF q.started THEN q.ticking - 1 ELSE q.ticking
  <2>1. n \in Nat BY <1>5
  <2>2. stopTimer(q) = [q EXCEPT !.started = FALSE, !.ticking = n] BY DEF stopTimer
  <2> HIDE DEF n
  <2> QED BY <1>5, <2>1, <2>2
<1>6. ASSUME NEW q, Sane(q) PROVE Sane(Silenced(q))
  <2> HIDE DEF Sane, Page
  <2> QED BY <1>1, <1>2, <1>3, <1>6 DEF Silenced
<1>7. ASSUME NEW q, Sane(q) PROVE Sane([q EXCEPT !.stage = "active"]) BY <1>7
<1>8. ASSUME NEW q, Sane(q) PROVE Sane([q EXCEPT !.current = None, !.stage = "idle"]) BY <1>8
<1> HIDE DEF Sane, Page
<1>9. ASSUME NEW q, Sane(q) PROVE Sane(resetToIdle(q)) BY <1>1, <1>3, <1>8, <1>9 DEF resetToIdle
<1>10. QED
  BY <1>1, <1>2, <1>4, <1>5, <1>6, <1>7, <1>9 DEF onAccepted, onConfirmed, onOver

(* ... and what they do to the parts of a page that name calls.            *)
LEMMA HandlersName ==
  ASSUME NEW p \in Page
  PROVE  /\ Silenced(p).current = p.current
         /\ Silenced(p).hunt = None /\ Silenced(p).popup = None
         /\ onAccepted(p).current = p.current
         /\ onAccepted(p).hunt = None /\ onAccepted(p).popup = None
         /\ onConfirmed(p).current = p.current
         /\ onConfirmed(p).hunt = None /\ onConfirmed(p).popup = None
         /\ onOver(p).current = None
         /\ onOver(p).hunt = None /\ onOver(p).popup = None
         /\ resetToIdle(p).current = None
         /\ resetToIdle(p).hunt = None /\ resetToIdle(p).popup = None
         /\ stopRingtone(p).current = p.current
         /\ stopRingtone(p).hunt = p.hunt /\ stopRingtone(p).popup = p.popup
         /\ stopRingtone(clearHuntTimer(p)).current = p.current
         /\ stopRingtone(clearHuntTimer(p)).hunt = None
         /\ stopRingtone(clearHuntTimer(p)).popup = p.popup
BY DEF Page, Silenced, onAccepted, onConfirmed, onOver, resetToIdle, stopRingtone,
       clearHuntTimer, hideIncomingCallAlert, startTimer, stopTimer

(* The end of a session, its own handler included, keeps the invariant,    *)
(* whichever session it is.                                                *)
LEMMA OverAttached ==
  ASSUME Attached, NEW c \in Calls, Over(c)
  PROVE  Attached'
<1>1. Sane(page') BY SaneHandlers DEF Attached, Over
<1>2. page'.current = None /\ page'.hunt = None /\ page'.popup = None
  BY HandlersName DEF Attached, TypeOK, Over
<1>3. TypeOK' BY <1>1 DEF Attached, TypeOK, Over, Sane
<1>4. QED
  BY <1>1, <1>2, <1>3 DEF Attached, NeverBusyForNothing, HuntsOnlyRinging, AlertShowsCurrent

-----------------------------------------------------------------------------
LEMMA InitAttached == Init => Attached
<1> SUFFICES ASSUME Init PROVE Attached
  OBVIOUS
<1>1. TypeOK
  BY DEF Init, TypeOK, Page
<1>2. Sane(page)
  BY ConstantsAssumption DEF Init, Sane, Page
<1>3. QED
  BY <1>1, <1>2 DEF Init, Attached, NeverBusyForNothing, HuntsOnlyRinging, AlertShowsCurrent

(* Every step keeps the invariant.                                         *)
LEMMA NextAttached == Attached /\ [Next]_vars => Attached'
<1> SUFFICES ASSUME Attached, [Next]_vars PROVE Attached'
  OBVIOUS
<1> USE ConstantsAssumption
<1>1. ASSUME NEW c \in Calls, Rings(c) PROVE Attached'
  <2>1. page' = [page EXCEPT !.current = c, !.popup = c, !.hunt = c, !.tone = None, !.wanted = c]
    BY <1>1 DEF Rings, startLocalTone, Attached, TypeOK, Page
  <2>2. Sane(page') BY <2>1 DEF Attached, TypeOK, Sane, Page
  <2>3. TypeOK' BY <1>1, <2>2 DEF Attached, TypeOK, Rings, Comes, Sane
  <2>4. page'.current = c /\ page'.hunt = c /\ page'.popup = c
    BY <2>1 DEF Attached, TypeOK, Page
  <2>5. phase'[c] = "ringing" /\ dir'[c] = "in"
    BY <1>1 DEF Rings, Comes, Attached, TypeOK
  <2> QED
    BY <2>2, <2>3, <2>4, <2>5
       DEF Attached, NeverBusyForNothing, HuntsOnlyRinging, AlertShowsCurrent, Live, Ringing,
           Answered, Refused
<1>2. ASSUME NEW c \in Calls, HandsOnBusy(c) PROVE Attached'
  <2>1. Sane(page') BY <1>2, SaneHandlers DEF Attached, HandsOnBusy
  <2>2. TypeOK' BY <1>2, <2>1 DEF Attached, TypeOK, HandsOnBusy, Comes, Sane
  <2>3. page'.current = page.current /\ page'.hunt = None /\ page'.popup = None
    BY <1>2, HandlersName DEF Attached, TypeOK, HandsOnBusy
  <2>4. page.current # None => page.current # c
    BY <1>2 DEF Attached, NeverBusyForNothing, Live, Refused, HandsOnBusy, Comes
  <2>5. NeverBusyForNothing'
    BY <1>2, <2>3, <2>4 DEF Attached, TypeOK, NeverBusyForNothing, Live, Refused, HandsOnBusy
  <2> QED BY <2>1, <2>2, <2>3, <2>5 DEF Attached, HuntsOnlyRinging, AlertShowsCurrent
<1>3. ASSUME NEW c \in Calls, acceptCall(c) PROVE Attached'
  <2>1. CASE Over(c) BY <2>1, OverAttached
  <2>2. CASE ~Over(c)
    <3>1. /\ page.popup = c /\ phase[c] = "ringing"
          /\ phase' = [phase EXCEPT ![c] = "media"]
          /\ page' = stopRingtone(clearHuntTimer(page))
          /\ UNCHANGED <<dir, line, ice, starting, agent, ua, picker>>
      BY <1>3, <2>2 DEF acceptCall
    <3>2. Sane(page') BY <3>1, SaneHandlers DEF Attached
    <3>3. TypeOK' BY <3>1, <3>2 DEF Attached, TypeOK, Sane
    <3>4. page'.current = page.current /\ page'.hunt = None /\ page'.popup = page.popup
      BY <3>1, HandlersName DEF Attached, TypeOK
    <3> QED
      BY <3>1, <3>2, <3>3, <3>4
         DEF Attached, TypeOK, NeverBusyForNothing, HuntsOnlyRinging, AlertShowsCurrent, Live,
             Answered, Refused
  <2> QED BY <2>1, <2>2
<1>4. ASSUME NEW c \in Calls, rejectCall(c) \/ HuntTimeout(c) \/ Fails(c) \/ HangUp(c)
      PROVE  Attached'
  BY <1>4, OverAttached DEF rejectCall, HuntTimeout, Fails, HangUp
<1>5. ASSUME NEW c \in Calls, placeCall(c) PROVE Attached'
  <2>1. page' = [page EXCEPT !.current = c, !.stage = "outgoing", !.tone = None, !.wanted = c]
    BY <1>5 DEF placeCall, startLocalTone, Attached, TypeOK, Page
  <2>2. Sane(page') BY <2>1 DEF Attached, TypeOK, Sane, Page
  <2>3. TypeOK' BY <1>5, <2>2 DEF Attached, TypeOK, placeCall, Sane
  <2>4. page'.current = c /\ page'.hunt = page.hunt /\ page'.popup = page.popup
    BY <2>1 DEF Attached, TypeOK, Page
  <2>5. page.hunt = None /\ page.popup = None
    BY <1>5 DEF placeCall, Attached, TypeOK, Page, HuntsOnlyRinging, AlertShowsCurrent, Ringing
  <2>6. phase'[c] \in {"media", "refused"} BY <1>5 DEF placeCall, Attached, TypeOK
  <2> QED
    BY <2>2, <2>3, <2>4, <2>5, <2>6
       DEF Attached, NeverBusyForNothing, HuntsOnlyRinging, AlertShowsCurrent, Live, Refused
<1>6. ASSUME NEW c \in Calls, Accepted(c) \/ Confirmed(c) \/ LocalSdp(c) PROVE Attached'
  <2>1. \/ page' = page \/ page' = onAccepted(page) \/ page' = onConfirmed(page)
    BY <1>6 DEF Accepted, Confirmed, LocalSdp
  <2>2. Sane(page') BY <2>1, SaneHandlers DEF Attached
  <2>3. \E s \in {"accepted", "confirmed", "calling"} :
          /\ phase' = [phase EXCEPT ![c] = s]
          /\ page' = page => s = "calling" \/ (page.hunt = None /\ page.popup = None)
    <3>1. page' = onAccepted(page) \/ page' = onConfirmed(page) =>
            page'.hunt = None /\ page'.popup = None
      BY HandlersName DEF Attached, TypeOK
    <3>2. CASE phase' = [phase EXCEPT ![c] = "calling"]
      <4> WITNESS "calling" \in {"accepted", "confirmed", "calling"}
      <4> QED BY <3>2
    <3>3. CASE /\ \E s \in {"accepted", "confirmed"} : phase' = [phase EXCEPT ![c] = s]
               /\ page' = onAccepted(page) \/ page' = onConfirmed(page)
      <4>1. PICK s \in {"accepted", "confirmed"} : phase' = [phase EXCEPT ![c] = s] BY <3>3
      <4>2. page' = page => page.hunt = None /\ page.popup = None BY <3>1, <3>3
      <4> WITNESS s \in {"accepted", "confirmed", "calling"}
      <4> QED BY <4>1, <4>2
    <3> QED BY <1>6, <3>2, <3>3 DEF Accepted, Confirmed, LocalSdp
  <2>4. phase[c] \in {"calling", "accepted", "gathering"}
    BY <1>6 DEF Accepted, Confirmed, LocalSdp
  <2>5. dir' = dir /\ line' = line /\ starting' = starting /\ agent' = agent /\ ua' = ua
        /\ picker' = picker /\ ice' \subseteq Calls
    BY <1>6 DEF Accepted, Confirmed, LocalSdp, Attached, TypeOK
  <2>6. TypeOK' BY <2>2, <2>3, <2>5 DEF Attached, TypeOK, Sane
  <2>7. /\ page'.current = page.current
        /\ \/ page'.hunt = None /\ page'.popup = None
           \/ page' = page
    BY <2>1, HandlersName DEF Attached, TypeOK
  <2>8. CASE page'.hunt = None /\ page'.popup = None
    BY <2>2, <2>3, <2>4, <2>6, <2>7, <2>8
       DEF Attached, TypeOK, NeverBusyForNothing, HuntsOnlyRinging, AlertShowsCurrent, Live, Refused
  <2>9. CASE page' = page /\ ~(page'.hunt = None /\ page'.popup = None)
    <3>1. phase' = [phase EXCEPT ![c] = "calling"] BY <2>3, <2>9
    <3> QED
      BY <2>2, <2>4, <2>5, <2>6, <2>9, <3>1
         DEF Attached, TypeOK, NeverBusyForNothing, HuntsOnlyRinging, AlertShowsCurrent, Live,
             Ringing, Answered, Refused
  <2> QED BY <2>7, <2>8, <2>9
<1>7. ASSUME NEW c \in Calls, IceTimeout(c) PROVE Attached'
  BY <1>6, <1>7 DEF IceTimeout
<1>8. ASSUME NEW c \in Calls, EarlyMedia(c) PROVE Attached'
  <2>1. Sane(page') BY <1>8, SaneHandlers DEF Attached, EarlyMedia
  <2>2. TypeOK' BY <1>8, <2>1 DEF Attached, TypeOK, EarlyMedia, Sane
  <2>3. page'.current = page.current /\ page'.hunt = page.hunt /\ page'.popup = page.popup
    BY <1>8, HandlersName DEF Attached, TypeOK, EarlyMedia
  <2> QED
    BY <1>8, <2>1, <2>2, <2>3
       DEF Attached, EarlyMedia, NeverBusyForNothing, HuntsOnlyRinging, AlertShowsCurrent, Live,
           Ringing, Answered, Refused
<1>9. ASSUME NEW c \in Calls, Microphone(c) \/ IceCandidate(c) PROVE Attached'
  <2>1. /\ UNCHANGED <<page, dir, line, starting, agent, ua, picker>>
        /\ ice' \subseteq Calls
        /\ phase' = phase \/ (phase[c] = "media" /\ phase' = [phase EXCEPT ![c] = "gathering"])
    BY <1>9 DEF Microphone, IceCandidate, Attached, TypeOK
  <2>2. TypeOK' BY <2>1 DEF Attached, TypeOK
  <2> QED
    BY <2>1, <2>2
       DEF Attached, TypeOK, Sane, NeverBusyForNothing, HuntsOnlyRinging, AlertShowsCurrent,
           Live, Ringing, Answered, Refused
<1>10. ASSUME NEW c \in Calls, ToneReady(c) PROVE Attached'
  <2>1. page' = page \/ page' = [page EXCEPT !.tone = c] BY <1>10 DEF ToneReady
  <2>2. Sane(page') BY <2>1 DEF Attached, TypeOK, Sane, Page
  <2>3. TypeOK' BY <1>10, <2>2 DEF Attached, TypeOK, ToneReady, Sane
  <2>4. page'.current = page.current /\ page'.hunt = page.hunt /\ page'.popup = page.popup
    BY <2>1 DEF Attached, TypeOK, Page
  <2> QED
    BY <1>10, <2>2, <2>3, <2>4
       DEF Attached, ToneReady, NeverBusyForNothing, HuntsOnlyRinging, AlertShowsCurrent, Live,
           Ringing, Answered, Refused
<1>11. ASSUME OpenPicker \/ \E k \in Connects : Configured(k) PROVE Attached'
  <2>1. UNCHANGED <<page, phase, dir, line, ice, starting>>
    BY <1>11 DEF OpenPicker, Configured
  <2>2. TypeOK' BY <1>11 DEF Attached, TypeOK, OpenPicker, Configured
  <2> QED
    BY <2>1, <2>2
       DEF Attached, Sane, NeverBusyForNothing, HuntsOnlyRinging, AlertShowsCurrent, Live,
           Ringing, Answered, Refused
<1>12. ASSUME NEW k \in Connects, connectAsAgent(k) PROVE Attached'
  <2>1. page' = resetToIdle(page) \/ page' = resetToIdle(onOver(page))
    BY <1>12 DEF connectAsAgent
  <2>2. Sane(page') BY <2>1, SaneHandlers DEF Attached
  <2>3. TypeOK' BY <1>12, <2>2 DEF Attached, TypeOK, connectAsAgent, Sane
  <2>4. Sane(onOver(page)) BY SaneHandlers DEF Attached
  <2>5. page'.current = None /\ page'.hunt = None /\ page'.popup = None
    BY <2>1, <2>4, HandlersName DEF Attached, TypeOK, Sane
  <2> QED
    BY <2>2, <2>3, <2>5 DEF Attached, NeverBusyForNothing, HuntsOnlyRinging, AlertShowsCurrent
<1>13. CASE UNCHANGED vars
  BY <1>13
     DEF vars, Attached, TypeOK, Sane, NeverBusyForNothing, HuntsOnlyRinging, AlertShowsCurrent,
         Live, Ringing, Answered, Refused
<1>14. QED
  BY <1>1, <1>2, <1>3, <1>4, <1>5, <1>6, <1>7, <1>8, <1>9, <1>10, <1>11, <1>12, <1>13
     DEF Next, PickSeat, loadAgentsAndConnect

LEMMA AlwaysAttached == Spec => []Attached
BY InitAttached, NextAttached, PTL DEF Spec

-----------------------------------------------------------------------------
(* The page is never busy with a session that is over: whatever ends the   *)
(* current session (the agent, the caller, a failing answer, the hunt      *)
(* timer, a change of the seat) also frees the page.                       *)
THEOREM NeverBusyForNothingAlways == Spec => []NeverBusyForNothing
<1>1. Attached => NeverBusyForNothing BY DEF Attached
<1>2. QED BY <1>1, AlwaysAttached, PTL

(* The hunt timer never outlives the ringing of the call it was started    *)
(* for: it does not hand off an answered call, or one that is over.        *)
THEOREM HuntsOnlyRingingAlways == Spec => []HuntsOnlyRinging
<1>1. Attached => HuntsOnlyRinging BY DEF Attached
<1>2. QED BY <1>1, AlwaysAttached, PTL

(* The alert always shows the call that its buttons answer or reject.      *)
THEOREM AlertShowsCurrentAlways == Spec => []AlertShowsCurrent
<1>1. Attached => AlertShowsCurrent BY DEF Attached
<1>2. QED BY <1>1, AlwaysAttached, PTL

(* Every variable keeps to its type.                                       *)
THEOREM TypeCorrect == Spec => []TypeOK
<1>1. Attached => TypeOK BY DEF Attached
<1>2. QED BY <1>1, AlwaysAttached, PTL

-----------------------------------------------------------------------------
(* One call.  A session that is not over belongs to a user agent that      *)
(* runs, and one that runs and is not astray is the page's own, so that    *)
(* connectAsAgent ends all there are.  An astray one stays astray, since   *)
(* nothing ever stops it.                                                  *)
Tied ==
  /\ \A c \in Live : line[c] \in Connects /\ agent[line[c]] = "up"
  /\ OneCall

(* The tone that sounds, and the one that waits to, are the current call's.*)
Toned ==
  Astray = {} =>
    \A t \in {page.tone, page.wanted} \ ({None} \cup Refused) :
      t = page.current /\ t \notin Answered

LEMMA HandlersShow ==
  ASSUME NEW p \in Page
  PROVE  /\ Silenced(p).stage = p.stage
         /\ Silenced(p).tone = None /\ Silenced(p).wanted = None
         /\ onAccepted(p).stage = "active"
         /\ onAccepted(p).tone = None /\ onAccepted(p).wanted = None
         /\ onConfirmed(p).stage = "active"
         /\ onConfirmed(p).tone = None /\ onConfirmed(p).wanted = None
         /\ onOver(p).stage = "idle"
         /\ onOver(p).tone = None /\ onOver(p).wanted = None
         /\ resetToIdle(p).stage = "idle"
         /\ resetToIdle(p).tone = p.tone /\ resetToIdle(p).wanted = p.wanted
         /\ stopRingtone(p).stage = p.stage
         /\ stopRingtone(p).tone = None /\ stopRingtone(p).wanted = None
         /\ stopRingtone(clearHuntTimer(p)).stage = p.stage
         /\ stopRingtone(clearHuntTimer(p)).tone = None
         /\ stopRingtone(clearHuntTimer(p)).wanted = None
BY DEF Page, Silenced, onAccepted, onConfirmed, onOver, resetToIdle, stopRingtone,
       clearHuntTimer, hideIncomingCallAlert, startTimer, stopTimer

(* Only the seat's steps touch user agents, and they leave an astray one.  *)
LEMMA AstrayStays ==
  ASSUME TypeOK, [Next]_vars
  PROVE  Astray \subseteq Astray'
<1>1. ASSUME NEW k \in Connects, connectAsAgent(k) PROVE Astray \subseteq Astray'
  BY <1>1 DEF TypeOK, Astray, connectAsAgent
<1>2. ASSUME NEW k \in Connects, Configured(k) PROVE Astray \subseteq Astray'
  BY <1>2 DEF TypeOK, Astray, Configured
<1>3. CASE UNCHANGED <<agent, ua>> BY <1>3 DEF Astray
<1>4. ASSUME NEW c \in Calls, Rings(c) \/ HandsOnBusy(c) PROVE UNCHANGED <<agent, ua>>
  BY <1>4 DEF Rings, HandsOnBusy, Comes
<1>5. ASSUME NEW c \in Calls,
             acceptCall(c) \/ rejectCall(c) \/ HuntTimeout(c) \/ Fails(c) \/ HangUp(c)
      PROVE  UNCHANGED <<agent, ua>>
  BY <1>5 DEF acceptCall, rejectCall, HuntTimeout, Fails, HangUp, Over
<1>6. ASSUME NEW c \in Calls,
             \/ placeCall(c) \/ Accepted(c) \/ EarlyMedia(c) \/ Microphone(c)
             \/ IceCandidate(c) \/ LocalSdp(c) \/ IceTimeout(c) \/ Confirmed(c) \/ ToneReady(c)
      PROVE  UNCHANGED <<agent, ua>>
  BY <1>6 DEF placeCall, Accepted, EarlyMedia, Microphone, IceCandidate, LocalSdp, IceTimeout,
              Confirmed, ToneReady
<1>7. CASE OpenPicker BY <1>3, <1>7 DEF OpenPicker
<1>8. CASE UNCHANGED vars BY <1>3, <1>8 DEF vars
<1>9. QED
  BY <1>1, <1>2, <1>3, <1>4, <1>5, <1>6, <1>7, <1>8 DEF Next, PickSeat, loadAgentsAndConnect

LEMMA OverTied ==
  ASSUME Attached, Tied, NEW c \in Live, Over(c)
  PROVE  Tied' /\ Toned'
<1>1. /\ Live' = Live \ {c} /\ Astray' = Astray /\ UNCHANGED <<line, agent, dir>>
  BY DEF Attached, TypeOK, Over, Live, Astray
<1>2. /\ page'.current = None /\ page'.stage = "idle"
      /\ page'.tone = None /\ page'.wanted = None
  BY HandlersName, HandlersShow DEF Attached, TypeOK, Over
<1>3. Astray = {} => Live' = {} BY <1>1 DEF Tied, OneCall
<1>4. QED BY <1>1, <1>2, <1>3 DEF Tied, OneCall, Toned

LEMMA InitTied == Init => Tied /\ Toned
BY DEF Init, Tied, Toned, OneCall, Live

(* Every step keeps them.                                                  *)
LEMMA NextTied == Attached /\ Tied /\ Toned /\ [Next]_vars => Tied' /\ Toned'
<1> SUFFICES ASSUME Attached, Tied, Toned, [Next]_vars PROVE Tied' /\ Toned'
  OBVIOUS
<1> USE ConstantsAssumption
<1>0. Astray \subseteq Astray' /\ TypeOK /\ page \in Page
  BY AstrayStays DEF Attached, TypeOK
<1>1. ASSUME NEW c \in Calls, Rings(c) PROVE Tied' /\ Toned'
  <2>1. page' = [page EXCEPT !.current = c, !.popup = c, !.hunt = c, !.tone = None, !.wanted = c]
    BY <1>0, <1>1 DEF Rings, startLocalTone, Page
  <2>2. /\ page'.current = c /\ page'.stage = page.stage
        /\ page'.tone = None /\ page'.wanted = c
    BY <1>0, <2>1 DEF Page
  <2>3. /\ Live' = Live \cup {c} /\ c \notin Answered' /\ UNCHANGED <<agent, ua, dir>>
        /\ dir[c] = "in" /\ page.current = None /\ c # None
        /\ \E k \in Connects : agent[k] = "up" /\ line' = [line EXCEPT ![c] = k]
    <3>1. \E k \in Connects : agent[k] = "up" /\ line' = [line EXCEPT ![c] = k]
      BY <1>1 DEF Rings, Comes
    <3>2. Live' = Live \cup {c} /\ c \notin Answered'
      BY <1>0, <1>1 DEF TypeOK, Rings, Live, Answered
    <3> QED BY <1>1, <3>1, <3>2 DEF Rings, Comes
  <2>4. Astray' = {} => Live = {} /\ page.stage = "idle" BY <1>0, <2>3 DEF Tied, OneCall, Live
  <2>5. \A x \in Live' : line'[x] \in Connects /\ agent'[line'[x]] = "up"
    BY <1>0, <2>3 DEF Tied, TypeOK
  <2> QED BY <2>2, <2>3, <2>4, <2>5 DEF Tied, OneCall, Toned
<1>2. ASSUME NEW c \in Calls, HandsOnBusy(c) PROVE Tied' /\ Toned'
  <2>1. /\ page'.current = page.current /\ page'.stage = page.stage
        /\ page'.tone = None /\ page'.wanted = None
    BY <1>0, <1>2, HandlersName, HandlersShow DEF HandsOnBusy
  <2>2. /\ Live' = Live /\ Answered' = Answered /\ c \notin Live
        /\ UNCHANGED <<agent, ua, dir>>
        /\ \E k \in Connects : line' = [line EXCEPT ![c] = k]
    BY <1>0, <1>2 DEF TypeOK, HandsOnBusy, Comes, Live, Answered
  <2>3. \A x \in Live' : line'[x] \in Connects /\ agent'[line'[x]] = "up"
    BY <1>0, <2>2 DEF Tied, TypeOK, Live
  <2> QED BY <1>0, <2>1, <2>2, <2>3 DEF Tied, OneCall, Toned
<1>3. ASSUME NEW c \in Calls, acceptCall(c) PROVE Tied' /\ Toned'
  <2>1. c \in Live BY <1>3 DEF acceptCall, Live
  <2>2. CASE Over(c) BY <2>1, <2>2, OverTied
  <2>3. CASE ~Over(c)
    <3>1. /\ page'.current = page.current /\ page'.stage = page.stage
          /\ page'.tone = None /\ page'.wanted = None
      BY <1>0, <1>3, <2>3, HandlersName, HandlersShow DEF acceptCall
    <3>2. Live' = Live /\ Answered' = Answered /\ UNCHANGED <<agent, ua, dir, line>>
      BY <1>0, <1>3, <2>3 DEF TypeOK, acceptCall, Live, Answered
    <3> QED BY <1>0, <3>1, <3>2 DEF Tied, OneCall, Toned
  <2> QED BY <2>2, <2>3
<1>4. ASSUME NEW c \in Calls, rejectCall(c) \/ HuntTimeout(c) \/ Fails(c) \/ HangUp(c)
      PROVE  Tied' /\ Toned'
  BY <1>4, OverTied DEF rejectCall, HuntTimeout, Fails, HangUp, Live
<1>5. ASSUME NEW c \in Calls, placeCall(c) PROVE Tied' /\ Toned'
  <2>1. page' = [page EXCEPT !.current = c, !.stage = "outgoing", !.tone = None, !.wanted = c]
    BY <1>0, <1>5 DEF placeCall, startLocalTone, Page
  <2>2. /\ page'.current = c /\ page'.stage = "outgoing"
        /\ page'.tone = None /\ page'.wanted = c
    BY <1>0, <2>1 DEF Page
  <2>3. /\ Live' \subseteq Live \cup {c} /\ c \notin Answered'
        /\ UNCHANGED <<agent, ua, dir>> /\ ua \in Connects
        /\ dir[c] = "out" /\ page.current = None /\ c # None
        /\ line' = [line EXCEPT ![c] = ua]
        /\ c \in Live' => agent[ua] = "up"
    BY <1>0, <1>5 DEF TypeOK, placeCall, Live, Answered
  <2>4. Astray' = {} => Live = {} BY <1>0, <2>3 DEF Tied, OneCall, Live
  <2>5. \A x \in Live' : line'[x] \in Connects /\ agent'[line'[x]] = "up"
    BY <1>0, <2>3 DEF Tied, TypeOK
  <2> QED BY <2>2, <2>3, <2>4, <2>5 DEF Tied, OneCall, Toned
<1>6. ASSUME NEW c \in Calls, Accepted(c) \/ Confirmed(c) \/ LocalSdp(c)
      PROVE  Tied' /\ Toned'
  <2>1. /\ c \in Live /\ Live' = Live /\ UNCHANGED <<agent, ua, dir, line>>
    BY <1>0, <1>6 DEF TypeOK, Accepted, Confirmed, LocalSdp, Live
  <2>2. CASE /\ page' = onAccepted(page) \/ page' = onConfirmed(page)
             /\ Answered' = Answered \cup {c}
    <3>1. /\ page'.current = page.current /\ page'.stage = "active"
          /\ page'.tone = None /\ page'.wanted = None
      BY <1>0, <2>2, HandlersName, HandlersShow
    <3>2. Astray' = {} => page.current = c /\ c # None BY <1>0, <2>1 DEF Tied, OneCall
    <3> QED BY <1>0, <2>1, <2>2, <3>1, <3>2 DEF Tied, OneCall, Toned
  <2>3. CASE page' = page /\ Answered' = Answered
    <3>1. Refused' = Refused
      BY <1>0, <1>6 DEF TypeOK, Accepted, Confirmed, LocalSdp, Refused
    <3> QED BY <1>0, <2>1, <2>3, <3>1 DEF Tied, OneCall, Toned
  <2>4. CASE Accepted(c)
    BY <1>0, <2>2, <2>4 DEF TypeOK, Accepted, Answered
  <2>5. CASE Confirmed(c)
    BY <1>0, <2>2, <2>5 DEF TypeOK, Confirmed, Answered
  <2>6. CASE LocalSdp(c)
    BY <1>0, <2>2, <2>3, <2>6 DEF TypeOK, LocalSdp, Answered
  <2> QED BY <1>6, <2>4, <2>5, <2>6
<1>7. ASSUME NEW c \in Calls, IceTimeout(c) PROVE Tied' /\ Toned'
  BY <1>6, <1>7 DEF IceTimeout
<1>8. ASSUME NEW c \in Calls, EarlyMedia(c) PROVE Tied' /\ Toned'
  <2>1. /\ page'.current = page.current /\ page'.stage = page.stage
        /\ page'.tone = None /\ page'.wanted = None
    BY <1>0, <1>8, HandlersName, HandlersShow DEF EarlyMedia
  <2>2. Live' = Live /\ Answered' = Answered /\ UNCHANGED <<agent, ua, dir, line>>
    BY <1>8 DEF EarlyMedia, Live, Answered
  <2> QED BY <1>0, <2>1, <2>2 DEF Tied, OneCall, Toned
<1>9. ASSUME NEW c \in Calls, Microphone(c) \/ IceCandidate(c) PROVE Tied' /\ Toned'
  <2>1. /\ Live' = Live /\ Answered' = Answered /\ Refused' = Refused
        /\ UNCHANGED <<page, agent, ua, dir, line>>
    BY <1>0, <1>9 DEF TypeOK, Microphone, IceCandidate, Live, Answered, Refused
  <2> QED BY <1>0, <2>1 DEF Tied, OneCall, Toned
<1>10. ASSUME NEW c \in Calls, ToneReady(c) PROVE Tied' /\ Toned'
  <2>1. /\ Live' = Live /\ Answered' = Answered /\ Refused' = Refused
        /\ UNCHANGED <<agent, ua, dir, line>>
    BY <1>10 DEF ToneReady, Live, Answered, Refused
  <2>2. /\ page'.current = page.current /\ page'.stage = page.stage
        /\ page'.wanted = page.wanted /\ page'.tone \in {page.tone, page.wanted}
    BY <1>0, <1>10 DEF ToneReady, Page
  <2> QED BY <1>0, <2>1, <2>2 DEF Tied, OneCall, Toned
<1>11. ASSUME NEW k \in Connects, Configured(k) PROVE Tied' /\ Toned'
  <2>1. /\ Live' = Live /\ Answered' = Answered /\ Refused' = Refused
        /\ UNCHANGED <<page, dir, line>>
    BY <1>11 DEF Configured, Live, Answered, Refused
  <2>2. \A j \in Connects : agent[j] = "up" => agent'[j] = "up"
    BY <1>0, <1>11 DEF TypeOK, Configured
  <2> QED BY <1>0, <2>1, <2>2 DEF Tied, OneCall, Toned
<1>12. ASSUME NEW k \in Connects, connectAsAgent(k) PROVE Tied' /\ Toned'
  <2> DEFINE hers == {c \in Live : line[c] = ua}
  <2>1. /\ Live' = Live \ hers /\ Refused' = Refused /\ UNCHANGED <<dir, line, ua>>
        /\ page' = resetToIdle(IF hers = {} THEN page ELSE onOver(page))
    BY <1>0, <1>12 DEF TypeOK, connectAsAgent, Live, Refused
  <2>2. \A j \in Connects : agent[j] = "up" /\ j # ua => agent'[j] = "up"
    BY <1>0, <1>12 DEF TypeOK, connectAsAgent
  <2>3. Astray' = {} => Live' = {}
    BY <1>0, <2>1 DEF Tied, Astray
  <2>4. onOver(page) \in Page BY SaneHandlers DEF Attached, Sane
  <2>5. page'.current = None /\ page'.stage = "idle"
    BY <1>0, <2>1, <2>4, HandlersName, HandlersShow
  <2>6. CASE hers = {}
    <3>1. page'.tone = page.tone /\ page'.wanted = page.wanted
      BY <1>0, <2>1, <2>6, HandlersShow
    <3>2. Astray' = {} => Live = {} BY <2>1, <2>3, <2>6
    <3>3. Astray' = {} => page.current \in {None} \cup Refused
      BY <3>2 DEF Attached, NeverBusyForNothing
    <3>4. Toned' BY <1>0, <2>1, <3>1, <3>3 DEF Toned
    <3> QED BY <2>1, <2>2, <2>3, <2>5, <3>4 DEF Tied, OneCall
  <2>7. CASE hers # {}
    <3>1. page'.tone = None /\ page'.wanted = None
      BY <1>0, <2>1, <2>4, <2>7, HandlersShow
    <3> QED BY <2>1, <2>2, <2>3, <2>5, <3>1 DEF Tied, OneCall, Toned
  <2> QED BY <2>6, <2>7
<1>13. CASE UNCHANGED vars \/ OpenPicker
  <2>1. /\ Live' = Live /\ Answered' = Answered /\ Refused' = Refused
        /\ UNCHANGED <<page, agent, ua, dir, line>>
    BY <1>13 DEF vars, OpenPicker, Live, Answered, Refused
  <2> QED BY <1>0, <2>1 DEF Tied, OneCall, Toned
<1>14. QED
  BY <1>1, <1>2, <1>3, <1>4, <1>5, <1>6, <1>7, <1>8, <1>9, <1>10, <1>11, <1>12, <1>13
     DEF Next, PickSeat, loadAgentsAndConnect

LEMMA AlwaysTied == Spec => [](Tied /\ Toned)
BY InitAttached, NextAttached, InitTied, NextTied, PTL DEF Spec

(* While no user agent is astray there is one call, the page's current     *)
(* one, and the stage fits it: no change of the seat leaves a session      *)
(* behind, not even one that is made while a call is placed.               *)
THEOREM OneCallAlways == Spec => []OneCall
<1>1. Tied => OneCall BY DEF Tied
<1>2. QED BY <1>1, AlwaysTied, PTL

(* A tone is the current call's and stops when that is accepted, although  *)
(* it starts after an await; but for a call that was refused.              *)
THEOREM ToneFitsCallAlways == Spec => []ToneFitsCall
<1>1. Toned => ToneFitsCall BY DEF Toned, ToneFitsCall
<1>2. QED BY <1>1, AlwaysTied, PTL

-----------------------------------------------------------------------------
(* The seconds: an interval runs exactly while the current call is answered*)
(* and the page knows that it runs.                                        *)
Timed ==
  Astray = {} =>
    /\ page.ticking = IF page.current \in Answered THEN 1 ELSE 0
    /\ page.started <=> page.current \in Answered

LEMMA HandlersTime ==
  ASSUME NEW p \in Page
  PROVE  /\ \A q \in {Silenced(p), resetToIdle(p), stopRingtone(p),
                      stopRingtone(clearHuntTimer(p))} :
              q.started = p.started /\ q.ticking = p.ticking
         /\ onAccepted(p).started = TRUE /\ onAccepted(p).ticking = p.ticking + 1
         /\ p.started => onConfirmed(p).started = TRUE /\ onConfirmed(p).ticking = p.ticking
         /\ onOver(p).started = FALSE
         /\ onOver(p).ticking = IF p.started THEN p.ticking - 1 ELSE p.ticking
BY DEF Page, Silenced, onAccepted, onConfirmed, onOver, resetToIdle, stopRingtone,
       clearHuntTimer, hideIncomingCallAlert, startTimer, stopTimer

LEMMA InitTimed == Init => Timed
<1>1. Init => page.current \notin Answered /\ page.started = FALSE /\ page.ticking = 0
  BY ConstantsAssumption DEF Init, Answered
<1>2. QED BY <1>1 DEF Timed

(* A step after which no interval has to be started or stopped.            *)
LEMMA QuietTimed ==
  ASSUME Timed, Astray \subseteq Astray',
         page'.started = page.started, page'.ticking = page.ticking,
         page'.current \in Answered' <=> page.current \in Answered
  PROVE  Timed'
BY DEF Timed

(* The end of the session that is left leaves nothing running.             *)
LEMMA OverTimed ==
  ASSUME Attached, Timed, Astray \subseteq Astray', page' = onOver(page)
  PROVE  Timed'
<1>1. page \in Page BY DEF Attached, TypeOK
<1>2. /\ page'.current = None /\ page'.started = FALSE
      /\ page'.ticking = IF page.started THEN page.ticking - 1 ELSE page.ticking
  BY <1>1, HandlersName, HandlersTime
<1>3. None \notin Answered' BY ConstantsAssumption DEF Answered
<1>4. Astray' = {} => page'.ticking = 0 BY <1>1, <1>2 DEF Timed, Page
<1>5. QED BY <1>2, <1>3, <1>4 DEF Timed

LEMMA NextTimed == Attached /\ Tied /\ Timed /\ [Next]_vars => Timed'
<1> SUFFICES ASSUME Attached, Tied, Timed, [Next]_vars PROVE Timed'
  OBVIOUS
<1> USE ConstantsAssumption
<1>0. Astray \subseteq Astray' /\ TypeOK /\ page \in Page
  BY AstrayStays DEF Attached, TypeOK
<1>1. ASSUME NEW c \in Calls, Rings(c) \/ placeCall(c) PROVE Timed'
  <2>1. /\ page'.current = c /\ page'.started = page.started
        /\ page'.ticking = page.ticking
    BY <1>0, <1>1 DEF Rings, placeCall, startLocalTone, Page
  <2>2. c \notin Answered' /\ page.current \notin Answered
    BY <1>0, <1>1 DEF TypeOK, Rings, placeCall, Answered
  <2> QED BY <1>0, <2>1, <2>2, QuietTimed
<1>2. ASSUME NEW c \in Calls, HandsOnBusy(c) PROVE Timed'
  <2>1. Answered' = Answered
    BY <1>0, <1>2 DEF TypeOK, HandsOnBusy, Comes, Answered
  <2> QED BY <1>0, <1>2, <2>1, QuietTimed, HandlersName, HandlersTime DEF HandsOnBusy
<1>3. ASSUME NEW c \in Calls, acceptCall(c) PROVE Timed'
  <2>1. CASE page' = onOver(page) BY <1>0, <2>1, OverTimed
  <2>2. CASE ~Over(c)
    <3>1. Answered' = Answered
      BY <1>0, <1>3, <2>2 DEF TypeOK, acceptCall, Answered
    <3>2. page' = stopRingtone(clearHuntTimer(page)) BY <1>3, <2>2 DEF acceptCall
    <3>3. /\ page'.current = page.current /\ page'.started = page.started
          /\ page'.ticking = page.ticking
      BY <1>0, <3>2, HandlersName, HandlersTime
    <3> QED BY <1>0, <3>1, <3>3, QuietTimed
  <2> QED BY <2>1, <2>2 DEF Over
<1>4. ASSUME NEW c \in Calls, rejectCall(c) \/ HuntTimeout(c) \/ Fails(c) \/ HangUp(c)
      PROVE  Timed'
  BY <1>0, <1>4, OverTimed DEF rejectCall, HuntTimeout, Fails, HangUp, Over
<1>5. ASSUME NEW c \in Live, page' = onAccepted(page), c \notin Answered,
             Answered' = Answered \cup {c}
      PROVE  Timed'
  <2>1. /\ page'.current = page.current /\ page'.started = TRUE
        /\ page'.ticking = page.ticking + 1
    BY <1>0, <1>5, HandlersName, HandlersTime
  <2>2. Astray' = {} => page.current = c BY <1>0 DEF Tied, OneCall
  <2>3. Astray' = {} => page.ticking = 0 BY <1>0, <1>5, <2>2 DEF Timed
  <2>4. c \in Answered' BY <1>5
  <2> QED BY <2>1, <2>2, <2>3, <2>4 DEF Timed
<1>6. ASSUME NEW c \in Calls, Accepted(c) PROVE Timed'
  <2>1. c \in Live /\ c \notin Answered /\ Answered' = Answered \cup {c}
    BY <1>0, <1>6 DEF TypeOK, Accepted, Live, Answered
  <2> QED BY <1>5, <1>6, <2>1 DEF Accepted
<1>7. ASSUME NEW c \in Calls, LocalSdp(c) PROVE Timed'
  <2>1. c \in Live /\ c \notin Answered
    BY <1>0, <1>7 DEF TypeOK, LocalSdp, Live, Answered
  <2>2. CASE phase' = [phase EXCEPT ![c] = "accepted"] /\ page' = onAccepted(page)
    <3>1. Answered' = Answered \cup {c} BY <1>0, <2>2 DEF TypeOK, Answered
    <3> QED BY <1>5, <2>1, <2>2, <3>1
  <2>3. CASE phase' = [phase EXCEPT ![c] = "calling"] /\ page' = page
    <3>1. Answered' = Answered BY <1>0, <2>1, <2>3 DEF TypeOK, Answered
    <3> QED BY <1>0, <2>3, <3>1, QuietTimed
  <2> QED BY <1>7, <2>2, <2>3 DEF LocalSdp
<1>8. ASSUME NEW c \in Calls, IceTimeout(c) PROVE Timed'
  BY <1>7, <1>8 DEF IceTimeout
<1>9. ASSUME NEW c \in Calls, Confirmed(c) PROVE Timed'
  <2>1. c \in Answered /\ c \in Live /\ Answered' = Answered
    BY <1>0, <1>9 DEF TypeOK, Confirmed, Live, Answered
  <2>2. Astray' = {} => page.started = TRUE
    BY <1>0, <2>1 DEF Timed, Tied, OneCall
  <2>3. CASE page.started = TRUE
    BY <1>0, <1>9, <2>1, <2>3, QuietTimed, HandlersName, HandlersTime DEF Confirmed
  <2>4. CASE Astray' # {} BY <2>4 DEF Timed
  <2> QED BY <2>2, <2>3, <2>4
<1>10. ASSUME NEW c \in Calls, EarlyMedia(c) \/ ToneReady(c) PROVE Timed'
  <2>1. Answered' = Answered BY <1>10 DEF EarlyMedia, ToneReady, Answered
  <2>2. /\ page'.current = page.current /\ page'.started = page.started
        /\ page'.ticking = page.ticking
    <3>1. CASE EarlyMedia(c) BY <1>0, <3>1, HandlersName, HandlersTime DEF EarlyMedia
    <3>2. CASE ToneReady(c) BY <1>0, <3>2 DEF ToneReady, Page
    <3> QED BY <1>10, <3>1, <3>2
  <2> QED BY <1>0, <2>1, <2>2, QuietTimed
<1>11. ASSUME NEW c \in Calls, Microphone(c) \/ IceCandidate(c) PROVE Timed'
  <2>1. Answered' = Answered /\ page' = page
    BY <1>0, <1>11 DEF TypeOK, Microphone, IceCandidate, Answered
  <2> QED BY <1>0, <2>1, QuietTimed
<1>12. ASSUME NEW k \in Connects, connectAsAgent(k) PROVE Timed'
  <2> DEFINE hers == {c \in Live : line[c] = ua}
             p == IF hers = {} THEN page ELSE onOver(page)
  <2>1. page' = resetToIdle(p) BY <1>12 DEF connectAsAgent
  <2>2. onOver(page) \in Page BY SaneHandlers DEF Attached, Sane
  <2>3. p \in Page BY <1>0, <2>2
  <2>4. page'.current = None /\ page'.started = p.started /\ page'.ticking = p.ticking
    <3> HIDE DEF p
    <3> QED BY <2>1, <2>3, HandlersName, HandlersTime
  <2>5. None \notin Answered' BY DEF Answered
  <2>6. CASE hers = {}
    <3>1. Astray = {} => Live = {} BY <2>6 DEF Tied, Astray
    <3>2. Astray = {} => page.current \notin Answered BY <3>1 DEF Live, Answered
    <3> QED BY <1>0, <2>4, <2>5, <2>6, <3>2 DEF Timed
  <2>7. CASE hers # {}
    <3>1. p = onOver(page) BY <2>7
    <3>2. /\ p.started = FALSE
          /\ p.ticking = IF page.started THEN page.ticking - 1 ELSE page.ticking
      <4> HIDE DEF p
      <4> QED BY <1>0, <3>1, HandlersTime
    <3>3. Astray' = {} => p.ticking = 0
      <4> HIDE DEF p
      <4> QED BY <1>0, <3>2 DEF Timed, Page
    <3> QED
      <4> HIDE DEF p
      <4> QED BY <2>4, <2>5, <3>2, <3>3 DEF Timed
  <2> QED BY <2>6, <2>7
<1>13. CASE UNCHANGED vars \/ OpenPicker \/ \E k \in Connects : Configured(k)
  <2>1. Answered' = Answered /\ page' = page
    BY <1>13 DEF vars, OpenPicker, Configured, Answered
  <2> QED BY <1>0, <2>1, QuietTimed
<1>14. QED
  BY <1>1, <1>2, <1>3, <1>4, <1>6, <1>7, <1>8, <1>9, <1>10, <1>11, <1>12, <1>13
     DEF Next, PickSeat, loadAgentsAndConnect

(* The seconds of an answered call are counted once a second, and no       *)
(* interval is left over when it is over, although only the one that was   *)
(* started last could be cleared.                                          *)
THEOREM SecondsFitCallAlways == Spec => []SecondsFitCall
<1>1. Timed => SecondsFitCall BY DEF Timed, SecondsFitCall
<1>2. Init => Attached /\ Tied /\ Toned /\ Timed BY InitAttached, InitTied, InitTimed
<1>3. QED BY <1>1, <1>2, InitTimed, NextTimed, AlwaysAttached, AlwaysTied, PTL DEF Spec

-----------------------------------------------------------------------------
(* SMS.  What a tab and its request may be; no number is among the         *)
(* recipients twice, neither in the batch nor in what is left.             *)
OnePerNumber(S) == \A a, b \in S : Normalize(a) = Normalize(b) => a = b

NumbersOf(S) == {Normalize(token) : token \in S}

Rows == [job : JobIds, by : Providers \cup {"afromessage"}, to : Keys, ok : BOOLEAN]

Batches ==
  [pc : {"send", "insert", "commit", "answer"}, id : JobIds, kind : {"single", "bulk", "call"},
   max : Nat \ {0}, batch : SUBSET Tokens, todo : SUBSET Tokens, rest : SUBSET Tokens,
   fresh : SUBSET Rows]

Busy(t) == tab[t] # Idle

Shaped(r) ==
  /\ r \in Batches
  /\ IsFiniteSet(r.batch) /\ IsFiniteSet(r.rest) /\ IsFiniteSet(r.fresh)
  /\ OnePerNumber(r.batch \cup r.rest)
  /\ r.batch \cap r.rest = {} /\ r.todo \subseteq r.batch
  /\ r.pc \in {"commit", "answer"} => r.todo = {}
  /\ r.kind = "call" => r.batch = {} /\ r.rest = {} /\ r.fresh = {}
  /\ \A row \in r.fresh : row.job = r.id /\ row.to \in NumbersOf(r.batch \ r.todo)
  /\ \A a, b \in r.fresh : a.to = b.to => a = b
  /\ Cardinality(r.fresh) + Cardinality(r.todo) = Cardinality(r.batch)

(* The android gateway gets all of a batch, or has got it.                 *)
Whole(r) == SentBy(r) = "android" => /\ r.pc = "send" => r.todo = r.batch
                                     /\ r.pc = "insert" => r.todo = {}

Formed ==
  /\ provider \in Providers
  /\ jobs \in 0 .. MaxJobs
  /\ tab = [t \in Tabs |-> tab[t]]
  /\ \A t \in Tabs : Busy(t) => Shaped(tab[t]) /\ Whole(tab[t]) /\ tab[t].id <= jobs
  /\ \A t, u \in Tabs : Busy(t) /\ Busy(u) /\ tab[t].id = tab[u].id => t = u
  /\ writer \in Tabs \cup {Nobody}

(* Once: what is still to be sent was not sent to, nor what has no job.    *)
Unsent(j, S) == \A x \in JobIds \X Keys : x[1] = j /\ x[2] \in NumbersOf(S) => accepted[x] = 0

Once ==
  /\ accepted \in [JobIds \X Keys -> Nat]
  /\ OncePerJob
  /\ \A t \in Tabs : Busy(t) => Unsent(tab[t].id, tab[t].todo \cup tab[t].rest)
  /\ \A x \in JobIds \X Keys : x[1] > jobs => accepted[x] = 0

(* The books: of n recipients of a job, with what the page shows of it and *)
(* what is logged, those that the request r and its successors answer for. *)
LogIn(S, j) == {row \in S : row.job = j}
SentOf(S) == {row \in S : row.ok = TRUE}

Owed(r, s, log, n) ==
  /\ s.sent + s.failed + Cardinality(r.batch) + Cardinality(r.rest) = n
  /\ r.pc # "answer" =>
       /\ \A row \in log : row.to \notin NumbersOf(r.batch \cup r.rest)
       /\ s.sent <= Cardinality(SentOf(log))
       /\ Cardinality(log) + Cardinality(r.batch) + Cardinality(r.rest) <= n
  /\ r.pc = "answer" =>
       /\ \A row \in log : row.to \notin NumbersOf(r.rest)
       /\ s.sent + Cardinality(SentOf(r.fresh)) <= Cardinality(SentOf(log))
       /\ Cardinality(log) + Cardinality(r.rest) <= n

Settled(s, log, n) ==
  /\ s.sent + s.failed = n
  /\ s.sent <= Cardinality(SentOf(log))
  /\ Cardinality(log) <= n

Truthful(S, acc) ==
  \A row \in S : row.ok = TRUE /\ row.by \in {"afromessage", "android"} => acc[<<row.job, row.to>>] > 0

Open(j) == \E t \in Tabs : Busy(t) /\ tab[t].id = j

Books ==
  /\ rows \subseteq Rows /\ IsFiniteSet(rows)
  /\ recipients \in [JobIds -> Nat]
  /\ shown \in [JobIds -> [sent : Nat, failed : Nat]]
  /\ \A t \in Tabs : Busy(t) =>
       LET j == tab[t].id IN Owed(tab[t], shown[j], LogIn(rows, j), recipients[j]) /\ Truthful(tab[t].fresh, accepted)
  /\ \A j \in 1 .. jobs : ~Open(j) => Settled(shown[j], LogIn(rows, j), recipients[j])
  /\ \A j \in JobIds : j > jobs =>
       recipients[j] = 0 /\ shown[j] = [sent |-> 0, failed |-> 0] /\ LogIn(rows, j) = {}
  /\ Truthful(rows, accepted)

LEMMA FormedInit == SmsInit => Formed
BY SmsAssumption DEF SmsInit, Formed, Busy

(* Recipients.                                                             *)
LEMMA ParsedOnce ==
  ASSUME NEW text \in Texts
  PROVE  /\ ParseRecipients(text) \subseteq Tokens /\ IsFiniteSet(ParseRecipients(text))
         /\ OnePerNumber(ParseRecipients(text))
<1> DEFINE First(n) == CHOOSE token \in text : Normalize(token) = n
<1>1. \A n \in NumbersOf(text) : First(n) \in text /\ Normalize(First(n)) = n
  <2> SUFFICES ASSUME NEW n \in NumbersOf(text)
               PROVE  First(n) \in text /\ Normalize(First(n)) = n
    OBVIOUS
  <2>1. \E token \in text : Normalize(token) = n
    BY DEF NumbersOf
  <2> QED
    BY <2>1
<1>2. ParseRecipients(text) = {First(n) : n \in NumbersOf(text)}
  BY DEF ParseRecipients, NumbersOf
<1> HIDE DEF First
<1>3. ParseRecipients(text) \subseteq text
  BY <1>1, <1>2
<1>4. OnePerNumber(ParseRecipients(text))
  BY <1>1, <1>2 DEF OnePerNumber
<1> QED
  BY <1>3, <1>4, TextsAssumption, FS_Subset

LEMMA ChunkParts ==
  ASSUME NEW rest, IsFiniteSet(rest), NEW size, NEW B \in chunkArray(rest, size)
  PROVE  /\ B \subseteq rest
         /\ IsFiniteSet(B) /\ IsFiniteSet(rest \ B)
         /\ Cardinality(B) \in Nat /\ Cardinality(rest \ B) \in Nat
         /\ Cardinality(B) + Cardinality(rest \ B) = Cardinality(rest)
<1>1. B \subseteq rest
  BY DEF chunkArray
<1>2. rest \cap B = B
  BY <1>1
<1>3. IsFiniteSet(B) /\ IsFiniteSet(rest \ B) /\ Cardinality(rest \ B) = Cardinality(rest) - Cardinality(rest \cap B)
  BY <1>1, FS_Subset, FS_Difference
<1>4. Cardinality(B) \in Nat /\ Cardinality(rest) \in Nat /\ Cardinality(rest \ B) \in Nat
  BY <1>3, FS_CardinalityType
<1>5. Cardinality(rest \ B) = Cardinality(rest) - Cardinality(B)
  BY <1>2, <1>3
<1> QED
  BY <1>1, <1>3, <1>4, <1>5

(* A function that tells its arguments apart has as many values.           *)
LEMMA AsMany ==
  ASSUME NEW S, IsFiniteSet(S), NEW f, \A a, b \in S : f[a] = f[b] => a = b
  PROVE  IsFiniteSet({f[a] : a \in S}) /\ Cardinality({f[a] : a \in S}) = Cardinality(S)
<1> DEFINE T == {f[a] : a \in S}
           g == [a \in S |-> f[a]]
<1>1. g \in [S -> T] /\ \A a \in S : g[a] = f[a]
  OBVIOUS
<1>2. \A b \in T : \E a \in S : f[a] = b
  OBVIOUS
<1> HIDE DEF T, g
<1>3. g \in Surjection(S, T)
  BY <1>1, <1>2 DEF Surjection
<1>4. DOMAIN g = S
  BY <1>1
<1>5. IsInjective(g)
  BY <1>1, <1>4, Zenon DEF IsInjective
<1>6. g \in Injection(S, T)
  BY <1>1, <1>5 DEF Injection
<1>7. IsFiniteSet(T) /\ Cardinality(T) = Cardinality(S)
  BY <1>3, <1>6, FS_Surjection
<1> QED
  BY <1>7 DEF T

(* What is logged of a request: its rows, with what is said of them all.   *)
LEMMA LoggedShape ==
  ASSUME NEW r, Shaped(r)
  PROVE  /\ Logged(r) \subseteq Rows /\ IsFiniteSet(Logged(r))
         /\ Cardinality(Logged(r)) = Cardinality(r.fresh)
         /\ \A row \in Logged(r) : \E old \in r.fresh : row.job = old.job /\ row.to = old.to /\ row.by = old.by
         /\ \A a, b \in Logged(r) : a.to = b.to => a = b
         /\ \A row \in Logged(r) : row.ok => \E old \in r.fresh : old = row
<1> USE DEF Shaped
<1>1. CASE r.kind = "bulk"
  BY <1>1 DEF Logged, Batches
<1>2. CASE r.kind # "bulk"
  <2> DEFINE all == AllOk(r.fresh)
             f == [row \in r.fresh |-> [row EXCEPT !.ok = all]]
  <2>1. all \in BOOLEAN /\ (all => \A row \in r.fresh : row.ok)
    BY DEF AllOk
  <2>2. r.fresh \subseteq Rows
    BY DEF Batches
  <2>3. Logged(r) = {f[row] : row \in r.fresh}
    BY <1>2 DEF Logged
  <2> HIDE DEF all
  <2>4. \A row \in r.fresh : /\ f[row] \in Rows /\ f[row].ok = all
                             /\ f[row].job = row.job /\ f[row].to = row.to /\ f[row].by = row.by
    BY <2>1, <2>2 DEF Rows
  <2>5. \A row \in r.fresh : row.ok = TRUE => [row EXCEPT !.ok = TRUE] = row
    BY <2>2 DEF Rows
  <2>6. \A row \in r.fresh : f[row].ok => f[row] = row
    <3> SUFFICES ASSUME NEW row \in r.fresh, f[row].ok PROVE f[row] = row
      OBVIOUS
    <3>1. all = TRUE
      BY <2>1, <2>4
    <3>2. row.ok = TRUE
      BY <2>1, <2>2, <3>1 DEF Rows
    <3> QED
      BY <2>5, <3>1, <3>2
  <2> HIDE DEF f
  <2>7. \A a, b \in r.fresh : f[a] = f[b] => a = b
    BY <2>4
  <2>8. IsFiniteSet(Logged(r)) /\ Cardinality(Logged(r)) = Cardinality(r.fresh)
    BY <2>3, <2>7, AsMany
  <2> QED
    BY <2>3, <2>4, <2>6, <2>8
<1> QED
  BY <1>1, <1>2

(* A request that begins is well formed.                                   *)
Begun(id, kind, max, B, rest) ==
  [pc |-> IF kind = "call" THEN "insert" ELSE "send", id |-> id, kind |-> kind,
   max |-> max, batch |-> B, todo |-> B, rest |-> rest, fresh |-> {}]

LEMMA BegunShape ==
  ASSUME NEW all \in SUBSET Tokens, IsFiniteSet(all), OnePerNumber(all),
         NEW max \in Nat \ {0}, NEW B \in chunkArray(all, max),
         NEW id \in JobIds, NEW kind \in {"single", "bulk", "call"},
         kind = "call" => all = {}
  PROVE  Shaped(Begun(id, kind, max, B, all \ B)) /\ Begun(id, kind, max, B, all \ B) # Idle
<1> DEFINE r == Begun(id, kind, max, B, all \ B)
<1>1. B \subseteq all /\ IsFiniteSet(B) /\ IsFiniteSet(all \ B) /\ Cardinality(B) \in Nat
  BY ChunkParts
<1>2. /\ r.id = id /\ r.kind = kind /\ r.batch = B /\ r.todo = B /\ r.rest = all \ B
      /\ r.fresh = {} /\ r.pc \in {"send", "insert"} /\ r.pc # "idle"
  BY DEF Begun
<1>3. r \in Batches
  BY <1>1 DEF Begun, Batches
<1> HIDE DEF r
<1>4. IsFiniteSet({}) /\ Cardinality({}) = 0
  BY FS_EmptySet
<1>5. Cardinality(r.fresh) + Cardinality(r.todo) = Cardinality(r.batch)
  BY <1>1, <1>2, <1>4
<1>6. r.batch \cup r.rest = all
  BY <1>1, <1>2
<1>7. Shaped(r)
  BY <1>1, <1>2, <1>3, <1>4, <1>5, <1>6 DEF Shaped
<1>8. r # Idle
  BY <1>2 DEF Idle
<1> QED
  BY <1>7, <1>8 DEF r

(* One tab moves on, with its job or with one that is new.                 *)
LEMMA TabMoves ==
  ASSUME Formed, NEW t \in Tabs, NEW q, tab' = [tab EXCEPT ![t] = q],
         provider' = provider, writer' \in Tabs \cup {Nobody},
         jobs' \in 0 .. MaxJobs, jobs <= jobs',
         q # Idle => /\ Shaped(q) /\ Whole(q) /\ q.id <= jobs'
                     /\ (q.id > jobs \/ (Busy(t) /\ q.id = tab[t].id))
  PROVE  Formed'
<1>1. tab' = [u \in Tabs |-> tab'[u]] /\ tab'[t] = q /\ \A u \in Tabs : u # t => tab'[u] = tab[u]
  BY DEF Formed
<1>2. ASSUME NEW u \in Tabs, tab'[u] # Idle PROVE Shaped(tab'[u]) /\ Whole(tab'[u]) /\ tab'[u].id <= jobs'
  <2>1. CASE u = t
    BY <1>1, <1>2, <2>1
  <2>2. CASE u # t
    <3>1. Shaped(tab[u]) /\ Whole(tab[u]) /\ tab[u].id <= jobs
      BY <1>1, <1>2, <2>2 DEF Formed, Busy
    <3>2. tab[u].id \in JobIds
      BY <3>1 DEF Shaped, Batches
    <3> QED
      BY <1>1, <2>2, <3>1, <3>2, SmsAssumption DEF Formed, JobIds
  <2> QED
    BY <2>1, <2>2
<1>3. ASSUME NEW u \in Tabs, u # t, Busy(u), q # Idle PROVE q.id # tab[u].id
  <2>1. Shaped(tab[u]) /\ tab[u].id <= jobs
    BY <1>3 DEF Formed
  <2>2. tab[u].id \in JobIds /\ q.id \in JobIds
    BY <1>3, <2>1 DEF Shaped, Batches
  <2> QED
    BY <1>3, <2>1, <2>2, SmsAssumption DEF Formed, JobIds
<1>4. ASSUME NEW u \in Tabs, tab'[u] # Idle PROVE Whole(tab[u])'
  BY <1>2, <1>4 DEF Whole, SentBy
<1>5. \A u, v \in Tabs : tab'[u] # Idle /\ tab'[v] # Idle /\ tab'[u].id = tab'[v].id => u = v
  BY <1>1, <1>3 DEF Formed, Busy
<1> QED
  BY <1>1, <1>2, <1>4, <1>5 DEF Formed, Busy

LEMMA RowOfToken ==
  ASSUME Formed, NEW r, Shaped(r), NEW token \in r.todo, NEW ok \in BOOLEAN
  PROVE  /\ Row(r, token, ok) \in Rows
         /\ Row(r, token, ok).job = r.id /\ Row(r, token, ok).to = Normalize(token)
         /\ Row(r, token, ok).by = SentBy(r) /\ Row(r, token, ok).ok = ok
<1>1. SentBy(r) \in Providers \cup {"afromessage"}
  BY DEF Formed, SentBy
<1>2. Normalize(token) \in Keys /\ r.id \in JobIds
  BY DEF Shaped, Batches, Tokens, Normalize, Keys, Forms
<1> QED
  BY <1>1, <1>2 DEF Row, Rows

(* An outcome says two things; the gateways that are asked for a "yes"     *)
(* of the provider's own say no more than it.                              *)
LEMMA OutcomeTypes ==
  ASSUME NEW by, NEW o \in OutcomesOf(by)
  PROVE  /\ o.accepted \in BOOLEAN /\ o.ok \in BOOLEAN
         /\ by \in {"afromessage", "android"} /\ o.ok = TRUE => o.accepted = TRUE
<1> DEFINE Said(a, b) == [accepted |-> a, ok |-> b]
<1>1. \A a, b : Said(a, b).accepted = a /\ Said(a, b).ok = b
  OBVIOUS
<1>2. Outcomes = {Said(TRUE, TRUE), Said(FALSE, FALSE), Said(TRUE, FALSE)}
  BY DEF Outcomes
<1>3. o \in Outcomes \cup {Said(FALSE, TRUE)}
  BY DEF OutcomesOf, SmppOutcomes, DongleOutcomes
<1>4. by \in {"afromessage", "android"} => o \in Outcomes
  BY DEF OutcomesOf
<1> HIDE DEF Said
<1>5. \/ o = Said(TRUE, TRUE) \/ o = Said(FALSE, FALSE)
      \/ o = Said(TRUE, FALSE) \/ o = Said(FALSE, TRUE)
  BY <1>2, <1>3
<1>6. o.accepted \in BOOLEAN /\ o.ok \in BOOLEAN
  <2>1. PICK a \in BOOLEAN, b \in BOOLEAN : o = Said(a, b)
    BY <1>5
  <2>2. o.accepted = a /\ o.ok = b
    BY <1>1, <2>1, Zenon
  <2> QED
    BY <2>2
<1>7. ASSUME by \in {"afromessage", "android"}, o.ok = TRUE PROVE o.accepted = TRUE
  <2>1. o = Said(TRUE, TRUE) \/ o = Said(FALSE, FALSE) \/ o = Said(TRUE, FALSE)
    BY <1>2, <1>4, <1>7
  <2> QED
    BY <1>1, <1>7, <2>1
<1> QED
  BY <1>6, <1>7

(* One more number was sent to: its row is new.                            *)
LEMMA SentOne ==
  ASSUME Formed, NEW r, Shaped(r), r.kind # "call", NEW token \in r.todo, NEW ok \in BOOLEAN,
         NEW pc \in {"send", "insert"}
  PROVE  Shaped([r EXCEPT !.pc = pc, !.todo = @ \ {token}, !.fresh = @ \cup {Row(r, token, ok)}])
<1> DEFINE row == Row(r, token, ok)
           q == [r EXCEPT !.pc = pc, !.todo = r.todo \ {token}, !.fresh = r.fresh \cup {row}]
<1>1. row \in Rows /\ row.job = r.id /\ row.to = Normalize(token)
  BY RowOfToken
<1> HIDE DEF row
<1>2. /\ q.pc = pc /\ q.id = r.id /\ q.kind = r.kind /\ q.batch = r.batch /\ q.rest = r.rest
      /\ q.todo = r.todo \ {token} /\ q.fresh = r.fresh \cup {row} /\ q \in Batches
  BY <1>1 DEF Shaped, Batches
<1> HIDE DEF q
<1>3. \A old \in r.fresh : old.to # row.to
  <2> SUFFICES ASSUME NEW old \in r.fresh, old.to = row.to PROVE FALSE
    OBVIOUS
  <2>1. PICK other \in r.batch \ r.todo : Normalize(other) = old.to
    BY DEF Shaped, NumbersOf
  <2>2. other = token
    BY <1>1, <2>1 DEF Shaped, OnePerNumber
  <2> QED
    BY <2>1, <2>2
<1>4. row \notin r.fresh
  BY <1>3
<1>5. IsFiniteSet(q.fresh) /\ Cardinality(q.fresh) = Cardinality(r.fresh) + 1
  <2>1. IsFiniteSet(r.fresh)
    BY DEF Shaped
  <2>2. IsFiniteSet(r.fresh \cup {row}) /\ Cardinality(r.fresh \cup {row}) = Cardinality(r.fresh) + 1
    BY <1>4, <2>1, FS_AddElement
  <2> QED
    BY <1>2, <2>2
<1>6. IsFiniteSet(r.todo) /\ Cardinality(r.todo) \in Nat /\ Cardinality(r.fresh) \in Nat
  BY FS_Subset, FS_CardinalityType DEF Shaped
<1>7. Cardinality(q.todo) = Cardinality(r.todo) - 1
  BY <1>2, <1>6, FS_RemoveElement
<1>8. Cardinality(q.fresh) + Cardinality(q.todo) = Cardinality(q.batch)
  BY <1>2, <1>5, <1>6, <1>7 DEF Shaped
<1>9. token \in q.batch \ q.todo
  BY <1>2 DEF Shaped
<1>10. \A new \in q.fresh : new.job = q.id /\ new.to \in NumbersOf(q.batch \ q.todo)
  <2> SUFFICES ASSUME NEW new \in q.fresh
               PROVE  new.job = q.id /\ new.to \in NumbersOf(q.batch \ q.todo)
    OBVIOUS
  <2>1. CASE new = row
    BY <1>1, <1>2, <1>9, <2>1 DEF NumbersOf
  <2>2. CASE new \in r.fresh
    BY <1>2, <2>2 DEF Shaped, NumbersOf
  <2> QED
    BY <1>2, <2>1, <2>2
<1>11. \A a, b \in q.fresh : a.to = b.to => a = b
  BY <1>2, <1>3 DEF Shaped
<1>12. Shaped(q)
  BY <1>2, <1>5, <1>8, <1>10, <1>11 DEF Shaped
<1> QED
  BY <1>12 DEF q, row

(* ... or all of them were, none of them before.                           *)
LEMMA SentAll ==
  ASSUME Formed, NEW r, Shaped(r), r.todo = r.batch, NEW ok \in BOOLEAN
  PROVE  Shaped([r EXCEPT !.pc = "insert", !.todo = {},
                          !.fresh = {Row(r, token, ok) : token \in r.todo}])
<1> DEFINE f == [token \in r.batch |-> Row(r, token, ok)]
           new == {Row(r, token, ok) : token \in r.todo}
           q == [r EXCEPT !.pc = "insert", !.todo = {}, !.fresh = new]
<1>1. \A token \in r.batch : f[token] \in Rows /\ f[token].job = r.id /\ f[token].to = Normalize(token)
  BY RowOfToken
<1>2. new = {f[token] : token \in r.batch}
  OBVIOUS
<1> HIDE DEF f, new
<1>3. \A a, b \in r.batch : Normalize(a) = Normalize(b) => a = b
  BY DEF Shaped, OnePerNumber
<1>4. IsFiniteSet(new) /\ Cardinality(new) = Cardinality(r.batch)
  BY <1>1, <1>2, <1>3, AsMany DEF Shaped
<1>5. new \subseteq Rows
  BY <1>1, <1>2
<1>6. /\ q.pc = "insert" /\ q.id = r.id /\ q.kind = r.kind /\ q.batch = r.batch /\ q.rest = r.rest
      /\ q.todo = {} /\ q.fresh = new /\ q \in Batches
  BY <1>5 DEF Shaped, Batches
<1>7. Cardinality({}) = 0 /\ Cardinality(new) \in Nat
  BY <1>4, FS_EmptySet, FS_CardinalityType
<1>8. r.kind = "call" => new = {}
  BY <1>2 DEF Shaped
<1>9. \A row \in new : row.job = r.id /\ row.to \in NumbersOf(r.batch)
  BY <1>1, <1>2 DEF NumbersOf
<1>10. \A a, b \in new : a.to = b.to => a = b
  BY <1>1, <1>2, <1>3
<1> HIDE DEF q
<1>11. q.batch \ q.todo = r.batch
  BY <1>6
<1>12. Shaped(q)
  BY <1>4, <1>6, <1>7, <1>8, <1>9, <1>10, <1>11 DEF Shaped
<1> QED
  BY <1>12 DEF q, new

LEMMA BegunWhole ==
  ASSUME NEW id, NEW kind, NEW max, NEW B, NEW rest, kind = "call" => B = {}
  PROVE  Whole(Begun(id, kind, max, B, rest))
BY DEF Whole, Begun

(* A job that begins.                                                      *)
LEMMA JobBegins ==
  ASSUME Formed, NEW t \in Tabs, NEW to \in SUBSET Tokens, IsFiniteSet(to), OnePerNumber(to),
         NEW kind \in {"single", "bulk"}, NEW max \in Nat \ {0}, BeginJob(t, kind, to, max)
  PROVE  /\ jobs' = jobs + 1 /\ jobs' \in JobIds /\ tab[t] = Idle
         /\ recipients' = [recipients EXCEPT ![jobs + 1] = Cardinality(to)]
         /\ \E B \in chunkArray(to, max) :
              LET q == Begun(jobs + 1, kind, max, B, to \ B) IN
              tab' = [tab EXCEPT ![t] = q] /\ Shaped(q) /\ Whole(q) /\ q # Idle
         /\ Formed'
<1>1. /\ tab[t] = Idle /\ jobs < MaxJobs /\ jobs' = jobs + 1
      /\ recipients' = [recipients EXCEPT ![jobs + 1] = Cardinality(to)]
      /\ UNCHANGED <<provider, rows, writer, shown, accepted>>
  BY DEF BeginJob, newBatchId
<1>2. PICK B \in chunkArray(to, max) : tab' = [tab EXCEPT ![t] = Begun(jobs + 1, kind, max, B, to \ B)]
  BY DEF BeginJob, newBatchId, Request, Go, Begun
<1>3. jobs' \in JobIds /\ jobs \in Nat /\ jobs' \in 0 .. MaxJobs
  BY <1>1, SmsAssumption DEF Formed, JobIds
<1> DEFINE q == Begun(jobs + 1, kind, max, B, to \ B)
<1>4. Shaped(q) /\ q # Idle
  BY <1>1, <1>3, BegunShape
<1>5. Whole(q)
  BY BegunWhole
<1>6. q.id = jobs'
  BY <1>1 DEF Begun
<1>7. tab' = [tab EXCEPT ![t] = q]
  BY <1>2
<1> HIDE DEF q
<1>8. Formed'
  <2>1. q.id <= jobs' /\ q.id > jobs /\ jobs <= jobs'
    BY <1>1, <1>3, <1>6
  <2>2. provider' = provider /\ writer' \in Tabs \cup {Nobody}
    BY <1>1 DEF Formed
  <2> QED
    BY <1>3, <1>4, <1>5, <1>7, <2>1, <2>2, TabMoves
<1> QED
  BY <1>1, <1>3, <1>4, <1>5, <1>7, <1>8 DEF q

(* A request that is counted: the next one begins, or the tab is done.     *)
LEMMA CountMoves ==
  ASSUME Formed, NEW t \in Tabs, Busy(t), NEW sent, NEW failed, Count(t, sent, failed),
         provider' = provider, jobs' = jobs, writer' \in Tabs \cup {Nobody}
  PROVE  LET r == tab[t] IN
         /\ \/ r.rest = {} /\ tab' = [tab EXCEPT ![t] = Idle]
            \/ \E B \in chunkArray(r.rest, r.max) :
                 LET q == Begun(r.id, r.kind, r.max, B, r.rest \ B) IN
                 tab' = [tab EXCEPT ![t] = q] /\ Shaped(q) /\ q # Idle
         /\ Formed'
<1> DEFINE r == tab[t]
<1>1. Shaped(r) /\ r.id <= jobs' /\ jobs <= jobs' /\ jobs' \in 0 .. MaxJobs
  BY SmsAssumption DEF Formed
<1>2. CASE r.rest = {}
  <2>1. tab' = [tab EXCEPT ![t] = Idle]
    BY <1>2 DEF Count, Go
  <2>2. Formed'
    BY <1>1, <2>1, TabMoves, Zenon
  <2> QED
    BY <1>2, <2>1, <2>2
<1>3. CASE r.rest # {}
  <2>1. PICK B \in chunkArray(r.rest, r.max) :
          tab' = [tab EXCEPT ![t] = Begun(r.id, r.kind, r.max, B, r.rest \ B)]
    BY <1>3 DEF Count, Request, Go, Begun
  <2> DEFINE q == Begun(r.id, r.kind, r.max, B, r.rest \ B)
  <2>2. /\ r.rest \in SUBSET Tokens /\ IsFiniteSet(r.rest) /\ OnePerNumber(r.rest)
        /\ r.max \in Nat \ {0} /\ r.id \in JobIds /\ r.kind \in {"single", "bulk", "call"}
        /\ r.kind = "call" => r.rest = {}
    BY <1>1 DEF Shaped, Batches, OnePerNumber
  <2>3. Shaped(q) /\ q # Idle
    BY <2>2, BegunShape
  <2>4. Whole(q)
    BY <1>3, <2>2, BegunWhole
  <2>5. q.id = r.id
    BY DEF Begun
  <2>6. tab' = [tab EXCEPT ![t] = q]
    BY <2>1
  <2> HIDE DEF q
  <2>7. Formed'
    BY <1>1, <2>3, <2>4, <2>5, <2>6, TabMoves, Zenon
  <2> QED
    BY <2>3, <2>6, <2>7 DEF q
<1> QED
  BY <1>2, <1>3

(* A request of a tab moves on: it is still of the same job.               *)
LEMMA RequestMoves ==
  ASSUME Formed, NEW t \in Tabs, Busy(t), NEW q, tab' = [tab EXCEPT ![t] = q],
         Shaped(q), Whole(q), q.id = tab[t].id,
         provider' = provider, jobs' = jobs, writer' \in Tabs \cup {Nobody}
  PROVE  Formed'
<1>1. tab[t].id <= jobs /\ jobs \in Nat /\ jobs \in 0 .. MaxJobs
  BY SmsAssumption DEF Formed
<1>2. q.id <= jobs' /\ jobs <= jobs' /\ jobs' \in 0 .. MaxJobs
  BY <1>1
<1>3. q # Idle => /\ Shaped(q) /\ Whole(q) /\ q.id <= jobs'
                  /\ (q.id > jobs \/ (Busy(t) /\ q.id = tab[t].id))
  BY <1>2
<1> QED
  BY <1>2, <1>3, TabMoves, Zenon

(* A call that is logged.                                                  *)
LEMMA CallBegins ==
  ASSUME Formed, NEW t \in Tabs, logCall(t)
  PROVE  /\ jobs' = jobs + 1 /\ jobs' \in JobIds /\ tab[t] = Idle
         /\ LET q == Begun(jobs + 1, "call", PageMax, {}, {}) IN
            tab' = [tab EXCEPT ![t] = q] /\ Shaped(q) /\ Whole(q) /\ q # Idle
         /\ Formed'
<1>1. /\ tab[t] = Idle /\ jobs < MaxJobs /\ jobs' = jobs + 1
      /\ UNCHANGED <<provider, rows, writer, recipients, shown, accepted>>
  BY DEF logCall, newBatchId
<1> DEFINE q == Begun(jobs + 1, "call", PageMax, {}, {})
<1>2. tab' = [tab EXCEPT ![t] = q]
  BY DEF logCall, newBatchId, Request, Go, Begun
<1>3. jobs' \in JobIds /\ jobs \in Nat /\ jobs' \in 0 .. MaxJobs
  BY <1>1, SmsAssumption DEF Formed, JobIds
<1>4. IsFiniteSet({}) /\ Cardinality({}) = 0 /\ PageMax \in Nat \ {0}
  BY FS_EmptySet, SmsAssumption
<1>5. {} \in chunkArray({}, PageMax) /\ {} \ {} = {} /\ OnePerNumber({})
  BY <1>4 DEF chunkArray, OnePerNumber
<1>6. Shaped(q) /\ q # Idle
  <2>1. Shaped(Begun(jobs + 1, "call", PageMax, {}, {} \ {})) /\ Begun(jobs + 1, "call", PageMax, {}, {} \ {}) # Idle
    BY <1>1, <1>3, <1>4, <1>5, BegunShape
  <2> QED
    BY <1>5, <2>1
<1>7. Whole(q) /\ q.id = jobs'
  BY <1>1, BegunWhole DEF Begun
<1> HIDE DEF q
<1>8. q.id <= jobs' /\ q.id > jobs /\ jobs <= jobs'
  BY <1>1, <1>3, <1>7
<1>9. provider' = provider /\ writer' \in Tabs \cup {Nobody}
  BY <1>1 DEF Formed
<1>10. Formed'
  BY <1>2, <1>3, <1>6, <1>7, <1>8, <1>9, TabMoves, Zenon
<1> QED
  BY <1>1, <1>2, <1>3, <1>6, <1>7, <1>10 DEF q

LEMMA AtBusy ==
  ASSUME NEW t \in Tabs, NEW l, l # "idle", At(t, l)
  PROVE  /\ Busy(t)
         /\ tab[t].pc = l
<1>1. tab[t].pc = l
  BY DEF At
<1>2. Idle.pc = "idle"
  BY DEF Idle
<1>3. tab[t] # Idle
  BY <1>1, <1>2
<1>4. Busy(t)
  BY <1>3 DEF Busy
<1> QED
  BY <1>1, <1>4

(* The parts of a request that is sent, inserted and committed.            *)
LEMMA AllSent ==
  ASSUME Formed, NEW t \in Tabs, SendToAll(t)
  PROVE  LET r == tab[t] IN
         /\ Busy(t) /\ Shaped(r) /\ SentBy(r) = "android" /\ r.pc = "send" /\ r.todo = r.batch
         /\ UNCHANGED <<provider, jobs, rows, writer, recipients, shown>>
         /\ \E o \in OutcomesOf("android") :
              LET q == [r EXCEPT !.pc = "insert", !.todo = {},
                                 !.fresh = {Row(r, token, o.ok) : token \in r.todo}] IN
              /\ IF o.accepted THEN Accept(r.id, r.todo) ELSE UNCHANGED accepted
              /\ tab' = [tab EXCEPT ![t] = q] /\ Shaped(q) /\ Whole(q) /\ q # Idle
              /\ o.accepted \in BOOLEAN /\ o.ok \in BOOLEAN /\ (o.ok = TRUE => o.accepted = TRUE)
         /\ Formed'
<1> DEFINE r == tab[t]
<1>1. /\ At(t, "send") /\ SentBy(r) = "android"
      /\ UNCHANGED <<provider, jobs, rows, writer, recipients, shown>>
  BY DEF SendToAll
<1>2. Busy(t) /\ r.pc = "send"
  BY <1>1, AtBusy
<1>3. Shaped(r) /\ r.todo = r.batch /\ provider' = provider /\ jobs' = jobs /\ writer' \in Tabs \cup {Nobody}
  BY <1>1, <1>2 DEF Formed, Whole
<1>4. PICK o \in OutcomesOf(SentBy(r)) :
        /\ IF o.accepted THEN Accept(r.id, r.todo) ELSE UNCHANGED accepted
        /\ tab' = [tab EXCEPT ![t] = [r EXCEPT !.pc = "insert", !.todo = {},
                                               !.fresh = {Row(r, token, o.ok) : token \in r.todo}]]
  BY <1>1 DEF SendToAll, Go
<1>5. /\ o \in OutcomesOf("android") /\ o.accepted \in BOOLEAN /\ o.ok \in BOOLEAN
      /\ o.ok = TRUE => o.accepted = TRUE
  BY <1>1, OutcomeTypes
<1> DEFINE new == {Row(r, token, o.ok) : token \in r.todo}
           q == [r EXCEPT !.pc = "insert", !.todo = {}, !.fresh = new]
<1>6. Shaped(q)
  BY <1>3, <1>5, SentAll
<1> HIDE DEF new
<1>7. /\ q.pc = "insert" /\ q.todo = {} /\ q.id = r.id /\ q # Idle
  BY <1>3 DEF Shaped, Batches, Idle
<1>8. Whole(q)
  BY <1>7 DEF Whole
<1>9. tab' = [tab EXCEPT ![t] = q]
  BY <1>4 DEF new
<1> HIDE DEF q
<1>10. Formed'
  BY <1>2, <1>3, <1>6, <1>7, <1>8, <1>9, RequestMoves
<1> QED
  BY <1>1, <1>2, <1>3, <1>4, <1>5, <1>6, <1>7, <1>8, <1>9, <1>10 DEF q, new

LEMMA OneSent ==
  ASSUME Formed, NEW t \in Tabs, SendToNext(t)
  PROVE  LET r == tab[t] IN
         /\ Busy(t) /\ Shaped(r) /\ r.pc = "send" /\ SentBy(r) # "android"
         /\ UNCHANGED <<provider, jobs, rows, writer, recipients, shown>>
         /\ \E token \in r.todo, o \in OutcomesOf(SentBy(r)), pc \in {"send", "insert"} :
              LET q == [r EXCEPT !.pc = pc, !.todo = r.todo \ {token},
                                 !.fresh = r.fresh \cup {Row(r, token, o.ok)}] IN
              /\ IF o.accepted THEN Accept(r.id, {token}) ELSE UNCHANGED accepted
              /\ tab' = [tab EXCEPT ![t] = q] /\ Shaped(q) /\ Whole(q) /\ q # Idle
              /\ o.accepted \in BOOLEAN /\ o.ok \in BOOLEAN
              /\ SentBy(r) = "afromessage" /\ o.ok = TRUE => o.accepted = TRUE
         /\ Formed'
<1> DEFINE r == tab[t]
<1>1. /\ At(t, "send") /\ SentBy(r) # "android"
      /\ UNCHANGED <<provider, jobs, rows, writer, recipients, shown>>
  BY DEF SendToNext
<1>2. Busy(t) /\ r.pc = "send"
  BY <1>1, AtBusy
<1>3. Shaped(r) /\ provider' = provider /\ jobs' = jobs /\ writer' \in Tabs \cup {Nobody}
  BY <1>1, <1>2 DEF Formed
<1>4. PICK token \in r.todo, o \in OutcomesOf(SentBy(r)) :
        /\ IF o.accepted THEN Accept(r.id, {token}) ELSE UNCHANGED accepted
        /\ Go(t, [r EXCEPT !.pc = IF r.kind = "bulk" \/ r.todo = {token} THEN "insert" ELSE "send",
                          !.todo = @ \ {token},
                          !.fresh = @ \cup {Row(r, token, o.ok)}])
  BY <1>1 DEF SendToNext
<1>5. /\ o.accepted \in BOOLEAN /\ o.ok \in BOOLEAN
      /\ SentBy(r) = "afromessage" /\ o.ok = TRUE => o.accepted = TRUE
  BY OutcomeTypes
<1> DEFINE pc == IF r.kind = "bulk" \/ r.todo = {token} THEN "insert" ELSE "send"
           row == Row(r, token, o.ok)
           q == [r EXCEPT !.pc = pc, !.todo = r.todo \ {token}, !.fresh = r.fresh \cup {row}]
<1>6. pc \in {"send", "insert"}
  OBVIOUS
<1>7. tab' = [tab EXCEPT ![t] = q]
  BY <1>4 DEF Go
<1> HIDE DEF pc
<1>8. r.kind # "call"
  BY <1>3 DEF Shaped
<1>9. Shaped(q)
  BY <1>3, <1>5, <1>6, <1>8, SentOne
<1> HIDE DEF row
<1>10. q.id = r.id /\ q.kind = r.kind /\ q.pc = pc /\ q # Idle
  BY <1>3, <1>6 DEF Shaped, Batches, Idle
<1> HIDE DEF q
<1>11. Whole(q)
  BY <1>1, <1>10 DEF Whole, SentBy
<1>12. Formed'
  BY <1>2, <1>3, <1>7, <1>9, <1>10, <1>11, RequestMoves
<1> QED
  BY <1>1, <1>2, <1>3, <1>4, <1>5, <1>6, <1>7, <1>9, <1>10, <1>11, <1>12 DEF q, row

LEMMA PcMoves ==
  ASSUME Formed, NEW t \in Tabs, Busy(t), NEW pc \in {"send", "commit"},
         tab' = [tab EXCEPT ![t] = [tab[t] EXCEPT !.pc = pc]],
         tab[t].pc = "insert",
         tab[t].todo = {} <=> pc = "commit",
         provider' = provider, jobs' = jobs, writer' \in Tabs \cup {Nobody}
  PROVE  /\ Shaped([tab[t] EXCEPT !.pc = pc]) /\ [tab[t] EXCEPT !.pc = pc] # Idle
         /\ Formed'
<1> DEFINE r == tab[t]
           q == [r EXCEPT !.pc = pc]
<1>1. Shaped(r) /\ Whole(r)
  BY DEF Formed
<1>2. /\ q \in Batches /\ q.pc = pc /\ q.id = r.id /\ q.kind = r.kind /\ q.batch = r.batch
      /\ q.todo = r.todo /\ q.rest = r.rest /\ q.fresh = r.fresh /\ q # Idle
  BY <1>1 DEF Shaped, Batches, Idle
<1>3. tab' = [tab EXCEPT ![t] = q]
  OBVIOUS
<1> HIDE DEF q, r
<1>4. Shaped(q)
  BY <1>1, <1>2 DEF Shaped, r
<1>5. Whole(q)
  BY <1>1, <1>2 DEF Whole, SentBy, r
<1>6. Formed'
  BY <1>2, <1>3, <1>4, <1>5, RequestMoves DEF r
<1> QED
  BY <1>2, <1>4, <1>6 DEF q, r

LEMMA Committed ==
  ASSUME Formed, NEW t \in Tabs, Commit(t)
  PROVE  LET r == tab[t]
             q == [r EXCEPT !.pc = "answer", !.fresh = Logged(r)]
         IN  /\ Busy(t) /\ Shaped(r) /\ r.pc = "commit" /\ rows' = rows \cup Logged(r)
             /\ UNCHANGED <<provider, jobs, recipients, shown, accepted>>
             /\ tab' = [tab EXCEPT ![t] = q] /\ Shaped(q) /\ q # Idle
             /\ Formed'
<1> DEFINE r == tab[t]
           q == [r EXCEPT !.pc = "answer", !.fresh = Logged(r)]
<1>1. /\ At(t, "commit") /\ rows' = rows \cup Logged(r) /\ writer' = Nobody
      /\ UNCHANGED <<provider, jobs, recipients, shown, accepted>>
      /\ tab' = [tab EXCEPT ![t] = q]
  BY DEF Commit, Go
<1>2. Busy(t) /\ r.pc = "commit"
  BY <1>1, AtBusy
<1>3. Shaped(r)
  BY <1>2 DEF Formed
<1>4. /\ Logged(r) \subseteq Rows /\ IsFiniteSet(Logged(r))
      /\ Cardinality(Logged(r)) = Cardinality(r.fresh)
      /\ \A row \in Logged(r) : row.job = r.id /\ row.to \in NumbersOf(r.batch \ r.todo)
      /\ \A a, b \in Logged(r) : a.to = b.to => a = b
  <2>1. \A old \in r.fresh : old.job = r.id /\ old.to \in NumbersOf(r.batch \ r.todo)
    BY <1>3 DEF Shaped
  <2>2. /\ Logged(r) \subseteq Rows /\ IsFiniteSet(Logged(r))
        /\ Cardinality(Logged(r)) = Cardinality(r.fresh)
        /\ \A row \in Logged(r) : \E old \in r.fresh : row.job = old.job /\ row.to = old.to /\ row.by = old.by
        /\ \A a, b \in Logged(r) : a.to = b.to => a = b
    BY <1>3, LoggedShape
  <2> HIDE DEF r
  <2> QED
    BY <2>1, <2>2
<1>5. r.kind = "call" => Logged(r) = {}
  BY <1>3 DEF Shaped, Logged
<1>6. /\ q \in Batches /\ q.pc = "answer" /\ q.id = r.id /\ q.kind = r.kind /\ q.batch = r.batch
      /\ q.todo = r.todo /\ q.rest = r.rest /\ q.fresh = Logged(r) /\ q # Idle
  BY <1>3, <1>4 DEF Shaped, Batches, Idle
<1> HIDE DEF q
<1>7. Shaped(q)
  BY <1>2, <1>3, <1>4, <1>5, <1>6 DEF Shaped
<1>8. Whole(q)
  BY <1>6 DEF Whole
<1>9. Formed'
  BY <1>1, <1>2, <1>6, <1>7, <1>8, RequestMoves
<1> QED
  BY <1>1, <1>2, <1>3, <1>6, <1>7, <1>9 DEF q

LEMMA Inserted ==
  ASSUME Formed, NEW t \in Tabs, Insert(t)
  PROVE  /\ Busy(t) /\ tab[t].pc = "insert"
         /\ UNCHANGED <<provider, jobs, rows, recipients, shown, accepted>>
         /\ \E pc \in {"send", "commit"} :
              LET q == [tab[t] EXCEPT !.pc = pc] IN
              tab' = [tab EXCEPT ![t] = q] /\ Shaped(q) /\ q # Idle
         /\ Formed'
<1>1. /\ At(t, "insert") /\ writer' = t /\ UNCHANGED <<provider, jobs, rows, recipients, shown, accepted>>
  BY DEF Insert
<1>2. Busy(t) /\ tab[t].pc = "insert"
  BY <1>1, AtBusy
<1>3. PICK pc \in {"send", "commit"} : /\ tab[t].todo = {} <=> pc = "commit"
                                       /\ tab' = [tab EXCEPT ![t] = [tab[t] EXCEPT !.pc = pc]]
  BY DEF Insert, Go
<1> QED
  BY <1>1, <1>2, <1>3, PcMoves

LEMMA CallInserted ==
  ASSUME Formed, NEW t \in Tabs, log_call(t)
  PROVE  LET q == [tab[t] EXCEPT !.pc = "commit"] IN
         /\ Busy(t) /\ tab[t].pc = "insert"
         /\ UNCHANGED <<provider, jobs, rows, recipients, shown, accepted>>
         /\ tab' = [tab EXCEPT ![t] = q] /\ Shaped(q) /\ q # Idle
         /\ Formed'
<1>1. /\ At(t, "insert") /\ tab[t].kind = "call" /\ writer' = t
      /\ tab' = [tab EXCEPT ![t] = [tab[t] EXCEPT !.pc = "commit"]]
      /\ UNCHANGED <<provider, jobs, rows, recipients, shown, accepted>>
  BY DEF log_call, Go
<1>2. Busy(t) /\ tab[t].pc = "insert"
  BY <1>1, AtBusy
<1>3. tab[t].todo = {}
  BY <1>1, <1>2 DEF Formed, Shaped
<1> QED
  BY <1>1, <1>2, <1>3, PcMoves

LEMMA FormedNext == Formed /\ [SmsNext]_smsVars => Formed'
<1> SUFFICES ASSUME Formed, [SmsNext]_smsVars PROVE Formed'
  OBVIOUS
<1>1. CASE UNCHANGED smsVars
  BY <1>1 DEF smsVars, Formed, Busy, Whole, SentBy
<1>2. ASSUME NEW t \in Tabs, NEW sent, NEW failed, Busy(t), Count(t, sent, failed),
             provider' = provider, jobs' = jobs, writer' \in Tabs \cup {Nobody}
      PROVE  Formed'
  BY <1>2, CountMoves
<1>3. ASSUME NEW t \in Tabs, NEW text \in Texts, SendSms(t, text) PROVE Formed'
  <2> DEFINE to == ParseRecipients(text)
  <2>1. to \in SUBSET Tokens /\ IsFiniteSet(to) /\ OnePerNumber(to)
    BY ParsedOnce
  <2>2. BeginJob(t, "single", to, PageMax) /\ PageMax \in Nat \ {0}
    BY <1>3, SmsAssumption DEF SendSms
  <2> HIDE DEF to
  <2> QED
    BY <2>1, <2>2, JobBegins
<1>4. ASSUME NEW t \in Tabs, NEW text \in Texts, SendBulkSms(t, text) PROVE Formed'
  <2> DEFINE to == ParseRecipients(text)
  <2>1. to \in SUBSET Tokens /\ IsFiniteSet(to) /\ OnePerNumber(to)
    BY ParsedOnce
  <2>2. PICK max \in Nat \ {0} : BeginJob(t, "bulk", to, max)
    BY <1>4, SmsAssumption DEF SendBulkSms
  <2> HIDE DEF to
  <2> QED
    BY <2>1, <2>2, JobBegins
<1>5. ASSUME NEW t \in Tabs, logCall(t) PROVE Formed'
  BY <1>5, CallBegins
<1>6. ASSUME NEW t \in Tabs, SendToAll(t) PROVE Formed'
  BY <1>6, AllSent
<1>7. ASSUME NEW t \in Tabs, SendToNext(t) PROVE Formed'
  BY <1>7, OneSent
<1>8. ASSUME NEW t \in Tabs, Insert(t) PROVE Formed'
  BY <1>8, Inserted
<1>9. ASSUME NEW t \in Tabs, log_call(t) PROVE Formed'
  BY <1>9, CallInserted
<1>10. ASSUME NEW t \in Tabs, Commit(t) PROVE Formed'
  BY <1>10, Committed
<1>11. ASSUME NEW t \in Tabs, AnswerSms(t) PROVE Formed'
  <2>1. /\ At(t, "answer") /\ (\E a, b : Count(t, a, b))
        /\ provider' = provider /\ jobs' = jobs /\ writer' = writer
    BY <1>11 DEF AnswerSms
  <2> QED
    BY <1>2, <2>1, AtBusy DEF Formed
<1>12. ASSUME NEW t \in Tabs, AnswerBulk(t) PROVE Formed'
  <2>1. /\ At(t, "answer") /\ (\E a, b : Count(t, a, b))
        /\ provider' = provider /\ jobs' = jobs /\ writer' = writer
    BY <1>12 DEF AnswerBulk
  <2> QED
    BY <1>2, <2>1, AtBusy DEF Formed
<1>13. ASSUME NEW t \in Tabs, AnswerCall(t) PROVE Formed'
  <2>1. /\ At(t, "answer") /\ tab' = [tab EXCEPT ![t] = Idle]
        /\ provider' = provider /\ jobs' = jobs /\ writer' = writer
    BY <1>13 DEF AnswerCall, Go
  <2>2. jobs' \in 0 .. MaxJobs /\ jobs <= jobs' /\ writer' \in Tabs \cup {Nobody}
    BY <2>1, SmsAssumption DEF Formed
  <2> QED
    BY <2>1, <2>2, TabMoves, Zenon
<1>14. ASSUME NEW t \in Tabs, Refuse(t) PROVE Formed'
  <2>1. /\ At(t, "send") /\ (\E a, b : Count(t, a, b))
        /\ provider' = provider /\ jobs' = jobs /\ writer' = writer
    BY <1>14 DEF Refuse
  <2> QED
    BY <1>2, <2>1, AtBusy DEF Formed
<1>15. ASSUME NEW t \in Tabs, Fail(t) PROVE Formed'
  <2>1. /\ Busy(t) /\ (\E a, b : Count(t, a, b))
        /\ provider' = provider /\ jobs' = jobs /\ writer' \in {Nobody, writer}
    BY <1>15 DEF Fail, Busy
  <2> QED
    BY <1>2, <2>1 DEF Formed
<1> QED
  BY <1>1, <1>3, <1>4, <1>5, <1>6, <1>7, <1>8, <1>9, <1>10, <1>11, <1>12, <1>13, <1>14, <1>15
  DEF SmsNext

LEMMA AlwaysFormed == SmsSpec => []Formed
BY FormedInit, FormedNext, PTL DEF SmsSpec

(* Once.                                                                   *)
LEMMA AtMostOne ==
  ASSUME NEW S, OnePerNumber(S), NEW n
  PROVE  Cardinality({token \in S : Normalize(token) = n}) = IF n \in NumbersOf(S) THEN 1 ELSE 0
<1> DEFINE T == {token \in S : Normalize(token) = n}
<1>1. CASE n \in NumbersOf(S)
  <2>1. PICK token \in S : Normalize(token) = n
    BY <1>1 DEF NumbersOf
  <2>2. T = {token}
    BY <2>1 DEF OnePerNumber
  <2>3. Cardinality({token}) = 1
    BY FS_Singleton
  <2> QED
    BY <1>1, <2>2, <2>3
<1>2. CASE n \notin NumbersOf(S)
  <2>1. T = {}
    BY <1>2 DEF NumbersOf
  <2>2. Cardinality({}) = 0
    BY FS_EmptySet
  <2> QED
    BY <1>2, <2>1, <2>2
<1> QED
  BY <1>1, <1>2

(* What is accepted for some numbers of a job it was not sent to before.   *)
LEMMA AcceptOnce ==
  ASSUME Once, NEW id \in JobIds, NEW S \in SUBSET Tokens, OnePerNumber(S), Unsent(id, S),
         Accept(id, S)
  PROVE  /\ accepted' \in [JobIds \X Keys -> Nat]
         /\ \A x \in JobIds \X Keys :
              /\ accepted'[x] <= 1 /\ accepted[x] <= accepted'[x]
              /\ x[1] = id /\ x[2] \in NumbersOf(S) => accepted'[x] = 1
              /\ ~(x[1] = id /\ x[2] \in NumbersOf(S)) => accepted'[x] = accepted[x]
<1> DEFINE more(x) == Cardinality({token \in S : Normalize(token) = x[2]})
<1>1. accepted' = [x \in JobIds \X Keys |-> IF x[1] = id THEN accepted[x] + more(x) ELSE accepted[x]]
  BY DEF Accept
<1>2. \A x \in JobIds \X Keys : more(x) = IF x[2] \in NumbersOf(S) THEN 1 ELSE 0
  BY AtMostOne
<1> HIDE DEF more
<1>3. \A x \in JobIds \X Keys : accepted[x] \in Nat /\ accepted[x] <= 1
  BY DEF Once, OncePerJob
<1>4. \A x \in JobIds \X Keys :
        /\ x[1] = id /\ x[2] \in NumbersOf(S) => accepted'[x] = 1
        /\ ~(x[1] = id /\ x[2] \in NumbersOf(S)) => accepted'[x] = accepted[x]
  <2> TAKE x \in JobIds \X Keys
  <2>1. accepted'[x] = IF x[1] = id THEN accepted[x] + more(x) ELSE accepted[x]
    BY <1>1
  <2>2. x[1] = id /\ x[2] \in NumbersOf(S) => accepted[x] = 0
    BY DEF Unsent
  <2> QED
    BY <1>2, <1>3, <2>1, <2>2
<1>5. accepted' = [x \in JobIds \X Keys |-> accepted'[x]]
  BY <1>1
<1>6. \A x \in JobIds \X Keys : accepted'[x] \in Nat /\ accepted'[x] <= 1 /\ accepted[x] <= accepted'[x]
  BY <1>3, <1>4
<1> QED
  BY <1>4, <1>5, <1>6

LEMMA OnceMoves ==
  ASSUME Formed, Once, NEW t \in Tabs, NEW q, tab' = [tab EXCEPT ![t] = q],
         jobs' \in Nat, jobs <= jobs', accepted' \in [JobIds \X Keys -> Nat],
         \A x \in JobIds \X Keys :
           /\ accepted'[x] <= 1
           /\ accepted'[x] # accepted[x] => Busy(t) /\ x[1] = tab[t].id,
         q # Idle => \A x \in JobIds \X Keys :
                       x[1] = q.id /\ x[2] \in NumbersOf(q.todo \cup q.rest) => accepted'[x] = 0
  PROVE  Once'
<1>1. tab'[t] = q /\ \A u \in Tabs : u # t => tab'[u] = tab[u]
  BY DEF Formed
<1>2. ASSUME NEW u \in Tabs, tab'[u] # Idle, NEW x \in JobIds \X Keys,
             x[1] = tab'[u].id, x[2] \in NumbersOf(tab'[u].todo \cup tab'[u].rest)
      PROVE  accepted'[x] = 0
  <2>1. CASE u = t
    BY <1>1, <1>2, <2>1
  <2>2. CASE u # t
    <3>1. Busy(u) /\ tab'[u] = tab[u]
      BY <1>1, <1>2, <2>2 DEF Busy
    <3>2. accepted[x] = 0
      BY <1>2, <3>1 DEF Once, Unsent
    <3>3. ~(Busy(t) /\ x[1] = tab[t].id)
      BY <1>2, <2>2, <3>1 DEF Formed
    <3> QED
      BY <3>2, <3>3
  <2> QED
    BY <2>1, <2>2
<1>3. ASSUME NEW x \in JobIds \X Keys, x[1] > jobs' PROVE accepted'[x] = 0
  <2>1. x[1] \in Nat /\ jobs \in Nat
    BY SmsAssumption DEF Formed, JobIds
  <2>2. x[1] > jobs
    BY <1>3, <2>1
  <2>3. accepted[x] = 0
    BY <2>2 DEF Once
  <2>4. Busy(t) => tab[t].id <= jobs /\ tab[t].id \in JobIds
    BY DEF Formed, Shaped, Batches
  <2>5. ~(Busy(t) /\ x[1] = tab[t].id)
    BY <2>1, <2>2, <2>4, SmsAssumption DEF JobIds
  <2> QED
    BY <2>3, <2>5
<1>4. OncePerJob'
  BY DEF OncePerJob
<1> QED
  BY <1>2, <1>3, <1>4 DEF Once, Busy, Unsent

(* Nothing is sent.                                                        *)
LEMMA OnceStays ==
  ASSUME Formed, Once, NEW t \in Tabs, NEW q, tab' = [tab EXCEPT ![t] = q],
         jobs' \in Nat, jobs <= jobs', accepted' = accepted,
         q # Idle => Unsent(q.id, q.todo \cup q.rest)
  PROVE  Once'
<1>1. accepted \in [JobIds \X Keys -> Nat] /\ \A x \in JobIds \X Keys : accepted[x] <= 1
  BY DEF Once, OncePerJob
<1>2. q # Idle => \A x \in JobIds \X Keys :
                    x[1] = q.id /\ x[2] \in NumbersOf(q.todo \cup q.rest) => accepted'[x] = 0
  BY DEF Unsent
<1> QED
  BY <1>1, <1>2, OnceMoves, Zenon

LEMMA OnceInit == SmsInit => Once
BY SmsAssumption DEF SmsInit, Once, OncePerJob, Busy, JobIds

(* What is left to be sent of a batch that was begun.                      *)
LEMMA BegunLeft ==
  ASSUME NEW all, NEW B, B \subseteq all, NEW id, NEW kind, NEW max
  PROVE  LET q == Begun(id, kind, max, B, all \ B) IN
         q.id = id /\ q.kind = kind /\ q.todo \cup q.rest = all /\ q.batch = B /\ q.rest = all \ B
         /\ q.fresh = {} /\ q.pc # "answer"
BY DEF Begun

LEMMA OnceCounts ==
  ASSUME Formed, Once, NEW t \in Tabs, Busy(t), NEW sent, NEW failed, Count(t, sent, failed),
         provider' = provider, jobs' = jobs, accepted' = accepted, writer' \in Tabs \cup {Nobody}
  PROVE  Once'
<1> DEFINE r == tab[t]
<1>1. Shaped(r) /\ jobs' \in Nat /\ jobs <= jobs' /\ Unsent(r.id, r.todo \cup r.rest)
  <2>1. jobs \in Nat
    BY SmsAssumption DEF Formed
  <2>2. Shaped(r) /\ Unsent(r.id, r.todo \cup r.rest)
    BY DEF Formed, Once
  <2> QED
    BY <2>1, <2>2
<1>2. Unsent(r.id, r.rest)
  BY <1>1 DEF Unsent, NumbersOf
<1>3. CASE r.rest = {} /\ tab' = [tab EXCEPT ![t] = Idle]
  BY <1>1, <1>3, OnceStays, Zenon
<1>4. ASSUME NEW B \in chunkArray(r.rest, r.max),
             tab' = [tab EXCEPT ![t] = Begun(r.id, r.kind, r.max, B, r.rest \ B)]
      PROVE  Once'
  <2> DEFINE q == Begun(r.id, r.kind, r.max, B, r.rest \ B)
  <2>1. B \subseteq r.rest
    BY DEF chunkArray
  <2>2. q.id = r.id /\ q.todo \cup q.rest = r.rest
    BY <2>1 DEF Begun
  <2>3. tab' = [tab EXCEPT ![t] = q]
    BY <1>4
  <2> HIDE DEF q
  <2>4. Unsent(q.id, q.todo \cup q.rest)
    BY <1>2, <2>2
  <2> QED
    BY <1>1, <2>3, <2>4, OnceStays, Zenon
<1> QED
  BY <1>3, <1>4, CountMoves

(* Numbers of a batch are not among those of what is left.                 *)
LEMMA Apart ==
  ASSUME NEW S, NEW T, OnePerNumber(S \cup T), S \cap T = {}
  PROVE  NumbersOf(S) \cap NumbersOf(T) = {}
BY DEF OnePerNumber, NumbersOf

Sends(t, S, said, q) ==
  /\ IF said THEN Accept(tab[t].id, S) ELSE UNCHANGED accepted
  /\ tab' = [tab EXCEPT ![t] = q] /\ jobs' = jobs
  /\ q.id = tab[t].id /\ q.todo = tab[t].todo \ S /\ q.rest = tab[t].rest

LEMMA OnceSends ==
  ASSUME Formed, Once, NEW t \in Tabs, Busy(t), NEW S \in SUBSET tab[t].todo, NEW said \in BOOLEAN,
         NEW q, Sends(t, S, said, q)
  PROVE  /\ Once'
         /\ \A x \in JobIds \X Keys :
              /\ accepted'[x] \in Nat /\ accepted[x] \in Nat /\ accepted[x] <= accepted'[x]
              /\ said /\ x[1] = q.id /\ x[2] \in NumbersOf(S) => accepted'[x] = 1
<1> USE DEF Sends
<1> DEFINE r == tab[t]
<1>1. Shaped(r) /\ jobs' \in Nat /\ jobs <= jobs' /\ Unsent(r.id, r.todo \cup r.rest)
  <2>1. jobs \in Nat
    BY SmsAssumption DEF Formed
  <2>2. Shaped(r) /\ Unsent(r.id, r.todo \cup r.rest)
    BY DEF Formed, Once
  <2> QED
    BY <2>1, <2>2
<1>2. /\ r.id \in JobIds /\ S \in SUBSET Tokens /\ OnePerNumber(S)
      /\ OnePerNumber(S \cup (q.todo \cup q.rest)) /\ S \cap (q.todo \cup q.rest) = {}
  <2>1. r.id \in JobIds /\ r.batch \subseteq Tokens /\ r.todo \subseteq r.batch /\ r.batch \cap r.rest = {}
        /\ OnePerNumber(r.batch \cup r.rest)
    BY <1>1 DEF Shaped, Batches
  <2>2. S \cup (q.todo \cup q.rest) \subseteq r.batch \cup r.rest
    BY <2>1
  <2> QED
    BY <2>1, <2>2 DEF OnePerNumber
<1>3. Unsent(r.id, S) /\ Unsent(r.id, q.todo \cup q.rest)
  BY <1>1 DEF Unsent, NumbersOf
<1>4. CASE said = FALSE
  <2>1. accepted' = accepted
    BY <1>4
  <2>2. Once'
    BY <1>1, <1>3, <2>1, OnceStays, Zenon
  <2> QED
    BY <1>4, <2>1, <2>2 DEF Once
<1>5. CASE said = TRUE
  <2>1. Accept(r.id, S)
    BY <1>5
  <2>2. /\ accepted' \in [JobIds \X Keys -> Nat]
        /\ \A x \in JobIds \X Keys :
             /\ accepted'[x] <= 1 /\ accepted[x] <= accepted'[x]
             /\ x[1] = r.id /\ x[2] \in NumbersOf(S) => accepted'[x] = 1
             /\ ~(x[1] = r.id /\ x[2] \in NumbersOf(S)) => accepted'[x] = accepted[x]
    BY <1>2, <1>3, <2>1, AcceptOnce
  <2>3. \A x \in JobIds \X Keys :
          x[1] = q.id /\ x[2] \in NumbersOf(q.todo \cup q.rest) => accepted'[x] = 0
    BY <1>2, <1>3, <2>2, Apart DEF Unsent
  <2>4. \A x \in JobIds \X Keys : /\ accepted'[x] <= 1
                                     /\ accepted'[x] # accepted[x] => Busy(t) /\ x[1] = tab[t].id
    BY <2>2
  <2>5. Once'
    BY <1>1, <2>2, <2>3, <2>4, OnceMoves, Zenon
  <2>6. \A x \in JobIds \X Keys : accepted'[x] \in Nat /\ accepted[x] \in Nat
    BY <2>2 DEF Once
  <2> QED
    BY <2>2, <2>5, <2>6
<1> QED
  BY <1>4, <1>5

LEMMA AllSentOnce ==
  ASSUME Formed, Once, NEW t \in Tabs, SendToAll(t)
  PROVE  Once'
<1> DEFINE r == tab[t]
<1>1. Busy(t) /\ Shaped(r) /\ jobs' = jobs
  BY AllSent
<1>2. PICK o \in OutcomesOf("android") :
        LET q == [r EXCEPT !.pc = "insert", !.todo = {}, !.fresh = {Row(r, token, o.ok) : token \in r.todo}] IN
        /\ IF o.accepted THEN Accept(r.id, r.todo) ELSE UNCHANGED accepted
        /\ tab' = [tab EXCEPT ![t] = q]
        /\ o.accepted \in BOOLEAN
  BY AllSent
<1> DEFINE new == {Row(r, token, o.ok) : token \in r.todo}
           q == [r EXCEPT !.pc = "insert", !.todo = {}, !.fresh = new]
<1>3. tab' = [tab EXCEPT ![t] = q]
  BY <1>2
<1> HIDE DEF new
<1>4. q.id = r.id /\ q.todo = {} /\ q.rest = r.rest
  BY <1>1 DEF Shaped, Batches
<1> HIDE DEF q
<1>5. r.todo \in SUBSET r.todo /\ q.todo = r.todo \ r.todo
  BY <1>4
<1>6. Sends(t, r.todo, o.accepted, q)
  BY <1>1, <1>2, <1>3, <1>4, <1>5 DEF Sends
<1> QED
  BY <1>1, <1>2, <1>5, <1>6, OnceSends

LEMMA OneSentOnce ==
  ASSUME Formed, Once, NEW t \in Tabs, SendToNext(t)
  PROVE  Once'
<1> DEFINE r == tab[t]
<1>1. Busy(t) /\ Shaped(r) /\ jobs' = jobs
  BY OneSent
<1>2. PICK token \in r.todo, o \in OutcomesOf(SentBy(r)), pc \in {"send", "insert"} :
        LET q == [r EXCEPT !.pc = pc, !.todo = r.todo \ {token},
                           !.fresh = r.fresh \cup {Row(r, token, o.ok)}] IN
        /\ IF o.accepted THEN Accept(r.id, {token}) ELSE UNCHANGED accepted
        /\ tab' = [tab EXCEPT ![t] = q]
        /\ o.accepted \in BOOLEAN
  BY OneSent
<1> DEFINE new == r.fresh \cup {Row(r, token, o.ok)}
           q == [r EXCEPT !.pc = pc, !.todo = r.todo \ {token}, !.fresh = new]
<1>3. tab' = [tab EXCEPT ![t] = q]
  BY <1>2
<1> HIDE DEF new
<1>4. q.id = r.id /\ q.todo = r.todo \ {token} /\ q.rest = r.rest
  BY <1>1 DEF Shaped, Batches
<1> HIDE DEF q
<1>5. {token} \in SUBSET r.todo
  OBVIOUS
<1>6. Sends(t, {token}, o.accepted, q)
  BY <1>1, <1>2, <1>3, <1>4 DEF Sends
<1> QED
  BY <1>1, <1>2, <1>5, <1>6, OnceSends

LEMMA OnceBegins ==
  ASSUME Formed, Once, NEW t \in Tabs, NEW q, tab' = [tab EXCEPT ![t] = q],
         q # Idle => q.id = jobs', jobs' = jobs + 1, accepted' = accepted
  PROVE  Once'
<1>1. jobs \in Nat /\ jobs' \in Nat /\ jobs <= jobs' /\ jobs' > jobs
  BY SmsAssumption DEF Formed
<1>2. q # Idle => Unsent(q.id, q.todo \cup q.rest)
  BY <1>1 DEF Once, Unsent
<1> QED
  BY <1>1, <1>2, OnceStays, Zenon

LEMMA JobOnce ==
  ASSUME Formed, Once, NEW t \in Tabs, NEW kind, NEW to, NEW max, BeginJob(t, kind, to, max)
  PROVE  Once'
<1>1. PICK B : tab' = [tab EXCEPT ![t] = Begun(jobs + 1, kind, max, B, to \ B)]
  BY DEF BeginJob, newBatchId, Request, Go, Begun
<1>2. jobs' = jobs + 1 /\ accepted' = accepted
  BY DEF BeginJob, newBatchId
<1>3. Begun(jobs + 1, kind, max, B, to \ B).id = jobs + 1
  BY DEF Begun
<1> QED
  BY <1>1, <1>2, <1>3, OnceBegins

LEMMA OnceNext == Formed /\ Once /\ [SmsNext]_smsVars => Once'
<1> SUFFICES ASSUME Formed, Once, [SmsNext]_smsVars PROVE Once'
  OBVIOUS
<1>1. CASE UNCHANGED smsVars
  BY <1>1 DEF smsVars, Once, OncePerJob, Busy, Unsent
<1>2. ASSUME NEW t \in Tabs, NEW sent, NEW failed, Busy(t), Count(t, sent, failed),
             provider' = provider, jobs' = jobs, accepted' = accepted, writer' \in Tabs \cup {Nobody}
      PROVE  Once'
  BY <1>2, OnceCounts
<1>3. ASSUME NEW t \in Tabs, NEW text \in Texts, SendSms(t, text) PROVE Once'
  BY <1>3, JobOnce DEF SendSms
<1>4. ASSUME NEW t \in Tabs, NEW text \in Texts, SendBulkSms(t, text) PROVE Once'
  BY <1>4, JobOnce DEF SendBulkSms
<1>5. ASSUME NEW t \in Tabs, logCall(t) PROVE Once'
  <2>1. jobs' = jobs + 1 /\ tab' = [tab EXCEPT ![t] = Begun(jobs + 1, "call", PageMax, {}, {})]
    BY <1>5, CallBegins
  <2>2. Begun(jobs + 1, "call", PageMax, {}, {}).id = jobs + 1 /\ accepted' = accepted
    BY <1>5 DEF Begun, logCall
  <2> QED
    BY <2>1, <2>2, OnceBegins
<1>6. ASSUME NEW t \in Tabs, Busy(t), NEW q, tab' = [tab EXCEPT ![t] = q], q.id = tab[t].id,
             q.todo = tab[t].todo, q.rest = tab[t].rest, jobs' = jobs, accepted' = accepted
      PROVE  Once'
  <2>1. jobs' \in Nat /\ jobs <= jobs'
    BY <1>6, SmsAssumption DEF Formed
  <2>2. Unsent(q.id, q.todo \cup q.rest)
    BY <1>6 DEF Once
  <2> QED
    BY <1>6, <2>1, <2>2, OnceStays, Zenon
<1>7. ASSUME NEW t \in Tabs, SendToAll(t) PROVE Once'
  BY <1>7, AllSentOnce
<1>8. ASSUME NEW t \in Tabs, SendToNext(t) PROVE Once'
  BY <1>8, OneSentOnce
<1>9. ASSUME NEW t \in Tabs, NEW pc, Busy(t), tab' = [tab EXCEPT ![t] = [tab[t] EXCEPT !.pc = pc]],
             jobs' = jobs, accepted' = accepted
      PROVE  Once'
  <2> DEFINE q == [tab[t] EXCEPT !.pc = pc]
  <2>1. q.id = tab[t].id /\ q.todo = tab[t].todo /\ q.rest = tab[t].rest
    BY <1>9 DEF Formed, Shaped, Batches
  <2> QED
    BY <1>6, <1>9, <2>1
<1>10. ASSUME NEW t \in Tabs, Insert(t) PROVE Once'
  <2>1. PICK pc \in {"send", "commit"} : tab' = [tab EXCEPT ![t] = [tab[t] EXCEPT !.pc = pc]]
    BY <1>10, Inserted
  <2>2. Busy(t) /\ jobs' = jobs /\ accepted' = accepted
    BY <1>10, Inserted
  <2> QED
    BY <1>9, <2>1, <2>2
<1>11. ASSUME NEW t \in Tabs, log_call(t) PROVE Once'
  <2>1. /\ tab' = [tab EXCEPT ![t] = [tab[t] EXCEPT !.pc = "commit"]]
        /\ Busy(t) /\ jobs' = jobs /\ accepted' = accepted
    BY <1>11, CallInserted
  <2> QED
    BY <1>9, <2>1
<1>12. ASSUME NEW t \in Tabs, Commit(t) PROVE Once'
  <2> DEFINE r == tab[t]
             new == Logged(r)
             q == [r EXCEPT !.pc = "answer", !.fresh = new]
  <2>1. Busy(t) /\ Shaped(r) /\ jobs' = jobs /\ accepted' = accepted /\ tab' = [tab EXCEPT ![t] = q]
    BY <1>12, Committed
  <2> HIDE DEF new
  <2>2. q.id = r.id /\ q.todo = r.todo /\ q.rest = r.rest
    BY <2>1 DEF Shaped, Batches
  <2> HIDE DEF q
  <2> QED
    BY <1>6, <2>1, <2>2
<1>13. ASSUME NEW t \in Tabs, AnswerSms(t) \/ AnswerBulk(t) \/ Refuse(t) PROVE Once'
  <2>1. /\ At(t, "answer") \/ At(t, "send")
        /\ \E a, b : Count(t, a, b)
        /\ provider' = provider /\ jobs' = jobs /\ accepted' = accepted /\ writer' = writer
    BY <1>13 DEF AnswerSms, AnswerBulk, Refuse
  <2> QED
    BY <1>2, <2>1, AtBusy DEF Formed
<1>14. ASSUME NEW t \in Tabs, AnswerCall(t) PROVE Once'
  <2>1. tab' = [tab EXCEPT ![t] = Idle] /\ jobs' = jobs /\ accepted' = accepted
    BY <1>14 DEF AnswerCall, Go
  <2>2. jobs' \in Nat /\ jobs <= jobs'
    BY <2>1, SmsAssumption DEF Formed
  <2> QED
    BY <2>1, <2>2, OnceStays, Zenon
<1>15. ASSUME NEW t \in Tabs, Fail(t) PROVE Once'
  <2>1. /\ Busy(t) /\ (\E a, b : Count(t, a, b)) /\ provider' = provider /\ jobs' = jobs
        /\ accepted' = accepted /\ writer' \in {Nobody, writer}
    BY <1>15 DEF Fail, Busy
  <2> QED
    BY <1>2, <2>1 DEF Formed
<1> QED
  BY <1>1, <1>3, <1>4, <1>5, <1>7, <1>8, <1>10, <1>11, <1>12, <1>13, <1>14, <1>15 DEF SmsNext

LEMMA AlwaysOnce == SmsSpec => []Once
<1>1. SmsInit => Formed /\ Once
  BY FormedInit, OnceInit
<1>2. Formed /\ Once /\ [SmsNext]_smsVars => Formed' /\ Once'
  BY FormedNext, OnceNext
<1> QED
  BY <1>1, <1>2, PTL DEF SmsSpec

(* The message of a job is accepted once for each number the page tells    *)
(* apart, in whichever batch it is and whatever failed.                    *)
THEOREM OncePerJobAlways == SmsSpec => []OncePerJob
<1>1. Once => OncePerJob
  BY DEF Once
<1> QED
  BY <1>1, AlwaysOnce, PTL

(* The books.                                                              *)
LEMMA LogFinite ==
  ASSUME NEW S, IsFiniteSet(S), NEW j
  PROVE  IsFiniteSet(LogIn(S, j)) /\ Cardinality(LogIn(S, j)) \in Nat
<1>1. LogIn(S, j) \in SUBSET S
  BY DEF LogIn
<1> QED
  BY <1>1, FS_Subset, FS_CardinalityType

LEMMA SentFinite ==
  ASSUME NEW S, IsFiniteSet(S)
  PROVE  /\ IsFiniteSet(SentOf(S)) /\ Cardinality(SentOf(S)) \in Nat
         /\ Cardinality(S) \in Nat /\ Cardinality(SentOf(S)) <= Cardinality(S)
<1>1. SentOf(S) \in SUBSET S
  BY DEF SentOf
<1> QED
  BY <1>1, FS_Subset, FS_CardinalityType

LEMMA DisjointUnion ==
  ASSUME NEW S, NEW T, IsFiniteSet(S), IsFiniteSet(T), S \cap T = {}
  PROVE  /\ IsFiniteSet(S \cup T)
         /\ Cardinality(S \cup T) = Cardinality(S) + Cardinality(T)
<1>1. Cardinality(S) \in Nat /\ Cardinality(T) \in Nat /\ Cardinality({}) = 0
  BY FS_CardinalityType, FS_EmptySet
<1>2. IsFiniteSet(S \cup T) /\ Cardinality(S \cup T) = Cardinality(S) + Cardinality(T) - Cardinality(S \cap T)
  BY FS_Union
<1>3. Cardinality(S \cap T) = 0
  BY <1>1
<1> QED
  BY <1>1, <1>2, <1>3

LEMMA ShapedSizes ==
  ASSUME NEW r, Shaped(r)
  PROVE  /\ Cardinality(r.batch) \in Nat /\ Cardinality(r.rest) \in Nat
         /\ Cardinality(r.fresh) \in Nat /\ Cardinality(SentOf(r.fresh)) \in Nat
         /\ Cardinality(SentOf(r.fresh)) <= Cardinality(r.fresh)
         /\ Cardinality(r.fresh) <= Cardinality(r.batch)
         /\ r.todo = {} => Cardinality(r.fresh) = Cardinality(r.batch)
<1>1. IsFiniteSet(r.batch) /\ IsFiniteSet(r.rest) /\ IsFiniteSet(r.fresh) /\ r.todo \subseteq r.batch
      /\ Cardinality(r.fresh) + Cardinality(r.todo) = Cardinality(r.batch)
  BY DEF Shaped
<1>2. IsFiniteSet(r.todo) /\ Cardinality({}) = 0
  BY <1>1, FS_Subset, FS_EmptySet
<1>3. Cardinality(r.batch) \in Nat /\ Cardinality(r.rest) \in Nat /\ Cardinality(r.todo) \in Nat
  BY <1>1, <1>2, FS_CardinalityType
<1>4. /\ Cardinality(r.fresh) \in Nat /\ Cardinality(SentOf(r.fresh)) \in Nat
      /\ Cardinality(SentOf(r.fresh)) <= Cardinality(r.fresh)
  BY <1>1, SentFinite
<1> QED
  BY <1>1, <1>2, <1>3, <1>4

(* A batch that begins, when so much is shown and logged already.          *)
LEMMA OwedBegins ==
  ASSUME NEW all, IsFiniteSet(all), NEW max, NEW B \in chunkArray(all, max), NEW id, NEW kind,
         NEW s \in [sent : Nat, failed : Nat], NEW log, IsFiniteSet(log), NEW n \in Nat,
         s.sent + s.failed + Cardinality(all) = n,
         \A row \in log : row.to \notin NumbersOf(all),
         s.sent <= Cardinality(SentOf(log)),
         Cardinality(log) + Cardinality(all) <= n
  PROVE  Owed(Begun(id, kind, max, B, all \ B), s, log, n)
<1>1. /\ B \subseteq all
      /\ Cardinality(B) \in Nat /\ Cardinality(all \ B) \in Nat /\ Cardinality(all) \in Nat
      /\ Cardinality(B) + Cardinality(all \ B) = Cardinality(all)
  BY ChunkParts, FS_CardinalityType
<1>2. s.sent \in Nat /\ s.failed \in Nat /\ Cardinality(log) \in Nat
  BY FS_CardinalityType
<1> DEFINE q == Begun(id, kind, max, B, all \ B)
<1>3. q.batch = B /\ q.rest = all \ B /\ q.pc # "answer" /\ q.batch \cup q.rest = all
  BY <1>1 DEF Begun
<1> HIDE DEF q
<1>4. s.sent + s.failed + Cardinality(q.batch) + Cardinality(q.rest) = n
  BY <1>1, <1>2, <1>3
<1>5. Cardinality(log) + Cardinality(q.batch) + Cardinality(q.rest) <= n
  BY <1>1, <1>2, <1>3
<1>6. Owed(q, s, log, n)
  BY <1>3, <1>4, <1>5 DEF Owed
<1> QED
  BY <1>6 DEF q

(* A request that moves on before it is committed.                         *)
LEMMA OwedStays ==
  ASSUME NEW r, NEW q, NEW s, NEW log, NEW n, Owed(r, s, log, n),
         r.pc # "answer", q.pc # "answer", q.batch = r.batch, q.rest = r.rest
  PROVE  Owed(q, s, log, n)
BY DEF Owed

(* A request that is committed.                                            *)
LEMMA OwedCommits ==
  ASSUME NEW r, Shaped(r), r.pc = "commit", NEW q,
         q.pc = "answer", q.batch = r.batch, q.rest = r.rest, q.fresh = Logged(r),
         NEW s \in [sent : Nat, failed : Nat], NEW log, IsFiniteSet(log), NEW n \in Nat,
         Owed(r, s, log, n)
  PROVE  Owed(q, s, log \cup Logged(r), n)
<1> DEFINE new == Logged(r)
<1>1. /\ IsFiniteSet(new) /\ Cardinality(new) = Cardinality(r.fresh)
      /\ \A row \in new : row.to \in NumbersOf(r.batch)
  <2>1. /\ IsFiniteSet(new) /\ Cardinality(new) = Cardinality(r.fresh)
        /\ \A row \in new : \E old \in r.fresh : row.to = old.to
    BY LoggedShape
  <2>2. \A old \in r.fresh : old.to \in NumbersOf(r.batch)
    BY DEF Shaped, NumbersOf
  <2> HIDE DEF new
  <2> QED
    BY <2>1, <2>2
<1>2. /\ Cardinality(r.batch) \in Nat /\ Cardinality(r.rest) \in Nat
      /\ Cardinality(new) = Cardinality(r.batch)
  BY <1>1, ShapedSizes DEF Shaped
<1>3. /\ s.sent + s.failed + Cardinality(r.batch) + Cardinality(r.rest) = n
      /\ \A row \in log : row.to \notin NumbersOf(r.batch \cup r.rest)
      /\ s.sent <= Cardinality(SentOf(log))
      /\ Cardinality(log) + Cardinality(r.batch) + Cardinality(r.rest) <= n
  BY DEF Owed
<1> HIDE DEF new
<1>4. \A row \in log : row.to \notin NumbersOf(r.batch) /\ row.to \notin NumbersOf(r.rest)
  BY <1>3 DEF NumbersOf
<1>5. log \cap new = {} /\ SentOf(log) \cap SentOf(new) = {} /\ SentOf(log \cup new) = SentOf(log) \cup SentOf(new)
  BY <1>1, <1>4 DEF SentOf
<1>6. /\ IsFiniteSet(SentOf(log)) /\ IsFiniteSet(SentOf(new)) /\ s.sent \in Nat
      /\ Cardinality(SentOf(log)) \in Nat /\ Cardinality(SentOf(new)) \in Nat /\ Cardinality(log) \in Nat
  BY <1>1, SentFinite
<1>7. Cardinality(log \cup new) = Cardinality(log) + Cardinality(new)
  BY <1>1, <1>5, DisjointUnion
<1>8. Cardinality(SentOf(log \cup new)) = Cardinality(SentOf(log)) + Cardinality(SentOf(new))
  BY <1>5, <1>6, DisjointUnion
<1>9. NumbersOf(r.batch) \cap NumbersOf(r.rest) = {}
  BY Apart DEF Shaped
<1>10. \A row \in log \cup new : row.to \notin NumbersOf(q.rest)
  BY <1>1, <1>4, <1>9
<1>11. s.sent + Cardinality(SentOf(q.fresh)) <= Cardinality(SentOf(log \cup new))
  BY <1>3, <1>6, <1>8 DEF new
<1>12. Cardinality(log \cup new) + Cardinality(q.rest) <= n
  BY <1>2, <1>3, <1>6, <1>7
<1>13. s.sent + s.failed + Cardinality(q.batch) + Cardinality(q.rest) = n
  BY <1>3
<1>14. Owed(q, s, log \cup new, n)
  BY <1>10, <1>11, <1>12, <1>13 DEF Owed
<1> QED
  BY <1>14 DEF new

(* A request that is counted.                                              *)
LEMMA OwedCounts ==
  ASSUME NEW r, Shaped(r), NEW a \in Nat, NEW b \in Nat, a + b = Cardinality(r.batch),
         a = 0 \/ (r.pc = "answer" /\ a <= Cardinality(SentOf(r.fresh))),
         NEW s \in [sent : Nat, failed : Nat], NEW log, IsFiniteSet(log), NEW n \in Nat,
         Owed(r, s, log, n), NEW s2, s2 = [sent |-> s.sent + a, failed |-> s.failed + b]
  PROVE  /\ s2 \in [sent : Nat, failed : Nat]
         /\ r.rest = {} => Settled(s2, log, n)
         /\ \A B \in chunkArray(r.rest, r.max) :
              Owed(Begun(r.id, r.kind, r.max, B, r.rest \ B), s2, log, n)
<1>1. /\ Cardinality(r.batch) \in Nat /\ Cardinality(r.rest) \in Nat /\ s.sent \in Nat /\ s.failed \in Nat
      /\ Cardinality(SentOf(r.fresh)) \in Nat /\ IsFiniteSet(r.rest)
  BY ShapedSizes DEF Shaped
<1>2. Cardinality(log) \in Nat /\ Cardinality(SentOf(log)) \in Nat /\ Cardinality({}) = 0
  BY SentFinite, FS_EmptySet
<1>3. s2.sent = s.sent + a /\ s2.failed = s.failed + b /\ s2 \in [sent : Nat, failed : Nat]
  BY <1>1
<1>4. s.sent + s.failed + Cardinality(r.batch) + Cardinality(r.rest) = n
  BY DEF Owed
<1>5. s2.sent + s2.failed + Cardinality(r.rest) = n
  BY <1>1, <1>3, <1>4
<1>6. /\ \A row \in log : row.to \notin NumbersOf(r.rest)
      /\ s2.sent <= Cardinality(SentOf(log))
      /\ Cardinality(log) + Cardinality(r.rest) <= n
  <2>1. CASE r.pc = "answer"
    <3>1. /\ \A row \in log : row.to \notin NumbersOf(r.rest)
          /\ s.sent + Cardinality(SentOf(r.fresh)) <= Cardinality(SentOf(log))
          /\ Cardinality(log) + Cardinality(r.rest) <= n
      BY <2>1 DEF Owed
    <3>2. a <= Cardinality(SentOf(r.fresh))
      BY <1>1
    <3> QED
      BY <1>1, <1>2, <1>3, <3>1, <3>2
  <2>2. CASE r.pc # "answer"
    <3>1. /\ \A row \in log : row.to \notin NumbersOf(r.batch \cup r.rest)
          /\ s.sent <= Cardinality(SentOf(log))
          /\ Cardinality(log) + Cardinality(r.batch) + Cardinality(r.rest) <= n
      BY <2>2 DEF Owed
    <3>2. \A row \in log : row.to \notin NumbersOf(r.rest)
      BY <3>1 DEF NumbersOf
    <3>3. a = 0
      BY <2>2
    <3> QED
      BY <1>1, <1>2, <1>3, <3>1, <3>2, <3>3
  <2> QED
    BY <2>1, <2>2
<1>7. r.rest = {} => Settled(s2, log, n)
  BY <1>2, <1>3, <1>5, <1>6 DEF Settled
<1>8. ASSUME NEW B \in chunkArray(r.rest, r.max)
      PROVE  Owed(Begun(r.id, r.kind, r.max, B, r.rest \ B), s2, log, n)
  BY <1>1, <1>3, <1>5, <1>6, OwedBegins
<1> QED
  BY <1>3, <1>7, <1>8

LEMMA TruthStays ==
  ASSUME NEW S \in SUBSET Rows, NEW acc, NEW acc2, Truthful(S, acc),
         \A x \in JobIds \X Keys : acc[x] \in Nat /\ acc2[x] \in Nat /\ acc[x] <= acc2[x]
  PROVE  Truthful(S, acc2)
<1> SUFFICES ASSUME NEW row \in S, row.ok = TRUE, row.by \in {"afromessage", "android"}
             PROVE  acc2[<<row.job, row.to>>] > 0
  BY DEF Truthful
<1>1. <<row.job, row.to>> \in JobIds \X Keys
  BY DEF Rows
<1>2. acc[<<row.job, row.to>>] > 0
  BY DEF Truthful
<1> HIDE DEF JobIds
<1> QED
  BY <1>1, <1>2

(* One job moves on, the books of the others are as they were.             *)
Moves(t, q, k) ==
  /\ tab' = [tab EXCEPT ![t] = q]
  /\ k \in JobIds /\ k <= jobs' /\ (Busy(t) \/ q # Idle)
  /\ Busy(t) => tab[t].id = k
  /\ q # Idle => q.id = k
  /\ jobs' = jobs \/ (jobs' = jobs + 1 /\ jobs' = k)
  /\ rows' \subseteq Rows /\ IsFiniteSet(rows')
  /\ recipients' \in [JobIds -> Nat] /\ shown' \in [JobIds -> [sent : Nat, failed : Nat]]
  /\ \A j \in JobIds : j # k => /\ LogIn(rows', j) = LogIn(rows, j)
                                /\ shown'[j] = shown[j] /\ recipients'[j] = recipients[j]
  /\ \A x \in JobIds \X Keys :
       accepted[x] \in Nat /\ accepted'[x] \in Nat /\ accepted[x] <= accepted'[x]
  /\ Truthful(rows', accepted')
  /\ q # Idle => /\ Owed(q, shown'[k], LogIn(rows', k), recipients'[k])
                 /\ Truthful(q.fresh, accepted')
  /\ q = Idle => Settled(shown'[k], LogIn(rows', k), recipients'[k])

LEMMA BooksMove ==
  ASSUME Formed, Formed', Books, NEW t \in Tabs, NEW q, NEW k, Moves(t, q, k)
  PROVE  Books'
<1> USE DEF Moves
<1>1. tab'[t] = q /\ \A u \in Tabs : u # t => tab'[u] = tab[u]
  BY DEF Formed
<1>2. jobs \in Nat /\ jobs' \in Nat /\ JobIds \subseteq Nat
  BY SmsAssumption DEF Formed, JobIds
<1>3. ASSUME NEW u \in Tabs, u # t, Busy(u) PROVE tab[u].id # k /\ tab[u].id \in JobIds
  <2>1. tab[u].id \in JobIds
    BY <1>3 DEF Formed, Shaped, Batches
  <2>2. CASE Busy(t)
    BY <1>3, <2>1, <2>2 DEF Formed
  <2>3. CASE q # Idle
    <3>1. tab'[u] # Idle /\ tab'[t] # Idle /\ tab'[u] = tab[u]
      BY <1>1, <1>3, <2>3 DEF Busy
    <3> QED
      BY <1>1, <1>3, <2>1, <2>3, <3>1 DEF Formed, Busy
  <2> QED
    BY <2>2, <2>3
<1>4. ASSUME NEW u \in Tabs, tab'[u] # Idle
      PROVE  /\ Owed(tab'[u], shown'[tab'[u].id], LogIn(rows', tab'[u].id), recipients'[tab'[u].id])
             /\ Truthful(tab'[u].fresh, accepted')
  <2>1. CASE u = t
    BY <1>1, <1>4, <2>1
  <2>2. CASE u # t
    <3>1. tab'[u] = tab[u] /\ Busy(u)
      BY <1>1, <1>4, <2>2 DEF Busy
    <3>2. tab[u].id # k /\ tab[u].id \in JobIds
      BY <1>3, <2>2, <3>1
    <3>3. /\ Owed(tab[u], shown[tab[u].id], LogIn(rows, tab[u].id), recipients[tab[u].id])
          /\ Truthful(tab[u].fresh, accepted)
      BY <3>1 DEF Books
    <3>4. tab[u].fresh \in SUBSET Rows
      BY <3>1 DEF Formed, Shaped, Batches
    <3>5. Truthful(tab[u].fresh, accepted')
      BY <3>3, <3>4, TruthStays
    <3> QED
      BY <3>1, <3>2, <3>3, <3>5
  <2> QED
    BY <2>1, <2>2
<1>5. ASSUME NEW j \in 1 .. jobs', \A u \in Tabs : tab'[u] # Idle => tab'[u].id # j
      PROVE  Settled(shown'[j], LogIn(rows', j), recipients'[j])
  <2>1. CASE j = k
    BY <1>1, <1>5, <2>1
  <2>2. CASE j # k
    <3>1. j \in 1 .. jobs
      BY <1>2, <2>2
    <3>2. j \in JobIds
      BY <3>1, SmsAssumption DEF Formed, JobIds
    <3>3. ~Open(j)
      BY <1>1, <1>5, <2>2 DEF Open, Busy
    <3>4. Settled(shown[j], LogIn(rows, j), recipients[j])
      BY <3>1, <3>3 DEF Books
    <3> QED
      BY <2>2, <3>2, <3>4
  <2> QED
    BY <2>1, <2>2
<1>6. ASSUME NEW j \in JobIds, j > jobs'
      PROVE  recipients'[j] = 0 /\ shown'[j] = [sent |-> 0, failed |-> 0] /\ LogIn(rows', j) = {}
  <2>1. j # k /\ j > jobs
    BY <1>2, <1>6
  <2>2. recipients[j] = 0 /\ shown[j] = [sent |-> 0, failed |-> 0] /\ LogIn(rows, j) = {}
    BY <2>1 DEF Books
  <2> QED
    BY <2>1, <2>2
<1> QED
  BY <1>4, <1>5, <1>6 DEF Books, Busy, Open

LEMMA BooksInit == SmsInit => Books
<1> SUFFICES ASSUME SmsInit PROVE Books
  OBVIOUS
<1>1. IsFiniteSet({}) /\ \A j : LogIn({}, j) = {}
  BY FS_EmptySet DEF LogIn
<1>2. /\ rows = {} /\ jobs = 0 /\ \A t \in Tabs : ~Busy(t)
      /\ recipients = [j \in JobIds |-> 0] /\ shown = [j \in JobIds |-> [sent |-> 0, failed |-> 0]]
  BY DEF SmsInit, Busy
<1>3. 1 .. jobs = {}
  BY <1>2
<1> QED
  BY <1>1, <1>2, <1>3 DEF Books, Truthful

(* What a tab at work is to know of its job.                               *)
LEMMA JobOf ==
  ASSUME Formed, Books, Once, NEW t \in Tabs, Busy(t)
  PROVE  LET r == tab[t]
             s == shown[r.id]
             log == LogIn(rows, r.id)
             n == recipients[r.id]
         IN  /\ Shaped(r) /\ r.id \in JobIds /\ r.id <= jobs
             /\ s \in [sent : Nat, failed : Nat] /\ n \in Nat
             /\ IsFiniteSet(log) /\ Owed(r, s, log, n) /\ Truthful(r.fresh, accepted)
             /\ \A x \in JobIds \X Keys : accepted[x] \in Nat /\ accepted[x] <= accepted[x]
<1>1. Shaped(tab[t]) /\ tab[t].id \in JobIds /\ tab[t].id <= jobs
  BY DEF Formed, Shaped, Batches
<1>2. IsFiniteSet(LogIn(rows, tab[t].id))
  BY LogFinite DEF Books
<1>3. \A x \in JobIds \X Keys : accepted[x] \in Nat /\ accepted[x] <= accepted[x]
  BY DEF Once
<1> QED
  BY <1>1, <1>2, <1>3 DEF Books

(* A request on its way to the commit.                                     *)
LEMMA BooksWait ==
  ASSUME Formed, Formed', Books, Once, NEW t \in Tabs, Busy(t), NEW q, q # Idle,
         tab' = [tab EXCEPT ![t] = q], q.id = tab[t].id,
         q.batch = tab[t].batch, q.rest = tab[t].rest,
         tab[t].pc # "answer", q.pc # "answer",
         jobs' = jobs, rows' = rows, recipients' = recipients, shown' = shown,
         \A x \in JobIds \X Keys :
           accepted[x] \in Nat /\ accepted'[x] \in Nat /\ accepted[x] <= accepted'[x],
         Truthful(q.fresh, accepted')
  PROVE  Books'
<1> DEFINE k == tab[t].id
<1>1. k \in JobIds /\ k <= jobs' /\ Owed(tab[t], shown[k], LogIn(rows, k), recipients[k])
  BY JobOf
<1>2. Owed(q, shown'[k], LogIn(rows', k), recipients'[k])
  BY <1>1, OwedStays
<1>3. rows' \subseteq Rows /\ IsFiniteSet(rows') /\ recipients' \in [JobIds -> Nat]
      /\ shown' \in [JobIds -> [sent : Nat, failed : Nat]]
  BY DEF Books
<1>4. Truthful(rows', accepted')
  BY TruthStays DEF Books
<1>5. \A j \in JobIds : j # k => /\ LogIn(rows', j) = LogIn(rows, j)
                                 /\ shown'[j] = shown[j] /\ recipients'[j] = recipients[j]
  OBVIOUS
<1>6. q.id = k
  OBVIOUS
<1> HIDE DEF k
<1> QED
  BY <1>1, <1>2, <1>3, <1>4, <1>5, <1>6, BooksMove DEF Moves, k

(* A request that is counted, with what comes after it.                    *)
LEMMA BooksCount ==
  ASSUME Formed, Formed', Books, Once, NEW t \in Tabs, Busy(t),
         NEW a \in Nat, NEW b \in Nat, a + b = Cardinality(tab[t].batch),
         a = 0 \/ (tab[t].pc = "answer" /\ a <= Cardinality(SentOf(tab[t].fresh))),
         Count(t, a, b), provider' = provider, writer' \in Tabs \cup {Nobody},
         jobs' = jobs, rows' = rows, recipients' = recipients, accepted' = accepted
  PROVE  Books'
<1> DEFINE r == tab[t]
           k == r.id
           s == shown[k]
           log == LogIn(rows, k)
           n == recipients[k]
           s2 == [sent |-> s.sent + a, failed |-> s.failed + b]
<1>1. /\ Shaped(r) /\ k \in JobIds /\ k <= jobs' /\ s \in [sent : Nat, failed : Nat] /\ n \in Nat
      /\ IsFiniteSet(log) /\ Owed(r, s, log, n)
      /\ \A x \in JobIds \X Keys : accepted[x] \in Nat /\ accepted[x] <= accepted[x]
  BY JobOf
<1>2. shown' = [shown EXCEPT ![k] = s2]
  BY DEF Count
<1>3. /\ s2 \in [sent : Nat, failed : Nat]
      /\ r.rest = {} => Settled(s2, log, n)
      /\ \A B \in chunkArray(r.rest, r.max) :
           Owed(Begun(r.id, r.kind, r.max, B, r.rest \ B), s2, log, n)
  <2> HIDE DEF r, s, log, n
  <2>1. a + b = Cardinality(r.batch) /\ (a = 0 \/ (r.pc = "answer" /\ a <= Cardinality(SentOf(r.fresh))))
    BY DEF r
  <2> QED
    BY <1>1, <2>1, OwedCounts
<1> HIDE DEF s2
<1>4. /\ shown'[k] = s2 /\ shown' \in [JobIds -> [sent : Nat, failed : Nat]]
      /\ \A j \in JobIds : j # k => shown'[j] = shown[j]
  BY <1>1, <1>2, <1>3 DEF Books
<1>5. rows' \subseteq Rows /\ IsFiniteSet(rows') /\ recipients' \in [JobIds -> Nat]
      /\ Truthful(rows', accepted')
  BY DEF Books
<1>6. \A x \in JobIds \X Keys :
        accepted[x] \in Nat /\ accepted'[x] \in Nat /\ accepted[x] <= accepted'[x]
  BY <1>1
<1>7. \A j \in JobIds : j # k => /\ LogIn(rows', j) = LogIn(rows, j)
                                 /\ shown'[j] = shown[j] /\ recipients'[j] = recipients[j]
  BY <1>4
<1>8. \/ r.rest = {} /\ tab' = [tab EXCEPT ![t] = Idle]
      \/ \E B \in chunkArray(r.rest, r.max) :
           LET q == Begun(r.id, r.kind, r.max, B, r.rest \ B) IN
           tab' = [tab EXCEPT ![t] = q] /\ q # Idle
  BY CountMoves
<1>9. CASE r.rest = {} /\ tab' = [tab EXCEPT ![t] = Idle]
  <2>1. Settled(shown'[k], LogIn(rows', k), recipients'[k])
    BY <1>3, <1>4, <1>9
  <2> QED
    BY <1>1, <1>4, <1>5, <1>6, <1>7, <1>9, <2>1, BooksMove DEF Moves
<1>10. ASSUME NEW B \in chunkArray(r.rest, r.max),
              tab' = [tab EXCEPT ![t] = Begun(r.id, r.kind, r.max, B, r.rest \ B)],
              Begun(r.id, r.kind, r.max, B, r.rest \ B) # Idle
       PROVE  Books'
  <2> DEFINE q == Begun(r.id, r.kind, r.max, B, r.rest \ B)
  <2>1. q.id = k /\ q.fresh = {}
    BY DEF Begun
  <2>2. Owed(q, shown'[k], LogIn(rows', k), recipients'[k])
    BY <1>3, <1>4
  <2>3. tab' = [tab EXCEPT ![t] = q] /\ q # Idle
    BY <1>10
  <2> HIDE DEF q
  <2>4. Truthful(q.fresh, accepted')
    BY <2>1 DEF Truthful
  <2> QED
    BY <1>1, <1>4, <1>5, <1>6, <1>7, <2>1, <2>2, <2>3, <2>4, BooksMove DEF Moves
<1> QED
  BY <1>8, <1>9, <1>10

(* A job that begins: nothing is shown of it, nothing logged.              *)
LEMMA BooksBegin ==
  ASSUME Formed, Formed', Books, Once, NEW t \in Tabs, tab[t] = Idle, jobs < MaxJobs,
         NEW to, IsFiniteSet(to), NEW kind, NEW max, NEW B \in chunkArray(to, max),
         NEW k, k = jobs + 1, NEW q, q = Begun(k, kind, max, B, to \ B), q # Idle,
         tab' = [tab EXCEPT ![t] = q], jobs' = k,
         rows' = rows, shown' = shown, accepted' = accepted,
         recipients' = [recipients EXCEPT ![k] = Cardinality(to)]
  PROVE  Books'
<1>1. k \in JobIds /\ k <= jobs' /\ k > jobs /\ jobs' = k
  BY SmsAssumption DEF Formed, JobIds
<1>2. recipients[k] = 0 /\ shown[k] = [sent |-> 0, failed |-> 0] /\ LogIn(rows, k) = {}
  BY <1>1 DEF Books
<1>3. Cardinality(to) \in Nat /\ IsFiniteSet({}) /\ Cardinality({}) = 0
  BY FS_CardinalityType, FS_EmptySet
<1>4. SentOf({}) = {}
  BY DEF SentOf
<1> DEFINE s == [sent |-> 0, failed |-> 0]
<1>5. s \in [sent : Nat, failed : Nat] /\ s.sent = 0 /\ s.failed = 0
  OBVIOUS
<1> HIDE DEF s
<1>6. s.sent + s.failed + Cardinality(to) = Cardinality(to) /\ s.sent <= Cardinality(SentOf({}))
      /\ Cardinality({}) + Cardinality(to) <= Cardinality(to)
  <2>1. Cardinality(SentOf({})) = 0
    BY <1>3, <1>4
  <2> QED
    BY <1>3, <1>5, <2>1
<1>7. Owed(q, s, {}, Cardinality(to))
  BY <1>3, <1>5, <1>6, OwedBegins
<1>8. /\ recipients'[k] = Cardinality(to) /\ recipients' \in [JobIds -> Nat]
      /\ \A j \in JobIds : j # k => recipients'[j] = recipients[j]
  BY <1>1, <1>3 DEF Books
<1>9. Owed(q, shown'[k], LogIn(rows', k), recipients'[k])
  BY <1>2, <1>7, <1>8 DEF s
<1>10. q.id = k /\ q.fresh = {}
  BY DEF Begun
<1>11. q # Idle /\ ~Busy(t)
  BY DEF Busy
<1>12. Truthful(q.fresh, accepted')
  BY <1>10 DEF Truthful
<1>13. /\ rows' \subseteq Rows /\ IsFiniteSet(rows') /\ shown' \in [JobIds -> [sent : Nat, failed : Nat]]
       /\ Truthful(rows', accepted')
  BY DEF Books
<1>14. \A x \in JobIds \X Keys :
         accepted[x] \in Nat /\ accepted'[x] \in Nat /\ accepted[x] <= accepted'[x]
  BY DEF Once
<1>15. \A j \in JobIds : j # k => /\ LogIn(rows', j) = LogIn(rows, j)
                                  /\ shown'[j] = shown[j] /\ recipients'[j] = recipients[j]
  BY <1>8
<1> QED
  <2>1. jobs' = jobs \/ (jobs' = jobs + 1 /\ jobs' = k)
    BY <1>1
  <2>2. (Busy(t) \/ q # Idle) /\ (Busy(t) => tab[t].id = k) /\ (q # Idle => q.id = k)
    BY <1>10, <1>11
  <2>3. /\ q # Idle => /\ Owed(q, shown'[k], LogIn(rows', k), recipients'[k])
                       /\ Truthful(q.fresh, accepted')
        /\ q = Idle => Settled(shown'[k], LogIn(rows', k), recipients'[k])
    BY <1>9, <1>11, <1>12
  <2>4. k \in JobIds /\ k <= jobs'
    BY <1>1
  <2>5. Moves(t, q, k)
    BY <1>8, <1>13, <1>14, <1>15, <2>1, <2>2, <2>3, <2>4 DEF Moves
  <2> QED
    BY <2>5, BooksMove

(* The rows of a request are committed.                                    *)
LEMMA BooksCommit ==
  ASSUME Formed, Formed', Books, Once, NEW t \in Tabs, Commit(t)
  PROVE  Books'
<1> DEFINE r == tab[t]
           k == r.id
           new == Logged(r)
           q == [r EXCEPT !.pc = "answer", !.fresh = new]
           s == shown[k]
           log == LogIn(rows, k)
           n == recipients[k]
<1>1. /\ Busy(t) /\ Shaped(r) /\ r.pc = "commit" /\ rows' = rows \cup new /\ q # Idle
      /\ jobs' = jobs /\ recipients' = recipients /\ shown' = shown /\ accepted' = accepted
      /\ tab' = [tab EXCEPT ![t] = q]
  BY Committed
<1>2. /\ k \in JobIds /\ k <= jobs' /\ s \in [sent : Nat, failed : Nat] /\ n \in Nat
      /\ IsFiniteSet(log) /\ Owed(r, s, log, n) /\ Truthful(r.fresh, accepted)
      /\ \A x \in JobIds \X Keys : accepted[x] \in Nat /\ accepted[x] <= accepted[x]
  BY <1>1, JobOf
<1>3. /\ new \subseteq Rows /\ IsFiniteSet(new)
      /\ \A row \in new : \E old \in r.fresh : row.job = old.job
      /\ \A row \in new : row.ok => \E old \in r.fresh : old = row
  BY <1>1, LoggedShape
<1>4. \A row \in new : row.job = k
  <2>1. \A old \in r.fresh : old.job = k
    BY <1>1 DEF Shaped
  <2> QED
    BY <1>3, <2>1
<1> HIDE DEF new
<1>5. q.pc = "answer" /\ q.id = k /\ q.batch = r.batch /\ q.rest = r.rest /\ q.fresh = new
  BY <1>1 DEF Shaped, Batches
<1> HIDE DEF q
<1>6. LogIn(rows', k) = log \cup new /\ \A j \in JobIds : j # k => LogIn(rows', j) = LogIn(rows, j)
  BY <1>1, <1>4 DEF LogIn
<1>7. Owed(q, s, log \cup new, n)
  <2> HIDE DEF r, s, log, n
  <2>1. q.fresh = Logged(r)
    BY <1>5 DEF new
  <2>2. Owed(q, s, log \cup Logged(r), n)
    BY <1>1, <1>2, <1>5, <2>1, OwedCommits
  <2> QED
    BY <2>2 DEF new
<1>8. Truthful(new, accepted)
  <2> SUFFICES ASSUME NEW row \in new, row.ok = TRUE, row.by \in {"afromessage", "android"}
               PROVE  accepted[<<row.job, row.to>>] > 0
    BY DEF Truthful
  <2>1. row \in r.fresh
    BY <1>3
  <2> QED
    BY <1>2, <2>1 DEF Truthful
<1>9. rows' \subseteq Rows /\ IsFiniteSet(rows') /\ Truthful(rows', accepted')
  <2>1. IsFiniteSet(rows \cup new)
    BY <1>3, FS_Union DEF Books
  <2>2. Truthful(rows \cup new, accepted)
    BY <1>8 DEF Books, Truthful
  <2> QED
    BY <1>1, <1>3, <2>1, <2>2 DEF Books
<1>10. recipients' \in [JobIds -> Nat] /\ shown' \in [JobIds -> [sent : Nat, failed : Nat]]
  BY <1>1 DEF Books
<1>11. Owed(q, shown'[k], LogIn(rows', k), recipients'[k]) /\ Truthful(q.fresh, accepted')
  BY <1>1, <1>5, <1>6, <1>7, <1>8
<1>12. \A x \in JobIds \X Keys :
         accepted[x] \in Nat /\ accepted'[x] \in Nat /\ accepted[x] <= accepted'[x]
  BY <1>1, <1>2
<1>13. \A j \in JobIds : j # k => /\ LogIn(rows', j) = LogIn(rows, j)
                                  /\ shown'[j] = shown[j] /\ recipients'[j] = recipients[j]
  BY <1>1, <1>6
<1>14. tab' = [tab EXCEPT ![t] = q] /\ q # Idle /\ Busy(t) /\ tab[t].id = k /\ jobs' = jobs
  BY <1>1
<1> HIDE DEF k
<1> QED
  BY <1>2, <1>5, <1>9, <1>10, <1>11, <1>12, <1>13, <1>14, BooksMove DEF Moves

(* The log of a call is answered: there was nobody to send to.             *)
LEMMA BooksCall ==
  ASSUME Formed, Formed', Books, Once, NEW t \in Tabs, AnswerCall(t)
  PROVE  Books'
<1> DEFINE r == tab[t]
           k == r.id
<1>1. /\ At(t, "answer") /\ r.kind = "call" /\ tab' = [tab EXCEPT ![t] = Idle]
      /\ UNCHANGED <<provider, jobs, rows, writer, recipients, shown, accepted>>
  BY DEF AnswerCall, Go
<1>2. Busy(t) /\ r.pc = "answer"
  BY <1>1, AtBusy
<1>3. /\ Shaped(r) /\ k \in JobIds /\ k <= jobs' /\ shown[k] \in [sent : Nat, failed : Nat] /\ recipients[k] \in Nat
      /\ IsFiniteSet(LogIn(rows, k)) /\ Owed(r, shown[k], LogIn(rows, k), recipients[k])
      /\ \A x \in JobIds \X Keys : accepted[x] \in Nat /\ accepted[x] <= accepted[x]
  BY <1>1, <1>2, JobOf
<1>4. r.batch = {} /\ r.rest = {} /\ r.fresh = {} /\ Cardinality({}) = 0 /\ SentOf({}) = {}
  BY <1>1, <1>3, FS_EmptySet DEF Shaped, SentOf
<1>5. Cardinality(LogIn(rows, k)) \in Nat /\ Cardinality(SentOf(LogIn(rows, k))) \in Nat
  BY <1>3, SentFinite
<1>6. Settled(shown[k], LogIn(rows, k), recipients[k])
  <2>1. /\ shown[k].sent + shown[k].failed + Cardinality(r.batch) + Cardinality(r.rest) = recipients[k]
        /\ shown[k].sent + Cardinality(SentOf(r.fresh)) <= Cardinality(SentOf(LogIn(rows, k)))
        /\ Cardinality(LogIn(rows, k)) + Cardinality(r.rest) <= recipients[k]
    BY <1>2, <1>3 DEF Owed
  <2>2. Cardinality(r.batch) = 0 /\ Cardinality(r.rest) = 0 /\ Cardinality(SentOf(r.fresh)) = 0
    BY <1>4
  <2>3. shown[k].sent \in Nat /\ shown[k].failed \in Nat
    BY <1>3
  <2> QED
    BY <1>3, <1>5, <2>1, <2>2, <2>3 DEF Settled
<1>7. Settled(shown'[k], LogIn(rows', k), recipients'[k])
  BY <1>1, <1>6
<1>8. /\ rows' \subseteq Rows /\ IsFiniteSet(rows') /\ recipients' \in [JobIds -> Nat]
      /\ shown' \in [JobIds -> [sent : Nat, failed : Nat]] /\ Truthful(rows', accepted')
  BY <1>1 DEF Books
<1>9. \A j \in JobIds : j # k => /\ LogIn(rows', j) = LogIn(rows, j)
                                 /\ shown'[j] = shown[j] /\ recipients'[j] = recipients[j]
  BY <1>1
<1>10. \A x \in JobIds \X Keys :
         accepted[x] \in Nat /\ accepted'[x] \in Nat /\ accepted[x] <= accepted'[x]
  BY <1>1, <1>3
<1>11. jobs' = jobs /\ tab[t].id = k
  BY <1>1
<1> HIDE DEF k
<1> QED
  BY <1>1, <1>2, <1>3, <1>7, <1>8, <1>9, <1>10, <1>11, BooksMove DEF Moves

(* A row that says "sent" of an honest gateway was sent.                   *)
LEMMA BooksSendAll ==
  ASSUME Formed, Formed', Books, Once, NEW t \in Tabs, SendToAll(t)
  PROVE  Books'
<1> DEFINE r == tab[t]
<1>1. Busy(t) /\ Shaped(r) /\ r.pc = "send" /\ UNCHANGED <<provider, jobs, rows, writer, recipients, shown>>
  BY AllSent
<1>2. PICK o \in OutcomesOf("android") :
        LET q == [r EXCEPT !.pc = "insert", !.todo = {}, !.fresh = {Row(r, token, o.ok) : token \in r.todo}] IN
        /\ IF o.accepted THEN Accept(r.id, r.todo) ELSE UNCHANGED accepted
        /\ tab' = [tab EXCEPT ![t] = q] /\ q # Idle
        /\ o.accepted \in BOOLEAN /\ o.ok \in BOOLEAN /\ (o.ok = TRUE => o.accepted = TRUE)
  BY AllSent
<1> DEFINE new == {Row(r, token, o.ok) : token \in r.todo}
           q == [r EXCEPT !.pc = "insert", !.todo = {}, !.fresh = new]
<1>3. tab' = [tab EXCEPT ![t] = q] /\ q # Idle
  BY <1>2
<1>4. \A row \in new : /\ row.job = r.id /\ row.ok = o.ok
                       /\ row.to \in NumbersOf(r.todo) /\ row \in Rows
  <2> SUFFICES ASSUME NEW token \in r.todo
               PROVE  LET row == Row(r, token, o.ok) IN
                      row.job = r.id /\ row.ok = o.ok /\ row.to \in NumbersOf(r.todo) /\ row \in Rows
    OBVIOUS
  <2>1. /\ Row(r, token, o.ok) \in Rows
        /\ Row(r, token, o.ok).job = r.id /\ Row(r, token, o.ok).to = Normalize(token)
        /\ Row(r, token, o.ok).ok = o.ok
    BY <1>1, <1>2, RowOfToken
  <2> QED
    BY <2>1 DEF NumbersOf
<1> HIDE DEF new
<1>5. /\ q.id = r.id /\ q.todo = {} /\ q.rest = r.rest /\ q.batch = r.batch
      /\ q.pc = "insert" /\ q.fresh = new
  BY <1>1 DEF Shaped, Batches
<1> HIDE DEF q
<1>6. r.todo \in SUBSET r.todo /\ q.todo = r.todo \ r.todo
  BY <1>5
<1>7. \A x \in JobIds \X Keys :
        /\ accepted'[x] \in Nat /\ accepted[x] \in Nat /\ accepted[x] <= accepted'[x]
        /\ o.accepted /\ x[1] = q.id /\ x[2] \in NumbersOf(r.todo) => accepted'[x] = 1
  <2>1. Sends(t, r.todo, o.accepted, q)
    BY <1>1, <1>2, <1>3, <1>5, <1>6 DEF Sends
  <2>2. o.accepted \in BOOLEAN /\ Busy(t) /\ r.todo \in SUBSET tab[t].todo
    BY <1>1, <1>2, <1>6
  <2> QED
    BY <2>1, <2>2, OnceSends
<1>8. Truthful(q.fresh, accepted')
  <2> SUFFICES ASSUME NEW row \in new, row.ok = TRUE PROVE accepted'[<<row.job, row.to>>] > 0
    BY <1>5 DEF Truthful
  <2>1. o.accepted = TRUE
    BY <1>2, <1>4
  <2>2. <<row.job, row.to>> \in JobIds \X Keys
    BY <1>4 DEF Rows
  <2>3. accepted'[<<row.job, row.to>>] = 1
    BY <1>4, <1>5, <1>7, <2>1, <2>2
  <2> QED
    BY <2>3
<1>9. r.pc # "answer" /\ q.pc # "answer"
  BY <1>1, <1>5
<1> QED
  BY <1>1, <1>3, <1>5, <1>7, <1>8, <1>9, BooksWait

LEMMA BooksSendNext ==
  ASSUME Formed, Formed', Books, Once, NEW t \in Tabs, SendToNext(t)
  PROVE  Books'
<1> DEFINE r == tab[t]
<1>1. Busy(t) /\ Shaped(r) /\ r.pc = "send" /\ SentBy(r) # "android"
      /\ UNCHANGED <<provider, jobs, rows, writer, recipients, shown>>
  BY OneSent
<1>2. PICK token \in r.todo, o \in OutcomesOf(SentBy(r)), pc \in {"send", "insert"} :
        LET q == [r EXCEPT !.pc = pc, !.todo = r.todo \ {token},
                           !.fresh = r.fresh \cup {Row(r, token, o.ok)}] IN
        /\ IF o.accepted THEN Accept(r.id, {token}) ELSE UNCHANGED accepted
        /\ tab' = [tab EXCEPT ![t] = q] /\ Shaped(q) /\ Whole(q) /\ q # Idle
        /\ o.accepted \in BOOLEAN /\ o.ok \in BOOLEAN
        /\ SentBy(r) = "afromessage" /\ o.ok = TRUE => o.accepted = TRUE
  BY OneSent
<1> DEFINE last == Row(r, token, o.ok)
           new == r.fresh \cup {last}
           q == [r EXCEPT !.pc = pc, !.todo = r.todo \ {token}, !.fresh = new]
<1>3. tab' = [tab EXCEPT ![t] = q] /\ q # Idle
  BY <1>2
<1>4. /\ last.job = r.id /\ last.ok = o.ok /\ last.to = Normalize(token) /\ last.by = SentBy(r)
      /\ last \in Rows
  BY <1>1, <1>2, RowOfToken
<1> HIDE DEF last, new
<1>5. /\ q.id = r.id /\ q.todo = r.todo \ {token} /\ q.rest = r.rest /\ q.batch = r.batch
      /\ q.pc = pc /\ q.fresh = new
  BY <1>1 DEF Shaped, Batches
<1> HIDE DEF q
<1>6. {token} \in SUBSET r.todo /\ NumbersOf({token}) = {Normalize(token)}
  BY DEF NumbersOf
<1>7. \A x \in JobIds \X Keys :
        /\ accepted'[x] \in Nat /\ accepted[x] \in Nat /\ accepted[x] <= accepted'[x]
        /\ o.accepted /\ x[1] = q.id /\ x[2] \in NumbersOf({token}) => accepted'[x] = 1
  <2>1. Sends(t, {token}, o.accepted, q)
    BY <1>1, <1>2, <1>3, <1>5, <1>6 DEF Sends
  <2>2. o.accepted \in BOOLEAN /\ Busy(t) /\ {token} \in SUBSET tab[t].todo
    BY <1>1, <1>2, <1>6
  <2> QED
    BY <2>1, <2>2, OnceSends
<1>8. Truthful(q.fresh, accepted')
  <2>1. r.fresh \in SUBSET Rows /\ Truthful(r.fresh, accepted)
    BY <1>1, JobOf DEF Shaped, Batches
  <2>2. Truthful(r.fresh, accepted')
    BY <1>7, <2>1, TruthStays
  <2>3. ASSUME last.ok = TRUE, last.by \in {"afromessage", "android"}
        PROVE  accepted'[<<last.job, last.to>>] > 0
    <3>1. o.accepted = TRUE
      BY <1>1, <1>2, <1>4, <2>3
    <3>2. <<last.job, last.to>> \in JobIds \X Keys
      BY <1>4 DEF Rows
    <3>3. accepted'[<<last.job, last.to>>] = 1
      BY <1>4, <1>5, <1>6, <1>7, <3>1, <3>2
    <3> QED
      BY <3>3
  <2> QED
    BY <1>5, <2>2, <2>3 DEF Truthful, new
<1>9. r.pc # "answer" /\ q.pc # "answer"
  BY <1>1, <1>2, <1>5
<1> QED
  BY <1>1, <1>3, <1>5, <1>7, <1>8, <1>9, BooksWait

(* ... and so does one that waits for the log, or has written to it.       *)
LEMMA BooksPc ==
  ASSUME Formed, Formed', Books, Once, NEW t \in Tabs, Busy(t), tab[t].pc = "insert",
         NEW pc \in {"send", "commit"}, [tab[t] EXCEPT !.pc = pc] # Idle,
         tab' = [tab EXCEPT ![t] = [tab[t] EXCEPT !.pc = pc]],
         UNCHANGED <<jobs, rows, recipients, shown, accepted>>
  PROVE  Books'
<1> DEFINE r == tab[t]
           q == [r EXCEPT !.pc = pc]
<1>1. Shaped(r) /\ Truthful(r.fresh, accepted)
      /\ \A x \in JobIds \X Keys : accepted[x] \in Nat /\ accepted[x] <= accepted[x]
  BY JobOf
<1>2. q.id = r.id /\ q.batch = r.batch /\ q.rest = r.rest /\ q.pc = pc /\ q.fresh = r.fresh
  BY <1>1 DEF Shaped, Batches
<1>3. tab' = [tab EXCEPT ![t] = q] /\ q # Idle
  OBVIOUS
<1> HIDE DEF q
<1>4. Truthful(q.fresh, accepted') /\ r.pc # "answer" /\ q.pc # "answer"
  BY <1>1, <1>2
<1>5. \A x \in JobIds \X Keys :
        accepted[x] \in Nat /\ accepted'[x] \in Nat /\ accepted[x] <= accepted'[x]
  BY <1>1
<1> QED
  BY <1>2, <1>3, <1>4, <1>5, BooksWait

LEMMA JobBooks ==
  ASSUME Formed, Formed', Books, Once, NEW t \in Tabs, NEW text \in Texts,
         NEW kind \in {"single", "bulk"}, NEW max \in Nat \ {0},
         BeginJob(t, kind, ParseRecipients(text), max)
  PROVE  Books'
<1> DEFINE to == ParseRecipients(text)
<1>1. to \in SUBSET Tokens /\ IsFiniteSet(to) /\ OnePerNumber(to)
  BY ParsedOnce
<1> HIDE DEF to
<1>2. /\ BeginJob(t, kind, to, max)
      /\ tab[t] = Idle /\ jobs < MaxJobs /\ jobs' = jobs + 1
      /\ recipients' = [recipients EXCEPT ![jobs + 1] = Cardinality(to)]
      /\ UNCHANGED <<provider, rows, writer, shown, accepted>>
  BY DEF BeginJob, newBatchId, to
<1>3. PICK B \in chunkArray(to, max) : tab' = [tab EXCEPT ![t] = Begun(jobs + 1, kind, max, B, to \ B)]
  BY <1>2 DEF BeginJob, newBatchId, Request, Go, Begun
<1>4. Begun(jobs + 1, kind, max, B, to \ B) # Idle
  <2>1. jobs + 1 \in JobIds
    BY <1>2, SmsAssumption DEF Formed, JobIds
  <2> QED
    BY <1>1, <2>1, BegunShape
<1> QED
  BY <1>1, <1>2, <1>3, <1>4, BooksBegin

LEMMA CallBooks ==
  ASSUME Formed, Formed', Books, Once, NEW t \in Tabs, logCall(t)
  PROVE  Books'
<1> DEFINE nobody == {}
           k == jobs + 1
           q == Begun(k, "call", PageMax, {}, {} \ {})
<1>1. /\ tab[t] = Idle /\ jobs < MaxJobs /\ jobs' = k
      /\ UNCHANGED <<provider, rows, writer, recipients, shown, accepted>>
  BY DEF logCall, newBatchId
<1>2. {} \ {} = {} /\ IsFiniteSet({}) /\ Cardinality({}) = 0 /\ PageMax \in Nat \ {0}
  BY FS_EmptySet, SmsAssumption
<1>3. {} \in chunkArray({}, PageMax)
  BY <1>2 DEF chunkArray
<1>4. tab' = [tab EXCEPT ![t] = q] /\ q # Idle
  BY <1>2, CallBegins
<1>5. k \in JobIds /\ k > jobs
  BY <1>1, SmsAssumption DEF Formed, JobIds
<1>6. recipients' = [recipients EXCEPT ![k] = Cardinality({})]
  <2>1. recipients[k] = 0
    BY <1>5 DEF Books
  <2>2. recipients = [recipients EXCEPT ![k] = recipients[k]]
    BY <1>5 DEF Books
  <2> QED
    BY <1>1, <1>2, <2>1, <2>2
<1>7. /\ tab' = [tab EXCEPT ![t] = Begun(jobs + 1, "call", PageMax, nobody, nobody \ nobody)]
      /\ Begun(jobs + 1, "call", PageMax, nobody, nobody \ nobody) # Idle
      /\ IsFiniteSet(nobody) /\ nobody \in chunkArray(nobody, PageMax)
      /\ recipients' = [recipients EXCEPT ![jobs + 1] = Cardinality(nobody)]
  BY <1>2, <1>3, <1>4, <1>6
<1>8. jobs' = jobs + 1 /\ tab[t] = Idle /\ jobs < MaxJobs
      /\ UNCHANGED <<provider, rows, writer, shown, accepted>>
  BY <1>1
<1> HIDE DEF nobody
<1> QED
  BY <1>7, <1>8, BooksBegin

LEMMA BooksNext == Formed /\ Formed' /\ Once /\ Books /\ [SmsNext]_smsVars => Books'
<1> SUFFICES ASSUME Formed, Formed', Once, Books, [SmsNext]_smsVars PROVE Books'
  OBVIOUS
<1>1. CASE UNCHANGED smsVars
  BY <1>1 DEF smsVars, Books, Busy, Open
<1>2. ASSUME NEW t \in Tabs, NEW a \in Nat, NEW b \in Nat, Busy(t), Count(t, a, b),
             a + b = Cardinality(tab[t].batch),
             a = 0 \/ (tab[t].pc = "answer" /\ a <= Cardinality(SentOf(tab[t].fresh))),
             UNCHANGED <<provider, jobs, rows, recipients, accepted>>,
             writer' \in {Nobody, writer}
      PROVE  Books'
  <2>1. writer' \in Tabs \cup {Nobody}
    BY <1>2 DEF Formed
  <2> QED
    BY <1>2, <2>1, BooksCount
<1>3. ASSUME NEW t \in Tabs, Busy(t), Count(t, 0, Cardinality(tab[t].batch)),
             UNCHANGED <<provider, jobs, rows, recipients, accepted>>,
             writer' \in {Nobody, writer}
      PROVE  Books'
  <2>1. Cardinality(tab[t].batch) \in Nat
    BY <1>3, ShapedSizes DEF Formed
  <2>2. 0 \in Nat /\ 0 + Cardinality(tab[t].batch) = Cardinality(tab[t].batch)
    BY <2>1
  <2> QED
    BY <1>2, <1>3, <2>1, <2>2
<1>4. ASSUME NEW t \in Tabs, NEW text \in Texts, SendSms(t, text) PROVE Books'
  BY <1>4, JobBooks, SmsAssumption DEF SendSms
<1>5. ASSUME NEW t \in Tabs, NEW text \in Texts, SendBulkSms(t, text) PROVE Books'
  BY <1>5, JobBooks, SmsAssumption DEF SendBulkSms
<1>6. ASSUME NEW t \in Tabs, logCall(t) PROVE Books'
  BY <1>6, CallBooks
<1>7. ASSUME NEW t \in Tabs, SendToAll(t) PROVE Books'
  BY <1>7, BooksSendAll
<1>8. ASSUME NEW t \in Tabs, SendToNext(t) PROVE Books'
  BY <1>8, BooksSendNext
<1>9. ASSUME NEW t \in Tabs, Insert(t) PROVE Books'
  <2>1. Busy(t) /\ tab[t].pc = "insert" /\ UNCHANGED <<jobs, rows, recipients, shown, accepted>>
    BY <1>9, Inserted
  <2>2. PICK pc \in {"send", "commit"} : /\ tab' = [tab EXCEPT ![t] = [tab[t] EXCEPT !.pc = pc]]
                                         /\ [tab[t] EXCEPT !.pc = pc] # Idle
    BY <1>9, Inserted
  <2> QED
    BY <2>1, <2>2, BooksPc
<1>10. ASSUME NEW t \in Tabs, log_call(t) PROVE Books'
  <2>1. /\ Busy(t) /\ tab[t].pc = "insert" /\ UNCHANGED <<jobs, rows, recipients, shown, accepted>>
        /\ tab' = [tab EXCEPT ![t] = [tab[t] EXCEPT !.pc = "commit"]]
        /\ [tab[t] EXCEPT !.pc = "commit"] # Idle
    BY <1>10, CallInserted
  <2> QED
    BY <2>1, BooksPc
<1>11. ASSUME NEW t \in Tabs, Commit(t) PROVE Books'
  BY <1>11, BooksCommit
<1>12. ASSUME NEW t \in Tabs, AnswerSms(t) PROVE Books'
  <2> DEFINE r == tab[t]
             size == Cardinality(r.batch)
  <2>1. /\ At(t, "answer") /\ UNCHANGED <<provider, jobs, rows, writer, recipients, accepted>>
        /\ IF AllOk(r.fresh) THEN Count(t, size, 0) ELSE Count(t, 0, size)
    BY <1>12 DEF AnswerSms
  <2>2. Busy(t) /\ r.pc = "answer"
    BY <2>1, AtBusy
  <2>3. Shaped(r) /\ r.todo = {}
    BY <2>2 DEF Formed, Shaped
  <2>4. size \in Nat /\ size = Cardinality(r.fresh)
    BY <2>3, ShapedSizes
  <2>5. CASE AllOk(r.fresh)
    <3>1. SentOf(r.fresh) = r.fresh
      <4>1. \A row \in r.fresh : row.ok = TRUE
        BY <2>3, <2>5 DEF AllOk, Shaped, Batches, Rows
      <4> QED
        BY <4>1 DEF SentOf
    <3>2. Count(t, size, 0) /\ size + 0 = size /\ 0 \in Nat /\ size <= Cardinality(SentOf(r.fresh))
      BY <2>1, <2>4, <2>5, <3>1
    <3> QED
      BY <1>2, <2>1, <2>2, <2>4, <3>2
  <2>6. CASE ~AllOk(r.fresh)
    BY <1>3, <2>1, <2>2, <2>6
  <2> QED
    BY <2>5, <2>6
<1>13. ASSUME NEW t \in Tabs, AnswerBulk(t) PROVE Books'
  <2> DEFINE r == tab[t]
             ok == Cardinality({row \in r.fresh : row.ok})
             size == Cardinality(r.batch)
  <2>1. /\ At(t, "answer") /\ UNCHANGED <<provider, jobs, rows, writer, recipients, accepted>>
        /\ Count(t, ok, size - ok)
    BY <1>13 DEF AnswerBulk
  <2>2. Busy(t) /\ r.pc = "answer"
    BY <2>1, AtBusy
  <2>3. Shaped(r)
    BY <2>2 DEF Formed
  <2>4. {row \in r.fresh : row.ok} = SentOf(r.fresh)
    BY <2>3 DEF SentOf, Shaped, Batches, Rows
  <2>5. /\ size \in Nat /\ ok \in Nat /\ ok = Cardinality(SentOf(r.fresh)) /\ ok <= size
    <3>1. ok = Cardinality(SentOf(r.fresh))
      BY <2>4
    <3> HIDE DEF ok
    <3> QED
      BY <2>3, <3>1, ShapedSizes
  <2> HIDE DEF ok, size
  <2>6. size - ok \in Nat /\ ok + (size - ok) = size
    BY <2>5
  <2> QED
    BY <1>2, <2>1, <2>2, <2>5, <2>6 DEF size
<1>14. ASSUME NEW t \in Tabs, AnswerCall(t) PROVE Books'
  BY <1>14, BooksCall
<1>15. ASSUME NEW t \in Tabs, Refuse(t) PROVE Books'
  <2>1. /\ At(t, "send") /\ UNCHANGED <<provider, jobs, rows, writer, recipients, accepted>>
        /\ Count(t, 0, Cardinality(tab[t].batch))
    BY <1>15 DEF Refuse
  <2>2. Busy(t)
    BY <2>1, AtBusy
  <2> QED
    BY <1>3, <2>1, <2>2
<1>16. ASSUME NEW t \in Tabs, Fail(t) PROVE Books'
  <2>1. /\ Busy(t) /\ UNCHANGED <<provider, jobs, rows, recipients, accepted>>
        /\ Count(t, 0, Cardinality(tab[t].batch)) /\ writer' \in {Nobody, writer}
    BY <1>16 DEF Fail, Busy
  <2> QED
    BY <1>3, <2>1
<1> QED
  BY <1>1, <1>4, <1>5, <1>6, <1>7, <1>8, <1>9, <1>10, <1>11, <1>12, <1>13, <1>14, <1>15, <1>16
  DEF SmsNext

LEMMA AlwaysBooks == SmsSpec => []Books
<1>1. SmsInit => Formed /\ Once /\ Books
  BY FormedInit, OnceInit, BooksInit
<1>2. Formed /\ Once /\ Books /\ [SmsNext]_smsVars => Formed' /\ Once' /\ Books'
  BY FormedNext, OnceNext, BooksNext
<1> QED
  BY <1>1, <1>2, PTL DEF SmsSpec

(* The page accounts for every recipient of a job that is done, what it    *)
(* shows as sent is in the report, which holds no more than was asked for, *)
(* and what the report says was sent was accepted.                         *)
THEOREM ReportAddsUpAlways == SmsSpec => []ReportAddsUp
<1>1. Formed /\ Once /\ Books => ReportAddsUp
  <2> SUFFICES ASSUME Formed, Once, Books PROVE ReportAddsUp
    OBVIOUS
  <2>1. \A j : /\ Totals(j).recipients = Cardinality(LogIn(rows, j))
               /\ Totals(j).sent = Cardinality(SentOf(LogIn(rows, j)))
    <3> TAKE j
    <3>1. {row \in {old \in rows : old.job = j} : row.ok} = SentOf(LogIn(rows, j))
      BY DEF Books, Rows, SentOf, LogIn
    <3> QED
      BY <3>1 DEF Totals, LogIn
  <2>2. ASSUME NEW j \in 1 .. jobs
        PROVE  /\ (\A t \in Tabs : tab[t] # Idle => tab[t].id # j) =>
                    shown[j].sent + shown[j].failed = recipients[j]
               /\ shown[j].sent <= Cardinality(SentOf(LogIn(rows, j)))
               /\ Cardinality(LogIn(rows, j)) <= recipients[j]
    <3>1. CASE ~Open(j)
      <4>1. Settled(shown[j], LogIn(rows, j), recipients[j])
        BY <3>1 DEF Books
      <4> QED
        BY <4>1 DEF Settled
    <3>2. CASE Open(j)
      <4>1. PICK t \in Tabs : Busy(t) /\ tab[t].id = j
        BY <3>2 DEF Open
      <4> DEFINE r == tab[t]
                 s == shown[j]
                 log == LogIn(rows, j)
                 n == recipients[j]
      <4>2. /\ Shaped(r) /\ s \in [sent : Nat, failed : Nat] /\ n \in Nat
            /\ IsFiniteSet(log) /\ Owed(r, s, log, n)
        BY <4>1, JobOf
      <4> HIDE DEF s, log, n
      <4>3. /\ Cardinality(r.batch) \in Nat /\ Cardinality(r.rest) \in Nat
            /\ Cardinality(SentOf(r.fresh)) \in Nat
            /\ Cardinality(log) \in Nat /\ Cardinality(SentOf(log)) \in Nat
        BY <4>2, ShapedSizes, SentFinite
      <4>4. s.sent <= Cardinality(SentOf(log)) /\ Cardinality(log) <= n
        <5>1. CASE r.pc = "answer"
          <6>1. /\ s.sent + Cardinality(SentOf(r.fresh)) <= Cardinality(SentOf(log))
                /\ Cardinality(log) + Cardinality(r.rest) <= n
            BY <4>2, <5>1 DEF Owed
          <6>2. s.sent \in Nat
            BY <4>2
          <6> QED
            BY <4>2, <4>3, <6>1, <6>2
        <5>2. CASE r.pc # "answer"
          <6>1. /\ s.sent <= Cardinality(SentOf(log))
                /\ Cardinality(log) + Cardinality(r.batch) + Cardinality(r.rest) <= n
            BY <4>2, <5>2 DEF Owed
          <6> QED
            BY <4>2, <4>3, <6>1
        <5> QED
          BY <5>1, <5>2
      <4> QED
        BY <4>1, <4>4 DEF Busy, s, log, n
    <3> QED
      BY <3>1, <3>2
  <2>3. \A row \in rows :
          row.ok /\ row.by \in {"afromessage", "android"} => accepted[<<row.job, row.to>>] > 0
    BY DEF Books, Truthful, Rows
  <2> QED
    BY <2>1, <2>2, <2>3 DEF ReportAddsUp
<1> QED
  BY <1>1, AlwaysFormed, AlwaysOnce, AlwaysBooks, PTL

(* Every variable keeps to its type.                                       *)
THEOREM SmsTypeCorrect == SmsSpec => []SmsTypeOK
<1>1. Formed /\ Once /\ Books => SmsTypeOK
  BY DEF Formed, Once, Books, SmsTypeOK, Rows
<1> QED
  BY <1>1, AlwaysFormed, AlwaysOnce, AlwaysBooks, PTL
=============================================================================
