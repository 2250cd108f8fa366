----------------------------- MODULE MCMessages -----------------------------
(***************************************************************************)
(* Small instances of Messages for TLC.                                    *)
(***************************************************************************)
EXTENDS Messages, TLC

(* Calls are alike.                                                        *)
Alike == Permutations(Calls)

(* A report of one state, for the message and for all of its recipients,   *)
(* with the history the device has by then.                                *)
Says(s, h) == [state |-> s, states |-> h, recipients |-> [p \in Phones |-> s]]

(* The device has the message, then gives up on it; enough for a report to *)
(* come late and move the message backwards.  The first names no history.  *)
TwoReports == {Says("Pending", {}), Says("Failed", {"Pending", "Failed"})}

(* A report that leaves a recipient out.                                   *)
CONSTANT unlisted
PartReport == {[Says("Failed", {"Failed"}) EXCEPT !.recipients[unlisted] = "Unlisted"]}
=============================================================================
