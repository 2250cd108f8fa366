------------------------------ MODULE MCDelivery ------------------------------
(***************************************************************************)
(* Small instances of Delivery for TLC.                                    *)
(***************************************************************************)
EXTENDS Delivery, TLC

PatchA == "webhooks.retry_count" :> "1"
PatchB == "webhooks.signing_key" :> "2" @@ "unknown" :> "2"
Patches == {PatchA, PatchB}
=============================================================================
