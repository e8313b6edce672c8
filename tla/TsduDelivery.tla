----------------------------- MODULE TsduDelivery -----------------------------
(***************************************************************************)
(* What a transport connection promises to the layers above it: TSDUs are  *)
(* delivered whole and in the order in which they were sent, each once,    *)
(* until the connection closes.                                            *)
(***************************************************************************)
EXTENDS Naturals, Sequences

CONSTANT Tsdus  \* the TSDUs that may be sent

VARIABLES sent, delivered, open

deliveryVars == <<sent, delivered, open>>

DeliveryInit == sent = <<>> /\ delivered = <<>> /\ open = TRUE

Send == /\ \E t \in Tsdus : sent' = Append(sent, t)
        /\ UNCHANGED <<delivered, open>>

Deliver == /\ open
           /\ Len(delivered) < Len(sent)
           /\ delivered' = Append(delivered, sent[Len(delivered) + 1])
           /\ UNCHANGED <<sent, open>>

CloseDown == open' = FALSE /\ UNCHANGED <<sent, delivered>>

DeliveryNext == Send \/ Deliver \/ CloseDown

DeliverySpec == DeliveryInit /\ [][DeliveryNext]_deliveryVars
=============================================================================
