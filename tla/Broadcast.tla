------------------------------ MODULE Broadcast ------------------------------
(***************************************************************************)
(* One receiver of a bounded broadcast channel (tokio::sync::broadcast),   *)
(* as the server uses it: a send never waits; a receiver that falls behind *)
(* by more than the capacity loses the oldest messages, and its next recv  *)
(* returns Lagged with the number of messages it lost before it returns    *)
(* the messages that are still there.                                      *)
(***************************************************************************)
EXTENDS Integers, Sequences

NewReceiver == [queue |-> <<>>, missed |-> 0]

(* The receiver after msg was sent on a channel of the given capacity.      *)
(* Losses are counted up to `limit', beyond which no receiver tells them    *)
(* apart.                                                                   *)
Sent(rx, msg, capacity, limit) ==
  IF Len(rx.queue) < capacity
    THEN [rx EXCEPT !.queue = Append(@, msg)]
    ELSE [queue  |-> Append(Tail(rx.queue), msg),
          missed |-> IF rx.missed < limit THEN rx.missed + 1 ELSE limit]

Lagged(rx) == rx.missed > 0
Ready(rx) == ~Lagged(rx) /\ rx.queue # <<>>

(* The receiver after a recv that returned Lagged, or the oldest message.   *)
CaughtUp(rx) == [queue |-> rx.queue, missed |-> 0]
Received(rx) == [queue |-> Tail(rx.queue), missed |-> rx.missed]
=============================================================================
