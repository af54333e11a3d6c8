--------------------------- MODULE OutboxContract ----------------------------
(***************************************************************************)
(* What the transactional outbox delivers to the pipeline behind it: a     *)
(* request that was accepted is handed to the broker at most once, or it   *)
(* is abandoned and the user sees it failed, never both.  (It is NOT at    *)
(* least once: see Outbox.)                                                *)
(***************************************************************************)
EXTENDS Naturals

CONSTANT Ids

VARIABLES phase,   \* the life of each request
          copies   \* how often it was handed to the broker

vars == <<phase, copies>>

Init == phase = [i \in Ids |-> "absent"] /\ copies = [i \in Ids |-> 0]

Move(i, from, to) == phase[i] = from /\ phase' = [phase EXCEPT ![i] = to]

Accept(i) == Move(i, "absent", "accepted") /\ UNCHANGED copies

HandOver(i) == Move(i, "accepted", "handed") /\ copies' = [copies EXCEPT ![i] = 1]

Abandon(i) == Move(i, "accepted", "abandoned") /\ UNCHANGED copies

Next == \E i \in Ids : Accept(i) \/ HandOver(i) \/ Abandon(i)

Spec == Init /\ [][Next]_vars
=============================================================================
