------------------------------ MODULE AtMostOnce ------------------------------
(***************************************************************************)
(* What the notification outbox promises: a notification is promised       *)
(* together with the business event it tells about, and then reaches its   *)
(* customer once or not at all.                                            *)
(***************************************************************************)
EXTENDS Naturals

CONSTANT Notes

VARIABLES
    promised,      \* the notifications of events that have happened
    received       \* [Notes -> how often the customer got the message]

Init == promised = {} /\ received = [n \in Notes |-> 0]

Promise ==
    /\ promised' \in SUBSET Notes
    /\ promised \subseteq promised'
    /\ UNCHANGED received

Reach(n) ==
    /\ n \in promised
    /\ received[n] = 0
    /\ received' = [received EXCEPT ![n] = 1]
    /\ UNCHANGED promised

Next == Promise \/ (\E n \in Notes : Reach(n))

Spec == Init /\ [][Next]_<<promised, received>>

=============================================================================
