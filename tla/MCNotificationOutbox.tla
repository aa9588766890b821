------------------------ MODULE MCNotificationOutbox ------------------------
(* One order and one refund request of it, two requests in flight.         *)
EXTENDS NotificationOutbox, TLC

CONSTANTS o1, r1, w1, w2

OneRequest == r1 :> o1

=============================================================================
