-------------------------- MODULE MCNotificationApi --------------------------
(***************************************************************************)
(* TLC instance of NotificationApi: two requests at a time, windows of two *)
(* ticks, a lower limit for sending, pages of one or two of three rows.    *)
(***************************************************************************)
EXTENDS NotificationApi, TLC

MCLimit == [k \in Keys |-> IF k = "ip" THEN 2 ELSE 1]
Symmetry == Permutations(Requests)
=============================================================================
