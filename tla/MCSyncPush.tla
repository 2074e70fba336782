----------------------------- MODULE MCSyncPush -----------------------------
(***************************************************************************)
(* Instances of SyncPush for TLC: queues of two and of three mutations.    *)
(***************************************************************************)
EXTENDS SyncPush, TLC

CONSTANTS m1, m2, m3, p1, p2, p3

\* What a client with the queue m1, m2 sends: all it still has, in order.
QueueBatches == {<<m1, m2>>, <<m1>>, <<m2>>}

\* The same for m1, m2, m3, where m2 is done before or after m1.
ThreeBatches == {<<m1, m2, m3>>, <<m1, m3>>, <<m2, m3>>, <<m3>>}

=============================================================================
