---------------------------- MODULE MCSendHttps ----------------------------
(* Calls for model checking SendHttps.                                     *)
EXTENDS SendHttps

Single(pref, posture) == [kind |-> "single", pref |-> pref, posture |-> posture]
Batch(same, posture) == [kind |-> "batch", sameOrigin |-> same, posture |-> posture]

\* Every preference; every posture with the default preference; every kind of batch.
AllRequests ==
    {Single(p, "default") : p \in Prefs} \cup {Single("Auto", p) : p \in Postures}
    \cup {Batch(TRUE, "default"), Batch(FALSE, "default"), Batch(TRUE, "insecure")}
OneBatch == {Batch(TRUE, "default")}
=============================================================================
