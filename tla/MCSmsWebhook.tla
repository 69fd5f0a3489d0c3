---------------------------- MODULE MCSmsWebhook ----------------------------
(* Instances of SmsWebhook for TLC.                                        *)
EXTENDS SmsWebhook, TLC

CONSTANTS r1, r2, r3, s1, s2, ada, bob

\* s1 is delivered twice.
MCSidOf == (r1 :> s1) @@ (r2 :> s1) @@ (r3 :> s2)

\* Both messages come from one sender, or from two.
OneSender == (s1 :> ada) @@ (s2 :> ada)
TwoSenders == (s1 :> ada) @@ (s2 :> bob)
=============================================================================
