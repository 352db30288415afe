---------------------------- MODULE MCAlertEngine ----------------------------
(* Small instances of AlertEngine for TLC. *)
EXTENDS AlertEngine

Setting(type, enabled, duration, cooldown) ==
  [type |-> type, enabled |-> enabled, duration |-> duration, cooldown |-> cooldown]

\* A rule that waits before it fires, the same rule switched off, a rule that
\* fires at once, and a certificate watch; the first and the third repeat themselves.
TimedConfigs ==
  { Setting("threshold", TRUE, 1, 1), Setting("threshold", FALSE, 1, 1),
    Setting("threshold", TRUE, 0, 1), Setting("tls_changed", TRUE, 0, 0) }

\* Rules without a duration, which a stopped clock cannot hold up.
PromptConfigs ==
  { Setting("threshold", TRUE, 0, 1), Setting("threshold", FALSE, 0, 1),
    Setting("offline", TRUE, 0, 0), Setting("tls_invalid", TRUE, 0, 0) }

\* All rules are built in, or none is.
MCBuiltIn == [r \in Rules |-> Setting("threshold", TRUE, 1, 1)]
NoBuiltIn == <<>>

\* A calm node and a busy one with another certificate.
TwoReports == {[hot |-> FALSE, cert |-> "c1"], [hot |-> TRUE, cert |-> "c2"]}
==============================================================================
