------------------------------- MODULE Reports -------------------------------
(* What the controller promises about reports: in one run of the controller  *)
(* each report a node sent counts at most once, and the node's row shows one *)
(* that counted, in this run or an earlier one.                              *)
EXTENDS Integers

CONSTANT MaxReports  \* bound on the reports a node sends

VARIABLES
  sent,     \* the reports that were sent, numbered in this order
  counted,  \* those that counted since the controller started
  row       \* the one the node's row shows, 0 if none

Init == sent = 0 /\ counted = {} /\ row = 0

Send ==
  /\ sent < MaxReports /\ sent' = sent + 1
  /\ UNCHANGED <<counted, row>>

Count ==
  \E n \in (1 .. sent) \ counted :
    /\ counted' = counted \cup {n}
    /\ row' = n
    /\ UNCHANGED sent

Restart == counted' = {} /\ UNCHANGED <<sent, row>>

Next == Send \/ Count \/ Restart

Spec == Init /\ [][Next]_<<sent, counted, row>>
==============================================================================
