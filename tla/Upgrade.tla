------------------------------- MODULE Upgrade -------------------------------
(* What updating a node promises: only the release that is on offer is       *)
(* installed, never one that is not newer than the installed one, and an     *)
(* agent runs what was installed when it started.  Versions are compared     *)
(* as numbers; 0 is no release.                                              *)
EXTENDS Integers

CONSTANT MaxVersion  \* the last version there is

VARIABLES
  release,  \* the version on offer
  binary,   \* the version installed on the node
  running   \* the version of the agent that runs

Versions == 0 .. MaxVersion

Init ==
  /\ release \in Versions
  /\ binary \in Versions \ {0}
  /\ running = binary

Offer ==
  /\ release' \in Versions
  /\ UNCHANGED <<binary, running>>

Install ==
  /\ release > binary
  /\ binary' = release
  /\ UNCHANGED <<release, running>>

Start ==
  /\ running' = binary
  /\ UNCHANGED <<release, binary>>

Next == Offer \/ Install \/ Start

Spec == Init /\ [][Next]_<<release, binary, running>>
==============================================================================
