--------------------------- MODULE MCShareControl ---------------------------
(* ShareControlProps on a stick and a network adapter.                      *)
EXTENDS ShareControlProps, TLC

CONSTANTS stick, nic, j1, j2

\* The defaults of fnOS with a tidy exit; and an operator who allows network
\* adapters and lists what to share.
SomeSettings ==
    {[netdev |-> FALSE, unbind |-> TRUE, restore |-> TRUE],
     [netdev |-> TRUE, unbind |-> FALSE, restore |-> FALSE]}

=============================================================================
