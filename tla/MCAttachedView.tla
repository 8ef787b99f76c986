--------------------------- MODULE MCAttachedView ---------------------------
(* AttachedViewProps on two ports and a device of each of two servers.      *)
EXTENDS AttachedViewProps

CONSTANTS h1, h2, b1

\* Two servers that export a device under the same busid.
SameBusid == {<<h1, b1>>, <<h2, b1>>}
=============================================================================
