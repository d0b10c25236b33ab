------------------------- MODULE MCCommandApproval -------------------------
(* One call, the same call id twice, two calls.                            *)
EXTENDS CommandApproval

CONSTANTS c1, c2

MCCallLists == {<<c1>>, <<c1, c1>>, <<c1, c2>>}
=============================================================================
