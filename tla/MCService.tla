------------------------------ MODULE MCService ------------------------------
(* Service on small instances: zones of less than a page to two pages. *)
EXTENDS Service

CONSTANTS x1, x2, x3
Zones == {<<>>, <<x1, x2>>, <<x1, x2, x3>>}
=============================================================================
