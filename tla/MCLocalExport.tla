---------------------------- MODULE MCLocalExport ----------------------------
(* LocalExport on small instances: the names and owners of the zone rows.    *)
EXTENDS LocalExport, TLC

CONSTANTS z1, z2, n1, n2, o1, o2

OneName   == z1 :> n1 @@ z2 :> n1
TwoNames  == z1 :> n1 @@ z2 :> n2
TwoOwners == z1 :> o1 @@ z2 :> o2
OneOwner  == z1 :> o1 @@ z2 :> o1
=============================================================================
