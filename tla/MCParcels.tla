----------------------------- MODULE MCParcels -----------------------------
(* TLC instances of Parcels. *)
EXTENDS Parcels, TLC

\* Homes, of which a Nous may have one, at a price that makes the founding rate
\* an upkeep of 1.
Homes == [p \in Parcel |-> "home"]
Prices == [p \in Parcel |-> 50]
=============================================================================
