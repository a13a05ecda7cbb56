----------------------------- MODULE MCDelivery -----------------------------
(* Two servers, one of which takes over from the other, and one deployment *)
(* that may be created at any time.                                        *)
EXTENDS Delivery
=============================================================================
