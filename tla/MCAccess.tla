------------------------------ MODULE MCAccess ------------------------------
(* Two concurrent calls of the guard, and one --allow-origin that is valid *)
(* besides one that is not and one that names the PC itself.               *)
EXTENDS Access

CONSTANTS g1, g2

ExtraPage ==
  {[scheme |-> "https", host |-> [name |-> "extra", lower |-> FALSE], port |-> 8443, rest |-> "slash"],
   [scheme |-> "https", host |-> [name |-> "foreign", lower |-> TRUE], port |-> None, rest |-> "path"],
   [scheme |-> "http", host |-> [name |-> "loopback", lower |-> TRUE], port |-> 8443, rest |-> "none"]}
=============================================================================
