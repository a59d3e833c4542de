----------------------------- MODULE MCServices -----------------------------
(* Services with small limits: the constants are in the configuration.     *)
EXTENDS ServicesProperties
=============================================================================
