------------------------------ MODULE PackagesMC ------------------------------
(* Two packages, one of them perhaps on record for a second architecture, any *)
(* two requests to a call, two calls one after the other.                     *)
EXTENDS Packages

MCNames == {"nginx", "redis"}
MCElsewhere == {"v1", "notinstalled"}
=============================================================================
