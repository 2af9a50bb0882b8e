--------------------------- MODULE MCCoreRequests ---------------------------
(***************************************************************************)
(* An instance of CoreRequests for TLC: three requests after those of an   *)
(* earlier process, a user and an authenticator.                           *)
(***************************************************************************)
EXTENDS CoreRequests, TLC

MCRequests == 1 .. 3
=============================================================================
