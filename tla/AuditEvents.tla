---------------------------- MODULE AuditEvents ----------------------------
(***************************************************************************)
(* The envelopes the services of openclaw may emit: one element stands for *)
(* one AuditEnvelope, from AuditEnvelope.new() to its ledger entry.        *)
(***************************************************************************)
CONSTANT Envelopes
=============================================================================
