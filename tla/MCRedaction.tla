---------------------------- MODULE MCRedaction ----------------------------
(***************************************************************************)
(* An instance of Redaction for TLC: a mail with two fields to seal and    *)
(* one that looks like a secret, a commit, an empty payload, and a policy  *)
(* whose second version knows one more secret name.                        *)
(***************************************************************************)
EXTENDS Redaction

MCSubjectOf == [mail |-> "oc.event.mail.", commit |-> "oc.event.git.", ping |-> "oc.event.core."]
MCFieldsOf ==
    [mail |-> <<"token", "body", "note", "snippet">>, commit |-> <<"sha", "token">>,
     ping |-> <<>>]
MCHighEntropy == {<<"mail", "note">>, <<"commit", "sha">>, <<"commit", "token">>}
MCSecretNames == <<{"token"}, {"token", "snippet"}>>
=============================================================================
