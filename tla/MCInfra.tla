------------------------------- MODULE MCInfra -------------------------------
(* Calls of log() without fields, and with fields some of which lack a key. *)
EXTENDS Infra

MCFieldLists == {<<>>, <<"no_key", "field">>}

=============================================================================
