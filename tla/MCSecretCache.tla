---------------------------- MODULE MCSecretCache ----------------------------
(* Three callers: one that fetches and two that share its flight.            *)
EXTENDS SecretCache

CONSTANTS g1, g2, g3
MCGetters == {g1, g2, g3}
=============================================================================
