------------------------------- MODULE MCOffline -------------------------------
(* One daemon as a service and one started in a terminal, the sessions of two      *)
(* issues whose names sanitize alike, both begun in the same second.               *)
EXTENDS Offline, TLC

CONSTANTS k1, k2

MCKeyOf == <<k1, k2>>
MCStartOf == <<1, 1>>
MCSanitize(k) == "k"
MCLayout == {{}, {1}}

=============================================================================
