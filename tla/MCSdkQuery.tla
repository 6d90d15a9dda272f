----------------------------- MODULE MCSdkQuery -----------------------------
(* A small instance of SdkQuery for TLC.                                    *)
EXTENDS SdkQuery

CONSTANT proved

OneKey == {proved}

\* A proof that fails to verify inside an outage, and an outage of every endpoint.
MCErrors == {<<{"transport"}, {"verification"}>>, <<{"all-endpoints"}>>}

=============================================================================
