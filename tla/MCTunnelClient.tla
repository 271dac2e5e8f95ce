--------------------------- MODULE MCTunnelClient ---------------------------
(* TunnelClient with values for TLC: the configurations that differ.        *)
EXTENDS TunnelClient

Conf(retries, auth, muxOK) == [retries |-> retries, auth |-> auth, muxOK |-> muxOK]

MCConfigs == {Conf(-1, "device", TRUE), Conf(1, "device", TRUE),
              Conf(1, "hmac", TRUE), Conf(1, "device", FALSE)}
=============================================================================
