---------------------------- MODULE MCProxyBridge ---------------------------
(* Instances of ProxyBridge for TLC.                                        *)
EXTENDS ProxyBridge

(* A handshake, with one-byte or with longer messages, and the first bytes  *)
(* behind it in both directions: from the destination more than the proxy   *)
(* may buffer (MaxBuffer - 1 + ReadSize), so that reading has to stop.      *)
MCMaxSent == [client |-> 5, dest |-> 4]
=============================================================================
