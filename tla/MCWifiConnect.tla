--------------------------- MODULE MCWifiConnect ---------------------------
(* Instance of WifiConnect with room for a few semaphores.                  *)
EXTENDS WifiConnect, TLC

CONSTANTS s1, s2, s3
=============================================================================
