------------------------------- MODULE MCArena -------------------------------
(* Instance of Arena for TLC.  A 5-bit size_t, 5-byte default pages, and     *)
(* requests from 0 bytes to the largest that fits a header.                  *)
EXTENDS Arena

ASSUME MCSizesFit == SizesFit
=============================================================================
