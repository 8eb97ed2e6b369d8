----------------------------- MODULE MCDownload -----------------------------
(* The instance of Download that TLC checks.                               *)
EXTENDS Download
=============================================================================
