---------------------------- MODULE MCFmHandoff -----------------------------
(* Two fminit slots (one serving, one exec'd anew), two acquiring threads. *)
EXTENDS FmHandoff

CONSTANTS d1, d2, c1, c2
=============================================================================
