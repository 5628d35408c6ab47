-------------------------------- MODULE MCClaude --------------------------------
(* One Job of either kind; a command and a timer may send it at once. *)
EXTENDS Claude
=================================================================================
