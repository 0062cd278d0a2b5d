-------------------------------- MODULE Null --------------------------------
(***************************************************************************)
(* What a null pointer points to, what a field holds that is not set, and  *)
(* what is read where there is no file.  The modules that runs put side by *)
(* side share it.                                                          *)
(***************************************************************************)
CONSTANT None
=============================================================================
