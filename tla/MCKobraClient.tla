--------------------------- MODULE MCKobraClient ---------------------------
(***************************************************************************)
(* An instance of KobraClient for TLC.  One caller is enough: the          *)
(* properties about calls assume that no two of them overlap, and calls    *)
(* that do not overlap may as well be made by one thread.                  *)
(***************************************************************************)
EXTENDS KobraClient
=============================================================================
