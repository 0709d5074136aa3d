-------------------------- MODULE MCTokenRefresh --------------------------
(* A small instance of TokenRefresh for TLC; its constants are given in      *)
(* TokenRefresh.cfg.                                                         *)
EXTENDS TokenRefresh
=============================================================================
