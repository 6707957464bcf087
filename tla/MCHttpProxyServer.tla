-------------------------- MODULE MCHttpProxyServer --------------------------
(* One start and one stop, which overlap.                                   *)
EXTENDS HttpProxyServer

=============================================================================
