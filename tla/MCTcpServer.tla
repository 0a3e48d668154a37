---------------------------- MODULE MCTcpServer ----------------------------
(***************************************************************************)
(* TcpServer for TLC.  Connections are not declared symmetric: the run is  *)
(* about liveness, too.                                                    *)
(***************************************************************************)
EXTENDS TcpServer

=============================================================================
