---------------------------- MODULE MCController ----------------------------
(* The two servers with signals, dying loops, requests in progress and a   *)
(* second thread that may call stop().                                     *)
EXTENDS Controller
=============================================================================
