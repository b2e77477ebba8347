----------------------------- MODULE MCMySqlPool ---------------------------
(* Instance of MySqlPool for TLC: four client threads, two connections to  *)
(* begin with, and a limit of six, one more than the pool may grow to, so  *)
(* that both bounds on its growth can be exceeded.                         *)
EXTENDS MySqlPool

CONSTANTS t1, t2, t3, t4
MCClients == {t1, t2, t3, t4}
=============================================================================
