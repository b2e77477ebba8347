---------------------------- MODULE MCRedisPool ----------------------------
(* Instance of RedisPool for TLC: four client threads and at most two      *)
(* contexts, so that two clients can wait while two give back, and a       *)
(* newcomer can overtake them.  The constructor may have connected none.   *)
EXTENDS RedisPool

CONSTANTS t1, t2, t3, t4
MCClients == {t1, t2, t3, t4}
=============================================================================
