---------------------------- MODULE MCEventLoop ----------------------------
(* Instance of EventLoop for TLC: three workers and the loop thread itself *)
(* send.  The pipe holds three bytes and four senders can each have one on *)
(* the way, so that a write fails with EAGAIN; it is read two bytes at a   *)
(* time, so that the read loop iterates and sees a short read.             *)
EXTENDS EventLoop

CONSTANTS w1, w2, w3
MCWorkers == {w1, w2, w3}
=============================================================================
