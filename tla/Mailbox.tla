------------------------------ MODULE Mailbox ------------------------------
(***************************************************************************)
(* What EventLoop::sendToReactor promises to the worker threads, without   *)
(* the pipe, the epoll set and the two queues that implement it: a posted  *)
(* message is handled by the reactor thread exactly once, in the order of  *)
(* the posts, and it is handled eventually.                                *)
(*                                                                         *)
(* A message is the ticket of its post (1, 2, 3, ...), so that order and   *)
(* multiplicity are visible.                                               *)
(***************************************************************************)
EXTENDS Naturals, Sequences

CONSTANT MaxSends            \* bound on the number of posts

VARIABLES queue,             \* posted and not handled yet
          sent,              \* the last ticket posted
          dispatched         \* the last ticket handled

vars == <<queue, sent, dispatched>>

Init ==
    /\ queue = <<>>
    /\ sent = 0
    /\ dispatched = 0

Post ==
    /\ sent < MaxSends
    /\ sent' = sent + 1
    /\ queue' = Append(queue, sent + 1)
    /\ UNCHANGED dispatched

Handle ==
    /\ queue # <<>>
    /\ Head(queue) = dispatched + 1
    /\ dispatched' = Head(queue)
    /\ queue' = Tail(queue)
    /\ UNCHANGED sent

Next == Post \/ Handle

Spec == Init /\ [][Next]_vars

FairSpec == Spec /\ WF_vars(Handle)
=============================================================================
