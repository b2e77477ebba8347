----------------------------- MODULE EventLoop -----------------------------
(***************************************************************************)
(* One EventLoop (net/EventLoop.cpp): the reactor thread that sleeps in    *)
(* epoll_wait, and the self-pipe by which other threads hand it results.   *)
(*                                                                         *)
(* sendToReactor pushes a message under q_mtx_ and THEN writes one byte to *)
(* the pipe; handlePipeNotify empties the pipe and THEN swaps the queue    *)
(* out.  Both ends of the pipe are non-blocking and the read end is        *)
(* registered edge-triggered (EPOLLIN | EPOLLET), so a wake-up that is     *)
(* missed once is missed for good: the order of these four steps is what   *)
(* this module is about.  What the loop does with a message it has taken   *)
(* (the fd lookup and the handler) is in module Reactor.                   *)
(*                                                                         *)
(* A message is the ticket of its push.  A critical section of q_mtx_ is   *)
(* one step.                                                               *)
(***************************************************************************)
EXTENDS Naturals, Sequences

CONSTANTS Workers,      \* threads that call sendToReactor (the thread pool)
          MaxSends,     \* bound: total number of messages pushed
          PipeCap,      \* capacity of the pipe, in bytes (64 KiB on Linux)
          ReadSize      \* size of the buffer handlePipeNotify reads into

ASSUME EventLoopAssumption ==
    /\ MaxSends \in Nat
    /\ PipeCap \in Nat \ {0}
    /\ ReadSize \in Nat \ {0}

VARIABLES msg_q,        \* msg_q_, the shared queue
          local,        \* handlePipeNotify's local queue
          pipe,         \* bytes in the wake-up pipe
          ready,        \* epoll holds an unreported edge of the pipe
          harvested,    \* the pipe's event is in the batch being processed
          loopPc,       \* where the reactor thread is
          workerPc,     \* where each worker is in sendToReactor
          sent,         \* tickets issued
          dispatched    \* last ticket taken from the local queue

vars == <<msg_q, local, pipe, ready, harvested, loopPc, workerPc, sent, dispatched>>

LoopPcs == {"wait",     \* in epoll_wait
            "batch",    \* iterating over the reported events
            "pushed",   \* a handler of the loop has pushed, not yet written
            "drain",    \* handlePipeNotify, reading the pipe
            "swap",     \* handlePipeNotify, about to take the queue
            "dispatch"} \* handlePipeNotify, working off the local queue

(* Besides the types: the queues never hold more than has been sent.       *)
TypeOK ==
    /\ msg_q \in Seq(1..MaxSends)
    /\ local \in Seq(1..MaxSends)
    /\ Len(local) + Len(msg_q) <= sent
    /\ pipe \in 0..PipeCap
    /\ ready \in BOOLEAN
    /\ harvested \in BOOLEAN
    /\ loopPc \in LoopPcs
    /\ workerPc \in [Workers -> {"idle", "pushed"}]
    /\ sent \in 0..MaxSends
    /\ dispatched \in 0..MaxSends

Init ==
    /\ msg_q = <<>>
    /\ local = <<>>
    /\ pipe = 0
    /\ ready = FALSE
    /\ harvested = FALSE
    /\ loopPc = "wait"
    /\ workerPc = [w \in Workers |-> "idle"]
    /\ sent = 0
    /\ dispatched = 0
-----------------------------------------------------------------------------
(***************************************************************************)
(* sendToReactor, first half: push under q_mtx_.                           *)
(***************************************************************************)
PushMsg ==
    /\ sent < MaxSends
    /\ sent' = sent + 1
    /\ msg_q' = Append(msg_q, sent + 1)

(***************************************************************************)
(* sendToReactor, second half: a non-blocking write of one byte.  A full   *)
(* pipe makes it fail with EAGAIN, which the code ignores.  A byte that    *)
(* lands in an empty pipe raises an edge; whether one that lands in a      *)
(* non-empty pipe does depends on the kernel.                              *)
(***************************************************************************)
WriteByte ==
    \/ /\ pipe < PipeCap
       /\ pipe' = pipe + 1
       /\ IF pipe = 0 THEN ready' = TRUE ELSE ready' \in {ready, TRUE}
    \/ /\ pipe = PipeCap
       /\ UNCHANGED <<pipe, ready>>

WorkerPush(w) ==
    /\ workerPc[w] = "idle"
    /\ PushMsg
    /\ workerPc' = [workerPc EXCEPT ![w] = "pushed"]
    /\ UNCHANGED <<local, pipe, ready, harvested, loopPc, dispatched>>

WorkerWrite(w) ==
    /\ workerPc[w] = "pushed"
    /\ WriteByte
    /\ workerPc' = [workerPc EXCEPT ![w] = "idle"]
    /\ UNCHANGED <<msg_q, local, harvested, loopPc, sent, dispatched>>
-----------------------------------------------------------------------------
(***************************************************************************)
(* epoll_wait returns, for the pipe or for some connection.  The pipe is   *)
(* reported if it is on the ready list and still has something to read,    *)
(* and leaves the list either way.                                         *)
(***************************************************************************)
Wakeable == ready /\ pipe > 0

EpollWait ==
    /\ loopPc = "wait"
    /\ loopPc' = "batch"
    /\ harvested' = Wakeable
    /\ ready' = FALSE
    /\ UNCHANGED <<msg_q, local, pipe, workerPc, sent, dispatched>>

(***************************************************************************)
(* A connection's handler runs on the loop's own thread and answers at     *)
(* once (ConnectionHandler::handleRead serving the page), so the loop is a *)
(* sender to its own pipe.                                                 *)
(***************************************************************************)
LoopPush ==
    /\ loopPc = "batch"
    /\ PushMsg
    /\ loopPc' = "pushed"
    /\ UNCHANGED <<local, pipe, ready, harvested, workerPc, dispatched>>

LoopWrite ==
    /\ loopPc = "pushed"
    /\ WriteByte
    /\ loopPc' = "batch"
    /\ UNCHANGED <<msg_q, local, harvested, workerPc, sent, dispatched>>

HandlePipe ==
    /\ loopPc = "batch"
    /\ harvested
    /\ harvested' = FALSE
    /\ loopPc' = "drain"
    /\ UNCHANGED <<msg_q, local, pipe, ready, workerPc, sent, dispatched>>

EndBatch ==
    /\ loopPc = "batch"
    /\ ~harvested
    /\ loopPc' = "wait"
    /\ UNCHANGED <<msg_q, local, pipe, ready, harvested, workerPc, sent, dispatched>>

(* Mutant of ReadPipe: a single read instead of a loop.                    *)
ReadPipe_Once ==
    /\ loopPc = "drain"
    /\ pipe' = IF pipe > ReadSize THEN pipe - ReadSize ELSE 0
    /\ loopPc' = "swap"
    /\ UNCHANGED <<msg_q, local, ready, harvested, workerPc, sent, dispatched>>

(***************************************************************************)
(* The read loop of handlePipeNotify: n > 0 reads on, EAGAIN leaves it.    *)
(***************************************************************************)
ReadPipe ==
    /\ loopPc = "drain"
    /\ \/ /\ pipe > 0
          /\ pipe' = IF pipe > ReadSize THEN pipe - ReadSize ELSE 0
          /\ UNCHANGED loopPc
       \/ /\ pipe = 0
          /\ loopPc' = "swap"
          /\ UNCHANGED pipe
    /\ UNCHANGED <<msg_q, local, ready, harvested, workerPc, sent, dispatched>>

(* Mutant of SwapQueue: the queue is copied, and left as it is.            *)
SwapQueue_Copies ==
    /\ loopPc = "swap"
    /\ local' = msg_q
    /\ loopPc' = "dispatch"
    /\ UNCHANGED <<msg_q, pipe, ready, harvested, workerPc, sent, dispatched>>

(* handlePipeNotify takes the shared queue, under q_mtx_.                  *)
SwapQueue ==
    /\ loopPc = "swap"
    /\ local' = msg_q
    /\ msg_q' = <<>>
    /\ loopPc' = "dispatch"
    /\ UNCHANGED <<pipe, ready, harvested, workerPc, sent, dispatched>>

(* Mutant of Dispatch: the local queue is left when the next event is due. *)
Dispatch_StopsEarly ==
    /\ loopPc = "dispatch"
    /\ \/ /\ local # <<>>
          /\ dispatched' = Head(local)
       \/ /\ local = <<>>
          /\ UNCHANGED dispatched
    /\ local' = <<>>
    /\ loopPc' = "batch"
    /\ UNCHANGED <<msg_q, pipe, ready, harvested, workerPc, sent>>

Dispatch ==
    /\ loopPc = "dispatch"
    /\ \/ /\ local # <<>>
          /\ dispatched' = Head(local)
          /\ local' = Tail(local)
          /\ UNCHANGED loopPc
       \/ /\ local = <<>>
          /\ loopPc' = "batch"
          /\ UNCHANGED <<local, dispatched>>
    /\ UNCHANGED <<msg_q, pipe, ready, harvested, workerPc, sent>>

LoopStep == EpollWait \/ LoopPush \/ LoopWrite \/ HandlePipe \/ EndBatch
            \/ ReadPipe \/ SwapQueue \/ Dispatch

WorkerStep(w) == WorkerPush(w) \/ WorkerWrite(w)

Next == LoopStep \/ \E w \in Workers : WorkerStep(w)

Spec == Init /\ [][Next]_vars

(***************************************************************************)
(* Fairness: the reactor thread keeps running, and a worker that has       *)
(* pushed gets to its write.  Nobody has to send.                          *)
(***************************************************************************)
FairSpec == Spec /\ WF_vars(LoopStep) /\ \A w \in Workers : WF_vars(WorkerWrite(w))
-----------------------------------------------------------------------------
(***************************************************************************)
(* Someone is between the push and the write of sendToReactor.             *)
(***************************************************************************)
WakeInFlight == loopPc = "pushed" \/ \E w \in Workers : workerPc[w] = "pushed"

(***************************************************************************)
(* The reactor thread never sleeps on a message: if it is in epoll_wait    *)
(* with nothing to be woken by and no sender about to write, then the      *)
(* shared queue is empty.  With an edge-triggered pipe this depends on the *)
(* order push-write and read-swap in sendToReactor/handlePipeNotify and on *)
(* reading the pipe until EAGAIN.                                          *)
(***************************************************************************)
NoStrandedMessage ==
    loopPc = "wait" /\ ~Wakeable /\ ~WakeInFlight => msg_q = <<>>

(***************************************************************************)
(* The argument for NoStrandedMessage, as an inductive invariant: bytes in *)
(* the pipe always have an event that will lead to their being read, and a *)
(* queued message always has a wake-up on its way or a swap still to come. *)
(***************************************************************************)
BytesHaveEvent == pipe > 0 => ready \/ harvested \/ loopPc = "drain"

QueueHasWake ==
    msg_q # <<>> =>
        WakeInFlight \/ pipe > 0 \/ harvested \/ loopPc \in {"drain", "swap"}

BatchShape ==
    /\ harvested => loopPc \in {"batch", "pushed"}
    /\ local # <<>> => loopPc = "dispatch"

WakeInv == BytesHaveEvent /\ QueueHasWake /\ BatchShape

(***************************************************************************)
(* The event loop implements the mailbox: every message is dispatched      *)
(* exactly once, in push order, and eventually, whatever the interleaving  *)
(* of the senders with the loop's read and swap, and also when the pipe is *)
(* full and the wake-up write fails.                                       *)
(***************************************************************************)
MB == INSTANCE Mailbox WITH queue <- local \o msg_q

MailboxFairSpec == MB!FairSpec
=============================================================================
