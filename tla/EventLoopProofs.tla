-------------------------- MODULE EventLoopProofs --------------------------
(***************************************************************************)
(* Proofs about EventLoop, for every set of workers, every pipe capacity,  *)
(* every read size and every number of messages.                           *)
(***************************************************************************)
EXTENDS EventLoop, SequenceTheorems, TLAPS

(***************************************************************************)
(* What the two halves of sendToReactor do to the state they touch.        *)
(***************************************************************************)
LEMMA PushMsgType ==
    ASSUME TypeOK, PushMsg
    PROVE  /\ sent' \in 1..MaxSends
           /\ sent' = sent + 1
           /\ msg_q' \in Seq(1..MaxSends)
           /\ msg_q' # <<>>
           /\ Len(local) + Len(msg_q') <= sent'
<1>1. sent' = sent + 1 /\ sent' \in 1..MaxSends
  BY EventLoopAssumption DEF TypeOK, PushMsg
<1>2. msg_q' = Append(msg_q, sent') /\ msg_q \in Seq(1..MaxSends)
  BY DEF TypeOK, PushMsg
<1>3. /\ msg_q' \in Seq(1..MaxSends) /\ msg_q' # <<>>
      /\ Len(msg_q') = Len(msg_q) + 1
  BY <1>1, <1>2, AppendProperties
<1>4. Len(local) + Len(msg_q') <= sent'
  <2>1. Len(local) \in Nat /\ Len(msg_q) \in Nat /\ sent \in Nat
    BY EventLoopAssumption, LenProperties DEF TypeOK
  <2>2. Len(local) + Len(msg_q) <= sent
    BY DEF TypeOK
  <2>3. QED
    BY <1>1, <1>3, <2>1, <2>2
<1>5. QED
  BY <1>1, <1>3, <1>4

LEMMA WriteByteType ==
    ASSUME TypeOK, WriteByte
    PROVE  /\ pipe' \in 1..PipeCap
           /\ ready' \in BOOLEAN
           /\ ready => ready'
           /\ pipe = 0 => ready'
<1>1. (pipe < PipeCap /\ pipe' = pipe + 1) \/ (pipe = PipeCap /\ pipe' = pipe)
  BY Zenon DEF WriteByte
<1>2. pipe \in 0..PipeCap /\ ready \in BOOLEAN
  BY DEF TypeOK
<1>3. pipe' \in 1..PipeCap
  BY <1>1, <1>2, EventLoopAssumption
<1>4. CASE pipe < PipeCap /\ (IF pipe = 0 THEN ready' = TRUE ELSE ready' \in {ready, TRUE})
  BY <1>2, <1>3, <1>4, Zenon
<1>5. CASE pipe = PipeCap /\ UNCHANGED <<pipe, ready>>
  <2>1. pipe # 0
    BY <1>5, EventLoopAssumption
  <2>2. QED
    BY <1>2, <1>3, <1>5, <2>1, Zenon
<1>6. QED
  BY <1>4, <1>5, Zenon DEF WriteByte

(***************************************************************************)
(* Working off the local queue shortens it by its head.                    *)
(***************************************************************************)
LEMMA DispatchType ==
    ASSUME TypeOK, Dispatch
    PROVE  /\ local' \in Seq(1..MaxSends)
           /\ Len(local') + Len(msg_q') <= sent'
           /\ dispatched' \in 0..MaxSends
           /\ loopPc' \in {"dispatch", "batch"}
           /\ local' # <<>> => loopPc' = "dispatch"
<1>1. /\ local \in Seq(1..MaxSends) /\ dispatched \in 0..MaxSends /\ loopPc = "dispatch"
      /\ Len(local) + Len(msg_q) <= sent /\ UNCHANGED <<msg_q, sent>>
  BY DEF TypeOK, Dispatch
<1>2. CASE /\ local # <<>>
           /\ dispatched' = Head(local)
           /\ local' = Tail(local)
           /\ UNCHANGED loopPc
  <2>1. Head(local) \in 1..MaxSends /\ Tail(local) \in Seq(1..MaxSends)
    BY <1>1, <1>2, HeadTailProperties
  <2>2. 1..MaxSends \subseteq 0..MaxSends
    BY EventLoopAssumption
  <2>3. Len(local') + Len(msg_q') <= sent'
    <3>1. Len(Tail(local)) = Len(local) - 1
      BY <1>1, <1>2, HeadTailProperties
    <3>2. Len(local) \in Nat /\ Len(msg_q) \in Nat /\ sent \in Nat
      BY EventLoopAssumption, LenProperties DEF TypeOK
    <3>3. QED
      BY <1>1, <1>2, <3>1, <3>2
  <2>4. QED
    BY <1>1, <1>2, <2>1, <2>2, <2>3, Zenon
<1>3. CASE /\ local = <<>>
           /\ loopPc' = "batch"
           /\ UNCHANGED <<local, dispatched>>
  BY <1>1, <1>3
<1>4. QED
  BY <1>2, <1>3, Zenon DEF Dispatch

(***************************************************************************)
(* Type correctness.                                                       *)
(***************************************************************************)
THEOREM TypeCorrect == Spec => []TypeOK
<1>1. Init => TypeOK
  <2> SUFFICES ASSUME Init PROVE TypeOK
    OBVIOUS
  <2>1. /\ msg_q \in Seq(1..MaxSends) /\ local \in Seq(1..MaxSends)
        /\ Len(local) + Len(msg_q) <= sent
    <3>1. <<>> \in Seq(1..MaxSends) /\ Len(<<>>) = 0
      BY EmptySeq
    <3>2. QED
      BY <3>1 DEF Init
  <2>2. pipe \in 0..PipeCap /\ sent \in 0..MaxSends /\ dispatched \in 0..MaxSends
    BY EventLoopAssumption DEF Init
  <2>3. QED
    BY <2>1, <2>2, Zenon DEF Init, TypeOK, LoopPcs
<1>2. TypeOK /\ [Next]_vars => TypeOK'
  <2> SUFFICES ASSUME TypeOK, [Next]_vars PROVE TypeOK'
    OBVIOUS
  <2>1. ASSUME NEW w \in Workers, WorkerPush(w) PROVE TypeOK'
    <3>1. /\ sent' \in 0..MaxSends /\ msg_q' \in Seq(1..MaxSends)
          /\ Len(local') + Len(msg_q') <= sent'
      BY <2>1, PushMsgType, EventLoopAssumption DEF WorkerPush
    <3>2. QED
      BY <2>1, <3>1, Zenon DEF TypeOK, WorkerPush
  <2>2. ASSUME NEW w \in Workers, WorkerWrite(w) PROVE TypeOK'
    <3>1. pipe' \in 0..PipeCap /\ ready' \in BOOLEAN
      BY <2>2, WriteByteType, EventLoopAssumption DEF WorkerWrite
    <3>2. QED
      BY <2>2, <3>1, Zenon DEF TypeOK, WorkerWrite
  <2>3. CASE EpollWait
    BY <2>3 DEF EpollWait, Wakeable, TypeOK, LoopPcs
  <2>4. CASE LoopPush
    <3>1. /\ sent' \in 0..MaxSends /\ msg_q' \in Seq(1..MaxSends)
          /\ Len(local') + Len(msg_q') <= sent'
      BY <2>4, PushMsgType, EventLoopAssumption DEF LoopPush
    <3>2. QED
      BY <2>4, <3>1, Zenon DEF TypeOK, LoopPush, LoopPcs
  <2>5. CASE LoopWrite
    <3>1. pipe' \in 0..PipeCap /\ ready' \in BOOLEAN
      BY <2>5, WriteByteType, EventLoopAssumption DEF LoopWrite
    <3>2. QED
      BY <2>5, <3>1, Zenon DEF TypeOK, LoopWrite, LoopPcs
  <2>6. CASE HandlePipe
    BY <2>6 DEF HandlePipe, TypeOK, LoopPcs
  <2>7. CASE EndBatch
    BY <2>7 DEF EndBatch, TypeOK, LoopPcs
  <2>8. CASE ReadPipe
    BY <2>8, EventLoopAssumption DEF ReadPipe, TypeOK, LoopPcs
  <2>9. CASE SwapQueue
    <3>1. <<>> \in Seq(1..MaxSends) /\ Len(<<>>) = 0
      BY EmptySeq
    <3>2. Len(local') + Len(msg_q') <= sent'
      <4>1. Len(local) \in Nat /\ Len(msg_q) \in Nat /\ sent \in Nat
        BY EventLoopAssumption, LenProperties DEF TypeOK
      <4>2. Len(local) + Len(msg_q) <= sent
        BY DEF TypeOK
      <4>3. QED
        BY <2>9, <3>1, <4>1, <4>2 DEF SwapQueue
    <3>3. QED
      BY <2>9, <3>1, <3>2, Zenon DEF SwapQueue, TypeOK, LoopPcs
  <2>10. CASE Dispatch
    BY <2>10, DispatchType, Zenon DEF Dispatch, TypeOK, LoopPcs
  <2>11. CASE UNCHANGED vars
    BY <2>11, Zenon DEF vars, TypeOK, LoopPcs
  <2>12. QED
    BY <2>1, <2>2, <2>3, <2>4, <2>5, <2>6, <2>7, <2>8, <2>9, <2>10, <2>11, Zenon
    DEF Next, LoopStep, WorkerStep
<1>3. QED
  BY <1>1, <1>2, PTL DEF Spec

(***************************************************************************)
(* The inductive invariant behind NoStrandedMessage.                       *)
(***************************************************************************)
THEOREM WakeInvariant == Spec => []WakeInv
<1>1. Init => WakeInv
  BY DEF Init, WakeInv, BytesHaveEvent, QueueHasWake, BatchShape
<1>2. TypeOK /\ WakeInv /\ [Next]_vars => WakeInv'
  <2> SUFFICES ASSUME TypeOK, WakeInv, [Next]_vars PROVE WakeInv'
    OBVIOUS
  <2> USE DEF WakeInv, BytesHaveEvent, QueueHasWake, BatchShape, WakeInFlight
  <2>1. ASSUME NEW w \in Workers, WorkerPush(w) PROVE WakeInv'
    <3>1. workerPc'[w] = "pushed"
      BY <2>1 DEF WorkerPush, TypeOK
    <3>2. QED
      BY <2>1, <3>1, Zenon DEF WorkerPush
  <2>2. ASSUME NEW w \in Workers, WorkerWrite(w) PROVE WakeInv'
    <3>1. pipe' > 0 /\ (ready => ready') /\ (pipe = 0 => ready')
      BY <2>2, WriteByteType, EventLoopAssumption DEF WorkerWrite
    <3>2. pipe > 0 \/ pipe = 0
      BY DEF TypeOK
    <3>3. QED
      BY <2>2, <3>1, <3>2, Zenon DEF WorkerWrite
  <2>3. CASE EpollWait
    BY <2>3 DEF EpollWait, Wakeable, TypeOK
  <2>4. CASE LoopPush
    BY <2>4, Zenon DEF LoopPush
  <2>5. CASE LoopWrite
    <3>1. pipe' > 0 /\ (ready => ready') /\ (pipe = 0 => ready')
      BY <2>5, WriteByteType, EventLoopAssumption DEF LoopWrite
    <3>2. pipe > 0 \/ pipe = 0
      BY DEF TypeOK
    <3>3. QED
      BY <2>5, <3>1, <3>2, Zenon DEF LoopWrite
  <2>6. CASE HandlePipe
    BY <2>6, Zenon DEF HandlePipe
  <2>7. CASE EndBatch
    BY <2>7 DEF EndBatch
  <2>8. CASE ReadPipe
    BY <2>8 DEF ReadPipe, TypeOK
  <2>9. CASE SwapQueue
    BY <2>9 DEF SwapQueue
  <2>10. CASE Dispatch
    BY <2>10, DispatchType DEF Dispatch
  <2>11. CASE UNCHANGED vars
    BY <2>11, Zenon DEF vars
  <2>12. QED
    BY <2>1, <2>2, <2>3, <2>4, <2>5, <2>6, <2>7, <2>8, <2>9, <2>10, <2>11, Zenon
    DEF Next, LoopStep, WorkerStep
<1>3. QED
  BY <1>1, <1>2, TypeCorrect, PTL DEF Spec

(***************************************************************************)
(* No lost wake-up: the reactor thread never sleeps on a queued message.   *)
(***************************************************************************)
THEOREM NoMessageStranded == Spec => []NoStrandedMessage
<1>1. TypeOK /\ WakeInv => NoStrandedMessage
  BY DEF TypeOK, WakeInv, BytesHaveEvent, QueueHasWake, BatchShape, NoStrandedMessage,
         Wakeable
<1>2. QED
  BY <1>1, TypeCorrect, WakeInvariant, PTL

(***************************************************************************)
(* The tickets still to be dispatched when s have been issued and d        *)
(* dispatched, and how a push and a dispatch change them.                  *)
(***************************************************************************)
Outstanding(s, d) == [i \in 1..(s - d) |-> d + i]

LEMMA OutstandingSeq ==
    ASSUME NEW s \in Nat, NEW d \in 0..s
    PROVE  /\ Outstanding(s, d) \in Seq(Nat)
           /\ Len(Outstanding(s, d)) = s - d
BY DEF Outstanding

LEMMA OutstandingAppend ==
    ASSUME NEW s \in Nat, NEW d \in 0..s
    PROVE  Append(Outstanding(s, d), s + 1) = Outstanding(s + 1, d)
BY DEF Outstanding

LEMMA OutstandingTail ==
    ASSUME NEW s \in Nat, NEW d \in 0..s, Outstanding(s, d) # <<>>
    PROVE  /\ d + 1 \in 0..s
           /\ Head(Outstanding(s, d)) = d + 1
           /\ Tail(Outstanding(s, d)) = Outstanding(s, d + 1)
<1>1. d < s
  BY DEF Outstanding
<1>2. Head(Outstanding(s, d)) = d + 1
  BY <1>1 DEF Outstanding
<1>3. Tail(Outstanding(s, d)) = Outstanding(s, d + 1)
  BY <1>1 DEF Outstanding
<1>4. QED
  BY <1>1, <1>2, <1>3

(***************************************************************************)
(* The two queues of the loop seen as one: a push appends to it, and the   *)
(* dispatch of the local queue's head is the dispatch of its head.         *)
(***************************************************************************)
LEMMA ConcatAppend ==
    ASSUME NEW S, NEW a \in Seq(S), NEW b \in Seq(S), NEW e \in S
    PROVE  a \o Append(b, e) = Append(a \o b, e)
OBVIOUS

LEMMA ConcatTail ==
    ASSUME NEW S, NEW a \in Seq(S), NEW b \in Seq(S), a # <<>>
    PROVE  /\ a \o b # <<>>
           /\ Head(a \o b) = Head(a)
           /\ Tail(a \o b) = Tail(a) \o b
<1>1. Len(a) > 0
  OBVIOUS
<1>2. Len(a \o b) = Len(a) + Len(b)
  OBVIOUS
<1>3. a \o b # <<>> /\ Head(a \o b) = Head(a)
  BY <1>1, <1>2
<1>4. Tail(a \o b) = Tail(a) \o b
  <2>1. Tail(a \o b) \in Seq(S) /\ Tail(a) \o b \in Seq(S)
    BY <1>1, <1>2
  <2>2. Len(Tail(a \o b)) = Len(Tail(a) \o b)
    BY <1>1, <1>2
  <2>3. \A i \in 1..Len(Tail(a \o b)) : Tail(a \o b)[i] = (Tail(a) \o b)[i]
    BY <1>1, <1>2
  <2>4. QED
    BY <2>1, <2>2, <2>3, SeqEqual
<1>5. QED
  BY <1>3, <1>4

(***************************************************************************)
(* Whatever is queued is exactly the outstanding tickets, in order: none   *)
(* is lost between the two queues, none is there twice.                    *)
(***************************************************************************)
TicketInv ==
    /\ dispatched <= sent
    /\ local \o msg_q = Outstanding(sent, dispatched)

LEMMA TicketsKept ==
    ASSUME TypeOK, BatchShape, TicketInv, [Next]_vars
    PROVE  TicketInv' /\ [MB!Next]_(MB!vars)
<1> USE DEF TicketInv, MB!Next, MB!Post, MB!Handle, MB!vars
<1>1. /\ sent \in Nat /\ dispatched \in 0..sent
      /\ local \in Seq(1..MaxSends) /\ msg_q \in Seq(1..MaxSends)
  BY EventLoopAssumption DEF TypeOK
<1>2. ASSUME PushMsg, UNCHANGED <<local, dispatched>>
      PROVE  TicketInv' /\ MB!Post
  <2>1. sent + 1 \in 1..MaxSends /\ sent' = sent + 1 /\ msg_q' = Append(msg_q, sent + 1)
    BY <1>2, PushMsgType DEF PushMsg
  <2>2. local' \o msg_q' = Append(local \o msg_q, sent + 1)
    BY <1>1, <1>2, <2>1, ConcatAppend
  <2>3. local' \o msg_q' = Outstanding(sent + 1, dispatched)
    BY <1>1, <2>2, OutstandingAppend
  <2>4. dispatched' <= sent'
    BY <1>1, <1>2, <2>1
  <2>5. sent < MaxSends
    BY <1>2 DEF PushMsg
  <2>6. QED
    BY <1>2, <2>1, <2>2, <2>3, <2>4, <2>5
<1>3. ASSUME UNCHANGED <<msg_q, local, sent, dispatched>>
      PROVE  TicketInv' /\ UNCHANGED MB!vars
  BY <1>3
<1>4. ASSUME NEW w \in Workers, WorkerPush(w)
      PROVE  TicketInv' /\ MB!Post
  BY <1>2, <1>4 DEF WorkerPush
<1>5. ASSUME NEW w \in Workers, WorkerWrite(w)
      PROVE  TicketInv' /\ UNCHANGED MB!vars
  BY <1>3, <1>5 DEF WorkerWrite
<1>6. CASE LoopPush
  BY <1>2, <1>6 DEF LoopPush
<1>7. CASE EpollWait \/ LoopWrite \/ HandlePipe \/ EndBatch \/ ReadPipe
  <2>1. UNCHANGED <<msg_q, local, sent, dispatched>>
    BY <1>7, Zenon DEF EpollWait, LoopWrite, HandlePipe, EndBatch, ReadPipe
  <2>2. QED
    BY <2>1, <1>3
<1>8. CASE SwapQueue
  <2>1. local = <<>>
    BY <1>8 DEF SwapQueue, BatchShape
  <2>2. local' \o msg_q' = msg_q /\ local \o msg_q = msg_q
    BY <1>1, <1>8, <2>1, ConcatEmptySeq DEF SwapQueue
  <2>3. QED
    BY <1>8, <2>2 DEF SwapQueue
<1>9. CASE Dispatch
  <2>1. CASE local # <<>>
    <3>1. dispatched' = Head(local) /\ local' = Tail(local) /\ UNCHANGED <<msg_q, sent>>
      BY <1>9, <2>1 DEF Dispatch
    <3>2. /\ local \o msg_q # <<>>
          /\ Head(local \o msg_q) = Head(local)
          /\ Tail(local \o msg_q) = Tail(local) \o msg_q
      BY <1>1, <2>1, ConcatTail
    <3>3. /\ dispatched + 1 \in 0..sent
          /\ Head(local \o msg_q) = dispatched + 1
          /\ Tail(local \o msg_q) = Outstanding(sent, dispatched + 1)
      BY <1>1, <3>2, OutstandingTail
    <3>4. local' \o msg_q' = Tail(local \o msg_q) /\ dispatched' = dispatched + 1
      BY <3>1, <3>2, <3>3
    <3>5. MB!Handle
      BY <3>1, <3>2, <3>3, <3>4, Zenon
    <3>6. dispatched' <= sent'
      BY <1>1, <3>1, <3>3, <3>4
    <3>7. QED
      BY <3>1, <3>3, <3>4, <3>5, <3>6, Zenon
  <2>2. CASE local = <<>>
    <3>1. UNCHANGED <<msg_q, local, sent, dispatched>>
      BY <1>9, <2>2 DEF Dispatch
    <3>2. QED
      BY <3>1, <1>3
  <2>3. QED
    BY <2>1, <2>2
<1>10. CASE UNCHANGED vars
  BY <1>3, <1>10 DEF vars
<1>11. QED
  BY <1>4, <1>5, <1>6, <1>7, <1>8, <1>9, <1>10, Zenon
  DEF Next, LoopStep, WorkerStep

(***************************************************************************)
(* The event loop implements the mailbox (its safety part; that messages   *)
(* are dispatched eventually is the liveness TLC checks): each message is  *)
(* dispatched at most once, and in the order of the pushes.                *)
(***************************************************************************)
THEOREM ImplementsMailbox == Spec => MB!Spec
<1>1. Init => TicketInv /\ MB!Init
  <2> SUFFICES ASSUME Init PROVE TicketInv /\ MB!Init
    OBVIOUS
  <2>1. local \o msg_q = <<>>
    BY DEF Init
  <2>2. Outstanding(0, 0) = <<>>
    BY DEF Outstanding
  <2>3. QED
    BY <2>1, <2>2 DEF Init, TicketInv, MB!Init
<1>2. TypeOK /\ WakeInv /\ TicketInv /\ [Next]_vars => TicketInv' /\ [MB!Next]_(MB!vars)
  BY TicketsKept DEF WakeInv
<1>3. QED
  BY <1>1, <1>2, TypeCorrect, WakeInvariant, PTL DEF Spec, MB!Spec
=============================================================================
