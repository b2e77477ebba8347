--------------------------- MODULE ReactorProofs ---------------------------
(***************************************************************************)
(* Proofs about Reactor, for any clients, scripts, descriptors and         *)
(* workers.                                                                *)
(*                                                                         *)
(* First, whether clients pipeline, close early and reset or not: the      *)
(* table, the descriptors and the epoll set agree (the buffers, the pool   *)
(* and the mailbox play no part: whatever a posted answer says, it cannot  *)
(* make them disagree), every buffer and queue holds what its type says,   *)
(* and a deleted handler is used only after an abrupt end.                 *)
(*                                                                         *)
(* Then, for orderly clients, what the exchange of requests and answers    *)
(* promises.  The invariant says, connection by connection, that it is     *)
(* either answering (its current request is in one place, and nothing else *)
(* is stirring) or reading (what is unread is the end of what was sent,    *)
(* and all before it has been answered).                                   *)
(***************************************************************************)
EXTENDS Reactor, FiniteSetTheorems, SequenceTheorems, WellFoundedInduction, TLAPS

Phases == {"read", "write", "close"}

(* The types the argument needs, which leave out what is in the buffers.   *)
Types ==
    /\ served \in [Clients -> {"none", "open", "gone"}]
    /\ fd \in [Clients -> 0..NumFds]
    /\ fd_to_handler \in [Fds -> Clients \cup {None}]
    /\ accepting \in Clients \cup {None}
    /\ cur \in Clients \cup {None}
    /\ mask \in [Clients -> SUBSET {"in", "out"}]
    /\ events \in [Clients -> SUBSET {"in", "out", "hup"}]

(* What TableInv leaves open: the handler being registered is live, a live *)
(* handler has a descriptor, and the loop's handler has events left.       *)
Working ==
    /\ accepting # None => served[accepting] = "open"
    /\ \A c \in Clients : served[c] = "open" => fd[c] \in Fds
    /\ up /\ loopPc \in Phases => cur \in Clients /\ events[cur] # {}

IInv == Types /\ TableInv /\ Working

tableVars == <<sockVars, mask, loopVars, up>>

LEMMA NothingMoves ==
    ASSUME IInv, UNCHANGED tableVars
    PROVE  IInv'
BY DEF IInv, Types, TableInv, Working, tableVars, sockVars, loopVars

LEMMA InitHolds == Init => IInv
<1>1. SUFFICES ASSUME Init PROVE IInv
  OBVIOUS
<1>2. Types
  BY <1>1, ReactorAssumption DEF Init, Types
<1>3. TableInv
  BY <1>1, ReactorAssumption DEF Init, TableInv, Fds
<1>4. Working
  BY <1>1 DEF Init, Working, Phases
<1>5. QED
  BY <1>2, <1>3, <1>4 DEF IInv

(* The current handler, while it is in use: live, registered, and not the  *)
(* one the acceptor is registering.                                        *)
LEMMA CurIsLive ==
    ASSUME IInv, up, loopPc \in Phases
    PROVE  /\ cur \in Clients /\ events[cur] # {} /\ mask[cur] # {}
           /\ served[cur] = "open" /\ accepting # cur /\ fd[cur] \in Fds
BY DEF IInv, TableInv, Working

LEMMA PhaseHasEvents ==
    ASSUME NEW evs \in SUBSET {"in", "out", "hup"}, Phase(evs) \in Phases
    PROVE  evs # {}
BY DEF Phase, Phases

(* An event is dealt with; a mask may change, but nobody leaves or enters  *)
(* the epoll set.                                                          *)
LEMMA EventDoneKeeps ==
    ASSUME IInv, up, loopPc \in Phases, NEW ev, EventDone(ev), UNCHANGED sockVars,
           mask' \in [Clients -> SUBSET {"in", "out"}],
           \A c \in Clients : mask'[c] = {} <=> mask[c] = {}
    PROVE  IInv'
<1>1. cur \in Clients /\ cur' = cur /\ up' = up
  BY CurIsLive DEF EventDone
<1>2. /\ events' = [events EXCEPT ![cur] = @ \ {ev}]
      /\ loopPc' = Phase(events[cur] \ {ev})
  BY DEF EventDone
<1>3. /\ events' \in [Clients -> SUBSET {"in", "out", "hup"}]
      /\ \A c \in Clients : events'[c] \subseteq events[c]
      /\ events'[cur] = events[cur] \ {ev}
  BY <1>1, <1>2 DEF IInv, Types
<1>4. Types'
  BY <1>1, <1>3 DEF IInv, Types, sockVars
<1>5. Working'
  <2>1. loopPc' \in Phases => events'[cur] # {}
    BY <1>1, <1>2, <1>3, PhaseHasEvents DEF IInv, Types
  <2>2. QED
    BY <1>1, <2>1 DEF IInv, Working, sockVars
<1>6. TableInv'
  <2>1. served[cur] = "open"
    BY CurIsLive
  <2>2. \A c \in Clients : events'[c] # {} => mask'[c] # {}
    BY <1>3 DEF IInv, TableInv
  <2>3. QED
    BY <1>1, <2>1, <2>2 DEF IInv, TableInv, sockVars
<1>7. QED
  BY <1>4, <1>5, <1>6 DEF IInv

LEMMA CloseKeeps ==
    ASSUME IInv, up, loopPc \in Phases, NEW more \in BOOLEAN, HandleClose(cur, more)
    PROVE  IInv'
<1>1. /\ cur \in Clients /\ served[cur] = "open" /\ accepting # cur
      /\ fd[cur] \in Fds
  BY CurIsLive
<1>2. /\ fd_to_handler' = [fd_to_handler EXCEPT ![fd[cur]] = None]
      /\ mask' = [mask EXCEPT ![cur] = {}]
      /\ fd' = [fd EXCEPT ![cur] = 0]
      /\ served' = [served EXCEPT ![cur] = "gone"]
      /\ events' = [events EXCEPT ![cur] = {}]
      /\ loopPc' = "batch" /\ cur' = cur /\ accepting' = accepting
  BY DEF HandleClose
<1>3. Types'
  BY <1>1, <1>2, ReactorAssumption DEF IInv, Types
<1>4. Working'
  BY <1>1, <1>2 DEF IInv, Types, Working, Phases
<1>5. TableInv'
  <2>1. \A f \in Fds, c \in Clients :
           fd_to_handler'[f] = c <=> served'[c] = "open" /\ fd'[c] = f
    <3>1. TAKE f \in Fds, c \in Clients
    <3>2. fd_to_handler[f] = c <=> served[c] = "open" /\ fd[c] = f
      BY DEF IInv, TableInv
    <3>3. fd_to_handler[fd[cur]] = cur
      BY <1>1 DEF IInv, TableInv
    <3>4. CASE c = cur
      BY <1>1, <1>2, <3>2, <3>4, ReactorAssumption DEF IInv, Types
    <3>5. CASE c # cur
      BY <1>1, <1>2, <3>2, <3>3, <3>5, ReactorAssumption DEF IInv, Types
    <3>6. QED
      BY <3>4, <3>5
  <2>2. \A c \in Clients :
           /\ mask'[c] # {} <=> served'[c] = "open" /\ accepting' # c
           /\ events'[c] # {} => mask'[c] # {}
    BY <1>1, <1>2 DEF IInv, Types, TableInv
  <2>3. QED
    BY <1>2, <2>1, <2>2 DEF TableInv
<1>6. QED
  BY <1>3, <1>4, <1>5 DEF IInv

LEMMA AcceptKeeps ==
    ASSUME IInv, NEW c \in Clients, Accept(c)
    PROVE  IInv'
<1>1. PICK f \in Fds \ {fd[d] : d \in Clients} :
         /\ fd' = [fd EXCEPT ![c] = f]
         /\ fd_to_handler' = [fd_to_handler EXCEPT ![f] = c]
  BY DEF Accept
<1>2. /\ f \in Fds /\ f \in 0..NumFds
      /\ \A d \in Clients : fd[d] # f
  BY <1>1, ReactorAssumption DEF Fds
<1>3. /\ accepting = None /\ accepting' = c
      /\ served[c] = "none" /\ served' = [served EXCEPT ![c] = "open"]
      /\ UNCHANGED <<mask, loopPc, cur, events, up>>
  BY DEF Accept, loopVars
<1>4. Types'
  BY <1>1, <1>2, <1>3 DEF IInv, Types
<1>5. Working'
  BY <1>1, <1>2, <1>3 DEF IInv, Types, Working
<1>6. TableInv'
  <2>1. \A g \in Fds, d \in Clients :
           fd_to_handler'[g] = d <=> served'[d] = "open" /\ fd'[d] = g
    <3>1. TAKE g \in Fds, d \in Clients
    <3>2. fd_to_handler[g] = d <=> served[d] = "open" /\ fd[d] = g
      BY DEF IInv, TableInv
    <3>3. CASE g = f
      BY <1>1, <1>2, <1>3, <3>2, <3>3 DEF IInv, Types
    <3>4. CASE g # f
      BY <1>1, <1>2, <1>3, <3>2, <3>4 DEF IInv, Types
    <3>5. QED
      BY <3>3, <3>4
  <2>2. \A d \in Clients :
           /\ mask'[d] # {} <=> served'[d] = "open" /\ accepting' # d
           /\ events'[d] # {} => mask'[d] # {}
    BY <1>3, ReactorAssumption DEF IInv, Types, TableInv
  <2>3. up' /\ loopPc' \in Phases => served'[cur'] = "open"
    <3>1. up /\ loopPc \in Phases => served[cur] = "open" /\ cur \in Clients
      BY CurIsLive
    <3>2. QED
      BY <1>3, <3>1 DEF IInv, Types
  <2>4. QED
    BY <2>1, <2>2, <2>3 DEF TableInv, Phases
<1>7. QED
  BY <1>4, <1>5, <1>6 DEF IInv

LEMMA EpollAddKeeps ==
    ASSUME IInv, EpollAdd
    PROVE  IInv'
<1>1. /\ accepting \in Clients /\ served[accepting] = "open" /\ accepting' = None
      /\ mask' = [mask EXCEPT ![accepting] = {"in"}]
      /\ UNCHANGED <<served, fd, fd_to_handler, loopPc, cur, events, up>>
  BY DEF EpollAdd, loopVars, IInv, Types, Working
<1>2. Types'
  BY <1>1 DEF IInv, Types
<1>3. Working'
  BY <1>1 DEF IInv, Working
<1>4. \A c \in Clients :
         /\ mask'[c] # {} <=> served'[c] = "open" /\ accepting' # c
         /\ events'[c] # {} => mask'[c] # {}
  <2>1. TAKE c \in Clients
  <2>2. /\ mask[c] # {} <=> served[c] = "open" /\ accepting # c
        /\ events[c] # {} => mask[c] # {}
    BY DEF IInv, TableInv
  <2>3. mask'[c] = IF c = accepting THEN {"in"} ELSE mask[c]
    BY <1>1 DEF IInv, Types
  <2>4. c # None
    BY ReactorAssumption
  <2>5. QED
    BY <1>1, <2>2, <2>3, <2>4
<1>5. TableInv'
  BY <1>1, <1>4 DEF IInv, TableInv
<1>6. QED
  BY <1>2, <1>3, <1>5 DEF IInv

LEMMA LoopKeeps ==
    ASSUME IInv, LoopStep
    PROVE  IInv'
<1>1. CASE EpollWait
  <2>1. /\ events' = [c \in Clients |-> Ready(c)] /\ loopPc' = "batch"
        /\ UNCHANGED <<served, fd, fd_to_handler, accepting, mask, cur, up>>
    BY <1>1 DEF EpollWait, sockVars
  <2>2. \A c \in Clients : /\ Ready(c) \subseteq {"in", "out", "hup"}
                           /\ mask[c] = {} => Ready(c) = {}
    BY DEF Ready
  <2>3. Types'
    BY <2>1, <2>2 DEF IInv, Types
  <2>4. Working'
    BY <2>1 DEF IInv, Working, Phases
  <2>5. TableInv'
    BY <2>1, <2>2 DEF IInv, TableInv
  <2>6. QED
    BY <2>3, <2>4, <2>5 DEF IInv
<1>2. ASSUME NEW c \in Clients, StartEvent(c) PROVE IInv'
  <2>1. /\ cur' = c /\ events[c] # {}
        /\ UNCHANGED <<served, fd, fd_to_handler, accepting, mask, events, up>>
    BY <1>2 DEF StartEvent, sockVars
  <2>2. Types'
    BY <2>1 DEF IInv, Types
  <2>3. Working'
    BY <2>1 DEF IInv, Working
  <2>4. TableInv'
    BY <2>1 DEF IInv, TableInv
  <2>5. QED
    BY <2>2, <2>3, <2>4 DEF IInv
<1>3. CASE EndBatch
  BY <1>3 DEF EndBatch, sockVars, IInv, Types, TableInv, Working, Phases
<1>4. CASE Recv
  <2>1. loopPc \in Phases /\ up /\ UNCHANGED <<sockVars, mask>>
    BY <1>4 DEF Recv, Phases
  <2>2. EventDone("in") \/ UNCHANGED <<loopVars, up>>
    BY <1>4 DEF Recv, HttpRequest, HttpWait, HttpBusy, Lines
  <2>3. CASE EventDone("in")
    BY <2>1, <2>3, EventDoneKeeps DEF IInv, Types
  <2>4. CASE UNCHANGED <<loopVars, up>>
    BY <2>1, <2>4, NothingMoves DEF tableVars
  <2>5. QED
    BY <2>2, <2>3, <2>4
<1>5. CASE RecvAgain
  <2>1. loopPc \in Phases /\ up /\ EventDone("in") /\ UNCHANGED <<sockVars, mask>>
    BY <1>5 DEF RecvAgain, Phases
  <2>2. QED
    BY <2>1, EventDoneKeeps DEF IInv, Types
<1>6. CASE RecvEnd
  BY <1>6, CloseKeeps DEF RecvEnd, Phases
<1>7. CASE SendFails
  BY <1>7, CloseKeeps DEF SendFails, Phases
<1>8. CASE HandleWrite
  <2>1. loopPc \in Phases /\ up /\ EventDone("out") /\ UNCHANGED sockVars
    BY <1>8 DEF HandleWrite, Phases
  <2>2. mask' = mask \/ mask' = [mask EXCEPT ![cur] = {"in"}]
    BY <1>8 DEF HandleWrite
  <2>3. mask[cur] # {} /\ cur \in Clients
    BY <2>1, CurIsLive
  <2>4. /\ mask' \in [Clients -> SUBSET {"in", "out"}]
        /\ \A c \in Clients : mask'[c] = {} <=> mask[c] = {}
    BY <2>2, <2>3 DEF IInv, Types
  <2>5. QED
    BY <2>1, <2>4, EventDoneKeeps
<1>9. CASE Deliver
  <2>1. UNCHANGED <<served, fd, fd_to_handler, accepting, loopPc, cur, events, up>>
    BY <1>9 DEF Deliver, sockVars, loopVars
  <2>2. \/ mask' = mask
        \/ \E h : mask[h] # {} /\ mask' = [mask EXCEPT ![h] = {"in", "out"}]
    BY <1>9 DEF Deliver
  <2>3. /\ mask' \in [Clients -> SUBSET {"in", "out"}]
        /\ \A c \in Clients : mask'[c] = {} <=> mask[c] = {}
    BY <2>2 DEF IInv, Types
  <2>4. Types' /\ Working'
    BY <2>1, <2>3 DEF IInv, Types, Working
  <2>5. TableInv'
    BY <2>1, <2>3 DEF IInv, TableInv
  <2>6. QED
    BY <2>4, <2>5 DEF IInv
<1>10. QED
  BY <1>1, <1>2, <1>3, <1>4, <1>5, <1>6, <1>7, <1>8, <1>9 DEF LoopStep

LEMMA StepKeeps == IInv /\ [Next]_vars => IInv'
<1>1. SUFFICES ASSUME IInv, [Next]_vars PROVE IInv'
  OBVIOUS
<1>2. ASSUME NEW c \in Clients, ClientStep(c) PROVE IInv'
  BY <1>1, <1>2, NothingMoves
     DEF ClientStep, Connect, SendPiece, Finish, Reset, tableVars
<1>3. CASE AcceptorStep
  BY <1>1, <1>3, AcceptKeeps, EpollAddKeeps DEF AcceptorStep
<1>4. CASE LoopStep
  BY <1>1, <1>4, LoopKeeps
<1>5. ASSUME NEW i \in 1..Width, FinishTask(i) PROVE IInv'
  BY <1>1, <1>5, NothingMoves DEF FinishTask, tableVars
<1>6. CASE UNCHANGED vars
  BY <1>1, <1>6, NothingMoves DEF vars, tableVars, sockVars, loopVars
<1>7. QED
  BY <1>1, <1>2, <1>3, <1>4, <1>5, <1>6 DEF Next, Stopped

(***************************************************************************)
(* The table, the descriptors and the epoll set agree in every reachable   *)
(* state, with any number of clients and descriptors, and however clients  *)
(* and the acceptor's thread cut in (EventLoop::updateHandler,             *)
(* removeHandler and ConnectionHandler::handleClose).                      *)
(***************************************************************************)
THEOREM TableAgrees == Spec => []TableInv
<1>1. Init => IInv
  BY InitHolds
<1>2. IInv /\ [Next]_vars => IInv'
  BY StepKeeps
<1>3. IInv => TableInv
  BY DEF IInv
<1>4. QED
  BY <1>1, <1>2, <1>3, PTL DEF Spec
-----------------------------------------------------------------------------
(***************************************************************************)
(* Induction over the naturals, for sets: a set of naturals has a least    *)
(* element, so a set that has 0 and, with each n up to m, n + 1, has 0..m. *)
(***************************************************************************)
LEMMA LeastNatural ==
    ASSUME NEW S \in SUBSET Nat, S # {}
    PROVE  \E n \in S : \A m \in S : n <= m
<1> DEFINE R == {ss \in Nat \X Nat : ss[1] < ss[2]}
<1>1. IsWellFoundedOn(R, Nat)
  BY NatLessThanWellFounded DEF OpToRel
<1>2. \A m, n \in Nat : <<m, n>> \in R <=> m < n
  OBVIOUS
<1> HIDE DEF R
<1>3. PICK n \in S : \A m \in S : <<m, n>> \notin R
  BY <1>1, WFMin
<1>4. ASSUME NEW m \in S PROVE n <= m
  <2>1. m \in Nat /\ n \in Nat /\ <<m, n>> \notin R
    BY <1>3
  <2>2. ~(m < n)
    BY <1>2, <2>1
  <2>3. QED
    BY <2>1, <2>2
<1>5. QED
  BY <1>4

LEMMA UpTo ==
    ASSUME NEW m \in Nat, NEW S, 0 \in S,
           \A n \in 0..m - 1 : n \in S => n + 1 \in S
    PROVE  0..m \subseteq S
<1> DEFINE Out == {n \in 0..m : n \notin S}
<1>1. SUFFICES ASSUME Out # {} PROVE FALSE
  OBVIOUS
<1>2. PICK n \in Out : \A k \in Out : n <= k
  <2>1. Out \in SUBSET Nat
    OBVIOUS
  <2> HIDE DEF Out
  <2>2. QED
    BY <1>1, <2>1, LeastNatural
<1>3. n # 0 /\ n - 1 \in 0..m - 1 /\ n - 1 \notin Out
  BY <1>2
<1>4. QED
  BY <1>2, <1>3
-----------------------------------------------------------------------------
(***************************************************************************)
(* What a client is owed.                                                  *)
(***************************************************************************)
LEMMA AnswerType ==
    ASSUME NEW c \in Clients, NEW i \in DOMAIN Script[c]
    PROVE  /\ Script[c] \in Seq({"line", "query", "page", "unknown"})
           /\ DOMAIN Script[c] = 1..Len(Script[c]) /\ Len(Script[c]) \in Nat
           /\ <<c, i>> \in Ids
           /\ AnswerPieces(<<c, i>>) \in Seq(Parts) /\ AnswerTo(c, i) \in Seq(Parts)
<1>1. Script[c] \in Seq({"line", "query", "page", "unknown"})
  BY ReactorAssumption
<1>2. DOMAIN Script[c] = 1..Len(Script[c]) /\ Len(Script[c]) \in Nat
  BY <1>1, LenProperties
<1>3. <<c, i>> \in Ids
  BY <1>2 DEF Ids
<1>4. \A k \in 1..2 : [id |-> <<c, i>>, part |-> k] \in Parts
  BY <1>3 DEF Parts
<1>5. AnswerPieces(<<c, i>>) \in Seq(Parts)
  BY <1>4 DEF AnswerPieces
<1>6. AnswerTo(c, i) \in Seq(Parts)
  BY <1>5 DEF AnswerTo
<1>7. QED
  BY <1>1, <1>2, <1>3, <1>5, <1>6

LEMMA OwedEquation ==
    ASSUME NEW c \in Clients
    PROVE  \A n \in 0..Len(Script[c]) :
              Owed(c, n) = IF n = 0 THEN <<>> ELSE Owed(c, n - 1) \o AnswerTo(c, n)
<1> DEFINE L == Len(Script[c])
           Solves(g, m) == g = [i \in 0..m |-> IF i = 0 THEN <<>> ELSE g[i - 1] \o AnswerTo(c, i)]
           S == {m \in Nat : \E g : Solves(g, m)}
<1>1. L \in Nat
  BY ReactorAssumption, LenProperties
<1>2. 0 \in S
  <2>1. Solves([i \in 0..0 |-> <<>>], 0)
    OBVIOUS
  <2>2. QED
    BY <2>1
<1>3. ASSUME NEW m \in 0..L - 1, m \in S PROVE m + 1 \in S
  <2>1. PICK g : Solves(g, m)
    BY <1>3
  <2> DEFINE h == [i \in 0..m + 1 |-> IF i = m + 1 THEN g[m] \o AnswerTo(c, i) ELSE g[i]]
  <2>2. ASSUME NEW i \in 0..m + 1
        PROVE h[i] = IF i = 0 THEN <<>> ELSE h[i - 1] \o AnswerTo(c, i)
    <3>1. CASE i = m + 1
      <4>1. i - 1 = m /\ i # 0 /\ m \in 0..m + 1 /\ m # m + 1
        BY <1>1, <3>1
      <4>2. h[i] = g[m] \o AnswerTo(c, i)
        BY <3>1
      <4>3. h[m] = g[m]
        BY <4>1
      <4>4. QED
        BY <4>1, <4>2, <4>3
    <3>2. CASE i # m + 1
      <4>1. i \in 0..m /\ h[i] = g[i] /\ (i # 0 => i - 1 \in 0..m + 1 /\ i - 1 # m + 1)
        BY <1>1, <3>2
      <4>2. g[i] = IF i = 0 THEN <<>> ELSE g[i - 1] \o AnswerTo(c, i)
        BY <2>1, <4>1
      <4>3. QED
        BY <4>1, <4>2
    <3>3. QED
      BY <3>1, <3>2
  <2>3. Solves(h, m + 1)
    <3>1. h = [i \in 0..m + 1 |-> h[i]]
      OBVIOUS
    <3> HIDE DEF h
    <3>2. QED
      BY <2>2, <3>1
  <2> HIDE DEF h, Solves
  <2>4. m + 1 \in Nat
    BY <1>1
  <2>5. QED
    BY <2>3, <2>4
<1>4. \E g : Solves(g, L)
  <2> HIDE DEF S
  <2>1. 0..L \subseteq S
    BY <1>1, <1>2, <1>3, UpTo
  <2>2. L \in S
    BY <1>1, <2>1
  <2> HIDE DEF Solves
  <2>3. QED
    BY <2>2 DEF S
<1> DEFINE f == CHOOSE g : Solves(g, L)
<1>5. Solves(f, L)
  BY <1>4
<1>6. \A n \in 0..L : Owed(c, n) = f[n]
  BY DEF Owed
<1>7. TAKE n \in 0..L
<1>8. f[n] = IF n = 0 THEN <<>> ELSE f[n - 1] \o AnswerTo(c, n)
  BY <1>5
<1>9. n # 0 => n - 1 \in 0..L
  BY <1>1
<1> HIDE DEF f
<1>10. QED
  BY <1>6, <1>8, <1>9

LEMMA OwedStep ==
    ASSUME NEW c \in Clients, NEW n \in 1..Len(Script[c]), Owed(c, n - 1) \in Seq(Parts)
    PROVE  /\ Owed(c, n) \in Seq(Parts)
           /\ Script[c][n] = "unknown" => Owed(c, n) = Owed(c, n - 1)
           /\ Script[c][n] # "unknown" =>
                 /\ Owed(c, n) = Owed(c, n - 1) \o AnswerPieces(<<c, n>>)
                 /\ Len(Owed(c, n)) = Len(Owed(c, n - 1)) + 2
           /\ Len(Owed(c, n - 1)) <= Len(Owed(c, n))
           /\ \A k \in 1..Len(Owed(c, n - 1)) : Owed(c, n)[k] = Owed(c, n - 1)[k]
<1>1. /\ DOMAIN Script[c] = 1..Len(Script[c]) /\ Len(Script[c]) \in Nat
      /\ AnswerTo(c, n) \in Seq(Parts) /\ AnswerPieces(<<c, n>>) \in Seq(Parts)
  <2>1. DOMAIN Script[c] = 1..Len(Script[c])
    BY ReactorAssumption, LenProperties
  <2>2. QED
    BY <2>1, AnswerType
<1>2. Owed(c, n) = Owed(c, n - 1) \o AnswerTo(c, n)
  BY <1>1, OwedEquation
<1>3. /\ Owed(c, n) \in Seq(Parts)
      /\ Len(Owed(c, n)) = Len(Owed(c, n - 1)) + Len(AnswerTo(c, n))
      /\ \A k \in 1..Len(Owed(c, n - 1)) + Len(AnswerTo(c, n)) :
            Owed(c, n)[k] = IF k <= Len(Owed(c, n - 1)) THEN Owed(c, n - 1)[k]
                            ELSE AnswerTo(c, n)[k - Len(Owed(c, n - 1))]
  BY <1>1, <1>2, ConcatProperties
<1>4. Len(Owed(c, n - 1)) \in Nat /\ Len(AnswerTo(c, n)) \in Nat
  BY <1>1, LenProperties
<1>5. /\ Len(Owed(c, n - 1)) <= Len(Owed(c, n))
      /\ \A k \in 1..Len(Owed(c, n - 1)) : Owed(c, n)[k] = Owed(c, n - 1)[k]
  BY <1>3, <1>4
<1>6. Script[c][n] = "unknown" => Owed(c, n) = Owed(c, n - 1)
  BY <1>2, ConcatEmptySeq DEF AnswerTo
<1>7. ASSUME Script[c][n] # "unknown"
      PROVE  /\ Owed(c, n) = Owed(c, n - 1) \o AnswerPieces(<<c, n>>)
             /\ Len(Owed(c, n)) = Len(Owed(c, n - 1)) + 2
  <2>1. AnswerTo(c, n) = AnswerPieces(<<c, n>>)
    BY <1>7 DEF AnswerTo
  <2>2. Len(AnswerTo(c, n)) = 2
    BY <2>1 DEF AnswerPieces
  <2>3. QED
    BY <1>2, <1>3, <2>1, <2>2
<1>8. QED
  BY <1>3, <1>5, <1>6, <1>7

LEMMA OwedType ==
    ASSUME NEW c \in Clients, NEW n \in 0..Len(Script[c])
    PROVE  Owed(c, n) \in Seq(Parts)
<1> DEFINE L == Len(Script[c])
           S == {i \in Nat : i <= L => Owed(c, i) \in Seq(Parts)}
<1>1. L \in Nat
  BY ReactorAssumption, LenProperties
<1>2. 0 \in S
  <2>1. Owed(c, 0) = <<>>
    BY <1>1, OwedEquation
  <2>2. <<>> \in Seq(Parts)
    BY EmptySeq
  <2>3. Owed(c, 0) \in Seq(Parts)
    BY <2>1, <2>2
  <2>4. QED
    BY <2>3
<1>3. ASSUME NEW i \in 0..L - 1, i \in S PROVE i + 1 \in S
  <2>1. Owed(c, i) \in Seq(Parts) /\ i + 1 \in 1..L /\ (i + 1) - 1 = i
    BY <1>1, <1>3
  <2>2. Owed(c, i + 1) \in Seq(Parts)
    BY <2>1, OwedStep
  <2>3. QED
    BY <1>1, <2>2
<1>4. 0..L \subseteq S
  <2> HIDE DEF S
  <2>1. QED
    BY <1>1, <1>2, <1>3, UpTo
<1>5. QED
  BY <1>1, <1>4

(* What is owed for fewer requests is the beginning of what is owed for    *)
(* more.                                                                   *)
LEMMA OwedGrows ==
    ASSUME NEW c \in Clients, NEW i \in 0..Len(Script[c]), NEW j \in i..Len(Script[c])
    PROVE  /\ Len(Owed(c, i)) \in Nat /\ Len(Owed(c, j)) \in Nat
           /\ Len(Owed(c, i)) <= Len(Owed(c, j))
           /\ \A k \in 1..Len(Owed(c, i)) : Owed(c, j)[k] = Owed(c, i)[k]
<1> DEFINE L == Len(Script[c])
           Grows(n) == /\ Len(Owed(c, i)) <= Len(Owed(c, n))
                       /\ \A k \in 1..Len(Owed(c, i)) : Owed(c, n)[k] = Owed(c, i)[k]
           S == {d \in Nat : i + d <= L => Grows(i + d)}
<1>1. L \in Nat /\ i \in Nat /\ L - i \in Nat
  BY ReactorAssumption, LenProperties
<1>2. \A n \in 0..L : Len(Owed(c, n)) \in Nat
  BY OwedType, LenProperties
<1>3. 0 \in S
  BY <1>1, <1>2
<1>4. ASSUME NEW d \in 0..(L - i) - 1, d \in S PROVE d + 1 \in S
  <2>1. /\ Grows(i + d) /\ i + d \in 0..L /\ i + (d + 1) \in 1..L
        /\ (i + (d + 1)) - 1 = i + d
    BY <1>1, <1>4
  <2>2. /\ Len(Owed(c, i + d)) <= Len(Owed(c, i + (d + 1)))
        /\ \A k \in 1..Len(Owed(c, i + d)) : Owed(c, i + (d + 1))[k] = Owed(c, i + d)[k]
    <3>1. PICK n \in 1..L : n = i + (d + 1) /\ n - 1 = i + d
      BY <2>1
    <3>2. Owed(c, n - 1) \in Seq(Parts)
      BY <2>1, <3>1, OwedType
    <3>3. /\ Len(Owed(c, n - 1)) <= Len(Owed(c, n))
          /\ \A k \in 1..Len(Owed(c, n - 1)) : Owed(c, n)[k] = Owed(c, n - 1)[k]
      BY <3>2, OwedStep
    <3>4. QED
      BY <3>1, <3>3
  <2>3. Grows(i + (d + 1))
    <3>1. Len(Owed(c, i)) \in Nat /\ Len(Owed(c, i + d)) \in Nat
          /\ Len(Owed(c, i + (d + 1))) \in Nat
      BY <1>1, <1>2, <2>1
    <3>2. QED
      BY <2>1, <2>2, <3>1
  <2> HIDE DEF Grows
  <2>4. QED
    BY <1>1, <2>3
<1>5. 0..L - i \subseteq S
  <2> HIDE DEF S
  <2>1. QED
    BY <1>1, <1>3, <1>4, UpTo
<1>6. Grows(j)
  <2>0. j - i \in 0..L - i /\ j - i \in Nat /\ i + (j - i) = j /\ j <= L
    BY <1>1
  <2>1. j - i \in S
    BY <1>5, <2>0
  <2> HIDE DEF Grows
  <2>2. QED
    BY <2>0, <2>1
<1>7. QED
  BY <1>1, <1>2, <1>6

LEMMA OwedSame ==
    ASSUME NEW c \in Clients, NEW i \in 0..Len(Script[c]), NEW j \in i..Len(Script[c]),
           Len(Owed(c, i)) = Len(Owed(c, j))
    PROVE  Owed(c, i) = Owed(c, j)
<1>1. i \in 0..Len(Script[c]) /\ j \in 0..Len(Script[c])
  BY ReactorAssumption, LenProperties
<1>2. Owed(c, i) \in Seq(Parts) /\ Owed(c, j) \in Seq(Parts)
  BY <1>1, OwedType
<1>3. QED
  BY <1>2, OwedGrows, SeqEqual
-----------------------------------------------------------------------------
(***************************************************************************)
(* The lines of a buffer.                                                  *)
(***************************************************************************)
LEMMA LinesStep ==
    ASSUME NEW buf
    PROVE  /\ LinesIn(buf, 0) = 0
           /\ \A i \in Nat : /\ LinesIn(buf, i) \in Nat
                             /\ LinesIn(buf, i + 1) = IF buf[i + 1].last
                                   THEN LinesIn(buf, i) + 1 ELSE LinesIn(buf, i)
<1> DEFINE E(i) == {j \in 1..i : buf[j].last}
<1>1. LinesIn(buf, 0) = 0
  <2>1. E(0) = {}
    OBVIOUS
  <2>2. QED
    BY <2>1, FS_EmptySet DEF LinesIn
<1>2. ASSUME NEW i \in Nat
      PROVE  /\ LinesIn(buf, i) \in Nat
             /\ LinesIn(buf, i + 1) = IF buf[i + 1].last
                                        THEN LinesIn(buf, i) + 1 ELSE LinesIn(buf, i)
  <2>1. IsFiniteSet(E(i)) /\ i + 1 \notin E(i)
    <3>1. IsFiniteSet(1..i) /\ E(i) \subseteq 1..i
      BY FS_Interval
    <3>2. QED
      BY <3>1, FS_Subset
  <2>2. E(i + 1) = IF buf[i + 1].last THEN E(i) \cup {i + 1} ELSE E(i)
    OBVIOUS
  <2>3. /\ Cardinality(E(i)) \in Nat
        /\ Cardinality(E(i) \cup {i + 1}) = Cardinality(E(i)) + 1
    <3> HIDE DEF E
    <3>1. QED
      BY <2>1, FS_CardinalityType, FS_AddElement
  <2>4. QED
    BY <2>2, <2>3 DEF LinesIn
<1>3. QED
  BY <1>1, <1>2

(* The first piece by which k lines have ended is the end of the k-th.     *)
LEMMA LineEndType ==
    ASSUME NEW buf, Len(buf) \in Nat, DOMAIN buf = 1..Len(buf),
           NEW k \in 1..LinesIn(buf, Len(buf))
    PROVE  LineEnd(buf, k) \in DOMAIN buf
<1> DEFINE S == {i \in 0..Len(buf) : LinesIn(buf, i) >= k}
<1>1. PICK i \in S : \A j \in S : i <= j
  <2>1. Len(buf) \in S /\ S \in SUBSET Nat
    BY LinesStep
  <2> HIDE DEF S
  <2>2. QED
    BY <2>1, LeastNatural
<1>2. i \in 1..Len(buf)
  <2>1. LinesIn(buf, i) >= k /\ k >= 1 /\ LinesIn(buf, 0) = 0
    BY <1>1, LinesStep
  <2>2. i # 0
    BY <2>1
  <2>3. QED
    BY <1>1, <2>2
<1>3. LinesIn(buf, i - 1) < k /\ LinesIn(buf, i - 1) \in Nat /\ (i - 1) + 1 = i
  <2>1. i - 1 \in 0..Len(buf) /\ i - 1 \in Nat /\ ~(i <= i - 1) /\ (i - 1) + 1 = i
    BY <1>2
  <2>2. LinesIn(buf, i - 1) \in Nat
    BY <2>1, LinesStep
  <2>3. ~(LinesIn(buf, i - 1) >= k)
    BY <1>1, <2>1
  <2>4. QED
    BY <2>1, <2>2, <2>3
<1>4. buf[i].last /\ LinesIn(buf, i) = k
  <2>1. LinesIn(buf, i) = IF buf[i].last THEN LinesIn(buf, i - 1) + 1
                          ELSE LinesIn(buf, i - 1)
    <3>1. PICK n \in Nat : n = i - 1 /\ n + 1 = i
      BY <1>2
    <3>2. LinesIn(buf, n + 1) = IF buf[n + 1].last THEN LinesIn(buf, n) + 1 ELSE LinesIn(buf, n)
      BY LinesStep
    <3>3. QED
      BY <3>1, <3>2
  <2>2. LinesIn(buf, i) >= k
    BY <1>1
  <2>3. buf[i].last
    BY <1>3, <2>1, <2>2
  <2>4. LinesIn(buf, i) = k
    BY <1>3, <2>1, <2>2, <2>3
  <2>5. QED
    BY <2>3, <2>4
<1>5. k # 0
  BY LinesStep
<1>6. QED
  BY <1>2, <1>4, <1>5 DEF LineEnd
-----------------------------------------------------------------------------
(***************************************************************************)
(* Types.                                                                  *)
(***************************************************************************)
LEMMA PieceType ==
    ASSUME NEW c \in Clients, NEW k \in Nat, k < NumPieces(c)
    PROVE  Piece(c, k + 1) \in Pieces
<1>1. Script[c] \in Seq({"line", "query", "page", "unknown"}) /\ Len(Script[c]) \in Nat
  BY ReactorAssumption, LenProperties
<1> DEFINE i == (k + 1 + 1) \div 2
<1>2. i \in 1..Len(Script[c])
  BY <1>1 DEF NumPieces
<1>3. <<c, i>> \in Ids
  BY <1>1, <1>2 DEF Ids
<1>4. Script[c][i] \in {"line", "query", "page", "unknown"}
  BY <1>1, <1>2, ElementOfSeq
<1> HIDE DEF i
<1>5. ((k + 1) % 2 = 0) \in BOOLEAN
  OBVIOUS
<1>6. QED
  BY <1>3, <1>4, <1>5 DEF Piece, Pieces, i

LEMMA PartialType ==
    ASSUME NEW S, NEW s \in Seq(S), NEW n \in 1..Len(s)
    PROVE  /\ Len(s) \in Nat
           /\ SubSeq(s, 1, n) \in Seq(S) /\ Len(SubSeq(s, 1, n)) = n
           /\ SubSeq(s, n + 1, Len(s)) \in Seq(S)
<1>1. Len(s) \in Nat /\ \A i \in 1..Len(s) : s[i] \in S
  BY LenProperties, ElementOfSeq
<1>2. SubSeq(s, 1, n) \in Seq(S) /\ Len(SubSeq(s, 1, n)) = n
  <2>1. \A i \in 1..n : s[i] \in S
    BY <1>1
  <2>2. /\ SubSeq(s, 1, n) \in Seq(S)
        /\ Len(SubSeq(s, 1, n)) = IF 1 <= n THEN n - 1 + 1 ELSE 0
    BY <2>1, SubSeqProperties
  <2>3. QED
    BY <2>2
<1>3. SubSeq(s, n + 1, Len(s)) \in Seq(S)
  <2>1. \A i \in n + 1..Len(s) : s[i] \in S
    BY <1>1
  <2>2. QED
    BY <1>1, <2>1, SubSeqProperties
<1>4. QED
  BY <1>1, <1>2, <1>3

LEMMA RemoveType ==
    ASSUME NEW S, NEW s \in Seq(S), NEW i \in DOMAIN s
    PROVE  /\ RemoveAt(s, i) \in Seq(S) /\ s[i] \in S
           /\ Len(s) \in Nat /\ i \in 1..Len(s) /\ Len(RemoveAt(s, i)) = Len(s) - 1
           /\ \A j \in 1..Len(s) - 1 :
                 RemoveAt(s, i)[j] = IF j < i THEN s[j] ELSE s[j + 1]
<1>1. Len(s) \in Nat /\ i \in 1..Len(s) /\ \A j \in 1..Len(s) : s[j] \in S
  BY LenProperties, ElementOfSeq
<1> DEFINE left == SubSeq(s, 1, i - 1)
           right == SubSeq(s, i + 1, Len(s))
<1>2. /\ left \in Seq(S) /\ Len(left) = i - 1
      /\ \A j \in 1..i - 1 : left[j] = s[j]
  <2>1. \A j \in 1..i - 1 : s[j] \in S
    BY <1>1
  <2>2. 1 \in Int /\ i - 1 \in Int /\ i - 1 - 1 + 1 = i - 1
    BY <1>1
  <2>3. /\ left \in Seq(S)
        /\ Len(left) = IF 1 <= i - 1 THEN i - 1 - 1 + 1 ELSE 0
        /\ \A j \in 1..i - 1 - 1 + 1 : left[j] = s[1 + j - 1]
    BY <2>1, <2>2, SubSeqProperties
  <2> HIDE DEF left
  <2>4. QED
    BY <1>1, <2>2, <2>3
<1>3. /\ right \in Seq(S) /\ Len(right) = Len(s) - i
      /\ \A j \in 1..Len(s) - i : right[j] = s[i + j]
  <2>1. \A j \in i + 1..Len(s) : s[j] \in S
    BY <1>1
  <2>2. i + 1 \in Int /\ Len(s) \in Int /\ Len(s) - (i + 1) + 1 = Len(s) - i
    BY <1>1
  <2>3. /\ right \in Seq(S)
        /\ Len(right) = IF i + 1 <= Len(s) THEN Len(s) - (i + 1) + 1 ELSE 0
        /\ \A j \in 1..Len(s) - (i + 1) + 1 : right[j] = s[i + 1 + j - 1]
    BY <2>1, <2>2, SubSeqProperties
  <2> HIDE DEF right
  <2>4. Len(right) = Len(s) - i
    BY <1>1, <2>2, <2>3
  <2>5. \A j \in 1..Len(s) - i : i + 1 + j - 1 = i + j
    BY <1>1
  <2>6. QED
    BY <2>2, <2>3, <2>4, <2>5
<1> HIDE DEF left, right
<1>4. RemoveAt(s, i) = left \o right
  BY DEF RemoveAt, left, right
<1>5. /\ left \o right \in Seq(S) /\ Len(left \o right) = Len(left) + Len(right)
      /\ \A j \in 1..Len(left) + Len(right) :
            (left \o right)[j] = IF j <= Len(left) THEN left[j] ELSE right[j - Len(left)]
  BY <1>2, <1>3, ConcatProperties
<1>6. Len(left) + Len(right) = Len(s) - 1
  BY <1>1, <1>2, <1>3
<1>7. ASSUME NEW j \in 1..Len(s) - 1
      PROVE  (left \o right)[j] = IF j < i THEN s[j] ELSE s[j + 1]
  <2>1. CASE j < i
    <3>1. j <= Len(left) /\ j \in 1..i - 1
      BY <1>1, <1>2, <2>1
    <3>2. QED
      BY <1>2, <1>5, <1>6, <2>1, <3>1
  <2>2. CASE ~(j < i)
    <3>1. /\ ~(j <= Len(left)) /\ j - Len(left) \in 1..Len(s) - i
          /\ i + (j - Len(left)) = j + 1
      BY <1>1, <1>2, <2>2
    <3>2. QED
      BY <1>3, <1>5, <1>6, <2>2, <3>1
  <2>3. QED
    BY <2>1, <2>2
<1>8. QED
  BY <1>1, <1>4, <1>5, <1>6, <1>7

(* What handleRead takes out of a buffer.                                  *)
LEMMA LinesType ==
    ASSUME NEW c \in Clients, NEW buf \in Seq(Pieces)
    PROVE  /\ LinesIn(buf, Len(buf)) \in Nat
           /\ \A k \in 1..LinesIn(buf, Len(buf)) : LineAnswer(c, buf, k) \in Ids
           /\ AfterLines(buf) \in Seq(Pieces)
<1>1. /\ Len(buf) \in Nat /\ DOMAIN buf = 1..Len(buf)
      /\ \A i \in 1..Len(buf) : buf[i] \in Pieces
  BY LenProperties, ElementOfSeq
<1>2. LinesIn(buf, Len(buf)) \in Nat
  BY <1>1, LinesStep
<1>3. \A k \in 1..LinesIn(buf, Len(buf)) : LineEnd(buf, k) \in 1..Len(buf)
  BY <1>1, LineEndType
<1>4. ASSUME NEW k \in 1..LinesIn(buf, Len(buf)) PROVE LineAnswer(c, buf, k) \in Ids
  <2>1. buf[LineEnd(buf, k)].id \in Ids
    BY <1>1, <1>3 DEF Pieces
  <2>2. Garbage(c) \in Ids
    <3>1. Len(Script[c]) \in Nat
      BY ReactorAssumption, LenProperties
    <3>2. QED
      BY <3>1 DEF Garbage, Ids
  <2>3. LineAnswer(c, buf, k) \in {buf[LineEnd(buf, k)].id, Garbage(c)}
    BY DEF LineAnswer
  <2>4. QED
    BY <2>1, <2>2, <2>3
<1>5. LineEnd(buf, LinesIn(buf, Len(buf))) \in Nat
  <2>1. CASE LinesIn(buf, Len(buf)) = 0
    BY <2>1 DEF LineEnd
  <2>2. CASE LinesIn(buf, Len(buf)) # 0
    BY <1>1, <1>2, <1>3, <2>2
  <2>3. QED
    BY <2>1, <2>2
<1>6. AfterLines(buf) \in Seq(Pieces)
  <2> DEFINE e == LineEnd(buf, LinesIn(buf, Len(buf)))
  <2>1. \A i \in e + 1..Len(buf) : buf[i] \in Pieces
    BY <1>1, <1>5
  <2>2. e + 1 \in Int /\ Len(buf) \in Int
    BY <1>1, <1>5
  <2>3. QED
    BY <2>1, <2>2, SubSeqProperties DEF AfterLines
<1>7. QED
  BY <1>2, <1>4, <1>6

Handlers == [in_buffer : Seq(Pieces), is_http : BOOLEAN, http_parsed : BOOLEAN,
             out_buffer : Seq(Parts)]

LEMMA AnswerPiecesType == \A id \in Ids : AnswerPieces(id) \in Seq(Parts)
<1>1. TAKE id \in Ids
<1>2. \A k \in 1..2 : [id |-> id, part |-> k] \in Parts
  BY DEF Parts
<1>3. QED
  BY <1>2 DEF AnswerPieces

LEMMA InitTyped == Init => TypeOK
<1>1. SUFFICES ASSUME Init PROVE TypeOK
  OBVIOUS
<1>2. \A c \in Clients : Len(Script[c]) \in Nat
  BY ReactorAssumption, LenProperties
<1>3. sent \in [Clients -> Nat] /\ \A c \in Clients : sent[c] <= NumPieces(c)
  BY <1>1, <1>2 DEF Init, NumPieces
<1>4. /\ <<>> \in Seq(Pieces) /\ <<>> \in Seq(Parts) /\ <<>> \in Seq(Messages)
  BY EmptySeq
<1>5. NewHandler \in Handlers
  BY <1>4 DEF NewHandler, Handlers
<1>6. hnd \in [Clients -> Handlers]
  BY <1>1, <1>5 DEF Init
<1>7. fd \in [Clients -> 0..NumFds] /\ fd_to_handler \in [Fds -> Clients \cup {None}]
  BY <1>1, ReactorAssumption DEF Init
<1>8. QED
  BY <1>1, <1>3, <1>4, <1>6, <1>7 DEF Init, TypeOK, Handlers

LEMMA ClientTyped ==
    ASSUME TypeOK, NEW c \in Clients, ClientStep(c)
    PROVE  TypeOK'
<1>1. CASE Connect(c)
  BY <1>1 DEF Connect, TypeOK, sockVars, loopVars
<1>2. CASE SendPiece(c)
  <2>1. sent[c] \in Nat /\ NumPieces(c) \in Nat /\ wire[c] \in Seq(Pieces)
    <3>1. Len(Script[c]) \in Nat
      BY ReactorAssumption, LenProperties
    <3>2. QED
      BY <3>1 DEF TypeOK, NumPieces
  <2>2. Piece(c, sent[c] + 1) \in Pieces
    BY <1>2, <2>1, PieceType DEF SendPiece
  <2>3. Append(wire[c], Piece(c, sent[c] + 1)) \in Seq(Pieces)
    BY <2>1, <2>2, AppendProperties
  <2>4. wire' \in [Clients -> Seq(Pieces)]
    BY <1>2, <2>3 DEF SendPiece, TypeOK
  <2>5. sent[c] + 1 \in Nat /\ sent[c] + 1 <= NumPieces(c)
    BY <1>2, <2>1 DEF SendPiece
  <2>6. sent' \in [Clients -> Nat] /\ \A d \in Clients : sent'[d] <= NumPieces(d)
    BY <1>2, <2>5 DEF SendPiece, TypeOK
  <2>7. QED
    BY <1>2, <2>4, <2>6 DEF SendPiece, TypeOK, sockVars, loopVars
<1>3. CASE Finish(c)
  BY <1>3 DEF Finish, TypeOK, sockVars, loopVars
<1>4. CASE Reset(c)
  <2>1. <<>> \in Seq(Pieces)
    BY EmptySeq
  <2>2. wire' \in [Clients -> Seq(Pieces)]
    BY <1>4, <2>1 DEF Reset, TypeOK
  <2>3. QED
    BY <1>4, <2>2 DEF Reset, TypeOK, sockVars, loopVars
<1>5. QED
  BY <1>1, <1>2, <1>3, <1>4 DEF ClientStep

LEMMA AcceptorTyped ==
    ASSUME TypeOK, AcceptorStep
    PROVE  TypeOK'
<1>1. ASSUME NEW c \in Clients, Accept(c) PROVE TypeOK'
  <2>1. PICK f \in Fds :
           /\ fd' = [fd EXCEPT ![c] = f]
           /\ fd_to_handler' = [fd_to_handler EXCEPT ![f] = c]
    BY <1>1 DEF Accept
  <2>2. f \in 0..NumFds
    BY <2>1, ReactorAssumption DEF Fds
  <2>3. QED
    BY <1>1, <2>1, <2>2 DEF Accept, TypeOK, clientVars, loopVars
<1>2. CASE EpollAdd
  BY <1>2 DEF EpollAdd, TypeOK, clientVars, loopVars
<1>3. QED
  BY <1>1, <1>2 DEF AcceptorStep

LEMMA EventDoneTyped ==
    ASSUME TypeOK, NEW ev, EventDone(ev)
    PROVE  /\ events' \in [Clients -> SUBSET {"in", "out", "hup"}]
           /\ loopPc' \in {"wait", "batch", "read", "write", "close"}
           /\ cur' = cur /\ up' = up
BY DEF EventDone, TypeOK, Phase

LEMMA CloseTyped ==
    ASSUME TypeOK, NEW c \in Clients, NEW more \in BOOLEAN, HandleClose(c, more),
           UNCHANGED <<clientVars, wire, pool, mailbox>>
    PROVE  TypeOK'
<1>1. <<>> \in Seq(Pieces) /\ <<>> \in Seq(Parts)
  BY EmptySeq
<1>2. NewHandler \in Handlers
  BY <1>1 DEF NewHandler, Handlers
<1>3. hnd' \in [Clients -> Handlers]
  BY <1>2 DEF HandleClose, TypeOK, Handlers
<1>4. /\ fd' \in [Clients -> 0..NumFds]
      /\ fd_to_handler' \in [Fds -> Clients \cup {None}]
  <2>1. /\ fd \in [Clients -> 0..NumFds] /\ fd' = [fd EXCEPT ![c] = 0]
        /\ 0 \in 0..NumFds
    BY ReactorAssumption DEF HandleClose, TypeOK
  <2>2. /\ fd_to_handler \in [Fds -> Clients \cup {None}]
        /\ fd_to_handler' = [fd_to_handler EXCEPT ![fd[c]] = None]
    BY DEF HandleClose, TypeOK
  <2>3. fd' \in [Clients -> 0..NumFds]
    BY <2>1
  <2>4. fd_to_handler' \in [Fds -> Clients \cup {None}]
    BY <2>2
  <2>5. QED
    BY <2>3, <2>4
<1>5. QED
  BY <1>3, <1>4 DEF HandleClose, TypeOK, Handlers, clientVars

LEMMA RecvTyped ==
    ASSUME IInv, TypeOK, Recv
    PROVE  TypeOK'
<1>1. cur \in Clients /\ fd[cur] \in Fds
  BY CurIsLive DEF Recv, Phases
<1>2. /\ wire[cur] \in Seq(Pieces) /\ hnd[cur] \in Handlers
      /\ hnd[cur].in_buffer \in Seq(Pieces)
  BY <1>1 DEF TypeOK, Handlers
<1>3. PICK n \in 1..Len(wire[cur]) :
        LET buf == hnd[cur].in_buffer \o SubSeq(wire[cur], 1, n)
        IN  /\ wire' = [wire EXCEPT ![cur] = SubSeq(@, n + 1, Len(@))]
            /\ \/ HttpRequest(cur, buf) \/ HttpWait(cur, buf)
               \/ HttpBusy(cur, buf) \/ Lines(cur, buf)
  BY DEF Recv
<1> DEFINE buf == hnd[cur].in_buffer \o SubSeq(wire[cur], 1, n)
<1>4. /\ buf \in Seq(Pieces) /\ Len(buf) \in Nat /\ Len(buf) >= 1
      /\ SubSeq(wire[cur], n + 1, Len(wire[cur])) \in Seq(Pieces)
  <2>1. /\ SubSeq(wire[cur], 1, n) \in Seq(Pieces) /\ Len(SubSeq(wire[cur], 1, n)) = n
        /\ SubSeq(wire[cur], n + 1, Len(wire[cur])) \in Seq(Pieces)
    BY <1>2, PartialType
  <2>2. buf \in Seq(Pieces) /\ Len(buf) = Len(hnd[cur].in_buffer) + n
    BY <1>2, <2>1, ConcatProperties
  <2>3. Len(hnd[cur].in_buffer) \in Nat
    BY <1>2, LenProperties
  <2>4. QED
    BY <2>1, <2>2, <2>3
<1>5. wire' \in [Clients -> Seq(Pieces)]
  BY <1>3, <1>4 DEF TypeOK
<1>6. /\ \/ HttpRequest(cur, buf) \/ HttpWait(cur, buf)
         \/ HttpBusy(cur, buf) \/ Lines(cur, buf)
      /\ UNCHANGED <<clientVars, sockVars, mask>>
  BY <1>3 DEF Recv
<1> HIDE DEF buf
<1>7. buf[1].id \in Ids
  <2>1. 1 \in 1..Len(buf)
    BY <1>4
  <2>2. buf[1] \in Pieces
    BY <1>4, <2>1, ElementOfSeq
  <2>3. QED
    BY <2>2 DEF Pieces
<1>8. hnd' \in [Clients -> Handlers] /\ pool' \in Seq(Messages) /\ mailbox' \in Seq(Messages)
  <2>0. <<>> \in Seq(Pieces) /\ pool \in Seq(Messages) /\ mailbox \in Seq(Messages)
    BY EmptySeq DEF TypeOK
  <2>1. CASE HttpRequest(cur, buf)
    <3>1. hnd' \in [Clients -> Handlers]
      BY <1>1, <1>2, <2>0, <2>1 DEF HttpRequest, TypeOK, Handlers
    <3>2. [fd |-> fd[cur], id |-> buf[1].id] \in Messages
      BY <1>1, <1>7 DEF Messages
    <3>3. /\ Append(pool, [fd |-> fd[cur], id |-> buf[1].id]) \in Seq(Messages)
          /\ Append(mailbox, [fd |-> fd[cur], id |-> buf[1].id]) \in Seq(Messages)
      BY <2>0, <3>2, AppendProperties
    <3>4. QED
      BY <2>0, <2>1, <3>1, <3>3 DEF HttpRequest
  <2>2. CASE HttpWait(cur, buf)
    <3>1. (hnd[cur].is_http \/ Complete(buf)) \in BOOLEAN
      BY <1>2 DEF Handlers
    <3>2. hnd' = [hnd EXCEPT ![cur].is_http = (hnd[cur].is_http \/ Complete(buf)),
                             ![cur].in_buffer = buf]
      BY <2>2 DEF HttpWait
    <3>3. hnd' \in [Clients -> Handlers]
      BY <1>1, <1>2, <1>4, <3>1, <3>2 DEF TypeOK, Handlers
    <3>4. QED
      BY <2>0, <2>2, <3>3 DEF HttpWait
  <2>3. CASE HttpBusy(cur, buf)
    BY <1>1, <1>2, <1>4, <2>0, <2>3 DEF HttpBusy, TypeOK, Handlers
  <2>4. CASE Lines(cur, buf)
    <3>1. hnd' \in [Clients -> Handlers]
      BY <1>1, <1>2, <1>4, <2>4, LinesType DEF Lines, TypeOK, Handlers
    <3> DEFINE new == [k \in 1..LinesIn(buf, Len(buf)) |->
                         [fd |-> fd[cur], id |-> LineAnswer(cur, buf, k)]]
    <3>2. \A k \in 1..LinesIn(buf, Len(buf)) :
             [fd |-> fd[cur], id |-> LineAnswer(cur, buf, k)] \in Messages
      BY <1>1, <1>4, LinesType DEF Messages
    <3>3. new \in Seq(Messages)
      BY <1>1, <1>4, <3>2, LinesType
    <3>4. pool' = pool \o new /\ mailbox' = mailbox
      BY <2>4 DEF Lines
    <3> HIDE DEF new
    <3>5. pool \o new \in Seq(Messages)
      BY <2>0, <3>3, ConcatProperties
    <3>6. QED
      BY <2>0, <3>1, <3>4, <3>5
  <2>5. QED
    BY <1>6, <2>1, <2>2, <2>3, <2>4
<1>9. /\ events' \in [Clients -> SUBSET {"in", "out", "hup"}]
      /\ loopPc' \in {"wait", "batch", "read", "write", "close"}
      /\ cur' = cur /\ up' = up
  <2>1. EventDone("in") \/ UNCHANGED <<loopVars, up>>
    BY <1>6 DEF HttpRequest, HttpWait, HttpBusy, Lines
  <2>2. CASE EventDone("in")
    BY <2>2, EventDoneTyped
  <2>3. CASE UNCHANGED <<loopVars, up>>
    BY <2>3 DEF loopVars, TypeOK
  <2>4. QED
    BY <2>1, <2>2, <2>3
<1>10. QED
  BY <1>5, <1>6, <1>8, <1>9 DEF TypeOK, Handlers, clientVars, sockVars

LEMMA HandleWriteTyped ==
    ASSUME IInv, TypeOK, HandleWrite
    PROVE  TypeOK'
<1>1. cur \in Clients
  BY CurIsLive DEF HandleWrite, Phases
<1>2. /\ hnd[cur] \in Handlers /\ hnd[cur].out_buffer \in Seq(Parts)
      /\ got[cur] \in Seq(Parts) /\ <<>> \in Seq(Pieces)
  BY <1>1, EmptySeq DEF TypeOK, Handlers
<1> DEFINE out == hnd[cur].out_buffer
<1>3. PICK n \in 1..Len(out) :
        /\ hnd' = [hnd EXCEPT
             ![cur].out_buffer = SubSeq(out, n + 1, Len(out)),
             ![cur].http_parsed = IF n = Len(out) /\ hnd[cur].is_http THEN FALSE ELSE @,
             ![cur].in_buffer = IF n = Len(out) /\ hnd[cur].is_http THEN <<>> ELSE @]
        /\ mask' = IF n = Len(out) THEN [mask EXCEPT ![cur] = {"in"}] ELSE mask
        /\ IF peer[cur] = "open"
             THEN /\ got' = [got EXCEPT ![cur] = @ \o SubSeq(out, 1, n)]
                  /\ UNCHANGED <<peer, wire>>
             ELSE /\ peer' = [peer EXCEPT ![cur] = "reset"]
                  /\ wire' = [wire EXCEPT ![cur] = <<>>]
                  /\ UNCHANGED got
  BY DEF HandleWrite
<1>4. /\ SubSeq(out, 1, n) \in Seq(Parts)
      /\ SubSeq(out, n + 1, Len(out)) \in Seq(Parts)
  BY <1>2, PartialType
<1>5. got[cur] \o SubSeq(out, 1, n) \in Seq(Parts)
  BY <1>2, <1>4, ConcatProperties
<1>6. hnd' \in [Clients -> Handlers]
  BY <1>1, <1>2, <1>3, <1>4 DEF TypeOK, Handlers
<1>7. /\ peer' \in [Clients -> {"new", "open", "fin", "reset"}]
      /\ wire' \in [Clients -> Seq(Pieces)] /\ got' \in [Clients -> Seq(Parts)]
      /\ mask' \in [Clients -> {{}, {"in"}, {"in", "out"}}]
  <2>0. /\ peer \in [Clients -> {"new", "open", "fin", "reset"}]
        /\ wire \in [Clients -> Seq(Pieces)] /\ got \in [Clients -> Seq(Parts)]
        /\ mask \in [Clients -> {{}, {"in"}, {"in", "out"}}]
    BY DEF TypeOK
  <2>1. mask' \in [Clients -> {{}, {"in"}, {"in", "out"}}]
    <3>1. mask' = mask \/ mask' = [mask EXCEPT ![cur] = {"in"}]
      BY <1>3
    <3>2. QED
      BY <2>0, <3>1
  <2>2. \/ got' = [got EXCEPT ![cur] = got[cur] \o SubSeq(out, 1, n)] /\ UNCHANGED <<peer, wire>>
        \/ /\ peer' = [peer EXCEPT ![cur] = "reset"]
           /\ wire' = [wire EXCEPT ![cur] = <<>>]
           /\ got' = got
    BY <1>3
  <2> HIDE DEF out
  <2>3. got' \in [Clients -> Seq(Parts)]
    BY <1>1, <1>5, <2>0, <2>2
  <2>4. wire' \in [Clients -> Seq(Pieces)]
    BY <1>1, <1>2, <2>0, <2>2
  <2>5. peer' \in [Clients -> {"new", "open", "fin", "reset"}]
    BY <1>1, <2>0, <2>2
  <2>6. QED
    BY <2>1, <2>3, <2>4, <2>5
<1>8. EventDone("out") /\ UNCHANGED <<sent, sockVars, pool, mailbox>>
  BY DEF HandleWrite
<1>9. /\ events' \in [Clients -> SUBSET {"in", "out", "hup"}]
      /\ loopPc' \in {"wait", "batch", "read", "write", "close"}
      /\ cur' = cur /\ up' = up
  BY <1>8, EventDoneTyped
<1>10. QED
  BY <1>6, <1>7, <1>8, <1>9 DEF TypeOK, Handlers, sockVars

LEMMA DeliverTyped ==
    ASSUME TypeOK, Deliver
    PROVE  TypeOK'
<1>1. mailbox \in Seq(Messages) /\ mailbox # <<>>
  BY DEF Deliver, TypeOK
<1>2. Head(mailbox) \in Messages /\ Tail(mailbox) \in Seq(Messages)
  BY <1>1, HeadTailProperties
<1> DEFINE m == Head(mailbox)
           h == fd_to_handler[m.fd]
<1>3. m.id \in Ids /\ h \in Clients \cup {None}
  BY <1>2 DEF Messages, TypeOK
<1>4. AnswerPieces(m.id) \in Seq(Parts)
  BY <1>3, AnswerPiecesType
<1>5. /\ \/ UNCHANGED <<hnd, mask>>
         \/ /\ h # None
            /\ hnd' = [hnd EXCEPT ![h].out_buffer = AnswerPieces(m.id)]
            /\ mask' = mask \/ mask' = [mask EXCEPT ![h] = {"in", "out"}]
      /\ mailbox' = Tail(mailbox)
      /\ UNCHANGED <<clientVars, wire, sockVars, loopVars, pool, up>>
  BY DEF Deliver
<1> HIDE DEF m, h
<1>6. hnd' \in [Clients -> Handlers] /\ mask' \in [Clients -> {{}, {"in"}, {"in", "out"}}]
  <2>0. /\ hnd \in [Clients -> Handlers]
        /\ mask \in [Clients -> {{}, {"in"}, {"in", "out"}}]
    BY DEF TypeOK, Handlers
  <2>1. mask' \in [Clients -> {{}, {"in"}, {"in", "out"}}]
    BY <1>5, <2>0
  <2>2. \/ hnd' = hnd
        \/ h \in Clients /\ hnd' = [hnd EXCEPT ![h].out_buffer = AnswerPieces(m.id)]
    BY <1>3, <1>5
  <2>3. hnd' \in [Clients -> Handlers]
    BY <1>4, <2>0, <2>2 DEF Handlers
  <2>4. QED
    BY <2>1, <2>3
<1>7. QED
  BY <1>2, <1>5, <1>6 DEF TypeOK, Handlers, clientVars, sockVars, loopVars

LEMMA StepTyped == IInv /\ TypeOK /\ [Next]_vars => TypeOK'
<1> SUFFICES ASSUME IInv, TypeOK, [Next]_vars PROVE TypeOK'
  OBVIOUS
<1>1. ASSUME NEW c \in Clients, ClientStep(c) PROVE TypeOK'
  BY <1>1, ClientTyped
<1>2. CASE AcceptorStep
  BY <1>2, AcceptorTyped
<1>3. CASE EpollWait
  <2>1. events' \in [Clients -> SUBSET {"in", "out", "hup"}]
    BY <1>3 DEF EpollWait, Ready
  <2>2. QED
    BY <1>3, <2>1 DEF EpollWait, TypeOK, clientVars, sockVars
<1>4. CASE EndBatch
  BY <1>4 DEF EndBatch, TypeOK, clientVars, sockVars
<1>5. ASSUME NEW c \in Clients, StartEvent(c) PROVE TypeOK'
  <2>1. loopPc' \in {"wait", "batch", "read", "write", "close"}
    BY <1>5 DEF StartEvent, Phase
  <2>2. QED
    BY <1>5, <2>1 DEF StartEvent, TypeOK, clientVars, sockVars
<1>6. CASE Recv
  BY <1>6, RecvTyped
<1>7. CASE RecvAgain
  <2>1. EventDone("in") /\ UNCHANGED <<clientVars, wire, sockVars, mask, hnd, pool, mailbox>>
    BY <1>7 DEF RecvAgain
  <2>2. QED
    BY <2>1, EventDoneTyped DEF TypeOK, clientVars, sockVars
<1>8. CASE RecvEnd
  <2>1. cur \in Clients
    BY <1>8, CurIsLive DEF RecvEnd, Phases
  <2>2. QED
    BY <1>8, <2>1, CloseTyped DEF RecvEnd
<1>9. CASE SendFails
  <2>1. cur \in Clients
    BY <1>9, CurIsLive DEF SendFails, Phases
  <2>2. QED
    BY <1>9, <2>1, CloseTyped DEF SendFails
<1>10. CASE HandleWrite
  BY <1>10, HandleWriteTyped
<1>11. CASE Deliver
  BY <1>11, DeliverTyped
<1>12. ASSUME NEW i \in 1..Width, FinishTask(i) PROVE TypeOK'
  <2>1. pool \in Seq(Messages) /\ i \in DOMAIN pool /\ mailbox \in Seq(Messages)
    BY <1>12 DEF FinishTask, TypeOK
  <2>2. RemoveAt(pool, i) \in Seq(Messages) /\ Append(mailbox, pool[i]) \in Seq(Messages)
    BY <2>1, RemoveType, AppendProperties
  <2>3. QED
    BY <1>12, <2>2 DEF FinishTask, TypeOK, clientVars, sockVars, loopVars
<1>13. CASE UNCHANGED vars
  BY <1>13 DEF vars, TypeOK, clientVars, sockVars, loopVars
<1>14. QED
  BY <1>1, <1>2, <1>3, <1>4, <1>5, <1>6, <1>7, <1>8, <1>9, <1>10, <1>11, <1>12, <1>13
     DEF Next, LoopStep, Stopped

(***************************************************************************)
(* Every buffer, queue and table holds what its type says, however clients *)
(* pipeline, close and reset: what is cut out of a buffer is whole pieces, *)
(* and the answer posted for a line has an identity.                       *)
(***************************************************************************)
THEOREM TypeCorrect == Spec => []TypeOK
<1>1. Init => IInv /\ TypeOK
  BY InitHolds, InitTyped
<1>2. IInv /\ TypeOK /\ [Next]_vars => (IInv /\ TypeOK)'
  BY StepKeeps, StepTyped
<1>3. IInv /\ TypeOK => TypeOK
  OBVIOUS
<1>4. QED
  BY <1>1, <1>2, <1>3, PTL DEF Spec
-----------------------------------------------------------------------------
(***************************************************************************)
(* What the loop has been told of a connection still holds when it comes   *)
(* to it: output is due only while there is some, a hang-up only after a   *)
(* reset; and EPOLLOUT is asked for only while there is output.            *)
(***************************************************************************)
DueOf(c) ==
    /\ "out" \in mask[c] \cup events[c] => hnd[c].out_buffer # <<>>
    /\ "hup" \in events[c] => peer[c] = "reset"
EventsDue == \A c \in Clients : DueOf(c)

LEMMA DueKept ==
    ASSUME EventsDue,
           \A c \in Clients : /\ mask'[c] \subseteq mask[c] /\ events'[c] \subseteq events[c]
                              /\ hnd'[c].out_buffer = hnd[c].out_buffer
                              /\ peer[c] = "reset" => peer'[c] = "reset"
    PROVE  EventsDue'
BY DEF EventsDue, DueOf

LEMMA EventDoneDue ==
    ASSUME IInv, NEW ev, EventDone(ev)
    PROVE  /\ \A c \in Clients : events'[c] \subseteq events[c]
           /\ cur \in Clients => ev \notin events'[cur]
BY DEF EventDone, IInv, Types

LEMMA HandleWriteDue ==
    ASSUME IInv, TypeOK, EventsDue, HandleWrite
    PROVE  EventsDue'
<1>1. up /\ loopPc \in Phases /\ EventDone("out")
  BY DEF HandleWrite, Phases
<1>2. cur \in Clients
  BY <1>1, CurIsLive
<1> DEFINE out == hnd[cur].out_buffer
<1>3. out \in Seq(Parts) /\ Len(out) \in Nat
  BY <1>2, LenProperties DEF TypeOK
<1>4. PICK n \in 1..Len(out) :
         /\ hnd' = [hnd EXCEPT
              ![cur].out_buffer = SubSeq(out, n + 1, Len(out)),
              ![cur].http_parsed = IF n = Len(out) /\ hnd[cur].is_http THEN FALSE ELSE @,
              ![cur].in_buffer = IF n = Len(out) /\ hnd[cur].is_http THEN <<>> ELSE @]
         /\ mask' = IF n = Len(out) THEN [mask EXCEPT ![cur] = {"in"}] ELSE mask
         /\ peer[cur] # "reset"
         /\ peer' = peer \/ peer' = [peer EXCEPT ![cur] = "reset"]
  BY DEF HandleWrite
<1>5. /\ \A c \in Clients : events'[c] \subseteq events[c]
      /\ "out" \notin events'[cur]
  BY <1>1, <1>2, EventDoneDue
<1>6. /\ hnd'[cur].out_buffer = SubSeq(out, n + 1, Len(out))
      /\ \A c \in Clients \ {cur} : hnd'[c] = hnd[c]
  <2>1. hnd \in [Clients -> Handlers]
    BY DEF TypeOK, Handlers
  <2>2. DOMAIN hnd[cur] = {"in_buffer", "is_http", "http_parsed", "out_buffer"}
    BY <1>2, <2>1 DEF Handlers
  <2>3. QED
    BY <1>2, <1>4, <2>1, <2>2
<1>7. \A c \in Clients : peer[c] = "reset" => peer'[c] = "reset"
  BY <1>2, <1>4 DEF TypeOK
<1>8. ASSUME NEW c \in Clients PROVE DueOf(c)'
  <2>1. CASE c # cur
    <3>1. mask'[c] = mask[c] /\ hnd'[c] = hnd[c]
      BY <1>2, <1>4, <1>6, <2>1 DEF TypeOK
    <3>2. QED
      BY <1>5, <1>7, <3>1 DEF EventsDue, DueOf
  <2>2. CASE c = cur /\ n = Len(out)
    <3>1. mask'[c] = {"in"}
      BY <1>2, <1>4, <2>2 DEF TypeOK
    <3>2. QED
      BY <1>5, <1>7, <2>2, <3>1 DEF EventsDue, DueOf
  <2>3. CASE c = cur /\ n # Len(out)
    <3>1. hnd'[c].out_buffer # <<>>
      <4>1. n + 1 \in 1..Len(out)
        BY <1>3, <2>3
      <4>2. Len(SubSeq(out, n + 1, Len(out))) = Len(out) - (n + 1) + 1
        BY <1>3, <4>1, SubSeqProperties
      <4>3. QED
        BY <1>3, <1>6, <2>3, <4>1, <4>2
    <3>2. QED
      BY <1>5, <1>7, <3>1 DEF EventsDue, DueOf
  <2>4. QED
    BY <2>1, <2>2, <2>3
<1>9. QED
  BY <1>8 DEF EventsDue

LEMMA LoopDue ==
    ASSUME IInv, TypeOK, EventsDue, LoopStep
    PROVE  EventsDue'
<1>1. CASE EpollWait
  <2>1. events' = [c \in Clients |-> Ready(c)] /\ UNCHANGED <<mask, hnd, peer>>
    BY <1>1 DEF EpollWait, clientVars
  <2>2. QED
    BY <2>1 DEF EventsDue, DueOf, Ready
<1>2. CASE EndBatch \/ \E c \in Clients : StartEvent(c)
  BY <1>2, DueKept DEF EndBatch, StartEvent, clientVars
<1>3. CASE Recv
  <2>1. UNCHANGED <<peer, mask>> /\ (EventDone("in") \/ UNCHANGED events)
    BY <1>3 DEF Recv, HttpRequest, HttpWait, HttpBusy, Lines, clientVars, loopVars
  <2>2. \A c \in Clients : hnd'[c].out_buffer = hnd[c].out_buffer
    <3>1. hnd \in [Clients -> Handlers]
      BY DEF TypeOK, Handlers
    <3>2. PICK buf : HttpRequest(cur, buf) \/ HttpWait(cur, buf)
                     \/ HttpBusy(cur, buf) \/ Lines(cur, buf)
      BY <1>3 DEF Recv
    <3>3. CASE HttpRequest(cur, buf)
      BY <3>1, <3>3 DEF HttpRequest, Handlers
    <3>4. CASE HttpWait(cur, buf)
      BY <3>1, <3>4 DEF HttpWait, Handlers
    <3>5. CASE HttpBusy(cur, buf)
      BY <3>1, <3>5 DEF HttpBusy, Handlers
    <3>6. CASE Lines(cur, buf)
      BY <3>1, <3>6 DEF Lines, Handlers
    <3>7. QED
      BY <3>2, <3>3, <3>4, <3>5, <3>6
  <2>3. \A c \in Clients : events'[c] \subseteq events[c]
    BY <2>1, EventDoneDue
  <2>4. QED
    BY <2>1, <2>2, <2>3, DueKept
<1>4. CASE RecvAgain
  <2>1. UNCHANGED <<peer, mask, hnd>> /\ EventDone("in")
    BY <1>4 DEF RecvAgain, clientVars
  <2>2. QED
    BY <2>1, EventDoneDue, DueKept
<1>5. CASE RecvEnd \/ SendFails
  <2>1. /\ peer' = peer /\ mask' = [mask EXCEPT ![cur] = {}]
        /\ events' = [events EXCEPT ![cur] = {}] /\ hnd' = [hnd EXCEPT ![cur] = NewHandler]
    BY <1>5 DEF RecvEnd, SendFails, HandleClose, clientVars
  <2>2. QED
    BY <2>1 DEF EventsDue, DueOf, TypeOK
<1>6. CASE HandleWrite
  BY <1>6, HandleWriteDue
<1>7. CASE Deliver
  <2>1. UNCHANGED <<peer, events>> /\ mailbox # <<>>
    BY <1>7 DEF Deliver, clientVars, loopVars
  <2> DEFINE m == Head(mailbox)
             h == fd_to_handler[m.fd]
  <2>2. \/ UNCHANGED <<hnd, mask>>
        \/ /\ hnd' = [hnd EXCEPT ![h].out_buffer = AnswerPieces(m.id)]
           /\ mask' = mask \/ mask' = [mask EXCEPT ![h] = {"in", "out"}]
    BY <1>7 DEF Deliver
  <2>3. AnswerPieces(m.id) # <<>>
    BY DEF AnswerPieces
  <2>4. /\ hnd \in [Clients -> Handlers]
        /\ mask \in [Clients -> {{}, {"in"}, {"in", "out"}}]
    BY DEF TypeOK, Handlers
  <2> HIDE DEF h, m
  <2>5. ASSUME NEW c \in Clients PROVE DueOf(c)'
    <3>1. CASE c = h /\ hnd' = [hnd EXCEPT ![h].out_buffer = AnswerPieces(m.id)]
      <4>1. hnd'[c].out_buffer = AnswerPieces(m.id)
        BY <2>4, <3>1 DEF Handlers
      <4>2. QED
        BY <2>1, <2>3, <4>1 DEF EventsDue, DueOf
    <3>2. CASE c # h \/ UNCHANGED <<hnd, mask>>
      <4>1. hnd'[c] = hnd[c] /\ mask'[c] = mask[c]
        BY <2>2, <2>4, <3>2
      <4>2. QED
        BY <2>1, <4>1 DEF EventsDue, DueOf
    <3>3. QED
      BY <2>2, <3>1, <3>2
  <2>6. QED
    BY <2>5 DEF EventsDue
<1>8. QED
  BY <1>1, <1>2, <1>3, <1>4, <1>5, <1>6, <1>7 DEF LoopStep

LEMMA StepDue == IInv /\ TypeOK /\ EventsDue /\ [Next]_vars => EventsDue'
<1> SUFFICES ASSUME IInv, TypeOK, EventsDue, [Next]_vars PROVE EventsDue'
  OBVIOUS
<1>1. ASSUME NEW c \in Clients, ClientStep(c) PROVE EventsDue'
  <2>1. UNCHANGED <<mask, events, hnd>>
    BY <1>1 DEF ClientStep, Connect, SendPiece, Finish, Reset, loopVars
  <2>2. \A d \in Clients : peer[d] = "reset" => peer'[d] = "reset"
    BY <1>1 DEF ClientStep, Connect, SendPiece, Finish, Reset, TypeOK
  <2>3. QED
    BY <2>1, <2>2, DueKept
<1>2. ASSUME NEW c \in Clients, Accept(c) PROVE EventsDue'
  BY <1>2, DueKept DEF Accept, clientVars, loopVars
<1>3. CASE EpollAdd
  <2>1. UNCHANGED <<peer, events, hnd>> /\ mask' = [mask EXCEPT ![accepting] = {"in"}]
    BY <1>3 DEF EpollAdd, clientVars, loopVars
  <2>2. QED
    BY <2>1 DEF EventsDue, DueOf, TypeOK
<1>4. ASSUME NEW i \in 1..Width, FinishTask(i) PROVE EventsDue'
  BY <1>4, DueKept DEF FinishTask, clientVars, loopVars
<1>5. CASE UNCHANGED vars
  BY <1>5, DueKept DEF vars
<1>6. QED
  BY <1>1, <1>2, <1>3, <1>4, <1>5, LoopDue DEF Next, AcceptorStep, Stopped

(***************************************************************************)
(* Whatever clients do, the loop goes on to use a handler it has deleted   *)
(* only for a connection that was reset or had an answer still to be sent. *)
(***************************************************************************)
THEOREM GracefulCloseIsSafe == Spec => OnlyAbruptEndsFatal
<1>1. Init => EventsDue
  BY DEF Init, EventsDue, DueOf
<1>2. Spec => [](IInv /\ TypeOK /\ EventsDue)
  BY <1>1, InitHolds, StepKeeps, InitTyped, StepTyped, StepDue, PTL DEF Spec
<1>3. IInv /\ TypeOK /\ EventsDue /\ [Next]_vars
         => [up /\ ~up' => peer[cur] = "reset" \/ hnd[cur].out_buffer # <<>>]_vars
  <2> SUFFICES ASSUME IInv, EventsDue, Next, up, ~up'
               PROVE  peer[cur] = "reset" \/ hnd[cur].out_buffer # <<>>
    OBVIOUS
  <2>1. RecvEnd \/ SendFails
    BY DEF Next, ClientStep, Connect, SendPiece, Finish, Reset, AcceptorStep, Accept, EpollAdd,
           LoopStep, EpollWait, EndBatch, StartEvent, Recv, HttpRequest, HttpWait, HttpBusy,
           Lines, RecvAgain, HandleWrite, Deliver, EventDone, FinishTask, Stopped, vars
  <2>2. CASE SendFails
    BY <2>2 DEF SendFails
  <2>3. CASE RecvEnd
    <3>1. cur \in Clients
      BY <2>3, CurIsLive DEF RecvEnd, Phases
    <3>2. events[cur] \ {"in"} # {} /\ events[cur] \subseteq {"in", "out", "hup"}
      BY <2>3, <3>1 DEF RecvEnd, HandleClose, IInv, Types
    <3>3. "out" \in events[cur] \/ "hup" \in events[cur]
      BY <3>2
    <3>4. QED
      BY <3>1, <3>3 DEF EventsDue, DueOf
  <2>4. QED
    BY <2>1, <2>2, <2>3
<1>4. QED
  BY <1>2, <1>3, PTL DEF Spec, OnlyAbruptEndsFatal
-----------------------------------------------------------------------------
(***************************************************************************)
(* Orderly clients: each waits for the answer to a request before it sends *)
(* the next, and closes when it has every answer.  Once a connection has   *)
(* carried a line the code parses everything on it as lines, so a client   *)
(* that has sent one sends no GET after it.                                *)
(***************************************************************************)
Orderly == ~Pipelining /\ ~EarlyClose
LinesStayLines ==
    \A c \in Clients : \A i, j \in DOMAIN Script[c] :
        i < j /\ Script[c][i] = "line" => Script[c][j] = "line"

(* The last complete request of c, and the message that carries its answer *)
(* or asks for it.                                                         *)
Current(c) == sent[c] \div 2
Msg(c) == [fd |-> fd[c], id |-> <<c, Current(c)>>]
Msgs == {Msg(c) : c \in Clients}

Owners(q) == {q[i].id[1] : i \in DOMAIN q}
OneEach(q) == \A i, j \in DOMAIN q : q[i].id[1] = q[j].id[1] => i = j

InPool(c) == c \in Owners(pool)
InMail(c) == c \in Owners(mailbox)
Writing(c) == hnd[c].out_buffer # <<>>
Underway(c) == InPool(c) \/ InMail(c) \/ Writing(c)

(* A client has one request under way at most, its current one, and that   *)
(* in one place.                                                           *)
Queues ==
    /\ Range(pool) \subseteq Msgs /\ Range(mailbox) \subseteq Msgs
    /\ OneEach(pool) /\ OneEach(mailbox)
    /\ \A c \in Clients : /\ ~(InPool(c) /\ InMail(c))
                          /\ Writing(c) => ~InPool(c) /\ ~InMail(c)

Part(c, k) == [id |-> <<c, Current(c)>>, part |-> k]

(* While a request is under way the connection is idle otherwise, and the  *)
(* client has what it was owed before and perhaps half of the answer.      *)
Answered(c) ==
    \/ /\ hnd[c].out_buffer \in {<<>>, <<Part(c, 1), Part(c, 2)>>}
       /\ got[c] = Owed(c, Current(c) - 1)
    \/ /\ hnd[c].out_buffer = <<Part(c, 2)>>
       /\ got[c] = Append(Owed(c, Current(c) - 1), Part(c, 1))

Answering(c) ==
    /\ served[c] = "open" /\ mask[c] # {} /\ peer[c] = "open"
    /\ sent[c] % 2 = 0 /\ sent[c] > 0 /\ Script[c][Current(c)] # "unknown"
    /\ wire[c] = <<>> /\ hnd[c].in_buffer = <<>>
    /\ hnd[c].http_parsed = TRUE
    /\ hnd[c].is_http = (Script[c][Current(c)] # "line")
    /\ Answered(c)

(* When none is, what the server has not parsed is the end of what the     *)
(* client sent; all before it has been answered; and whole requests in it  *)
(* are GETs of unknown paths, which stay there.                            *)
Unread(c) == hnd[c].in_buffer \o wire[c]
Consumed(c) == (sent[c] - Len(Unread(c))) \div 2

Reading(c) ==
    /\ Len(Unread(c)) <= sent[c]
    /\ (sent[c] - Len(Unread(c))) % 2 = 0
    /\ \A i \in 1..Len(Unread(c)) : Unread(c)[i] = Piece(c, 2 * Consumed(c) + i)
    /\ got[c] = Owed(c, Consumed(c))
    /\ \A i \in DOMAIN Script[c] :
          i > Consumed(c) /\ 2 * i < sent[c] => Script[c][i] = "unknown"
    /\ hnd[c].http_parsed = TRUE =>
          /\ hnd[c].is_http = FALSE
          /\ \A i \in DOMAIN Script[c] : i > Consumed(c) => Script[c][i] = "line"

ExchangeOf(c) ==
    /\ Underway(c) => Answering(c)
    /\ ~Underway(c) /\ served[c] # "gone" => Reading(c)
    /\ peer[c] # "reset"
    /\ peer[c] = "new" => sent[c] = 0
    /\ peer[c] = "fin" => sent[c] = NumPieces(c) /\ got[c] = OwedAll(c)
    /\ served[c] = "gone" => peer[c] = "fin"

LoopOf(c) ==
    /\ "hup" \notin events[c]
    /\ "out" \in events[c] => Writing(c)
    /\ "in" \in events[c] /\ Underway(c) => cur = c /\ loopPc = "read"
    /\ "out" \in mask[c] <=> Writing(c)

Loop ==
    /\ up = TRUE
    /\ \A c \in Clients : LoopOf(c)
    /\ loopPc = "read" => "in" \in events[cur]
    /\ loopPc = "write" => "in" \notin events[cur] /\ "out" \in events[cur]
    /\ loopPc # "close"

Exchange == \A c \in Clients : ExchangeOf(c)
OrderlyInv == Queues /\ Exchange /\ Loop
-----------------------------------------------------------------------------
LEMMA AppendOwners ==
    ASSUME NEW q \in Seq(Messages), NEW m \in Messages
    PROVE  /\ Owners(Append(q, m)) = Owners(q) \cup {m.id[1]}
           /\ Range(Append(q, m)) = Range(q) \cup {m}
           /\ OneEach(q) /\ m.id[1] \notin Owners(q) => OneEach(Append(q, m))
<1> DEFINE r == Append(q, m)
<1>1. /\ Len(q) \in Nat /\ DOMAIN q = 1..Len(q) /\ DOMAIN r = 1..Len(q) + 1
      /\ \A i \in 1..Len(q) : r[i] = q[i]
      /\ r[Len(q) + 1] = m
  <2>1. r \in Seq(Messages) /\ Len(r) = Len(q) + 1
    BY AppendProperties
  <2>2. DOMAIN r = 1..Len(r)
    BY <2>1, LenProperties
  <2> HIDE DEF r
  <2>3. QED
    BY <2>1, <2>2, AppendProperties, LenProperties DEF r
<1> HIDE DEF r
<1>2. Owners(r) = Owners(q) \cup {m.id[1]} /\ Range(r) = Range(q) \cup {m}
  BY <1>1 DEF Owners, Range
<1>3. ASSUME OneEach(q), m.id[1] \notin Owners(q) PROVE OneEach(r)
  BY <1>1, <1>3 DEF OneEach, Owners
<1>4. QED
  BY <1>2, <1>3 DEF r

LEMMA RemoveOwners ==
    ASSUME NEW q \in Seq(Messages), NEW i \in DOMAIN q, OneEach(q)
    PROVE  /\ Owners(RemoveAt(q, i)) = Owners(q) \ {q[i].id[1]}
           /\ Range(RemoveAt(q, i)) \subseteq Range(q) /\ q[i] \in Range(q)
           /\ OneEach(RemoveAt(q, i))
<1> DEFINE r == RemoveAt(q, i)
           at(j) == IF j < i THEN j ELSE j + 1
<1>1. /\ Len(q) \in Nat /\ DOMAIN q = 1..Len(q) /\ DOMAIN r = 1..Len(q) - 1
      /\ i \in 1..Len(q)
      /\ \A j \in 1..Len(q) - 1 : r[j] = q[at(j)]
  <2>1. /\ r \in Seq(Messages) /\ Len(r) = Len(q) - 1 /\ Len(q) \in Nat /\ i \in 1..Len(q)
        /\ \A j \in 1..Len(q) - 1 : r[j] = IF j < i THEN q[j] ELSE q[j + 1]
    BY RemoveType
  <2>2. DOMAIN r = 1..Len(r) /\ DOMAIN q = 1..Len(q)
    BY <2>1, LenProperties
  <2>3. QED
    BY <2>1, <2>2
<1> HIDE DEF r
<1>2. \A j \in 1..Len(q) - 1 : at(j) \in 1..Len(q) /\ at(j) # i
  BY <1>1
<1>3. \A k \in 1..Len(q) : k # i => \E j \in 1..Len(q) - 1 : at(j) = k
  <2>1. TAKE k \in 1..Len(q)
  <2>2. CASE k < i
    BY <1>1, <2>2
  <2>3. CASE k > i
    <3>1. k - 1 \in 1..Len(q) - 1 /\ at(k - 1) = k
      BY <1>1, <2>3
    <3>2. QED
      BY <3>1
  <2>4. QED
    BY <1>1, <2>2, <2>3
<1>4. \A j, k \in 1..Len(q) - 1 : at(j) = at(k) => j = k
  BY <1>1
<1> HIDE DEF at
<1>5. Range(r) \subseteq Range(q) /\ q[i] \in Range(q)
  BY <1>1, <1>2 DEF Range
<1>6. OneEach(r)
  BY <1>1, <1>2, <1>4 DEF OneEach
<1>7. Owners(r) = Owners(q) \ {q[i].id[1]}
  <2>1. ASSUME NEW d \in Owners(r) PROVE d \in Owners(q) /\ d # q[i].id[1]
    BY <1>1, <1>2, <2>1 DEF Owners, OneEach
  <2>2. ASSUME NEW d \in Owners(q), d # q[i].id[1] PROVE d \in Owners(r)
    <3>1. PICK k \in 1..Len(q) : d = q[k].id[1]
      BY <1>1 DEF Owners
    <3>2. PICK j \in 1..Len(q) - 1 : at(j) = k
      BY <1>3, <2>2, <3>1
    <3>3. QED
      BY <1>1, <3>1, <3>2 DEF Owners
  <2>3. QED
    BY <2>1, <2>2
<1>8. QED
  BY <1>5, <1>6, <1>7 DEF r

LEMMA TailOwners ==
    ASSUME NEW q \in Seq(Messages), q # <<>>, OneEach(q)
    PROVE  /\ Owners(Tail(q)) = Owners(q) \ {Head(q).id[1]}
           /\ Range(Tail(q)) \subseteq Range(q) /\ Head(q) \in Range(q)
           /\ OneEach(Tail(q))
<1>1. Len(q) \in Nat /\ DOMAIN q = 1..Len(q) /\ Len(q) # 0 /\ 1 \in DOMAIN q
  BY EmptySeq, LenProperties
<1>2. Head(q) = q[1]
  OBVIOUS
<1>3. Tail(q) = RemoveAt(q, 1)
  <2>1. /\ Tail(q) \in Seq(Messages) /\ Len(Tail(q)) = Len(q) - 1
        /\ \A i \in 1..Len(Tail(q)) : Tail(q)[i] = q[i + 1]
    BY HeadTailProperties
  <2>2. /\ RemoveAt(q, 1) \in Seq(Messages) /\ Len(RemoveAt(q, 1)) = Len(q) - 1
        /\ \A j \in 1..Len(q) - 1 :
              RemoveAt(q, 1)[j] = IF j < 1 THEN q[j] ELSE q[j + 1]
    BY <1>1, RemoveType
  <2>3. \A j \in 1..Len(q) - 1 : ~(j < 1)
    BY <1>1
  <2>4. \A i \in 1..Len(Tail(q)) : Tail(q)[i] = RemoveAt(q, 1)[i]
    BY <2>1, <2>2, <2>3
  <2>5. QED
    BY <2>1, <2>2, <2>4, SeqEqual
<1>4. QED
  BY <1>1, <1>2, <1>3, RemoveOwners

(* Messages stay what they are for the clients that have one.              *)
LEMMA MsgsKept ==
    ASSUME NEW q, Range(q) \subseteq Msgs,
           \A d \in Clients : d \in Owners(q) => fd'[d] = fd[d] /\ sent'[d] = sent[d]
    PROVE  Range(q) \subseteq Msgs'
<1>1. SUFFICES ASSUME NEW m \in Range(q) PROVE m \in Msgs'
  OBVIOUS
<1>2. PICK d \in Clients : m = Msg(d)
  BY <1>1 DEF Msgs
<1>3. m.id[1] = d
  BY <1>2 DEF Msg
<1>4. d \in Owners(q)
  BY <1>1, <1>3 DEF Range, Owners
<1>5. m = Msg(d)'
  BY <1>2, <1>4 DEF Msg, Current
<1>6. QED
  BY <1>5 DEF Msgs
-----------------------------------------------------------------------------
LEMMA ScriptFacts ==
    ASSUME NEW c \in Clients, TypeOK
    PROVE  /\ Len(Script[c]) \in Nat /\ DOMAIN Script[c] = 1..Len(Script[c])
           /\ NumPieces(c) = 2 * Len(Script[c])
           /\ sent[c] \in Nat /\ sent[c] <= 2 * Len(Script[c])
           /\ Current(c) \in 0..Len(Script[c])
           /\ 2 * Current(c) <= sent[c] /\ sent[c] < 2 * Current(c) + 2
           /\ sent[c] % 2 = 0 => sent[c] = 2 * Current(c)
<1>1. Len(Script[c]) \in Nat /\ DOMAIN Script[c] = 1..Len(Script[c])
  BY ReactorAssumption, LenProperties
<1>2. NumPieces(c) = 2 * Len(Script[c])
  BY DEF NumPieces
<1>3. sent[c] \in Nat /\ sent[c] <= 2 * Len(Script[c])
  BY <1>2 DEF TypeOK
<1>4. QED
  BY <1>1, <1>2, <1>3 DEF Current

LEMMA PieceFacts ==
    ASSUME NEW c \in Clients, NEW k \in Nat
    PROVE  /\ Piece(c, 2 * k + 1) =
                 [kind |-> Script[c][k + 1], id |-> <<c, k + 1>>, last |-> FALSE]
           /\ Piece(c, 2 * k + 2) =
                 [kind |-> Script[c][k + 1], id |-> <<c, k + 1>>, last |-> TRUE]
<1>1. /\ (2 * k + 1 + 1) \div 2 = k + 1 /\ (2 * k + 2 + 1) \div 2 = k + 1
      /\ (2 * k + 1) % 2 # 0 /\ (2 * k + 2) % 2 = 0
  OBVIOUS
<1>2. QED
  BY <1>1 DEF Piece

LEMMA AnsweringFacts ==
    ASSUME NEW c \in Clients, TypeOK, Answering(c)
    PROVE  /\ Current(c) \in 1..Len(Script[c]) /\ sent[c] = 2 * Current(c)
           /\ Current(c) - 1 \in 0..Len(Script[c])
           /\ Owed(c, Current(c) - 1) \in Seq(Parts)
           /\ Owed(c, Current(c)) = Owed(c, Current(c) - 1) \o <<Part(c, 1), Part(c, 2)>>
           /\ Part(c, 1) \in Parts /\ Part(c, 2) \in Parts
           /\ Len(Owed(c, Current(c))) \in Nat
           /\ Len(got[c]) < Len(Owed(c, Current(c)))
<1> DEFINE n == Current(c)
<1>1. n \in 1..Len(Script[c]) /\ sent[c] = 2 * n
  <2>1. sent[c] % 2 = 0 /\ sent[c] > 0
    BY DEF Answering
  <2>2. QED
    BY <2>1, ScriptFacts
<1>2. n - 1 \in 0..Len(Script[c])
  BY <1>1, ScriptFacts
<1>3. Script[c][n] # "unknown"
  BY DEF Answering
<1> HIDE DEF n
<1>4. Owed(c, n - 1) \in Seq(Parts) /\ Len(Owed(c, n - 1)) \in Nat
  BY <1>2, OwedType, LenProperties
<1>5. /\ Owed(c, n) = Owed(c, n - 1) \o AnswerPieces(<<c, n>>)
      /\ Len(Owed(c, n)) = Len(Owed(c, n - 1)) + 2
  BY <1>1, <1>3, <1>4, OwedStep
<1>6. Part(c, 1) \in Parts /\ Part(c, 2) \in Parts
  <2>1. <<c, n>> \in Ids
    BY <1>1 DEF Ids
  <2>2. QED
    BY <2>1 DEF Part, Parts, n
<1>7. Len(got[c]) < Len(Owed(c, n))
  <2>1. got[c] = Owed(c, n - 1) \/ got[c] = Append(Owed(c, n - 1), Part(c, 1))
    BY DEF Answering, Answered, n
  <2>2. Len(Append(Owed(c, n - 1), Part(c, 1))) = Len(Owed(c, n - 1)) + 1
    BY <1>4, <1>6, AppendProperties
  <2>3. QED
    BY <1>4, <1>5, <2>1, <2>2
<1>8. AnswerPieces(<<c, n>>) = <<Part(c, 1), Part(c, 2)>>
  BY DEF AnswerPieces, Part, n
<1>9. Owed(c, n) = Owed(c, n - 1) \o <<Part(c, 1), Part(c, 2)>>
  BY <1>5, <1>8
<1>10. Len(Owed(c, n)) \in Nat
  BY <1>4, <1>5
<1>11. n = Current(c)
  BY DEF n
<1>12. QED
  BY <1>1, <1>2, <1>4, <1>6, <1>7, <1>9, <1>10, <1>11

LEMMA ReadingFacts ==
    ASSUME NEW c \in Clients, TypeOK, Reading(c)
    PROVE  /\ Consumed(c) \in 0..Len(Script[c]) /\ Consumed(c) <= Current(c)
           /\ Unread(c) \in Seq(Pieces) /\ Len(Unread(c)) \in Nat
           /\ Len(Unread(c)) = Len(hnd[c].in_buffer) + Len(wire[c])
           /\ hnd[c].in_buffer \in Seq(Pieces) /\ Len(hnd[c].in_buffer) \in Nat
           /\ wire[c] \in Seq(Pieces) /\ Len(wire[c]) \in Nat
           /\ sent[c] = 2 * Consumed(c) + Len(Unread(c))
<1>1. hnd[c].in_buffer \in Seq(Pieces) /\ wire[c] \in Seq(Pieces)
  BY DEF TypeOK
<1>2. /\ Unread(c) \in Seq(Pieces)
      /\ Len(Unread(c)) = Len(hnd[c].in_buffer) + Len(wire[c])
  BY <1>1, ConcatProperties DEF Unread
<1>3. /\ Len(Unread(c)) \in Nat /\ Len(hnd[c].in_buffer) \in Nat
      /\ Len(wire[c]) \in Nat
  BY <1>1, <1>2, LenProperties
<1>4. /\ Consumed(c) \in 0..Len(Script[c]) /\ Consumed(c) <= Current(c)
      /\ sent[c] = 2 * Consumed(c) + Len(Unread(c))
  <2>1. Len(Unread(c)) <= sent[c] /\ (sent[c] - Len(Unread(c))) % 2 = 0
    BY DEF Reading
  <2>2. Consumed(c) = (sent[c] - Len(Unread(c))) \div 2
    BY DEF Consumed
  <2>3. sent[c] = 2 * Consumed(c) + Len(Unread(c)) /\ Consumed(c) \in Nat
    <3>1. \A s, u \in Nat : u <= s /\ (s - u) % 2 = 0 =>
             s = 2 * ((s - u) \div 2) + u /\ (s - u) \div 2 \in Nat
      OBVIOUS
    <3>2. sent[c] \in Nat
      BY ScriptFacts
    <3>3. QED
      BY <1>3, <2>1, <2>2, <3>1, <3>2
  <2>4. QED
    BY <1>3, <2>3, ScriptFacts
<1>5. QED
  BY <1>1, <1>2, <1>3, <1>4

(* A request under way has not been answered in full: its client waits.    *)
LEMMA ClientWaits ==
    ASSUME Orderly, TypeOK, Exchange, NEW c \in Clients, Underway(c)
    PROVE  ~SendPiece(c) /\ ~Finish(c) /\ wire[c] = <<>> /\ peer[c] = "open"
<1>1. Answering(c)
  BY DEF Exchange, ExchangeOf
<1>2. /\ Len(got[c]) < Len(Owed(c, Current(c))) /\ Len(Owed(c, Current(c))) \in Nat
      /\ sent[c] = 2 * Current(c) /\ Current(c) \in 1..Len(Script[c])
      /\ Len(got[c]) \in Nat
  <2>1. got[c] \in Seq(Parts)
    BY DEF TypeOK
  <2>2. QED
    BY <1>1, <2>1, AnsweringFacts, LenProperties
<1>3. Len(got[c]) # Len(Owed(c, Current(c)))
  BY <1>2
<1>4. ~SendPiece(c)
  <2>1. sent[c] % 2 # 1
    BY <1>2
  <2>2. QED
    BY <1>3, <2>1 DEF SendPiece, Orderly, Current
<1>5. ~Finish(c)
  <2>1. sent[c] = NumPieces(c) => Current(c) = Len(Script[c])
    BY <1>2, ScriptFacts
  <2>2. QED
    BY <1>3, <2>1 DEF Finish, Orderly, OwedAll
<1>6. QED
  BY <1>1, <1>4, <1>5 DEF Answering

LEMMA ReadingKept ==
    ASSUME NEW c \in Clients, sent'[c] = sent[c], wire'[c] = wire[c], got'[c] = got[c],
           hnd'[c] = hnd[c]
    PROVE  Reading(c)' <=> Reading(c)
<1>1. Unread(c)' = Unread(c)
  BY DEF Unread
<1>2. Consumed(c)' = Consumed(c)
  BY <1>1 DEF Consumed
<1>3. QED
  BY <1>1, <1>2 DEF Reading

(* What happens at one connection leaves the others alone.                 *)
LEMMA Elsewhere ==
    ASSUME NEW c \in Clients, ExchangeOf(c),
           /\ peer'[c] = peer[c] /\ sent'[c] = sent[c] /\ wire'[c] = wire[c]
           /\ got'[c] = got[c] /\ served'[c] = served[c]
           /\ mask'[c] = mask[c] /\ hnd'[c] = hnd[c],
           Underway(c)' <=> Underway(c)
    PROVE  ExchangeOf(c)'
<1>1. Answering(c)' <=> Answering(c)
  BY DEF Answering, Answered, Current, Part
<1>2. Reading(c)' <=> Reading(c)
  BY ReadingKept
<1>3. QED
  BY <1>1, <1>2 DEF ExchangeOf

LEMMA QueuesKept ==
    ASSUME Queues, UNCHANGED <<pool, mailbox>>,
           \A d \in Clients : Underway(d) => fd'[d] = fd[d] /\ sent'[d] = sent[d],
           \A d \in Clients : Writing(d)' => Writing(d)
    PROVE  Queues'
<1>1. Range(pool) \subseteq Msgs'
  BY MsgsKept DEF Queues, Underway, InPool
<1>2. Range(mailbox) \subseteq Msgs'
  BY MsgsKept DEF Queues, Underway, InMail
<1>3. \A d \in Clients : (InPool(d)' <=> InPool(d)) /\ (InMail(d)' <=> InMail(d))
  BY DEF InPool, InMail
<1>4. QED
  BY <1>1, <1>2, <1>3 DEF Queues

LEMMA LoopKept ==
    ASSUME Loop, UNCHANGED <<loopPc, cur, events, up>>,
           \A d \in Clients : /\ Writing(d)' <=> Writing(d)
                              /\ Underway(d)' => Underway(d)
                              /\ "out" \in mask'[d] <=> "out" \in mask[d]
    PROVE  Loop'
BY DEF Loop, LoopOf

LEMMA OrderlyInit == Init => OrderlyInv
<1> SUFFICES ASSUME Init PROVE OrderlyInv
  OBVIOUS
<1>1. \A c \in Clients : /\ hnd[c].out_buffer = <<>> /\ hnd[c].in_buffer = <<>>
                         /\ hnd[c].http_parsed = FALSE /\ wire[c] = <<>> /\ got[c] = <<>>
                         /\ sent[c] = 0 /\ peer[c] = "new" /\ served[c] = "none"
                         /\ events[c] = {} /\ mask[c] = {}
  BY DEF Init, NewHandler
<1>2. /\ Owners(pool) = {} /\ Owners(mailbox) = {} /\ OneEach(pool) /\ OneEach(mailbox)
      /\ Range(pool) = {} /\ Range(mailbox) = {}
  BY DEF Init, Owners, OneEach, Range
<1>3. Queues
  BY <1>1, <1>2 DEF Queues, InPool, InMail, Writing
<1>4. ASSUME NEW c \in Clients PROVE ExchangeOf(c) /\ LoopOf(c)
  <2>1. ~Underway(c) /\ ~Writing(c)
    BY <1>1, <1>2 DEF Underway, InPool, InMail, Writing
  <2>2. Unread(c) = <<>> /\ Len(Unread(c)) = 0
    BY <1>1, EmptySeq, ConcatEmptySeq DEF Unread
  <2>3. Consumed(c) = 0
    BY <1>1, <2>2 DEF Consumed
  <2>4. Owed(c, 0) = <<>>
    <3>1. 0 \in 0..Len(Script[c])
      BY ReactorAssumption, LenProperties
    <3>2. QED
      BY <3>1, OwedEquation
  <2>5. \A i \in DOMAIN Script[c] : ~(2 * i < 0)
    BY ReactorAssumption, LenProperties
  <2>6. Reading(c)
    BY <1>1, <2>2, <2>3, <2>4, <2>5 DEF Reading
  <2>7. QED
    BY <1>1, <2>1, <2>6 DEF ExchangeOf, LoopOf
<1>5. QED
  BY <1>3, <1>4 DEF OrderlyInv, Exchange, Loop, Init

(***************************************************************************)
(* The clients.                                                            *)
(***************************************************************************)
LEMMA ClientOrderly ==
    ASSUME Orderly, OrderlyInv, TypeOK, NEW c \in Clients, ClientStep(c)
    PROVE  OrderlyInv'
<1>1. /\ UNCHANGED <<got, served, fd, mask, hnd, loopPc, cur, events, pool, mailbox, up>>
      /\ \A d \in Clients : d # c => /\ peer'[d] = peer[d] /\ sent'[d] = sent[d]
                                     /\ wire'[d] = wire[d]
  BY DEF ClientStep, Connect, SendPiece, Finish, Reset, TypeOK, sockVars, loopVars
<1>2. \A d \in Clients : (Underway(d)' <=> Underway(d)) /\ (Writing(d)' <=> Writing(d))
  BY <1>1 DEF Underway, InPool, InMail, Writing
<1>3. ExchangeOf(c) /\ ~Reset(c)
  BY DEF OrderlyInv, Exchange, Reset, Orderly
<1>4. ~Underway(c)
  <2>1. ASSUME Underway(c) PROVE FALSE
    <3>1. Connect(c)
      BY <1>3, <2>1, ClientWaits DEF ClientStep, OrderlyInv
    <3>2. QED
      BY <2>1, <3>1, ClientWaits DEF Connect, OrderlyInv
  <2>2. QED
    BY <2>1
<1>5. Queues'
  BY <1>1, <1>2, <1>4, QueuesKept DEF OrderlyInv
<1>6. Loop'
  BY <1>1, <1>2, LoopKept DEF OrderlyInv
<1>7. ExchangeOf(c)'
  <2>1. CASE Connect(c)
    <3>1. peer[c] = "new" /\ peer'[c] = "open" /\ sent'[c] = sent[c] /\ wire'[c] = wire[c]
      BY <2>1 DEF Connect, TypeOK
    <3>2. Reading(c)
      BY <1>3, <1>4, <3>1 DEF ExchangeOf
    <3>3. Reading(c)'
      BY <1>1, <3>1, <3>2, ReadingKept
    <3>4. QED
      BY <1>1, <1>2, <1>3, <1>4, <3>1, <3>3 DEF ExchangeOf
  <2>2. CASE SendPiece(c)
    <3>1. /\ peer[c] = "open" /\ peer' = peer
          /\ sent[c] < NumPieces(c) /\ sent'[c] = sent[c] + 1
          /\ wire'[c] = Append(wire[c], Piece(c, sent[c] + 1))
          /\ sent[c] % 2 = 1 \/ Len(got[c]) = Len(Owed(c, Current(c)))
      BY <2>2 DEF SendPiece, TypeOK, Orderly, Current
    <3>2. Reading(c)
      BY <1>3, <1>4, <3>1 DEF ExchangeOf
    <3>3. Reading(c)'
      <4> DEFINE p == Piece(c, sent[c] + 1)
                 k == Consumed(c)
                 u == Unread(c)
      <4>1. /\ k \in 0..Len(Script[c]) /\ k <= Current(c)
            /\ u \in Seq(Pieces) /\ Len(u) \in Nat /\ sent[c] = 2 * k + Len(u)
            /\ hnd[c].in_buffer \in Seq(Pieces) /\ wire[c] \in Seq(Pieces)
        BY <3>2, ReadingFacts
      <4>2. p \in Pieces
        BY <3>1, PieceType, ScriptFacts
      <4>3. Unread(c)' = Append(u, p)
        <5>1. Unread(c)' = hnd[c].in_buffer \o Append(wire[c], p)
          BY <1>1, <3>1 DEF Unread
        <5>2. /\ Append(wire[c], p) = wire[c] \o <<p>>
              /\ Append(u, p) = u \o <<p>>
          BY <4>1, <4>2, AppendIsConcat
        <5>3. <<p>> \in Seq(Pieces)
          BY <4>2
        <5> HIDE DEF p
        <5>4. hnd[c].in_buffer \o (wire[c] \o <<p>>) = (hnd[c].in_buffer \o wire[c]) \o <<p>>
          <6>1. PICK one \in Seq(Pieces) : one = <<p>>
            BY <5>3
          <6>2. hnd[c].in_buffer \o (wire[c] \o one) = (hnd[c].in_buffer \o wire[c]) \o one
            <7>1. \A s, t, w \in Seq(Pieces) : (s \o t) \o w = s \o (t \o w)
              BY ConcatAssociative
            <7>2. hnd[c].in_buffer \in Seq(Pieces) /\ wire[c] \in Seq(Pieces)
              BY <4>1
            <7>3. QED
              BY <7>1, <7>2
          <6>3. QED
            BY <6>1, <6>2
        <5>5. QED
          BY <5>1, <5>2, <5>4 DEF Unread
      <4> HIDE DEF u, p
      <4>4. /\ Append(u, p) \in Seq(Pieces) /\ Len(Append(u, p)) = Len(u) + 1
            /\ \A i \in 1..Len(u) : Append(u, p)[i] = u[i]
            /\ Append(u, p)[Len(u) + 1] = p
        BY <4>1, <4>2, AppendProperties
      <4>5. Consumed(c)' = k
        <5>1. Consumed(c)' = (sent'[c] - Len(Unread(c)')) \div 2
          BY DEF Consumed
        <5>2. Consumed(c) = (sent[c] - Len(u)) \div 2
          BY DEF Consumed, u
        <5>3. sent'[c] - Len(Unread(c)') = sent[c] - Len(u)
          BY <3>1, <4>1, <4>3, <4>4
        <5>4. QED
          BY <5>1, <5>2, <5>3
      <4>6. \A i \in 1..Len(u) : u[i] = Piece(c, 2 * k + i)
        BY <3>2 DEF Reading, u
      <4> HIDE DEF k
      <4>7. \A i \in 1..Len(u) + 1 : Append(u, p)[i] = Piece(c, 2 * k + i)
        <5>1. TAKE i \in 1..Len(u) + 1
        <5>2. CASE i \in 1..Len(u)
          BY <4>4, <4>6, <5>2
        <5>3. CASE i = Len(u) + 1
          <6>1. sent[c] + 1 = 2 * k + i
            BY <4>1, <5>3
          <6>2. QED
            BY <4>4, <5>3, <6>1 DEF p
        <5>4. QED
          BY <4>1, <5>2, <5>3
      <4>8. ASSUME NEW i \in DOMAIN Script[c], i > k, 2 * i < sent[c] + 1
            PROVE  Script[c][i] = "unknown"
        <5>1. CASE 2 * i < sent[c]
          BY <3>2, <4>8, <5>1 DEF Reading, k
        <5>2. CASE ~(2 * i < sent[c])
          <6>1. /\ i \in 1..Len(Script[c]) /\ sent[c] = 2 * i /\ i = Current(c)
                /\ i - 1 \in k..Len(Script[c]) /\ i - 1 \in 0..Len(Script[c])
            <7>1. /\ i \in 1..Len(Script[c]) /\ Len(Script[c]) \in Nat /\ sent[c] \in Nat
                  /\ 2 * Current(c) <= sent[c] /\ sent[c] < 2 * Current(c) + 2
                  /\ Current(c) \in Nat
              BY ScriptFacts
            <7>2. sent[c] = 2 * i
              BY <4>8, <5>2, <7>1
            <7>3. i = Current(c)
              BY <7>1, <7>2
            <7>4. i - 1 \in k..Len(Script[c]) /\ i - 1 \in 0..Len(Script[c])
              BY <4>1, <4>8, <7>1
            <7>5. QED
              BY <7>1, <7>2, <7>3, <7>4
          <6>2. Len(got[c]) = Len(Owed(c, i))
            BY <3>1, <6>1
          <6>3. got[c] = Owed(c, k)
            BY <3>2 DEF Reading, k
          <6>4. Len(Owed(c, k)) <= Len(Owed(c, i - 1)) /\ Len(Owed(c, i - 1)) \in Nat
            BY <4>1, <6>1, OwedGrows
          <6>5. Len(Owed(c, k)) \in Nat
            BY <4>1, OwedType, LenProperties
          <6>6. Owed(c, i - 1) \in Seq(Parts)
            BY <6>1, OwedType
          <6>7. Script[c][i] # "unknown" => Len(Owed(c, i)) = Len(Owed(c, i - 1)) + 2
            BY <6>1, <6>6, OwedStep
          <6>8. QED
            BY <6>2, <6>3, <6>4, <6>5, <6>7
        <5>3. QED
          BY <5>1, <5>2
      <4>9. /\ Len(Append(u, p)) <= sent'[c] /\ (sent'[c] - Len(Append(u, p))) % 2 = 0
        <5>1. Len(Append(u, p)) = Len(u) + 1
          BY <4>4
        <5>2. QED
          BY <3>1, <4>1, <5>1
      <4>10. /\ got[c] = Owed(c, k)
             /\ hnd[c].http_parsed = TRUE =>
                   /\ hnd[c].is_http = FALSE
                   /\ \A i \in DOMAIN Script[c] : i > k => Script[c][i] = "line"
        BY <3>2 DEF Reading, k
      <4>11. \A i \in 1..Len(Append(u, p)) : Append(u, p)[i] = Piece(c, 2 * k + i)
        BY <4>4, <4>7
      <4>12. \A i \in DOMAIN Script[c] : i > k /\ 2 * i < sent'[c] => Script[c][i] = "unknown"
        BY <3>1, <4>8
      <4>13. QED
        BY <1>1, <4>3, <4>5, <4>9, <4>10, <4>11, <4>12 DEF Reading
    <3>4. QED
      BY <1>1, <1>2, <1>3, <1>4, <3>1, <3>3 DEF ExchangeOf
  <2>3. CASE Finish(c)
    <3>1. /\ peer[c] = "open" /\ peer'[c] = "fin" /\ sent' = sent /\ wire' = wire
          /\ sent[c] = NumPieces(c) /\ Len(got[c]) = Len(OwedAll(c))
      BY <2>3 DEF Finish, TypeOK, Orderly
    <3>2. Reading(c)
      BY <1>3, <1>4, <3>1 DEF ExchangeOf
    <3>3. Reading(c)'
      BY <1>1, <3>1, <3>2, ReadingKept
    <3>4. got[c] = OwedAll(c)
      <4>1. got[c] = Owed(c, Consumed(c)) /\ Consumed(c) \in 0..Len(Script[c])
        BY <3>2, ReadingFacts DEF Reading
      <4>2. Len(Script[c]) \in Consumed(c)..Len(Script[c])
        BY <4>1, ScriptFacts
      <4>3. QED
        BY <3>1, <4>1, <4>2, OwedSame DEF OwedAll
    <3>5. NumPieces(c)' = NumPieces(c) /\ OwedAll(c)' = OwedAll(c)
      BY DEF NumPieces, OwedAll
    <3>6. QED
      BY <1>1, <1>2, <1>3, <1>4, <3>1, <3>3, <3>4, <3>5 DEF ExchangeOf
  <2>4. QED
    BY <1>3, <2>1, <2>2, <2>3 DEF ClientStep
<1>8. Exchange'
  BY <1>1, <1>2, <1>7, Elsewhere DEF OrderlyInv, Exchange
<1>9. QED
  BY <1>5, <1>6, <1>8 DEF OrderlyInv
-----------------------------------------------------------------------------
(***************************************************************************)
(* The acceptor, the reactor thread and the workers.                       *)
(***************************************************************************)
LEMMA AcceptorOrderly ==
    ASSUME OrderlyInv, IInv, TypeOK, AcceptorStep
    PROVE  OrderlyInv'
<1>1. ASSUME NEW c \in Clients, Accept(c) PROVE OrderlyInv'
  <2>1. /\ peer[c] # "new" /\ served[c] = "none" /\ served'[c] = "open"
        /\ \A d \in Clients : d # c => served'[d] = served[d] /\ fd'[d] = fd[d]
        /\ UNCHANGED <<peer, sent, wire, got, mask, hnd, loopPc, cur, events, pool, mailbox, up>>
    BY <1>1 DEF Accept, TypeOK, clientVars, loopVars
  <2>2. ExchangeOf(c)
    BY DEF OrderlyInv, Exchange
  <2>3. ~Underway(c)
    BY <2>1, <2>2 DEF ExchangeOf, Answering
  <2>4. \A d \in Clients : (Underway(d)' <=> Underway(d)) /\ (Writing(d)' <=> Writing(d))
    BY <2>1 DEF Underway, InPool, InMail, Writing
  <2>5. Queues'
    BY <2>1, <2>3, <2>4, QueuesKept DEF OrderlyInv
  <2>6. Loop'
    BY <2>1, <2>4, LoopKept DEF OrderlyInv
  <2>7. Reading(c)'
    <3>1. Reading(c)
      BY <2>1, <2>2, <2>3 DEF ExchangeOf
    <3>2. QED
      BY <2>1, <3>1, ReadingKept
  <2>8. ExchangeOf(c)'
    <3>1. NumPieces(c)' = NumPieces(c) /\ OwedAll(c)' = OwedAll(c)
      BY DEF NumPieces, OwedAll
    <3>2. QED
      BY <2>1, <2>2, <2>3, <2>4, <2>7, <3>1 DEF ExchangeOf
  <2>9. Exchange'
    BY <2>1, <2>4, <2>8, Elsewhere DEF OrderlyInv, Exchange
  <2>10. QED
    BY <2>5, <2>6, <2>9 DEF OrderlyInv
<1>2. CASE EpollAdd
  <2>0. accepting \in Clients
    BY <1>2 DEF EpollAdd, IInv, Types
  <2> PICK c \in Clients : c = accepting
    BY <2>0
  <2>1. /\ mask[c] = {} /\ mask'[c] = {"in"}
        /\ \A d \in Clients : d # c => mask'[d] = mask[d]
        /\ UNCHANGED <<peer, sent, wire, got, served, fd, hnd, loopPc, cur, events, pool, mailbox, up>>
    BY <1>2, ReactorAssumption
       DEF EpollAdd, TypeOK, IInv, TableInv, clientVars, loopVars
  <2>2. ExchangeOf(c) /\ LoopOf(c)
    BY <2>1 DEF OrderlyInv, Exchange, Loop
  <2>3. ~Underway(c)
    BY <2>1, <2>2 DEF ExchangeOf, Answering
  <2>4. \A d \in Clients : (Underway(d)' <=> Underway(d)) /\ (Writing(d)' <=> Writing(d))
    BY <2>1 DEF Underway, InPool, InMail, Writing
  <2>5. Queues'
    BY <2>1, <2>4, QueuesKept DEF OrderlyInv
  <2>6. Loop'
    <3>1. \A d \in Clients : "out" \in mask'[d] <=> "out" \in mask[d]
      BY <2>1
    <3>2. QED
      BY <2>1, <2>4, <3>1, LoopKept DEF OrderlyInv
  <2>7. served[c] # "gone" => Reading(c)'
    <3>1. served[c] # "gone" => Reading(c)
      BY <2>2, <2>3 DEF ExchangeOf
    <3>2. QED
      BY <2>1, <3>1, ReadingKept
  <2>8. ExchangeOf(c)'
    <3>1. NumPieces(c)' = NumPieces(c) /\ OwedAll(c)' = OwedAll(c)
      BY DEF NumPieces, OwedAll
    <3>2. QED
      BY <2>1, <2>2, <2>3, <2>4, <2>7, <3>1 DEF ExchangeOf
  <2>9. Exchange'
    BY <2>1, <2>4, <2>8, Elsewhere DEF OrderlyInv, Exchange
  <2>10. QED
    BY <2>5, <2>6, <2>9 DEF OrderlyInv
<1>3. QED
  BY <1>1, <1>2 DEF AcceptorStep

LEMMA PhaseFacts ==
    ASSUME NEW evs
    PROVE  /\ Phase(evs) = "read" => "in" \in evs
           /\ Phase(evs) = "write" => "in" \notin evs /\ "out" \in evs
           /\ Phase(evs) = "close" => "hup" \in evs
<1>1. CASE "in" \in evs
  BY <1>1 DEF Phase
<1>2. CASE "in" \notin evs /\ "out" \in evs
  BY <1>2 DEF Phase
<1>3. CASE "in" \notin evs /\ "out" \notin evs
  BY <1>3 DEF Phase
<1>4. QED
  BY <1>1, <1>2, <1>3

(* A step that changes nothing of a connection but what the loop is about  *)
(* to do with it.                                                          *)
LEMMA ConnectionsKept ==
    ASSUME Queues, Exchange,
           UNCHANGED <<peer, sent, wire, got, served, fd, mask, hnd, pool, mailbox>>
    PROVE  /\ Queues' /\ Exchange'
           /\ \A d \in Clients : (Underway(d)' <=> Underway(d)) /\ (Writing(d)' <=> Writing(d))
<1>1. \A d \in Clients : (Underway(d)' <=> Underway(d)) /\ (Writing(d)' <=> Writing(d))
  BY DEF Underway, InPool, InMail, Writing
<1>2. Queues'
  BY <1>1, QueuesKept
<1>3. Exchange'
  BY <1>1, Elsewhere DEF Exchange
<1>4. QED
  BY <1>1, <1>2, <1>3

LEMMA BatchOrderly ==
    ASSUME OrderlyInv, IInv, TypeOK,
           EpollWait \/ EndBatch \/ \E c \in Clients : StartEvent(c)
    PROVE  OrderlyInv'
<1>1. UNCHANGED <<peer, sent, wire, got, served, fd, mask, hnd, pool, mailbox, up>>
  BY DEF EpollWait, EndBatch, StartEvent, clientVars, sockVars
<1>2. /\ Queues' /\ Exchange'
      /\ \A d \in Clients : (Underway(d)' <=> Underway(d)) /\ (Writing(d)' <=> Writing(d))
  BY <1>1, ConnectionsKept DEF OrderlyInv
<1>3. up' = TRUE
  BY <1>1 DEF OrderlyInv, Loop
<1>4. CASE EpollWait
  <2>1. events' = [c \in Clients |-> Ready(c)] /\ loopPc' = "batch"
    BY <1>4 DEF EpollWait
  <2>2. ASSUME NEW c \in Clients PROVE LoopOf(c)'
    <3>1. ExchangeOf(c) /\ LoopOf(c)
      BY DEF OrderlyInv, Exchange, Loop
    <3>2. events'[c] = Ready(c) /\ mask' = mask
      BY <1>1, <2>1
    <3>3. "hup" \notin Ready(c) /\ ("out" \in Ready(c) => "out" \in mask[c])
      BY <3>1 DEF Ready, ExchangeOf
    <3>4. Underway(c) => "in" \notin Ready(c)
      BY <3>1 DEF Ready, ExchangeOf, Answering
    <3>5. QED
      BY <1>2, <3>1, <3>2, <3>3, <3>4 DEF LoopOf
  <2>3. Loop'
    BY <1>3, <2>1, <2>2 DEF Loop
  <2>4. QED
    BY <1>2, <2>3 DEF OrderlyInv
<1>5. CASE EndBatch
  <2>1. /\ \A c \in Clients : events'[c] = {}
        /\ loopPc' = "wait"
    BY <1>5 DEF EndBatch
  <2>2. \A c \in Clients : LoopOf(c)'
    BY <1>1, <1>2, <2>1 DEF OrderlyInv, Loop, LoopOf
  <2>3. Loop'
    BY <1>3, <2>1, <2>2 DEF Loop
  <2>4. QED
    BY <1>2, <2>3 DEF OrderlyInv
<1>6. ASSUME NEW c \in Clients, StartEvent(c) PROVE OrderlyInv'
  <2>1. /\ loopPc = "batch" /\ cur' = c /\ events' = events /\ loopPc' = Phase(events[c])
    BY <1>6 DEF StartEvent
  <2>2. \A d \in Clients : LoopOf(d)'
    BY <1>1, <1>2, <2>1 DEF OrderlyInv, Loop, LoopOf
  <2>3. "hup" \notin events[c] /\ events[c] = events'[cur']
    BY <2>1 DEF OrderlyInv, Loop, LoopOf
  <2>4. /\ loopPc' = "read" => "in" \in events'[cur']
        /\ loopPc' = "write" => "in" \notin events'[cur'] /\ "out" \in events'[cur']
        /\ loopPc' # "close"
    BY <2>1, <2>3, PhaseFacts
  <2>5. Loop'
    BY <1>3, <2>2, <2>4 DEF Loop
  <2>6. QED
    BY <1>2, <2>5 DEF OrderlyInv
<1>7. QED
  BY <1>4, <1>5, <1>6

(* The current handler has dealt with one of its events.                   *)
LEMMA EventDoneLoop ==
    ASSUME Loop, TypeOK, cur \in Clients,
           NEW ev, EventDone(ev),
           (loopPc = "read" /\ ev = "in") \/ (loopPc = "write" /\ ev = "out"),
           \A d \in Clients : "out" \in mask'[d] <=> Writing(d)',
           \A d \in Clients : d # cur => (Underway(d)' <=> Underway(d)) /\ (Writing(d)' <=> Writing(d)),
           ev = "in" => (Writing(cur)' <=> Writing(cur))
    PROVE  Loop'
<1>1. /\ events' = [events EXCEPT ![cur] = @ \ {ev}] /\ cur' = cur /\ up' = up
      /\ loopPc' = Phase(events[cur] \ {ev})
      /\ events'[cur] = events[cur] \ {ev}
      /\ \A d \in Clients : d # cur => events'[d] = events[d]
  BY DEF EventDone, TypeOK
<1>2. ASSUME NEW d \in Clients PROVE LoopOf(d)'
  <2>1. LoopOf(d)
    BY DEF Loop
  <2>2. CASE d = cur
    <3>1. "in" \notin events'[d]
      BY <1>1, <2>2 DEF Loop
    <3>2. "out" \in events'[d] => ev = "in" /\ "out" \in events[d]
      BY <1>1, <2>2
    <3>3. QED
      BY <1>1, <2>1, <2>2, <3>1, <3>2 DEF LoopOf
  <2>3. CASE d # cur
    BY <1>1, <2>1, <2>3 DEF LoopOf
  <2>4. QED
    BY <2>2, <2>3
<1>3. "hup" \notin events[cur] /\ "in" \notin events'[cur]
  BY <1>1 DEF Loop, LoopOf
<1>4. /\ loopPc' # "read" /\ loopPc' # "close"
      /\ loopPc' = "write" => "out" \in events'[cur]
  BY <1>1, <1>3 DEF Phase
<1>5. QED
  BY <1>1, <1>2, <1>3, <1>4 DEF Loop

LEMMA ReadEndOrderly ==
    ASSUME OrderlyInv, IInv, TypeOK, RecvAgain \/ RecvEnd
    PROVE  OrderlyInv'
<1>1. loopPc = "read" /\ up /\ wire[cur] = <<>>
  BY DEF RecvAgain, RecvEnd
<1>2. cur \in Clients /\ served[cur] = "open"
  BY <1>1, CurIsLive DEF Phases
<1>3. CASE RecvAgain
  <2>1. /\ EventDone("in")
        /\ UNCHANGED <<peer, sent, wire, got, served, fd, mask, hnd, pool, mailbox>>
    BY <1>3 DEF RecvAgain, clientVars, sockVars
  <2>2. /\ Queues' /\ Exchange'
        /\ \A d \in Clients : (Underway(d)' <=> Underway(d)) /\ (Writing(d)' <=> Writing(d))
    BY <2>1, ConnectionsKept DEF OrderlyInv
  <2>3. \A d \in Clients : "out" \in mask'[d] <=> Writing(d)'
    BY <2>1, <2>2 DEF OrderlyInv, Loop, LoopOf
  <2>4. Loop'
    <3>1. Loop /\ EventDone("in")
      BY <2>1 DEF OrderlyInv
    <3>2. /\ \A d \in Clients : d # cur => (Underway(d)' <=> Underway(d)) /\ (Writing(d)' <=> Writing(d))
          /\ Writing(cur)' <=> Writing(cur)
      BY <1>2, <2>1, <2>2 DEF EventDone
    <3>3. QED
      BY <1>1, <1>2, <2>3, <3>1, <3>2, EventDoneLoop
  <2>5. QED
    BY <2>2, <2>4 DEF OrderlyInv
<1>4. CASE RecvEnd
  <2> PICK c \in Clients : c = cur
    BY <1>2
  <2>1. ExchangeOf(c) /\ LoopOf(c) /\ peer[c] = "fin"
    BY <1>2, <1>4 DEF RecvEnd, OrderlyInv, Exchange, ExchangeOf, Loop
  <2>2. ~Underway(c)
    BY <2>1 DEF ExchangeOf, Answering
  <2>3. events[c] \ {"in"} = {}
    <3>1. "out" \notin events[c] /\ "hup" \notin events[c]
      BY <2>1, <2>2 DEF LoopOf, Underway
    <3>2. QED
      BY <1>2, <3>1 DEF TypeOK
  <2>4. HandleClose(c, FALSE) /\ UNCHANGED <<peer, sent, got, wire, pool, mailbox>>
    BY <1>4, <2>3 DEF RecvEnd, clientVars
  <2>5. /\ mask'[c] = {} /\ served'[c] = "gone" /\ hnd'[c] = NewHandler /\ events'[c] = {}
        /\ loopPc' = "batch" /\ up' = TRUE /\ cur' = c
        /\ \A d \in Clients : d # c =>
              /\ mask'[d] = mask[d] /\ served'[d] = served[d] /\ hnd'[d] = hnd[d]
              /\ events'[d] = events[d] /\ fd'[d] = fd[d]
    BY <1>2, <2>4 DEF HandleClose, TypeOK
  <2>6. \A d \in Clients : (Underway(d)' <=> Underway(d)) /\ (Writing(d)' <=> Writing(d))
    <3>1. hnd'[c].out_buffer = <<>>
      BY <2>5 DEF NewHandler
    <3>2. hnd[c].out_buffer = <<>>
      BY <2>2 DEF Underway, Writing
    <3>3. QED
      BY <2>4, <2>5, <3>1, <3>2 DEF Underway, InPool, InMail, Writing
  <2>7. Queues'
    BY <2>2, <2>4, <2>5, <2>6, QueuesKept DEF OrderlyInv
  <2>8. ExchangeOf(c)'
    <3>1. NumPieces(c)' = NumPieces(c) /\ OwedAll(c)' = OwedAll(c)
      BY DEF NumPieces, OwedAll
    <3>2. QED
      BY <2>1, <2>2, <2>4, <2>5, <2>6, <3>1 DEF ExchangeOf
  <2>9. Exchange'
    BY <2>4, <2>5, <2>6, <2>8, Elsewhere DEF OrderlyInv, Exchange
  <2>10. ASSUME NEW d \in Clients PROVE LoopOf(d)'
    <3>1. LoopOf(d)
      BY DEF OrderlyInv, Loop
    <3>2. CASE d = c
      BY <2>2, <2>5, <2>6, <3>2 DEF LoopOf, Underway
    <3>3. CASE d # c
      BY <2>5, <2>6, <3>1, <3>3 DEF LoopOf
    <3>4. QED
      BY <3>2, <3>3
  <2>11. Loop'
    BY <2>5, <2>10 DEF Loop
  <2>12. QED
    BY <2>7, <2>9, <2>11 DEF OrderlyInv
<1>5. QED
  BY <1>3, <1>4

LEMMA TwoHalves ==
    ASSUME NEW S, NEW p \in S, NEW q \in S
    PROVE  /\ SubSeq(<<p, q>>, 1, 1) = <<p>> /\ SubSeq(<<p, q>>, 2, 2) = <<q>>
<1>1. <<p>> \in Seq(S) /\ <<q>> \in Seq(S)
  OBVIOUS
<1>2. SubSeq(<<p, q>>, 1, 1) = <<p>>
  <2>1. \A i \in 1..1 : <<p, q>>[i] \in S
    OBVIOUS
  <2>2. /\ SubSeq(<<p, q>>, 1, 1) \in Seq(S) /\ Len(SubSeq(<<p, q>>, 1, 1)) = 1
        /\ SubSeq(<<p, q>>, 1, 1)[1] = p
    BY <2>1, SubSeqProperties
  <2>3. Len(<<p>>) = 1 /\ <<p>>[1] = p
    OBVIOUS
  <2>4. \A i \in 1..1 : SubSeq(<<p, q>>, 1, 1)[i] = <<p>>[i]
    BY <2>2, <2>3
  <2>5. QED
    BY <1>1, <2>2, <2>3, <2>4, SeqEqual
<1>3. SubSeq(<<p, q>>, 2, 2) = <<q>>
  <2>1. \A i \in 2..2 : <<p, q>>[i] \in S
    OBVIOUS
  <2>2. /\ SubSeq(<<p, q>>, 2, 2) \in Seq(S) /\ Len(SubSeq(<<p, q>>, 2, 2)) = 1
        /\ SubSeq(<<p, q>>, 2, 2)[1] = q
    BY <2>1, SubSeqProperties
  <2>3. Len(<<q>>) = 1 /\ <<q>>[1] = q
    OBVIOUS
  <2>4. \A i \in 1..1 : SubSeq(<<p, q>>, 2, 2)[i] = <<q>>[i]
    BY <2>2, <2>3
  <2>5. QED
    BY <1>1, <2>2, <2>3, <2>4, SeqEqual
<1>4. QED
  BY <1>2, <1>3

LEMMA AppendTwo ==
    ASSUME NEW S, NEW s \in Seq(S), NEW p \in S, NEW q \in S
    PROVE  Append(s, p) \o <<q>> = s \o <<p, q>>
<1>1. <<p>> \in Seq(S) /\ <<q>> \in Seq(S) /\ <<p, q>> \in Seq(S)
  OBVIOUS
<1>2. <<p>> \o <<q>> = <<p, q>>
  <2>1. /\ <<p>> \o <<q>> \in Seq(S) /\ Len(<<p>> \o <<q>>) = Len(<<p>>) + Len(<<q>>)
        /\ \A i \in 1..Len(<<p>>) + Len(<<q>>) :
              (<<p>> \o <<q>>)[i] = IF i <= Len(<<p>>) THEN <<p>>[i] ELSE <<q>>[i - Len(<<p>>)]
    BY <1>1, ConcatProperties
  <2>2. /\ Len(<<p>>) = 1 /\ Len(<<q>>) = 1 /\ Len(<<p, q>>) = 2
        /\ <<p>>[1] = p /\ <<q>>[1] = q /\ <<p, q>>[1] = p /\ <<p, q>>[2] = q
    OBVIOUS
  <2>3. Len(<<p>> \o <<q>>) = 2 /\ (<<p>> \o <<q>>)[1] = p /\ (<<p>> \o <<q>>)[2] = q
    BY <2>1, <2>2
  <2>4. \A i \in 1..2 : (<<p>> \o <<q>>)[i] = <<p, q>>[i]
    BY <2>2, <2>3
  <2>5. QED
    BY <1>1, <2>1, <2>2, <2>3, <2>4, SeqEqual
<1>3. (s \o <<p>>) \o <<q>> = s \o (<<p>> \o <<q>>)
  BY <1>1, ConcatAssociative
<1>4. Append(s, p) = s \o <<p>>
  BY AppendIsConcat
<1>5. QED
  BY <1>2, <1>3, <1>4

LEMMA FinishOrderly ==
    ASSUME OrderlyInv, TypeOK, NEW i \in 1..Width, FinishTask(i)
    PROVE  OrderlyInv'
<1>1. /\ i \in DOMAIN pool /\ pool' = RemoveAt(pool, i) /\ mailbox' = Append(mailbox, pool[i])
      /\ UNCHANGED <<peer, sent, wire, got, served, fd, mask, hnd, loopPc, cur, events, up>>
  BY DEF FinishTask, clientVars, sockVars, loopVars
<1>2. /\ pool \in Seq(Messages) /\ mailbox \in Seq(Messages) /\ pool[i] \in Messages
      /\ OneEach(pool) /\ OneEach(mailbox)
      /\ Range(pool) \subseteq Msgs /\ Range(mailbox) \subseteq Msgs
  BY <1>1, RemoveType DEF TypeOK, OrderlyInv, Queues
<1> DEFINE m == pool[i]
<1>3. /\ Owners(pool') = Owners(pool) \ {m.id[1]}
      /\ Range(pool') \subseteq Range(pool) /\ m \in Range(pool) /\ OneEach(pool')
  BY <1>1, <1>2, RemoveOwners
<1>4. /\ Owners(mailbox') = Owners(mailbox) \cup {m.id[1]}
      /\ Range(mailbox') = Range(mailbox) \cup {m}
      /\ m.id[1] \notin Owners(mailbox) => OneEach(mailbox')
  BY <1>1, <1>2, AppendOwners
<1>5. PICK c \in Clients : m = Msg(c)
  BY <1>2, <1>3 DEF Msgs
<1>6. m.id[1] = c /\ c \in Owners(pool)
  BY <1>1, <1>5 DEF Msg, Owners
<1> HIDE DEF m
<1>7. Msgs' = Msgs
  BY <1>1 DEF Msgs, Msg, Current
<1>8. \A d \in Clients : Writing(d)' <=> Writing(d)
  BY <1>1 DEF Writing
<1>9. \A d \in Clients :
         /\ InPool(d)' <=> InPool(d) /\ d # c
         /\ InMail(d)' <=> InMail(d) \/ d = c
  BY <1>3, <1>4, <1>6 DEF InPool, InMail
<1>10. InPool(c) /\ ~InMail(c) /\ ~Writing(c)
  BY <1>6 DEF InPool, OrderlyInv, Queues
<1>11. \A d \in Clients : Underway(d)' <=> Underway(d)
  BY <1>8, <1>9, <1>10 DEF Underway
<1>12. Queues'
  <2>1. Range(pool') \subseteq Msgs' /\ Range(mailbox') \subseteq Msgs'
    BY <1>2, <1>3, <1>4, <1>7
  <2>2. OneEach(pool') /\ OneEach(mailbox')
    BY <1>3, <1>4, <1>6, <1>10 DEF InMail
  <2>3. \A d \in Clients : /\ ~(InPool(d)' /\ InMail(d)')
                           /\ Writing(d)' => ~InPool(d)' /\ ~InMail(d)'
    BY <1>8, <1>9, <1>10 DEF OrderlyInv, Queues
  <2>4. QED
    BY <2>1, <2>2, <2>3 DEF Queues
<1>13. Exchange'
  BY <1>1, <1>11, Elsewhere DEF OrderlyInv, Exchange
<1>14. Loop'
  BY <1>1, <1>8, <1>11, LoopKept DEF OrderlyInv
<1>15. QED
  BY <1>12, <1>13, <1>14 DEF OrderlyInv

LEMMA DeliverOrderly ==
    ASSUME OrderlyInv, IInv, TypeOK, Deliver
    PROVE  OrderlyInv'
<1> DEFINE m == Head(mailbox)
<1>1. /\ mailbox # <<>> /\ mailbox' = Tail(mailbox)
      /\ UNCHANGED <<peer, sent, wire, got, served, fd, loopPc, cur, events, pool, up>>
  BY DEF Deliver, clientVars, sockVars, loopVars
<1>2. /\ mailbox \in Seq(Messages) /\ OneEach(mailbox)
      /\ Range(pool) \subseteq Msgs /\ Range(mailbox) \subseteq Msgs /\ OneEach(pool)
  BY DEF TypeOK, OrderlyInv, Queues
<1>3. /\ Owners(mailbox') = Owners(mailbox) \ {m.id[1]}
      /\ Range(mailbox') \subseteq Range(mailbox) /\ m \in Range(mailbox) /\ OneEach(mailbox')
  BY <1>1, <1>2, TailOwners
<1>4. PICK c \in Clients : m = Msg(c)
  BY <1>2, <1>3 DEF Msgs
<1>5. m.id[1] = c /\ c \in Owners(mailbox) /\ m.fd = fd[c] /\ m.id = <<c, Current(c)>>
  BY <1>3, <1>4 DEF Msg, Owners, Range
<1>6. InMail(c) /\ ~InPool(c) /\ ~Writing(c) /\ Underway(c)
  BY <1>5 DEF InMail, Underway, OrderlyInv, Queues
<1>7. Answering(c) /\ ExchangeOf(c)
  BY <1>6 DEF OrderlyInv, Exchange, ExchangeOf
<1>8. fd_to_handler[m.fd] = c /\ c # None /\ mask[c] # {}
  <2>1. served[c] = "open" /\ mask[c] # {}
    BY <1>7 DEF Answering
  <2>2. QED
    BY <1>5, <2>1, ReactorAssumption DEF IInv, TableInv, Working
<1>9. /\ hnd' = [hnd EXCEPT ![c].out_buffer = AnswerPieces(<<c, Current(c)>>)]
      /\ mask' = [mask EXCEPT ![c] = {"in", "out"}]
  BY <1>5, <1>8 DEF Deliver
<1> HIDE DEF m
<1>10. /\ hnd'[c].out_buffer = <<Part(c, 1), Part(c, 2)>>
       /\ hnd'[c].in_buffer = hnd[c].in_buffer /\ hnd'[c].is_http = hnd[c].is_http
       /\ hnd'[c].http_parsed = hnd[c].http_parsed
       /\ mask'[c] = {"in", "out"}
       /\ \A d \in Clients : d # c => hnd'[d] = hnd[d] /\ mask'[d] = mask[d]
  <2>1. hnd \in [Clients -> Handlers] /\ mask \in [Clients -> {{}, {"in"}, {"in", "out"}}]
    BY DEF TypeOK, Handlers
  <2>2. AnswerPieces(<<c, Current(c)>>) = <<Part(c, 1), Part(c, 2)>>
    BY DEF AnswerPieces, Part
  <2>3. /\ hnd'[c] = [hnd[c] EXCEPT !.out_buffer = <<Part(c, 1), Part(c, 2)>>]
        /\ mask'[c] = {"in", "out"}
        /\ \A d \in Clients : d # c => hnd'[d] = hnd[d] /\ mask'[d] = mask[d]
    BY <1>9, <2>1, <2>2
  <2>4. hnd[c] \in Handlers
    BY <2>1
  <2>5. QED
    BY <2>3, <2>4 DEF Handlers
<1>11. Writing(c)' /\ \A d \in Clients : d # c => (Writing(d)' <=> Writing(d))
  BY <1>10 DEF Writing
<1>12. \A d \in Clients : /\ InPool(d)' <=> InPool(d)
                          /\ InMail(d)' <=> InMail(d) /\ d # c
  BY <1>1, <1>3, <1>5 DEF InPool, InMail
<1>13. \A d \in Clients : Underway(d)' <=> Underway(d)
  BY <1>6, <1>11, <1>12 DEF Underway
<1>14. Queues'
  <2>1. Msgs' = Msgs
    BY <1>1 DEF Msgs, Msg, Current
  <2>2. Range(pool') \subseteq Msgs' /\ Range(mailbox') \subseteq Msgs'
    BY <1>1, <1>2, <1>3, <2>1
  <2>3. OneEach(pool') /\ OneEach(mailbox')
    BY <1>1, <1>2, <1>3
  <2>4. \A d \in Clients : /\ ~(InPool(d)' /\ InMail(d)')
                           /\ Writing(d)' => ~InPool(d)' /\ ~InMail(d)'
    BY <1>6, <1>11, <1>12 DEF OrderlyInv, Queues
  <2>5. QED
    BY <2>2, <2>3, <2>4 DEF Queues
<1>15. ExchangeOf(c)'
  <2>1. /\ Part(c, 1)' = Part(c, 1) /\ Part(c, 2)' = Part(c, 2) /\ Current(c)' = Current(c)
    BY <1>1 DEF Part, Current
  <2>2. hnd[c].out_buffer = <<>> /\ got[c] = Owed(c, Current(c) - 1)
    <3>1. <<Part(c, 2)>> # <<>>
      OBVIOUS
    <3>2. QED
      BY <1>6, <1>7, <3>1 DEF Writing, Answering, Answered
  <2>3. Answered(c)'
    BY <1>1, <1>10, <2>1, <2>2 DEF Answered
  <2>4. Answering(c)'
    BY <1>1, <1>7, <1>10, <2>1, <2>3 DEF Answering
  <2>5. NumPieces(c)' = NumPieces(c) /\ OwedAll(c)' = OwedAll(c)
    BY DEF NumPieces, OwedAll
  <2>6. QED
    BY <1>1, <1>6, <1>7, <1>13, <2>4, <2>5 DEF ExchangeOf
<1>16. Exchange'
  BY <1>1, <1>10, <1>13, <1>15, Elsewhere DEF OrderlyInv, Exchange
<1>17. Loop'
  <2>1. ASSUME NEW d \in Clients PROVE LoopOf(d)'
    BY <1>1, <1>10, <1>11, <1>13 DEF OrderlyInv, Loop, LoopOf
  <2>2. QED
    BY <1>1, <2>1 DEF OrderlyInv, Loop
<1>18. QED
  BY <1>14, <1>16, <1>17 DEF OrderlyInv

LEMMA WriteOrderly ==
    ASSUME LinesStayLines, OrderlyInv, IInv, TypeOK, HandleWrite
    PROVE  OrderlyInv'
<1>1. loopPc = "write" /\ up /\ cur \in Clients
  BY CurIsLive DEF HandleWrite, Phases
<1> PICK c \in Clients : c = cur
  BY <1>1
<1>2. Writing(c) /\ Underway(c) /\ ExchangeOf(c)
  BY <1>1 DEF OrderlyInv, Loop, LoopOf, Underway, Exchange
<1>3. Answering(c) /\ ~InPool(c) /\ ~InMail(c)
  BY <1>2 DEF ExchangeOf, OrderlyInv, Queues
<1> DEFINE out == hnd[c].out_buffer
           before == Owed(c, Current(c) - 1)
<1>4. /\ peer[c] = "open" /\ hnd[c].in_buffer = <<>> /\ wire[c] = <<>>
      /\ served[c] = "open" /\ mask[c] # {}
      /\ hnd[c].http_parsed = TRUE /\ hnd[c].is_http = (Script[c][Current(c)] # "line")
  BY <1>3 DEF Answering
<1>5. PICK n \in 1..Len(out) :
        /\ hnd' = [hnd EXCEPT
             ![c].out_buffer = SubSeq(out, n + 1, Len(out)),
             ![c].http_parsed = IF n = Len(out) /\ hnd[c].is_http THEN FALSE ELSE @,
             ![c].in_buffer = IF n = Len(out) /\ hnd[c].is_http THEN <<>> ELSE @]
        /\ mask' = IF n = Len(out) THEN [mask EXCEPT ![c] = {"in"}] ELSE mask
        /\ got' = [got EXCEPT ![c] = @ \o SubSeq(out, 1, n)]
        /\ UNCHANGED <<peer, wire>>
  BY <1>4 DEF HandleWrite
<1>6. EventDone("out") /\ UNCHANGED <<sent, served, fd, pool, mailbox>>
  BY DEF HandleWrite, sockVars
<1>7. /\ hnd'[c].out_buffer = SubSeq(out, n + 1, Len(out))
      /\ hnd'[c].in_buffer = <<>>
      /\ hnd'[c].is_http = hnd[c].is_http
      /\ hnd'[c].http_parsed = IF n = Len(out) /\ hnd[c].is_http THEN FALSE ELSE hnd[c].http_parsed
      /\ got'[c] = got[c] \o SubSeq(out, 1, n)
      /\ \A d \in Clients : d # c => hnd'[d] = hnd[d] /\ mask'[d] = mask[d] /\ got'[d] = got[d]
  <2> DEFINE next == n = Len(out) /\ hnd[c].is_http
  <2>1. /\ hnd \in [Clients -> Handlers] /\ got \in [Clients -> Seq(Parts)]
        /\ mask \in [Clients -> {{}, {"in"}, {"in", "out"}}]
    BY DEF TypeOK, Handlers
  <2>2. hnd' = [hnd EXCEPT ![c].out_buffer = SubSeq(out, n + 1, Len(out)),
                           ![c].http_parsed = IF next THEN FALSE ELSE @,
                           ![c].in_buffer = IF next THEN <<>> ELSE @]
    BY <1>5
  <2>3. /\ \A d \in Clients : d # c => mask'[d] = mask[d] /\ got'[d] = got[d]
        /\ got'[c] = got[c] \o SubSeq(out, 1, n)
    BY <1>5, <2>1
  <2> DEFINE rest == SubSeq(out, n + 1, Len(out))
  <2> HIDE DEF next, out, rest
  <2>4. hnd[c] \in Handlers
    BY <2>1
  <2>5. /\ hnd'[c].out_buffer = rest
        /\ hnd'[c].in_buffer = (IF next THEN <<>> ELSE hnd[c].in_buffer)
        /\ hnd'[c].is_http = hnd[c].is_http
        /\ hnd'[c].http_parsed = (IF next THEN FALSE ELSE hnd[c].http_parsed)
        /\ \A d \in Clients : d # c => hnd'[d] = hnd[d]
    BY <2>1, <2>2, <2>4 DEF rest, Handlers
  <2>6. hnd'[c].in_buffer = <<>>
    BY <1>4, <2>5
  <2>7. QED
    BY <2>3, <2>5, <2>6 DEF next, rest
<1>8. /\ Current(c) \in 1..Len(Script[c]) /\ sent[c] = 2 * Current(c)
      /\ before \in Seq(Parts) /\ Part(c, 1) \in Parts /\ Part(c, 2) \in Parts
      /\ Owed(c, Current(c)) = before \o <<Part(c, 1), Part(c, 2)>>
  BY <1>3, AnsweringFacts
<1>9. \/ out = <<Part(c, 1), Part(c, 2)>> /\ got[c] = before
      \/ out = <<Part(c, 2)>> /\ got[c] = Append(before, Part(c, 1))
  BY <1>2, <1>3 DEF Answering, Answered, Writing
<1>10. \A d \in Clients : d # c => /\ (Writing(d)' <=> Writing(d))
                                   /\ (Underway(d)' <=> Underway(d))
  BY <1>6, <1>7 DEF Underway, InPool, InMail, Writing
<1>11. Current(c)' = Current(c) /\ Part(c, 1)' = Part(c, 1) /\ Part(c, 2)' = Part(c, 2)
  BY <1>6 DEF Current, Part
<1>12. NumPieces(c)' = NumPieces(c) /\ OwedAll(c)' = OwedAll(c)
  BY DEF NumPieces, OwedAll
<1> HIDE DEF out, before
<1>13. CASE n = Len(out)
  <2>1. mask'[c] = {"in"}
    BY <1>5, <1>13 DEF TypeOK
  <2>2. /\ out \in Seq(Parts) /\ Len(out) \in Nat
        /\ SubSeq(out, 1, n) = out /\ SubSeq(out, n + 1, Len(out)) = <<>>
    <3>1. out \in Seq(Parts) /\ Len(out) \in Nat
      BY LenProperties DEF TypeOK, out
    <3>2. n + 1 \in Int /\ Len(out) \in Int /\ Len(out) < n + 1
      BY <1>13, <3>1
    <3>3. QED
      BY <1>13, <3>1, <3>2, SubSeqFull, SubSeqEmpty
  <2>3. got'[c] = Owed(c, Current(c))
    <3>1. CASE out = <<Part(c, 1), Part(c, 2)>> /\ got[c] = before
      BY <1>7, <1>8, <2>2, <3>1
    <3>2. CASE out = <<Part(c, 2)>> /\ got[c] = Append(before, Part(c, 1))
      <4>1. Append(before, Part(c, 1)) \o <<Part(c, 2)>> = before \o <<Part(c, 1), Part(c, 2)>>
        BY <1>8, AppendTwo
      <4>2. QED
        BY <1>7, <1>8, <2>2, <3>2, <4>1
    <3>3. QED
      BY <1>9, <3>1, <3>2
  <2>4. ~Writing(c)' /\ ~InPool(c)' /\ ~InMail(c)' /\ ~Underway(c)'
    BY <1>3, <1>6, <1>7, <2>2 DEF Writing, InPool, InMail, Underway
  <2>5. Unread(c)' = <<>> /\ Len(Unread(c)') = 0
    <3>1. wire'[c] = <<>> /\ hnd'[c].in_buffer = <<>>
      BY <1>4, <1>5, <1>7
    <3>2. QED
      BY <3>1, ConcatEmptySeq, EmptySeq DEF Unread
  <2>6. Consumed(c)' = Current(c)
    <3>1. Consumed(c)' = (sent'[c] - Len(Unread(c)')) \div 2
      BY DEF Consumed
    <3>2. sent'[c] - Len(Unread(c)') = 2 * Current(c) /\ Current(c) \in Nat
      BY <1>6, <1>8, <2>5
    <3>3. QED
      BY <3>1, <3>2
  <2>7. Reading(c)'
    <3>1. Len(Unread(c)') <= sent'[c] /\ (sent'[c] - Len(Unread(c)')) % 2 = 0
      <4>1. sent'[c] = 2 * Current(c) /\ Current(c) \in Nat
        BY <1>6, <1>8
      <4>2. QED
        BY <2>5, <4>1
    <3>2. 1..Len(Unread(c)') = {}
      BY <2>5
    <3>3. \A i \in DOMAIN Script[c] : ~(i > Current(c) /\ 2 * i < sent'[c])
      BY <1>6, <1>8, ScriptFacts
    <3>4. hnd'[c].http_parsed = TRUE =>
             /\ hnd'[c].is_http = FALSE
             /\ \A i \in DOMAIN Script[c] : i > Current(c) => Script[c][i] = "line"
      <4>1. SUFFICES ASSUME hnd'[c].http_parsed = TRUE
                     PROVE  /\ hnd'[c].is_http = FALSE
                            /\ \A i \in DOMAIN Script[c] : i > Current(c) => Script[c][i] = "line"
        OBVIOUS
      <4>2. hnd[c].is_http \in BOOLEAN
        BY DEF TypeOK
      <4>3. hnd'[c].is_http = FALSE /\ Script[c][Current(c)] = "line"
        BY <1>4, <1>7, <1>13, <4>1, <4>2
      <4>4. Current(c) \in DOMAIN Script[c]
        BY <1>8, ScriptFacts
      <4>5. \A i \in DOMAIN Script[c] : i > Current(c) => Current(c) < i
        BY <1>8, ScriptFacts
      <4>6. QED
        BY <4>3, <4>4, <4>5 DEF LinesStayLines
    <3>5. QED
      BY <2>3, <2>6, <3>1, <3>2, <3>3, <3>4 DEF Reading
  <2>8. ExchangeOf(c)'
    BY <1>4, <1>5, <1>6, <2>4, <2>7 DEF ExchangeOf
  <2>9. Exchange'
    BY <1>5, <1>6, <1>7, <1>10, <2>8, Elsewhere DEF OrderlyInv, Exchange
  <2>10. Queues'
    <3>1. \A d \in Clients : Writing(d)' => Writing(d)
      BY <1>10, <2>4
    <3>2. QED
      BY <1>6, <3>1, QueuesKept DEF OrderlyInv
  <2>11. Loop'
    <3>1. \A d \in Clients : "out" \in mask'[d] <=> Writing(d)'
      BY <1>7, <1>10, <2>1, <2>4 DEF OrderlyInv, Loop, LoopOf
    <3>2. QED
      BY <1>1, <1>6, <1>10, <3>1, EventDoneLoop DEF OrderlyInv
  <2>12. QED
    BY <2>9, <2>10, <2>11 DEF OrderlyInv
<1>14. CASE n # Len(out)
  <2>1. mask' = mask
    BY <1>5, <1>14
  <2>2. out = <<Part(c, 1), Part(c, 2)>> /\ got[c] = before /\ n = 1 /\ Len(out) = 2
    <3>1. Len(<<Part(c, 1), Part(c, 2)>>) = 2 /\ Len(<<Part(c, 2)>>) = 1
      OBVIOUS
    <3>2. n \in 1..Len(out) /\ n # Len(out)
      BY <1>5, <1>14
    <3>3. Len(out) # 1
      <4>1. SUFFICES ASSUME Len(out) = 1 PROVE n = 1
        BY <3>2
      <4>2. n \in 1..1
        BY <3>2, <4>1
      <4>3. QED
        BY <4>2
    <3>4. out = <<Part(c, 1), Part(c, 2)>> /\ got[c] = before
      <4> HIDE DEF out, before
      <4>1. QED
        BY <1>9, <3>1, <3>3
    <3>5. Len(out) = 2
      BY <3>1, <3>4
    <3>6. n = 1
      <4> HIDE DEF out
      <4>1. QED
        BY <3>2, <3>5
    <3>7. QED
      BY <3>4, <3>5, <3>6
  <2>3. hnd'[c].out_buffer = <<Part(c, 2)>> /\ hnd'[c].http_parsed = hnd[c].http_parsed
    <3>1. SubSeq(out, 2, 2) = <<Part(c, 2)>>
      BY <1>8, <2>2, TwoHalves
    <3>2. QED
      BY <1>7, <1>14, <2>2, <3>1
  <2>4. got'[c] = Append(before, Part(c, 1))
    <3>1. /\ SubSeq(out, 1, 1) = <<Part(c, 1)>>
          /\ Append(before, Part(c, 1)) = before \o <<Part(c, 1)>>
      BY <1>8, <2>2, TwoHalves, AppendIsConcat
    <3>2. QED
      BY <1>7, <2>2, <3>1
  <2>5. Writing(c)' /\ ~InPool(c)' /\ ~InMail(c)' /\ Underway(c)'
    BY <1>3, <1>6, <2>3 DEF Writing, InPool, InMail, Underway
  <2>6. Answering(c)'
    <3>1. Answered(c)'
      BY <1>11, <2>3, <2>4 DEF Answered, before
    <3>2. hnd'[c].http_parsed = TRUE
      BY <1>4, <2>3
    <3>3. QED
      BY <1>3, <1>5, <1>6, <1>7, <1>11, <2>1, <3>1, <3>2 DEF Answering
  <2>7. ExchangeOf(c)'
    BY <1>4, <1>5, <1>6, <2>5, <2>6 DEF ExchangeOf
  <2>8. Exchange'
    BY <1>5, <1>6, <1>7, <1>10, <2>7, Elsewhere DEF OrderlyInv, Exchange
  <2>9. Queues'
    <3>1. \A d \in Clients : Writing(d)' => Writing(d)
      BY <1>2, <1>10
    <3>2. QED
      BY <1>6, <3>1, QueuesKept DEF OrderlyInv
  <2>10. Loop'
    <3>1. \A d \in Clients : "out" \in mask'[d] <=> Writing(d)'
      BY <1>2, <1>10, <2>1, <2>5 DEF OrderlyInv, Loop, LoopOf
    <3>2. QED
      BY <1>1, <1>6, <1>10, <3>1, EventDoneLoop DEF OrderlyInv
  <2>11. QED
    BY <2>8, <2>9, <2>10 DEF OrderlyInv
<1>15. QED
  BY <1>13, <1>14

(* The request that has just been read in full is submitted or answered.   *)
LEMMA Submitted ==
    ASSUME OrderlyInv, IInv, TypeOK, NEW c \in Clients, ~Underway(c), Reading(c),
           served[c] = "open", mask[c] # {}, peer[c] = "open",
           Current(c) = Consumed(c) + 1, sent[c] = 2 * Current(c),
           Script[c][Current(c)] # "unknown",
           UNCHANGED <<peer, sent, got, served, fd, mask>>,
           wire'[c] = <<>>, hnd'[c].in_buffer = <<>>, hnd'[c].http_parsed = TRUE,
           hnd'[c].is_http = (Script[c][Current(c)] # "line"),
           hnd'[c].out_buffer = hnd[c].out_buffer,
           \A d \in Clients : d # c => wire'[d] = wire[d] /\ hnd'[d] = hnd[d],
           \/ pool' = Append(pool, Msg(c)) /\ mailbox' = mailbox
           \/ mailbox' = Append(mailbox, Msg(c)) /\ pool' = pool
    PROVE  /\ Queues' /\ Exchange'
           /\ \A d \in Clients : Writing(d)' <=> Writing(d)
           /\ \A d \in Clients : d # c => (Underway(d)' <=> Underway(d))
<1>1. ~InPool(c) /\ ~InMail(c) /\ ~Writing(c)
  BY DEF Underway
<1>2. \A d \in Clients : Writing(d)' <=> Writing(d)
  BY DEF Writing
<1>3. Msg(c) \in Messages /\ Msg(c).id[1] = c
  <2>1. fd[c] \in Fds
    BY DEF IInv, Working
  <2>2. <<c, Current(c)>> \in Ids
    BY ScriptFacts DEF Ids
  <2>3. QED
    BY <2>1, <2>2 DEF Msg, Messages
<1>4. /\ pool \in Seq(Messages) /\ mailbox \in Seq(Messages)
      /\ OneEach(pool) /\ OneEach(mailbox)
      /\ Range(pool) \subseteq Msgs /\ Range(mailbox) \subseteq Msgs
  BY DEF TypeOK, OrderlyInv, Queues
<1>5. Msgs' = Msgs /\ Msg(c) \in Msgs
  BY DEF Msgs, Msg, Current
<1>6. /\ Range(pool') \subseteq Msgs' /\ Range(mailbox') \subseteq Msgs'
      /\ OneEach(pool') /\ OneEach(mailbox')
      /\ \/ /\ Owners(pool') = Owners(pool) \cup {c}
            /\ Owners(mailbox') = Owners(mailbox)
         \/ /\ Owners(mailbox') = Owners(mailbox) \cup {c}
            /\ Owners(pool') = Owners(pool)
  <2>1. CASE pool' = Append(pool, Msg(c)) /\ mailbox' = mailbox
    <3>1. /\ Owners(pool') = Owners(pool) \cup {c}
          /\ Range(pool') = Range(pool) \cup {Msg(c)} /\ OneEach(pool')
      BY <1>1, <1>3, <1>4, <2>1, AppendOwners DEF InPool
    <3>2. QED
      BY <1>4, <1>5, <2>1, <3>1
  <2>2. CASE mailbox' = Append(mailbox, Msg(c)) /\ pool' = pool
    <3>1. /\ Owners(mailbox') = Owners(mailbox) \cup {c}
          /\ Range(mailbox') = Range(mailbox) \cup {Msg(c)} /\ OneEach(mailbox')
      BY <1>1, <1>3, <1>4, <2>2, AppendOwners DEF InMail
    <3>2. QED
      BY <1>4, <1>5, <2>2, <3>1
  <2>3. QED
    BY <2>1, <2>2
<1>7. /\ Underway(c)' /\ ~(InPool(c)' /\ InMail(c)')
      /\ \A d \in Clients : d # c => (InPool(d)' <=> InPool(d)) /\ (InMail(d)' <=> InMail(d))
  BY <1>1, <1>6 DEF Underway, InPool, InMail
<1>8. \A d \in Clients : d # c => (Underway(d)' <=> Underway(d))
  BY <1>2, <1>7 DEF Underway
<1>9. Queues'
  <2>1. \A d \in Clients : /\ ~(InPool(d)' /\ InMail(d)')
                           /\ Writing(d)' => ~InPool(d)' /\ ~InMail(d)'
    BY <1>1, <1>2, <1>7 DEF OrderlyInv, Queues
  <2>2. QED
    BY <1>6, <2>1 DEF Queues
<1>10. Answering(c)'
  <2>1. Current(c)' = Current(c) /\ Part(c, 1)' = Part(c, 1) /\ Part(c, 2)' = Part(c, 2)
    BY DEF Current, Part
  <2>2. Consumed(c) \in Nat /\ Current(c) - 1 = Consumed(c)
    <3>1. Consumed(c) \in 0..Len(Script[c]) /\ Len(Script[c]) \in Nat
      BY ReadingFacts, ScriptFacts
    <3>2. Consumed(c) \in Nat
      BY <3>1
    <3>3. QED
      BY <3>2
  <2>3. got[c] = Owed(c, Current(c) - 1)
    BY <2>2 DEF Reading
  <2>4. Answered(c)'
    BY <1>1, <2>1, <2>3 DEF Answered, Writing
  <2>5. sent'[c] % 2 = 0 /\ sent'[c] > 0
    BY <2>2
  <2>6. QED
    BY <2>1, <2>4, <2>5 DEF Answering
<1>11. ExchangeOf(c)'
  BY <1>7, <1>10 DEF ExchangeOf
<1>12. Exchange'
  BY <1>8, <1>11, Elsewhere DEF OrderlyInv, Exchange
<1>13. QED
  BY <1>2, <1>8, <1>9, <1>12

(* Bytes are read and kept.                                                *)
LEMMA ReadOn ==
    ASSUME OrderlyInv, TypeOK, NEW c \in Clients, ~Underway(c), Reading(c),
           served[c] = "open",
           UNCHANGED <<peer, sent, got, served, fd, mask, pool, mailbox>>,
           UNCHANGED <<loopPc, cur, events, up>>,
           Unread(c)' = Unread(c), hnd'[c].out_buffer = hnd[c].out_buffer,
           \A d \in Clients : d # c => wire'[d] = wire[d] /\ hnd'[d] = hnd[d],
           hnd'[c].http_parsed = TRUE =>
              /\ hnd'[c].is_http = FALSE
              /\ \A i \in DOMAIN Script[c] : i > Consumed(c) => Script[c][i] = "line"
    PROVE  OrderlyInv'
<1>1. \A d \in Clients : (Underway(d)' <=> Underway(d)) /\ (Writing(d)' <=> Writing(d))
  BY DEF Underway, InPool, InMail, Writing
<1>2. Queues'
  BY <1>1, QueuesKept DEF OrderlyInv
<1>3. Loop'
  BY <1>1, LoopKept DEF OrderlyInv
<1>4. Consumed(c)' = Consumed(c)
  BY DEF Consumed
<1>5. Reading(c)'
  BY <1>4 DEF Reading
<1>6. ExchangeOf(c)'
  <2>1. NumPieces(c)' = NumPieces(c) /\ OwedAll(c)' = OwedAll(c)
    BY DEF NumPieces, OwedAll
  <2>2. ExchangeOf(c)
    BY DEF OrderlyInv, Exchange
  <2>3. QED
    BY <1>1, <1>5, <2>1, <2>2 DEF ExchangeOf
<1>7. Exchange'
  BY <1>1, <1>6, Elsewhere DEF OrderlyInv, Exchange
<1>8. QED
  BY <1>2, <1>3, <1>7 DEF OrderlyInv

(* A buffer of two pieces that are one line, and one of the first piece.    *)
LEMMA OneLine ==
    ASSUME NEW c \in Clients, NEW buf \in Seq(Pieces), Len(buf) = 2,
           buf[1].last = FALSE, buf[2].last = TRUE
    PROVE  /\ LinesIn(buf, 2) = 1 /\ LineEnd(buf, 0) = 0 /\ LineEnd(buf, 1) = 2
           /\ AfterLines(buf) = <<>>
           /\ buf[1].id = buf[2].id /\ buf[2].kind = "line" => LineAnswer(c, buf, 1) = buf[2].id
<1>1. LinesIn(buf, 0) = 0 /\ LinesIn(buf, 1) = 0 /\ LinesIn(buf, 2) = 1
  <2>1. LinesIn(buf, 0 + 1) = IF buf[0 + 1].last THEN LinesIn(buf, 0) + 1 ELSE LinesIn(buf, 0)
    BY LinesStep
  <2>2. LinesIn(buf, 1 + 1) = IF buf[1 + 1].last THEN LinesIn(buf, 1) + 1 ELSE LinesIn(buf, 1)
    BY LinesStep
  <2>3. LinesIn(buf, 0) = 0 /\ 0 + 1 = 1 /\ 1 + 1 = 2
    BY LinesStep
  <2>4. LinesIn(buf, 1) = 0
    BY <2>1, <2>3
  <2>5. LinesIn(buf, 2) = 0 + 1
    BY <2>2, <2>3, <2>4
  <2>6. QED
    BY <2>3, <2>4, <2>5
<1>2. LineEnd(buf, 0) = 0
  BY DEF LineEnd
<1>3. LineEnd(buf, 1) = 2
  <2>1. DOMAIN buf = {1, 2}
    BY LenProperties
  <2>2. \A i \in DOMAIN buf : buf[i].last /\ LinesIn(buf, i) = 1 <=> i = 2
    BY <1>1, <2>1
  <2>3. LineEnd(buf, 1) = CHOOSE i \in DOMAIN buf : buf[i].last /\ LinesIn(buf, i) = 1
    BY DEF LineEnd
  <2>4. QED
    BY <2>1, <2>2, <2>3
<1>4. AfterLines(buf) = <<>>
  <2>1. AfterLines(buf) = SubSeq(buf, 2 + 1, 2)
    BY <1>1, <1>3 DEF AfterLines
  <2>2. QED
    BY <2>1, SubSeqEmpty
<1>5. ASSUME buf[1].id = buf[2].id, buf[2].kind = "line" PROVE LineAnswer(c, buf, 1) = buf[2].id
  <2>1. LineEnd(buf, 1 - 1) + 1 = 1
    BY <1>2
  <2>2. QED
    BY <1>3, <1>5, <2>1 DEF LineAnswer
<1>6. QED
  BY <1>1, <1>2, <1>3, <1>4, <1>5

LEMMA NoLine ==
    ASSUME NEW buf \in Seq(Pieces), Len(buf) = 1, buf[1].last = FALSE
    PROVE  LinesIn(buf, 1) = 0 /\ AfterLines(buf) = buf
<1>1. LinesIn(buf, 1) = 0
  <2>1. LinesIn(buf, 0 + 1) = IF buf[0 + 1].last THEN LinesIn(buf, 0) + 1 ELSE LinesIn(buf, 0)
    BY LinesStep
  <2>2. LinesIn(buf, 0) = 0 /\ 0 + 1 = 1
    BY LinesStep
  <2>3. QED
    BY <2>1, <2>2
<1>2. AfterLines(buf) = SubSeq(buf, 0 + 1, Len(buf))
  BY <1>1 DEF AfterLines, LineEnd
<1>3. AfterLines(buf) = buf
  BY <1>2, SubSeqFull
<1>4. QED
  BY <1>1, <1>3

LEMMA RecvOrderly ==
    ASSUME Orderly, LinesStayLines, OrderlyInv, IInv, TypeOK, Recv
    PROVE  OrderlyInv'
<1>1. loopPc = "read" /\ up /\ cur \in Clients /\ wire[cur] # <<>>
  BY CurIsLive DEF Recv, Phases
<1> PICK c \in Clients : c = cur
  BY <1>1
<1>2. /\ served[c] = "open" /\ mask[c] # {} /\ ExchangeOf(c) /\ LoopOf(c) /\ ~Underway(c)
  BY <1>1, CurIsLive, ClientWaits DEF Phases, OrderlyInv, Exchange, Loop
<1>3. Reading(c) /\ ~Writing(c)
  BY <1>2 DEF ExchangeOf, Underway
<1> DEFINE k == Consumed(c)
           u == Unread(c)
           inb == hnd[c].in_buffer
<1>4. /\ k \in 0..Len(Script[c]) /\ u \in Seq(Pieces) /\ Len(u) \in Nat
      /\ Len(u) = Len(inb) + Len(wire[c]) /\ sent[c] = 2 * k + Len(u)
      /\ inb \in Seq(Pieces) /\ Len(inb) \in Nat
      /\ wire[c] \in Seq(Pieces) /\ Len(wire[c]) \in Nat
  BY <1>3, ReadingFacts
<1>5. PICK n \in 1..Len(wire[c]) :
        LET buf == hnd[cur].in_buffer \o SubSeq(wire[cur], 1, n)
        IN  /\ wire' = [wire EXCEPT ![cur] = SubSeq(@, n + 1, Len(@))]
            /\ \/ HttpRequest(cur, buf) \/ HttpWait(cur, buf)
               \/ HttpBusy(cur, buf) \/ Lines(cur, buf)
  BY DEF Recv
<1> DEFINE new == SubSeq(wire[c], 1, n)
           rest == SubSeq(wire[c], n + 1, Len(wire[c]))
           buf == inb \o new
<1>6. /\ wire'[c] = rest /\ \A d \in Clients : d # c => wire'[d] = wire[d]
      /\ UNCHANGED <<peer, sent, got, served, fd, mask>>
  BY <1>5 DEF Recv, TypeOK, clientVars, sockVars
<1>7. HttpRequest(c, buf) \/ HttpWait(c, buf) \/ HttpBusy(c, buf) \/ Lines(c, buf)
  BY <1>5
<1> HIDE DEF k, u, inb, new, rest, buf
<1>8. /\ new \in Seq(Pieces) /\ Len(new) = n /\ rest \in Seq(Pieces)
      /\ Len(rest) = Len(wire[c]) - n /\ new \o rest = wire[c]
  <2>1. new \in Seq(Pieces) /\ Len(new) = n /\ rest \in Seq(Pieces)
    BY <1>4, PartialType DEF new, rest
  <2>2. new \o rest = wire[c]
    <3>1. /\ 1 \in 1..Len(wire[c]) + 1 /\ n \in 1 - 1..Len(wire[c])
          /\ Len(wire[c]) \in n..Len(wire[c])
      BY <1>4
    <3>2. new \o rest = SubSeq(wire[c], 1, Len(wire[c]))
      BY <1>4, <3>1, ConcatAdjacentSubSeq DEF new, rest
    <3>3. QED
      BY <1>4, <3>2, SubSeqFull
  <2>3. Len(new \o rest) = Len(new) + Len(rest) /\ Len(rest) \in Nat
    BY <2>1, ConcatProperties, LenProperties
  <2>4. QED
    <3>1. Len(wire[c]) = n + Len(rest)
      BY <2>1, <2>2, <2>3
    <3>2. \A x, y, z \in Nat : x = y + z => z = x - y
      OBVIOUS
    <3>3. Len(rest) = Len(wire[c]) - n
      <4>1. n \in Nat /\ Len(rest) \in Nat /\ Len(wire[c]) \in Nat
        BY <1>4, <2>3
      <4>2. QED
        BY <3>1, <3>2, <4>1
    <3>4. QED
      BY <2>1, <2>2, <3>3
<1>9. /\ buf \in Seq(Pieces) /\ Len(buf) = Len(inb) + n
      /\ \A i \in 1..Len(buf) : buf[i] = u[i]
      /\ buf \o rest = u
  <2>1. buf \in Seq(Pieces) /\ Len(buf) = Len(inb) + n
    BY <1>4, <1>8, ConcatProperties DEF buf
  <2>2. buf \o rest = u
    <3>1. \A s, t, w \in Seq(Pieces) : (s \o t) \o w = s \o (t \o w)
      BY ConcatAssociative
    <3>2. (inb \o new) \o rest = inb \o (new \o rest)
      BY <1>4, <1>8, <3>1
    <3>3. QED
      BY <1>8, <3>2 DEF buf, u, Unread, inb
  <2>3. \A i \in 1..Len(buf) + Len(rest) :
           (buf \o rest)[i] = IF i <= Len(buf) THEN buf[i] ELSE rest[i - Len(buf)]
    <3>1. rest \in Seq(Pieces)
      BY <1>8
    <3>2. QED
      BY <2>1, <3>1, ConcatProperties
  <2>4. Len(buf) \in Nat /\ Len(rest) \in Nat
    BY <1>8, <2>1, LenProperties
  <2>5. \A i \in 1..Len(buf) : i \in 1..Len(buf) + Len(rest) /\ i <= Len(buf)
    BY <2>4
  <2>6. QED
    BY <2>1, <2>2, <2>3, <2>5
<1>10. Len(buf) \in Nat /\ Len(buf) >= 1 /\ Len(buf) <= Len(u)
  BY <1>4, <1>9
<1>11. /\ k \in Nat /\ k + 1 \in 1..Len(Script[c]) /\ k + 1 \in DOMAIN Script[c]
       /\ sent[c] \in Nat /\ sent[c] = 2 * k + Len(u) /\ Len(u) \in Nat /\ Len(u) >= 1
  <2>1. /\ sent[c] \in Nat /\ sent[c] <= 2 * Len(Script[c]) /\ Len(Script[c]) \in Nat
        /\ DOMAIN Script[c] = 1..Len(Script[c])
    BY ScriptFacts
  <2>2. k \in Nat /\ sent[c] = 2 * k + Len(u) /\ Len(u) \in Nat
    BY <1>4, <2>1
  <2>3. Len(u) >= 1
    BY <1>10, <2>2
  <2>4. k + 1 <= Len(Script[c])
    BY <2>1, <2>2, <2>3
  <2>5. QED
    BY <2>1, <2>2, <2>3, <2>4
<1>12. \A i \in 1..Len(buf) : buf[i] = Piece(c, 2 * k + i)
  <2>1. \A i \in 1..Len(u) : u[i] = Piece(c, 2 * k + i)
    BY <1>3 DEF Reading, u, k
  <2>2. \A i \in 1..Len(buf) : i \in 1..Len(u)
    BY <1>4, <1>10
  <2>3. QED
    BY <1>9, <2>1, <2>2
<1>13. buf[1] = [kind |-> Script[c][k + 1], id |-> <<c, k + 1>>, last |-> FALSE]
  <2>1. 1 \in 1..Len(buf)
    BY <1>10
  <2>2. QED
    BY <1>11, <1>12, <2>1, PieceFacts
<1>14. Len(buf) >= 2 =>
          buf[2] = [kind |-> Script[c][k + 1], id |-> <<c, k + 1>>, last |-> TRUE]
  <2>1. Len(buf) >= 2 => 2 \in 1..Len(buf)
    BY <1>10
  <2>2. QED
    BY <1>11, <1>12, <2>1, PieceFacts
<1>15. Complete(buf) <=> Len(buf) >= 2
  <2>1. DOMAIN buf = 1..Len(buf)
    BY <1>9, LenProperties
  <2>2. CASE Len(buf) >= 2
    <3>1. 2 \in DOMAIN buf /\ buf[2].last
      BY <1>10, <1>14, <2>1, <2>2
    <3>2. QED
      BY <2>2, <3>1 DEF Complete
  <2>3. CASE ~(Len(buf) >= 2)
    <3>1. \A i \in DOMAIN buf : i = 1
      BY <1>10, <2>1, <2>3
    <3>2. ~buf[1].last
      BY <1>13
    <3>3. QED
      BY <2>3, <3>1, <3>2 DEF Complete
  <2>4. QED
    BY <2>2, <2>3
(* A request that is answered is the last the client has sent.             *)
<1>16. ASSUME Script[c][k + 1] # "unknown"
       PROVE  /\ Len(u) <= 2 /\ peer[c] = "open"
              /\ Len(buf) >= 2 => /\ Len(buf) = 2 /\ rest = <<>>
                                  /\ Current(c) = k + 1 /\ sent[c] = 2 * Current(c)
  <2>1. ~(2 * (k + 1) < sent[c])
    <3>1. k + 1 > k
      BY <1>11
    <3>2. QED
      BY <1>3, <1>11, <1>16, <3>1 DEF Reading, k
  <2>2. Len(u) <= 2
    BY <1>11, <2>1
  <2>3. peer[c] = "open"
    <3>1. peer[c] # "reset" /\ peer[c] # "new"
      <4>1. sent[c] # 0
        BY <1>11
      <4>2. QED
        BY <1>2, <4>1 DEF ExchangeOf
    <3>2. peer[c] # "fin"
      <4>1. got[c] = Owed(c, k)
        BY <1>3 DEF Reading, k
      <4>2. (k + 1) - 1 = k /\ k + 1 \in 0..Len(Script[c])
        BY <1>11
      <4>3. Owed(c, k) \in Seq(Parts) /\ Len(Owed(c, k)) \in Nat
        BY <1>4, OwedType, LenProperties
      <4>4. Len(Owed(c, k + 1)) = Len(Owed(c, k)) + 2
        <5>1. PICK j \in 1..Len(Script[c]) : j = k + 1 /\ j - 1 = k
          BY <1>11, <4>2
        <5>2. Len(Owed(c, j)) = Len(Owed(c, j - 1)) + 2
          BY <1>16, <4>3, <5>1, OwedStep
        <5>3. QED
          BY <5>1, <5>2
      <4>5. Len(Owed(c, k + 1)) <= Len(OwedAll(c)) /\ Len(OwedAll(c)) \in Nat
        <5>1. Len(Script[c]) \in k + 1..Len(Script[c])
          BY <1>11, ScriptFacts
        <5>2. QED
          BY <4>2, <5>1, OwedGrows DEF OwedAll
      <4>6. Len(got[c]) # Len(OwedAll(c))
        BY <4>1, <4>3, <4>4, <4>5
      <4>7. QED
        BY <1>2, <4>6 DEF ExchangeOf
    <3>3. QED
      BY <3>1, <3>2 DEF TypeOK
  <2>4. ASSUME Len(buf) >= 2
        PROVE  /\ Len(buf) = 2 /\ rest = <<>>
               /\ Current(c) = k + 1 /\ sent[c] = 2 * Current(c)
    <3>1. Len(buf) = 2 /\ Len(u) = 2 /\ Len(rest) = 0
      BY <1>4, <1>8, <1>9, <1>10, <2>2, <2>4
    <3>2. rest = <<>>
      BY <1>8, <3>1, EmptySeq
    <3>3. sent[c] = 2 * (k + 1)
      BY <1>11, <3>1
    <3>4. Current(c) = k + 1
      BY <1>11, <3>3, ScriptFacts
    <3>5. QED
      BY <3>1, <3>2, <3>3, <3>4
  <2>5. QED
    BY <2>2, <2>3, <2>4
<1>17. hnd \in [Clients -> Handlers] /\ hnd[c] \in Handlers
  BY DEF TypeOK, Handlers
<1>18. \A d \in Clients : "out" \in mask'[d] <=> Writing(d)
  BY <1>6 DEF OrderlyInv, Loop, LoopOf
<1>19. CASE HttpRequest(c, buf)
  <2>1. /\ hnd[c].http_parsed = FALSE /\ Script[c][k + 1] # "line"
        /\ Script[c][k + 1] # "unknown" /\ Len(buf) >= 2
    BY <1>13, <1>15, <1>17, <1>19 DEF HttpRequest, LooksHttp, IsHttpKind, Handlers
  <2>2. /\ rest = <<>> /\ Current(c) = k + 1 /\ sent[c] = 2 * Current(c)
        /\ peer[c] = "open"
    BY <1>16, <2>1
  <2>3. /\ hnd'[c].in_buffer = <<>> /\ hnd'[c].http_parsed = TRUE /\ hnd'[c].is_http = TRUE
        /\ hnd'[c].out_buffer = hnd[c].out_buffer
        /\ \A d \in Clients : d # c => hnd'[d] = hnd[d]
    BY <1>17, <1>19 DEF HttpRequest, Handlers
  <2>4. buf[1].id = <<c, Current(c)>>
    BY <1>13, <2>2
  <2>5. \/ pool' = Append(pool, Msg(c)) /\ mailbox' = mailbox
        \/ mailbox' = Append(mailbox, Msg(c)) /\ pool' = pool
    BY <1>19, <2>4 DEF HttpRequest, Msg
  <2>6. hnd'[c].is_http = (Script[c][Current(c)] # "line")
    BY <2>1, <2>2, <2>3
  <2>7. /\ Queues' /\ Exchange'
        /\ \A d \in Clients : Writing(d)' <=> Writing(d)
        /\ \A d \in Clients : d # c => (Underway(d)' <=> Underway(d))
    <3>1. wire'[c] = <<>> /\ Script[c][Current(c)] # "unknown" /\ Current(c) = Consumed(c) + 1
      BY <1>6, <2>1, <2>2 DEF k
    <3>2. QED
      BY <1>2, <1>3, <1>6, <2>2, <2>3, <2>5, <2>6, <3>1, Submitted
  <2>8. Loop'
    <3>1. EventDone("in") /\ cur' = cur
      BY <1>19 DEF HttpRequest, EventDone
    <3>2. Writing(cur)' <=> Writing(cur)
      BY <2>7, <3>1
    <3>3. \A d \in Clients : "out" \in mask'[d] <=> Writing(d)'
      BY <1>18, <2>7
    <3>4. QED
      BY <1>1, <2>7, <3>1, <3>2, <3>3, EventDoneLoop DEF OrderlyInv
  <2>9. QED
    BY <2>7, <2>8 DEF OrderlyInv
<1>20. CASE HttpWait(c, buf)
  <2>1. /\ hnd[c].http_parsed = FALSE
        /\ UNCHANGED <<loopPc, cur, events, pool, mailbox, up>>
    BY <1>17, <1>20 DEF HttpWait, Handlers, loopVars
  <2>2. hnd' = [hnd EXCEPT ![c].is_http = (hnd[c].is_http \/ Complete(buf)), ![c].in_buffer = buf]
    BY <1>20 DEF HttpWait
  <2>3. /\ hnd'[c].in_buffer = buf /\ hnd'[c].http_parsed = FALSE
        /\ hnd'[c].out_buffer = hnd[c].out_buffer
        /\ \A d \in Clients : d # c => hnd'[d] = hnd[d]
    BY <1>17, <2>1, <2>2 DEF Handlers
  <2>4. Unread(c)' = Unread(c)
    BY <1>6, <1>9, <2>3 DEF Unread, u
  <2>5. QED
    BY <1>2, <1>3, <1>6, <2>1, <2>3, <2>4, ReadOn
<1>21. ~HttpBusy(c, buf)
  BY <1>3, <1>17 DEF HttpBusy, Reading, Handlers
<1>22. CASE Lines(c, buf)
  <2>1. Script[c][k + 1] = "line"
    <3>1. CASE hnd[c].http_parsed = TRUE
      <4>1. k + 1 > k
        BY <1>11
      <4>2. QED
        BY <1>3, <1>11, <3>1, <4>1 DEF Reading, k
    <3>2. CASE hnd[c].http_parsed = FALSE
      BY <1>13, <1>22, <3>2 DEF Lines, LooksHttp, IsHttpKind
    <3>3. QED
      BY <1>17, <3>1, <3>2 DEF Handlers
  <2>2. /\ hnd'[c].in_buffer = AfterLines(buf) /\ hnd'[c].http_parsed = TRUE
        /\ hnd'[c].is_http = FALSE /\ hnd'[c].out_buffer = hnd[c].out_buffer
        /\ \A d \in Clients : d # c => hnd'[d] = hnd[d]
        /\ UNCHANGED <<loopPc, cur, events, mailbox, up>>
    BY <1>17, <1>22 DEF Lines, Handlers, loopVars
  <2>3. pool' = pool \o [i \in 1..LinesIn(buf, Len(buf)) |->
                            [fd |-> fd[c], id |-> LineAnswer(c, buf, i)]]
    BY <1>22 DEF Lines
  <2>4. \A i \in DOMAIN Script[c] : i > k => Script[c][i] = "line"
    <3>1. TAKE i \in DOMAIN Script[c]
    <3>2. i > k => i = k + 1 \/ k + 1 < i
      BY <1>11, ScriptFacts
    <3>3. QED
      BY <1>11, <2>1, <3>2 DEF LinesStayLines
  <2>5. Len(buf) = 1 \/ Len(buf) = 2
    <3>1. Len(u) \in Nat /\ Len(u) <= 2
      BY <1>11, <1>16, <2>1
    <3>2. QED
      <4>1. \A i, j \in Nat : i >= 1 /\ i <= j /\ j <= 2 => i = 1 \/ i = 2
        OBVIOUS
      <4>2. QED
        BY <1>10, <3>1, <4>1
  <2>6. pool \in Seq(Messages)
    BY DEF TypeOK
  <2>7. CASE Len(buf) = 1
    <3>1. LinesIn(buf, 1) = 0 /\ AfterLines(buf) = buf
      <4>1. buf[1].last = FALSE
        BY <1>13
      <4>2. QED
        BY <1>9, <2>7, <4>1, NoLine
    <3>2. pool' = pool
      <4>1. [i \in 1..LinesIn(buf, Len(buf)) |->
                [fd |-> fd[c], id |-> LineAnswer(c, buf, i)]] = <<>>
        BY <2>7, <3>1
      <4>2. QED
        BY <2>3, <2>6, <4>1, ConcatEmptySeq
    <3>3. Unread(c)' = Unread(c)
      BY <1>6, <1>9, <2>2, <3>1 DEF Unread, u
    <3>4. QED
      BY <1>2, <1>3, <1>6, <2>2, <2>4, <3>2, <3>3, ReadOn DEF k
  <2>8. CASE Len(buf) = 2
    <3>1. /\ rest = <<>> /\ Current(c) = k + 1 /\ sent[c] = 2 * Current(c)
          /\ peer[c] = "open"
      BY <1>16, <2>1, <2>8
    <3>2. /\ buf[1].last = FALSE /\ buf[2].last = TRUE
          /\ buf[1].id = buf[2].id /\ buf[2].kind = "line" /\ buf[2].id = <<c, Current(c)>>
      BY <1>13, <1>14, <2>1, <2>8, <3>1
    <3>3. /\ LinesIn(buf, 2) = 1 /\ AfterLines(buf) = <<>>
          /\ LineAnswer(c, buf, 1) = <<c, Current(c)>>
      BY <1>9, <2>8, <3>2, OneLine
    <3>4. pool' = Append(pool, Msg(c))
      <4>1. [i \in 1..LinesIn(buf, Len(buf)) |->
                [fd |-> fd[c], id |-> LineAnswer(c, buf, i)]] = <<Msg(c)>>
        <5>1. \A i \in 1..1 : LineAnswer(c, buf, i) = <<c, Current(c)>>
          BY <3>3
        <5>2. QED
          BY <2>8, <3>3, <5>1 DEF Msg
      <4>2. Msg(c) \in Messages
        <5>1. fd[c] \in Fds
          BY <1>2 DEF IInv, Working
        <5>2. <<c, Current(c)>> \in Ids
          BY ScriptFacts DEF Ids
        <5>3. QED
          BY <5>1, <5>2 DEF Msg, Messages
      <4>3. QED
        BY <2>3, <2>6, <4>1, <4>2, AppendIsConcat
    <3>5. /\ Queues' /\ Exchange'
          /\ \A d \in Clients : Writing(d)' <=> Writing(d)
          /\ \A d \in Clients : d # c => (Underway(d)' <=> Underway(d))
      <4>1. /\ wire'[c] = <<>> /\ Script[c][Current(c)] # "unknown"
            /\ Current(c) = Consumed(c) + 1 /\ hnd'[c].in_buffer = <<>>
            /\ hnd'[c].is_http = (Script[c][Current(c)] # "line")
        BY <1>6, <2>1, <2>2, <3>1, <3>3 DEF k
      <4>2. QED
        BY <1>2, <1>3, <1>6, <2>2, <3>1, <3>4, <4>1, Submitted
    <3>6. Loop'
      <4>1. ASSUME NEW d \in Clients PROVE LoopOf(d)'
        <5>1. LoopOf(d)
          BY DEF OrderlyInv, Loop
        <5>2. Underway(d)' => Underway(d) \/ d = c
          BY <3>5
        <5>3. QED
          BY <1>1, <1>6, <2>2, <3>5, <5>1, <5>2 DEF LoopOf
      <4>2. QED
        BY <2>2, <4>1 DEF OrderlyInv, Loop
    <3>7. QED
      BY <3>5, <3>6 DEF OrderlyInv
  <2>9. QED
    BY <2>5, <2>7, <2>8
<1>23. QED
  BY <1>7, <1>19, <1>20, <1>21, <1>22
-----------------------------------------------------------------------------
OrderlyStrong == IInv /\ TypeOK /\ OrderlyInv

LEMMA OrderlyStep ==
    ASSUME Orderly, LinesStayLines
    PROVE  OrderlyStrong /\ [Next]_vars => OrderlyStrong'
<1>1. SUFFICES ASSUME IInv, TypeOK, OrderlyInv, [Next]_vars
               PROVE  IInv' /\ TypeOK' /\ OrderlyInv'
  BY DEF OrderlyStrong
<1>2. IInv' /\ TypeOK'
  BY <1>1, StepKeeps, StepTyped
<1>3. ASSUME NEW c \in Clients, ClientStep(c) PROVE OrderlyInv'
  BY <1>1, <1>3, ClientOrderly
<1>4. CASE AcceptorStep
  BY <1>1, <1>2, <1>4, AcceptorOrderly
<1>5. CASE EpollWait \/ EndBatch \/ \E c \in Clients : StartEvent(c)
  BY <1>1, <1>2, <1>5, BatchOrderly
<1>6. CASE Recv
  BY <1>1, <1>2, <1>6, RecvOrderly
<1>7. CASE RecvAgain \/ RecvEnd
  BY <1>1, <1>2, <1>7, ReadEndOrderly
<1>8. CASE HandleWrite
  BY <1>1, <1>2, <1>8, WriteOrderly
<1>9. ~SendFails
  <2>1. loopPc = "write" /\ up => cur \in Clients
    BY <1>1, CurIsLive DEF Phases
  <2>2. QED
    BY <1>1, <2>1 DEF SendFails, OrderlyInv, Exchange, ExchangeOf
<1>10. CASE Deliver
  BY <1>1, <1>2, <1>10, DeliverOrderly
<1>11. ASSUME NEW i \in 1..Width, FinishTask(i) PROVE OrderlyInv'
  BY <1>1, <1>11, FinishOrderly
<1>12. CASE UNCHANGED vars
  <2>1. /\ UNCHANGED <<peer, sent, wire, got, served, fd, mask, hnd, pool, mailbox>>
        /\ UNCHANGED <<loopPc, cur, events, up>>
    BY <1>12 DEF vars
  <2>2. QED
    BY <1>1, <1>2, <2>1, ConnectionsKept, LoopKept DEF OrderlyInv
<1>13. QED
  BY <1>1, <1>2, <1>3, <1>4, <1>5, <1>6, <1>7, <1>8, <1>9, <1>10, <1>11, <1>12
     DEF Next, LoopStep, Stopped

LEMMA PrefixByElements ==
    ASSUME NEW S, NEW s \in Seq(S), NEW t \in Seq(S), Len(s) <= Len(t),
           \A k \in 1..Len(s) : t[k] = s[k]
    PROVE  IsPrefix(s, t)
<1>1. Len(s) \in Nat /\ Len(t) \in Nat
  BY LenProperties
<1>2. \A i \in 1..Len(s) : s[i] \in S /\ t[i] \in S
  BY <1>1, ElementOfSeq
<1>3. Len(s) \in Int /\ 1 \in Int /\ Len(s) - 1 + 1 = Len(s)
  BY <1>1
<1>4. /\ SubSeq(t, 1, Len(s)) \in Seq(S)
      /\ Len(SubSeq(t, 1, Len(s))) = IF 1 <= Len(s) THEN Len(s) - 1 + 1 ELSE 0
      /\ \A i \in 1..Len(s) - 1 + 1 : SubSeq(t, 1, Len(s))[i] = t[1 + i - 1]
  BY <1>2, <1>3, SubSeqProperties
<1>5. Len(SubSeq(t, 1, Len(s))) = Len(s)
  BY <1>1, <1>4
<1>6. \A i \in 1..Len(s) : s[i] = SubSeq(t, 1, Len(s))[i]
  <2>1. \A i \in 1..Len(s) : 1 + i - 1 = i
    BY <1>1
  <2>2. QED
    BY <1>3, <1>4, <2>1
<1>7. s = SubSeq(t, 1, Len(s))
  BY <1>4, <1>5, <1>6, SeqEqual
<1>8. QED
  BY <1>7, SubSeqFull DEF IsPrefix

LEMMA OrderedAnswers == OrderlyStrong => OwnAnswersInOrder
<1> SUFFICES ASSUME OrderlyStrong, NEW c \in Clients PROVE IsPrefix(got[c], OwedAll(c))
  BY DEF OwnAnswersInOrder
<1>1. TypeOK /\ ExchangeOf(c) /\ got[c] \in Seq(Parts)
  BY DEF OrderlyStrong, OrderlyInv, Exchange, TypeOK
<1>2. /\ Len(Script[c]) \in Nat
      /\ OwedAll(c) \in Seq(Parts) /\ Len(OwedAll(c)) \in Nat
  <2>1. Len(Script[c]) \in 0..Len(Script[c]) /\ Len(Script[c]) \in Nat
    BY <1>1, ScriptFacts
  <2>2. QED
    BY <2>1, OwedType, LenProperties DEF OwedAll
<1>3. ASSUME NEW n \in 0..Len(Script[c]), got[c] = Owed(c, n)
      PROVE  IsPrefix(got[c], OwedAll(c))
  <2>1. Len(Script[c]) \in n..Len(Script[c])
    BY <1>2
  <2>2. /\ Len(Owed(c, n)) <= Len(OwedAll(c))
        /\ \A k \in 1..Len(Owed(c, n)) : OwedAll(c)[k] = Owed(c, n)[k]
    BY <2>1, OwedGrows DEF OwedAll
  <2>3. QED
    BY <1>1, <1>2, <1>3, <2>2, PrefixByElements
<1>4. CASE Underway(c)
  <2>1. Answering(c)
    BY <1>1, <1>4 DEF ExchangeOf
  <2> DEFINE n == Current(c)
             before == Owed(c, n - 1)
  <2>2. /\ n \in 1..Len(Script[c]) /\ n - 1 \in 0..Len(Script[c])
        /\ before \in Seq(Parts) /\ Part(c, 1) \in Parts /\ Part(c, 2) \in Parts
        /\ Owed(c, n) = before \o <<Part(c, 1), Part(c, 2)>>
    BY <1>1, <2>1, AnsweringFacts
  <2>3. got[c] = before \/ got[c] = Append(before, Part(c, 1))
    BY <2>1 DEF Answering, Answered
  <2> HIDE DEF n, before
  <2>4. CASE got[c] = before
    BY <1>3, <2>2, <2>4 DEF before
  <2>5. CASE got[c] = Append(before, Part(c, 1))
    <3>1. Append(before, Part(c, 1)) \o <<Part(c, 2)>> = Owed(c, n)
      BY <2>2, AppendTwo
    <3>2. /\ Append(before, Part(c, 1)) \in Seq(Parts) /\ <<Part(c, 2)>> \in Seq(Parts)
          /\ Len(<<Part(c, 2)>>) = 1
      BY <1>1, <2>2, <2>5
    <3>3. /\ Len(Owed(c, n)) = Len(got[c]) + 1
          /\ \A k \in 1..Len(got[c]) + 1 :
                Owed(c, n)[k] = IF k <= Len(got[c]) THEN got[c][k] ELSE <<Part(c, 2)>>[k - Len(got[c])]
      BY <2>5, <3>1, <3>2, ConcatProperties
    <3>4. Len(got[c]) \in Nat
      BY <1>1, LenProperties
    <3>5. /\ Len(got[c]) <= Len(Owed(c, n))
          /\ \A k \in 1..Len(got[c]) : k \in 1..Len(Owed(c, n)) /\ Owed(c, n)[k] = got[c][k]
      BY <3>3, <3>4
    <3>6. n \in 0..Len(Script[c]) /\ Len(Script[c]) \in n..Len(Script[c])
      BY <1>2, <2>2
    <3>7. /\ Len(Owed(c, n)) <= Len(OwedAll(c)) /\ Len(Owed(c, n)) \in Nat
          /\ \A k \in 1..Len(Owed(c, n)) : OwedAll(c)[k] = Owed(c, n)[k]
      BY <3>6, OwedGrows DEF OwedAll
    <3>8. Len(got[c]) <= Len(OwedAll(c)) /\ \A k \in 1..Len(got[c]) : OwedAll(c)[k] = got[c][k]
      BY <1>2, <3>4, <3>5, <3>7
    <3>9. QED
      BY <1>1, <1>2, <3>8, PrefixByElements
  <2>6. QED
    BY <2>3, <2>4, <2>5
<1>5. CASE ~Underway(c) /\ served[c] # "gone"
  <2>1. Reading(c)
    BY <1>1, <1>5 DEF ExchangeOf
  <2>2. got[c] = Owed(c, Consumed(c)) /\ Consumed(c) \in 0..Len(Script[c])
    BY <1>1, <2>1, ReadingFacts DEF Reading
  <2>3. QED
    BY <1>3, <2>2
<1>6. CASE served[c] = "gone"
  <2>1. got[c] = Owed(c, Len(Script[c])) /\ Len(Script[c]) \in 0..Len(Script[c])
    BY <1>1, <1>2, <1>6 DEF ExchangeOf, OwedAll
  <2>2. QED
    BY <1>3, <2>1
<1>7. QED
  BY <1>4, <1>5, <1>6

LEMMA OnePlace == OrderlyStrong => ExactlyOnePlace
<1> SUFFICES ASSUME OrderlyStrong, NEW c \in Clients, Outstanding(c)
             PROVE  /\ Places(<<c, Current(c)>>) = IF Unread(c) = <<>> THEN 1 ELSE 0
                    /\ Unread(c) # <<>> => Unread(c)[Len(Unread(c))].id = <<c, Current(c)>>
  BY DEF ExactlyOnePlace, Unread, Current
<1> DEFINE id == <<c, Current(c)>>
           inPool == {i \in DOMAIN pool : pool[i].id = id}
           inMail == {i \in DOMAIN mailbox : mailbox[i].id = id}
           inOut == {d \in Clients :
                       \E i \in DOMAIN hnd[d].out_buffer : hnd[d].out_buffer[i].id = id}
<1>1. /\ TypeOK /\ Queues /\ Exchange /\ ExchangeOf(c)
  BY DEF OrderlyStrong, OrderlyInv, Exchange
<1>2. /\ sent[c] > 0 /\ sent[c] % 2 = 0 /\ sent[c] = 2 * Current(c)
      /\ Len(got[c]) < Len(Owed(c, Current(c)))
  <2>1. sent[c] > 0 /\ sent[c] % 2 = 0 /\ Len(got[c]) < Len(Owed(c, Current(c)))
    BY DEF Outstanding, Current
  <2>2. QED
    BY <1>1, <2>1, ScriptFacts
<1>3. ASSUME NEW i \in DOMAIN pool
      PROVE  pool[i].id = id <=> pool[i].id[1] = c
  <2>1. pool[i] \in Msgs
    BY <1>1 DEF Queues, Range
  <2>2. PICK d \in Clients : pool[i] = Msg(d)
    BY <2>1 DEF Msgs
  <2>3. QED
    BY <2>2 DEF Msg
<1>4. ASSUME NEW i \in DOMAIN mailbox
      PROVE  mailbox[i].id = id <=> mailbox[i].id[1] = c
  <2>1. mailbox[i] \in Msgs
    BY <1>1 DEF Queues, Range
  <2>2. PICK d \in Clients : mailbox[i] = Msg(d)
    BY <2>1 DEF Msgs
  <2>3. QED
    BY <2>2 DEF Msg
<1>5. /\ InPool(c) => \E i : inPool = {i}
      /\ ~InPool(c) => inPool = {}
  <2>1. ASSUME InPool(c) PROVE \E i : inPool = {i}
    <3>1. PICK i \in DOMAIN pool : pool[i].id[1] = c
      BY <2>1 DEF InPool, Owners
    <3>2. \A j \in DOMAIN pool : pool[j].id[1] = c => j = i
      BY <1>1, <3>1 DEF Queues, OneEach
    <3>3. inPool = {i}
      BY <1>3, <3>1, <3>2
    <3>4. QED
      BY <3>3
  <2>2. ASSUME ~InPool(c) PROVE inPool = {}
    BY <1>3, <2>2 DEF InPool, Owners
  <2>3. QED
    BY <2>1, <2>2
<1>6. /\ InMail(c) => \E i : inMail = {i}
      /\ ~InMail(c) => inMail = {}
  <2>1. ASSUME InMail(c) PROVE \E i : inMail = {i}
    <3>1. PICK i \in DOMAIN mailbox : mailbox[i].id[1] = c
      BY <2>1 DEF InMail, Owners
    <3>2. \A j \in DOMAIN mailbox : mailbox[j].id[1] = c => j = i
      BY <1>1, <3>1 DEF Queues, OneEach
    <3>3. inMail = {i}
      BY <1>4, <3>1, <3>2
    <3>4. QED
      BY <3>3
  <2>2. ASSUME ~InMail(c) PROVE inMail = {}
    BY <1>4, <2>2 DEF InMail, Owners
  <2>3. QED
    BY <2>1, <2>2
<1>7. inOut = IF Writing(c) THEN {c} ELSE {}
  <2>1. ASSUME NEW d \in Clients
        PROVE  (\E i \in DOMAIN hnd[d].out_buffer : hnd[d].out_buffer[i].id = id) <=> d = c /\ Writing(c)
    <3>1. CASE ~Writing(d)
      <4>1. DOMAIN hnd[d].out_buffer = {}
        BY <3>1 DEF Writing
      <4>2. QED
        BY <3>1, <4>1
    <3>2. CASE Writing(d)
      <4>1. Answering(d)
        BY <1>1, <3>2 DEF Exchange, ExchangeOf, Underway
      <4>2. \/ hnd[d].out_buffer = <<Part(d, 1), Part(d, 2)>>
            \/ hnd[d].out_buffer = <<Part(d, 2)>>
        BY <3>2, <4>1 DEF Answering, Answered, Writing
      <4>3. /\ \A i \in DOMAIN hnd[d].out_buffer : hnd[d].out_buffer[i].id = <<d, Current(d)>>
            /\ 1 \in DOMAIN hnd[d].out_buffer
        BY <4>2 DEF Part
      <4>4. QED
        BY <3>2, <4>3
    <3>3. QED
      BY <3>1, <3>2
  <2>2. QED
    BY <2>1
<1>8. \A i : Cardinality({i}) = 1
  BY FS_Singleton
<1>9. Cardinality({}) = 0
  BY FS_EmptySet
<1>10. Places(id) = Cardinality(inPool) + Cardinality(inMail) + Cardinality(inOut)
  BY DEF Places
<1> HIDE DEF inPool, inMail, inOut, id
<1>11. CASE Underway(c)
  <2>1. Unread(c) = <<>>
    <3>1. wire[c] = <<>> /\ hnd[c].in_buffer = <<>>
      BY <1>1, <1>11 DEF ExchangeOf, Answering
    <3>2. QED
      BY <3>1, EmptySeq, ConcatEmptySeq DEF Unread
  <2>2. /\ ~(InPool(c) /\ InMail(c))
        /\ Writing(c) => ~InPool(c) /\ ~InMail(c)
    BY <1>1 DEF Queues
  <2>3. Places(id) = 1
    <3>1. CASE InPool(c)
      <4>1. Cardinality(inPool) = 1 /\ Cardinality(inMail) = 0 /\ Cardinality(inOut) = 0
        BY <1>5, <1>6, <1>7, <1>8, <1>9, <2>2, <3>1
      <4>2. QED
        BY <1>10, <4>1
    <3>2. CASE InMail(c)
      <4>1. Cardinality(inPool) = 0 /\ Cardinality(inMail) = 1 /\ Cardinality(inOut) = 0
        BY <1>5, <1>6, <1>7, <1>8, <1>9, <2>2, <3>2
      <4>2. QED
        BY <1>10, <4>1
    <3>3. CASE Writing(c)
      <4>1. Cardinality(inPool) = 0 /\ Cardinality(inMail) = 0 /\ Cardinality(inOut) = 1
        BY <1>5, <1>6, <1>7, <1>8, <1>9, <2>2, <3>3
      <4>2. QED
        BY <1>10, <4>1
    <3>4. QED
      BY <1>11, <3>1, <3>2, <3>3 DEF Underway
  <2>4. QED
    BY <2>1, <2>3 DEF id
<1>12. CASE ~Underway(c)
  <2>1. Len(got[c]) \in Nat
    BY <1>1, LenProperties DEF TypeOK
  <2>2. served[c] # "gone"
    <3>1. served[c] = "gone" => sent[c] = 2 * Len(Script[c]) /\ got[c] = OwedAll(c)
      BY <1>1, ScriptFacts DEF ExchangeOf
    <3>2. sent[c] = 2 * Len(Script[c]) => Current(c) = Len(Script[c])
      BY <1>1, <1>2, ScriptFacts
    <3>3. QED
      BY <1>2, <2>1, <3>1, <3>2 DEF OwedAll
  <2>3. Reading(c)
    BY <1>1, <1>12, <2>2 DEF ExchangeOf
  <2>4. /\ Consumed(c) \in Nat /\ Len(Unread(c)) \in Nat /\ Unread(c) \in Seq(Pieces)
        /\ sent[c] = 2 * Consumed(c) + Len(Unread(c)) /\ sent[c] \in Nat /\ Current(c) \in Nat
        /\ got[c] = Owed(c, Consumed(c))
    <3>1. Consumed(c) \in 0..Len(Script[c]) /\ Len(Script[c]) \in Nat /\ sent[c] \in Nat
          /\ Current(c) \in 0..Len(Script[c])
      BY <1>1, <2>3, ReadingFacts, ScriptFacts
    <3>2. QED
      <4>1. /\ Len(Unread(c)) \in Nat /\ Unread(c) \in Seq(Pieces)
            /\ sent[c] = 2 * Consumed(c) + Len(Unread(c))
        BY <1>1, <2>3, ReadingFacts
      <4>2. got[c] = Owed(c, Consumed(c))
        BY <2>3 DEF Reading
      <4>3. Consumed(c) \in Nat /\ Current(c) \in Nat
        BY <3>1
      <4>4. QED
        BY <3>1, <4>1, <4>2, <4>3
  <2>5. Unread(c) # <<>> /\ Len(Unread(c)) >= 1
    <3>1. Consumed(c) # Current(c)
      BY <1>2, <2>1, <2>4
    <3>2. Len(Unread(c)) >= 1
      BY <1>2, <2>4, <3>1
    <3>3. Len(<<>>) = 0
      OBVIOUS
    <3>4. QED
      BY <3>2, <3>3
  <2>6. Unread(c)[Len(Unread(c))].id = <<c, Current(c)>>
    <3>1. Len(Unread(c)) \in 1..Len(Unread(c))
      BY <2>4, <2>5
    <3>2. Unread(c)[Len(Unread(c))] = Piece(c, 2 * Consumed(c) + Len(Unread(c)))
      BY <2>3, <3>1 DEF Reading
    <3>3. (sent[c] + 1) \div 2 = Current(c)
      <4>1. \A m \in Nat : (2 * m + 1) \div 2 = m
        OBVIOUS
      <4>2. Current(c) \in Nat /\ sent[c] = 2 * Current(c)
        BY <1>2, <2>4
      <4>3. QED
        BY <4>1, <4>2
    <3>4. QED
      BY <2>4, <3>2, <3>3 DEF Piece
  <2>7. Places(id) = 0
    <3>1. Cardinality(inPool) = 0 /\ Cardinality(inMail) = 0 /\ Cardinality(inOut) = 0
      BY <1>5, <1>6, <1>7, <1>9, <1>12 DEF Underway
    <3>2. QED
      BY <1>10, <3>1
  <2>8. QED
    BY <2>5, <2>6, <2>7 DEF id
<1>13. QED
  BY <1>11, <1>12

LEMMA OrderlyAlways ==
    ASSUME Orderly, LinesStayLines
    PROVE  Spec => []OrderlyStrong
<1>1. Init => OrderlyStrong
  BY InitHolds, InitTyped, OrderlyInit DEF OrderlyStrong
<1>2. OrderlyStrong /\ [Next]_vars => OrderlyStrong'
  BY OrderlyStep
<1>3. QED
  BY <1>1, <1>2, PTL DEF Spec

(***************************************************************************)
(* With orderly clients, any number of them, any scripts, descriptors and  *)
(* workers: a client gets the answers to its own requests, whole and in    *)
(* the order it asked, although an answer comes back from the pool for a   *)
(* descriptor NUMBER that the kernel reuses                                *)
(* (EventLoop::handlePipeNotify, ConnectionHandler::handleWrite).          *)
(***************************************************************************)
THEOREM AnswersInOrder ==
    ASSUME Orderly, LinesStayLines
    PROVE  Spec => []OwnAnswersInOrder
<1>1. Spec => []OrderlyStrong
  BY OrderlyAlways
<1>2. OrderlyStrong => OwnAnswersInOrder
  BY OrderedAnswers
<1>3. QED
  BY <1>1, <1>2, PTL

(***************************************************************************)
(* A request read in full is in exactly one place until it is answered:    *)
(* neither lost on the way from handleRead through ThreadPool and the wake *)
(* pipe to handleWrite, nor answered twice.                                *)
(***************************************************************************)
THEOREM InOnePlace ==
    ASSUME Orderly, LinesStayLines
    PROVE  Spec => []ExactlyOnePlace
<1>1. Spec => []OrderlyStrong
  BY OrderlyAlways
<1>2. OrderlyStrong => ExactlyOnePlace
  BY OnePlace
<1>3. QED
  BY <1>1, <1>2, PTL

(***************************************************************************)
(* EPOLLOUT is asked for whenever something is in an output buffer: the    *)
(* mask that EventLoop::updateHandler sets is never overwritten by the     *)
(* acceptor's, which it read before.                                       *)
(***************************************************************************)
THEOREM OutputIsArmed ==
    ASSUME Orderly, LinesStayLines
    PROVE  Spec => []OutputArmed
<1>1. Spec => []OrderlyStrong
  BY OrderlyAlways
<1>2. OrderlyStrong => OutputArmed
  BY DEF OrderlyStrong, OrderlyInv, Loop, LoopOf, Writing, OutputArmed
<1>3. QED
  BY <1>1, <1>2, PTL
=============================================================================
