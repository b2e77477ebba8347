------------------------------ MODULE Reactor ------------------------------
(***************************************************************************)
(* A sub-reactor with its connections: Acceptor, ConnectionHandler,        *)
(* Handler and the part of EventLoop that finds a handler for a result.    *)
(*                                                                         *)
(* The acceptor's thread creates a ConnectionHandler and registers it with *)
(* the reactor's epoll set; the reactor thread reads requests, submits     *)
(* queries to the thread pool and writes answers; a worker that finishes a *)
(* query posts the answer for a file descriptor NUMBER.  The kernel reuses *)
(* the number as soon as it is closed.                                     *)
(*                                                                         *)
(* Other modules' promises are used here, not their detail: the pool is    *)
(* the FIFO of module Executor, with its first Width unfinished tasks      *)
(* running; the wake pipe and msg_q_ are the FIFO of module Mailbox.       *)
(* Reactors::selectl maps a descriptor to the same reactor every time, so  *)
(* one reactor shows every interaction between connections that share one. *)
(*                                                                         *)
(* A request travels in two pieces, the second of which ends it (the       *)
(* newline of a TCP line, the blank line of an HTTP header); an answer in  *)
(* two pieces as well, so that recv and send may be partial.  What a query *)
(* answers is its own identity <<client, number>>.                         *)
(***************************************************************************)
EXTENDS Naturals, FiniteSets, SequencesExt

CONSTANTS Clients,      \* one connection each
          Script,       \* Script[c][i], the kind of c's i-th request
          NumFds,       \* descriptors of this reactor
          Width,        \* worker threads
          Pipelining,   \* clients may send on without waiting for an answer
          EarlyClose,   \* clients may close or reset at any time
          None

ASSUME ReactorAssumption ==
    /\ NumFds \in Nat \ {0} /\ Width \in Nat \ {0}
    /\ DOMAIN Script = Clients
    /\ \A c \in Clients : Script[c] \in Seq({"line", "query", "page", "unknown"})
    /\ Pipelining \in BOOLEAN /\ EarlyClose \in BOOLEAN
    /\ None \notin Clients

VARIABLES
    peer,       \* the client's end: "new", "open", "fin" (closed), "reset"
    sent,       \* pieces of its script a client has sent
    wire,       \* pieces in the socket's receive buffer
    got,        \* answer pieces a client has received
    served,     \* the server's end: "none", "open" or "gone"
    fd,         \* its descriptor, 0 if none
    fd_to_handler,
    accepting,  \* handler the acceptor is registering: in the table, not in epoll
    mask,       \* the epoll interest of a connection, {} if not registered
    hnd,        \* the fields of ConnectionHandler
    loopPc, cur, events,  \* the reactor thread, its current handler, its batch
    pool,       \* unfinished tasks, in order of submission
    mailbox,    \* posted answers
    up          \* the process runs and its behaviour is defined

clientVars == <<peer, sent, got>>
sockVars   == <<served, fd, fd_to_handler, accepting>>
loopVars   == <<loopPc, cur, events>>
vars == <<peer, sent, wire, got, served, fd, fd_to_handler, accepting, mask, hnd,
          loopPc, cur, events, pool, mailbox, up>>

Fds == 1..NumFds
IsHttpKind(kind) == kind # "line"

(* The pieces of c's script: piece k belongs to request (k + 1) \div 2.    *)
Piece(c, k) == [kind |-> Script[c][(k + 1) \div 2], id |-> <<c, (k + 1) \div 2>>,
                last |-> k % 2 = 0]
NumPieces(c) == 2 * Len(Script[c])

AnswerPieces(id) == <<[id |-> id, part |-> 1], [id |-> id, part |-> 2]>>

(* The answer to a line that is not one a client sent as a line.           *)
Garbage(c) == <<c, 0>>

NewHandler == [in_buffer |-> <<>>, is_http |-> FALSE, http_parsed |-> FALSE,
               out_buffer |-> <<>>]

Init ==
    /\ peer = [c \in Clients |-> "new"]
    /\ sent = [c \in Clients |-> 0]
    /\ wire = [c \in Clients |-> <<>>]
    /\ got = [c \in Clients |-> <<>>]
    /\ served = [c \in Clients |-> "none"]
    /\ fd = [c \in Clients |-> 0]
    /\ fd_to_handler = [f \in Fds |-> None]
    /\ accepting = None
    /\ mask = [c \in Clients |-> {}]
    /\ hnd = [c \in Clients |-> NewHandler]
    /\ loopPc = "wait" /\ cur = None
    /\ events = [c \in Clients |-> {}]
    /\ pool = <<>>
    /\ mailbox = <<>>
    /\ up = TRUE
-----------------------------------------------------------------------------
(***************************************************************************)
(* The clients.                                                            *)
(***************************************************************************)
(* What a client is owed for one request, for the first n of its script,   *)
(* and for all: a GET of an unknown path gets no answer.                   *)
AnswerTo(c, i) == IF Script[c][i] = "unknown" THEN <<>> ELSE AnswerPieces(<<c, i>>)
Owed(c, n) ==
    LET upTo[i \in 0..Len(Script[c])] ==
          IF i = 0 THEN <<>> ELSE upTo[i - 1] \o AnswerTo(c, i)
    IN  upTo[n]
OwedAll(c) == Owed(c, Len(Script[c]))

Connect(c) ==
    /\ peer[c] = "new"
    /\ peer' = [peer EXCEPT ![c] = "open"]
    /\ UNCHANGED <<sent, wire, got, sockVars, mask, hnd, loopVars, pool, mailbox, up>>

(***************************************************************************)
(* A client that does not pipeline starts a request when it has the whole  *)
(* answer to the one before (benchmark.cpp, a browser, ab, Nginx).         *)
(***************************************************************************)
SendPiece(c) ==
    /\ peer[c] = "open"
    /\ sent[c] < NumPieces(c)
    /\ Pipelining \/ sent[c] % 2 = 1 \/ Len(got[c]) = Len(Owed(c, sent[c] \div 2))
    /\ sent' = [sent EXCEPT ![c] = @ + 1]
    /\ wire' = [wire EXCEPT ![c] = Append(@, Piece(c, sent[c] + 1))]
    /\ UNCHANGED <<peer, got, sockVars, mask, hnd, loopVars, pool, mailbox, up>>

(***************************************************************************)
(* An orderly client closes when it has every answer.                      *)
(***************************************************************************)
Finish(c) ==
    /\ peer[c] = "open"
    /\ \/ EarlyClose
       \/ sent[c] = NumPieces(c) /\ Len(got[c]) = Len(OwedAll(c))
    /\ peer' = [peer EXCEPT ![c] = "fin"]
    /\ UNCHANGED <<sent, wire, got, sockVars, mask, hnd, loopVars, pool, mailbox, up>>

(* A connection is reset, which discards what it has not read yet.         *)
Reset(c) ==
    /\ EarlyClose
    /\ peer[c] \in {"open", "fin"}
    /\ peer' = [peer EXCEPT ![c] = "reset"]
    /\ wire' = [wire EXCEPT ![c] = <<>>]
    /\ UNCHANGED <<sent, got, sockVars, mask, hnd, loopVars, pool, mailbox, up>>
-----------------------------------------------------------------------------
(***************************************************************************)
(* The acceptor's thread: accept, the ConnectionHandler constructor and    *)
(* updateHandler, which enters the handler in the table under mtx_ and     *)
(* then adds it to the epoll set with the event mask it read BEFORE.       *)
(***************************************************************************)
Accept(c) ==
    /\ up /\ accepting = None
    /\ peer[c] # "new" /\ served[c] = "none"
    /\ LET free == Fds \ {fd[d] : d \in Clients}
       IN  \E f \in free :
              /\ \A g \in free : f <= g
              /\ fd' = [fd EXCEPT ![c] = f]
              /\ fd_to_handler' = [fd_to_handler EXCEPT ![f] = c]
    /\ served' = [served EXCEPT ![c] = "open"]
    /\ accepting' = c
    /\ UNCHANGED <<clientVars, wire, mask, hnd, loopVars, pool, mailbox, up>>

EpollAdd ==
    /\ up /\ accepting # None
    /\ mask' = [mask EXCEPT ![accepting] = {"in"}]
    /\ accepting' = None
    /\ UNCHANGED <<clientVars, wire, served, fd, fd_to_handler, hnd, loopVars,
                   pool, mailbox, up>>
-----------------------------------------------------------------------------
(***************************************************************************)
(* epoll_wait: every registered connection with something to report.  The  *)
(* clients read what they are sent, so a socket is writable.               *)
(***************************************************************************)
Ready(c) ==
    IF mask[c] = {} THEN {}
    ELSE (mask[c] \cap {"out"})
         \cup (IF wire[c] # <<>> \/ peer[c] \in {"fin", "reset"} THEN {"in"} ELSE {})
         \cup (IF peer[c] = "reset" THEN {"hup"} ELSE {})

EpollWait ==
    /\ up /\ loopPc = "wait"
    /\ \E c \in Clients : Ready(c) # {}
    /\ events' = [c \in Clients |-> Ready(c)]
    /\ loopPc' = "batch"
    /\ UNCHANGED <<clientVars, wire, sockVars, mask, hnd, cur, pool, mailbox, up>>

(***************************************************************************)
(* The body of the event loop for one connection is handleRead, then       *)
(* handleWrite, then handleClose, for the events that were reported.  If   *)
(* one of them deletes the handler and another is due, the loop calls a    *)
(* deleted object: behaviour is undefined from there on.                   *)
(***************************************************************************)
Phase(evs) == IF "in" \in evs THEN "read"
              ELSE IF "out" \in evs THEN "write"
              ELSE IF "hup" \in evs THEN "close" ELSE "batch"

StartEvent(c) ==
    /\ up /\ loopPc = "batch" /\ events[c] # {}
    /\ cur' = c
    /\ loopPc' = Phase(events[c])
    /\ UNCHANGED <<clientVars, wire, sockVars, mask, hnd, events, pool, mailbox, up>>

EndBatch ==
    /\ up /\ loopPc = "batch"
    /\ \A c \in Clients : events[c] = {}
    /\ loopPc' = "wait" /\ cur' = None
    /\ UNCHANGED <<clientVars, wire, sockVars, mask, hnd, events, pool, mailbox, up>>

(* The handler of cur has dealt with event ev and still exists.            *)
EventDone(ev) ==
    /\ events' = [events EXCEPT ![cur] = @ \ {ev}]
    /\ loopPc' = Phase(events[cur] \ {ev})
    /\ UNCHANGED <<cur, up>>

(* Mutant of HandleClose: the table entry is not erased.                   *)
HandleClose_KeepsEntry(c, more) ==
    /\ mask' = [mask EXCEPT ![c] = {}]
    /\ fd' = [fd EXCEPT ![c] = 0]
    /\ served' = [served EXCEPT ![c] = "gone"]
    /\ hnd' = [hnd EXCEPT ![c] = NewHandler]
    /\ events' = [events EXCEPT ![c] = {}]
    /\ loopPc' = "batch"
    /\ up' = ~more
    /\ UNCHANGED <<fd_to_handler, cur, accepting>>

(***************************************************************************)
(* handleClose: removeHandler takes the connection out of the epoll set    *)
(* and the table, `delete this` closes the descriptor.  `more` says that   *)
(* the code goes on to use the handler.                                    *)
(***************************************************************************)
HandleClose(c, more) ==
    /\ fd_to_handler' = [fd_to_handler EXCEPT ![fd[c]] = None]
    /\ mask' = [mask EXCEPT ![c] = {}]
    /\ fd' = [fd EXCEPT ![c] = 0]
    /\ served' = [served EXCEPT ![c] = "gone"]
    /\ hnd' = [hnd EXCEPT ![c] = NewHandler]
    /\ events' = [events EXCEPT ![c] = {}]
    /\ loopPc' = "batch"
    /\ up' = ~more
    /\ UNCHANGED <<cur, accepting>>
-----------------------------------------------------------------------------
(***************************************************************************)
(* handleRead.  buf is in_buffer_ with the bytes just received appended.   *)
(***************************************************************************)
LooksHttp(buf) == IsHttpKind(buf[1].kind) /\ ~buf[1].last
Complete(buf) == \E i \in DOMAIN buf : buf[i].last

(* The lines of buf: how many end in its first i pieces, where the k-th    *)
(* ends, what its query answers, what is left after the last.              *)
LinesIn(buf, i) == Cardinality({j \in 1..i : buf[j].last})
LineEnd(buf, k) ==
    IF k = 0 THEN 0 ELSE CHOOSE i \in DOMAIN buf : buf[i].last /\ LinesIn(buf, i) = k
LineAnswer(c, buf, k) ==
    LET start == LineEnd(buf, k - 1) + 1
        end   == LineEnd(buf, k)
    IN  IF start + 1 = end /\ buf[start].id = buf[end].id /\ buf[end].kind = "line"
          THEN buf[end].id ELSE Garbage(c)
AfterLines(buf) == SubSeq(buf, LineEnd(buf, LinesIn(buf, Len(buf))) + 1, Len(buf))

(* Mutant of HttpRequest: in_buffer_ is not cleared.                       *)
HttpRequest_KeepsBuffer(c, buf) ==
    /\ ~hnd[c].http_parsed /\ LooksHttp(buf) /\ Complete(buf) /\ buf[1].kind # "unknown"
    /\ hnd' = [hnd EXCEPT ![c].is_http = TRUE, ![c].http_parsed = TRUE,
                          ![c].in_buffer = buf]
    /\ pool' = Append(pool, [fd |-> fd[c], id |-> buf[1].id])
    /\ UNCHANGED mailbox
    /\ EventDone("in")

(***************************************************************************)
(* A complete GET: http_parsed_ is set and the WHOLE buffer dropped; the   *)
(* page is posted at once, a query submitted; handleRead returns without   *)
(* reading on.                                                             *)
(***************************************************************************)
HttpRequest(c, buf) ==
    /\ ~hnd[c].http_parsed /\ LooksHttp(buf) /\ Complete(buf) /\ buf[1].kind # "unknown"
    /\ hnd' = [hnd EXCEPT ![c].is_http = TRUE, ![c].http_parsed = TRUE,
                          ![c].in_buffer = <<>>]
    /\ IF buf[1].kind = "page"
         THEN /\ mailbox' = Append(mailbox, [fd |-> fd[c], id |-> buf[1].id])
              /\ UNCHANGED pool
         ELSE /\ pool' = Append(pool, [fd |-> fd[c], id |-> buf[1].id])
              /\ UNCHANGED mailbox
    /\ EventDone("in")

(* A GET that is not complete, or whose path is unknown, stays buffered.   *)
HttpWait(c, buf) ==
    /\ ~hnd[c].http_parsed /\ LooksHttp(buf)
    /\ Complete(buf) => buf[1].kind = "unknown"
    /\ hnd' = [hnd EXCEPT ![c].is_http = @ \/ Complete(buf), ![c].in_buffer = buf]
    /\ UNCHANGED <<loopVars, pool, mailbox, up>>

(* While a request is being answered, bytes are buffered and not parsed.   *)
HttpBusy(c, buf) ==
    /\ hnd[c].http_parsed /\ hnd[c].is_http
    /\ hnd' = [hnd EXCEPT ![c].in_buffer = buf]
    /\ UNCHANGED <<loopVars, pool, mailbox, up>>

(***************************************************************************)
(* Anything else is the line protocol, from now on: each complete line is  *)
(* a query.  (A first byte G or P only delays this to the first newline.)  *)
(***************************************************************************)
Lines(c, buf) ==
    /\ IF hnd[c].http_parsed THEN ~hnd[c].is_http ELSE ~LooksHttp(buf)
    /\ hnd' = [hnd EXCEPT ![c].is_http = FALSE, ![c].http_parsed = TRUE,
                          ![c].in_buffer = AfterLines(buf)]
    /\ pool' = pool \o [k \in 1..LinesIn(buf, Len(buf)) |->
                          [fd |-> fd[c], id |-> LineAnswer(c, buf, k)]]
    /\ UNCHANGED <<loopVars, mailbox, up>>

Recv ==
    /\ up /\ loopPc = "read" /\ wire[cur] # <<>>
    /\ \E n \in 1..Len(wire[cur]) :
         LET buf == hnd[cur].in_buffer \o SubSeq(wire[cur], 1, n)
         IN  /\ wire' = [wire EXCEPT ![cur] = SubSeq(@, n + 1, Len(@))]
             /\ \/ HttpRequest(cur, buf) \/ HttpWait(cur, buf)
                \/ HttpBusy(cur, buf) \/ Lines(cur, buf)
    /\ UNCHANGED <<clientVars, sockVars, mask>>

RecvAgain ==
    /\ up /\ loopPc = "read" /\ wire[cur] = <<>> /\ peer[cur] = "open"
    /\ EventDone("in")
    /\ UNCHANGED <<clientVars, wire, sockVars, mask, hnd, pool, mailbox>>

(* Mutant of RecvEnd: the stream's end is taken for "nothing to read".     *)
RecvEnd_Ignored ==
    /\ up /\ loopPc = "read" /\ wire[cur] = <<>> /\ peer[cur] \in {"fin", "reset"}
    /\ EventDone("in")
    /\ UNCHANGED <<clientVars, wire, sockVars, mask, hnd, pool, mailbox>>

(* recv returns 0, or ECONNRESET.                                          *)
RecvEnd ==
    /\ up /\ loopPc = "read" /\ wire[cur] = <<>> /\ peer[cur] \in {"fin", "reset"}
    /\ HandleClose(cur, events[cur] \ {"in"} # {})
    /\ UNCHANGED <<clientVars, wire, pool, mailbox>>
-----------------------------------------------------------------------------
(* Mutants of HandleWrite: what has been sent is not erased unless it was  *)
(* everything; http_parsed_ is not reset for the next request; the event   *)
(* mask stays as it is when everything has been sent.                      *)
HandleWrite_NoErase ==
    /\ up /\ loopPc = "write" /\ peer[cur] = "open"
    /\ \E n \in 1..Len(hnd[cur].out_buffer) :
         LET out == hnd[cur].out_buffer
             all == n = Len(out)
         IN  /\ hnd' = [hnd EXCEPT ![cur].out_buffer = IF all THEN <<>> ELSE out,
                                   ![cur].http_parsed = @ /\ ~all]
             /\ mask' = IF all THEN [mask EXCEPT ![cur] = {"in"}] ELSE mask
             /\ got' = [got EXCEPT ![cur] = @ \o SubSeq(out, 1, n)]
    /\ EventDone("out")
    /\ UNCHANGED <<peer, wire, sent, sockVars, pool, mailbox>>

HandleWrite_StaysParsed ==
    /\ up /\ loopPc = "write" /\ peer[cur] = "open"
    /\ \E n \in 1..Len(hnd[cur].out_buffer) :
         LET out == hnd[cur].out_buffer
         IN  /\ hnd' = [hnd EXCEPT ![cur].out_buffer = SubSeq(out, n + 1, Len(out))]
             /\ mask' = IF n = Len(out) THEN [mask EXCEPT ![cur] = {"in"}] ELSE mask
             /\ got' = [got EXCEPT ![cur] = @ \o SubSeq(out, 1, n)]
    /\ EventDone("out")
    /\ UNCHANGED <<peer, wire, sent, sockVars, pool, mailbox>>

HandleWrite_StaysArmed ==
    /\ up /\ loopPc = "write" /\ peer[cur] = "open"
    /\ LET out == hnd[cur].out_buffer
       IN  \E n \in 0..Len(out) :
              /\ n > 0 \/ out = <<>>
              /\ hnd' = [hnd EXCEPT ![cur].out_buffer = SubSeq(out, n + 1, Len(out)),
                                    ![cur].http_parsed = @ /\ n < Len(out)]
              /\ got' = [got EXCEPT ![cur] = @ \o SubSeq(out, 1, n)]
    /\ EventDone("out")
    /\ UNCHANGED <<peer, wire, sent, sockVars, mask, pool, mailbox>>

(***************************************************************************)
(* handleWrite: send some of out_buffer_; when it is empty, stop asking    *)
(* for EPOLLOUT and, for HTTP, get ready for the next request, dropping    *)
(* what was buffered meanwhile.  Bytes sent to a client that has closed    *)
(* come back as a reset.  EPOLLOUT has been reported and nobody else fills *)
(* the socket, so send takes something and never says EAGAIN.              *)
(***************************************************************************)
HandleWrite ==
    /\ up /\ loopPc = "write" /\ peer[cur] # "reset"
    /\ \E n \in 1..Len(hnd[cur].out_buffer) :
         LET out == hnd[cur].out_buffer
             all == n = Len(out)
         IN  /\ hnd' = [hnd EXCEPT
                  ![cur].out_buffer = SubSeq(out, n + 1, Len(out)),
                  ![cur].http_parsed = IF all /\ hnd[cur].is_http THEN FALSE ELSE @,
                  ![cur].in_buffer = IF all /\ hnd[cur].is_http THEN <<>> ELSE @]
             /\ mask' = IF all THEN [mask EXCEPT ![cur] = {"in"}] ELSE mask
             /\ IF peer[cur] = "open"
                  THEN /\ got' = [got EXCEPT ![cur] = @ \o SubSeq(out, 1, n)]
                       /\ UNCHANGED <<peer, wire>>
                  ELSE /\ peer' = [peer EXCEPT ![cur] = "reset"]
                       /\ wire' = [wire EXCEPT ![cur] = <<>>]
                       /\ UNCHANGED got
    /\ EventDone("out")
    /\ UNCHANGED <<sent, sockVars, pool, mailbox>>

(***************************************************************************)
(* send fails on a connection that was reset after epoll_wait: SIGPIPE,    *)
(* which nothing ignores, or an error, after which handleWrite closes the  *)
(* handler and reads its out_buffer_.                                      *)
(***************************************************************************)
SendFails ==
    /\ up /\ loopPc = "write" /\ peer[cur] = "reset"
    /\ HandleClose(cur, TRUE)
    /\ UNCHANGED <<clientVars, wire, pool, mailbox>>
-----------------------------------------------------------------------------
(***************************************************************************)
(* A worker finishes one of the running tasks and posts its answer, for    *)
(* the descriptor the task captured.                                       *)
(***************************************************************************)
FinishTask(i) ==
    /\ up /\ i \in DOMAIN pool
    /\ pool' = RemoveAt(pool, i)
    /\ mailbox' = Append(mailbox, pool[i])
    /\ UNCHANGED <<clientVars, wire, sockVars, mask, hnd, loopVars, up>>

(* Mutants of Deliver: updateHandler is not called; EPOLLOUT replaces      *)
(* EPOLLIN instead of joining it.                                          *)
Deliver_NoUpdate ==
    /\ up /\ loopPc \in {"wait", "batch"} /\ mailbox # <<>>
    /\ LET m == Head(mailbox)
           h == fd_to_handler[m.fd]
       IN  hnd' = IF h = None THEN hnd
                  ELSE [hnd EXCEPT ![h].out_buffer = AnswerPieces(m.id)]
    /\ mailbox' = Tail(mailbox)
    /\ UNCHANGED <<clientVars, wire, sockVars, mask, loopVars, pool, up>>

Deliver_OutOnly ==
    /\ up /\ loopPc \in {"wait", "batch"} /\ mailbox # <<>>
    /\ LET m == Head(mailbox)
           h == fd_to_handler[m.fd]
       IN  /\ h # None
           /\ hnd' = [hnd EXCEPT ![h].out_buffer = AnswerPieces(m.id)]
           /\ mask' = [mask EXCEPT ![h] = {"out"}]
    /\ mailbox' = Tail(mailbox)
    /\ UNCHANGED <<clientVars, wire, sockVars, loopVars, pool, up>>

(***************************************************************************)
(* handlePipeNotify, for one message: the handler that now has the         *)
(* descriptor gets the answer as its out_buffer_ and, if it is in the      *)
(* epoll set, waits for EPOLLOUT.  Without a handler it is dropped.        *)
(***************************************************************************)
Deliver ==
    /\ up /\ loopPc \in {"wait", "batch"} /\ mailbox # <<>>
    /\ LET m == Head(mailbox)
           h == fd_to_handler[m.fd]
       IN  IF h = None
             THEN UNCHANGED <<hnd, mask>>
             ELSE /\ hnd' = [hnd EXCEPT ![h].out_buffer = AnswerPieces(m.id)]
                  /\ mask' = IF mask[h] = {} THEN mask
                             ELSE [mask EXCEPT ![h] = {"in", "out"}]
    /\ mailbox' = Tail(mailbox)
    /\ UNCHANGED <<clientVars, wire, sockVars, loopVars, pool, up>>

ClientStep(c) == Connect(c) \/ SendPiece(c) \/ Finish(c) \/ Reset(c)
AcceptorStep == EpollAdd \/ \E c \in Clients : Accept(c)
LoopStep == \/ EpollWait \/ EndBatch \/ Recv \/ RecvAgain \/ RecvEnd
            \/ HandleWrite \/ SendFails \/ Deliver
            \/ \E c \in Clients : StartEvent(c)

(* Nothing happens after undefined behaviour, or when all is done.         *)
Stopped == (up => \A c \in Clients : served[c] = "gone") /\ UNCHANGED vars

Next == \/ \E c \in Clients : ClientStep(c)
        \/ AcceptorStep \/ LoopStep
        \/ \E i \in 1..Width : FinishTask(i)
        \/ Stopped

Spec == Init /\ [][Next]_vars

(***************************************************************************)
(* Fairness: the server's threads run, and a client finishes a request it  *)
(* has begun to send and closes when it is done.  Nobody has to connect.   *)
(***************************************************************************)
FairSpec ==
    /\ Spec
    /\ WF_vars(AcceptorStep) /\ WF_vars(LoopStep) /\ WF_vars(FinishTask(1))
    /\ WF_vars(\E c \in Clients : SendPiece(c) \/ Finish(c))
-----------------------------------------------------------------------------
Ids == UNION {{c} \X (0..Len(Script[c])) : c \in Clients}
Pieces == [kind : {"line", "query", "page", "unknown"}, id : Ids, last : BOOLEAN]
Parts == [id : Ids, part : {1, 2}]
Messages == [fd : Fds, id : Ids]

TypeOK ==
    /\ peer \in [Clients -> {"new", "open", "fin", "reset"}]
    /\ sent \in [Clients -> Nat] /\ \A c \in Clients : sent[c] <= NumPieces(c)
    /\ wire \in [Clients -> Seq(Pieces)]
    /\ got \in [Clients -> Seq(Parts)]
    /\ served \in [Clients -> {"none", "open", "gone"}]
    /\ fd \in [Clients -> 0..NumFds]
    /\ fd_to_handler \in [Fds -> Clients \cup {None}]
    /\ {accepting, cur} \subseteq Clients \cup {None}
    /\ mask \in [Clients -> {{}, {"in"}, {"in", "out"}}]
    /\ hnd \in [Clients -> [in_buffer : Seq(Pieces), is_http : BOOLEAN,
                            http_parsed : BOOLEAN, out_buffer : Seq(Parts)]]
    /\ loopPc \in {"wait", "batch", "read", "write", "close"}
    /\ events \in [Clients -> SUBSET {"in", "out", "hup"}]
    /\ pool \in Seq(Messages) /\ mailbox \in Seq(Messages)
    /\ up \in BOOLEAN

(***************************************************************************)
(* The handler table, the descriptors and the epoll set agree, also while  *)
(* connections come and go and the acceptor is between its two steps: no   *)
(* entry outlives its handler, no live handler is missing, two never share *)
(* a descriptor, and what the loop is about to touch still exists.         *)
(***************************************************************************)
TableInv ==
    /\ \A f \in Fds, c \in Clients :
         fd_to_handler[f] = c <=> served[c] = "open" /\ fd[c] = f
    /\ \A c \in Clients :
         /\ mask[c] # {} <=> served[c] = "open" /\ accepting # c
         /\ events[c] # {} => mask[c] # {}
    /\ up /\ loopPc \in {"read", "write", "close"} => served[cur] = "open"

(***************************************************************************)
(* A client gets the answers to its own requests, whole and in the order   *)
(* it asked.                                                               *)
(***************************************************************************)
OwnAnswersInOrder ==
    \A c \in Clients : IsPrefix(got[c], OwedAll(c))

(***************************************************************************)
(* A request whose last piece has been read is in exactly one place until  *)
(* its answer has been sent: a task, a posted message or the output buffer *)
(* (of which the client may have the first half already).                  *)
(***************************************************************************)
Places(id) ==
    Cardinality({i \in DOMAIN pool : pool[i].id = id})
    + Cardinality({i \in DOMAIN mailbox : mailbox[i].id = id})
    + Cardinality({c \in Clients :
                     \E i \in DOMAIN hnd[c].out_buffer : hnd[c].out_buffer[i].id = id})

Outstanding(c) ==     \* c's last request is complete and not fully answered
    sent[c] > 0 /\ sent[c] % 2 = 0 /\ Len(got[c]) < Len(Owed(c, sent[c] \div 2))

ExactlyOnePlace ==
    \A c \in Clients :
       LET unread == hnd[c].in_buffer \o wire[c]
       IN  Outstanding(c) =>
             /\ Places(<<c, sent[c] \div 2>>) = IF unread = <<>> THEN 1 ELSE 0
             /\ unread # <<>> => unread[Len(unread)].id = <<c, sent[c] \div 2>>

(***************************************************************************)
(* An answer in an output buffer is on its way: EPOLLOUT is asked for.     *)
(***************************************************************************)
OutputArmed ==
    \A c \in Clients : hnd[c].out_buffer # <<>> => "out" \in mask[c]

(***************************************************************************)
(* The reactor thread goes on to use a handler it has deleted only when    *)
(* epoll_wait reported more of the connection than its end: it was reset,  *)
(* or the client went away while an answer to it was still to be sent.     *)
(* Whoever closes after the last byte of what it has been sent is safe,    *)
(* however its earlier requests, writes and events overlapped.             *)
(***************************************************************************)
OnlyAbruptEndsFatal ==
    [][up /\ ~up' => peer[cur] = "reset" \/ hnd[cur].out_buffer # <<>>]_vars

(***************************************************************************)
(* Every request is answered, and the connection released after the last.  *)
(***************************************************************************)
AllAnswered ==
    \A c \in Clients : peer[c] = "open" /\ sent[c] > 0
                          ~> got[c] = OwedAll(c) /\ served[c] = "gone"

(***************************************************************************)
(* A connection that the client closes or resets, whatever was under way   *)
(* for it, is released: handler and descriptor do not leak (unless the     *)
(* process meets undefined behaviour).                                     *)
(***************************************************************************)
ClosedIsReleased ==
    \A c \in Clients : up /\ served[c] = "open" /\ peer[c] \in {"fin", "reset"}
                          ~> ~up \/ served[c] = "gone"

(***************************************************************************)
(* README.md:41: a query's result is written back to the client; nobody    *)
(* else gets it.                                                           *)
(***************************************************************************)
AnswersGoHome ==
    \A c \in Clients : \A k \in DOMAIN got[c] : got[c][k].id[1] = c

(***************************************************************************)
(* README.md:9: a TCP client sends queries line by line.  When nothing of  *)
(* its connection is under way any more, each line it has sent has been    *)
(* answered.                                                               *)
(***************************************************************************)
Quiet(c) ==
    /\ wire[c] = <<>> /\ hnd[c].out_buffer = <<>> /\ sent[c] % 2 = 0
    /\ \A m \in Range(pool) \cup Range(mailbox) : m.id[1] # c

EveryLineAnswered ==
    \A c \in Clients :
       up /\ peer[c] = "open" /\ Quiet(c) => Len(got[c]) = Len(Owed(c, sent[c] \div 2))
=============================================================================
