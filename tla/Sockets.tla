------------------------------- MODULE Sockets ------------------------------
(* A TCP or a UDP socket (sys/net/socket) over the protocol stack, smoltcp,  *)
(* which is external: a poll of it moves the socket as the other end and the *)
(* network please.  A call takes turns: it polls, looks at the socket, and   *)
(* waits, until it has an answer or its 5 seconds are over.  Data are counted,*)
(* in pieces.                                                                *)
EXTENDS Integers

CONSTANTS
  Addr,           \* addresses with ports
  BufferSize,     \* what a buffer of a socket holds
  Lengths         \* the lengths of the buffers programs pass, 1 for the status

(* Port 0 of nowhere is no address; a buffer that can take nothing asks for  *)
(* nothing.                                                                  *)
ASSUME SocketsAssumption ==
  /\ "nobody" \notin Addr
  /\ BufferSize \in Nat /\ Lengths \subseteq Nat \ {0}

VARIABLES
  net,            \* whether a card was found
  sock,           \* [proto, state, peer, remote, rx, tx]
  call,           \* the call in progress, or Idle
  answer          \* the answer of the last call

socketVars == <<net, sock, call, answer>>

Idle == [op |-> "none"]
NoPeer == "nobody"
Ok(n) == [ok |-> TRUE, n |-> n]
Err == [ok |-> FALSE, n |-> 0]
Least(a, b) == IF a < b THEN a ELSE b

new ==
  [proto : {"tcp", "udp"}, state : {"Closed"}, peer : {NoPeer}, remote : {NoPeer},
   rx : {0}, tx : {0}]

SocketsInit == net \in BOOLEAN /\ sock \in new /\ call = Idle /\ answer = Err

can_recv(k) == k.rx > 0
may_recv(k) == k.state \in {"Established", "FinWait"} \/ k.rx > 0
can_send_open(k) == k.state \in {"Established", "CloseWait", "Open"}
can_send(k) == k.state \in {"Established", "CloseWait", "Open"} /\ k.tx < BufferSize

-----------------------------------------------------------------------------
(* Where a poll can take a socket.                                           *)
Moves(s) ==
  CASE s = "Listen" -> {"Listen", "SynReceived", "Established"}
    [] s = "SynReceived" -> {"SynReceived", "Established", "CloseWait", "Listen"}
    [] s = "SynSent" -> {"SynSent", "Established", "CloseWait", "Closed"}
    [] s = "Established" -> {"Established", "CloseWait", "Closed"}
    [] s \in {"CloseWait", "FinWait"} -> {s, "Closed"}
    [] OTHER -> {s}

Receives(s) == s \in {"Established", "CloseWait", "FinWait", "Open"}

Polled(k) ==
  {p \in [proto : {k.proto}, state : Moves(k.state), peer : Addr \cup {NoPeer},
          remote : {k.remote}, rx : k.rx..BufferSize, tx : 0..k.tx] :
     /\ IF p.state \in {"Closed", "Listen", "Open"} THEN p.peer = NoPeer
        ELSE IF k.peer = NoPeer THEN p.peer \in Addr ELSE p.peer = k.peer
     /\ Receives(p.state) \/ p.rx = k.rx}

(* A call begins with its clock at 0; `done` is its flag: connecting, sent   *)
(* or closed.                                                                *)
Call(op, addr, len) ==
  /\ call = Idle
  /\ call' = [op |-> op, addr |-> addr, len |-> len, done |-> FALSE, late |-> FALSE,
              queued |-> 0, from |-> sock.state]
  /\ UNCHANGED <<net, sock, answer>>

Begin ==
  \/ \E addr \in Addr : Call("connect", addr, 0)
  \/ \E op \in {"listen", "accept"} : sock.proto = "tcp" /\ Call(op, NoPeer, 0)
  \/ \E op \in {"read", "write"}, len \in Lengths : Call(op, NoPeer, len)
  \/ Call("close", NoPeer, 0)

Answer(k, a) == call' = Idle /\ answer' = a /\ sock' = k
Again(k, c) == call' = c /\ sock' = k /\ UNCHANGED answer
Flagged == [call EXCEPT !.done = TRUE]

(* Five seconds have gone by since the call began.                           *)
TimeOut ==
  /\ call # Idle /\ ~call.late
  /\ call' = [call EXCEPT !.late = TRUE]
  /\ UNCHANGED <<net, sock, answer>>

(* close has no time-out, and listen takes one turn.                         *)
ExpiredNoConnect == call.op \notin {"close", "listen", "connect"} /\ call.late
Expired == call.op \notin {"close", "listen"} /\ call.late

(* Without a card connect succeeds, and close does nothing.                  *)
NoNet ==
  /\ call # Idle /\ ~net /\ UNCHANGED net
  /\ Answer(IF call.op = "connect" /\ sock.proto = "udp"
            THEN [sock EXCEPT !.remote = call.addr] ELSE sock,
            IF call.op \in {"connect", "close"} THEN Ok(0) ELSE Err)

-----------------------------------------------------------------------------
ConnectTcp(k) ==
  CASE k.state = "Closed" ->
         IF call.done THEN Answer(k, Err)
         ELSE \/ Answer(k, Err)
              \/ Again([k EXCEPT !.state = "SynSent", !.peer = call.addr, !.rx = 0, !.tx = 0],
                       Flagged)
    [] k.state = "SynSent" -> Again(k, call)
    [] k.state = "Established" -> Answer(k, Ok(0))
    [] OTHER -> Answer(k, IF can_recv(k) THEN Ok(0) ELSE Err)

(* A UDP socket is bound once; one that is bound waits for its time-out.     *)
ConnectUdp(k) ==
  IF k.state = "Closed" THEN Answer([k EXCEPT !.state = "Open", !.remote = call.addr], Ok(0))
  ELSE Again(k, call)

Connect(k) == call.op = "connect" /\ IF k.proto = "tcp" THEN ConnectTcp(k) ELSE ConnectUdp(k)

Listen(k) ==
  /\ call.op = "listen"
  /\ IF k.state = "Closed"
     THEN Answer([k EXCEPT !.state = "Listen", !.rx = 0, !.tx = 0], Ok(0)) ELSE Answer(k, Err)

Accept(k) ==
  /\ call.op = "accept"
  /\ IF k.peer # NoPeer THEN Answer(k, Ok(0)) ELSE Again(k, call)

(* A buffer of one byte asks for the status.  A datagram that is longer than *)
(* the buffer is lost.                                                       *)
Received(k) == IF k.proto = "tcp" THEN k.rx - Least(k.rx, call.len) ELSE 0
Read(k) ==
  /\ call.op = "read"
  /\ IF call.len = 1 THEN Answer(k, Ok(1))
     ELSE IF can_recv(k)
     THEN \/ Answer([k EXCEPT !.rx = Received(k)], Ok(Least(k.rx, call.len)))
          \/ /\ k.proto = "udp" /\ call.len < k.rx
             /\ Answer([k EXCEPT !.rx = 0], Err)
     ELSE IF k.proto = "tcp" /\ ~may_recv(k) THEN Answer(k, Ok(0))
     ELSE Again(k, call)

(* What fits is queued, a datagram as a whole; the answer comes with the     *)
(* next turn, and is the length that was asked for.                          *)
Queue(k, n) ==
  Again([k EXCEPT !.tx = @ + n], [call EXCEPT !.done = TRUE, !.queued = n])

Write(k) ==
  /\ call.op = "write"
  /\ IF call.done THEN Answer(k, Ok(call.len))
     ELSE IF ~can_send(k) THEN Again(k, call)
     ELSE IF k.proto = "tcp" THEN Queue(k, Least(call.len, BufferSize - k.tx))
     ELSE IF k.remote # NoPeer /\ call.len <= BufferSize - k.tx THEN Queue(k, call.len)
     ELSE Answer(k, Err)

ClosedFrom(s) ==
  CASE s \in {"Established", "SynReceived"} -> "FinWait"
    [] s = "FinWait" -> "FinWait" [] OTHER -> "Closed"

Forgotten(k) == IF k.state = "Closed" THEN [k EXCEPT !.peer = NoPeer] ELSE k

Close(k) ==
  /\ call.op = "close"
  /\ IF call.done THEN Answer(k, Ok(0))
     ELSE Again(Forgotten([k EXCEPT !.state = ClosedFrom(@)]), Flagged)

(* A turn of the call.                                                       *)
Turn ==
  /\ call # Idle /\ net
  /\ \/ Expired /\ Answer(sock, Err)
     \/ /\ ~Expired
        /\ \E k \in Polled(sock) :
             Connect(k) \/ Listen(k) \/ Accept(k) \/ Read(k) \/ Write(k) \/ Close(k)
  /\ UNCHANGED net

(* A call on another socket polls them all.                                  *)
OthersPoll ==
  /\ call = Idle /\ net
  /\ sock' \in Polled(sock)
  /\ UNCHANGED <<net, call, answer>>

SocketsNext == Begin \/ TimeOut \/ Turn \/ NoNet \/ OthersPoll
SocketsSafely == SocketsInit /\ [][SocketsNext]_socketVars

-----------------------------------------------------------------------------
(* What the answers say is so: a socket that was closed and is said to be    *)
(* connected has the peer that was asked for, however long the handshake     *)
(* took and whatever the other end did; a read of nothing means that nothing *)
(* more will come; a write that succeeded queued something, and one that     *)
(* failed queued something only when the time ran out just then; an accepted *)
(* connection has a peer; a closed socket is no longer open (tcp.rs 57-240,  *)
(* udp.rs 62-192).                                                           *)
AnswersTrue ==
  [][(call # Idle /\ call' = Idle /\ net) =>
       LET yes == answer'.ok
       IN  CASE call.op = "connect" ->
                  (yes /\ call.from = "Closed") =>
                     IF sock.proto = "tcp"
                     THEN /\ sock'.peer = call.addr
                          /\ sock'.state = "Established" \/ can_recv(sock')
                     ELSE sock'.remote = call.addr /\ sock'.state = "Open"
             [] call.op = "read" ->
                  (yes /\ call.len # 1 /\ answer'.n = 0) => ~may_recv(sock')
             [] call.op = "write" ->
                  IF yes THEN call.queued > 0 ELSE call.queued = 0 \/ call.late
             [] call.op = "accept" -> yes => sock'.peer # NoPeer
             [] call.op = "close" -> sock'.state \in {"Closed", "FinWait"}
             [] OTHER -> TRUE]_socketVars

(* Every call comes to an end, however silent the other end is.              *)
CallsEnd == [](call # Idle => <>(call = Idle))

(* Both: each call is answered, and truly.                                   *)
CallsAnswered == AnswersTrue /\ CallsEnd
=============================================================================
