------------------------------- MODULE Network -------------------------------
(***************************************************************************)
(* Sockets on the event loop: the reactor (linux/reactor.c) and the TCP,   *)
(* UDP and TLS requests on it (posix/net.c, udp.c, tls.c).                 *)
(*                                                                         *)
(* The reactor has ONE entry per descriptor, so a request that registers   *)
(* takes the place of the one that was there, and one that is done removes *)
(* whatever is there.  Streams carry units, which need no contents: what   *)
(* a property has to tell is how many there are and where.  A TLS          *)
(* connection holds units that OpenSSL has taken from the descriptor and   *)
(* that no poll of the descriptor reports any more, and messages of the    *)
(* protocol itself (a key update, a renegotiation) pass between its two    *)
(* ends: a read may then have to send first, and a write to receive.       *)
(***************************************************************************)
EXTENDS Integers, Sequences, FiniteSetsExt

CONSTANTS
  Listener, Tcp, Tls, Udp, \* the sockets of a run, by kind
  Fd,          \* descriptors the process may have open
  OneAtATime,  \* the program waits for a request on a socket before the next
  MayCancel,   \* the operations whose futures the program may cancel
  MaxRequests, \* bound: requests in a run
  MaxSockets,  \* bound: sockets in a run
  MaxUnits,    \* bound: units, connections and ends of streams that arrive
  Capacity,    \* units a send buffer holds
  ReadSize,    \* units a program asks a read for
  WriteSize,   \* units a program gives a write
  WakeFd,      \* the event descriptor that threads write to
  None         \* no descriptor, no entry

Socket == Listener \cup Tcp \cup Tls \cup Udp
Operation == {"bind", "accept", "upgrade", "connect", "read", "write"}
Outcome == {"completed", "failed", "cancelled"}
Entry == [req : 1 .. MaxRequests, want : {"read", "write"}]

ASSUME NetworkAssumption ==
  /\ Listener \cap (Tcp \cup Tls \cup Udp) = {} /\ Tcp \cap (Tls \cup Udp) = {} /\ Tls \cap Udp = {}
  /\ Fd \subseteq Nat /\ None \notin Fd \cup Socket \cup Entry /\ WakeFd \notin Fd
  /\ OneAtATime \in BOOLEAN /\ MayCancel \subseteq Operation
  /\ MaxRequests \in Nat /\ MaxSockets \in Nat /\ MaxUnits \in Nat /\ Capacity \in Nat
  /\ ReadSize \subseteq Nat \ {0} /\ WriteSize \subseteq Nat \ {0}

VARIABLES
  fd,      \* the descriptor in a socket's record; None is -1
  stage,   \* "unborn", "made", "open" once the program has it, "closed"
  table,   \* fds: the reactor's entry for a descriptor
  reqs,    \* the requests in the order they were made, with their futures
  net,     \* the other end and the kernel's buffers, for each socket
  shaking, \* requests whose TLS handshake a thread performs
  posted,  \* requests whose thread has posted the result and not yet woken
  results, \* tls_hs_results: a stack of the ends of handshakes
  woken,   \* the wake descriptor is readable
  phase,   \* where sn_event_loop_run is
  batch    \* events epoll_wait has returned and that are still to dispatch

sockets == <<fd, stage>>
threads == <<shaking, posted, results>>
loop == <<phase, batch>>
vars == <<fd, stage, table, reqs, net, shaking, posted, results, woken, phase, batch>>

Request == [op : Operation, sock : Socket, new : Socket, size : ReadSize \cup WriteSize \cup {0, 1},
            state : Outcome \cup {"pending"}, moved : Nat,
            alive : BOOLEAN] \* the collector has not swept its record
\* talk is about a message of the TLS protocol: the peer's asks for one ("asked",
\* not yet read), OpenSSL has to send it ("owed"), needs the peer's answer to it
\* ("awaited"), and finds that on the descriptor ("answered").
Link == [came : Nat, wire : Nat, held : Nat, room : 0 .. Capacity, out : Nat,
         over : {"no", "eof", "reset"}, dial : {"no", "ok", "refused"},
         talk : {"none", "asked", "owed", "awaited", "answered"}]
Event == [fd : Fd \cup {WakeFd}, ready : SUBSET {"read", "write"}]

TypeOK ==
  /\ fd \in [Socket -> Fd \cup {None}]
  /\ stage \in [Socket -> {"unborn", "made", "open", "closed"}]
  /\ table \in [Fd -> Entry \cup {None}]
  /\ reqs \in Seq(Request) /\ Len(reqs) <= MaxRequests
  /\ net \in [Socket -> Link]
  /\ shaking \subseteq DOMAIN reqs /\ posted \subseteq DOMAIN reqs
  /\ results \in Seq([req : DOMAIN reqs, ok : BOOLEAN])
  /\ woken \in BOOLEAN
  /\ phase \in {"poll", "run", "dispatch"}
  /\ batch \subseteq Event

-----------------------------------------------------------------------------
Least(a, b) == IF a < b THEN a ELSE b

Pending(r) == r \in DOMAIN reqs /\ reqs[r].state = "pending"

\* One more socket is within the bound.
MaySocket == Cardinality({s \in Socket : stage[s] # "unborn"}) < MaxSockets

\* A new descriptor is the lowest one that is free.
FreeFd == Fd \ {fd[s] : s \in Socket}
NextFd == Min(FreeFd)

\* sn_reactor_add_fd, which is sn_reactor_mod_fd for a descriptor in the
\* table, and sn_reactor_del_fd.
Add(f, r, want) == [table EXCEPT ![f] = [req |-> r, want |-> want]]
Del(f) == [table EXCEPT ![f] = None]

New(op, s, c, n) ==
  [op |-> op, sock |-> s, new |-> c, size |-> n, state |-> "pending", moved |-> 0, alive |-> TRUE]

\* sn_future_complete, fail and cancel: the first one counts.
Settled(q, r, o) == [q EXCEPT ![r].state = IF @ = "pending" THEN o ELSE @]

\* What epoll reports for the descriptor of a socket.
Readable(s) == net[s].wire > 0 \/ net[s].over # "no" \/ net[s].talk \in {"asked", "answered"}
Writable(s) ==
  IF stage[s] = "made" THEN net[s].dial # "no" ELSE net[s].room > 0 \/ net[s].over = "reset"

Init ==
  /\ fd = [s \in Socket |-> None]
  /\ stage = [s \in Socket |-> "unborn"]
  /\ table = [f \in Fd |-> None]
  /\ reqs = <<>>
  /\ net = [s \in Socket |-> [came |-> 0, wire |-> 0, held |-> 0, room |-> Capacity,
                              out |-> 0, over |-> "no", dial |-> "no", talk |-> "none"]]
  /\ shaking = {} /\ posted = {} /\ results = <<>>
  /\ woken = FALSE /\ phase = "poll" /\ batch = {}

\* Mutant: a request that must wait removes the entry and makes no new one.
WaitNot(s, r, want) == Del(fd[s])

\* Mutant: whatever OpenSSL wants, the request waits to read.
WaitToRead(s, r, want) == Add(fd[s], r, "read")

\* EAGAIN, or WANT_READ and WANT_WRITE: the request waits for the loop.
WaitFor(s, r, want) == Add(fd[s], r, want)

\* Mutant: what earlier attempts have sent is forgotten.
SentLast(q, r, n) == [q EXCEPT ![r].moved = n]

\* req->sent += n.
Sent(q, r, n) == [q EXCEPT ![r].moved = @ + n]

-----------------------------------------------------------------------------
(* One attempt at an operation, with the requests in q; the callbacks make *)
(* it, and so do the calls that do not wait for the loop first.            *)

\* Mutant: a record is taken before all of it is there.
PullOneMore(s, n) ==
  CASE s \in Tcp -> {Least(n, net[s].wire)}
    [] s \in Udp -> {1}
    [] s \in Tls -> IF net[s].held > 0 THEN {0} ELSE 1 .. net[s].wire + 1

\* read, SSL_read or recvfrom: TLS takes records from the descriptor only when
\* it holds nothing, and keeps what the reader has no room for.
Pull(s, n) ==
  CASE s \in Tcp -> {Least(n, net[s].wire)}
    [] s \in Udp -> {1}
    [] s \in Tls -> IF net[s].held > 0 THEN {0} ELSE 1 .. net[s].wire

\* OpenSSL sends the message it owes, if the send buffer takes it, and then goes
\* on or needs the peer's answer.
Spoken(l) ==
  IF l.room > 0 THEN {[l EXCEPT !.talk = t, !.room = @ - 1] : t \in {"none", "awaited"}}
                ELSE {[l EXCEPT !.talk = "owed"]}

\* What SSL_read (op is "read") or SSL_write makes of the protocol's messages before
\* it comes to the data: only a read takes the peer's message in, and data that
\* came before it may be read first.
Talk(l, op) ==
  CASE l.talk \in {"none", "awaited"} -> {l}
    [] l.talk = "answered" -> {[l EXCEPT !.talk = "none"]}
    [] l.talk = "owed" -> Spoken(l)
    [] l.talk = "asked" -> (IF op = "write" \/ l.wire + l.held > 0 THEN {l} ELSE {})
                           \cup (IF op = "write" \/ l.held > 0 THEN {} ELSE Spoken(l))

\* A connection that was reset gives what OpenSSL holds, and nothing during an
\* exchange of messages.
Lost(l) == l.over = "reset" /\ (l.held = 0 \/ l.talk \in {"owed", "awaited", "answered"})

TryRead(q, r) ==
  LET s == q[r].sock
      quiet == net[s].wire = 0 /\ net[s].held = 0
  IN  \/ /\ Lost(net[s])
         /\ table' = Del(fd[s]) /\ reqs' = Settled(q, r, "failed") /\ UNCHANGED net
      \/ /\ ~ Lost(net[s])
         /\ \E l \in Talk(net[s], "read") :
              \/ /\ l.talk = "owed"
                 /\ table' = WaitFor(s, r, "write") /\ reqs' = q /\ net' = [net EXCEPT ![s] = l]
              \/ /\ l.talk = "awaited" \/ (quiet /\ l.talk # "owed")
                 /\ l.over = "no"
                 /\ table' = WaitFor(s, r, "read") /\ reqs' = q /\ net' = [net EXCEPT ![s] = l]
              \/ /\ l.talk = "awaited" \/ (quiet /\ l.talk # "owed")
                 /\ l.over = "eof"
                 /\ \E o \in {"completed", "failed"} :
                      (o = "failed" => l.talk = "awaited") /\ reqs' = Settled(q, r, o)
                 /\ table' = Del(fd[s]) /\ net' = [net EXCEPT ![s] = l]
              \/ /\ ~ quiet /\ l.talk \notin {"owed", "awaited"}
                 /\ \E k \in Pull(s, q[r].size) :
                      LET n == Least(q[r].size, l.held + k)
                      IN  /\ net' = [net EXCEPT ![s] = [l EXCEPT !.wire = @ - k, !.held = @ + k - n]]
                          /\ reqs' = [Settled(q, r, "completed") EXCEPT ![r].moved = n]
                 /\ table' = Del(fd[s])

\* write, SSL_write or sendto of what is left; OpenSSL keeps its own place in a
\* write that is half done.  idle is the reactor's table when nothing is left to
\* wait for.
TryWrite(q, r, idle) ==
  LET s == q[r].sock
  IN  \/ /\ net[s].over = "reset"
         /\ table' = idle /\ reqs' = Settled(q, r, "failed") /\ UNCHANGED net
      \/ /\ net[s].over # "reset"
         /\ \E l \in Talk(net[s], "write") :
              \/ /\ l.talk = "owed"
                 /\ table' = WaitFor(s, r, "write") /\ reqs' = q /\ net' = [net EXCEPT ![s] = l]
              \/ /\ l.talk = "awaited" /\ l.over = "no"
                 /\ table' = WaitFor(s, r, "read") /\ reqs' = q /\ net' = [net EXCEPT ![s] = l]
              \/ /\ l.talk = "awaited" /\ l.over = "eof"
                 /\ table' = idle /\ reqs' = Settled(q, r, "failed") /\ net' = [net EXCEPT ![s] = l]
              \/ /\ l.talk \notin {"owed", "awaited"}
                 /\ LET n == Least(q[r].size - q[r].moved, l.room)
                        p == Sent(q, r, n)
                    IN  /\ net' = [net EXCEPT ![s] = [l EXCEPT !.room = @ - n, !.out = @ + n]]
                        /\ IF p[r].moved = p[r].size
                           THEN table' = idle /\ reqs' = Settled(p, r, "completed")
                           ELSE table' = WaitFor(s, r, "write") /\ reqs' = p

\* A connected descriptor f for socket c: TCP hands it out, TLS starts the
\* handshake on a thread, unless its context cannot be made or, after a
\* connect, the result is no longer wanted.
Established(q, r, c, f) ==
  \/ /\ c \in Tcp
     /\ reqs' = Settled(q, r, "completed")
     /\ fd' = [fd EXCEPT ![c] = f] /\ stage' = [stage EXCEPT ![c] = "open"]
     /\ UNCHANGED shaking
  \/ /\ c \in Tls
     /\ q[r].op = "connect" => q[r].state = "pending"
     /\ reqs' = q
     /\ fd' = [fd EXCEPT ![c] = f] /\ stage' = [stage EXCEPT ![c] = "made"]
     /\ shaking' = shaking \cup {r}
  \/ /\ c \in Tls /\ q[r].op = "connect"
     /\ reqs' = Settled(q, r, "failed")
     /\ fd' = [fd EXCEPT ![c] = f] /\ stage' = [stage EXCEPT ![c] = "made"]
     /\ UNCHANGED shaking
  \/ /\ c \in Tls /\ q[r].op = "accept"
     /\ reqs' = Settled(q, r, "failed")
     /\ stage' = [stage EXCEPT ![c] = "closed"]
     /\ UNCHANGED <<fd, shaking>>

\* accept fails when the process has no descriptor left, and takes a connection
\* that is waiting.
MayAccept(s) == net[s].wire > 0 \/ FreeFd = {}

TryAccept(q, r, done, failed) ==
  LET s == q[r].sock
  IN  IF FreeFd = {}
      THEN reqs' = Settled(q, r, "failed") /\ table' = failed /\ UNCHANGED <<net, sockets, shaking>>
      ELSE /\ net' = [net EXCEPT ![s].wire = @ - 1]
           /\ table' = done
           /\ Established(q, r, q[r].new, NextFd)

-----------------------------------------------------------------------------
(* The calls of the program, between two turns of the loop. *)

Free(s) == OneAtATime => \A r \in DOMAIN reqs : reqs[r].sock = s => reqs[r].state # "pending"

Call(s) == phase = "run" /\ Free(s) /\ Len(reqs) < MaxRequests /\ UNCHANGED <<posted, results, woken, loop>>

\* A record that a call or the accept of a connection makes is a new one.
Fresh(c) == stage[c] = "unborn" /\ \A r \in DOMAIN reqs : reqs[r].new = c => ~ Pending(r)

With(op, s, c, n) == Append(reqs, New(op, s, c, n))
Made == Len(reqs) + 1

\* sn_tcp_listen, sn_udp_bind: the future is settled on return.
Bind(s) ==
  LET q == With("bind", s, s, 0)
  IN  /\ Call(s) /\ s \in Listener \cup Udp /\ stage[s] = "unborn" /\ MaySocket
      /\ UNCHANGED <<table, net, shaking>>
      /\ \/ /\ FreeFd # {}
            /\ fd' = [fd EXCEPT ![s] = NextFd] /\ stage' = [stage EXCEPT ![s] = "open"]
            /\ reqs' = Settled(q, Made, "completed")
         \/ reqs' = Settled(q, Made, "failed") /\ UNCHANGED sockets

\* sn_tcp_connect, sn_tls_connect: connected at once, in progress, or failed.
Connect(c) ==
  LET q == With("connect", c, c, 0)
  IN  /\ Call(c) /\ c \in Tcp \cup Tls /\ Fresh(c) /\ MaySocket
      /\ UNCHANGED net
      /\ \/ FreeFd # {} /\ Established(q, Made, c, NextFd) /\ UNCHANGED table
         \/ /\ FreeFd # {}
            /\ fd' = [fd EXCEPT ![c] = NextFd] /\ stage' = [stage EXCEPT ![c] = "made"]
            /\ table' = Add(NextFd, Made, "write") /\ reqs' = q /\ UNCHANGED shaking
         \/ reqs' = Settled(q, Made, "failed") /\ UNCHANGED <<sockets, table, shaking>>

\* sn_tcp_accept, sn_tls_accept_listener.
Accept(s, c) ==
  LET q == With("accept", s, c, 0)
  IN  /\ Call(s) /\ s \in Listener /\ c \in Tcp \cup Tls /\ Fresh(c) /\ MaySocket
      /\ \/ stage[s] = "open" /\ MayAccept(s) /\ TryAccept(q, Made, table, table)
         \/ /\ stage[s] = "open" /\ ~ MayAccept(s)
            /\ table' = Add(fd[s], Made, "read") /\ reqs' = q
            /\ UNCHANGED <<net, sockets, shaking>>
         \/ /\ stage[s] = "closed"
            /\ reqs' = Settled(q, Made, "failed") /\ UNCHANGED <<net, sockets, table, shaking>>

\* sn_tls_accept takes the descriptor of a TCP connection over; an entry that a
\* cancelled read has left there stays.
Upgrade(s, c) ==
  LET q == With("upgrade", s, c, 0)
  IN  /\ Call(s) /\ s \in Tcp /\ c \in Tls /\ Fresh(c) /\ MaySocket
      /\ stage[s] = "open" /\ UNCHANGED table
      /\ \/ reqs' = Settled(q, Made, "failed") /\ UNCHANGED <<sockets, net, shaking>>
         \/ /\ reqs' = q /\ shaking' = shaking \cup {Made}
            /\ fd' = [fd EXCEPT ![c] = fd[s], ![s] = None]
            /\ stage' = [stage EXCEPT ![c] = "made", ![s] = "closed"]
            /\ net' = [net EXCEPT ![c] = [net[s] EXCEPT !.came = net[s].wire, !.out = 0],
                                 ![s] = [net[s] EXCEPT !.came = @ - net[s].wire, !.wire = 0]]

\* sn_tcp_read waits for the loop; sn_tls_read and sn_udp_receive try first.
Read(s, n) ==
  LET q == With("read", s, s, n)
  IN  /\ Call(s) /\ s \notin Listener /\ UNCHANGED <<sockets, shaking>>
      /\ \/ stage[s] = "open" /\ s \notin Tcp /\ TryRead(q, Made)
         \/ /\ stage[s] = "open" /\ s \in Tcp
            /\ table' = Add(fd[s], Made, "read") /\ reqs' = q /\ UNCHANGED net
         \/ /\ stage[s] = "closed" /\ s \in Udp
            /\ reqs' = Settled(q, Made, "failed") /\ UNCHANGED <<net, table>>

\* sn_tcp_write and sn_udp_send leave the reactor alone when they need not wait;
\* sn_tls_write runs its callback, which removes the entry of the descriptor.
\* A datagram is one unit, which goes out whole.
Write(s, n) ==
  LET q == With("write", s, s, IF s \in Udp THEN 1 ELSE n)
  IN  /\ Call(s) /\ s \notin Listener /\ UNCHANGED <<sockets, shaking>>
      /\ \/ stage[s] = "open" /\ TryWrite(q, Made, IF s \in Tls THEN Del(fd[s]) ELSE table)
         \/ /\ stage[s] = "closed" /\ s \in Udp
            /\ reqs' = Settled(q, Made, "failed") /\ UNCHANGED <<net, table>>

\* Mutant: the descriptor is closed and its entry stays.
CloseOnly(s) ==
  /\ phase = "run" /\ Free(s) /\ stage[s] = "open"
  /\ fd' = [fd EXCEPT ![s] = None] /\ stage' = [stage EXCEPT ![s] = "closed"]
  /\ UNCHANGED <<table, reqs, net, threads, woken, loop>>

\* sn_tcp_close, sn_udp_close_i64, sn_tls_close_i64: a pending request stays.
Close(s) ==
  /\ phase = "run" /\ Free(s) /\ stage[s] = "open"
  /\ table' = Del(fd[s])
  /\ fd' = [fd EXCEPT ![s] = None] /\ stage' = [stage EXCEPT ![s] = "closed"]
  /\ UNCHANGED <<reqs, net, threads, woken, loop>>

\* sn_future_cancel of the future of a request.
Cancel(r) ==
  /\ phase = "run" /\ Pending(r) /\ reqs[r].op \in MayCancel
  /\ reqs' = Settled(reqs, r, "cancelled")
  /\ UNCHANGED <<sockets, table, net, threads, woken, loop>>

-----------------------------------------------------------------------------
(* The loop. *)

\* drain_hs_results takes one result, or finds none.  The descriptor of a
\* handshake that failed, or that nobody waits for, stays open.
PollResults ==
  /\ phase = "poll" /\ UNCHANGED <<fd, table, net, shaking, posted, woken, batch>>
  /\ IF results = <<>>
     THEN phase' = "run" /\ UNCHANGED <<stage, reqs, results>>
     ELSE LET r == Head(results).req
          IN  /\ results' = Tail(results) /\ UNCHANGED phase
              /\ reqs' = Settled(reqs, r, IF Head(results).ok THEN "completed" ELSE "failed")
              /\ stage' = IF Pending(r) /\ Head(results).ok
                          THEN [stage EXCEPT ![reqs[r].new] = "open"] ELSE stage

\* The events of the descriptors in the table, level triggered.
Events ==
  {[fd |-> fd[s], ready |-> {w \in {"read", "write"} : IF w = "read" THEN Readable(s) ELSE Writable(s)}] :
     s \in {x \in Socket : /\ fd[x] # None /\ table[fd[x]] # None
                          /\ IF table[fd[x]].want = "read" THEN Readable(x) ELSE Writable(x)}}

\* sn_reactor_wait returns events, at most EVENT_BATCH of them, which is more
\* than a run has descriptors.
WaitEvents ==
  /\ phase = "run" /\ (Events # {} \/ woken)
  /\ batch' = Events \cup (IF woken THEN {[fd |-> WakeFd, ready |-> {"read"}]} ELSE {})
  /\ phase' = "dispatch"
  /\ UNCHANGED <<sockets, table, reqs, net, threads, woken>>

\* It returns none when a timer is due, which matters here if a result is there.
WaitTimer ==
  /\ phase = "run" /\ Events = {} /\ ~ woken /\ results # <<>>
  /\ phase' = "poll"
  /\ UNCHANGED <<sockets, table, reqs, net, threads, woken, batch>>

AcceptCb(r, ready) ==
  LET f == fd[reqs[r].sock]
  IN  IF Pending(r) /\ "read" \in ready /\ MayAccept(reqs[r].sock)
      THEN TryAccept(reqs, r, Del(f), IF reqs[r].new \in Tls THEN Del(f) ELSE table)
      ELSE UNCHANGED <<reqs, table, net, sockets, shaking>>

\* For TLS the future of the TCP connection is sn_tls_connect's own, which the
\* program cannot cancel.
ConnectCb(r) ==
  LET c == reqs[r].sock
  IN  IF ~ Pending(r) /\ c \in Tcp
      THEN UNCHANGED <<reqs, table, net, sockets, shaking>>
      ELSE /\ table' = Del(fd[c]) /\ UNCHANGED net
           /\ IF net[c].dial = "refused"
              THEN /\ reqs' = Settled(reqs, r, "failed")
                   /\ fd' = [fd EXCEPT ![c] = None] /\ stage' = [stage EXCEPT ![c] = "closed"]
                   /\ UNCHANGED shaking
              ELSE Established(reqs, r, c, fd[c])

\* Mutant: a request whose future has settled reads all the same.
ReadCbAlways(r, ready) ==
  /\ UNCHANGED <<sockets, shaking>>
  /\ IF reqs[r].sock \in Tls \/ "read" \in ready
     THEN TryRead(reqs, r)
     ELSE UNCHANGED <<reqs, table, net>>

ReadCb(r, ready) ==
  /\ UNCHANGED <<sockets, shaking>>
  /\ IF Pending(r) /\ (reqs[r].sock \in Tls \/ "read" \in ready)
     THEN TryRead(reqs, r)
     ELSE UNCHANGED <<reqs, table, net>>

WriteCb(r, ready) ==
  /\ UNCHANGED <<sockets, shaking>>
  /\ IF Pending(r) /\ (reqs[r].sock \in Tls \/ "write" \in ready)
     THEN TryWrite(reqs, r, Del(fd[reqs[r].sock]))
     ELSE UNCHANGED <<reqs, table, net>>

\* wake_cb empties the wake descriptor; other events go to the callback of the
\* entry that is there now.
Dispatch(e) ==
  /\ phase = "dispatch" /\ e \in batch
  /\ batch' = batch \ {e} /\ UNCHANGED <<posted, results>>
  /\ phase' = IF batch' = {} THEN "poll" ELSE phase
  /\ woken' = (woken /\ e.fd # WakeFd)
  /\ IF e.fd = WakeFd \/ table[e.fd] = None
     THEN UNCHANGED <<reqs, table, net, sockets, shaking>>
     ELSE LET r == table[e.fd].req \* no step if its record is gone: what follows is undefined
          IN  /\ reqs[r].alive
              /\ \/ reqs[r].op = "accept" /\ AcceptCb(r, e.ready)
                 \/ reqs[r].op = "connect" /\ ConnectCb(r)
                 \/ reqs[r].op = "read" /\ ReadCb(r, e.ready)
                 \/ reqs[r].op = "write" /\ WriteCb(r, e.ready)

LoopStep == PollResults \/ WaitEvents \/ (\E e \in batch : Dispatch(e))

-----------------------------------------------------------------------------
(* The handshake threads, and the world outside. *)

\* tls_hs_one_shot ends and posts its result ...
Shaken(r, ok) ==
  /\ r \in shaking
  /\ shaking' = shaking \ {r} /\ posted' = posted \cup {r}
  /\ results' = <<[req |-> r, ok |-> ok]>> \o results
  /\ UNCHANGED <<sockets, table, reqs, net, woken, loop>>

\* ... and then wakes the loop.
Wake(r) ==
  /\ r \in posted
  /\ posted' = posted \ {r} /\ woken' = TRUE
  /\ UNCHANGED <<sockets, table, reqs, net, shaking, results, loop>>

Outside(s) == UNCHANGED <<sockets, table, reqs, threads, woken, loop>> /\ fd[s] # None

\* Data or a connection arrives, the peer ends or resets, the send buffer drains.
Arrived ==
  MapThenSumSet(LAMBDA s : net[s].came + (IF net[s].over = "no" THEN 0 ELSE 1)
                                       + (IF net[s].talk = "none" THEN 0 ELSE 1), Socket)

Arrive(s) ==
  /\ Outside(s) /\ stage[s] = "open" /\ net[s].over = "no"
  /\ Arrived < MaxUnits
  /\ net' = [net EXCEPT ![s].came = @ + 1, ![s].wire = @ + 1]

End(s, how) ==
  /\ Outside(s) /\ stage[s] = "open" /\ s \in Tcp \cup Tls /\ net[s].over = "no"
  /\ Arrived < MaxUnits
  /\ net' = [net EXCEPT ![s].over = how]

Drain(s) ==
  /\ Outside(s) /\ net[s].room < Capacity
  /\ net' = [net EXCEPT ![s].room = Capacity]

\* The peer of a TLS connection asks for a message of the protocol, or answers one.
Ask(s) ==
  /\ Outside(s) /\ s \in Tls /\ stage[s] = "open" /\ net[s].over = "no" /\ net[s].talk = "none"
  /\ Arrived < MaxUnits
  /\ net' = [net EXCEPT ![s].talk = "asked"]

Reply(s) ==
  /\ Outside(s) /\ net[s].over = "no" /\ net[s].talk = "awaited"
  /\ net' = [net EXCEPT ![s].talk = "answered"]

Answer(c, how) ==
  /\ Outside(c) /\ stage[c] = "made" /\ net[c].dial = "no"
  /\ \E r \in DOMAIN reqs : table[fd[c]] = [req |-> r, want |-> "write"] /\ reqs[r].op = "connect"
  /\ net' = [net EXCEPT ![c].dial = how]

Next ==
  \/ \E s \in Socket : Bind(s)
  \/ \E c \in Socket : Connect(c)
  \/ \E s, c \in Socket : Accept(s, c) \/ Upgrade(s, c)
  \/ \E s \in Socket, n \in ReadSize : Read(s, n)
  \/ \E s \in Socket, n \in WriteSize : Write(s, n)
  \/ \E s \in Socket : Close(s)
  \/ \E r \in 1 .. MaxRequests : Cancel(r)
  \/ LoopStep \/ WaitTimer
  \/ \E r \in shaking, ok \in BOOLEAN : Shaken(r, ok)
  \/ \E r \in posted : Wake(r)
  \/ \E s \in Socket : Arrive(s) \/ Drain(s) \/ Ask(s) \/ Reply(s)
  \/ \E s \in Socket, how \in {"eof", "reset"} : End(s, how)
  \/ \E c \in Socket, how \in {"ok", "refused"} : Answer(c, how)

Spec == Init /\ [][Next]_vars

FairSpec ==
  /\ Spec /\ WF_vars(LoopStep)
  /\ \A r \in 1 .. MaxRequests : WF_vars(\E ok \in BOOLEAN : Shaken(r, ok)) /\ WF_vars(Wake(r))

\* A collection while the program runs: the record of a request is an object of the
\* heap, to which only the reactor's own array of entries points.
Collect(r) ==
  /\ phase = "run" /\ r \in DOMAIN reqs /\ reqs[r].alive
  /\ reqs' = [reqs EXCEPT ![r].alive = FALSE]
  /\ UNCHANGED <<sockets, table, net, threads, woken, loop>>

\* The same system when enough is allocated for the collector to run.
CollectNext == Next \/ \E r \in 1 .. MaxRequests : Collect(r)

CollectSpec == Init /\ [][CollectNext]_vars

-----------------------------------------------------------------------------
(* Properties. *)

\* What a request waits for on a link: a TLS read may have to send first, and a TLS
\* write to receive.
Wants(op, l) ==
  CASE op = "read" -> IF l.talk = "owed" THEN "write" ELSE "read"
    [] op = "write" -> IF l.talk \in {"awaited", "answered"} THEN "read" ELSE "write"
    [] op = "connect" -> "write"
    [] OTHER -> "read"

\* "reactor/timer queues keep requests alive until they settle" (MEMORY_MODEL.md:861):
\* a request whose future is pending has the entry of its descriptor, for the event
\* it waits for, or a handshake thread or its result.
RequestsKept ==
  \A r \in DOMAIN reqs : Pending(r) =>
    \/ r \in shaking \/ \E i \in DOMAIN results : results[i].req = r
    \/ /\ fd[reqs[r].sock] # None
       /\ table[fd[reqs[r].sock]] = [req |-> r, want |-> Wants(reqs[r].op, net[reqs[r].sock])]

\* The same words, of the record itself: a request that waits has not been swept.
RequestsAlive == \A r \in DOMAIN reqs : Pending(r) => reqs[r].alive

\* Two sockets never share a descriptor, and an entry is for the socket that has
\* the descriptor now, although numbers are used again after a close; only a
\* settled request can have its entry on a connection that went over to TLS.
OwnDescriptor ==
  /\ \A s, c \in Socket : fd[s] = fd[c] /\ fd[s] # None => s = c
  /\ \A f \in Fd : table[f] # None =>
       LET r == table[f].req
       IN  \/ fd[reqs[r].sock] = f
           \/ /\ ~ Pending(r)
              /\ \E q \in DOMAIN reqs : reqs[q].op = "upgrade" /\ reqs[q].sock = reqs[r].sock

\* w[1] + ... + w[n]
Total(w, n) ==
  LET sum[i \in 0 .. n] == IF i = 0 THEN 0 ELSE sum[i - 1] + w[i]
  IN  sum[n]

MovedBy(r, s, op, o) ==
  IF reqs[r].sock = s /\ reqs[r].op = op /\ reqs[r].state \in o THEN reqs[r].moved ELSE 0

SumMoved(s, op, o) == Total([r \in DOMAIN reqs |-> MovedBy(r, s, op, o)], Len(reqs))

\* What a stream has received is in the kernel, in OpenSSL, or in the result of
\* a read that completed: a cancelled read takes nothing with it.
NothingLost ==
  \A s \in Socket \ Listener :
    net[s].came = net[s].wire + net[s].held + SumMoved(s, "read", {"completed"})

\* Every unit of a write goes out once, and a write is completed when all are.
WrittenOnce ==
  /\ \A s \in Socket : net[s].out = SumMoved(s, "write", Outcome \cup {"pending"})
  /\ \A r \in DOMAIN reqs :
       reqs[r].op = "write" /\ reqs[r].state = "completed" => reqs[r].moved = reqs[r].size

\* Every byte that comes or goes is in exactly one place, whatever is cancelled.
BytesOnce == NothingLost /\ WrittenOnce

\* The exchange of the protocol's messages cannot go on now.
Blocked(l) ==
  l.over # "reset" /\ ((l.talk = "owed" /\ l.room = 0) \/ (l.talk = "awaited" /\ l.over = "no"))

\* What there is for a request to finish with.
Answerable(r) ==
  LET l == net[reqs[r].sock]
      left == reqs[r].size - reqs[r].moved
  IN  CASE reqs[r].op = "accept" -> l.wire > 0
        [] reqs[r].op = "connect" -> l.dial # "no"
        [] reqs[r].op = "read" -> ~ Blocked(l) /\ (l.wire + l.held > 0 \/ l.over # "no")
        [] reqs[r].op \in {"bind", "upgrade"} -> FALSE
        [] reqs[r].op = "write" ->
             \/ l.over = "reset" \/ (l.over = "eof" /\ l.talk = "awaited")
             \/ ~ Blocked(l) /\ l.room >= left + (IF l.talk = "owed" THEN 1 ELSE 0)

\* A request that can be answered is answered, or the protocol of a TLS connection
\* comes between, also after others on the same stream were cancelled.
Answered ==
  \A r \in 1 .. MaxRequests :
    []<> ~ (Pending(r) /\ (r \in shaking \/ Answerable(r)))

=============================================================================
