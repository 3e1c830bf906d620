---------------------------- MODULE ProxyBridge -----------------------------
(***************************************************************************)
(* One session of the enclave proxy: the SOCKS5 handshake (Socks5State)    *)
(* with the client, the connection to or from the destination, and the     *)
(* forwarding of bytes both ways until both directions are shut down.      *)
(*                                                                         *)
(* The strand runs one handler at a time; `running' says that the loop of  *)
(* Socks5HandshakeHandler is in progress, while the kernel and the peers   *)
(* go on.  An asynchronous operation is "pending" until the kernel has a   *)
(* result, then "done" until its handler runs.  reading_client_ and the    *)
(* other three flags of that kind hold exactly while the operation is not  *)
(* "none".  The k-th byte a peer sends is the number k; what a handshake   *)
(* message says is left open, so every content occurs.  Each buffer is a   *)
(* FIFO, which ProxyBuffer shows.                                          *)
(***************************************************************************)
EXTENDS Integers, Sequences

CONSTANTS
  MaxSent,     \* side -> bound on the bytes its peer sends
  MethodSizes, \* the lengths a greeting may announce
  HeaderSize,  \* of the greeting header and of the request header
  AddrSizes,   \* of an address and port, v4 and v6
  MaxBuffer,   \* kMaxBufferSize
  ReadSize     \* the most one read returns

Sides == {"client", "dest"}
Other(s) == IF s = "client" THEN "dest" ELSE "client"

ASSUME BridgeAssumption ==
  /\ MaxSent \in [Sides -> Nat]
  /\ {HeaderSize, MaxBuffer, ReadSize} \subseteq Nat \ {0}
  /\ MethodSizes \cup AddrSizes \subseteq Nat \ {0}

VARIABLES
  state, required,    \* of Socks5State
  running,            \* where Socks5HandshakeHandler is
  hop,                \* the handshake's read
  conn, acc, wait,    \* async_connect, async_accept, async_wait(wait_read)
  rop, wop,           \* side -> its read and its write while forwarding
  readable, writable, \* the flags of those names
  buff,               \* side -> bytes read from it and not yet written
  shut,               \* side -> how the proxy has shut its socket down
  consumed,           \* how many bytes the handshake took from the buffer
  reply,              \* the handshake's final response
  connected,          \* dest_sock_ is a connection
  sent, fin, gone,    \* peers: bytes sent, sending ended, connection reset
  taken, got          \* bytes read from a side, and those delivered to it

handshake == <<state, required, running, hop, consumed, reply>>
setup == <<conn, acc, wait, connected>>
forward == <<rop, wop, readable, writable, shut>>
peers == <<sent, fin, gone, taken, got>>
vars == <<handshake, setup, forward, peers, buff>>

None == [st |-> "none", n |-> 0, ec |-> "ok"]
Pending(n) == [st |-> "pending", n |-> n, ec |-> "ok"]
Done(n, ec) == [st |-> "done", n |-> n, ec |-> ec]

Init ==
  /\ state = "kGreetingHeader" /\ required = HeaderSize
  /\ running = "no" /\ consumed = 0 /\ reply = "none"
  /\ hop = Pending(0)
  /\ conn = "none" /\ acc = "none" /\ wait = "none" /\ connected = FALSE
  /\ rop = [s \in Sides |-> None] /\ wop = [s \in Sides |-> None]
  /\ readable = [s \in Sides |-> TRUE] /\ writable = [s \in Sides |-> TRUE]
  /\ buff = [s \in Sides |-> <<>>] /\ shut = [s \in Sides |-> {}]
  /\ sent = [s \in Sides |-> 0] /\ taken = [s \in Sides |-> 0]
  /\ fin = [s \in Sides |-> FALSE] /\ gone = [s \in Sides |-> FALSE]
  /\ got = [s \in Sides |-> <<>>]

-----------------------------------------------------------------------------
(* The handshake                                                            *)

InsufficientBuffer == Len(buff["client"]) < required

(* Commit of n bytes that a read took from a side, and Drain of a buffer.   *)
Commit(s, n) ==
  buff' = [buff EXCEPT ![s] = @ \o [k \in 1 .. n |-> taken[s] - n + k]]
Drained(q, n) == SubSeq(q, n + 1, Len(q))

CopyOut(n) ==
  /\ buff' = [buff EXCEPT !["client"] = Drained(@, n)]
  /\ consumed' = consumed + n

Socks5HandshakeHandler ==
  /\ running = "no"
  /\ hop.st = "done"
  /\ hop' = None
  /\ Commit("client", hop.n)
  /\ running' = IF hop.ec = "ok" THEN "loop" ELSE "no"
  /\ UNCHANGED <<state, required, consumed, reply, setup, forward, peers>>

(* One round of Proceed: the next state, what it requires, and whether the  *)
(* loop goes on.                                                            *)
Becomes(st, req) ==
  /\ state' = st
  /\ required' = req
  /\ running' = IF st \in {"kFail", "kWaitConnect", "kWaitAccept"}
                THEN "end" ELSE "loop"

(* A response is written synchronously; it fails if the client is gone.     *)
Respond(st, req) ==
  IF gone["client"] THEN Becomes("kFail", required) ELSE Becomes(st, req)

(* The numbers of methods a greeting may announce; zero is malformed.       *)
Announced == MethodSizes

GreetingHeader ==
  /\ state = "kGreetingHeader"
  /\ CopyOut(required)
  /\ \/ Becomes("kFail", required)
     \/ \E n \in Announced : Becomes("kGreetingMethods", n)
  /\ UNCHANGED setup

GreetingMethods ==
  /\ state = "kGreetingMethods"
  /\ CopyOut(required)
  /\ \/ Becomes("kFail", required)
     \/ Respond("kRequestHeader", HeaderSize)
  /\ UNCHANGED setup

RequestHeader ==
  /\ state = "kRequestHeader"
  /\ CopyOut(required)
  /\ \/ Becomes("kFail", required)
     \/ \E st \in {"kRequestAddr", "kRequestBind"}, n \in AddrSizes :
          Becomes(st, n)
  /\ UNCHANGED setup

(* "No matter what, we require no more data from client."                   *)
NoMoreData == 0

(* kRequestAddrV4 and kRequestAddrV6; the connect callback is in progress.  *)
RequestAddr ==
  /\ state = "kRequestAddr"
  /\ CopyOut(required)
  /\ conn' = "pending"
  /\ Becomes("kWaitConnect", NoMoreData)
  /\ UNCHANGED <<acc, wait, connected>>

(* The bind callback fails, or starts to accept and to watch the client.    *)
RequestBind ==
  /\ state = "kRequestBind"
  /\ CopyOut(required)
  /\ \/ /\ Becomes("kFail", 0)
        /\ UNCHANGED <<acc, wait>>
     \/ /\ acc' = "pending"
        /\ wait' = "pending"
        /\ IF gone["client"] THEN Becomes("kFail", 0)
           ELSE Becomes("kWaitAccept", 0)
  /\ UNCHANGED <<conn, connected>>

Failed ==
  /\ state = "kFail"
  /\ required' = 0 /\ running' = "end"
  /\ UNCHANGED <<state, buff, consumed, setup>>

Proceed ==
  /\ running = "loop"
  /\ ~InsufficientBuffer
  /\ \/ GreetingHeader \/ GreetingMethods \/ RequestHeader
     \/ RequestAddr \/ RequestBind \/ Failed
  /\ UNCHANGED <<hop, reply, forward, peers>>

(* After the loop, the handler reads again if the state needs more bytes.   *)
HandshakeHandlerEnds ==
  /\ running = "end" \/ (running = "loop" /\ InsufficientBuffer)
  /\ running' = "no"
  /\ hop' = IF InsufficientBuffer THEN Pending(0) ELSE None
  /\ UNCHANGED <<state, required, consumed, reply, setup, forward, peers, buff>>

-----------------------------------------------------------------------------
(* Forwarding                                                               *)

(* Mutant: reading goes on however much is buffered.                        *)
ReadsMoreAlways(q) == TRUE

(* data_size() < kMaxBufferSize.                                            *)
ReadsMore(q) == Len(q) < MaxBuffer

(* ForwardTraffic, called last by a handler: ro and wo are the operations   *)
(* still outstanding.                                                       *)
ForwardTraffic(ro, wo) ==
  /\ rop' = [s \in Sides |->
       IF /\ ro[s].st = "none"
          /\ readable'[s] /\ writable'[Other(s)] /\ ReadsMore(buff'[s])
       THEN Pending(0) ELSE ro[s]]
  /\ wop' = [s \in Sides |->
       IF wo[s].st = "none" /\ writable'[s] /\ buff'[Other(s)] # <<>>
       THEN Pending(Len(buff'[Other(s)])) ELSE wo[s]]

(* Mutants: the end of a stream is passed on before its data, or only if    *)
(* nothing was buffered when it was read.                                   *)
NothingLeftEarly(q) == TRUE
EndsAfterWriteNever(s, q) == FALSE

NothingLeft(q) == q = <<>>
EndsAfterWrite(s, q) == ~readable[Other(s)] /\ NothingLeft(q)

(* ClientReadHandler and DestReadHandler.                                   *)
ReadHandler(s) ==
  /\ running = "no"
  /\ rop[s].st = "done"
  /\ Commit(s, rop[s].n)
  /\ LET failed == rop[s].ec # "ok"
     IN /\ readable' = [readable EXCEPT ![s] = @ /\ ~failed]
        /\ shut' = [shut EXCEPT ![Other(s)] = @ \cup
             IF failed /\ NothingLeft(buff'[s]) THEN {"send"} ELSE {}]
  /\ UNCHANGED writable
  /\ ForwardTraffic([rop EXCEPT ![s] = None], wop)
  /\ UNCHANGED <<handshake, setup, peers>>

(* ClientWriteHandler and DestWriteHandler.                                 *)
WriteHandler(s) ==
  /\ running = "no"
  /\ wop[s].st = "done"
  /\ buff' = [buff EXCEPT ![Other(s)] = Drained(@, wop[s].n)]
  /\ LET failed == wop[s].ec # "ok"
         ended == EndsAfterWrite(s, buff'[Other(s)])
     IN /\ writable' = [writable EXCEPT ![s] = @ /\ ~failed /\ ~ended]
        /\ shut' = [t \in Sides |-> shut[t] \cup
             IF t = s THEN (IF ended THEN {"send"} ELSE {})
             ELSE (IF failed THEN {"recv"} ELSE {})]
  /\ UNCHANGED readable
  /\ ForwardTraffic(rop, [wop EXCEPT ![s] = None])
  /\ UNCHANGED <<handshake, setup, peers>>

-----------------------------------------------------------------------------
(* The connection to the destination                                        *)

(* The final response: not sent if the client is gone; an error response if *)
(* the address of the destination cannot be had.                            *)
Replies ==
  IF gone["client"] THEN {"none"}
  ELSE IF gone["dest"] THEN {"ok", "error"} ELSE {"ok"}

ConnectionSucceed(ro, wo) ==
  IF state \in {"kWaitConnect", "kWaitAccept"}
  THEN /\ state' = "kSuccess"
       /\ reply' \in Replies
       /\ ForwardTraffic(ro, wo)
  ELSE /\ state' = "kFail"
       /\ rop' = ro /\ wop' = wo
       /\ UNCHANGED reply

ConnectHandler ==
  /\ running = "no"
  /\ conn \in {"ok", "failed"}
  /\ conn' = "none"
  /\ UNCHANGED <<readable, writable, buff>>
  /\ IF conn = "ok" THEN ConnectionSucceed(rop, wop)
     ELSE UNCHANGED <<state, reply, rop, wop>>
  /\ UNCHANGED <<required, running, hop, consumed, acc, wait, connected, shut,
                 peers>>

(* client_sock_.cancel(): the client's pending operations are aborted.      *)
Cancelled(o) == IF o.st = "pending" THEN Done(0, "err") ELSE o
CancelWait == wait' = IF wait = "pending" THEN "cancelled" ELSE wait

(* The accept's handler: AcceptInboundConnection, or StopWaitingInbound.    *)
AcceptHandler ==
  /\ running = "no"
  /\ acc \in {"ok", "failed"}
  /\ acc' = "none"
  /\ CancelWait
  /\ hop' = Cancelled(hop)
  /\ UNCHANGED <<readable, writable, buff>>
  /\ LET ro == [rop EXCEPT !["client"] = Cancelled(@)]
         wo == [wop EXCEPT !["client"] = Cancelled(@)]
     IN IF acc = "ok" THEN ConnectionSucceed(ro, wo)
        ELSE rop' = ro /\ wop' = wo /\ UNCHANGED <<state, reply>>
  /\ UNCHANGED <<required, running, consumed, conn, connected, shut, peers>>

(* Mutant: the accept goes on without its client.                           *)
StopAcceptNever == UNCHANGED acc

(* StopWaitingInbound(true): the accept is cancelled.                       *)
StopAccept == acc' = IF acc = "pending" THEN "failed" ELSE acc

(* The handler of async_wait.                                               *)
WaitHandler ==
  /\ running = "no"
  /\ wait \in {"ready", "cancelled"}
  /\ wait' = "none"
  /\ IF wait = "ready" THEN StopAccept ELSE UNCHANGED acc
  /\ UNCHANGED <<handshake, conn, connected, forward, peers, buff>>

-----------------------------------------------------------------------------
(* The kernel                                                               *)

Arrived(s) == sent[s] - taken[s]

(* How a read of a side can complete.                                       *)
ReadResults(s) ==
  IF gone[s] THEN {Done(0, "err")}
  ELSE {Done(n, "ok") : n \in 1 .. IF Arrived(s) < ReadSize THEN Arrived(s)
                                   ELSE ReadSize}
       \cup (IF Arrived(s) = 0 /\ (fin[s] \/ "recv" \in shut[s])
             THEN {Done(0, "eof")} ELSE {})

HandshakeReadCompletes ==
  /\ hop.st = "pending"
  /\ hop' \in ReadResults("client")
  /\ taken' = [taken EXCEPT !["client"] = @ + hop'.n]
  /\ UNCHANGED <<state, required, running, consumed, reply, setup, forward,
                 sent, fin, gone, got, buff>>

ReadCompletes(s) ==
  /\ rop[s].st = "pending"
  /\ \E r \in ReadResults(s) :
       /\ rop' = [rop EXCEPT ![s] = r]
       /\ taken' = [taken EXCEPT ![s] = @ + r.n]
  /\ UNCHANGED <<handshake, setup, wop, readable, writable, shut, sent, fin,
                 gone, got, buff>>

(* A write takes some of the bytes it was shown, unless the peer is gone or *)
(* the proxy itself has ended the stream.                                   *)
WriteCompletes(s) ==
  /\ wop[s].st = "pending"
  /\ IF gone[s] \/ "send" \in shut[s]
     THEN /\ wop' = [wop EXCEPT ![s] = Done(0, "err")]
          /\ UNCHANGED got
     ELSE \E n \in 1 .. wop[s].n :
            /\ wop' = [wop EXCEPT ![s] = Done(n, "ok")]
            /\ got' = [got EXCEPT ![s] = @ \o SubSeq(buff[Other(s)], 1, n)]
  /\ UNCHANGED <<handshake, setup, rop, readable, writable, shut, sent, fin,
                 gone, taken, buff>>

ConnectCompletes ==
  /\ conn = "pending"
  /\ \/ conn' = "ok" /\ connected' = TRUE
     \/ conn' = "failed" /\ UNCHANGED connected
  /\ UNCHANGED <<handshake, acc, wait, forward, peers, buff>>

AcceptCompletes ==
  /\ acc = "pending"
  /\ \/ acc' = "ok" /\ connected' = TRUE
     \/ acc' = "failed" /\ UNCHANGED connected
  /\ UNCHANGED <<handshake, conn, wait, forward, peers, buff>>

WaitCompletes ==
  /\ wait = "pending"
  /\ Arrived("client") > 0 \/ fin["client"] \/ gone["client"]
  /\ wait' = "ready"
  /\ UNCHANGED <<handshake, conn, acc, connected, forward, peers, buff>>

-----------------------------------------------------------------------------
(* The peers                                                                *)

Open(s) == (s = "dest" => connected) /\ ~gone[s]

Send(s) ==
  /\ Open(s) /\ ~fin[s] /\ sent[s] < MaxSent[s]
  /\ sent' = [sent EXCEPT ![s] = @ + 1]
  /\ UNCHANGED <<handshake, setup, forward, fin, gone, taken, got, buff>>

Finish(s) ==
  /\ Open(s) /\ ~fin[s]
  /\ fin' = [fin EXCEPT ![s] = TRUE]
  /\ UNCHANGED <<handshake, setup, forward, sent, gone, taken, got, buff>>

Reset(s) ==
  /\ Open(s)
  /\ gone' = [gone EXCEPT ![s] = TRUE]
  /\ UNCHANGED <<handshake, setup, forward, sent, fin, taken, got, buff>>

-----------------------------------------------------------------------------
Handlers ==
  \/ Socks5HandshakeHandler \/ Proceed \/ HandshakeHandlerEnds
  \/ ConnectHandler \/ AcceptHandler \/ WaitHandler
  \/ \E s \in Sides : ReadHandler(s) \/ WriteHandler(s)

(* What the threads and the kernel do without a peer doing anything.        *)
Runs ==
  \/ Handlers
  \/ HandshakeReadCompletes \/ ConnectCompletes \/ WaitCompletes
  \/ \E s \in Sides : ReadCompletes(s) \/ WriteCompletes(s)

Next ==
  \/ Runs \/ AcceptCompletes
  \/ \E s \in Sides : Send(s) \/ Finish(s) \/ Reset(s)

Spec == Init /\ [][Next]_vars

(* While a handler is ready or an operation can complete, one of them does: *)
(* the threads run what is ready and the kernel completes what it can, in   *)
(* no particular order.  Nothing is assumed of the peers but that they      *)
(* read, nor that a connection to accept arrives.                           *)
FairSpec == Spec /\ WF_vars(Runs)

-----------------------------------------------------------------------------
(* Every variable has its type, and the greeting's methods their announced  *)
(* number.                                                                  *)
TypeOK ==
  /\ state \in {"kGreetingHeader", "kGreetingMethods", "kRequestHeader",
                "kRequestAddr", "kRequestBind", "kWaitConnect",
                "kWaitAccept", "kSuccess", "kFail"}
  /\ required \in {0, HeaderSize} \cup MethodSizes \cup AddrSizes
  /\ state = "kGreetingMethods" => required \in MethodSizes
  /\ running \in {"no", "loop", "end"}
  /\ conn \in {"none", "pending", "ok", "failed"}
  /\ acc \in {"none", "pending", "ok", "failed"}
  /\ wait \in {"none", "pending", "ready", "cancelled"}
  /\ \A s \in Sides : {rop[s].st, wop[s].st, hop.st} \subseteq
                        {"none", "pending", "done"}
  /\ shut \in [Sides -> SUBSET {"send", "recv"}]
  /\ reply \in {"none", "ok", "error"}

(* Each peer receives what the other sent, from the first byte after the    *)
(* handshake, in order and once: the bytes a client sends behind its        *)
(* request and the handshake has already read are forwarded as well.        *)
RelayIntact ==
  /\ got["dest"] = [k \in 1 .. Len(got["dest"]) |-> consumed + k]
  /\ got["client"] = [k \in 1 .. Len(got["client"]) |-> k]

(* The proxy ends a stream only behind its data: if no peer was reset, then *)
(* a side whose stream was shut down has all the other side sent.           *)
FinAfterData ==
  (\A s \in Sides : ~gone[s]) =>
    \A s \in Sides : "send" \in shut[s] =>
      /\ fin[Other(s)]
      /\ Len(got[s]) = sent[Other(s)] - (IF s = "dest" THEN consumed ELSE 0)

(* No write is outstanding on a stream the proxy has ended: the two places  *)
(* that shut a socket down never overtake the write of the same stream.     *)
NoWriteAfterShutdown ==
  \A s \in Sides : wop[s].st = "pending" => "send" \notin shut[s]

(* assert(!reserved_): the read of the handshake and the read of the        *)
(* forwarding never both hold a reservation of the upstream buffer.         *)
OneReservation == hop.st = "none" \/ rop["client"].st = "none"

(* A slow receiver stops the reading: the data buffered stays within one    *)
(* read of kMaxBufferSize.                                                  *)
BufferBounded ==
  state = "kSuccess" => \A s \in Sides : Len(buff[s]) < MaxBuffer + ReadSize

(* No operation is outstanding, so that nothing refers to the bridge.       *)
Released ==
  /\ running = "no" /\ hop.st = "none"
  /\ conn = "none" /\ acc = "none" /\ wait = "none"
  /\ \A s \in Sides : rop[s].st = "none" /\ wop[s].st = "none"

(* When one peer has finished sending, the other comes to see the end of    *)
(* the stream, unless a peer is reset.                                      *)
EndIsForwarded ==
  \A s \in Sides :
    (state = "kSuccess" /\ fin[s]) ~> ("send" \in shut[Other(s)]
                                         \/ \E t \in Sides : gone[t])

(* Once both peers have left, or the client has before there is a           *)
(* destination, the bridge is released with its sockets and its buffers.    *)
Left(s) == fin[s] \/ gone[s]
EventuallyReleased ==
  /\ Left("client") ~> (Released \/ connected)
  /\ (Left("client") /\ Left("dest")) ~> Released

(* What the handlers of a session assume of each other, by assertions and   *)
(* by the limits on their buffers.                                          *)
SessionInvariant ==
  TypeOK /\ NoWriteAfterShutdown /\ OneReservation /\ BufferBounded

(* A session is a pair of byte streams: intact, and ended behind their data. *)
StreamsIntact == RelayIntact /\ FinAfterData
=============================================================================
