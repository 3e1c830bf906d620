--------------------------- MODULE PreloadSocket ----------------------------
(***************************************************************************)
(* One TCP socket of an application that runs under the LD_PRELOAD library *)
(* (preload.cc).  epoll_ctl and connect turn its descriptor into a VSOCK   *)
(* socket to the proxy, on which connect makes the SOCKS5 handshake; bind  *)
(* turns it into a UNIX socket to the socket vendor, on which listen and   *)
(* accept talk to the vendor.  The library keeps no state of its own: what *)
(* matters is what each call leaves in the kernel, that is the domain, the *)
(* blocking mode, the epoll registration (which goes away with the file    *)
(* that dup2 closes) and the bytes not yet read.                           *)
(*                                                                         *)
(* The application is a client or a server, blocking or event-driven: an   *)
(* event-driven one sets its socket to non-blocking, registers it with     *)
(* epoll and accepts only when epoll reports it.                           *)
(***************************************************************************)
EXTENDS Naturals, Sequences

CONSTANTS
  NameLengths, \* lengths of a domain name in a reply
  Payload,     \* bytes the destination sends of its own accord
  MaxConns,    \* bound on the inbound connections
  MaxFaults    \* bound on descriptors the process cannot get

ASSUME PreloadAssumption ==
  /\ NameLengths \subseteq Nat /\ {Payload, MaxConns, MaxFaults} \subseteq Nat

VARIABLES
  role,       \* "client" or "server"
  want,       \* the application made its socket non-blocking
  domain,     \* SO_DOMAIN of the descriptor
  nonblock,   \* O_NONBLOCK of the descriptor
  added,      \* registered with epoll: "no", "early" (before connect or bind), "late"
  registered, \* epoll knows the file behind the descriptor
  call,       \* the call in progress
  saved,      \* its local fl
  done,       \* the calls that have returned 0
  failed,     \* a call has returned an error
  faults,     \* descriptors the process could not get
  peer,       \* the other end is open
  reply,      \* the proxy's reply
  sent,       \* bytes the proxy has sent
  read,       \* bytes the handshake has read
  need,       \* bytes recv_all still waits for
  queue,      \* messages of the vendor not yet received
  vended,     \* inbound connections the vendor has passed on
  accepted,   \* sockets accept4 has returned
  lost        \* connections it has taken without a descriptor for them

socket == <<domain, nonblock, registered>>
proxy == <<reply, sent, read, need>>
vendor == <<queue, vended>>
inflow == <<accepted, lost>>
vars == <<role, want, socket, added, call, saved, done, failed, faults, peer,
          proxy, vendor, inflow>>

-----------------------------------------------------------------------------
(* The reply: its kind of address, and whether the proxy accepts.           *)
Replies ==
  [atyp : {"v4", "v6"}, name : {0}, rep : {"ok", "refused"}]
    \cup [atyp : {"name"}, name : NameLengths, rep : {"ok", "refused"}]

(* The bytes of a reply: two of the method selection, four of the header,   *)
(* the address and the port (RFC 1928).                                     *)
AddressLength(r) ==
  CASE r.atyp = "v4" -> 4 [] r.atyp = "v6" -> 16 [] r.atyp = "name" -> 1 + r.name
ReplyLength(r) == 2 + 4 + AddressLength(r) + 2

(* sizeof(expected_reply) + 2: up to the first byte of the address.         *)
HeadLength == 7

(* Mutant: the byte of the address that came with the head is forgotten.    *)
TailLengthFull(r) == AddressLength(r) + 2

(* What remains, by the address type and, for a name, its length byte.      *)
TailLength(r) ==
  CASE r.atyp = "v4" -> 4 + 2 - 1
    [] r.atyp = "name" -> r.name + 2
    [] r.atyp = "v6" -> 16 + 2 - 1

Init ==
  /\ role \in {"client", "server"} /\ want \in BOOLEAN
  /\ domain = "INET" /\ nonblock = want
  /\ added = "no" /\ registered = FALSE
  /\ call = "none" /\ saved = FALSE /\ done = {} /\ failed = FALSE
  /\ faults = 0 /\ peer = FALSE
  /\ reply \in Replies /\ sent = 0 /\ read = 0 /\ need = 0
  /\ queue = <<>> /\ vended = 0 /\ accepted = 0 /\ lost = 0

Ready == call = "none" /\ ~failed

-----------------------------------------------------------------------------
(* epoll_ctl and connect.                                                   *)

(* An IP socket is converted before it is added.                            *)
EpollConverts == IF domain = "INET" THEN "VSOCK" ELSE domain

(* epoll_ctl(EPOLL_CTL_ADD).  When ConvertToVsock cannot get a descriptor   *)
(* it returns -1, which is then applied as the file modes: the kernel takes *)
(* it for all modes or refuses it.                                          *)
EpollAdd ==
  /\ Ready /\ want /\ added = "no"
  /\ \/ domain' = EpollConverts /\ UNCHANGED <<nonblock, faults>>
     \/ /\ domain = "INET" /\ faults < MaxFaults
        /\ faults' = faults + 1
        /\ nonblock' \in {nonblock, TRUE} /\ UNCHANGED domain
  /\ added' = (IF done = {} THEN "early" ELSE "late") /\ registered' = TRUE
  /\ UNCHANGED <<role, want, call, saved, done, failed, peer, proxy, vendor,
                 inflow>>

(* connect up to the handshake's request, in blocking mode; converting an   *)
(* IP socket closes the file that epoll may know.                           *)
Connect ==
  /\ Ready /\ role = "client" /\ done = {}
  /\ \/ /\ domain' = "VSOCK"
        /\ registered' = (registered /\ domain = "VSOCK")
        /\ \/ /\ saved' = nonblock /\ nonblock' = FALSE
              /\ call' = "head" /\ need' = HeadLength /\ peer' = TRUE
              /\ UNCHANGED failed
           \/ /\ failed' = TRUE    \* the proxy cannot be reached
              /\ UNCHANGED <<saved, nonblock, call, need, peer>>
        /\ UNCHANGED faults
     \/ /\ domain = "INET" /\ faults < MaxFaults
        /\ faults' = faults + 1
        /\ nonblock' \in {nonblock, TRUE} /\ failed' = TRUE
        /\ UNCHANGED <<domain, registered, saved, call, need, peer>>
  /\ UNCHANGED <<role, want, added, done, reply, sent, read, vendor, inflow>>

ConnectReturns(ok) ==
  /\ call' = "none" /\ need' = 0
  /\ failed' = ~ok /\ done' = IF ok THEN done \cup {"connect"} ELSE done
  /\ nonblock' = saved /\ saved' = FALSE

(* One recv of recv_all, which may return any part of what has arrived.     *)
RecvSome ==
  /\ call \in {"head", "tail"}
  /\ \E n \in 1 .. need :
       /\ read + n <= sent
       /\ read' = read + n
       /\ IF n < need THEN /\ need' = need - n
                           /\ UNCHANGED <<call, saved, nonblock, done, failed>>
          ELSE IF call = "tail" THEN ConnectReturns(TRUE)
          ELSE IF reply.rep # "ok" THEN ConnectReturns(FALSE)
          ELSE /\ call' = "tail" /\ need' = TailLength(reply)
               /\ UNCHANGED <<saved, nonblock, done, failed>>
  /\ UNCHANGED <<role, want, domain, added, registered, faults, peer, reply,
                 sent, vendor, inflow>>

(* Mutant: recv_all goes on when recv returns 0.                            *)
RecvEndRetries ==
  /\ call \in {"head", "tail"}
  /\ ~peer
  /\ UNCHANGED vars

(* recv_all returns fewer bytes when the stream ends or is reset.           *)
RecvEnd ==
  /\ call \in {"head", "tail"}
  /\ ~peer
  /\ ConnectReturns(FALSE)
  /\ UNCHANGED <<role, want, domain, added, registered, faults, peer, reply,
                 sent, read, vendor, inflow>>

-----------------------------------------------------------------------------
(* bind, listen and accept.                                                 *)

(* bind up to its request: dup2 puts a new, blocking UNIX socket in place.  *)
Bind ==
  /\ Ready /\ role = "server" /\ done = {}
  /\ \/ /\ domain' = "UNIX" /\ registered' = FALSE /\ nonblock' = FALSE
        /\ \/ /\ saved' = nonblock /\ call' = "bind" /\ peer' = TRUE
              /\ UNCHANGED failed
           \/ /\ failed' = TRUE      \* the vendor cannot be reached
              /\ UNCHANGED <<saved, call, peer>>
        /\ UNCHANGED faults
     \/ /\ faults < MaxFaults
        /\ faults' = faults + 1 /\ failed' = TRUE
        /\ UNCHANGED <<socket, saved, call, peer>>
  /\ UNCHANGED <<role, want, added, done, proxy, vendor, inflow>>

(* listen up to its request; the modes are set to blocking for the reply.   *)
Listen ==
  /\ Ready /\ "bind" \in done /\ "listen" \notin done
  /\ \/ /\ peer
        /\ saved' = nonblock /\ nonblock' = FALSE /\ call' = "listen"
        /\ UNCHANGED failed
     \/ /\ ~peer /\ failed' = TRUE
        /\ UNCHANGED <<saved, nonblock, call>>
  /\ UNCHANGED <<role, want, domain, added, registered, done, faults, peer,
                 proxy, vendor, inflow>>

(* Both calls apply the modes they saved once they have their response.     *)
Reapplied == saved

(* The response arrives, or the stream ends before it: on an error return   *)
(* the modes are left as they are.                                          *)
Answered ==
  /\ call \in {"bind", "listen"}
  /\ \/ /\ queue # <<>> /\ Head(queue) = call
        /\ queue' = Tail(queue)
        /\ done' = done \cup {call}
        /\ nonblock' = Reapplied
        /\ UNCHANGED failed
     \/ /\ queue = <<>> /\ ~peer
        /\ failed' = TRUE
        /\ UNCHANGED <<queue, done, nonblock>>
  /\ call' = "none" /\ saved' = FALSE
  /\ UNCHANGED <<role, want, domain, added, registered, faults, peer, proxy,
                 vended, inflow>>

(* Epoll reports a registered socket that has something to read.            *)
EventSeen == registered /\ (queue # <<>> \/ ~peer)

(* Mutant: connections still queued are given up when the vendor has gone.  *)
TakenGivesUp(q) == q # <<>> /\ peer

Taken(q) == q # <<>>

(* accept4.  When the process has no descriptor left, recvmsg takes the     *)
(* message without the socket that came with it: EBADF, and the connection  *)
(* is gone.  The application goes on accepting.                             *)
Accept ==
  /\ Ready /\ "listen" \in done
  /\ want => EventSeen
  /\ \/ /\ Taken(queue)
        /\ queue' = Tail(queue)
        /\ \/ accepted' = accepted + 1 /\ UNCHANGED <<lost, faults>>
           \/ /\ faults < MaxFaults
              /\ faults' = faults + 1 /\ lost' = lost + 1 /\ UNCHANGED accepted
        /\ UNCHANGED failed
     \/ /\ ~Taken(queue) /\ ~peer
        /\ failed' = TRUE
        /\ UNCHANGED <<queue, inflow, faults>>
  /\ UNCHANGED <<role, want, socket, added, call, saved, done, peer, proxy,
                 vended>>

-----------------------------------------------------------------------------
(* The other ends.                                                          *)

local == <<role, want, socket, added, call, saved, done, failed, faults, inflow>>

(* The proxy sends the method selection, the reply and, once connected,     *)
(* what the destination sends; TCP may join or split them.                  *)
ProxySends ==
  /\ role = "client" /\ peer
  /\ \E cut \in {2, ReplyLength(reply), ReplyLength(reply) + Payload} :
       /\ cut > sent
       /\ cut > ReplyLength(reply) => reply.rep = "ok"
       /\ sent' = cut
  /\ UNCHANGED <<local, peer, reply, read, need, vendor>>

(* The vendor answers the request it has, then passes connections on.       *)
VendorAnswers ==
  /\ call \in {"bind", "listen"} /\ peer
  /\ \A i \in 1 .. Len(queue) : queue[i] # call
  /\ queue' = Append(queue, call)
  /\ UNCHANGED <<local, peer, proxy, vended>>

VendorPasses ==
  /\ peer /\ vended < MaxConns
  /\ \/ "listen" \in done
     \/ \E i \in 1 .. Len(queue) : queue[i] = "listen"
  /\ vended' = vended + 1
  /\ queue' = Append(queue, "connection")
  /\ UNCHANGED <<local, peer, proxy>>

(* The other end closes or dies.                                            *)
PeerEnds ==
  /\ peer
  /\ peer' = FALSE
  /\ UNCHANGED <<local, proxy, vendor>>

Application ==
  EpollAdd \/ Connect \/ RecvSome \/ RecvEnd \/ Bind \/ Listen \/ Answered \/ Accept

Next ==
  \/ Application
  \/ ProxySends \/ VendorAnswers \/ VendorPasses \/ PeerEnds

Spec == Init /\ [][Next]_vars

(* The application goes on, and a peer that lives answers.                  *)
FairSpec ==
  /\ Spec
  /\ WF_vars(Application) /\ WF_vars(VendorAnswers)
  /\ WF_vars(ProxySends /\ sent < ReplyLength(reply))

-----------------------------------------------------------------------------
(* Every variable has its type.                                             *)
TypeOK ==
  /\ domain \in {"INET", "VSOCK", "UNIX"}
  /\ {want, nonblock, registered, saved, failed, peer} \subseteq BOOLEAN
  /\ added \in {"no", "early", "late"}
  /\ call \in {"none", "head", "tail", "bind", "listen"}
  /\ done \subseteq {"connect", "bind", "listen"}
  /\ read \in 0 .. sent /\ sent \in 0 .. ReplyLength(reply) + Payload
  /\ need \in 0 .. ReplyLength(reply)
  /\ queue \in Seq({"bind", "listen", "connection"})
  /\ vended \in 0 .. MaxConns /\ faults \in 0 .. MaxFaults
  /\ accepted \in 0 .. vended /\ lost \in 0 .. faults

(* When connect has returned 0 it has read the proxy's reply to its last    *)
(* byte and no further, for every kind of address and every segmentation of *)
(* the stream: the application's first read gets the destination's first    *)
(* byte.                                                                    *)
PayloadIntact ==
  "connect" \in done => reply.rep = "ok" /\ read = ReplyLength(reply)

(* The blocking mode that the application gave its socket survives the      *)
(* changes of domain and the blocking handshakes in every call that         *)
(* succeeds ("Apply file modes again"), as long as the process does not run *)
(* out of descriptors.                                                      *)
ModeIsKept == Ready /\ faults = 0 => nonblock = want

(* The application registered its socket before bind, which puts another    *)
(* file in its place without asking epoll_ctl.                              *)
LosesRegistration == role = "server" /\ added = "early"

(* A socket that was registered with epoll before it was connected, or      *)
(* after it was bound, stays registered: that is why epoll_ctl converts it, *)
(* and again it takes descriptors.                                          *)
RegistrationIsKept ==
  Ready /\ added # "no" /\ faults = 0 => registered \/ LosesRegistration

(* A call ends: connect, bind and listen return once the other end has      *)
(* answered or has gone, also when it goes in the middle of a reply.        *)
CallReturns == call # "none" ~> call = "none"

(* Every connection the vendor has passed on is accepted by an application  *)
(* that accepts whenever it blocks in accept or epoll reports its socket    *)
(* ("Any application that dynamically links libc to do syscalls will        *)
(* work"), unless it registered the socket before bind.  A connection is    *)
(* lost only to a descriptor the process could not get, one for each, and   *)
(* those behind it are still accepted.                                      *)
ConnectionsAreAccepted ==
  vended > accepted + lost ~> (vended = accepted + lost \/ LosesRegistration)

(* The application does not notice that its socket was replaced.            *)
SocketInvariant ==
  TypeOK /\ PayloadIntact /\ ModeIsKept /\ RegistrationIsKept
=============================================================================
