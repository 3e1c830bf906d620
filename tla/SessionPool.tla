---------------------------- MODULE SessionPool -----------------------------
(***************************************************************************)
(* ClientSessionPool: the socket vendor keeps, for an application that     *)
(* listens on a port, a pool of sockets on which the proxy waits for an    *)
(* inbound connection.  A slot connects, sends a BIND request, reads the   *)
(* proxy's two responses and then passes its socket to the application and *)
(* starts again.  Four threads run the handlers; only HandleSendFd and the *)
(* closing of the sockets are serialized, by client_strand_.  A handler is *)
(* two steps, the load of stop_ and the rest, so that other threads come   *)
(* in between.  Handle1stResp has two more: having started the read of the *)
(* second response it looks at the size of pool_, and then appends a slot. *)
(* Nothing keeps the slot's next round from overtaking them.               *)
(*                                                                         *)
(* Two threads may so decide to append a slot at once.  That is a data     *)
(* race on pool_, whose outcome the language leaves open (a slot that is   *)
(* connected twice, a pool larger than pool_size_): raced marks it, and    *)
(* the model ends there.                                                   *)
(***************************************************************************)
EXTENDS Integers

CONSTANTS
  PoolSize,     \* pool_size_, the backlog of the listen call, at least 2
  MaxInbound,   \* bound on the inbound connections
  MaxErrors     \* bound on failed operations

ASSUME PoolAssumption ==
  /\ PoolSize \in Nat /\ PoolSize >= 2
  /\ MaxInbound \in Nat /\ MaxErrors \in Nat

Slots == 0 .. PoolSize - 1

VARIABLES
  start,    \* how far Start is
  size,     \* pool_.size()
  checking, \* slot -> the runs of Handle1stResp about to look at the size
  appender, \* the slot whose Handle1stResp is about to append one, or -1
  raced,    \* two threads are about to append a slot
  phase,    \* slot -> the operation it waits for
  result,   \* slot -> its result
  inside,   \* slot -> its handler has found stop_ false
  closed,   \* slot -> its socket is closed
  hydrated, \* slots that have once had their first response
  inbound,  \* slot -> the inbound connection it carries, 0 for none
  arrived,  \* how many inbound connections there were
  vended,   \* the inbound connections passed to the application
  stop,     \* stop_
  closure,  \* the closing of the sockets: not asked for, queued, done
  client,   \* the application's socket is open
  errors    \* failed operations

slotVars == <<phase, result, inside, closed, inbound>>
growth == <<size, checking, appender, raced>>
vars == <<start, growth, slotVars, hydrated, arrived, vended, stop, closure,
          client, errors>>

Init ==
  /\ start = "bind" /\ size = 0
  /\ checking = [i \in Slots |-> 0] /\ appender = -1 /\ raced = FALSE
  /\ phase = [i \in Slots |-> "none"] /\ result = [i \in Slots |-> "pending"]
  /\ inside = [i \in Slots |-> FALSE] /\ closed = [i \in Slots |-> FALSE]
  /\ inbound = [i \in Slots |-> 0] /\ hydrated = {}
  /\ arrived = 0 /\ vended = {}
  /\ stop = FALSE /\ closure = "no" /\ client = TRUE /\ errors = 0

-----------------------------------------------------------------------------
(* The operation op of slot i is started.                                   *)
Begin(i, op) ==
  /\ phase' = [phase EXCEPT ![i] = op]
  /\ result' = [result EXCEPT ![i] = "pending"]

Stop ==
  /\ stop' = TRUE
  /\ closure' = IF closure = "no" THEN "queued" ELSE closure

(* Start: the bind call.  Every failure ends in Stop.                       *)
Bind ==
  /\ start = "bind"
  /\ \/ /\ client
        /\ start' = "listen"
        /\ size' = 1
        /\ hydrated' = {0}
        /\ UNCHANGED <<stop, closure>>
     \/ /\ start' = "failed"
        /\ Stop
        /\ UNCHANGED <<size, hydrated>>
  /\ UNCHANGED <<checking, appender, raced, slotVars, arrived, vended, client,
                 errors>>

(* The listen call, up to the read of the second response of pool_[0].      *)
Listen ==
  /\ start = "listen"
  /\ \/ /\ client
        /\ start' = "hydrate"
        /\ Begin(0, "second")
        /\ UNCHANGED <<stop, closure>>
     \/ /\ start' = "failed"
        /\ Stop
        /\ UNCHANGED <<phase, result>>
  /\ UNCHANGED <<growth, inside, closed, inbound, hydrated, arrived, vended,
                 client, errors>>

(* A slot is appended, and pool_[1] connects.                               *)
Hydrate ==
  /\ ~raced /\ start = "hydrate"
  /\ start' = "done"
  /\ size' = size + 1
  /\ Begin(1, "connect")
  /\ UNCHANGED <<checking, appender, raced, inside, closed, inbound, hydrated,
                 arrived, vended, stop, closure, client, errors>>

-----------------------------------------------------------------------------

(* An operation completes.                                                  *)
Succeeds(i) ==
  /\ ~raced /\ phase[i] # "none" /\ result[i] = "pending"
  /\ ~closed[i]
  /\ phase[i] = "send" => client
  /\ IF phase[i] = "second"
     THEN /\ arrived < MaxInbound
          /\ arrived' = arrived + 1
          /\ inbound' = [inbound EXCEPT ![i] = arrived + 1]
     ELSE UNCHANGED <<arrived, inbound>>
  /\ result' = [result EXCEPT ![i] = "ok"]
  /\ UNCHANGED <<start, growth, phase, inside, closed, hydrated, vended, stop,
                 closure, client, errors>>

(* The proxy fails or refuses, up to the bound, or the socket was closed.   *)
Fails(i) ==
  /\ ~raced /\ phase[i] # "none" /\ result[i] = "pending"
  /\ IF closed[i] \/ (phase[i] = "send" /\ ~client) THEN UNCHANGED errors
     ELSE errors < MaxErrors /\ errors' = errors + 1
  /\ result' = [result EXCEPT ![i] = "failed"]
  /\ UNCHANGED <<start, growth, phase, inside, closed, inbound, hydrated,
                 arrived, vended, stop, closure, client>>

(* client_strand_ is free, or i's handler need not hold it.                 *)
Strand(i) ==
  phase[i] = "send" => \A j \in Slots \ {i} : ~(inside[j] /\ phase[j] = "send")
StrandFree == \A j \in Slots : ~(inside[j] /\ phase[j] = "send")

(* Mutant: the load of stop_ is forgotten.                                  *)
StopSeenNever(i) == FALSE

StopSeen(i) == stop

(* The beginning of each handler.                                           *)
Enter(i) ==
  /\ phase[i] # "none" /\ result[i] # "pending" /\ ~inside[i]
  /\ Strand(i)
  /\ IF StopSeen(i)
     THEN /\ phase' = [phase EXCEPT ![i] = "none"]
          /\ UNCHANGED inside
     ELSE /\ inside' = [inside EXCEPT ![i] = TRUE]
          /\ UNCHANGED phase
  /\ UNCHANGED <<start, growth, result, closed, inbound, hydrated, arrived,
                 vended, stop, closure, client, errors>>

(* A new socket takes the place of the old one, which is closed.            *)
InitiateSocket(i) ==
  /\ Begin(i, "connect")
  /\ closed' = [closed EXCEPT ![i] = FALSE]
  /\ inbound' = [inbound EXCEPT ![i] = 0]

Leave(i, op) ==
  /\ inside[i] /\ phase[i] = op
  /\ inside' = [inside EXCEPT ![i] = FALSE]

(* The synchronous write of the request fails on a closed socket.           *)
HandleConnect(i) ==
  /\ Leave(i, "connect")
  /\ \/ /\ result[i] = "failed" \/ closed[i]
        /\ InitiateSocket(i)
     \/ /\ result[i] = "ok" /\ ~closed[i]
        /\ Begin(i, "first")
        /\ UNCHANGED <<closed, inbound>>
  /\ UNCHANGED <<start, growth, hydrated, arrived, vended, stop, closure,
                 client, errors>>

Handle1stResp(i) ==
  /\ Leave(i, "first")
  /\ \/ /\ result[i] = "failed"
        /\ InitiateSocket(i)
        /\ UNCHANGED <<checking, hydrated>>
     \/ /\ result[i] = "ok"
        /\ Begin(i, "second")
        /\ hydrated' = hydrated \cup {i}
        /\ checking' = [checking EXCEPT ![i] = @ + 1]
        /\ UNCHANGED <<closed, inbound>>
  /\ UNCHANGED <<start, size, appender, raced, arrived, vended, stop, closure,
                 client, errors>>

(* Mutant: no slot starts the next one.                                     *)
ContinuesNever(i) == FALSE

(* The last slot starts the next one while the pool is not full.            *)
Continues(i) == i = size - 1 /\ size < PoolSize

(* Handle1stResp goes on: "If this is the last socket in the pool, and the  *)
(* pool is not hydrated yet, continue to hydrate."                          *)
LooksAtSize(i) ==
  /\ checking[i] > 0
  /\ checking' = [checking EXCEPT ![i] = @ - 1]
  /\ LET alone == start # "hydrate" /\ appender = -1
     IN /\ raced' = (Continues(i) /\ ~alone)
        /\ appender' = IF Continues(i) /\ alone THEN i ELSE appender
  /\ UNCHANGED <<start, size, slotVars, hydrated, arrived, vended, stop,
                 closure, client, errors>>

AppendsSlot(i) ==
  /\ appender = i
  /\ appender' = -1
  /\ size' = size + 1
  /\ Begin(i + 1, "connect")
  /\ UNCHANGED <<start, checking, raced, inside, closed, inbound, hydrated,
                 arrived, vended, stop, closure, client, errors>>

Handle2ndResp(i) ==
  /\ Leave(i, "second")
  /\ \/ /\ result[i] = "failed"
        /\ InitiateSocket(i)
     \/ /\ result[i] = "ok"
        /\ Begin(i, "send")
        /\ UNCHANGED <<closed, inbound>>
  /\ UNCHANGED <<start, growth, hydrated, arrived, vended, stop, closure,
                 client, errors>>

(* sendmsg passes the socket to the application; if it fails, as it must    *)
(* when the application is gone, the pool is stopped, and since the handler *)
(* holds the strand the sockets are closed at once.                         *)
HandleSendFd(i) ==
  /\ Leave(i, "send")
  /\ \/ /\ result[i] = "failed"
        /\ InitiateSocket(i)
        /\ UNCHANGED <<vended, stop, closure, errors>>
     \/ /\ result[i] = "ok" /\ client
        /\ vended' = vended \cup {inbound[i]}
        /\ InitiateSocket(i)
        /\ UNCHANGED <<stop, closure, errors>>
     \/ /\ result[i] = "ok"
        /\ IF client THEN errors < MaxErrors /\ errors' = errors + 1
           ELSE UNCHANGED errors
        /\ phase' = [phase EXCEPT ![i] = "none"]
        /\ closed' = [j \in Slots |-> closed[j] \/ j < size]
        /\ stop' = TRUE /\ closure' = "done"
        /\ UNCHANGED <<result, inbound, vended>>
  /\ UNCHANGED <<start, growth, hydrated, arrived, client>>

(* The application closes its socket, and wait_error sees it.               *)
ClientLeaves ==
  /\ ~raced /\ client
  /\ client' = FALSE
  /\ UNCHANGED <<start, growth, slotVars, hydrated, arrived, vended, stop,
                 closure, errors>>

HandleClientError ==
  /\ ~client /\ ~stop
  /\ start \in {"hydrate", "done"}
  /\ Stop
  /\ UNCHANGED <<start, growth, slotVars, hydrated, arrived, vended, client,
                 errors>>

(* Mutant: the sockets are closed by whichever thread stops the pool.       *)
ClosureReadyAnywhere == closure = "queued"

ClosureReady == closure = "queued" /\ StrandFree

Closure ==
  /\ ~raced /\ ClosureReady
  /\ closure' = "done"
  /\ closed' = [i \in Slots |-> closed[i] \/ i < size]
  /\ UNCHANGED <<start, growth, phase, result, inside, inbound, hydrated,
                 arrived, vended, stop, client, errors>>

-----------------------------------------------------------------------------
Handler(i) ==
  /\ ~raced
  /\ \/ Enter(i)
     \/ HandleConnect(i) \/ Handle1stResp(i) \/ Handle2ndResp(i)
     \/ HandleSendFd(i)

(* The rest of Handle1stResp.                                               *)
Continuation(i) == ~raced /\ (LooksAtSize(i) \/ AppendsSlot(i))

Next ==
  \/ Bind \/ Listen \/ Hydrate
  \/ \E i \in Slots : Succeeds(i) \/ Fails(i) \/ Handler(i) \/ Continuation(i)
  \/ ClientLeaves \/ HandleClientError \/ Closure

Spec == Init /\ [][Next]_vars

(* The threads run what is ready; an operation on a closed socket ends, and *)
(* an operation ends well if it can.                                        *)
FairSpec ==
  /\ Spec
  /\ WF_vars(Bind) /\ WF_vars(Listen) /\ WF_vars(Hydrate)
  /\ WF_vars(HandleClientError) /\ WF_vars(Closure)
  /\ \A i \in Slots : /\ WF_vars(Handler(i)) /\ WF_vars(Continuation(i))
                      /\ WF_vars(Succeeds(i) /\ phase[i] # "second")
                      /\ WF_vars(Fails(i) /\ closed[i])

-----------------------------------------------------------------------------
(* Every variable has its type; the pool never exceeds its size.            *)
TypeOK ==
  /\ start \in {"bind", "listen", "hydrate", "done", "failed"}
  /\ size \in 0 .. PoolSize
  /\ checking \in [Slots -> Nat] /\ appender \in Slots \cup {-1}
  /\ phase \in [Slots -> {"none", "connect", "first", "second", "send"}]
  /\ result \in [Slots -> {"pending", "ok", "failed"}]
  /\ inside \in [Slots -> BOOLEAN] /\ closed \in [Slots -> BOOLEAN]
  /\ inbound \in [Slots -> 0 .. MaxInbound]
  /\ hydrated \subseteq Slots
  /\ vended \subseteq 1 .. MaxInbound
  /\ {raced, stop} \subseteq BOOLEAN /\ closure \in {"no", "queued", "done"}

(* HandleSendFd never passes on the descriptor of a socket that the         *)
(* stopping of the pool has closed, though stop_ may be set, and the        *)
(* closing asked for, after it has looked.                                  *)
SendsOpenSocket ==
  \A i \in Slots : inside[i] /\ phase[i] = "send" => ~closed[i]

(* A connection that came in is on one slot only, and no longer on any once *)
(* the application has it.                                                  *)
InboundHasOneOwner ==
  \A i \in Slots : inbound[i] # 0 =>
    /\ inbound[i] \notin vended
    /\ \A j \in Slots \ {i} : inbound[j] # inbound[i]

(* A pool that was stopped lets go: every operation ends, whichever         *)
(* handlers were past their check and whatever they started, a slot         *)
(* appended late included, and so the last reference to the pool goes away. *)
Drained ==
  /\ closure = "done" /\ appender = -1
  /\ \A i \in Slots : phase[i] = "none" /\ checking[i] = 0
StopDrains == stop ~> Drained \/ raced

(* Every slot comes to wait for an inbound connection, one after the other, *)
(* unless two threads append at once.                                       *)
PoolFills == start = "done" ~> (~client \/ stop \/ raced \/ Slots \subseteq hydrated)

(* "Hydrate the rest of the pool, serially, to avoid overloading the        *)
(* proxy.": of the slots appended only the last may be without its first    *)
(* response.                                                                *)
HydratesSerially == 0 .. size - 2 \subseteq hydrated

(* Two threads come to append at once only while the pool is being filled,  *)
(* and only if its last slot has then gone through a second round, on an    *)
(* inbound connection or after a failed operation: a pool without traffic   *)
(* until it is full is filled as intended, and a full one is never grown.   *)
RacesOnlyWhileFilling == raced => size < PoolSize /\ arrived + errors > 0

(* The pool grows one slot at a time, and its slots and the application     *)
(* never share a socket or use one that was closed.                         *)
PoolInvariant ==
  /\ TypeOK /\ SendsOpenSocket /\ InboundHasOneOwner /\ HydratesSerially
  /\ RacesOnlyWhileFilling
=============================================================================
