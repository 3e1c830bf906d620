---------------------------- MODULE AcceptorPool ----------------------------
(***************************************************************************)
(* The acceptors that the bridges of the proxy share for BIND requests     *)
(* (acceptor_pool.h).  A bridge looks its port up under the shared lock,   *)
(* lets go of it, and inserts under the exclusive lock what another bridge *)
(* may have inserted in between; then it waits for an inbound connection   *)
(* on the acceptor it was given a pointer to (proxy_bridge.cc).            *)
(***************************************************************************)
EXTENDS Naturals, TLAPS

CONSTANTS
  Bridges,
  Ports       \* ports a client can ask for or the kernel can pick; not 0

VARIABLES
  pool,     \* pool_: port -> its acceptor, which is its number and whether it listens
  foreign,  \* ports that other processes use
  readers,  \* holders of the shared lock
  writer,   \* holder of the exclusive lock, as a set
  pc,       \* where each bridge is
  port,     \* the argument of GetAcceptor, which it may change
  result,   \* the number of the acceptor pointed to; 0 is nullptr
  made      \* acceptors created so far

locks == <<readers, writer>>
vars == <<pool, foreign, locks, pc, port, result, made>>

-----------------------------------------------------------------------------
Init ==
  /\ pool = [p \in {} |-> 0] /\ foreign \in SUBSET Ports
  /\ readers = {} /\ writer = {}
  /\ pc = [b \in Bridges |-> "idle"]
  /\ port = [b \in Bridges |-> 0] /\ result = [b \in Bridges |-> 0]
  /\ made = 0

Listening(p) == p \in DOMAIN pool /\ pool[p].listens
With(p, listens) ==
  [q \in DOMAIN pool \cup {p} |->
     IF q = p THEN [id |-> made + 1, listens |-> listens] ELSE pool[q]]

(* A connection to the proxy makes a BIND request, for any port if p is 0.  *)
Request(b, p) ==
  /\ pc[b] = "idle"
  /\ port' = [port EXCEPT ![b] = p]
  /\ pc' = [pc EXCEPT ![b] = "lookup"]
  /\ UNCHANGED <<pool, foreign, locks, result, made>>

(* std::shared_lock rlock(mutex_)                                           *)
LockShared(b) ==
  /\ pc[b] = "lookup" /\ b \notin readers /\ writer = {}
  /\ readers' = readers \cup {b}
  /\ UNCHANGED <<pool, foreign, writer, pc, port, result, made>>

(* The lock is released with or without a result.                           *)
Find(b) ==
  /\ pc[b] = "lookup" /\ b \in readers
  /\ \/ /\ port[b] \in DOMAIN pool
        /\ result' = [result EXCEPT ![b] = pool[port[b]].id]
        /\ pc' = [pc EXCEPT ![b] = "waiting"]
     \/ /\ port[b] \notin DOMAIN pool
        /\ pc' = [pc EXCEPT ![b] = "missed"]
        /\ UNCHANGED result
  /\ readers' = readers \ {b}
  /\ UNCHANGED <<pool, foreign, writer, port, made>>

(* std::unique_lock wlock(mutex_)                                           *)
LockUnique(b) ==
  /\ pc[b] = "missed" /\ readers = {} /\ writer = {}
  /\ writer' = {b}
  /\ UNCHANGED <<pool, foreign, readers, pc, port, result, made>>

(* GetAcceptor returns and releases the lock; the bridge waits, or reports  *)
(* the failure.                                                             *)
Return(b, p, id) ==
  /\ port' = [port EXCEPT ![b] = p]
  /\ result' = [result EXCEPT ![b] = id]
  /\ pc' = [pc EXCEPT ![b] = IF id = 0 THEN "failed" ELSE "waiting"]
  /\ writer' = {}
  /\ UNCHANGED <<foreign, readers>>

(* Port 0: the kernel picks a free port.  When bind or listen fails,        *)
(* BindListen returns 0, and the acceptor is kept as that of port 0.        *)
EmplaceAny(b) ==
  /\ pc[b] = "missed" /\ writer = {b} /\ port[b] = 0
  /\ made' = made + 1
  /\ \/ \E p \in Ports :
          /\ p # 0 /\ p \notin foreign /\ ~Listening(p)
          /\ pool' = With(p, TRUE) /\ Return(b, p, made + 1)
     \/ 0 \in DOMAIN pool /\ UNCHANGED pool /\ Return(b, 0, pool[0].id)
     \/ 0 \notin DOMAIN pool /\ pool' = With(0, FALSE) /\ Return(b, 0, made + 1)

(* A given port: try_emplace inserts only if the port is still missing, and *)
(* an acceptor that cannot be bound is erased.                              *)
Emplace(b) ==
  /\ pc[b] = "missed" /\ writer = {b} /\ port[b] # 0
  /\ LET p == port[b] IN
       \/ p \in DOMAIN pool /\ UNCHANGED <<pool, made>> /\ Return(b, p, pool[p].id)
       \/ /\ p \notin DOMAIN pool /\ p \notin foreign
          /\ pool' = With(p, TRUE) /\ made' = made + 1 /\ Return(b, p, made + 1)
       \/ /\ p \notin DOMAIN pool
          /\ UNCHANGED pool /\ made' = made + 1 /\ Return(b, p, 0)

(* A connection is accepted, the client goes away, or the failure has been  *)
(* told to the client.                                                      *)
Finish(b) ==
  /\ pc[b] \in {"waiting", "failed"}
  /\ pc' = [pc EXCEPT ![b] = "idle"]
  /\ UNCHANGED <<pool, foreign, locks, port, result, made>>

(* Another process takes or leaves a port.                                  *)
ForeignUse(p) ==
  /\ \/ p \in foreign /\ foreign' = foreign \ {p}
     \/ ~Listening(p) /\ p \notin foreign /\ foreign' = foreign \cup {p}
  /\ UNCHANGED <<pool, locks, pc, port, result, made>>

Step(b) ==
  LockShared(b) \/ Find(b) \/ LockUnique(b) \/ EmplaceAny(b) \/ Emplace(b)

Next ==
  \/ \E b \in Bridges :
       (\E p \in Ports \cup {0} : Request(b, p)) \/ Step(b) \/ Finish(b)
  \/ \E p \in Ports : ForeignUse(p)

Spec == Init /\ [][Next]_vars

-----------------------------------------------------------------------------
(* The pointer that GetAcceptor returned stays good: while a bridge waits   *)
(* on an acceptor, that acceptor is in the pool under the bridge's port,    *)
(* whichever bridges look up, miss and insert at the same time.             *)
PointersStayValid ==
  \A b \in Bridges : pc[b] = "waiting" =>
    port[b] \in DOMAIN pool /\ pool[port[b]].id = result[b]

(* Two ports never share an acceptor.                                       *)
OneAcceptorPerPort ==
  \A p, q \in DOMAIN pool : pool[p].id = pool[q].id => p = q

(* The pool is of its type, its acceptors are numbered as they were made,   *)
(* and only the acceptor kept for port 0 does not listen.                   *)
PoolOK ==
  /\ made \in Nat /\ pool = [p \in DOMAIN pool |-> pool[p]]
  /\ \A p \in DOMAIN pool :
       /\ pool[p].id \in Nat /\ 0 < pool[p].id /\ pool[p].id <= made
       /\ p # 0 => pool[p].listens

BridgesOK ==
  /\ pc = [b \in Bridges |-> pc[b]] /\ port = [b \in Bridges |-> port[b]]
  /\ result = [b \in Bridges |-> result[b]]

IInv == PoolOK /\ BridgesOK /\ PointersStayValid /\ OneAcceptorPerPort

(* An acceptor added for a port that has none replaces no other.            *)
LEMMA AddedKeeps ==
  ASSUME IInv, NEW b \in Bridges, NEW p, NEW listens, p \notin DOMAIN pool,
         listens \/ p = 0, pool' = With(p, listens), made' = made + 1,
         Return(b, p, made + 1)
  PROVE  IInv'
<1>1. /\ DOMAIN pool' = DOMAIN pool \cup {p}
      /\ pool' = [q \in DOMAIN pool' |-> pool'[q]]
      /\ pool'[p] = [id |-> made + 1, listens |-> listens]
      /\ \A q \in DOMAIN pool : pool'[q] = pool[q]
  BY DEF With
<1>2. made \in Nat /\ \A q \in DOMAIN pool : pool[q].id \in Nat /\ pool[q].id <= made
  BY DEF IInv, PoolOK
<1>3. PoolOK'
  <2>1. ASSUME NEW q \in DOMAIN pool'
        PROVE  /\ pool'[q].id \in Nat /\ 0 < pool'[q].id /\ pool'[q].id <= made'
               /\ q # 0 => pool'[q].listens
    BY <1>1, <1>2 DEF IInv, PoolOK
  <2>2. QED  BY <1>1, <1>2, <2>1 DEF PoolOK
<1>4. OneAcceptorPerPort'
  <2> SUFFICES ASSUME NEW q \in DOMAIN pool', NEW r \in DOMAIN pool',
                      pool'[q].id = pool'[r].id
               PROVE  q = r
    BY DEF OneAcceptorPerPort
  <2>1. CASE q # p /\ r # p
    BY <1>1, <2>1 DEF IInv, OneAcceptorPerPort
  <2>2. CASE q = p \/ r = p
    BY <1>1, <1>2, <2>2
  <2>3. QED  BY <2>1, <2>2
<1>5. ASSUME NEW c \in Bridges, pc'[c] = "waiting"
      PROVE  port'[c] \in DOMAIN pool' /\ pool'[port'[c]].id = result'[c]
  <2>1. CASE c = b
    BY <1>1, <2>1 DEF IInv, BridgesOK, Return
  <2>2. CASE c # b
    <3>1. pc'[c] = pc[c] /\ port'[c] = port[c] /\ result'[c] = result[c]
      BY <2>2 DEF IInv, BridgesOK, Return
    <3>2. port[c] \in DOMAIN pool /\ pool[port[c]].id = result[c]
      BY <1>5, <3>1 DEF IInv, PointersStayValid
    <3>3. QED  BY <1>1, <3>1, <3>2
  <2>3. QED  BY <2>1, <2>2
<1>6. BridgesOK'
  BY DEF IInv, BridgesOK, Return
<1>7. QED  BY <1>3, <1>4, <1>5, <1>6 DEF IInv, PointersStayValid

(* A bridge that gets an acceptor which is there, or none, changes nothing  *)
(* for the others.                                                          *)
LEMMA FoundKeeps ==
  ASSUME IInv, NEW b \in Bridges, UNCHANGED pool, made' \in {made, made + 1}, NEW p,
         NEW id, Return(b, p, id), id = 0 \/ (p \in DOMAIN pool /\ id = pool[p].id)
  PROVE  IInv'
<1>1. PoolOK'
  <2>1. made \in Nat /\ made' \in Nat /\ made <= made'
    BY DEF IInv, PoolOK
  <2>2. QED  BY <2>1 DEF IInv, PoolOK
<1>2. BridgesOK'
  BY DEF IInv, BridgesOK, Return
<1>3. ASSUME NEW c \in Bridges, pc'[c] = "waiting"
      PROVE  port'[c] \in DOMAIN pool' /\ pool'[port'[c]].id = result'[c]
  <2>1. CASE c = b
    <3>1. port'[c] = p /\ result'[c] = id /\ id # 0
      BY <1>3, <2>1 DEF IInv, BridgesOK, Return
    <3>2. QED  BY <3>1
  <2>2. CASE c # b
    <3>1. pc'[c] = pc[c] /\ port'[c] = port[c] /\ result'[c] = result[c]
      BY <2>2 DEF IInv, BridgesOK, Return
    <3>2. QED  BY <1>3, <3>1 DEF IInv, PointersStayValid
  <2>3. QED  BY <2>1, <2>2
<1>4. QED  BY <1>1, <1>2, <1>3 DEF IInv, PointersStayValid, OneAcceptorPerPort

(* However lookups and insertions interleave, a pointer that was given out  *)
(* stays good and no two ports share an acceptor.                           *)
THEOREM PoolIsSafe == Spec => [](PointersStayValid /\ OneAcceptorPerPort)
<1>1. Init => IInv
  BY DEF Init, IInv, PoolOK, BridgesOK, PointersStayValid, OneAcceptorPerPort
<1>2. IInv /\ [Next]_vars => IInv'
  <2> SUFFICES ASSUME IInv, [Next]_vars PROVE IInv'
    OBVIOUS
  <2>1. ASSUME NEW b \in Bridges, NEW p \in Ports \cup {0}, Request(b, p) PROVE IInv'
    <3>1. PoolOK' /\ OneAcceptorPerPort'
      BY <2>1 DEF Request, IInv, PoolOK, OneAcceptorPerPort
    <3>2. BridgesOK'
      BY <2>1 DEF Request, IInv, BridgesOK
    <3>3. PointersStayValid'
      BY <2>1 DEF Request, IInv, BridgesOK, PointersStayValid
    <3>4. QED  BY <3>1, <3>2, <3>3 DEF IInv
  <2>2. ASSUME NEW b \in Bridges, LockShared(b) \/ LockUnique(b) PROVE IInv'
    BY <2>2 DEF LockShared, LockUnique, IInv, PoolOK, BridgesOK, PointersStayValid,
                OneAcceptorPerPort
  <2>3. ASSUME NEW b \in Bridges, Find(b) PROVE IInv'
    <3>1. PoolOK' /\ OneAcceptorPerPort'
      BY <2>3 DEF Find, IInv, PoolOK, OneAcceptorPerPort
    <3>2. BridgesOK'
      BY <2>3 DEF Find, IInv, BridgesOK
    <3>3. ASSUME NEW c \in Bridges, pc'[c] = "waiting"
          PROVE  port[c] \in DOMAIN pool /\ pool[port[c]].id = result'[c]
      <4>1. CASE c = b
        BY <2>3, <3>3, <4>1 DEF Find, IInv, BridgesOK
      <4>2. CASE c # b
        BY <2>3, <3>3, <4>2 DEF Find, IInv, BridgesOK, PointersStayValid
      <4>3. QED  BY <4>1, <4>2
    <3>4. QED  BY <2>3, <3>1, <3>2, <3>3 DEF Find, IInv, PointersStayValid
  <2>4. ASSUME NEW b \in Bridges, EmplaceAny(b) PROVE IInv'
    <3>1. CASE \E p \in Ports : /\ p # 0 /\ p \notin foreign /\ ~Listening(p)
                                /\ pool' = With(p, TRUE) /\ Return(b, p, made + 1)
      <4>1. PICK p \in Ports : p # 0 /\ ~Listening(p) /\ pool' = With(p, TRUE)
                                 /\ Return(b, p, made + 1)
        BY <3>1
      <4>2. p \notin DOMAIN pool
        BY <4>1 DEF Listening, IInv, PoolOK
      <4>3. QED  BY <2>4, <4>1, <4>2, AddedKeeps DEF EmplaceAny
    <3>2. QED  BY <2>4, <3>1, AddedKeeps, FoundKeeps DEF EmplaceAny
  <2>5. ASSUME NEW b \in Bridges, Emplace(b) PROVE IInv'
    BY <2>5, AddedKeeps, FoundKeeps DEF Emplace
  <2>6. ASSUME NEW b \in Bridges, Finish(b) PROVE IInv'
    BY <2>6 DEF Finish, IInv, PoolOK, BridgesOK, PointersStayValid, OneAcceptorPerPort
  <2>7. ASSUME NEW p \in Ports, ForeignUse(p) PROVE IInv'
    BY <2>7 DEF ForeignUse, IInv, PoolOK, BridgesOK, PointersStayValid,
                OneAcceptorPerPort
  <2>8. CASE UNCHANGED vars
    BY <2>8 DEF vars, IInv, PoolOK, BridgesOK, PointersStayValid, OneAcceptorPerPort
  <2>9. QED
    BY <2>1, <2>2, <2>3, <2>4, <2>5, <2>6, <2>7, <2>8 DEF Next, Step
<1>3. IInv => PointersStayValid /\ OneAcceptorPerPort
  BY DEF IInv
<1>4. QED  BY <1>1, <1>2, <1>3, PTL DEF Spec
=============================================================================
