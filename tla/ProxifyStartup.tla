--------------------------- MODULE ProxifyStartup ---------------------------
(***************************************************************************)
(* The start of applications under proxify (proxify.cc).  Each proxify     *)
(* forks a socket vendor (socket_vendor.cc, socket_vendor_server.cc),      *)
(* makes sure that resolv.conf exists and becomes the application.  The    *)
(* vendors of several proxify compete for the lock file; the one that has  *)
(* it replaces the UNIX socket at the well-known path and serves there.    *)
(***************************************************************************)
EXTENDS Naturals, FiniteSets

CONSTANTS Procs, None, MaxCrashes

ASSUME ProxifyAssumption == None \notin Procs /\ MaxCrashes \in Nat

VARIABLES
  pc,      \* where each proxify is; "app" once it has become the application
  vendor,  \* where its vendor is
  holder,  \* the vendors that hold the lock of the lock file
  path,    \* the vendor whose socket the path names
  resolv,  \* resolv.conf: None, "given", or the proxify that created it
  reached, \* applications that have connected to a vendor
  crashes

vars == <<pc, vendor, holder, path, resolv, reached, crashes>>

-----------------------------------------------------------------------------
(* The image has a resolv.conf or, as a dangling link, none.                *)
Init ==
  /\ pc = [p \in Procs |-> "new"] /\ vendor = [p \in Procs |-> "none"]
  /\ holder = {} /\ path = None /\ resolv \in {None, "given"}
  /\ reached = {} /\ crashes = 0

Goto(p, l) == pc' = [pc EXCEPT ![p] = l]
VendorGoto(p, l) == vendor' = [vendor EXCEPT ![p] = l]

Fork(p) ==
  /\ pc[p] = "new" /\ Goto(p, "access") /\ VendorGoto(p, "lock")
  /\ UNCHANGED <<holder, path, resolv, reached, crashes>>

(* access(), and unlink() when there is none.                               *)
Access(p) ==
  /\ pc[p] = "access"
  /\ Goto(p, IF resolv # None THEN "app" ELSE "unlink")
  /\ UNCHANGED <<vendor, holder, path, resolv, reached, crashes>>

Unlink(p) ==
  /\ pc[p] = "unlink" /\ Goto(p, "create")
  /\ resolv' = None
  /\ UNCHANGED <<vendor, holder, path, reached, crashes>>

(* open(O_CREAT | O_EXCL), write and execvp.                                *)
Create(p) ==
  /\ pc[p] = "create"
  /\ IF resolv = None THEN resolv' = p /\ Goto(p, "app")
                      ELSE UNCHANGED resolv /\ Goto(p, "failed")
  /\ UNCHANGED <<vendor, holder, path, reached, crashes>>

(* Mutant: the result of the lock is not looked at.                         *)
MayServeAll(p) == TRUE

(* fcntl(F_SETLK) fails when another process holds the lock.                *)
MayServe(p) == holder = {}

Lock(p) ==
  /\ vendor[p] = "lock"
  /\ IF MayServe(p) THEN VendorGoto(p, "unlink") /\ holder' = holder \cup {p}
                    ELSE VendorGoto(p, "gone") /\ UNCHANGED holder
  /\ UNCHANGED <<pc, path, resolv, reached, crashes>>

(* Mutant: the socket of a vendor that died is left.                        *)
UnlinkedSame == path

Unlinked == None

(* Init of the server: the path is removed, bound again and listened on.    *)
UnlinkPath(p) ==
  /\ vendor[p] = "unlink" /\ VendorGoto(p, "bind")
  /\ path' = Unlinked
  /\ UNCHANGED <<pc, holder, resolv, reached, crashes>>

BindPath(p) ==
  /\ vendor[p] = "bind"
  /\ IF path = None
     THEN VendorGoto(p, "listen") /\ path' = p /\ UNCHANGED holder
     ELSE VendorGoto(p, "gone") /\ holder' = holder \ {p} /\ UNCHANGED path
  /\ UNCHANGED <<pc, resolv, reached, crashes>>

ListenPath(p) ==
  /\ vendor[p] = "listen" /\ VendorGoto(p, "serving")
  /\ UNCHANGED <<pc, holder, path, resolv, reached, crashes>>

(* The kernel gives the lock of a dead vendor back, not the path.           *)
Crash(p) ==
  /\ crashes < MaxCrashes /\ vendor[p] \notin {"none", "gone"}
  /\ VendorGoto(p, "gone") /\ holder' = holder \ {p}
  /\ crashes' = crashes + 1
  /\ UNCHANGED <<pc, path, resolv, reached>>

(* The application tries bind until it reaches the vendor.                  *)
Serves == path # None /\ vendor[path] = "serving"
Reach(p) ==
  /\ pc[p] = "app" /\ p \notin reached /\ Serves
  /\ reached' = reached \cup {p}
  /\ UNCHANGED <<pc, vendor, holder, path, resolv, crashes>>

Proxify(p) == Access(p) \/ Unlink(p) \/ Create(p) \/ Reach(p)
Vendor(p) == Lock(p) \/ UnlinkPath(p) \/ BindPath(p) \/ ListenPath(p)

Next == \E p \in Procs : Fork(p) \/ Proxify(p) \/ Vendor(p) \/ Crash(p)

Spec == Init /\ [][Next]_vars

(* Processes that have been started run.                                    *)
FairSpec ==
  Spec /\ \A p \in Procs : WF_vars(Proxify(p)) /\ WF_vars(Vendor(p))

-----------------------------------------------------------------------------
(* Every variable has its type; one vendor at a time is past the lock.      *)
TypeOK ==
  /\ pc \in [Procs -> {"new", "access", "unlink", "create", "app", "failed"}]
  /\ vendor \in [Procs -> {"none", "lock", "unlink", "bind", "listen",
                           "serving", "gone"}]
  /\ Cardinality(holder) <= 1 /\ path \in Procs \cup {None}
  /\ resolv \in Procs \cup {None, "given"} /\ reached \subseteq Procs
  /\ holder = {p \in Procs : vendor[p] \in {"unlink", "bind", "listen", "serving"}}

(* A second proxify does no harm ("If there's already a running             *)
(* socket_vendor, this will end with a benign failure"): a vendor that      *)
(* serves keeps its path until it dies.                                     *)
ServerKeepsPath == \A p \in Procs : vendor[p] = "serving" => path = p

(* An application has its resolv.conf: several proxify that find none may   *)
(* take each other's file away or fail to create theirs, but whoever took   *)
(* one away is about to create it.                                          *)
ResolvConfThere ==
  (\E p \in Procs : pc[p] \in {"app", "failed"}) =>
    resolv # None \/ \E q \in Procs : pc[q] = "create"

(* When a vendor starts and no other lives, one gets to serve, also over    *)
(* the socket that a dead one has left behind, and every application        *)
(* reaches it, unless it dies as well.                                      *)
VendorServes ==
  \A p \in Procs :
    vendor[p] = "lock" /\ holder = {} /\ crashes = MaxCrashes
      ~> /\ \E q \in Procs : vendor[q] = "serving"
         /\ \A q \in Procs : pc[q] = "app" => q \in reached

(* The lock file, the path, resolv.conf and the processes agree: whoever    *)
(* serves has both the lock and the path, and an application its file.      *)
StartupInvariant == TypeOK /\ ServerKeepsPath /\ ResolvConfThere
=============================================================================
