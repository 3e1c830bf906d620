# Verification of the Transparent Certificate Authority

TLA+ specifications of the transparent certificate authority (TCA), of the
Measurement Bound Storage (MBS) that keeps its root keys, of the container
tools that give an enclave its network, and of the development kit that
provides the images all of it is built in. Each module is written from the source
files it names; `PROJECT.json` maps every definition to its lines.

To repeat a check, run `tlc -config X.cfg M` or `tlapm M.tla` in this
directory. A run's module, configuration and expected result are in
`PROJECT.json`.

## 1. The system

| Part | What it keeps | What it does | Talks to |
|---|---|---|---|
| MBS generator (`DefaultCertificateGenerator`, `S3BackupWriter`) | nothing of its own; the lock and the backups are objects in two S3 buckets | looks for epochs without a backup, takes the lock, looks again, generates a key, puts its four artifacts, releases | S3, KMS, NSM, other instances |
| MBS reload (`TrustPackageService`, `S3BackupStorage`, `S3BackupReader`, handles) | the active trust package, the last snapshot with memoized reads | lists, reads, unseals, swaps the package | S3, KMS |
| MBS monitor (`ScheduledCertificateMonitor`) | the scheduled service | fetch, generate, reload every two minutes | the two above |
| MBS sealer (`AeadSelfSignedBundleBackupSealer`, `AwsKmsClient`, NSM wrapper) | an NSM descriptor per call | seals a bundle into artifacts and back | KMS, `/dev/nsm` |
| Issuance (`TransparentCaService`, gRPC handler, JWT interceptor) | approved clients | checks token, audience, evidence and policy, and signs | MBS, policies, keys |
| Policy cache (`CachedFileFetcher`) | one entry per client, absent files included | fetches with a five minute expiry | S3 |
| OIDC key cache (`OidcJwksKeyFetcher`) | one key set with its max-age | looks a key up, refreshes after a miss | the identity provider |
| Server (`ServerMain`, `TcaServer`) | health status, shutdown hook | starts, answers `/healthz`, stops | all of the above |
| Enclave proxy (`proxy_bridge`, `socks5_state`, `buffer`, `freelist`, `acceptor_pool`) | sessions, buffers, acceptors | SOCKS5 handshake, connect or bind, forwarding | preload library, vendor, peers |
| Socket vendor (`client_session_pool`, `socket_vendor_server`) | a pool of waiting sockets per listener | hands inbound connections to applications | proxy, applications |
| Preload library (`preload.cc`) | nothing; the state is the kernel's | replaces connect, bind, listen, accept4 and epoll_ctl | proxy, vendor |
| proxify, enclave watcher | `resolv.conf`, lock file; failure count, allocator file | start the vendor and the application; keep one enclave running | systemd, nitro-cli |
| Development kit (`.devkit/scripts`) | images in a Docker daemon and a registry, under tags that hash Dockerfiles | makes images available, runs a container, listens for its event, removes old images | docker, the registry, other workspaces |

What makes it hard: several instances share buckets without transactions;
requests fail after taking effect, or land late; processes end between two
puts; a request the SDK repeats takes effect twice; caches and memoized reads outlive what they were read from; handlers run
on several threads; sockets are half closed; a descriptor's file is replaced
under the application; workspaces share a Docker daemon that each of them tidies.

## 2. The modules

| Module | Models | Properties it is there for |
|---|---|---|
| `BackupLayout` | artifacts, write order, classification of a listing | used by the three modules below |
| `RootKeyBackup` | instances, S3, operator: fetch, generate, reload | one key per epoch, for ever; the lock; serving is kept and reached |
| `KeyRegistry` | what MBS promises, abstractly | implemented by `RootKeyBackup` |
| `BackupSealer` | generation of one bundle, NSM, KMS, seal and unseal | what is unsealed was sealed together; blame; descriptors |
| `CertificatesConfig`, `TrustReload` | configuration file, listings, handles, GETs, package | packages are whole and as new as the buckets |
| `JwksCache` | OIDC keys | staleness is bounded; lookups return |
| `CertificateIssuance` | a call of `IssueCertificate`, policy cache, counters | issued as the policy says, from one package, within limits |
| `ServerLifecycle` | main, server, monitor, hook of one process | used by `EnclaveInstance` |
| `EnclaveWatcher` | the watcher script under systemd | given up only after five failures |
| `EnclaveInstance` | the two together: a host and the process in its enclave | health, shutdown, an instance is healthy or replaced |
| `ByteFifo`, `ProxyBuffer` | the chained buffer, and the queue it implements | pointers and sizes under overlapping use |
| `ProxyBridge` | one proxy session | bytes intact, ends behind data, release |
| `SessionPool` | a vendor's pool for one application | serial filling, one owner, draining |
| `AcceptorPool` | the acceptors that bridges share, with the two locks | pointers stay valid, one acceptor per port |
| `PreloadSocket` | one socket of an application | payload, mode and registration kept |
| `ProxifyStartup` | proxify and vendors starting and dying | the path belongs to the living vendor |
| `DevkitImages` | commands of several workspaces on one Docker daemon | an image is what its tag says; cleaners spare their own workspace; commands end |

The `MC...` modules give constants that a configuration file cannot write, and
bounds. `RootKeyBackupProofs`, `RootKeyBackupSafetyProofs`,
`RootKeyBackupLockProofs`, `RootKeyBackupRefinement`,
`CertificateIssuanceProofs`, `JwksCacheProofs` and `DevkitImagesProofs` hold the
proofs, and so does `AcceptorPool`. An operator whose comment begins
with "Mutant" is a plausible fault of the definition after it. It is not part
of the specification; putting it in the definition's place makes TLC find the
property that `PROJECT.json` names violated.

### Root keys and their backups

In `RootKeyBackup` one action is one remote call with the local computation
behind it, so a crash, another instance or a late request comes between any
two calls. `store` holds, for every epoch and artifact, the key the artifact
belongs to; `lock` holds the instance named in the lock object. A call may fail
before or after it took effect (`latePuts`, `lateLocks` and `lateUnlock` are
requests still on their way), a put may be answered with 412 because the SDK
repeated one that had worked, and a repeated put or delete of the lock may take
effect once more after the first was reported successful. As the delete has no
condition on the owner, such a late one may take the lock from another instance
at work; the history variable `strayed` records that it did. The operator removes an abandoned lock,
deletes a half-written backup and deploys configurations. `OperatorCareful`
says whether the operator first makes sure that nobody is under the lock.

`Load` is one step here, because completed backups are final (proved as
`CompletedStays`), so the GETs of an epoch see one version. `TrustReload` drops
that argument. There an operator loses, restores and replaces objects at any
moment, and the two listings and the four GETs are steps of their own. The
content of an object is its version and its ETag the same. A handle whose read
raced with an upload holds other content than its listing's ETags stand for
(`Torn`), and is used again when the operator puts back, byte for byte, what was
listed. `QuietReloadIsExact` and `RepairTakesEffect` say what is published then
(`Kept`): the memo, until the ETags change.

`BackupSealer` opens up what the other two take as given, that a backup opens
only when its artifacts were sealed together. Encryption is by what it binds: a
private key opens under the data key it was encrypted with and under the
associated data, or with none for backups of the old format. For those the
attestation document is not bound, as the code's comment says, and
`UnsealedTogether` leaves it out. The NSM driver may hand out any free
descriptor, 0 included. `close` tests `fd > 0`, so `DescriptorReleased` excepts
descriptor 0.

### An instance

`ServerLifecycle` has the threads of one process: `main`, the server's own, the
monitor, the reporter and the shutdown hook. `EnclaveWatcher` has the script,
systemd and the allocator. `EnclaveInstance` extends the second and instantiates
the first: while `enclave` holds the process takes its steps, a new enclave
begins with a new process, and a process that has halted ends its enclave,
because it is the enclave's command (`container.bzl`). The watcher sees no more
of the process than that.

`main` may throw at any point before the server runs (`MainFails`): before the
first service is started that ends the process, afterwards their threads keep it
alive. The unit sets no start limit, so systemd's default holds, five starts in
ten seconds (`StartLimit`). Time is abstracted to `burst`: a script that slept or
waited before it ended has used up the interval (`EndsSlowly`), any other may
have (`EndsQuickly`). The role and the tags that `check_permissions` asks for are
the variable `permitted`.

### Issuing certificates

A call of `CertificateIssuance` goes through the early returns of
`issueCertificate` in their order and stops where it waits: for the trust
package, for the policy file, for time. Cryptographic checks are verdicts in
the request record. AWS and GCP evidence throw in `getRawBinaryEndorsement`, so
such calls end there, as in the code. Signing may fail with SIGNING_ERROR after
everything else went well. In `JwksCache` a load is two HTTP
exchanges, and another thread that needs the entry waits for it, as Caffeine's
`get` does.

### The enclave's network

A session of `ProxyBridge` runs on a strand: one handler at a time, while kernel
and peers go on. Each asynchronous operation is pending, then done, then
handled. The content of handshake messages is left open, so every branch of
`Proceed` that the bridge's callbacks can reach occurs; the cases kResponse and
kWait* are never entered from a read and are left out. Buffers are sequences
here, and `ProxyBuffer` shows that the chained blocks implement `ByteFifo`.
In `SessionPool` a handler is two steps, the load of `stop_` and the rest, as
handlers run on four threads, and `Handle1stResp` has two more: it looks at the
size of the pool (`LooksAtSize`) and appends to it (`AppendsSlot`) when the next
read, and so the next handler of the slot, is already under way. Two threads can
thereby come to append to the same vector. What follows is undefined, and the
model ends there (`raced`). `PreloadSocket` follows one socket of an
application that is a client or a server, blocking or event-driven. The
applications use a socket the way libraries do: after a call has failed they
give it up, except for an `accept4` that found no descriptor free. `recvmsg` has
then taken the message without its socket, and that connection is lost.

`AcceptorPool` has one step for each acquisition of a lock and one for what is
done under it, so another bridge may insert a port between a bridge's lookup
and its own insertion. It is treated by proof alone, for any number of bridges
and ports. For port 0 `GetAcceptor` takes what `BindListen` returns for a port,
0 after a failure included, and the model does the same.

### The development kit

`DevkitImages` follows a command through `build.py` (hash a Dockerfile, inspect
the daemon, look in the registry, pull, or build and push, image by image in
the order of `deps.json`) and through `docker_run.py` with its two threads: the
listener of `container_event_handler.py` and the cleaner of
`docker_cleanup.py`. A tag is the set of Dockerfile versions that were hashed
into it, an image the set of versions it was made from, so that "the image is
what its tag says" is an equation. The repository keeps five copies of the
scripts; the map names those in `src/.devkit`. `build.py` and
`docker_cleanup.py` are the same in all five. In `mbs/api`, `docker_run.py` and
`container_event_handler.py` add mounts and a metric, which leaves the modelled
control as it is. A command is `build_and_run` ("run"), `build.py` alone ("build")
or with `--no-cache` ("rebuild"). A `docker` command that fails, a signal at any
step and an edited Dockerfile come between any two steps. A cleaner reads the
Dockerfiles of its workspace one after the other (`CalculateTag`, `seen`), and
the listener may end with an error of its socket. A `docker rmi` that
outlives its process is carried out later (`LateRemoval`).

Two history variables name the exceptions of its properties. `torn` holds the
tags whose Dockerfile changed between its hashing and its build, for which
`build.py` has no provision. `stale` holds the commands whose cleaner failed to
work out the tags of its workspace, which then removes without exceptions, or
of which a Dockerfile changed after it was read.

## 3. What the runs show

A run checks the properties that `PROJECT.json` lists for it; the comment above
each property says what it states. Properties that describe one state together
(a type invariant and what depends on it) are conjuncts of one invariant.

| Run | Properties | Shows | Bounds | States |
|---|---|---|---|---|
| `backup` | `BackupInvariant`, `NoMixedBackup`, `SuccessMeansServing`, `ImplementsKeyRegistry`, `EventuallyServing` | the lock excludes and half-written backups keep it (unless `strayed`), success means serving, all of it implements `KeyRegistry`, and every instance serves for good in the end | 2 instances, 2 epochs, 3 keys, 1 failure or 1 deployment, both when the failure is a late delete of the lock | 378,433 |
| `reload` | `PackageInvariant`, `QuietReloadIsExact`, `RepairTakesEffect` | packages are whole, an undisturbed reload is exact, repairs take effect, up to torn handles | 2 epochs, a cross-signed pair, 3 versions that may be put back, 3 changes of which 1 may be a failure | 178,683 |
| `sealer` | `SealerInvariant`, `WholeIsNotBlamed` | mixed artifacts are refused, whole ones open, descriptors are closed | 3 bundles, one of the old format, descriptors 0, 3 and 4, 2 edits, 1 failure | 604,554 |
| `jwks_cache` | `TypeOK`, `RotationIsSeen`, `WithdrawalIsSeen`, `LookupReturns` | new and withdrawn keys are noticed in time, lookups return | 2 threads, max-age 0 or 3, refresh interval 1, 3 ticks | 210,788 |
| `issuance` | `SharedInvariant`, `IssuedByPolicy`, `ChainFromOnePackage`, `ValidityIsBounded`, `EditTakesEffect` | every path of a call, with packages, files and time changing under it | 2 calls, 2 clients, 4 ticks | 286,583 |
| `instance` | `InstanceInvariant`, `GivenUpAfterLimit`, `NeverHealthyAgain`, `HealthyOrReplaced` | healthy means able to sign; in the end an instance is healthy or given up, with four exceptions | both limits 5, 1 failing command, 2 outside changes, 1 failing iteration per process | 751,076 |
| `buffer` | `RepresentationOK`, `ImplementsFifo` | overlapping reserve and drain keep pointers and sizes right, and make a FIFO | blocks of 3 bytes, 6 bytes, reservations up to 4 | 12,170 |
| `bridge` | `SessionInvariant`, `StreamsIntact`, `EndIsForwarded`, `EventuallyReleased` | streams intact and in order, ended behind their data; buffers bounded; sessions released | 5 bytes from the client, 4 from the destination, buffer limit 2, reads up to 2 | 262,603 |
| `session_pool` | `PoolInvariant`, `StopDrains`, `PoolFills` | the pool fills serially, vends each connection once and drains; appends race only while it is being filled | 3 slots, 2 connections or 1 and an error | 185,625 |
| `preload` | `SocketInvariant`, `CallReturns`, `ConnectionsAreAccepted` | payload, mode and registration are kept, calls return, connections are accepted | every reply length and segmentation, 2 connections, 1 failure | 4,362 |
| `proxify` | `StartupInvariant`, `VendorServes` | one vendor owns the path, a later one serves every application, `resolv.conf` is there or about to be | 3 processes, 1 death | 31,212 |
| `devkit` | `ContentAddressed`, `OwnImagesStay`, `CommandEnds` | tags tell the truth, cleaners spare their own images, commands end | 2 workspaces with a command each, an image on another, 1 edit, failure or rebuild | 222,151 |

### What the code does not provide for

Writing the models from the code showed these places, where it departs from its
comments or from what a reader would expect. The models follow the code, and
where a property would fail there its comment names the exception.

- `client_session_pool.cc:244`: "Hydrate the rest of the pool, serially" (line
  173) holds unless the last slot goes through a second round, on an inbound
  connection or after an error, before `Start` or its own first handler has
  appended the next one; then two threads append to the vector.
  `RacesOnlyWhileFilling` says that nothing else leads there; `StopDrains` and
  `PoolFills` are about the behaviours without it.
- `S3BackupWriter.java:90`: the lock is deleted without a condition on its owner,
  so a delete that is applied late may free the lock of another instance. The
  backups stay whole, as the conditional puts alone ensure; `LockExclusion` and
  `HalfWrittenKeepsLock` hold until then (`strayed`).
- `S3BackupStorage.java:238`: handles are kept by the ETags of the listing, not
  of what was read (`Torn`, above).
- `NitroSecurityModule.java:87`: descriptor 0 is never closed.
- `enclave.service:14`: without a start limit of its own the unit is given up by
  systemd when the script ends quickly several times, for want of a role or a
  tag; the instance is then neither running nor Unhealthy. A `main` that throws
  ends, or leaves without a server, an enclave that counted as started. The four
  exceptions of `HealthyOrReplaced` are these; each is needed.
- `preload.cc:513`: `bind` puts another file behind the descriptor, so a server
  that registered its socket with epoll before `bind` hears of no connection
  (`LosesRegistration`), unlike a client, which `epoll_ctl` converts for this
  reason.
- `preload.cc:645`: `flags | SOCK_CLOEXEC` and `flags | SOCK_NONBLOCK` are
  always true, so every accepted socket is non-blocking.
- `socks5_state.cc:330`: `ConnectionSucceed` reports success when its final
  response could not be written; the session then ends at the first read.
- `OidcJwksKeyFetcher.java:118`: a second thread that decided on the old key set
  invalidates the one the first thread has just fetched, inside the minimum
  refresh interval. `RotationIsSeen` holds nevertheless.
- `AeadSelfSignedBundleBackupSealer.java:105`: a damaged data key surfaces as an
  error of KMS, not as the `BackupCorruptedException` whose comment
  (`BackupCorruptedException.java:20`) covers it.
- `proxify.cc:93`: two proxify that both find no usable `resolv.conf` may remove
  each other's.
- `build.py:681`: the tag is a hash of the Dockerfile as it was read, and the
  build reads the file again, so an edit in between puts another image under the
  tag, which is then pushed (`torn`).
- `enclave_watcher.sh:219`: the allocator is started, not restarted, so a larger
  value in its file does not take effect while it runs.

### Why the bounds are enough

Two instances are the smallest number that can race for the lock, and one
failure is enough for a crash, an ambiguous or a late request at every step.
Three versions of an object let one be lost, replaced and damaged within a
reload. A clock of three ticks passes the longer max-age, and the shorter one
expires at once. Two calls can differ in client, policy and moment, and the last
free place of the approved set is contended by both. Five starts are counted
because the script's limit is five, and so is systemd's. The buffer's blocks are shorter than the
largest reservation, so reservations fill, span and straddle blocks. Four bytes
from the destination are more than the proxy may buffer, so that reading has to
stop and to start again, and the fifth byte of
the client is behind the shorter handshake, which has four. Two workspaces
suffice for one to remove what the other builds on, and two images for a base to
be torn below another.
For the modules of section 4 the theorems remove the bounds altogether.

The bounds on failures, edits and deployments are guards named `Max...`. `Bound`
is a state constraint, `OneDisturbance` an action constraint. In the runs with liveness they leave
out only steps that nothing obliges to happen (failures, edits, deployments,
arrivals, the start of a rebuild), so they take no fair behaviour away from the
rest. `Bound` of `MCCertificateIssuance`, a run without liveness, keeps apart
the ways in which packages, files and time change.

Symmetry is declared only in runs that check no liveness.

### Deadlock

TLC checks for deadlock wherever the configuration does not turn it off. It is
off where the system may stop: a bridge whose session is released, a pool that
has drained, calls that have been answered, an instance that was given up, an
application or vendor that has ended, commands that are done.

### Fairness

- `RootKeyBackup`: weak fairness of each instance's next step, as the monitor
  is rescheduled every two minutes and each SDK call returns or throws.
  `AttendedSpec` adds that late requests land and that the operator acts, which
  `DefaultCertificateGenerator` requires in its comment on the lock.
- `DevkitImages`: weak fairness of a command's main thread, which waits only for
  `docker` commands and, with a timeout, for its threads. Nothing is assumed of
  the threads, the container, the entrypoint or the user.
- `TrustReload`, `ProxifyStartup`: weak fairness of the program's own threads
  and processes, none for failures, signals or operators.
- `EnclaveInstance`: weak fairness of the script, which systemd restarts, and of
  each thread of the process while its enclave runs; the schedulers of Guava run
  their services again and again.
- `JwksCache`: strong fairness of a thread's step. A thread that waits for the
  entry is enabled again and again between loads, and Caffeine does not starve
  it; the two HTTP requests end by their timeout, which gives weak fairness.
- `ProxyBridge`: weak fairness of all handlers and completions together: while
  one is ready, some step is taken. No order among them is assumed, and nothing
  of the peers but that they read.
- `SessionPool`, `PreloadSocket`: weak fairness of handlers, of operations the
  kernel can complete, and of answers by the project's own proxy and vendor.
  Peers and applications owe nothing.

## 4. What is proved

TLAPS proves the following for any sets of instances, epochs, keys, threads,
calls, clients, commands and so on, and any number of failures, edits and
deployments.

| Module | Theorem | Statement |
|---|---|---|
| `RootKeyBackupProofs` | `TypeCorrect` | `Spec => []TypeOK` |
| `RootKeyBackupSafetyProofs` | `NeverMixed` | `Spec => []NoMixedBackup` |
| | `SentinelHolds` | `Spec => []NeverIncomplete` |
| | `CompletedStays` | `Spec => CompletedIsFinal` |
| | `ActiveBackedUp` | `Spec => []ActiveKeysAreBackedUp` |
| | `ServingKept` | `Spec => ServingIsKept` |
| | `SuccessServes` | `Spec => []SuccessMeansServing` |
| `RootKeyBackupLockProofs` | `LockIsExclusive` | `Spec => []LockExclusion` |
| | `HalfWrittenIsLocked` | `Spec => []HalfWrittenKeepsLock` |
| | `BackupIsGuarded` | `Spec => []BackupInvariant` |
| `RootKeyBackupRefinement` | `Refinement` | `Spec => ImplementsKeyRegistry` |
| `JwksCacheProofs` | `RotatedKeysAreSeen` | `Spec => RotationIsSeen` |
| | `WithdrawnKeysExpire` | `Spec => WithdrawalIsSeen` |
| `CertificateIssuanceProofs` | `ChainsAreFromOnePackage` | `Spec => []ChainFromOnePackage` |
| | `CertificatesExpireInTime` | `Spec => []ValidityIsBounded` |
| | `CertificatesFollowPolicy` | `Spec => []IssuedByPolicy` |
| | `EditsTakeEffect` | `Spec => EditTakesEffect` |
| `AcceptorPool` | `PoolIsSafe` | `Spec => [](PointersStayValid /\ OneAcceptorPerPort)` |
| `DevkitImagesProofs` | `ImagesAreWhatTheirTagsSay` | `Spec => []ContentAddressed` |
| | `CleanersSpareTheirWorkspace` | `Spec => OwnImagesStay` |

`NeverIncomplete`, `CompletedIsFinal`, `ActiveKeysAreBackedUp`, `ServingIsKept`
and the two of `AcceptorPool` are left to the proofs; the others are checked by
a run as well, `LockExclusion`, `HalfWrittenKeepsLock` and `TypeOK` of
`RootKeyBackup` as conjuncts of `BackupInvariant`.

### Assumptions

- `RootKeyBackup` (`ConstantsAssumption`): epochs are natural numbers with 0
  among them, `None` is none of the objects, and a configuration's active epochs
  are not empty and are defined. The lock's theorems assume a careful operator.
- `JwksCache` (`JwksAssumption`): times are natural numbers, there is a max-age,
  and `None` is no result. The model itself lets a provider use a key identifier
  only once: one that is withdrawn does not come back.
- `CertificateIssuance` (`IssuanceAssumption`): times are numbers, a package has
  a root (`TrustPackageService` never activates one without), and a request
  comes from a known client.
- `DevkitImages` (`DevkitAssumption`): `deps.json` has no cycle, stated as
  `Needs` being the closure of `Base`.
- `AcceptorPool` has none.

### Root keys

Types need one more fact, `WriterOK`: an instance that puts
artifacts has a bundle that was used and an epoch that was missing, one that is
about to generate has a missing epoch, and elsewhere nothing is counted as
written. The backups need `StoreInv`, which adds three facts:

- `StoreOrdered`: before an artifact in the write order all earlier ones of the
  same bundle were stored, so an epoch holds a prefix of one bundle;
- `WritersOwn`: the artifacts an instance has counted as written are stored as
  those of its bundle;
- `LateOwn`: a put still on its way belongs to a bundle whose earlier artifacts
  are stored.

`NoMixedBackup` alone is not inductive: a put that lands late, into an epoch
that was cleaned up, would break it. `LateOwn` excludes that, together with the
condition of a clean-up, that the epoch is partly written and nothing is on its
way. From `StoreInv` follow the sentinel, finality and, with the keys an
instance has loaded, the backing of keys in use. None of these uses the lock,
which is why they hold for a careless operator and after a stray delete too. The
lock's own theorems use `LockInv` and assume a careful operator and that no
delete has strayed: whoever is between lock and unlock owns the lock, with no put
on its way and no partly written epoch but the one it writes; and a free lock
means that there is no late put and no partly written epoch. A delete on its way
may land at any moment; either it finds the lock unused, which keeps `LockInv`,
or it strays, and it does so for good (`StraysForGood`). `Refinement` shows that a put of a
certificate is `Publish`, that `Load` is `Load`, that a crash is `Restart`, and
that every other step stutters.

### Key cache

That a key set is no older than its max-age is not inductive. `IInv` adds where
the data come from: what a load holds reflects the keys published at some moment
since it began, a load is no older than the timeout, so what is cached or in a
thread's hands differs from what is published only by changes later than its
stamp less the timeout (`DataOK`), and a thread that has invalidated the entry
reads only what was fetched since its own call began (`CallOK`). The last fact
makes `RotationIsSeen` hold although a second thread may discard what the first
has just fetched.

### Issuance

A call is several steps, and packages, files and time change in between. `IInv`
has two halves. `CallsOK` says what a call at each point has already
established, in terms of what it holds and not of what is current: its trust
domain, root and cross-signed certificates are those of one package, its policy
is one of a file that names the caller, and its time window was computed from
its own endorsement and policy. `FilesOK` says of every file that is being
fetched or is cached that it is the one in the bucket or was read before the
last edit, and how long ago. With the arithmetic of `TooOld` it gives
`EditsTakeEffect`; the other three theorems follow from `CallsOK` alone.

### Acceptor pool

`IInv` adds to the two properties that acceptors are numbered as they were made
and that all but the one kept for port 0 listen. A pointer survives an insertion
because `try_emplace`, under the exclusive lock, leaves a port alone that another
bridge has inserted since the lookup, and because the kernel gives no listening
port to a bridge that asks for any.

### Development kit

`ContentAddressed` needs to know what is in a build's hands: `HashedOK`, that
everything below an image has been hashed before the image is managed, and
`BuildingOK`, that the context of a running build agrees with what was hashed
except for the image's own Dockerfile, unless something below was torn. The own
Dockerfile is compared when the build ends, which is where `torn` grows.
Pulling, pushing and running copy an image under its own tag, and removing
leaves none. `OwnImagesStay` needs `CandidatesOK`: from the moment a cleaner has
subtracted the tags of its workspace, its candidates contain none of them, as
long as the Dockerfiles stay as they are; the orphaned removal holds a subset.
`SeenOK` carries that from the reading of a Dockerfile to the subtraction: what
was read is what the workspace holds, unless the command is stale.

### Only model-checked

All liveness, as it rests on fairness and ENABLED; the safety properties of
`TrustReload`, `BackupSealer`, `EnclaveInstance`, `ProxyBuffer`, `ProxyBridge`,
`SessionPool`, `PreloadSocket` and `ProxifyStartup`; and `SharedInvariant` of
`CertificateIssuance`. The functions that `TrustReload` and `ProxyBuffer`
compute over data (`Reach`, the folds of the buffer) would need induction over
data, which the installed provers cannot instantiate.

## 5. What is not modelled

- Bytes: encodings, encryption, certificate extensions and JSON, except where a
  property tells contents apart.
- Metrics other than the approved clients, logging, tracing.
- Start-up configuration of the server, dependency injection, the dummy trust
  package, image set-up scripts, message definitions, Bazel rules.
- In the session pool, a backlog below 2 and what follows two threads
  that append to the vector at once, which are undefined behaviour.
- The free list of the proxy's blocks (`freelist.h`), one atomic operation at a
  time. The proxy creates its buffers without a shared list, so nothing else
  here reaches it, and `ProxyBuffer` takes a block in one step. With a shared
  list its exchange of the head is safe only while a single thread takes blocks.
- In the development kit, the reports, the set-up of a project and the checks of
  a commit: single-threaded scripts that turn files into other files or print
  them, with nothing kept between two runs. Of the images and containers,
  argument parsing, logging and the mounts and ports of a container.
- systemd, nitro-cli, boost::asio, Caffeine, S3, KMS and the kernel are modelled
  from how the code uses them and marked external.

## 6. Plan

1. The free list: one owner per block with one thread that takes and any number
   that give back. The acceptor pool as part of a composition with the session's
   bind.
2. A composition of preload library, vendor, proxy and acceptor pool: a listener
   in the enclave receives each inbound connection exactly once.
3. Certificate contents as an algorithm: SPIFFE id, name constraints, basic
   constraints and key usage from a policy (`certsigning`, `PolicyV2Mapper`),
   against a reference definition of the names a chain admits.
4. The verifiers for AWS, GCP and Oak evidence as decision procedures, and the
   endorsement's claims.
5. Address conversion in `protocol.cc` and the byte layout of SOCKS5 messages,
   both ways.
6. A composition of lifecycle, reload and issuance: a call that a healthy server
   accepts is signed by a package that was active during the call.
7. Proofs: `ServerKeepsPath` of `ProxifyStartup`, `UnsealedTogether` of
   `BackupSealer`, `PackageIsWhole` of `TrustReload`, `InboundHasOneOwner` and
   `SendsOpenSocket` of `SessionPool`, `GivenUpAfterLimit` of `EnclaveWatcher`,
   and `ProxyBuffer` as an implementation of `ByteFifo`.
