# Verification of go-tangra-common

TLA+ models of this library's components, the TLC runs that check them on small
instances, and TLAPS proofs of all their safety properties, and of one refinement, for
instances of any size.

## The system

go-tangra-common is the library every Tangra module links: it provisions the
module's certificates, registers the module with the admin gateway, lets it
publish events inside the process, backs its tables up and restores them, and, in
the admin itself, routes HTTP requests to the modules that have registered.

| Part | Source | State | Operations | What is hard |
|---|---|---|---|---|
| Event bus | `eventbus/eventbus.go`, `handler.go` | handlers and once handlers per event type, `closed`, one `RWMutex` | Subscribe(Async), SubscribeOnce, Unsubscribe, Publish(Async), Close, two queries | handlers run under the read lock; Publish swaps it for the write lock to delete once handlers; handlers call the bus, panic, or run on goroutines of their own |
| Bus manager, middleware | `eventbus/manager.go`, `middleware.go` | named buses, a lock | GetBus, Publish to one or all, Close; Timeout, Retry, Recovery | locks held over other locks; handlers that outlive their timeout |
| Registration | `registration/` | client, connection, stop channel; three goroutines | Register with retries, heartbeat loop, Stop | Stop races the goroutine that creates the client; lost and late RPCs |
| Certificates | `cert/` | six files in a directory; the pin; the clock | Ensure, CheckLocalCert, BootstrapCertificates, GetServerTLSConfig | crashes between writes, failure between the two RPCs, CA rotation, renewal window |
| Router, transcoder | `gateway/` | module id to handler, module id to connection (two `sync.Map`s) | registry events, LoadExistingModules, Handle, Close | no lock spans the two maps; requests use what they looked up earlier |
| Transcoding | `gateway/transcoder/` | parsed descriptors | Parse, FindMethodByHTTP, BuildRequest, InjectTenantID, TransformResponse, writeAuditLog | ties between patterns and parameters, resolved in map order; several names for one field; sizes of integers; bodies that break off; every return has to leave a true audit entry |
| SQL dump engine | `backup/sqldump/` | an archive, the module's tables and their sequences | Dump, Restore (merge or full sync) | both run while the module writes; tables are copied one by one; foreign keys are switched off; sequences are outside of the transaction; cut archives |
| Entity backups | `backup/*.go` | an archive | SetEntities, Pack, Unpack, Validate, RunMigrations, AddResult | a migration that fails half way and is run again; JSON through `map[string]any` |
| Middleware, gRPC helpers | `middleware/`, `grpcx/`, `metrics/middleware.go` | the connection and its credentials; the audit writers; the counter | DialModule, mTLS identity, signed claims, module secret, audit, metrics | credentials read while they are written, and kept; certificates and claims that expire under way; order of the decisions; writers that fail |
| Encryption | `crypto/` | one global encryptor per process | InitGlobalEncryptor, EncryptIfNeeded, DecryptIfNeeded, the payload functions | initialised once, for good; processes with different keys share what is stored |
| Utilities | `utils/`, `metrics/metrics.go`, `viewer/`, `task/`, `service/`, `eventbus/event*.go` | none | | |

The parts meet in a module's life: `cert.Ensure` runs at boot, then
`StartRegistration` tells the admin; the admin's registry turns that into an event
for `DynamicRouter`, which dials the module. `CallChain` composes what both ends of
a call do with the certificates, the metadata and the log. Elsewhere a model treats
the next part as external and lets it do anything the code allows.

## Modules

| Module | Models | Used by |
|---|---|---|
| `RWMutex` | Go's `sync.RWMutex` (external), with its preference for waiting writers | `EventBus` |
| `EventBus` | `DefaultEventBus` and `AsyncHandler` | `MCEventBus`, `EventBusProofs` |
| `MCEventBus` | the constants of the bus runs | `bus_*` |
| `EventBusProofs` | theorems about `EventBus` | |
| `Registration` | `RegistrationHelper`, `Client` | `MCControl`, `RegistrationProofs` |
| `RegistrationProofs` | theorems about `Registration` | |
| `CertEnsure` | `cert.Ensure` and its helpers, `BootstrapCertificates` | `MCLibrary`, `CertEnsureProofs` |
| `CertEnsureProofs` | theorems about `CertEnsure` | |
| `Gateway` | `DynamicRouter` over `Transcoder`: maps, goroutines, life of a request | `MCControl`, `GatewayProofs` |
| `GatewayProofs` | theorems about `Gateway` | |
| `MCControl` | both sides of the registry: `Registration` or `Gateway` | `control` |
| `RouteMatch` | descriptor_parser.go: Parse, MatchPath, FindMethodByHTTP (operators) | `Transcode` |
| `RequestBuilder` | request_builder.go: names, kinds, bodies (operators) | `Transcode` |
| `Transcode` | `Transcoder.Handle` on one request, with BuildRequest's loops; response_transformer.go | `MCTranscode`, `TranscodeProofs` |
| `TranscodeProofs` | theorems about `Transcode` | |
| `MCTranscode` | two message types, fifteen methods, the requests | `transcode` |
| `ClientTLS` | the three ways to pick a caller's credentials (operators) | `CallChain` |
| `PeerIdentity` | the mTLS middleware's decisions (operators) | `CallChain` |
| `Claims` | claims: signing, verifying, stripping, reading; the module secret (operators) | `CallChain` |
| `AuditLog` | the audit entry, its hash, signature and DER form (operators) | `CallChain` |
| `CallChain` | dialling, handshake and a call through the server's middleware | `MCCallChain`, `CallChainProofs` |
| `CallChainProofs` | theorems about `CallChain` | |
| `MCCallChain` | ten deployments, four certificates, seven sets of metadata | `callchain` |
| `BusManager` | `Manager`; Chain, Timeout, Retry, Recovery | `MCBusManager`, `BusManagerProofs` |
| `BusManagerProofs` | theorems about `BusManager` | |
| `MCBusManager` | two orders of the middlewares, and the README's | `busmanager`, `bus_recovery` |
| `Archive` | entity archives, migrations, import | `MCLibrary`, `StorageProofs` |
| `Payloads` | the global encryptor, payloads and values | `MCLibrary`, `StorageProofs` |
| `MCLibrary` | a schema of three versions, payloads; the three packages side by side | `library`, `payload_failed` |
| `AtomicRestore` | what `Engine.Restore` promises (abstract) | `SqlDump` |
| `SqlDump` | `Engine.Dump` and `Engine.Restore` | `sqldump`, `sqldump_cut`, `StorageProofs` |
| `StorageProofs` | theorems about `SqlDump`, `Archive` and `Payloads` | |

Definitions whose comment begins with `MUTANT` are faulty variants of the definition
below them. No specification uses them; replacing the definition by its variant must
break a property, which shows that the property depends on that part of the code.

### EventBus

One member of `Calls` is one activation of a method, from the call to the return.
`pc` says where it stands with respect to the lock. A step is what happens between
two operations on the lock, or between two handlers, which is where other goroutines
can come in. `RLockCall` and `LockCall` are the requests for the lock; a reader that
comes after a waiting writer parks until that writer has unlocked. `PublishBegin`
reads the two slices, `HandlerStart`, `HandlerReturn` and `HandlerPanic` run the
handlers, `PublishRan` drops the read lock, `PublishForget` deletes the type's once
handlers under the write lock, `PublishEnd` is the second read lock that the deferred
`RUnlock` needs. `NestedPublish` is a handler that calls Publish on its own bus and
waits. A handler that uses the bus from a goroutine of its own is just another client.
`Unsubscribe` compares what `%p` prints, so closures of one literal are the same
(`Ptr`), and an `AsyncHandler` wrapper never matches. Events carry no data, and
handlers' errors are only logged, so neither is in the state. `delivered`, `removed`,
`known` and `inGap` are history variables for the properties.

### Registration

`mode` is how the helper was started: without an endpoint, with `StartRegistration`,
which creates the client on its goroutine after three seconds, or with
`StartRegistrationWithClient`. An RPC is sent, executed by the admin and answered in
three steps. It may fail at any moment for the client, and then its request is lost
or still executed later (`late`). `ClientSeenByStop` is the data race on `h.client`:
Stop may read nil after it was set. gRPC's own retries are inside one RPC.

### CertEnsure

`disk` is the directory; a file is missing, torn (truncated and not yet written), or
holds a CA, a certificate for a numbered key, or a key. `Boot` is Ensure up to its
first RPC, `Sign` one SignModuleCertificate that succeeds, `Truncate` and `WriteRest`
the two halves of `os.WriteFile`, `Written` the way on to the client's certificate
and to `loadManager`. `Crash` may come at any step and also stands for a write that
fails. `LegacyBootstrap` writes the same files for whatever CA the LCM uses. The LCM
may change the CA it presents and the one it signs with independently; the
fingerprint in its answer is taken to be that of the CA in its answer, as the code
does. Issuing takes no time; days pass while the module is up or down.

### Gateway

The registry is external: its changes are numbered and reach `handleModuleEvent` one
after the other. `job` holds the two goroutines that change the maps, the registry's
callback and `LoadExistingModules`, each at one of the statements between which others
can come in. A request goes through the router's map, then the transcoder's, then
prepares and makes its call; all the answers Handle gives without a call are one
alternative of `Invoke`. `floor` records, per request, the last event that had been
applied when it came in; `raced`, `superseded`, `taken` and `handled` are history too.

### Transcoding

`RouteMatch` and `RequestBuilder` are operators. A path is a sequence of segments, a
pattern a sequence of literals and variables, a text a sequence of the tokens that
commas separate, and a message a function from its fields to values. Where the code
ranges over a Go map the operator returns the set of possible results
(`FindMethodByHTTP`, `Parse`); BuildRequest's two loops are actions of `Transcode`, a
turn each, which may take any of the names that are left (`left`).
Integers have their widths, scaled down to four and six bits. Case conversion, time
formats and the numbers themselves are tables (`Snake`, `Camel`, `Lexicon`); protojson
is external and modelled by what it accepts. Wrappers and timestamps are messages with
fields of their own, which a dotted name may go into (`Walk`) and a text for the wrapper
sets together (`Touches`, `Part`). A body that a rule binds to a field goes through
`map[string]interface{}` first (`reMarshal`): its bare numbers come out as float64. A
body is only read if its length is declared (`ReadBody`).

`Transcode` is Handle on one request after the other, from `Begin` to `End`, with one
action for each of its ways on and out: `NotFound`, `Find`, `Streaming`,
`BuildBody` (the body, or the error it gives), `SetPathParam` and `SetQueryParam` (the
turns of the loops), `InjectTenantID`, `InjectPanic`, `InvokeMethod`,
`TransformResponse`. Every return goes through `Return`, which answers and lets the
deferred function write the entry. Where the code takes a list or a map for a message,
on a dotted name, under a rule's body or as response_body, `Set` or `Message` panics
(`ParamPanics`, `BuildBody`, `TransformPanics`): there is no answer, and the entry
says 200.

### CallChain

The caller is a module (DialModule with its retries), the gateway (createConnection,
again at every registration) or the registration client (once). It takes its
credentials from `disk`, which `cert.Ensure` may be writing at that moment
(`WriteFile`: a file is truncated, then written); all failures to load end in an
insecure connection. The registration client takes the first directory, by name, that
has both files, and no other if these do not load (`scan`, `loadAdminClientTLS`). It is
also the only caller that presents the module secret (`Outgoing`). `Handshake` is
gRPC's, once per connection; a call that finds the connection not ready waits, and `Expires` with its deadline. On the server the call
passes `MTLS`, `ClaimsStep`, `Handle`, then back through `Audit` and `Metrics`;
`auditInside` is the order in which mTLS and audit were nested. Metadata keep their
values as sequences, since readers take the first one. A signature is a record of the
secret and what was signed; the DER encoding of `AuditLog` is over bytes of four bits.
Handlers may set the tenant in place; a handler that panics leaves no entry. Getters
and `UpdateTenantID`, which copies the record for the handler's own use, are left out.

### BusManager

A bus is reduced to what the manager's calls and the handlers' locks need: its lock,
`closed` and the number of its subscribers (`EventBus` has the rest). A Publish holds
its bus's read lock while the chain of middlewares runs. `StartWorker` is Timeout's
goroutine; `Timeout` gives it up, and it may go on for ever. Workers nobody waits for
are merged when they are alike. A handler returns, fails, panics, never comes back or
publishes (`NestedPublish`), on the global bus or through the manager. `Chain` wraps
the handler in the listed middlewares, the last one first, as the code does.

### Archive and Payloads

`Archive` follows one archive from the export to the import. A MigrateFunc is a
sequence of the package's helper calls and may fail before, between and after them;
RunMigrations is then called again on the same archive or on one freshly unpacked. A
value beyond 2^53 is rounded when it goes through `map[string]any`, a null item is a
nil map. `Meaning(k, v, n, item)` is what an item of version v is in the current schema
once n calls of v's function are made; a module's schema defines it, not its migrations.
`Payloads` has two processes, each with its own global encryptor, and one
stored task payload and value which both write and read; `MigrateTask` encrypts a
stored payload later on. The packages share no state, neither with each other nor with
`CertEnsure`: `MCLibrary` explores the three side by side in one run, not interleaved.

### SqlDump

`db` is what PostgreSQL has committed, a function from tables and keys to values, in
which row i of a table refers to row i of the table before. The statements of the
module (`App*`) commit one by one; INSERT draws its key first. `DumpBegin` takes the
snapshot, `DumpTable` copies one table out, `DumpCut` is an archive that ends before
its end, in the writing or in a transfer. Between the two operations the schema may
change (`Migrate`) or the archive may be taken to an empty database (`Reinstall`).
Restore goes through its tables in the manifest's order, one step per statement:
`Stage` (introspect, COPY into the staging table), `Upsert`, `DeleteRest` in full-sync
mode, `ResetSequences`; then `Extras` and `Commit`. `mine` and `draft` are the rows the
transaction has written, which others wait for; every statement sees the rows committed
by then and its own (`View`). `setval` changes `seq` at once. `Fail` stands for any
error at any statement, the one for a key of which the dump has only a part included.

Framing is reduced to its ends. COPY text, quoting and the manifest's JSON are left
out, and so are columns: what introspect finds is one of five `Kinds` per table.

`AtomicRestore` says what a caller may rely on: a restore that happens at one moment,
with a small allowance for what the module writes meanwhile, or not at all. `SqlDump`
instantiates it (`Abstract`); the mapping takes the committed rows, the archive's rows,
the tables that are applied, the mode and the outcome, and `calm` from the count of the
module's statements. `RestoreIsAtomic` is its specification, checked as a property.

## Runs

| Run | Expected | What it shows |
|---|---|---|
| `bus_safety` | pass | any four calls on one event type, two handlers that print alike and may publish themselves |
| `bus_liveness` | pass | any three calls on two types, handlers that leave the bus alone: every call returns |
| `bus_nested` | violation | a Publish from a handler never returns when a writer came in between |
| `bus_recovery` | violation | a handler's panic ends the process with Recovery first in the chain and Timeout after it |
| `control` | pass | the gateway: one module with three changes, one request, shutdown at any time; or the module: registration, heartbeat and stop with three attempts |
| `transcode` | pass | any two of fifteen methods in two services: routes, messages, answers, panics and audit entries |
| `callchain` | pass | two calls in ten deployments, while certificates are written and expire, claims expire, both ends restart and a writer fails |
| `busmanager` | pass | any three calls of the manager, handlers that hang, fail, panic or publish, two orders of the middlewares |
| `library` | pass | archives of two entity types over three schema versions with three attempts; payloads and values of two processes with two keys; certificates: boots over four days, two CAs, at most four keys |
| `payload_failed` | violation | a reader with another key gets an error and not the encrypted data |
| `sqldump` | pass | a dump and a restore of two tables of two keys around two statements of the module; the restore implements `AtomicRestore` |
| `sqldump_cut` | violation | an archive that ends between two chunks is restored as if it were whole |

The four violations are disagreements between the code and what its comments or READMEs
say; `PROJECT.json` quotes the lines under `findings`. `RecoveryRecovers` is what
`eventbus/README.md` promises of Recovery "first in the chain", checked for the chain it
shows; `FailuresReturnData` is what `crypto/README.md` says of decryption that fails. The
models also show these, which the properties below allow for:

* two Publish calls that overlap both run a handler of SubscribeOnce;
* a Stop before the registration goroutine has set its client does nothing, and the
  module registers afterwards;
* an Ensure that follows one which died between two writes is satisfied with the
  server's files, whatever became of the client's;
* UnregisterModule closes a connection under a call in flight;
* a query parameter under a field's other name overrides the path; an Int32Value is
  truncated; an integer beyond 2^53, in a body that a rule binds to a field, arrives as
  another number unless it is in quotes;
* a body without a Content-Length, such as a chunked one, is dropped and the module
  called without it; with the audit on, so can be a body that broke off;
* names, bodies and response bodies that meet a list or map of messages make Handle
  panic, as does a tenant_id that is no uint32; the audit entry says 200;
* a broken pair in a directory whose name sorts before `client` makes the registration
  client dial insecurely, although the files of Ensure are complete;
* a process without a key that reads a sealed value gets the ciphertext, without an
  error;
* a connection dialled while the directory is being written is insecure until the next
  dial (a server with mTLS then refuses it);
* with keys that the audit middleware generates, GetPublicKey gives none out;
* a second InitGlobalEncryptor returns nil after a first that failed, without effect.

### Properties

Event bus. `SnapshotStable`: while a Publish runs handlers the bus still holds what it
read, so Unsubscribe and Close have returned only when their handlers are no longer
called. `VisibleSubscribersCalled`: a Publish that returns nil called everyone who was
subscribed before, and still is. `OnceRetired`: once handlers that were called and
deleted do not come back. `OnceLostOnlyInGap`: the only once handlers deleted without
having been called are those subscribed between Publish's RUnlock and its Lock: the
code does lose those. `EveryCallReturns`: with handlers that do not use the bus, also
when they panic.

Registration. `HeartbeatMeansRegistered`, `CleanStop` (an acknowledged unregistration
is final, unless registration requests were still under way when Stop began),
`GoroutinesEnd`, `StopReturns`.

Certificates. `EnsureKeepsPin`: whenever Ensure succeeds, CA and server certificate are
the pin's and outside the renewal window. `IssueProvisions`: an Ensure that issues
repairs whatever it found. `OnlyMishapsDegrade`: without a crash or failure between
two steps, every boot is fully provisioned and gets its TLS configuration.

Gateway. `RoutesFollowRegistry`: when everything is applied, routes and registry agree.
`NoStaleRoute`: a request that came in after an event was applied does not go over an
older connection. `HandlerBacked`: a handler without a connection is only ever seen
with LoadExistingModules in the game. `OpenAccounted`: the only connections that leak
are those an update overwrote. `RequestsAnswered`. The first three exclude modules in
`raced`, that is those which LoadExistingModules registered from a List that an event
had overtaken: for these the code does bring back old routes.

Transcoding. `RouteNotShadowed`: no matching route of the module is more specific (as a
set of paths) than those of the method that was chosen, whatever the scores and the map
order. `MessageFaithful`: what the module is sent is what path, query, body and tenant
say, wherever the order of maps does not decide. The body counts if it came whole and
with its length, and a body without a length leaves nothing behind; an integer is one
the request has, below a field that the rule binds the body to the float64 next to one,
but for Int32Value and times. `AuditTruthful`: one entry per answer,
with its status, reason, method and request id.

Calls. `CompleteDirGivesTLS`: a dial of the gateway or of a module that finds the files of
Ensure complete uses TLS; one of the registration client does if `client` is the first
directory with both files. `ProtectedCallsAuthenticated`: a protected handler
runs only for a caller whose certificate was current at this call, trusted and allowed,
and is told who that is. `ClaimsBound`: under enforce the four claims are read as they
were signed together, or not at all, and the registration client's module secret
arrives. `CallsAccounted`: each call is in the log of every
writer that did not fail, with its outcome, caller and tenant. `EntriesVerifiable`:
with configured keys every entry verifies, across restarts and the DER encoding.

Bus manager. `ManagerCallsReturn`: with Timeout around them, handlers that hang or need
the manager's lock stop nobody, Close included. `CloseClosesAll`: after Close no bus of
the manager is open or in a handler that somebody waits for. `PanicContained`: where
Recovery comes after Timeout in the chain, no panic ends the process. `RecoveryRecovers`,
that none does in the order the README recommends, is violated.

Archives. `MigrationFaithful`: however often migrations failed and were repeated, an
archive that is ready holds every item, field by field what the current schema makes of
it (`Meaning`, a definition apart from the migrations), big integers rounded at most. It
holds for migrations whose calls can be repeated (`MigrationsAssumption`), as those of
the instance can: a rename to a name that an earlier call of the same function freed
could not. `RestoreTruthful`: a
result that says success means that every item is there.

Encryption. `NothingMisread`: a reader gets what was stored, an error or, without a key,
the stored string as it is; with a wrong key never something that passes for the text.
`SealedOnceKeyed`: a process that has a key stores nothing in the clear.
`FailuresReturnData`, that a reader who cannot decrypt gets the data as they are, is
violated.

SQL dump. `DumpConsistent`: a complete archive has no dangling reference, whatever the
module wrote between two COPYs. `RestoreIsAtomic`: at every moment the database is as it
was before the restore (but for the module's own writes) or as after it; the commit
brings back every row of the archive, a merge takes none away, and a full sync leaves
no other rows than those the module wrote meanwhile. `SequencesAhead`: after a committed
restore during which the module made no statement no sequence is behind its table. With
statements in between sequences move backwards past keys that were drawn, and a parent
can be deleted before the child comes back, since the restore checks no foreign key.
The code promises no more.

### Bounds

* Bus: calls are used once, so `Calls` bounds a behaviour. Losing or repeating a once
  handler takes three calls, a nested deadlock four (two Subscribe or a Subscribe and
  a Publish, the outer and the nested Publish); four leaves room for one bystander.
  One event type is enough where types do not interact; `bus_liveness` has two.
  Calls and handlers are symmetric in `bus_safety`, where no liveness is checked.
  `bus_safety` and `bus_nested` do not check for deadlock, since with handlers that
  publish the system really can lock up: that is what `bus_nested` shows.
* Registration: three attempts let a lost, a late and a successful one occur in one
  behaviour. `MaxRetries = 0` is left out: Register then returns nil without a call.
* Certificates: life three, window one and four days let a certificate be fresh, in
  the window and expired; four keys allow an Ensure cut short and a complete one, or
  the legacy bootstrap and an Ensure. Two CAs are the pinned one and another.
* Gateway: with one module, three changes after the initial one allow it to register,
  change, go and come back around one List. Module ids are independent keys of both
  maps; a second module only delays the goroutines.
* Transcoding: two methods make a tie or a shadowed route, two services a clash of short
  names. The methods have each form of pattern and of body; paths have up to three
  segments, which is more than any pattern has. Two patterns that match a path are
  compared on the paths of at most one segment more, over its segments and two others:
  that these tell whether one is more specific is what lemmas `LiteralsKept` and
  `WildcardKept` show. The message has a field of every sort, among them a wrapper, a time
  and a list of messages; numbers are there that fit 32 bits, 64 bits, neither, and that a
  float64 does not hold.
* Calls: two calls and two days let a connection outlive its certificate and a call its
  claims; two starts of the server change generated keys. The ten deployments have
  each setting of every option at least once, and directories before and after `client`.
* Bus manager: three calls are Close, a Publish that blocks it and the Publish of that
  one's handler, or a call that waits for Close. One named bus and the global one;
  `MaxBuses` allows a bus to be made again after Close.
* Library: three imports allow a failure on the archive at hand and one on a fresh one
  before the success. Two processes and two keys make every mixture of keys.
* SQL dump: two tables make one reference; two keys let an archive hold a part of a
  table and let a row be new, kept, changed and gone. Two statements of the module can
  both insert a parent and its child, which is what tears an archive without a snapshot.

`control` puts the two sides of the admin's registry into one run and `library` three
packages, which share no state: a behaviour is one of either's, so nothing of the
separate state spaces is lost and none of their product is explored.

`callchain`, `busmanager` and `library` do not check for deadlock: their calls, attempts
and restarts are bounded, and a behaviour ends when they are used up.

### Fairness

Only the event bus, registration, the gateway and the bus manager have liveness
properties. Goroutines that can run are run (weak fairness of their steps), handlers return, and
Go's mutex starves nobody. RegisterModule and Heartbeat have no deadline and wait for
the server to be ready, so they are only required to end once their connection is
closed. UnregisterModule and the gateway's calls have deadlines. No peer owes an
answer and nobody has to make a call, send a request or stop a module. In `BusManager` a
call's own steps and its timer are fair; handlers are not, so that a handler may hang
for ever.

## Proofs

Eight modules prove theorems of the specifications, for every value of the constants
that meets the named assumptions; TLC evaluates these for the runs' instances. Every
inductive invariant below was also checked by TLC. In each proof there is one step or
lemma per action, and lemmas that say what an action does to each variable
(`...Effect`) or that a step which leaves certain variables alone keeps the invariant
(`...Quiet`, `...Stays`).

Event bus (`EventBusProofs`; any `Calls`, `Types` and `Handlers`). Assumed: `None` is
no call, `Emits` and `Ptr` are functions on the handlers, there is a type and a
handler.

* `TypeCorrect`: `TypeOK` is inductive.
* `SnapshotSafe`: `SnapshotStable`. It needs to know that a Publish between
  `PublishBegin` and `PublishRan` holds the read lock (`Holding`). Then a step that
  writes the two maps needs `Exclusive`, so that there are no readers (`WriterStep`);
  every other step leaves the maps and the snapshot alone (`QuietStep`).
* `OnceSafe`: `OnceRetired`. A subscription on the bus was made by a call that has
  returned (`Registered`), and handlers are only called for such subscriptions
  (`DeliveredToRegistered`). So a once handler that is on the bus after a Publish
  deleted the type's list is a new one, which that Publish cannot have called.
* `NobodyPassedOver`: `VisibleSubscribersCalled`, from `CalledInv`: the loop of a Publish
  starts at the first handler (`AtFirst`) and has called those before the current one
  (`CalledSoFar`); whoever the Publish knew when it began is on the bus or was taken off
  until the loop has ended (`Waited`), and was called or taken off afterwards (`Served`).
* `OnceLossIsNarrow`: `OnceLostOnlyInGap`, from `LostInv`: what was taken off the bus had
  been put there by a call that is done (`Gone`), the regular lists hold no once handler
  (`RegularKept`), and what `PublishForget` will delete without having called it came in
  the gap between its two locks (`GapCovered`).

Registration (`RegistrationProofs`; any number of retries). `RegistrationInv` is
`RegTypeOK` with: each goroutine waits for its own RPC (`Awaited`), Unregister comes after
the stop channel was closed (`StopOrder`), until Stop an executed RegisterModule has its
entry (`Entered`), and a Stop that found Register done meets no RegisterModule any more
(`Removed`).

* `TypeCorrect`, `StopIsClean` (`CleanStop`), and `HeartbeatSafe`:
  `HeartbeatMeansRegistered` when a client makes at least one attempt. With zero
  retries Register returns nil without a call, and the property is false.

Certificates (`CertEnsureProofs`; any set of CAs, lifetimes, keys, and crashes at any
step). The files of one signing are a plan of which the disk holds the beginning and
`toWrite` the rest. `CertInv` is `CertTypeOK` with: what is being written is the end of such a
plan, for this boot's pin and date (`Writing`), and without a mishap the directory is
complete or was never written (`Unharmed`).

* `TypeCorrect`, `WithoutMishapProvisioned` (`OnlyMishapsDegrade`), and the action
  properties `PinKept` (`EnsureKeepsPin`) and `IssuedIsComplete` (`IssueProvisions`).

Gateway (`GatewayProofs`; any modules, requests and number of changes).

* `TypeCorrect`: `TypeOK`, strengthened by: no change has number 0 (`Shape`).
* `OnlyOverwrittenLeak`: `OpenAccounted`, with: the connection in a module's entry was
  dialled for it (`Owned`), so that the entry that replaces it supersedes it.
* `OrderInv` is what the three others rest on. Changes wait in the order of their
  numbers and are newer than the ones taken; only the events' goroutine unregisters; and
  whatever List returned, however long ago, is still waiting, is being applied or has
  been applied, with a number that no other change has (`Traced`).
* `NeverStale`: `NoStaleRoute`, from `FreshInv`: an entry is no older than the last event
  applied, nor than one that has just been stored or evicted, and what a request was let
  in for only gets older.
* `RoutedIsBacked`: `HandlerBacked`, from `BackInv`. The case to see is the loader that
  stores its handler between the events' `Delete` and `LoadAndDelete`. If no event has
  overtaken it, its own event is still in the queue (lemma `Ahead`), and will bring the
  connection.
* `RoutesFollow`: `RoutesFollowRegistry`, from `FollowInv`, which says for the
  registry's last change how much of it is in the maps while the goroutine is at each of
  its statements, and that the first ones are left to the loader. What the loader
  registers without racing is then that change itself (`LoaderCurrent`).

SQL dump (`StorageProofs`; any number of tables, keys and statements of the module).

* `TypeCorrect`.
* `DumpIsConsistent`: `DumpConsistent`, from `DumpInv`: the snapshot is consistent and
  the archive a growing part of it.
* `RestoreImplementsAtomic`: `Spec => RestoreIsAtomic`. `RestoreInv` says what the
  transaction holds of the tables it is done with; every statement of the module is then
  a write of the abstract module, the commit is the abstract restore, a failure the
  abstract failure, and everything else stutters.
* `SequencesStayAhead`: `SequencesAhead`, from `SequenceInv`. That a set of keys has a
  largest one is shown by well-founded induction over the numbers (`LargestKey`).

Libraries (`StorageProofs`; any processes, keys and payloads, any entities, versions and
attempts).

* `NeverMisread` (`NothingMisread`) and `AlwaysSealed` (`SealedOnceKeyed`), from
  `PayloadsInv`: what is stored is what was wanted, inside or outside of a seal.
* `SuccessIsTruthful`: `RestoreTruthful`, from `ArchiveInv`: an archive counts its
  items, and an import without an error has imported all but what is still to do.
* `MigrationsKeepMeaning`: `MigrationFaithful`, from `MigrationInv`. Assumed of a module's
  migrations is what each call does by itself: it takes an item from what it means after
  n - 1 calls to the same after n, it does not change what the item means to a function
  that begins again, and at a function's end the item means what it does in the next
  version (`MigrationsAssumption`, which TLC evaluates for every item of the run's fields
  and values). What RunMigrations makes of that is the theorem: every item in hand means
  the same to the function that goes on and to one that begins again (`ItemsKept`), in
  whatever phase, so that neither an error between two calls nor a second run, on the same
  archive or a fresh one, loses or repeats anything; and the version in the manifest is
  the one the items are in (`LoopFits`). Null items and arrays of something else than
  objects pass through or stop the run.
* `HelpersIdempotent`: a helper called again on what it made changes nothing, but for what
  JSON rounds. This is the part of the assumption that the library itself answers for.

Transcoding (`TranscodeProofs`; any descriptors, messages, requests and outcomes).
Assumed (`TranscodeAssumption`, `FieldsAssumption`): "**" is at the end of a pattern only,
as the grammar of google.api.http has it; a method's input is a known message; in a
message no two fields share a proto or a JSON name, as protoc enforces, and the fields of
the well-known types are the scalars they are.

* `MostSpecificFound`: `RouteNotShadowed`. A pattern whose paths are among those of another
  has all of the other's literals (`LiteralsKept`), and if it has a wildcard the other has
  one and is not longer (`WildcardKept`); so its score is higher (`SpecificityRanks`), and
  the method found has a route that nothing outscores (`FoundScoresBest`).
* `MessageSaysWhatWasAsked`: `MessageFaithful`, from `MessageInv`: after every turn of the
  loops each field is faithful to the parameters so far (`FieldFaithful`): to the query's
  if there are any, else to the path's, else to the body's, and its number is one that was
  written (`AsWritten`). A turn gives the field it names, and those inside it, one of its
  values (`ParsedPart`) and others none, but for messages created on the way (`SetByPath`,
  `TurnFaithful`). Those are never ones that a parameter has set before (`GivenIsSet`).
* `AuditSaysWhatWasSent`: `AuditTruthful`, from `AuditInv`: the metadata are there exactly
  from injectAuthContext on (`MetadataSent`), and each return gives a reason if and only
  if its status is not 200 (`ReturnTruthful`).

Bus manager (`BusManagerProofs`; any calls and names, any orders of the three
middlewares). Assumed: calls are numbers, an order is a permutation, the names are
finitely many and fewer than the buses there can be.

* `CloseIsFinal`: `CloseClosesAll`, from `ManagerInv`: who holds which lock where
  (`Held`), a closed bus stays closed and empty (`ClosedForGood`), and a worker a
  Publish waits for is on the bus of that Publish (`WorkersPlaced`).
* `InnerRecoveryContains`: `PanicContained`, from the order the middlewares have.

Calls (`CallChainProofs`; any deployments, certificates, operations and metadata, any
number of calls, retries and restarts). Assumed: only ModuleSecretInterceptor sets the
module secret, the registration client's scan is a sequence of directories, a module that
verifies claims has the gateway's secret (the only one whose signatures the properties
speak of), and the empty text is no uint32.

* `CompleteIsTLS` (the action property `CompleteDirGivesTLS`).
* `OnlyAuthenticated` (`ProtectedCallsAuthenticated`), from `AuthInv`: the handshake was
  made with the certificate the connection dials with (`Shaken`), and past the mTLS
  middleware the caller is who it says (`Authentic`).
* `ClaimsAreBound` (`ClaimsBound`), from `ClaimsInv`: until the claims middleware a call
  carries what its caller sent (`Sent`).
* `AllAccounted` (`CallsAccounted`), from `AccountInv`: what the audit middleware finds
  in the context is what the handler and mTLS left there (`Told`).
* `EntriesVerify`: `EntriesVerifiable`, provided that the pairs of a signature survive
  the DER encoding (`RoundTrips(Pairs)`).

Model-checked only:

* the liveness properties: liveness under fairness is out of the prover's reach;
* the round trip of the DER encoding, an induction over the bytes of a number (`Bytes`
  is a recursive function, `SetBytes` a fold): TLC evaluates it in `MCCallChain` for all
  pairs up to 63 with bytes of four bits.

## Not modelled

* generated protobuf code and its input, and what libraries do: ciphers, certificate
  parsing, protojson, gRPC's transport, PostgreSQL beyond its isolation levels;
* `eventbus/event.go` and `events.go` (records and names), the logging and metrics
  middlewares of the bus, ChainHandler and ConditionalHandler: no state and no decision;
* `BuildQueryString` and `TransformStreamingResponse`, which nothing calls;
* `utils/slice`, `viewer`, `task`, `service` and the metrics server: pure functions,
  constants, and an HTTP server around a library's handler;
* NewCertManager's resolution of paths, defaults, environment and assets: configuration;
* log messages, and the text of HTTP and JSON.
