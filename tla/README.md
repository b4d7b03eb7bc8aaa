# Verification of libbrowserid and its GSS mechanism

TLA+ models of the protocol state of libbrowserid (`src/libbrowserid`) and of the
GSS-API mechanism built on it (`src/mech_browserid`), with TLC configurations and
TLAPS proofs. File names below are relative to `src/`.

## 1. The system

An *initiator* (a user's process) authenticates to an *acceptor* (a service). The
initiator sends an assertion: the first time one that an identity provider's certificate
backs, later an *authenticator* signed with the key of a cached ticket. The acceptor
verifies it, records its digest in the replay cache, and answers with a response token
signed with the agreed key or with the service's certificate. With the *extra round trip*
option the initiator sends a third token, signed with a key that depends on the response.
Then both ends derive a session key and exchange numbered, protected messages; a context
may be exported to another process.

| Component | State | Operations | Makes it correct |
|---|---|---|---|
| Context establishment, `mech_browserid/init_sec_context.c`, `accept_sec_context.c`, `util_context.c` | per context: state machine, flags, identity, session key | `gss_init_sec_context`, `gss_accept_sec_context`, `gss_delete_sec_context` | peers agree on the key; calls return; status and state agree; a failed ticket leads to a retry |
| Verification and replay cache, `libbrowserid/bid_identity.c`, `bid_verify.c`, `bid_rcache.c` | cache of digests, shared by processes | check, update, purge | an assertion is accepted once |
| Re-authentication, `libbrowserid/bid_reauth.c` | ticket cache of the user; the acceptor's replay cache entries hold the same key | find, make authenticator, store, verify | both ends of a ticket agree; mutual flag is grounded |
| Response and extra round trip, `libbrowserid/bid_rp.c`, `bid_xrt.c`, `bid_crypto.c`, `bid_x509.c` | secret of an identity | derive, sign, verify | freshness, order of derivations |
| Message protection, `mech_browserid/wrap_iov.c`, `unwrap_iov.c`, `util_ordering.c` | send counter, ring of received numbers | wrap, get MIC, unwrap, verify MIC | replay and order are noticed |
| Export and import, `mech_browserid/export_sec_context.c`, `import_sec_context.c` | serialized context | export, import | nothing is forgotten on the way |
| Caches, `libbrowserid/bid_cache.c`, `bid_fcache.c`, `bid_mcache.c`, `bid_rgycache.c` | JSON object in a file, in memory or in the registry | get, set, remove, iterate, purge, destroy | no update is lost, readers see whole states |
| Authorities, `libbrowserid/bid_authority.c` | cache of authority documents | acquire, delegate, verify issuer | delegation terminates at a trusted issuer |
| Credentials, `mech_browserid/util_cred.c` | name, target, assertion, flags, lifetime, mutex | acquire, duplicate, resolve, inquire, import, export | a resolved credential matches its context; locks are paired |
| Acquisition, `libbrowserid/bid_user.c` and the browser front ends | modal session | begin, run, end | one answer per session; the call returns |
| Library context, `libbrowserid/bid_context.c` | options, parameters, cache handles | acquire, release, get and set parameters | options imply each other; a cache has one owner |
| HTTP, `libbrowserid/bid_curlhttp.c`, `bid_cfhttp.c`, `bid_winhttp.c` | buffer, headers of a reply | retrieve, post | the body is whole; its expiry is the one stated |
| Names and attributes, `mech_browserid/util_name.c`, `util_attr.cpp` and its providers | per name: attribute context with up to four providers, a mutex | import, export, duplicate, set, delete, get | "authenticated" means it; nothing is lost on the way |
| Token header, `mech_browserid/util_token.c` | none | make, verify | sizes are exact, damaged tokens are refused |

`PROJECT.json` lists every component, the ones without state of interest included, with
the reason why a part is left out.

**Interaction.** Establishment calls verification, which reads and later writes the replay
cache, a file shared by all acceptor processes of a host. The initiator writes the ticket
cache, shared by all processes of a user. Tokens are carried by the applications, so that
the mechanism has no control of duplication, loss or misdirection. Message protection
starts from the session key that establishment leaves behind.

**What is hard.** Replay check and update are two accesses to a shared file, with other
acceptors in between; errors of the caches are in places taken for an absent entry; a
ticket has two halves that live and die separately; the secret of an identity is replaced
in the middle of a call (before: ARK, after: session key); the initiator's loop depends on
what the peer sends; a flag turns an error into "continue"; the ring is a circular array
with insertion in the middle; caches, credentials and JSON objects are shared by threads with locks
that do not cover everything; providers change their documents while threads verify with cached ones;
a dialog on the main thread answers a call from any thread; lengths are computed in one function
and used in another. Each of these is a hazard in `PROJECT.json`, at its line.

## 2. Modules

| Module | Models | Checked by |
|---|---|---|
| `SecContext` | both sides of context establishment, tickets, replay cache, key hierarchy | `reliable`, `replay`, `chain`, `liveness`, `update_fails` |
| `SeqQueue` | `util_ordering.c`: the ring and its check, as operators | through `MessageProtection` |
| `ReplayWindow` | abstract specification: what the check of numbers promises | refinement in `messages` |
| `MessageProtection` | two peers, an unreliable transport, export and import | `messages`, `replay_detected` |
| `Layout` | buffers of protected messages, length queries | `objects` |
| `TokenHeader` | DER header of context tokens | `objects` |
| `Verification` | the decision procedure of `bid_verify.c`, `bid_rverify.c` and the callers | `relying_party` |
| `RegistryCache` | `bid_rgycache.c` with an administrator who changes the key | `objects` |
| `Cache` | abstract specification: what the cache interface promises | refinement in `caches` |
| `FileCache` | `bid_fcache.c` with several processes; iteration and purge of `bid_cache.c` | `caches`, with one writer and with two |
| `MemoryCache` | `bid_mcache.c` with several threads | `caches` |
| `LibContext` | `bid_context.c` and the ownership of caches | `library` |
| `Lifetimes` | clocks, tickets, renewal and purges | `relying_party`, with short and with default lifetimes |
| `Authority` | authority documents, their cache and delegation, several threads | `relying_party` (keys that change), `outside` (delegations) |
| `Http` | the three HTTP back ends | `library` |
| `ModalSession` | `bid_user.c` and the WebKit front ends | `library` (safety), `outside` (liveness) |
| `Credentials` | `util_cred.c`, the options, export and import, use by initiator contexts | `outside` (tokens), `objects` (contexts) |
| `NameAttributes` | names, attribute contexts, providers | `outside` (claims and SAML), `objects` (local attributes) |
| `MCSecContext`, `MCMessages`, `MCCaches`, `MCLibrary`, `MCRelyingParty`, `MCOutside`, `MCObjects` | model values, symmetry sets, bounds, and which instances a run has | |
| `SecContext_proofs` | types, replay, keys, retry and mutual authentication | TLAPS |
| `MessageProtection_proofs`, `FileCache_proofs`, `Authority_proofs` | theorems about the module they are named after | TLAPS |
| `Caches_proofs` | `MemoryCache`, and the run `caches` as a whole | TLAPS |
| `Library_proofs` | `LibContext`, `Http`, `ModalSession`, and the run `library` | TLAPS |
| `RelyingParty_proofs` | `Lifetimes`, `Verification`, and the keys of `Authority` in the run `relying_party` | TLAPS |
| `Objects_proofs` | `NameAttributes`, `Credentials`, `RegistryCache`, and the run `objects` | TLAPS |

`MCCaches`, `MCLibrary`, `MCRelyingParty`, `MCOutside` and `MCObjects` hold several components that share
no state and do not call each other in the part that is modelled. Variable `of` is the component a
behaviour is about: it is chosen in the initial state and never changes, the component takes its own steps, and the
variables of the others keep one value. So such a run is the sum of the runs of its components, each with its own
instance. The module extends the component whose properties it
lists by their own names, and instantiates the others. A property of the run says `of = "keys" => Keys!KeysCurrent`, or conjoins the properties of the component
that belong to one question; the parts are named and commented in the component's module. A refinement is there
in the form `[][of = "memory" => Memory!Atomic!Next]_...`. The assumptions of an instanced module are restated and evaluated
in the MC module.

Definitions called "wrong variant" in a comment are not used: each is a plausible bug in
the definition that follows it, and shows that a property can tell the two apart.

### SecContext

`ini[i]` and `acc[a]` are the contexts (`struct gss_ctx_id_struct`): `state` is
`enum gss_bid_state` plus RELEASED (the context was freed), VERIFYING (an acceptor inside
`BIDVerifyAssertion`, after the look into the cache) and SPINNING (an initiator inside its
loop for ever); `ret` is the last major status. `netI`, `netA`, `netX` hold every
token ever output. `tickets` is the user's ticket cache for one audience, `rcache` the
acceptors' replay cache. `overlap` and `accepted` are history variables that no action reads.

One call of a GSS function is one step, except that `gss_accept_sec_context` is two
(`VerifyBegin`, then `VerifyEnd` or `UpdateFails`), since the cache is accessed twice. A
re-authentication reads the cache twice before that (ticket and digest); both
reads are in `VerifyBegin`. `InitRetry` includes the whole second turn of
the loop of `gssBidInitSecContext`, the acquisition of a fresh assertion included.

Keys are sequences of the inputs they are derived from, so equality of keys is equality
of history. An assertion's name stands for its digest, its nonce and its ephemeral key.
Abstractions to keep in mind: only mechanisms with a key are modelled, and only calls with
a target name; an assertion lives no longer than the ticket it becomes, so one set `expired` serves for
both; the failure of making the third token is part of the fault "ready"; failing to
verify for a reason other than expiry, ticket and replay is the fault "verify".

Constant `Faults` selects what may fail, `Unreliable` whether tokens may be duplicated and
misdirected:

| Fault | Stands for |
|---|---|
| acquire | no assertion (user cancels, no network) |
| verify | any other reason to reject a token; a wrong audience |
| lookup | a cache cannot be read; the code takes this for "no such entry" (`bid_rcache.c:74`, `bid_reauth.c:519-616`) |
| update | the replay cache cannot be written |
| ready | `gssBidContextReady` or the third token fails |
| delete | the application gives up |
| lose | a live cache entry vanishes (`FileCache` shows how) |
| expire, delay | a lifetime ends after, or before, verification |

### SeqQueue, ReplayWindow, MessageProtection

`SeqQueue` keeps the representation of the code: start, length and a fixed array, position
arithmetic modulo its size, numbers modulo `2^Width` relative to the first one.
`MessageProtection` gives each peer a send counter and a ring. `UnwrapToken` is the part of
`unwrapToken` behind a valid checksum; a token that comes back to its sender fails before that, at the initiator by its direction flag, at the
acceptor, which asks for no such flag, by the key usage of its checksum, and changes nothing. `net` is a set from which nothing is taken, so tokens are lost, reordered
and duplicated. `ReplayWindow` knows only the set of recorded numbers and the last status.

### Cache, FileCache

`inode` holds the files, `name` is the file the cache's name is linked to (`NoFile`: none),
`locks` the fcntl locks, and `proc[p]` where process p is in its call: the descriptor
`fd`, what `lstat` saw (`sb`), what it has read and changed (`data`). Each system
call that another process can notice is a step: `Open`, `Lock`, the reading
(`GetObject`, `FirstObject`, `SetOrRemoveObject`), `Rename`, `StoreInPlace`, `Lstat`, `Unlink`,
`Scrub`, `Close`. The temporary file is written before it has a name others use, so writing and
renaming it is one step. `Begin`, `PurgeNext` and `Return` are the interface of
`bid_cache.c`: a purge is a listing and then one removal per entry.

Two facts about locks shape the model. A lock is held on a file, and an update replaces the
file, so a writer that waited for the lock may get it on a file that no longer has a name. And an
fcntl lock of a process goes with any descriptor of the file that it closes: `_BIDFileCacheLoad`
reads through a duplicate and closes it (line 401), so the lock is gone before the update is
written. Either is enough for overlapping updates to be lost; the fault "lose" of `SecContext` stands for it.

Faults are "fail" (a system call fails, and the call with it), "crash" and "read" (a good file cannot be
read, which a writer treats as an empty cache, line 712). `touched` and `rewritten` are history
variables. Inode numbers are used again, so the number of calls is not bounded.
Not distinguished: CACHE_NOT_FOUND and CACHE_KEY_NOT_FOUND, both "no entries".

### MemoryCache, RegistryCache, LibContext

`MemoryCache` has the data inside the mutex (one step a call) and the time of the last change outside
it (`TakeTime`, `StoreTime`). `overlapped` and `changed` are history.

`RegistryCache` reads a value in two calls of the registry (`EnumValueSize`, `EnumValueData`), both by
index, while `RegWriter`, external, adds, replaces and deletes values: indices behind a deleted value move.
The encodings of text are left out; of a value its type, size and identity are kept. A subkey has values and no subkeys.
`RegistryFaithful` is about enumerations, of the cache's key and of a subkey; the single value that `QuerySize` and `QueryData` read
under its name is part of the model and of no property.

`LibContext` has the heap of caches, the four slots of each context and the caches the application owns.
`AcquireContext` includes every step of `BIDAcquireContext`, `AcquireContextFails` its common cleanup after a
failure at any slot. `SetCache` includes the fall through into the parent window. `lost` collects the
caches that `SetCache` forgets without releasing, which is the only leak (`LeakOnlyByObject`, a part of `CachesOwned`).

### Authority, Verification, Lifetimes

Three views of one procedure. `Authority` has the steps that ask providers: `published` is what each
host answers, `cache` the shared cache, `ver[v]` a thread with its verification time, the hosts it has
followed (`trail`) and the key it found. Every lookup is a step, so a document may be replaced, cached
by another thread or expire between two. `Verification` has every other check of
`_BIDVerifyLocal` in the order of the code, `_BIDVerifyRemote`, and what the two callers add; fields of the
token are chosen when they are read, and references to three JSON objects are counted. Leaks of the root
document and of a session key reference exist on error paths and are not claimed to be absent.
`Lifetimes` has the clock: `issued[i]` are assertions with their times, `cache` the replay entries, `ticket` the
initiator's ticket. A verification is one step there; its interleavings are in `SecContext`.

### Credentials, ModalSession

`cred[c]` is a handle's credential, `ctx` an initiator context with the resolved copy it works with, `token` an
exported credential. Each option, acquisition, resolution and retry is an action; the constant
`Calls` selects groups of calls, `Heimdal` and `Apple` the build. Exhaustion of memory is not modelled.

`ModalSession` follows one call of the synchronous or the asynchronous entry point on each platform, from
the main thread or another. `pc` is where the caller is, `dialog` and `bound` the controller. Uses of a
released session are kept in `fault`. External assumptions: closing the Mac window ends its modal loop, and
no window closes twice. Controllers that stay allocated are not claimed to be released.

### Http, Layout, TokenHeader

Operators for the arithmetic, with one action per stage. In `Http` the bytes of a body are their places, so a body
written to the wrong place shows. `Layout` has a byte as a pair of region and place; decryption succeeds if the
regions handed to the Kerberos library are the ones it made. `TokenHeader` keeps the bytes of the header
and the number of the bytes behind it, up to four bytes of DER length.

### NameAttributes

`names[n]` is a name with its process and, if it has one, the attribute context: providers `jwt`
(a reference into `objects`), `saml`, `local`. Processes differ in the providers they have registered
(`providers`). Calls hold the name's mutex and are one step, except the ones on claims, which are two (`Begin`, then
`SetClaim`, `DeleteClaim` or `GetClaim`), since the JSON object is shared by names. `tokens` are
exported names in their three forms; the composite and the JSON form carry attributes.

## 3. Runs

| Run | Instance | Result |
|---|---|---|
| `reliable` | 2 initiators, 2 acceptors, all options, all faults but update | `TypeOK`; `NoSpin`, the loop of the initiator ends; `InitReturnConsistent`, the assertion at `init_sec_context.c:391` |
| `replay` | 2 initiators, 3 acceptors, all options, any token to anyone | `AtMostOnce`; `KeysAgree`; `OverwrittenOnlyByRepeat`, only a second verification of an assertion separates a ticket from its cache entry |
| `chain` | 3 initiators, 3 acceptors, entries may be lost | `ChainKeysAgree` (session keys and both halves of tickets), `MutualGrounded` |
| `liveness` | 2 and 2, fairness, tickets expire or are lost | `Establishes` |
| `update_fails` | 1 and 1, update may fail | violated: `InitReturnConsistent` |
| `messages` | ring of 3, 4-bit numbers, 6 tokens one way and 1 back | `RepInvariant`, the ring holds the newest numbers in order; `KeepsWindow`, it implements `ReplayWindow`; `ReplayOnlyInWindow`, a token comes again only while its number is in the ring |
| `replay_detected` | as `messages` | violated: `ReplayDetected` |
| `caches` | file: 2 writers, 2 keys, 2 values, "crash" and "read" | `LostOnlyByOverlap`, `PurgeSparesLive` |
| | file: 1 writer, 1 reader, 2 keys, 2 values, "fail" and "crash" anywhere; memory: 2 threads, 2 keys, 2 values, 2 times | `CachesLinearizable`: both implement `Cache`; `StampMissesOnlyByOverlap`, a change is missed by its time only when changes overlap |
| `library` | 2 contexts, 4 caches, every set of options of interest | `CachesOwned`, `OptionsHaveCaches` |
| | 3 HTTP back ends, bodies up to 4 bytes, a buffer of 2, 1 redirection | `ReplyCollected` |
| | every platform, entry point and thread, 2 closes of the dialog | `SessionSafe` |
| `relying_party` | 3 assertions, times up to 6, tickets and renewal on or off; 2 assertions, times up to 8, tickets longer than assertions as by default | `ReauthEnds`, `NoReplay` (only late; with default lifetimes never) |
| | 2 threads, 1 host, 2 keys, 2 rotations | `KeysCurrent` |
| | every combination of token and request, chains of 2 certificates | `AcceptedIsValid`, `CredentialHeld` |
| `outside` | 1 thread, 3 hosts, at first in a circle | `IssuerAuthorised`, `VerificationEnds` |
| | every platform, entry point and thread, 2 closes of the dialog | `SessionEnds` |
| | 1 credential, 1 subject, options and exported tokens | `CredImportRestores` |
| | 1 process with SAML, claims and SAML attributes | `ClaimsFaithful` |
| `objects` | 1 credential with contexts, 2 subjects, changed by options or by dictionaries | `ContextCredentials`, `CallerDisplays` |
| | 2 processes, 2 names, local attributes, tokens | `NamesFaithful` |
| | 2 kinds of encryption, all buffer arrangements; token bodies around each change of the DER length, damages of many lengths | `RoundTrip`, what was made is read back and damage is noticed; `AnswersSuffice`, lengths asked for are the ones used |
| | registry: 2 names, 2 types, 4 changes | `RegistryFaithful`: no mixture of two values, nothing that stayed is missed unless another was deleted |

Most components also have a type invariant, which relates variables where the code keeps them in step: buffers agree with their lengths, locks with their holders, curves with options.

`CachesLinearizable` needs, for the file, the assumption of one writer and of readable files. A reader takes effect when it opens the file,
an update when it renames, a destruction when it unlinks. A reader of a file that is destroyed
meanwhile fails; it does not report a missing key. With two writers, `LostOnlyByOverlap` says exactly
what is lost: entries changed between another writer's open and rename, or anything if that writer
could not read the file. `PurgeSparesLive` bounds the snapshot of a purge in the same way.
`libbrowserid/TODO:2` knows that purging needs to lock the cache.

**Why the bounds suffice.** A second initiator is needed for a ticket to be used, a third
for a renewed ticket to be used; each has two assertions, as in the code. Two acceptors
can race, a third replays afterwards. Six tokens fill and overflow a ring of three, so the
start wraps around and a number falls out of the window and comes back. 4 bits leave the
upper half of the numbers unused, which is what `MaxSendAssumption` demands of 64 bits:
no peer sends 2^63 tokens.

In `FileCache` a process can hold a file that the other has replaced while the other holds the
current one and renames a third: three files suffice (a fourth adds no state). One key is
changed while the entry of the other is at stake.

Two threads and two rotations of a key are enough for a slow thread to store the first document over the
third. Three hosts make a circle longer than the permitted delegations. In `Lifetimes` an assertion, the
authenticator it leads to and the one after it span a renewal, and `MaxTime` lies behind the last date that can
matter. In `Verification` each
time of a token lies next to a limit, on either side. In `Http` a body of four bytes and its NUL make a buffer of two grow twice. In `NameAttributes` a name, its copy and two
processes make every journey of a token; a run has two attributes that differ in where they come from
(a claim and SAML, or resolved and set locally), and each may be missing.
The sizes in `TokenHeader` are those next to 2^7, 2^8, 2^16 and 2^24.

**Deadlock** is checked in `caches`: in `FileCache` the processes never
all wait for each other's locks. It is not
checked where a behaviour is one exchange, one call or one message and ends with it, or where a clock is bounded: the other
runs.

**Fairness.** `FairSpec` has weak fairness of each initiator's handling of a response and of
each acceptor's call. The code waits for nothing but its own caches and the next token, so
this says that the applications keep carrying tokens to their own peer. Starting a context,
failures and deletion are not fair. `Authority` has weak fairness of each thread's next step: an HTTP
request returns, if only with an error; publishing and the clock are not fair. `ModalSession` has weak fairness of the
calling thread, of the main loop's sources and of the user's first answer; nothing makes the user answer twice.
`MCFairness` of `MCOutside` states both for the steps of the run.

**Scope of the safety runs.** `NoSpin` and `TicketKeysAgree` (a part of `ChainKeysAgree`) are checked over reliable
connections. They do not hold if responses and assertions are duplicated: a
second REAUTH_FAILED response after the retry keeps the loop at `init_sec_context.c:322` turning, and a
duplicated assertion with the extra round trip overwrites the ticket entry with another ARK. Run `replay` shows that
nothing else comes between a ticket and its entry: `OverwrittenOnlyByRepeat` permits a second verifier of the assertion, with
the extra round trip or overlapping, and both cases occur in the run.

### Findings

* `update_fails`: if `_BIDUpdateReplayCache` fails and the extra round trip was
  requested, `accept_sec_context.c:217` turns the error into GSS_S_CONTINUE_NEEDED; the response
  has a minor status without a major one, and the initiator returns
  GSS_S_COMPLETE in state AUTHENTICATE, against the assertion at `init_sec_context.c:391`.
* `replay_detected`: `unwrap_iov.c:277` overwrites the status of `sequenceCheck`, so a duplicate
  within the window is reported as GSS_S_COMPLETE; `util_context.c:122` calls replay detection
  always available.

### Observations

Places where comment, assertion or neighbouring code say one thing and the code does another, met while translating it. The
models do what the code does, and the properties above hold with it, or name it as their exception.

* `util_ordering.c:231`: the line after "this should never happen" is reached if the first token is late, or if a
  token is older than the ring.
* `bid_verify.c:425`: a response without a signature, on a context without a key, meets the assertion that there is a
  credential; `init_sec_context.c:221` expects an error there. Exception of `CredentialHeld`.
* `bid_winhttp.c:212`: each chunk is read to the start of the buffer, so a body in two chunks is not whole. Exception of
  `ReplyCollected`, so no property covers the order of WinHTTP's pieces.
* `bid_rcache.c:247`: the entry of an authenticator is purged at the expiry of the certificate's assertion, copied from the
  ticket (`bid_reauth.c:387`), while the authenticator is still valid. Exception of `NoReplay`.
* `bid_context.c:408`: setting a cache object falls through into the case of the parent window. `LibContext` keeps it.
* `bid_rgycache.c:340`: a value of an unknown type makes the enumeration fail; the comment at line 387 says it is ignored.
* `set_cred_option.c:131`: the entry for the replay cache has the object identifier of the entry before it, and is never found.
* `util_cred.c:740`: without Heimdal, an import reads a mechanism that only Heimdal's export writes. `Credentials` has both builds; the run has Heimdal.
* `util_cred.c:250`: mechanisms are read without the mutex as immutable; a dictionary replaces them.
* `accept_sec_context.c:222`: only the acceptor's context gets GSS_C_DCE_STYLE, so with an encryption type that pads each refuses what
  the other wraps with TOKEN and DATA buffers alone: the rotations they expect differ by the extra count. The comment at
  `unwrap_iov.c:62` permits these buffers. Exception of `RoundTrip`.
* `wrap_size_limit.c:95`: the overhead is that of a message of the output size, so with an encryption type that pads a message of the
  size answered may exceed the output size by less than a block. `SizeLimitHolds` (a part of `AnswersSuffice`) allows that much.
* `util_browserid.cpp:71`: the copy of a provider refers to the same JSON object, under another name's mutex.
* `util_attr.cpp:329`: a local provider that the token has no source for is never initialised; its operations fail the assertion
  `util_shib.cpp:203`.
* `util_shib.cpp:201`: the index of every attribute that exists is 0, so deleting one deletes the first.
* `util_attr.cpp:375`: every provider with a name is exported; line 426 says only the primary one.
* `wrap_iov_length.c:122`: asking for lengths without a DATA buffer answers for a message without confidentiality.
* `delete_sec_context.c:70`: the token that tells the peer is made and not returned.
* `bid_mshtml.cpp` does not compile at this commit.

## 4. Proofs

Eight modules hold theorems, each about every value of the constants: any number of contexts, threads, processes, hosts,
keys, any size of the ring, any lifetimes, bodies of any length. A theorem about a property of `MCCaches`, `MCLibrary`,
`MCRelyingParty` or `MCObjects` is about `MCSpec`, so about whatever component a behaviour is of; what the MC module
itself fixes (which platforms and back ends there are, which calls a process may make) is fixed in the theorem too, the constants
that the `.cfg` gives values to are not. The assumptions are the named ones of the modules and the hypotheses in
the table. Few of the properties are inductive as they stand: each proof has an inductive invariant that says what they rest on.

| Component | Theorem | Says | Hypothesis |
|---|---|---|---|
| `SecContext` | `TypeCorrect` | `TypeOK` | |
| | `ReplayProtection` | `AtMostOnce` | "lose" and "lookup" are not in `Faults` |
| | `KeysAgreement` | `KeysAgree` | |
| | `RetryEnds` | `NoSpin` | `~Unreliable` |
| | `ReturnConsistent` | `InitReturnConsistent` | "update" is not in `Faults` |
| | `MutualAuthentication` | `MutualGrounded` | |
| | `ChainAgreement` | `ChainKeysAgree` | `~Unreliable` |
| | `TicketsOverwritten` | `OverwrittenOnlyByRepeat` | "lose" and "lookup" are not in `Faults` |
| `MessageProtection` | `RepKept` | `RepInvariant` | `DoReplay \/ DoSequence` |
| | `RingImplementsWindow` | `KeepsWindow` | `DoSequence` |
| | `RepeatedOnlyInWindow` | `ReplayOnlyInWindow` | `DoReplay \/ DoSequence` |
| `FileCache` | `OnlyOverlapLoses` | `LostOnlyByOverlap` | |
| | `PurgesSpareLive` | `PurgeSparesLive` | |
| | `FileCacheImplementsCache` | `Linearizable` | `OneWriter` |
| `MemoryCache` | `MemoryCacheImplementsCache` | `Linearizable` | `MemoryCacheAssumption` |
| both | `CachesTypes` | `CachesTypeOK` | |
| | `StampsAreTrue` | `StampMissesOnlyByOverlap` | |
| | `CachesAreAtomic` | `CachesLinearizable` | |
| `LibContext` | `CacheOwnership` | `CachesOwned` | |
| | `OptionsKeepCaches` | `OptionsHaveCaches` | |
| `Http` | `RepliesAreCollected` | `ReplyCollected` | |
| `ModalSession` | `SessionsAreSafe` | `SessionSafe` | |
| these three | `LibraryTypes` | `LibraryTypeOK` | |
| `Authority` | `IssuersAuthorised` | `IssuerAuthorised` | |
| | `KeysAreCurrent`, `CurrentKeys` | `KeysCurrent`, of the module and of the run | |
| `Lifetimes` | `ReauthenticationEnds` | `ReauthEnds` | |
| | `ReplaysStopped` | `NoReplay` | |
| `Verification` | `AcceptedTokensAreValid` | `AcceptedIsValid` | |
| | `CredentialsAreHeld` | `CredentialHeld` | |
| `NameAttributes` | `NamesAreFaithful` | `NamesFaithful` | |
| `Credentials` | `ContextsKeepTheirIdentity` | `ContextCredentials` | |
| | `CallersDisplay` | `CallerDisplays` | |
| `RegistryCache` | `RegistryIsFaithful` | `RegistryFaithful` | |

Most components also have their type invariant and their inductive invariant as theorems.

**The hypotheses.** Those on `Faults` and `Unreliable` are necessary: a lost entry or a failed lookup lets the next acceptor take an
assertion for new; run `update_fails` is the counterexample without the second; section 3 tells what duplication does to the
loop and to tickets. Without any detection of replay or order the code does not look at the ring, and with replay detection alone a gap
is not reported, which `ReplayWindow` does. `MemoryCacheAssumption` is a hypothesis since the module is only instantiated by the runs;
`MCCaches` evaluates it, and `CachesAreAtomic` has it from there. `OneWriter` says that one process at most makes calls that
change the cache and that good files can be read; without it `caches` loses updates, as `LostOnlyByOverlap` tells. `SeqQueueAssumption` names half of `2^Width` (`TopBit`), since powers are beyond the provers.

**`SecContext`.** `TypeOK` is not inductive: `InitRetry` and `InitEstablish` use the assertion of a waiting context, so
`TypeInv` adds that a context that waits for a token has one.
*Replay* has two halves. Without the extra round trip: an accepted assertion is in the replay cache or has expired (`RaceInv`),
so a context that starts to verify it later is refused; one that started earlier overlapped, which `overlap` has recorded.
With it: all copies of an assertion agree on the option (`AssertionInv`); an acceptor completes only with a third token whose key
names its own assertion and itself (`OwnedXRT`, `AcceptorInv`); an initiator makes at most one such token (`XRTTokenInv`); a
key names at most one acceptor, hence two acceptances of one assertion are one.
*Keys* (`KeysInv`): a response tells what its acceptor knows (`ResponseInv`), an acceptance is that of its context
(`AcceptanceInv`), an established initiator took the key of the acceptor that answered it (`EstablishedInv`). If an assertion was accepted
once, the acceptor that answered and the one that accepted are the same, so the keys are. That a first
assertion and a retried one are never mixed up (`WaitingInv`, `OnceInv`, `FailedInv`) gives `NoSpin`: only an authenticator is
answered with REAUTH_FAILED, and a retry sends none.
*Mutual authentication* (`GroundedInv`): the root of the key of a ticket is an assertion a certificate has answered, and re-authentication
keeps the root.
*Tickets* (`TicketInv`, `BoundInv`): over reliable connections one acceptor context serves an initiator context, so the cache entry, the
response and the ticket of one assertion hold one ARK. Otherwise (`RepeatInv`) the entry is that of the response or its assertion is
repeated: only `VerifyEnd` writes an entry, and a context that is verifying an assertion another has answered asked for the
extra round trip, or overlapped with the other by `RaceInv`. What a context has verified is not taken back, so an assertion
stays repeated (`RepeatedStays`).

**`MessageProtection`.** `RingSound` says that the ring is sorted, holds only numbers that were taken in, and that a number it does not hold is
older than all it holds, which only a full ring permits. The work is in `InsertContent`: an insertion in the middle of a circular array
shifts what is behind it, drops the oldest if the ring is full, and leaves every other number in order. `SequenceCheckFinds` then gives
the verdict in terms of the set of numbers taken in, which is what `ReplayWindow` knows; numbers below half of `2^Width` compare as
the code compares them.

**Caches.** `FileCacheInv` compares the file that a process has open with the file under the name: they differ only in keys that others have
changed since (`HeldSound`), and so does what a writer is about to put in place (`WriteSound`). Only a file that has lost its
name is overwritten (`FilesInv`). For `LostOnlyByOverlap` it remains to compare the old and the new content at a rename.
`MemoryCacheInv` relates each call to its answer; the refinement maps a call that waits for the mutex to a pending call of `Cache`, the step inside
the mutex to its effect, and taking the time to a stutter. Its part `StampInv` says that without overlap one thread at a time is between its change and
storing its time.
The refinement of the file with one writer adds `AtomicInv`: each process is in a call of its own kind, the file that the writer has open is
the one with the name, and what it renames is its change of the entries under the name (`WriterSound`). It fails with a second writer at
exactly this conjunct. `CachesAreAtomic` and `CachesTypes` carry the theorems over to the instances of `MCCaches`.

**Library contexts, replies and dialogs.** `OwnershipInv` is the conjunction of the properties of `LibContext`: exclusive
owners and options that imply caches are needed together, since `SetCacheName` releases what a slot holds.
`HttpInv`: the bytes received are the bytes counted, the buffer holds them in order, unless WinHTTP got a second piece, and is longer for curl; the headers are the last
reply's unless curl was redirected. That the loop which doubles the buffer ends with enough room (`DoubledHolds`) needs a power of two between
a number and its double (`PowerBetween`); `Http` defines powers of two by their divisors, since the provers have no theory of exponents.
`ModalInv` says for each place of the caller who holds the session and whether the handler was called: the controller is bound to a live session
exactly while the dialog is on the screen (`DialogFacts`), one call of the handler releases it (`AnswerFacts`), and a caller that holds a released
session before `_runModal` is not the main thread (`CallerFacts`). A fault ends the behaviour, so nothing more is known after it.

**Authorities and lifetimes.** In `AuthorityInv` a cached document was published, with an expiry that its last publication justifies
(`CacheInv`), whichever thread stored it and when; a verification knows only documents that were published within `Lifetime + Skew` of its time, and
its trail is a chain of such delegations (`TrailSound`). `LifetimesInv` holds, for an accepted assertion, that its entry is there until it
is late to accept it again, or was purged (`LateInv`), and that an entry expires within the limits of its chain of
tickets (`ChainInv`); with tickets that outlive assertions the entry outlives the assertion (`OnceInv`).

**Verification.** `CheckInv` says at each place of `_BIDVerifyLocal` and `_BIDVerifyRemote` what has been checked and has not changed
since: audience and binding, expiry, who signed and with which key (`CredInv` has where a key may come from and which flags say so), whose
identity it is, and how many references the payload of the certificate has (`RefsInv`). Loops over certificates are for chains of any length.

**Names, credentials, registry.** `NamesInv`: whatever a name and the tokens it was exported to have of local attributes is authenticated only if
it came from the issuer (`LocalSound`), and a name made from one without local attributes has its local provider disabled (`CtxSound`), as has its token.
`CredentialsInv`: a resolved credential has an assertion, and a context's copy is resolved and of the identity in the context, so changing the application's handle cannot
change it. `RegInv`: a name is once in a key; while a key is read, what has been read was there during the call, and what stayed is
read or still ahead of the index, unless something was deleted (`ReadSound`), which is where an enumeration by index can miss a value.

**Only model-checked:**

* `Establishes`, `VerificationEnds`, `SessionEnds`: liveness under fairness is beyond the prover.
* `RoundTrip` and `AnswersSuffice` of `Layout` and `TokenHeader`: padding and DER lengths are arithmetic modulo a block and powers of 256, over sequences of
  regions; the bounded inputs have each change of form.
* `ClaimsFaithful`: the formulas of `NamesFaithful`, which is proved for any kinds of attributes, in an instance that TLC
  explores with SAML and claims.
* `CredImportRestores`: it compares a token with the credential it is imported to under each build option, field by field.
* `RelyingPartyTypeOK`, `ObjectsTypeOK`: the type invariants of runs with several components. Those of `Lifetimes` and `Authority` are
  theorems (`LifetimesTypes`, `AuthorityTypes`), and the inductive invariants of the others imply as much of theirs as the proofs need.

## 5. Plan

The plan of the modules, their composition and their theorems is carried out. What could still be added:

1. Theorems: `CredImportRestores` of `Credentials`; the type invariants of the remaining components.
2. `gss_process_context_token` and NegoEx, should a peer ever send such tokens.

## 6. Not modelled

* JSON, JWT, base64 and X.509 parsing and encoding: pure functions of their input, in large part of other libraries.
* Cryptographic algorithms and the Kerberos library behind message protection: ideal and symbolic.
* The MSHTML front end, the CoreFoundation bindings, preferences: wrappers of platform interfaces.
* NegoEx meta data, `gss_process_context_token`, `gss_map_name_to_any`, inquiry and storing of credentials: no state
  beyond that of the objects that are modelled.
* Parsing, display and comparison of names; status strings and object identifiers.
* Exhaustion of memory, but for the buffers of `Layout`.
* The command line tool and the samples: sequential callers of the library.
