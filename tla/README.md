# SecretChat in TLA+

This directory holds TLA+ models of SecretChat (`src/Source/Classes`), the
configurations with which TLC checks them on small instances, and proofs that
TLAPS checks for every value of the constants. SecretChat is an iOS library on
top of libsignal: it generates and publishes an installation's keys, builds
sessions with the devices of other users, encrypts with them, and keeps its
state in Core Data tables, in user defaults and in memory.

## Inventory

| Component | State | Operations | Interacts through |
|---|---|---|---|
| One-time prekeys | `SignalPreKeys` table, `iZSPreKeyStore.keys`, `preKeysSending`, blocks on the main queue | `sendPreKeys`, `generatePreKeys`, `addPreKey`, the upload's completion block, `load`/`remove` by libsignal, start | delegate (upload), main queue, libsignal callbacks |
| Sessions | `RemoteSessions` table, `iZSSessionStore.sessions`, `iZSIdentityStore.keys` | `requestBundle`, `proccessBundle`, `processConflictBundles`, `add(remoteUser:)`, `signalDecrypt`/`signalEncrypt`, `clearBundles`, `RemoteSession.remove`, start | delegate, main queue, libsignal callbacks |
| Registration | flags in the user defaults, `registrationProcess`, `localUser` | `register`, `reRegister`, `deRegister*`, their completion blocks, `syncRegisteredDevices` | delegate, user defaults |
| Local keys and clean-up | four keys in the user defaults, `localUser`, `protocolStore`, all tables | `initiate`, `generateKeys`, `shut`, `clearKeys`, `clearData` | background context, user defaults |
| Shared sessions | `needToRefreshSession` in shared defaults, one database, one copy in memory per process | `needToRefreshSessions`, `refreshSessions` | database and defaults shared by app and extension |
| Large files | the two files, the cryptor | `SecretChatFileHandler.crypt` | file system |
| Envelopes, AES, message keys, safety numbers | none, or one table | `AESEncrypt`, `AESEncryptedMessage`, `AES256Crypter`, `getAesKey`/`save(aes:)`, `VerifySafety` | CryptoSwift, libsignal |

What is hard here: every completion block runs on a thread the delegate
chooses, while saving and bundle processing go to the main thread, at once or as
a queued block; the process may be killed between any two writes; each thing is
kept two or three times (table, dictionary, user defaults, server) with no
transaction over them; answers may be late, lost or repeated; ids and flags are
derived from counts and from other flags. `PROJECT.json` lists these hazards with
their lines and the properties aimed at them.

What makes each component correct: ids that no live prekey has, and published
prekeys that open (prekeys); copies of a session that agree, and a session that
belongs to the trusted identity (sessions); flags that say what the server has,
and a registration that ends (registration); keys of one set, rows of their own
user, and nothing lost by a restart (local keys); a file that comes out whole
(files).

## Modules

| Module | Models | Checked by | Proved in |
|---|---|---|---|
| `PreKeys` | one-time prekeys | `MCPreKeys` | `PreKeysProofs`, `PreKeyThreadsProofs` |
| `PreKeyLedger` | what the prekeys promise to peers (abstract) | `MCPreKeys`, as `KeepsLedger` | `PreKeyLedgerProofs` |
| `Sessions` | sessions with other devices | `MCSessions` | `SessionsProofs` |
| `TrustedSessions` | what sessions and identities promise together (abstract) | `MCSessions`, as `KeepsTrust` | `SessionsProofs` |
| `Registration` | registration with the server | `MCRegistration` | `RegistrationProofs` |
| `LocalStore` | local keys and clean-up | `MCLocalStore` | `LocalStoreProofs` |
| `UserIdentity` | what the four keys promise as one identity (abstract) | `MCLocalStore`, as `KeepsIdentity` | `LocalStoreProofs` |
| `SharedSessions` | the sessions of one installation in two processes | `MCSharedSessions` | `SharedSessionsProofs` |
| `FileCrypt` | large file encryption | `MCFileCrypt` | `FileCryptProofs` |

An operator whose comment begins with "Mutant" stands for a plausible bug in the
definition after it. It is not part of the model; replacing that definition by
it breaks a property, which shows that the property depends on the code.

### PreKeys

`rows` is the table and `keys` the dictionary, both from prekey id to key
material; a key is the number of the batch that generated it, since two generated
keys are never equal. `sendPreKeys` is cut where another thread can come in:
`SendPreKeys` reads `preKeysSending`, `GeneratePreKeys` counts the rows, generates
and sets the flag, `AddPreKey` hands one prekey to the main thread (runs the block
there, or queues it), `Upload` calls the delegate. `RunMainBlock` is the main
queue, `UploadCallback` the completion block, `ServerReceive` the server,
`ReceivePreKeyMessage` libsignal's load and remove, `Restart` the death of the
process and the next `initiate`.

Core Data fails silently. `rows` is the table as the context sees it, `disk` the
file: a save that throws (`"save"` in `Faults`) leaves the row a pending change,
which fetches and counts see, which the next save that succeeds writes, and which
is gone when the process dies. A count that throws (`"count"`) answers 0. A load
that throws at a start (`"load"`) answers nothing, so the dictionary stays empty
until the next one. `lost` records the prekeys a process has died with and none has
loaded since, whether their save failed or the load did, and `ranOut` that all ids
have been in use; no action reads either.

Left out is the third fetch, of one row in `save(preKey:)`
(`SignalPreKeys+DataStore.swift:57-58`): when it throws, the code inserts a row
where one may be. That differs from what is modelled only for an id that has a row
already, which no batch is given before the ids run out, a count fails or two
threads generate at once; then the table has two rows of one id, which a function
from ids to keys cannot say.

Assumed: the delegate is alive and calls every completion block, and a batch is not
larger than the id range (100 against 16777214). `GenerateNothing` covers a failing
library and, in a bounded instance, the end of the batches.

### PreKeyLedger

The promise behind all this, with no table, dictionary, batch or upload in it: a
prekey is held before it is published, a published one stays until a message opens
it, and it opens one message; only the end of the ids and a death of the process
take one away, and the latter only what was not saved, or what the next process
cannot read until one after it can. `PreKeys` implements it
under the mapping that takes `held` to the prekeys in the dictionary, `saved` to
those in the file, `opened` to `consumed` and `exhausted` to `ranOut`
(`KeepsLedger`), provided that all calls come on the main thread and no count
fails. With two threads it does not: a batch is uploaded while its saves wait on the
main queue, so it is published before it is held, and `MCPreKeys_stored` shows it lost
with the queue. That the promise is strong enough is a theorem of its
own, `LedgerIsEnough`: whatever keeps the ledger satisfies `PublishedIsUsable`.

### Sessions

An address is a device of another user; it can be set up anew (`Reinstall`), and
its identity key and registration id are both represented by the number of the
installation. `Renewed` bounds which devices are. `rows`, `sessions` and `trusted` are the table, the session store
and the identity store. A bundle request is cut into the call
(`RequestBundle`, with its exclude list), the server (`ServerAnswer`) and the
completion block (`ReceiveBundles`, `ReceiveNothing`, `ReceiveFailure`);
`proccessBundle` goes through the bundles in `SkipUnreadable`, `BeginAdd` or
`RefuseAdd`, `FinishAdd`, and ends in `CompleteRequest`. `BeginAdd` and
`FinishAdd` are separate because the process can die between the save of the row
and the building of the session. A session stands for whom it was built with;
its ratchet is the subject of `SharedSessions`, so encrypting changes nothing here.

The library checks `isTrusted` first. For a bundle it then stores the session and
after it the identity; for a prekey message it saves the identity, decrypts, and
stores the session. A message that does not open thus leaves its identity trusted
and every session as it is (`ReceivePreKeyMessage` with `opens` false): `preKeyCipherDecrypt`
swallows the error. `unopened` records, as history, the addresses whose first
identity in this process came that way. When the message opens, as for a bundle, the
two stores are one step (`Establish`): a process that dies between them loses the
identities in any case.

Assumed: `initiate` has been called, the table can be read and saves succeed (see
`SharedSessions` for stores that fail), all calls that touch sessions come on the main thread. A bundle of the own device is refused and changes nothing,
so the own device is not an address.

### TrustedSessions

Trust on first use, with no requests, bundles, rows or messages in it: a session is
established with the identity that is trusted for its address, or with the first
one, which is trusted from then on; so is the first one a message claims, even if no
session comes of it (`Remember`); deleting sessions leaves the trust, and a death of
the process leaves the sessions. `Sessions` implements it with its own two
dictionaries (`KeepsTrust`), so of all its actions only `Restart` forgets.

### Registration

This installation is device 1, 2, ... after each generation of its keys. `flags`
are in the user defaults and survive `Restart`; `registrationProcess` and
`localUser` do not. The completion block of `register` is cut after its first line
(`RegisterReply`, `RecordReply`), and `reRegister` into its reads and clears, the
call of `register` and the last clear, because the block runs on another thread.
`shut` is cut where its order shows: it clears the keys (`Shut`), the note of due
prekeys, the registered flag, and the rest with the user (`ShutOn`), and the process
may die, or a block run, between any two of these.
An answer can be lost (`"none"` for a request the server has handled), and a
request that was reported as failed can still reach the server. Four history
variables, which no action reads, say what the properties depend on: `dismissed`
the devices a removal was asked for; `crossed` that `shut` has cleared the registered
flag while a registration was awaited; `cut` that the process has died in `shut` after
the keys and before a flag that was set, which the next keys then find; and `owed`
whether a registration that was to send prekeys has failed (`"yes"`) and whether
`reRegister` has cleared the note of it since: it does so after its call of
`register`, whether that call has sent anything or not. So a note is lost when
another registration was already running or its block wrote it in between
(`"overtaken"`), and when there is no user, for whom `register` does nothing
(`"userless"`).

Assumed: the application calls `register`, `reRegister`, `shut` and `initiate` on one
thread, so that no second call of `register` comes between its guard
(`SecretChatAPIHandler.swift:51`) and its set of `registrationProcess` (line 53);
completion blocks run on any thread.

`DeRegisterAllDevices` takes a list of devices the server has, as the application
gets it from `api/v2/keys/registrations`. Two equal requests on their way at once
are one.

### LocalStore

The four keys are written and cleared slot by slot (`WriteKey`, `ClearKey`), in the
order of the code. `Wipe` is the block of `clearData`. `SaveRow` is any save of a
prekey or session, of the current user or of a row that is loaded. A row is
represented by the set of keys it was made under.

Core Data may fail here as well (`Faults`): a load finds only some of the rows
(`"load"`), a save leaves its row to the context, where the next save and the next
load find it (`pending`), or loses it (`"save"`), and a deletion that throws in the
block leaves its rows and those it has not come to (`"wipe"`).

`cut`, `hurried` and `leftover` are history. `cut` says that the process has died in
`shut`; `hurried` that a user was initiated, or the process has died, while the block
of a `shut` waited; `leftover` has the rows of earlier users that are there because a
block or, before `shut`, a save has failed. `CleanHandover` is about behaviours with
neither of the first two, in which a user gets no rows but his own and `leftover`.

### UserIdentity

The same without slots and loops: an identity is created, kept for the next start,
and given up, each at one moment. None is created while one is kept, one that was
given up is never found again, and a death leaves what is kept as it was; only a
second death can leave a mixture. The mapping reads four equal slots as the
identity of that set, complete ones that differ as a mixture, and all else as none;
while keys are being written nothing is kept, whatever the slots hold, because the
last one is written last. `LocalStore` implements it (`KeepsIdentity`): the last
`WriteKey` is `Create`, the first `ClearKey` is `GiveUp`, and the others stutter.

### SharedSessions

An application and its extension run the library over one database and one set of
user defaults. `table` is the column `session` of `RemoteSessions`; `copy` is
`iZSSessionStore.sessions` of each process, filled when it starts. A session is the
number of a state of its ratchet: encrypting or decrypting (`Use`) leaves one state
for the next, a bundle or prekey message (`Build`) starts anew, and states are
numbered as they come about. `advanced` records the states that were left: a
message from one of them would use a message key again.

`StoreSession` is `iZSSessionStore.store`: the copy first, then the row, then a save
whose failure nobody sees, nor that of the fetch before it. `unsaved` is what the context of a process has changed
and not saved, with the state it had fetched. The context is Core Data's, external
to this code, and modelled by three of its rules: a save writes all changes or
none; it throws when a row it changes is no longer what it has fetched (the default
merge policy); and a fetch does not undo the context's own changes. A save of
existing rows may also fail for no such reason (`"save"` in `Faults`). The first
save of a new row fails only when the context is stuck with another change. When
the fetch of the row throws (`"fetch"`), the copy has the new state and the context
does not, so that no later save brings it into the table: `ahead` records such
copies. Left out is a fetch that throws for a row of which the context keeps a change
from before; the change would then be of an older state than the copy. A load of the
whole table at a start succeeds.
`Delete` is a batch delete, which reaches the table at once, and then a save.

`NeedToRefreshSessions` replaces the note in the defaults; the application goes
through `SessionsToRefresh`, `RefreshSession` (the rows of the cross product of
names and device ids that the note yields) and `ClearNote`. Who calls them, and
with which identifiers, is up to the two processes; the model has the extension
name what it has touched since it last did (`touched`), and what the note already
says if it has looked. `missed` records the copies of the application that no note
will refresh, `failed` the sessions whose last store has failed; no action reads
these. The properties name every way there is into them, so they list what the
protocol of the note loses.

### FileCrypt

The whole of `SecretChatFileHandler.crypt`, one action per round of the loop, in both
directions (`action`). Bytes are represented by their place, so the output is whole if
it is 0, 1, ..., length - 1, without the tag of a file to decrypt. The sizes of chunks
are computed from `fileSize`, the attribute of the file, which is 0 when it cannot be
read, while the loop ends at `length`, where the handle finds the end; the two are
variables of their own. `HasChunks` names the files for which a chunk has bytes: not
those of one byte, and not those whose size could not be read.

The cryptor is CryptoSwift's and external: it gives out whole blocks and holds back
the rest, and the decryptor of GCM holds back the length of the tag besides, since
any byte may be the last but so many. A file to decrypt that is shorter than its tag
fails at the end (`TagIsMissing`). When the output file cannot be created (`refused`) the bytes of that
round are dropped (`dropped`, their number) and the next round tries again, so what
is written in the end lacks the front of the file. `Throws` is every `try` that
fails. A file that was created can be opened for writing.

## Runs

All bounds are constants of the modules. The runs named in PROJECT.json as
`violation` show where the code departs from what the repository says of it; each
has a finding that quotes the line.

| Run | Instance | Shows |
|---|---|---|
| `MCPreKeys_main` | main thread only, saves and loads that fail, 5 ids, batches of 2, 3 batches | the third batch wraps and overwrites; ids stay dense, published prekeys open until the ids run out unless lost with a process (a failed save, or a failed load of the next), `preKeysSending` is exact, and the ledger is kept |
| `MCPreKeys_threads` | and one other thread, counts that fail | table and dictionary stay consistent under every interleaving of queued saves, and an upload that was started ends |
| `MCPreKeys_stored` | two threads | violated: a batch is uploaded while its saves wait on the main queue, the process dies, and its prekeys are in no table |
| `MCPreKeys_consumed` | main thread | violated: a used prekey is back after a restart |
| `MCSessions_main` | two devices, one of them set up twice | copies agree, session and trusted identity agree unless the first identity came with a message that did not open, a bundle never replaces a session, the two dictionaries implement trust on first use until a restart, an answer with bundles reaches the completion block |
| `MCSessions_trust` | one device, set up twice | violated: a changed identity is accepted after a restart |
| `MCRegistration_main` | two sets of keys, two requests at a time | `registrationProcess` is exact through shut, restarts and late answers, the registered flag is true unless `shut` crossed a registration or was cut off by a death, a note of due prekeys is kept unless `reRegister` is overtaken or has no user, and a registration ends |
| `MCRegistration_shut` | two sets of keys | violated: a registration that `shut` crossed sets the flag for keys that are gone, without any death |
| `MCLocalStore_main` | three sets of keys, two crashes, loads, saves and deletions that fail | the keys in use are those the next start finds, and of one set unless both crashes hit, one of them `shut`; a clean hand-over gives a user his own rows only, and those a failed block or save has left; the four keys implement one identity |
| `MCLocalStore_foreign` | no crash | violated: rows of the last user are loaded |
| `MCSharedSessions_main` | two users with different devices, three states after the first, saves and fetches that fail | the table holds no used state and none older than a copy unless a store has failed; no save takes a ratchet back; a copy of the application that is behind is noted, but for the losses named |
| `MCFileCrypt` | lengths 0 to 24, both directions, sizes that cannot be read, chunks of 5, blocks of 3, a tag of 4 | the file is whole unless it could not be created, memory bounded; every round reads on and the loop ends, but for files whose chunks have no bytes |

Why the bounds are enough. Ids: 5 ids and batches of 2 make the third batch
straddle the largest id, the case in which wrapping matters. Devices: no property
of Sessions relates more than one address, and two show that they do not
disturb each other; two installations give one change of identity, and every
property is about one change. Requests: two at a time let a late answer meet a
new registration. Crashes: the bound is what the run is about. Shared sessions: three states are one
each for two processes that overwrite each other and one after that, and two
sessions let the save of one carry, or be blocked by, the change of the other and
make a cross product larger than the list. Files: the lengths
lie below, at and above the chunk limit and all remainders by block and chunk
occur; the tag is longer than a block and no multiple of one. For a file of one byte,
or of a size that cannot be read, the code computes chunks of zero bytes and never
ends: the run has these files, its two properties about progress except them
(`HasChunks`), it is listed as a hazard, and `NoChunksNeverDone` proves it.

`MCSharedSessions_main` declares its two users and two devices as exchangeable
(`Exchange`): no definition names one of them, the cross product of a note and the
values of all constants stay the same under an exchange, and no property of the run is
a liveness property.

Deadlock is not checked: the system stops when the application calls nothing and
the bounds are used up.

Fairness. `PreKeys`: threads inside `sendPreKeys` run on, the main queue is
drained, every completion block runs once (URLSession calls it with an error if
need be, and an application's delegate has to pass that on: `SendingEnds` says
nothing of an upload that is never answered). Nothing else is fair: not the server, peers, the application, restarts.
`Sessions`: the same for the loop of `proccessBundle` and the completion block of
a request. `Registration`: the completion block of a registration, which is assumed to
be called in the end. `FileCrypt`:
the loop goes on; nothing needs to throw. `SharedSessions` has none: nothing makes a
process note, refresh or write.

## Proofs

The theorems hold for every value of the constants that the named `ASSUME`s of the
modules allow: `ThreadsAssumption`, `SizesAssumption` and `FaultsAssumption` (`PreKeys`),
`BoundAssumption` and `AbsentAssumption` (`Sessions`), `BoundsAssumption` and
`OtherAssumption` (`Registration`), `BoundsAssumption` and `FaultsAssumption` (`LocalStore`),
`StatesAssumption` and `FaultsAssumption` (`SharedSessions`), `SizesAssumption`
(`FileCrypt`). The bounds are among these constants, so no theorem depends on a small one. Each property is
proved from an invariant that holds initially and is preserved by every action,
one lemma or step per action. TLC checks each property on its instance; the
strengthenings are in the proof modules and no run repeats them.

| Theorem | Says | Inductive invariant |
|---|---|---|
| `PreKeysProofs!TypeCorrect` | `TypeOK` | `TypeInv`: a batch that is saved or sent has key material |
| `PreKeysProofs!TableBacksMemory` | a restart loses no usable prekey | the property with `TypeInv` |
| `PreKeysProofs!DenseIds` | occupied ids are 1..n | `DenseInv` |
| `PreKeysProofs!PublishedUsable` | published prekeys open or were lost with a process, if only the main thread generates and no count fails | `DenseInv`, `UsableInv` |
| `PreKeysProofs!SendingExact` | `preKeysSending` is exact, if only the main thread generates | `SendingInv` |
| `PreKeysProofs!PublishedStored` | uploaded prekeys are in the file, if only the main thread generates and Core Data does not fail | `StoredInv` |
| `PreKeyThreadsProofs!UsableInTurn`, `StoredInTurn` | published prekeys open or were lost with a process, if no count fails, and with no fault are in the file, on any threads, if batches are generated in turn | `TurnInv` |
| `PreKeyThreadsProofs!SendingExactWithOneCaller` | `preKeysSending` is exact on any threads, if no call begins while another generates (`OneCaller`) | `OneSender` |
| `PreKeyThreadsProofs!ConsumedGoneUntilRestart` | a used prekey stays gone until a restart, on any threads and with any fault | `OnceInv` |
| `PreKeyLedgerProofs!LedgerIsEnough` | the ledger implies `PublishedIsUsable` | `Promise` |
| `PreKeyLedgerProofs!ImplementsLedger` | the prekeys implement the ledger, under the same hypotheses as `PublishedUsable` | `AllInv` |
| `SessionsProofs!TypeCorrect`, `Backed`, `Trust` | types; the copies agree; session and trusted identity agree, but for an identity that came first and with a message that did not open | `IInv` |
| `SessionsProofs!NeverReplaced` | a step of a bundle never replaces a session | `IInv` |
| `SessionsProofs!ImplementsTrust` | the sessions implement `TrustedSessions` | `IInv` |
| `SessionsProofs!TrustedUntilRestart` | trust on first use, until a restart | `Remembered` |
| `RegistrationProofs!TypeCorrect`, `ProcessExact` | types; `registrationProcess` is exact | `Inv` |
| `RegistrationProofs!RegisteredTruly` | the flag says what the server has, until `shut` crosses a registration or a death cuts it off before the flag | `UserInv` |
| `RegistrationProofs!RegisteredUnlessCrossed` | the flag says what the server has, if `shut` is called only when no registration is awaited (`CalmShut`) and no death comes between the keys and the flag (`WholeShut`) | `UserInv`, `Calm` |
| `RegistrationProofs!NoteKept` | the note of due prekeys is kept, unless `reRegister` is overtaken or has no user | `NoteInv` |
| `LocalStoreProofs!TypeCorrect`, `Survives`, `OneSet` | types; the next start finds the same user; one set of keys | `KeysInv` |
| `LocalStoreProofs!Handover` | after a clean hand-over a user gets rows of his own only, and such as a failed block or save has left | `KeysInv`, `HandoverInv` |
| `LocalStoreProofs!OwnRowsWhenWaiting` | a user gets rows of his own only, if the application waits and neither saves nor blocks fail | the same, `NothingLeft` |
| `LocalStoreProofs!ImplementsIdentity` | the four keys implement `UserIdentity` | `KeysInv`, `NewestInv` |
| `SharedSessionsProofs!TypeCorrect`, `Unused`, `Latest`, `StaleNoted` | types; no used state in the table; none older than a copy; a stale copy is noted; each but for failed stores | `Inv`, `NoteInv` |
| `SharedSessionsProofs!Advances` | no save takes a ratchet back | `Inv` |
| `FileCryptProofs!ReadsOn`, `NoChunksNeverDone` | a round reads something, unless the file has one byte or its size could not be read; such a file, if it has content, is never done | `IInv`, `Chunked` |
| `FileCryptProofs!TypeCorrect`, `AllBytesKept`, `DoneIsWhole`, `BoundedMemory` | types; every byte once and in order; a file that is done is whole; memory is bounded | `IInv` |

Each of the five properties that a run shows violated has a theorem that says under
which condition it does hold, so what breaks it is known and not only that it
breaks. The conditions are on what the application does, and on failures and deaths;
whatever else the model has, such as lost, late and repeated requests, is allowed.

| Violated | Holds | Theorem |
|---|---|---|
| `PublishedIsStored` | if all calls come on the main thread and Core Data does not fail | `PublishedStored` |
| | on any threads, without such failures, if a batch is generated only when the last is stored (`OneBatch`) and the process does not die before (`DiesStored`) | `StoredInTurn` |
| `ConsumedIsGone` | until a restart, on any threads and with any failures | `ConsumedGoneUntilRestart` |
| `TrustOnFirstUse` | until a restart | `TrustedUntilRestart` |
| `RegisteredAfterShut` | as `RegisteredAtServer`, which is more, if `shut` is not called while a registration is awaited (`CalmShut`) and no death comes between its clearing of the keys and of the flag (`WholeShut`) | `RegisteredUnlessCrossed` |
| `StoresAreOwn` | if `initiate` is called only when no block of `clearData` waits (`Waits`), the process does not die in `shut` or before that block (`DiesTidily`), and neither a save nor a block fails (`SavesAndWipes`); loads may | `OwnRowsWhenWaiting` |

Why the properties alone are not inductive:

- `IdsAreDense`. A prekey is stored under an id computed when its batch was
  counted, and other batches are stored in between. `QueueClosed` says of each
  block in the main queue, and `BatchesClosed` of the next prekey of each batch,
  that its id is at most one past the rows, or that the id before it waits in
  front of it. This is why any number of threads, the wrap of the ids and a crash
  that drops the queue leave no gap.
  `DiskDense` says the same of the file, from which a death restores the table.
- `PublishedIsUsable`, under the hypotheses `Background = {}` and
  `"count" \notin Faults`. `NextIsFree` says
  that the main thread writes its next prekey to the first free id, and
  `IssuedIsHeld` says of everything saved, on its way or at the server what the
  property says of the published. Both end when the table is full: the wrap then
  overwrites rows, and the property itself ends there.
- `KeepsLedger`. Each action maps to a step of the ledger or a stutter. `BatchIsFresh`
  says that what is about to be saved has not been published, `MissingIsUsed` that a
  row without its key in the dictionary was used up or is in the file (a load has failed), and `DiskIsBehind` that the file
  has nothing the context lacks until the ids run out; these give `Keep`, `Open` and
  `Die` their guards.
- `PublishedIsStored`. On one thread `IssuedIsStored` says it of everything saved or on
  its way. On several, `TurnInv` says in addition where each prekey will go: the main
  queue continues the rows one id at a time (`InTurn`), one thread saves at a time
  (`OneSaver`), and so a block takes no row that has been given out. When a batch is
  counted while another waits both fail; when the process dies while one waits its
  blocks are gone, which is what the run `MCPreKeys_stored` finds first.
- `SendingIsExact`. Between the read of the flag and its setting nothing may begin;
  `OneSender` says that one thread at most is inside `sendPreKeys`, and none while an
  answer is awaited, so a completion block never ends another upload than its own.
- `ConsumedIsGone`. A used prekey would come back if its block ran a second time.
  `OnceInv` says that a prekey waits at one place at most, in its batch or in one
  block, and has then never been stored; `KeysAreOld` and `KeysDiffer` give a new batch
  material that is nowhere yet. A restart loads the row, and breaks it.
- The sessions. `FinishAdd` stores a session for a row `BeginAdd` has made;
  `AddingIsFresh` says that the row still has none, and without it neither
  `SessionsBacked` nor `BundleNeverReplaces` follows.
- `RegisteredIsTrue`. `ConfirmedIsKnown` extends it to answers that are on their way,
  and `OneUser` says that, until `shut` crosses a registration, all of them are about
  the present keys: what such a `shut` breaks, see `MCRegistration_shut`. While `shut`
  is between the keys and the flag, `OneUser` makes an exception, which ends when the
  flag is cleared, or with a death that `cut` records.
- `NoteIsKept`. Between the reading and the clearing in `reRegister` it is `owed`
  that changes and not the note: `NoteInv` says what `reRegister` has read while it
  is `"yes"`, and that it no longer is when the note is about to be cleared.
- `KeysOfOneSet`. `LoopInv` says what the slots before the next one hold.
  `DefaultsInv` says that between operations the keys are of one set or the last
  slot is empty, since it is written last and generation starts only with a slot
  empty. A death in `shut` breaks this (slots are cleared first to last), but
  leaves `Sound`: complete keys are of one set. Only a second death, during the
  next generation, breaks that.
- `KeepsIdentity`. `NewestInv` says that the set being written is in no slot that has
  not been written, so nobody finds it before the last write, and that generation
  began with a slot empty; with `LoopInv` and `DefaultsInv` each action maps to a step
  of the abstract identity or a stutter.
- `TrustOnFirstUse`. `Remembered` says that each session is with the trusted identity;
  `Restart` empties the identities and not the sessions, and no other action does.
- `CleanHandover`. `WaitInv` says that nobody is in memory while the block of
  `clearData` waits, and that what the context holds then is left over, `RowsInv` that
  rows outside it, saved or not, belong to the keys in the user defaults or are left
  over.
- `TableIsLatest` and `TableIsUnused`. A late save would take a session back if a
  process could save a change of a row that has moved on, or if the change were not
  the newest state. `UnsavedIsLater` says that a change is later than the row it was
  made to, `UnsavedIsOwn` that no other process has the state it ends in and that
  it has not been used, and `StatesExist` that states are numbered in order.
- `StaleIsNoted`. `NoteIsRead` says that whatever the note has gained since the
  application read it is among the losses.
- `FileCrypt`. Lengths of sequences do not determine them; `Runs` says outright that
  what is held is the last bytes read and the output the bytes before them, and
  `Droppings` where the output begins. Four lemmas about runs of bytes carry the
  arithmetic of chunks and blocks. `Chunked`, for `RoundsReadOn`, says that the size of
  a chunk is the one that `Begin` has computed.

Only model-checked: the liveness properties (`SendingEnds`, `BundlesCompleted`,
`RegistrationEnds`, `Terminates`), because the proof system has neither ENABLED nor
induction over behaviours; for `Terminates` the step it rests on, `RoundsReadOn`, is
proved. And the violations, each of which is one behaviour. Every other property of
the runs is stated by a theorem.

## Not modelled, and why

- The vendored frameworks (`*.framework`) are binaries with their headers; the
  modules state what the code relies on: numbering and wrapping of prekey ids, the
  order of the store callbacks, one ratchet state per message. Core Data and the
  server are external in the same way.
- AES and GCM, and the message and file envelopes: strings joined and taken apart in
  one expression around CryptoSwift, without state. `RemoteSession.identifier` and its
  inverse are of the same kind; an identifier with fewer parts traps.
- Safety numbers: `VerifySafety` hands identity keys to libsignal and keeps nothing.
  What `verify` returns for a code that does not match is listed as a hazard.
- Message keys: one keyed table with insert-or-update and lookup. It has no second
  copy to disagree with; the block of `clearData` that empties it is in `LocalStore`.
- `syncRegisteredDevices`: one flag that nothing else in the code depends on.
- Sender keys are stored and never used. `generatePreKey`, for one prekey, is reached
  only with `preKey: true`, which nobody passes.
- A released delegate: the delegate is weak, and without it no request leaves and no
  block runs; every module assumes that the application holds it.

## Departures no run states

The models reach these states too. No line of the repository says that they should
not come about, so they are hazards with a note, or exceptions that a property names,
and not runs.

- `Sessions`: a bundle that the library refuses leaves a row without a session
  (`SecretSession.swift:126`). Later requests exclude the device and
  `canAddRemoteSession` refuses its bundles, so only a prekey message from the
  device, or `clearBundles`, helps.
- `Sessions`: a prekey message renews the session of a row but not its identity
  column (`RemoteSession+DataStore.swift:90`), which safety numbers show.
- `Sessions`: an answer without bundles calls no completion block
  (`iZSecretChat.swift:151`).
- `Registration`: the answer to the removal of another device clears the flag of
  this one (`SecretChatAPIHandler.swift:91`).
- `Sessions`: the identity of a prekey message that does not open stays trusted
  (`SecretSession.swift:271`), after a restart beside a session with another one: the
  exception of `TrustMatchesSession`.
- `Registration`: `reRegister` clears a note of due prekeys that was made after it
  has read it, or that the registration it asked for cannot serve because another is
  running, or because there is no user (`iZSecretChat.swift:98`): the exceptions of
  `NoteIsKept`.
- `Registration`: a death in `shut` between the keys and the registered flag
  (`iZSecretChat.swift:239`, `244`) leaves the flag to the next keys, which are then
  never registered: the exception `cut` of `RegisteredIsTrue`.
- `LocalStore`: after one death in `shut` and one while keys are generated, the
  keys are of two sets (`iZSecretChat.swift:220`).
- `LocalStore`: the late block of `clearData` deletes rows of the next user
  (`SecretChatDataStore.swift:97`).
- `LocalStore`: a deletion that fails in that block is swallowed, and a row whose save
  failed outlives `shut` in the context (`SecretChatDataStore.swift:103`,
  `RemoteSession+DataStore.swift:93`): the exception `leftover` of `CleanHandover`.
- `FileCrypt`: a file of one byte, or one whose size cannot be read, is put through in
  chunks of no bytes, without end (`SecretChatFileHandler.swift:63-65`): the exceptions
  of `RoundsReadOn` and `Terminates`.
- `PreKeys`: the batch that does not fit overwrites the newest ids before the
  oldest (`iZSecretChatHelper.swift:175`).
- `SharedSessions`: a note that replaces another, one that is cleared unread, a
  session deleted by the other process, a copy whose store has failed, and a context
  that a conflict keeps from saving anything (`RemoteSession.swift:63`, `RemoteSession+DataStore.swift:92`): the
  exceptions of `StaleIsNoted`, `TableIsUnused` and `TableIsLatest`.
