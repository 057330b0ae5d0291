# libmumble in TLA+

libmumble is a C++20 library for the Mumble voice chat protocol: TLS connections
that carry packs, a `Peer` that owns threads for TCP and UDP, the OCB2 cipher of the
voice packets, and codecs.  Two programs use it, `ExampleServer` and `ExampleClient`.
This directory holds TLA+ modules of the parts whose correctness depends on order,
concurrency or arithmetic, the TLC configurations that check small instances of them,
and theorems that TLAPS proves for every value of the constants.

Paths below are relative to the repository (`src/Connection.cpp` is the library's,
`examples/ExampleServer/Node.cpp` the server's).

```
tlc -workers 2 -config ConnectionSession.cfg MCConnection   # check one run
tlapm ConnectionProofs.tla                                  # check the proofs of a module
```

`PROJECT.json` lists components, runs, mutants, the map from definitions to source
lines, findings, hazards and theorems in machine-readable form.

## 1. The system

### Components

| Component | State | Operations | Interacts with |
|---|---|---|---|
| `Connection` (`src/Connection.cpp`) | `m_closed`, `m_timeouts`, recursive `m_mutex`, two monitors | `operator()` (handshake), `process`, `write`, `P::handleState` | TLS socket (codes), Monitor (waits), application (callbacks `opened`, `pack`, `closed`, `failed`), Peer (who calls `handleState` without the mutex) |
| `SocketTLS` (`src/TLS.cpp`) | OpenSSL objects with the records they read ahead, `m_closed` | accept, connect, read, write, pending | OpenSSL |
| `Monitor` (`src/Monitor.cpp`) | `m_fds`, `m_targets`, the kernel's interest list, a socket pair | add, del, trigger, wait | kernel |
| `Peer`, TCP (`src/Peer.cpp`) | `m_thread`, `m_halt`, `m_socket`, `m_connections`, monitor | start, stop, bind, unbind, addTCP, delTCP, `threadFunc` with a pool of workers | Monitor, Connection, application |
| `Peer`, UDP | `m_thread`, `m_halt`, `m_socket`, monitor | start, stop, bind, send, `threadFunc` | Monitor, application |
| `User` (ExampleServer) | two nonces, the decrypt history, good/late/lost, endpoints | encrypt, decrypt, send, connect | CryptOCB2, Connection |
| `UserManager` (ExampleServer) | `m_users`, `m_endpoints` under `m_mutex` | reserveID, add, del, tryDecrypt, num, full, max | User |
| `Node` (ExampleServer) | the Peer and its feedback | callbacks for admission, sessions, encrypted and plain UDP packets | UserManager, Peer, Connection |
| `ExampleClient` | a Peer, a condition variable | main | Peer, Connection |
| `Crypt` | `m_key`, `m_nonce`, `m_padding`, OpenSSL's context | setCipher, setKey, setNonce, genKey, reset, encrypt, decrypt | OpenSSL, which keeps cipher, expanded key and nonce too |
| `CryptOCB2` | key, nonce, OpenSSL's context | setKey, setNonce, encrypt, decrypt | OpenSSL, for single blocks |
| `Pack`, `Message` | a header and a buffer | a constructor and an `operator()` per message type | protobuf |
| `PacketDataStream` | a buffer, a place in it, `m_ok`, `m_overshoot` | read and write of integers, floats and buffers, skip, rewind, truncate, undersize | its callers, who must use the same order of types |
| `Lib` | an atomic reference count | init, deinit | OpenSSL |
| `Types` (`Version`) | | conversion between the 32- and the 64-bit version | |
| `Socket`, `SocketTCP`, `SocketUDP` | a descriptor | open, accept, close, send, receive | kernel |
| `Cert`, `Key`, `Hash`, `Base64`, `Opus`, `Endpoint`, `IP`, `Endian` | wrappers | conversions | OpenSSL, libopus |

### How they interact

A server node binds and starts a Peer.  The Peer's TCP thread waits on its Monitor and
hands each event to a pool of workers.  For the listening socket a worker accepts
sockets and calls `Node`'s connection callback, which reserves an ID in the
UserManager, runs the whole handshake of a new Connection, and inside its `opened()`
callback lists the user, reads what is there and registers the connection with the
Peer.  From then on events of the connection's socket reach workers, which call
`process(false, halt)` for input or `P::handleState` for a hang-up, the latter without
the connection's mutex.  When the connection ends, exactly one of `closed()` and
`failed()` should reach the application, which unregisters and unlists the user.
UDP threads look users up by endpoint, or try every user's key (`tryDecrypt`), and
decrypt under the nonce of which one byte travels in the packet.

### What is hard about it, and what makes each part correct

* **Connection.** Several threads, one of them without the mutex, may find the end of a
  connection at the same time.  *Correct*: the end is reported once, after `opened()`;
  a fatal return value means it is reported; reads and callbacks are serialised;
  timeouts are counted from the last success; calls return when a timeout is set.  Packs
  arrive cut into TLS records anywhere, and OpenSSL reads ahead of those who ask the
  kernel whether there is more.  *Correct*: packs come out whole and in order, and none
  stays behind in OpenSSL once a worker is done.
* **Peer and Monitor.** `stop()` races the loop between its test of `m_halt` and its
  wait; descriptor numbers are closed and given out again while a round of events still
  names them; the view of events may be smaller than what the kernel reports.
  *Correct*: `stop()` returns and leaves nothing running; one worker per connection; a
  worker's descriptor is its own; registered connections are polled and served.
* **Peer, UDP.** One thread reads until its socket is empty, and what it learns of an
  empty datagram is the `errno` of some earlier call; sockets are replaced between stop
  and start, while the monitor keeps the numbers of old ones and triggers nobody read.
  *Correct*: a socket that was bound is waited for; a datagram that waits is read, or the
  application is told of a failure; `stop()` returns and leaves nothing running.
* **User.** Packets are lost, repeated, delayed and damaged; nonces carry and borrow
  through bytes.  *Correct*: no packet is accepted twice; first arrivals in the window
  are accepted; statistics add up; a rejected packet changes nothing.
* **UserManager and Node.** Admission and removal are several critical sections, run by
  the workers of several nodes.  *Correct*: session IDs are unique; connected users are
  listed and ended users are not; clients get through by UDP; limits and counts are
  what the protocol says.
* **Ciphers.** An object and OpenSSL's context hold the same things twice, and the context
  knows the key for one direction at a time.  *Correct*: after any sequence of calls a
  packet is processed with the key and nonce that were set, in its direction; what was
  encrypted is decrypted, whole blocks or not, and anything else is refused or harmless.
* **Messages and streams.** Every member of every message has its own pair of statements,
  and optional ones a presence beside the value; versions travel in two fields; integers
  have six lengths and two kinds of complement.  *Correct*: reading gives back what was
  sent, also from implementations that send other fields than this one does; a buffer
  that was too small is short by exactly the size reported.
* **Lib.** Reference counting in two steps, a test and a decrement.

The hazards, each at its line and with the properties that catch it, are listed under
`hazards` in `PROJECT.json`.

## 2. The modules

| Module | Models | Role |
|---|---|---|
| `Session` | what a Connection promises: `opened()` once, then one of `closed()`, `failed()` once, as counts of calls | abstract specification |
| `Connection` | `src/Connection.cpp`, and what Peer's worker does with it | implements `Session` |
| `ConnectionProofs` | – | theorems about `Connection` |
| `NonceWindow` | `User::encrypt`, `User::decrypt` and the network between them | |
| `NonceWindowProofs` | | theorems about `NonceWindow` |
| `NonceDigits` | the byte loops of the nonce | justifies the numbers of `NonceWindow`; part of `Codecs` |
| `Monitor` | `src/Monitor.cpp`, epoll build | operators, used by `PeerTCP` and `PeerUDP` |
| `PeerTCP` | the TCP side of `src/Peer.cpp` | EXTENDS `Monitor` |
| `PeerTCPProofs` | | theorems about `PeerTCP` |
| `PeerUDP` | the UDP side of `src/Peer.cpp`, `src/UDP.cpp` | EXTENDS `Monitor` |
| `PeerUDPProofs` | | theorems about `PeerUDP` |
| `UserManager` | `UserManager.cpp` | operators, used by `Node` |
| `Node` | admission, sessions and UDP lookups of `Node.cpp` | EXTENDS `UserManager` |
| `NodeProofs` | | theorems about `Node` and `UserManager` |
| `Message` | the structures of `Message.hpp`, `Version` of `Types.hpp` | initial values, blobs |
| `Pack` | `src/Pack.cpp` | EXTENDS `Message`: tables of statements |
| `MessageExchange` | a message sent and read | EXTENDS `Pack`: state and properties |
| `PacketDataStream` | `PacketDataStream.hpp` | operators on streams |
| `StreamExchange` | items written and read | EXTENDS `PacketDataStream`: state and properties |
| `PacketDataStreamProofs` | | theorems about the integers of a stream and about `StreamExchange` |
| `Crypt` | `src/Crypt.cpp` and OpenSSL's context | |
| `OCB2` | the calculations of `src/CryptOCB2.cpp` | operators on blocks |
| `CryptOCB2` | a `CryptOCB2` object with its context | EXTENDS `OCB2`: state and properties |
| `CryptProofs` | | theorems about `Crypt`, `CryptOCB2` and `NonceDigits` |
| `Framing` | `process()` and `SocketTLS::read()` on bytes | state and properties; part of `Codecs` |
| `PackProofs` | | theorems about `Framing` and `MessageExchange` |
| `Codecs` | what the library makes of bytes, side by side | EXTENDS `MessageExchange`, `StreamExchange`, `Crypt`, `CryptOCB2`, `NonceDigits`, `Framing` |
| `MCConnection`, `MCNonceWindow`, `MCNode`, `MCPeerTCP`, `MCCodecs` | instances for TLC | |

### Connection

A thread's call stack is `pc[t]`, a function from the four entry points to the place in
each: `operator()` ("connect"), `process`, `write`, and the worker's `handleState`
("event").  `opened()` may call `process` and `write`, and `pack()` may call `write`, on
the same thread, which the recursive mutex allows; `Runs(t, f)` picks the innermost
one.  `owner` is the mutex.

| Model | Code |
|---|---|
| `Connect`, `Opened`, `ConnectDone` | `operator()`: monitors (a second call fails there), handshake, `m_closed.clear()`, `opened()` |
| `Process`, `PackDone`, `More` | `process()`: header, body, `pack()`, the loop on `pending()` |
| `Write` | `write()` |
| `Cancel`, `CallSuccess`, `CallRetry`, `CallBusy`, `CallFatal` | one turn of the loops of `P::read`, `P::write` and the handshake: `halt()`, the TLS call, `handleCode()` |
| `WaitTimeout`, `WaitEvent` | `handleWait()` after the monitor returned, `handleState()`, the rest of `handleCode()` |
| `End`, `Report` | `if (!m_closed.test_and_set())` and the callback |
| `WorkerLookup`, `WorkerState`, `WorkerProcess`, `WorkerDone`, `Add`, `Stop` | what `Peer::TCP::threadFunc`, `addTCP` and `stop` do to a connection |

A TLS call is atomic and may return any code `SocketTLS` produces.  The test-and-set and
the callback are two actions, so other threads run in between.  `m_timeouts` has no
initialiser in the class and starts with any value; its increment wraps at
`TimeoutsMod`, the model's 2^32.  `opened`, `ended`, `how` and `expired` are ghosts that
the properties read.  The first three are those of `Session`, whose variables they stand for
unchanged: a second `opened()`, or a second `closed()` or `failed()`, raises a count that no
action of `Session` raises twice.  `expired` counts, as `m_timeouts` should, the waits that
timed out since the last TLS call that succeeded.  A wait that ends with an event resets
neither of them: if the call after it finds a part of a record only (`Retry`, or a wait
again), the timeouts before and after it add up to the number at which `failed(Timeout)` is
called.

### Framing

`Connection` leaves bytes out; `Framing` has little else.  The peer writes packs of a header
and a body, and records of TLS hold any number of their bytes.  A record is in the
kernel, then among those OpenSSL has read ahead (`SSL_set_read_ahead`), then decrypted:
`record`, whose length is `pending()`.  `reading` is the place in `process()` with what it
has read of the pack.

| Model | Code |
|---|---|
| `ReadRecord`, `ReadAhead`, `TakeBytes` | a turn of `P::read`: `SSL_read_ex()` takes bytes of one record, `Retry` asks for the rest |
| `Completed` | `process()` after a read: the size in the header, `Invalid`, the read of the body |
| `ReadBusy`, `ReadCancel` | the read returns without all its bytes, and `process()` with it |
| `Deliver` | `pack()`, the loop on `pending()`, and the worker's loop around `process()` |
| `CallProcess`, `Register`, `Event` | who calls it: the application in `opened()`, which waits, then Peer's workers, woken by what the kernel has |

Bytes that are not a header may say any size, or one that is refused.  `cut` is a ghost:
`process()` has given up a part of a pack.  `InOrder`, and of `Drained` what it says of packs,
hold until then.  Afterwards they are false of the code: a header that was read before `Busy`
or `Cancel` is dropped, its pack is never delivered although all of it arrives, and what
follows is read as a header.  That OpenSSL keeps nothing back (the other half of `Drained`)
holds always.

### NonceWindow and NonceDigits

A nonce is its lowest byte and the number its other bytes make.  `NonceDigits` checks
that the carry loop of `encrypt()` and the carry and borrow loops of `decrypt()`
compute that number's successor and predecessor.  `Receive` is the whole of `decrypt()`
for an undamaged packet; `Guess`, `Lost`, `Plausible` and `Restores` are its branches;
`ReceiveDamaged` is a packet whose tag does not match.  The cipher is ideal.  The
network is the set of packets ever sent, so any of them may arrive any number of times
and in any order, or never.  The wrap of all 16 bytes after 2^128 packets is left out.

### Monitor and PeerTCP

`fds` is the Monitor's own bookkeeping, `polled` the kernel's: closing a descriptor
takes it from the second only.  The socket pair of `trigger()` blocks when it is full.
`threadFunc` is `Started`, `Check`, `Resize`, `Wait` or `WaitTimeout`, `Stopped`; the
events of a round are `tasks`, each with a worker of its own, and `Resize` is the
barrier of `parallel_for_each`.  Worker actions are the two branches of the lambda: for
the listener `Accept`, `Keep` (the callback calls `addTCP` and returns true), `Refuse`,
`AcceptDone`; for a connection `Lookup`, `ProcessBusy`, `ProcessCancel`, `EndSession`,
`Release`.  The control thread runs `Start`, `StopHalt`, `StopTrigger`, `StopJoin`,
`Bind`, `BindNoFD`, `Unbind`; `AddConnected` is the client's use.  The environment is
`ClientArrives` and `PeerSends`.  A callback that ends a session removes its own connection
(`EndSession`), as those of the examples do.  `Resize` directly precedes the wait and nobody
registers in between, so the view cuts nothing off; that it would, without `resize()`, is what
the mutant of `EventuallyServed` shows.

### PeerUDP

The same control thread and trigger as in `PeerTCP`, and a loop without workers:
`Started`, `Check` (`m_halt` and the event of the last wait), `Wait` or `WaitTimeout` with
room for one event, the inner loop's read (`ReadDatagram`, `ReadEmpty`, `ReadNothing`,
`ReadError`) and the callback it leads to (`Return`), `Stopped`.  Of a datagram the model
keeps what the thread tells apart: whether it has a byte, whether that is the type of a
Ping, whether the rest parses, whether it looks like a legacy ping.  `errno` is state of
the thread, because `recvfrom()` returning 0 makes the code of whatever it holds.
`Bind`, `BindNoFD` and `Unbind` replace the socket while no thread runs; `Elsewhere` is the
rest of the process, which takes and gives back descriptor numbers; `Arrive` and
`Unreachable` are the network.

### Message, Pack and MessageExchange

A message is a function from its members to sequences of values, so that an absent
optional, a plain member and a repeated one have one form; a protobuf message is one from
the same names to what its fields hold.  `Pack` has, for each type, a table of the kind of
statement that stores each member (`set`, `setIf`, `setUnlessEmpty`, `addEach`, the version
pairs) and of the kind that reads it (`get`, `getIf`, `pushBack`, ...); `Store` and `Fetch`
say what each kind does.  `Required` fields and mistaken types are refused as
`ParseFromArray()` and the type checks do.  In `MessageExchange` one of `Messages` is packed
(`SendTCP`, `SendUDP`) or one of `Foreign`, what another implementation may send, is put on the
wire (`SendForeign`, `SendEmptyTunnel`), and read by a reader that asks for its type or another
one.  `IsMessage` and `IsProto` say which messages there are at all: members that hold one value,
one or none, or any number, with versions of four numbers of 16 bits.  `MCCodecs` tries those
with up to two members changed from their initial values, and foreign ones with any one
field present, absent or stated the legacy way.
`RoundTrip` names the members whose presence the reader does not ask for; everything else
must come back as it was.  `ReadAsMeant` says that a field which was left out, of the message
or of an element nested in it, is not taken for zero, and states the two exceptions that the
code makes: `UserState.user_id` (`Pack.cpp:793`; `MumbleTCP.proto:189` has it for registered
users) and the `last_channel` of a listed user (`Pack.cpp:989`).

### PacketDataStream and StreamExchange

A 64-bit integer is its eight bytes, so that `Encode` and `Decode` are the code's masks and
shifts on whole bytes, and negative numbers its complements.  The operations return the
stream after them.  `StreamExchange` writes up to two items into a buffer that may be too
small, tries again with one larger by `undersize()`, truncates the stream or not, loses
bytes at its end or not, and reads the items back, once or again after `rewind()`.
`double` is treated as a 64-bit integer is, a string as a buffer.

### Crypt

`ctx` is OpenSSL's context: its cipher, the key with the direction it was expanded for, the
nonce it has left.  Actions are the member functions; `Rekeyed` is what `process()` does
when the direction changes.  An emptied vector keeps its storage: `stored` says so, and
`DataOf` what OpenSSL then reads through `data()`.  The result of the cipher itself
(whether the tag matched, an allocation succeeded) is a nondeterministic choice.

### OCB2 and CryptOCB2

`OCB2` has the two loops over blocks, the last block with its length, the checksum, the
doubling (`s2`) and tripling (`s3`) of the offset and the countermeasure that flips a bit of
a block of silence, over blocks and bytes of any size; AES is any permutation per key.
`CryptOCB2` is the object: each packet runs as `encrypt()` or `decrypt()` with
the direction switches of the context in between, and a ghost in `sealed` and `opened`
says whether every block of a packet was run with the key of `key()`, expanded for the
direction needed.  `decrypt` refuses by all bytes of the last block, as the code does with
`std::equal`; the comment above it (`CryptOCB2.cpp:175-180`) speaks of all bytes but the last.
`PacketRoundTrip` takes no side: a block that is delta must be refused, and what is refused
must be delta in all bytes but the last.

### UserManager and Node

Every operation of UserManager is an operator over `users`, `endpoints` and `own`, one
critical section each; `tryDecrypt` is two (`TryDecrypt`, `TryAssociate` in `Node`).  In
`Node` a socket moves through the stages of the connection callback (`CheckFull`,
`Reserve`, `Handshake`, `OpenedAdd`, `OpenedProcess`, `OpenedAddTCP`), its session
through the end callback (`End`, `EndDelTCP`, `EndDel`), and a UDP thread through the
encrypted callback (`Encrypted`, `TryDecrypt`, `TryAssociate`, `Decrypt`); all of them
interleave.  A Connection appears as what `Session` and `FatalReturnEnds` say of it.

## 3. The runs

| Run | Checks | Instance |
|---|---|---|
| `ConnectionSession` | `TypeOK`, `EndAccounted`, `Serialised`, `SessionSpec` (refinement), `FatalReturnEnds` | the worker and two application threads; one retry of a timeout; two steps of network progress |
| `ConnectionLive` | `TimeoutsSinceSuccess`, `EndIsReported`, `CallsReturn` | the worker and one application thread; two timeouts, counter of width 3 with any garbage |
| `NonceWindow` | `TypeOK`, `Accounting`, `LostIsMissing`, `FreshAccepted`, `HistoryTells`, `NoReplay`, `RejectIsNoop` | bytes of 8 values, window 3, ten packets from just below a carry |
| `NonceWindowLost` | `LostNeverReceived`, violated | the same |
| `Codecs` | `RoundTrip`, `ReadAsMeant`, `ItemsRoundTrip`, `UndersizeExact`, `ContextAgrees`, `PacketRoundTrip`, `DoublesInField`, `InOrder`, `Drained`, `StepsCount` | every message type, 20 integers of 64 bits, two ciphers with three keys, blocks of two 3-bit bytes, nonces of four digits of base 4, three packs of two or four bytes |
| `CryptGeneratedKey` | `GeneratedKeyFits`, violated | the same |
| `Node` | `UniqueSessions`, `ConnectedIsListed`, `EndedIsUnlisted`, `EventuallyRouted`, `EndIsCleanedUp` | three sockets, three permitted users, one UDP thread, one endpoint |
| `NodeUserCount` | `UserCount`, violated | |
| `NodeMaxUserCount` | `MaxUserCount`, violated | |
| `PeerTCPRestart` | `OneWorker`, `QuietAfterStop`, `HeldIsOpen` | three descriptors, three clients, rebinding, two datagrams in the socket pair |
| `PeerTCPLive` | `RegisteredIsPolled`, `StopReturns`, `EventuallyServed` | the same without giving up a bound socket |
| `PeerUDP` | `QuietAfterStop`, `BoundIsPolled`, `StopReturns`, `EventuallyRead` | two descriptors, two datagrams waiting, two triggers |

### Why the bounds are enough

* `ConnectionSession`: the mutex admits one thread and `handleState` runs in one worker,
  so the worst race has one thread that holds the mutex, one that waits for it, and the
  worker without it.  `MaxActivity` is consumed by the handshake and one pack.  The
  theorems remove the bounds.
* `ConnectionLive`: `Timeouts = 2` and `TimeoutsMod = 3` are the smallest numbers at which
  a counter can be reset between two timeouts, and can wrap.
* `NonceWindow`: ten packets from a lowest byte of 6 in base 8 carry twice, and leave
  the window on both sides.  Base 8 keeps `Half > Window`.  The theorems hold for every
  base and window, and any number of packets.
* `Codecs`: its parts share no state, so each behaviour is one of them (`working`).
  * Messages: the statements of different members do not see each other, except the header
    of an Audio message and the version pairs; two changed members and one changed foreign
    field meet every statement in every state of its member.  The theorems hold for messages
    with any values in all their members.
  * Streams: the integers lie on both sides of each length's limit and of each
    complement's; buffers of 0, 1, 4 and 20 bytes are too small from the start, inside
    an item, between items, and large enough.  The theorems hold for any integers, buffers and
    number of items.
  * `Crypt`: two ciphers with keys of different sizes, two keys of one size.  The theorem
    removes the bound.
  * `CryptOCB2`: up to two blocks in the loop and a last one, short and full, with bits in
    the byte that the countermeasure looks at.  Three bits and two bytes are the fewest
    with a carry between bytes, one out of the block, and a bit beside both.  The ciphers
    are two affine permutations.  One byte of the tag travels.  The theorems hold for packets,
    blocks and ciphers of any kind.
  * Nonces: four digits, so that a carry stops at once, half-way, at the last digit, and
    runs out of the number.  Every digit string is an initial state.  The theorem holds for
    any number of digits and any base.
  * Packs: a header of two bytes can be cut inside, and a body of two bytes is as long as a
    header, so that one can be taken for the other; one of none is the pack without a
    second read.  Three packs in any split into records, any number of which are read
    ahead, are one that is being read, one behind it in the same record and one in
    another.  The theorems hold for any number of packs of any sizes.
* `PeerUDP`: two descriptors are a socket and its replacement, or a number that the rest of
  the process took meanwhile; two datagrams are one that is read and one that is behind
  it; two triggers are a stale one and a new one.
* `Node`: three users are the fewest with two that hold IDs and one that finds none.
* `PeerTCP*`: three descriptors are a listener and two connections, or one connection
  whose number is given out again while the other is held.  Numbers are interchangeable
  (symmetry in the safety run only).

### Deadlock

Deadlock is checked except in the runs of `PeerTCP` and `PeerUDP`, where the system may stop:
`trigger()` sends into a blocking socket pair, and a loop that sees `m_halt` before it
waits leaves the datagram unread, so after enough restarts `stop()` blocks for ever.
The buffer is two datagrams in the model and some hundreds in reality.

### Fairness

* `Connection`: weak fairness of each thread's own steps (the operating system schedules
  it), strong fairness of the return of a callback.  `CallsReturn` needs the finite
  `Feedback::timeout` that `WaitTimeout` stands for; without one the code waits for ever,
  and the model does not claim otherwise.  The bound `MaxActivity` says that the
  peer falls silent eventually.
* `Node`: weak fairness of each handler and each UDP thread; strong fairness of a client's
  packets reaching some node, for `EventuallyRouted` only.
* `PeerTCP`: weak fairness of the loop, of `stop()`'s steps and of the worker of each
  descriptor.  Nothing is asked of the clients, the network, or the wait's timeout:
  `StopReturns` has to follow from the trigger.
* `PeerUDP`: weak fairness of the thread and of `stop()`'s steps.  The network is free, so
  `StopReturns` is claimed unless datagrams arrive for ever: the inner loop reads on
  without a look at `m_halt`.

### What the runs found

* `NodeUserCount` (code bug): the connection callback of `Node.cpp` reserves an ID before
  the handshake and does not release it when `User::connect()` fails.  The null entry is
  counted by `num()`, which pings report as the users "currently connected", and each
  failed handshake takes one ID away for good.
* `NodeMaxUserCount` (code bug): `reserveID()` searches up to but excluding the largest ID,
  while `max()` includes it: one user fewer than configured is admitted, and with
  `maxUsers = 1` nobody is.  It follows that `full()` never holds unless `maxUsers` is 0;
  sockets are refused by `reserveID()`.
* `NonceWindowLost` (divergence): `m_lost` also counts packets that arrived, but later than
  the window of 30, or with a second byte that the zero-initialised history takes for a
  repeat; the protocol calls the field "the amount of packets never received".
* `CryptGeneratedKey` (code bug): `setCipher()` sizes key and nonce for the cipher and empties
  both right after, so `genKey()` makes an empty key, which `setKey()` takes without
  telling OpenSSL; the test of the class uses them as a pair.

Observations that contradict no text of the repository, and are hazards rather than
findings: `bind()` and `unbind()` leave the old descriptor number in the Monitor, which
then refuses a connection that gets the number (`RegisteredIsPolled` is checked without
rebinding); the first packet from a new endpoint is decrypted twice and dropped;
entries of `m_endpoints` may outlive their user; a user may be registered with
Peer after its session ended inside `opened()`; zero-initialised history bytes refuse
out-of-order packets whose nonce has second byte 0, and those left from 2^16 nonces ago the
ones that share both low bytes with them (`FreshAccepted` names both cases,
`TakenForRepeat`; the instance of its run meets neither); an event between two timeouts does
not make `Connection` count anew; `CryptOCB2` compares one byte more than its comment says.  A
pack of which `process(false)` has read a part when it returns `Busy` or `Cancel` is lost,
and the bytes that follow are read as a header (`cut` in `Framing`).  `pending()` counts the
decrypted record only: packs that OpenSSL had read ahead when `process()` returned inside
`opened()`, or after a `Cancel`, wait until the peer sends more.

### Mutants

Every property of a passing run is violated by at least one plausible bug in the code:
the operators marked "Mutant" in the modules, each next to the definition it changes
(listed under `mutants`).

## 4. The theorems

All are proved from the assumptions named in the modules: `ThreadsAssumption` (the worker
is a thread, `NoThread` is none), `TimeoutsAssumption` (the counters fit their width) and
`ActivityAssumption`; `BaseAssumption` (the base is twice `Half`), `WindowAssumption`
(the window is at most `Half`), `InitAssumption`, `MaxAssumption` (the packets of a session
are finitely many); and those named with each module below.

**`ConnectionProofs`**, for any number of threads, any width and garbage of `m_timeouts`
and any amount of network activity:

| Theorem | States |
|---|---|
| `TypeCorrect` | `Spec => []TypeOK` |
| `EndAccountedCorrect` | `Spec => []EndAccounted` |
| `SerialisedCorrect` | `Spec => []Serialised` |
| `SessionCorrect` | `Spec => SessionSpec`: Connection implements Session |
| `FatalReturnEndsCorrect` | `Spec => FatalReturnEnds` |
| `TimeoutsSinceSuccessCorrect` | `Spec => []TimeoutsSinceSuccess` |

`EndAccounted` is not inductive: that an `End` step takes nothing from another reporter
depends on who may be where.  The inductive invariant `IInv` adds `Stacks` (which call
stacks exist; in particular the worker is never in `handleState` and `process` at once,
and never in the handshake), `Locked` (a thread is inside a locking function exactly
when it owns the mutex), `Noted` (a thread owns a note exactly while it is at "report"),
and `Begun` (before `opened()` nobody but one thread in its handshake touches the
connection, because the monitors admit one handshake and Peer does not know the socket
yet).  One lemma per elementary change of the stacks (`ReturnKeeps`, `WinKeeps`,
`HandshakeKeeps`, `OpenedKeeps`, `EnterKeeps`, ...) carries the argument; every action is
one of them.  The timeouts need one more conjunct, `Counted`: after the handshake
`m_timeouts` is at most the number of waits that timed out since the last success, and a
thread that noted a timeout holds the mutex, so no success resets that number before it
reports.

**`NonceWindowProofs`**, for every base, window and first nonce, and without the bound on
the number of packets mattering:

| Theorem | States |
|---|---|
| `TypeCorrect` | `Spec => []TypeOK` |
| `AccountingCorrect` | `Spec => []Accounting` |
| `HistoryCorrect` | `Spec => []HistoryTells` |
| `NoReplayCorrect` | `Spec => NoReplay` |
| `LostIsMissingCorrect` | `Spec => []LostIsMissing` |
| `RejectIsNoopCorrect` | `Spec => RejectIsNoop` |
| `FreshAcceptedCorrect` | `Spec => []FreshAccepted` |

The nonce guessed for a plausible byte lies at the distance from the last one that the
statistics add (`GuessIsAhead`, `GuessIsLate`).  So it is either newer than everything
accepted, or inside the window, where by `HistoryTells` the history knows every accepted
nonce: two nonces with the same lowest byte are at least a base apart (`SameByte`), and a
base is more than a window.

That nothing wanted is refused needs more.  For a first arrival near enough the guess is the
nonce itself (`GuessIsRight`), so only the history can refuse it, when it holds the second byte
of that nonce under its first.  `FreshInv` says whose second byte the history holds: that of
an accepted nonce with the same first byte, or the 0 of the beginning, as long as no nonce with
that first byte was accepted.  These are the two cases of `TakenForRepeat`, which `FreshAccepted`
states as exceptions for packets out of order, since the code does not rule them out:
`genNonce()` is random, and nothing ends a session before the second byte returns.  So the
theorem needs no assumption about the session.

**`PackProofs`**, the bytes: for any size of header, bodies of any sizes, any number of packs and
any cut into records (`FramingAssumption`):

| Theorem | States |
|---|---|
| `FramingInvariance` | `FramingSpec => []FInv`, the inductive invariant |
| `InOrderCorrect` | `FramingSpec => []InOrder` |
| `DrainedCorrect` | `FramingSpec => []Drained` |

Neither property is inductive: what is delivered next depends on where the bytes are that are
not.  `FInv` says that, as long as `process()` gave up no part of a pack, the packs delivered,
the bytes read of the next one, those of `record`, of the records read ahead, of those in the
kernel and those not sent make, one behind the other and in this order, the bytes of the packs
that were written (`Chain`).  A byte of the model knows its pack and place, so this is a
statement about neighbours: each part is a run of successive bytes (`Run`, `Runs`) that begins
where the part before it ended (`After`, `AfterAll`).  Every step moves bytes from the front
of one part to the back of the part before it, so a run is split (`RunSplit`) and joined
(`RunJoin`).  A read that has all it asked for has a header, whose size is then right, or the
body that belongs to it (`CompletedStep`).  `Drained` needs in addition that a worker
which sleeps has an empty `record` and nothing read ahead (`Rested`): only a
read that ends with `Busy` puts it to sleep, and a read ends so when both are used up
(`RestedStep`); those that take bytes leave the worker awake (`TakeRests`).

**`PackProofs`**, the messages: for any messages of the library (`MessagesAssumption`: each is an
`IsMessage`) and any fields another implementation fills (`ForeignAssumption`: an `IsProto`):

| Theorem | States |
|---|---|
| `RoundTripCorrect` | `ExchangeSpec => []RoundTrip` |
| `ReadAsMeantCorrect` | `ExchangeSpec => []ReadAsMeant` |

Each type has a lemma (`TablesVersion`, `TablesAuthenticate`, ...) that goes through its tables:
every member is stored and read, by one of seven pairs of statements (`Pairs`), and a required
field is always set.  What one pair makes of a member is `ReadsBack`, for any value it may hold:
the value itself, or zero for nothing where the reader does not ask for presence.  The elements
of a vector are small messages with tables of their own (`ElementBack`), read one by one in
their order (`VectorBack`).  Together they give whole messages (`TCPBack`, `TunnelBack`); UDP has
pairs of its own, since proto3 sends no zeros (`UDPBack`).  For `ReadAsMeant` the inductive
invariant `ExchangeInv` says what may be on the wire, the library's packets or any others, and
that what was received was read from it; `KnownAsStated` follows a version through both
fields, `ReadLeavesUnset` and `ElementLeavesUnset` an absent field through each statement that
may read it.  The invariant was checked on the run before it was proved.

**`PeerTCPProofs`**, for any finite set of descriptors, any number of clients and any size
of the trigger's buffer (`FDsAssumption`, `TriggerAssumption`, `MaxTriggersAssumption`,
`NoFDAssumption`, `BoundsAssumption`):

| Theorem | States |
|---|---|
| `TypeCorrect` | `Spec => []TypeOK` |
| `OneWorkerCorrect` | `Spec => []OneWorker` |
| `QuietAfterStopCorrect` | `Spec => []QuietAfterStop` |
| `HeldIsOpenCorrect` | `Spec => []HeldIsOpen` |
| `RegisteredIsPolledCorrect` | `Spec => []RegisteredIsPolled`, assuming `~Rebinds` |

The inductive invariant says who owns a descriptor.  Tasks exist only between a wait and
the barrier behind the pool (`Round`), so a wait begins with none and makes one per
descriptor, which is `OneWorker`.  What `accept()` returned is open and is neither the
socket's, a connection's nor another worker's until the callback returns (`Accepting`); the
descriptor of a connection stays open until its own worker, past `delTCP()`, releases it
(`Holding`).  Without these `HeldIsOpen` is not inductive: a worker that closes what it
accepted might close what another one holds.  For `RegisteredIsPolled` a second invariant,
`Registered`, says that `m_fds` has open descriptors only and none that a worker is still to
hand over or to close, so that `Monitor::add()`, whose result `addTCP()` ignores, refuses
nothing.  Giving up a bound socket breaks it, as `unbind()` leaves the number in `m_fds`;
hence the assumption.

**`PeerUDPProofs`**, for any descriptors and buffers (also `UDPAssumption`):

| Theorem | States |
|---|---|
| `TypeCorrect` | `Spec => []TypeOK` |
| `QuietAfterStopCorrect` | `Spec => []QuietAfterStop` |
| `BoundIsPolledCorrect` | `Spec => []BoundIsPolled` |

`threadFunc` begins only where `start()` sets `m_thread`, and only the end of `stop()`, which
waits for the thread, clears it (`Threads`, `Stopping`); a callback runs only inside the
loop (`Handing`).  `BoundIsPolled` needs no assumption: unlike `addTCP()`, `bind()` reports
what `Monitor::add()` returned.

**`NodeProofs`**, for any number of sockets, endpoints and UDP threads and any `MaxID`
(`UserAssumption`, `MaxIDAssumption`, `OwnerAssumption`):

| Theorem | States |
|---|---|
| `TypeCorrect` | `Spec => []TypeOK` |
| `UniqueSessionsCorrect` | `Spec => []UniqueSessions` |
| `ConnectedIsListedCorrect` | `Spec => []ConnectedIsListed` |
| `EndedIsUnlistedCorrect` | `Spec => []EndedIsUnlisted` |

The list and the sessions determine each other: a user that holds an ID owns its entry, a
null one until `add()` (`Holding`), and an entry names only a user that holds its ID
(`Naming`).  So a free entry belongs to nobody, and `reserveID()`, `add()` and `del()`, each
under the mutex by itself, touch no entry of another user.  `Progress` keeps the
session and the stages of the callback in step.

**`CryptProofs`**, for any ciphers, keys, nonces and sizes, any block cipher, packets of any
number of blocks, and nonces of any number of digits (`BuffersAssumption`, `SizeAssumption`,
`SessionAssumption`, `DigitsAssumption`; `CipherAssumption`: AES is a permutation under each
key; `OCB2Assumption`: `^` on bytes makes a group in which each byte is its own inverse, and
a byte can count the bits of a block, as the code relies on for the length in the last block):

| Theorem | States |
|---|---|
| `CryptTypeCorrect` | `CryptSpec => []CryptTypeOK` |
| `ContextAgreesCorrect` | `CryptSpec => []ContextAgrees` |
| `EveryBlockRightCorrect` | `OCB2Spec => []EveryBlockRight`, a part of `PacketRoundTrip` |
| `PacketRoundTripCorrect` | `OCB2Spec => []PacketRoundTrip` |
| `DoublesInFieldCorrect` | `OCB2Spec => []DoublesInField` |
| `StepsCountCorrect` | `DigitsSpec => StepsCount` |

While the object has a key, the context holds that key expanded for the direction it is set
to (`Keyed`, `ContextKeyed`), because every call that changes one of the two gives the key
again; a nonce is the object's, or spent and has to be set (`Nonced`).

For a packet, the invariant is that `sealed` is what `encrypt()` makes of `plain` and `opened`
what `decrypt()` makes of `sealed` (`SealedAndOpened`).  The rest is algebra: with the same nonce both
sides have the same offset at each block, the permutation is undone (`Deciphers`) and so is
each `^` (`XorTwice`), block by block, then in the last one, whose pad does not depend on what it
hides (`Recovers`, which also has `decrypt()` refuse exactly when that block is delta).  What the countermeasure of `encrypt()` left is not
silence (`AlteredSpeaks`).  `s2()` doubles the
number of a block because a byte's top bit is the carry into the byte above it, summed from
the lowest byte up (`DoublesValue`).  The digits of a nonce are summed in the same way: a carry
passes digits that are full, each of which turns to 0 (`CarryCounts`, `BorrowCounts`), and
full digits make one less than the next digit's unit (`Telescopes`).

**`PacketDataStreamProofs`**, for every 64-bit integer and every integer of fewer bytes, any
sizes of buffers and any number of items (`ItemsAssumption`):

| Theorem | States |
|---|---|
| `IntegerRoundTrip` | `Decode` of `Encode(v)`, followed by anything, is `v`, and takes exactly its bytes |
| `NarrowRoundTrip` | widening with or without sign and cutting again changes nothing |
| `UndersizeExactCorrect` | `StreamSpec => []UndersizeExact` |
| `ItemsRoundTripCorrect` | `StreamSpec => []ItemsRoundTrip` |

The first byte tells the length and whether a complement follows, so the reader looks at
the bytes the writer wrote (`UnsignedRoundTrip`); a number is complemented at most once.

For a stream, `StreamInv` says where each item ends (`Ends`), that what was written and what did
not fit add up to the last of these places and the bytes before `m_seek` are the items' one after
the other (`Laid`), and that a reader which has not failed stands at the end of the
items it took, all of them right (`Follows`).  Writing adds an item's bytes or, once one is
missing, only their number (`WriteAdds`), which is `UndersizeExact`.  Reading an item
whose bytes are all there takes exactly them (`ReadsWhole`); one that was cut off anywhere,
after its first byte or inside a buffer that it announced, ends in `m_ok` cleared
(`ReadsCut`), and a failed stream stays failed (`StaysFailed`).

Many of these go through all blocks, digits, bytes or items.  The library's induction theorems
take an operator, which the provers cannot be given; `SetInduction` says the same of a set (one
that has 0 and the successor of each of its numbers has all of them) and follows from the
well-foundedness of the order of numbers.  Recursive functions are unfolded with it.

Only model-checked is liveness (`EndIsReported`, `CallsReturn`, `EventuallyRouted`, `EndIsCleanedUp`,
`EventuallyServed`, `EventuallyRead` and the two `StopReturns`), which is out of the prover's
reach.  Every invariant and every action property of the passing runs is also proved.

## 5. Not modelled

* OpenSSL, protobuf (the bytes of a message), libopus, toml, the kernel beyond what `Monitor`,
  `Crypt`, `Pack`, `Framing` and the environment actions show, and the wrappers without
  state of their own (`Cert`, `Key`, `Hash`, `Base64`, `Opus`, `Endpoint`, `IP`, `Endian`).
* Records of which the kernel has a part only, and the write side of a TLS socket, whose
  `Retry` and `WaitOut` are codes in `Connection`.
* The `poll` build of Monitor: the epoll build is what Linux gets.
* The order in which a compiler evaluates `next() << 8 | next()` in `PacketDataStream`: the
  model reads from left to right.  The order of bytes inside the words of `s2()` in
  `CryptOCB2`, where the model doubles byte by byte.
* Random data (`genKey`, `genNonce`) and failing allocations of contexts.
* In `Node`: the replies to packs and to pings, plain and legacy, and the encrypted replies;
  they change nothing of the server, but that a send which fails ends the session, which
  `End` may do at any time.  Resynchronising nonces is not
  implemented in the code.
* `Lib`, whose two-step `deinit()` is a hazard without a property, and `ExampleClient` beyond
  its use of Peer.
* Exceptions.  A `std::bad_function_call` from a missing `Feedback::timeouts` is a hazard
  without a property.
* Memory lifetime inside a callback, beyond the descriptor that `HeldIsOpen` follows.
* In `PeerTCP`: a callback that removes other connections than its own, which `delTCP()` would
  allow, and with it events that reach a later holder of a descriptor's number; the second close
  of a descriptor after a failed handshake (see the plan).
* The parameter `dataSize` with which a `UDPTunnel` could be unpacked: no caller passes it.
* Uses of Peer other than those of the two examples: `addTCP()` from a thread that is no
  worker while the loop runs would race `m_targets`.

## 6. Plan

Done: the modules of section 2 with their runs, the theorems of section 4.

Left, in this order:

1. **`Node` with its descriptors**: the failed handshake's double close, endpoints that
   outlive their users, several UDP threads inside `User::decrypt()` under a shared lock, as a
   composition of `Node` with `PeerTCP` and `NonceWindow`.
2. **`Lib`** and **`ExampleClient`**: the two-step reference count; the wait without a
   predicate.

Theorems to follow: those of the modules above.
