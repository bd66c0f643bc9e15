# matter-rs in TLA+

`matter` is a device-side Matter stack in Rust. This directory holds TLA+ modules of
its core, the TLC configurations that check them on small instances, and TLAPS proofs
of the main results for instances of any size. Paths below are relative to
`src/matter/src/`.

## 1. The system

One thread runs everything: `transport/mgr.rs` waits for a datagram, processes it to
the end, and does some housekeeping before it waits again. What makes the system hard is
not parallel threads but the *peers*: several of them interleave their messages, send
them twice, out of order or never, and compete for tables of fixed size, while state
about each is spread over the tables and held by index or by id across messages.

| component | state | operations | interacts with |
|---|---|---|---|
| main loop (`transport/mgr.rs`, `proto_demux.rs`) | where it is in a turn | receive, dispatch, answer, one queue message, acks, purge | everything below, by calls |
| exchange manager (`transport/exchange.rs`) | `exchanges`: 8 entries keyed by exchange id, each with a session *index*, a state, handshake data, MRP state | find or create, close, send, purge, evict a session | sessions by index; handlers close exchanges and keep data in them |
| message reliability (`transport/mrp.rs`) | per exchange: at most one packet the peer must ack, at most one ack we owe | on send, on receive, ready acks | packet headers, the clock |
| session manager (`transport/session.rs`) | 16 slots, `next_sess_id` | match a packet, add, clone, LRU, reserve an id | exchanges (eviction), handshakes (reserved ids) |
| work queue (`transport/queue.rs`) | at most 3 messages | `sync_send`, `try_recv` | handshake handlers fill it, the main loop empties it |
| secure channel (`secure_channel/core.rs`) | the commissioning window (`pake`: Option) | one handler per opcode | PASE, CASE |
| PASE (`secure_channel/pake.rs`) | one handshake, with its exchange, peer and reserved id | PBKDFParamRequest, Pake1, Pake3 | queues a session, closes the window |
| CASE (`secure_channel/case.rs`) | `CaseSession` in the exchange's data | Sigma1, Sigma3 | fabric table; queues a session |
| interaction model (`interaction_model/`) | a transaction per request | read, write, invoke | data model; closes the exchange |
| data model (`data_model/core.rs`, `objects/`) | endpoints, clusters, attributes, data versions | read, write, invoke with wildcards | access control |
| fail-safe, NOC, general commissioning (`data_model/sdm/`) | armed or not, for which session; the CSR key in the session | ArmFailSafe, CSRRequest, AddTrustedRootCert, AddNOC, CommissioningComplete | fabric table, ACL, persistent store |
| fabric table (`fabric.rs`) | 3 slots, the store | add, match a destination id, load | persistent store: six writes per fabric |
| access control (`acl.rs`, `system_model/access_control.rs`) | ACL entries, the store | add, edit, delete, match | data model, persistent store |
| TLV, headers, buffers (`tlv/`, `utils/`, `transport/*_hdr.rs`, `packet.rs`, `boxslab`) | buffers, a packet pool | encode, decode, allocate | everything |
| certificates (`cert/`) | a writer's stack of open values | encode as DER, verify a chain | CASE, fabric table |
| store, mDNS, crypto, UDP (`sys/`, `mdns.rs`, `crypto/`, `transport/udp.rs`) | files; the rest keeps none of interest | write and read a file, publish a name | fabric table, access control |

What makes each correct, in short:

* **exchanges and sessions** - an exchange stays with the session it was opened on
  although it only knows a slot index; a session goes together with all its exchanges,
  only when the table is full, and it is not one in current use; a packet is served on
  the session it was matched to even if sessions are evicted in its turn.
* **reliability** - each reliable packet is acknowledged once, in time; a closed
  exchange is not purged while either side waits.
* **handshakes** - session ids of handshakes under way, queued and installed sessions
  differ; messages of other exchanges or peers do not complete a handshake; a
  commissioning window makes one session.
* **the loop** - every turn ends; it never waits for itself.
* **commissioning, fabrics, ACL** - a fabric and its administrator come and go together,
  over restarts too; an abandoned commissioning leaves nothing; the entries a fabric sees
  are its own, in order, and memory and store agree.
* **data model** - no access without privilege; a read reports what its path covers, once;
  the data version tells changes.
* **encodings** - what is written is what a reader finds, and input cut anywhere reads as
  less and not as something else; what a signature covers is what the certificate says;
  pools give no buffer twice.

## 2. Plan

Done:

1. **Core transport and handshakes**: `SessionTable`, `ExchangeMgr`, the abstract
   `Conversations`, `MCExchangeMgr`, and four proof modules (section 3).
2. **Access control and the data model**: `AclTable`, `DataModel`, the abstract
   `FabricLists`, `MCDataModel`, `DataModel_proofs` (section 4).
3. **Commissioning**: `Commissioning`, `MCCommissioning`, `Commissioning_proofs`
   (section 5).
4. **Libraries**: `Buffers`, `Tlv`, `TlvReaders`, `Asn1`, the abstract `DerValue`, `Cert`, `Datagram`,
   `PacketPool`, `MCLibrary`, `Asn1_proofs`, `Library_proofs` (section 6).

Left:

5. **`Mrp`**: one exchange with message counters against a peer over a channel that loses,
   repeats and reorders; what the missing comparison of counters and the missing
   retransmission cost. Little of it would hold: the code is not finished there.

## 3. The core modules

* `SessionTable` - the session table as data: what a slot holds, how a packet is matched
  (`_get`), empty slots, LRU order, the next free session id. No variables.
* `ExchangeMgr` - the state machine. `Next` has one action per thing the thread can do
  between two decisions that are not its own.
* `Conversations` - the abstract specification: peers in places, conversations each of
  which stays with its peer.
* `MCExchangeMgr` - the sets of packets of the runs, and symmetry.
* `ExchangeMgr_proofs`, `_ends`, `_ids` - the proofs (section 9).

### State

| variable | code |
|---|---|
| `sessions` | `SessionMgr.sessions`; a slot holds address, node, local id and mode |
| `last_use` | `Session.last_use` of all slots, as ranks (a permutation): only the order matters to `get_lru` |
| `next_sess_id` | the same, wrapping at `MaxSessId` |
| `exchanges` | `ExchangeMgr.exchanges`; `data` is the session id in the `CaseSession`, 0 for none; `ack` is the `AckEntry` (fresh or past its timeout), `retrans` whether there is a `RetransEntry` |
| `workq` | the `NewSession` messages in the `WorkQ` |
| `pake` | `SecureChannel.pake`: no window, idle, or the `SessionData` of a handshake |
| `pc`, `rx`, `acks_to_send` | the place in `Mgr::start` and its locals |
| `openedBy`, `owed`, `mru`, `wrapped` | history: the session an exchange was opened on, acks a peer waits for, the slot used last, whether ids started over. No guard reads them. |

### Actions, in the order of a turn

| `pc` | action | code |
|---|---|---|
| `recv` | `RecvOnSession`, `RecvNewPeer`, `RecvWhenFull` | `SessionMgr::recv`/`post_recv`/`get_or_add`, `evict_session`, `Session::recv`. A packet that does not decrypt ends the turn but has touched `last_use` |
| `exch` | `GetExchange`, `NoExchange` | `ExchangeMgr::_get`, `ReliableMessage::recv` |
| `handle` | `HandleAck`, `HandleRequest`, `HandleSigma1`, `Sigma3*`, `Pase*`, `Pbkdf*`, `Pake*` | the protocol handlers: whole handlers, with every error exit that leaves different state |
| `send` | `SendResponse` | `Exchange::send`: the ack is taken into the header *before* the send can fail |
| `queue` | `HandleQueueMsg`, `QueueEmpty` | `handle_queue_msgs` and `add_session` |
| `pending`, `acks` | `PendingAcks`, `SendAck`, `Purge` | the rest of `Mgr::start` |
| any | `AckTimeout` | time passes an entry's `ack_timeout` |
| `blocked`, `panic` | none | the loop waits for its own queue; an `unwrap` failed |

An error in `handle_rxtx` makes the loop `continue`: `NextTurn` goes to `recv`, and the
queue, the acks and the purge are skipped.

Left to chance (a choice the model leaves open because something outside decides):
whether a packet decrypts, what an interaction model handler answers, whether
certificates, signatures and the PASE verifier hold, whether a handshake is older than
a minute, whether the network takes a packet. Left out: keys, payloads, message
counters (the code never compares them), the role of an exchange (the device opens none,
so a packet that is not from an initiator never finds one), and the packet pool (25
buffers, of which a turn holds at most three).

Two abstractions a reader should know: two uses of sessions never get the same
`SystemTime`, and the clock does not go backwards.

## 4. Access control and the data model

* `AclTable` - the list as data: entries, privileges with their encoding, matching
  (`Allow`), the operations of `AclMgr`, and the image that is stored. A table is a
  function from occupied slots to entries.
* `DataModel` - `DataModel` of `data_model/core.rs` with the node the device builds: endpoint 0
  with its clusters and an on/off light.
* `FabricLists` - the abstract specification, what the cluster promises to administrators: each
  fabric has one list, and a saved copy. A write changes one list by one operation and then saves
  all of them; a save that fails leaves what was saved as it was, or the new lists without their
  ends (`UnsavedChange`: the file is truncated before it is written, `sys/posix.rs:50`); a start
  brings back what was saved (`Operate` and `Manage` exchanged, `StoredAs`); a power loss costs
  ends of lists and nothing else. `KeepsLists` says
  that `DataModel` implements it, with `listOf` and `savedOf` (the entries of a fabric in the
  table and in the file, in the order of their slots) for `lists` and `saved`.
* `MCDataModel` - the sessions, requests and tables of the runs.
* `DataModel_proofs` - the proofs (section 9).

| variable | code |
|---|---|
| `acl`, `aclFile` | `AclMgrInner.entries`, and what loading the file `acl` would give |
| `vals`, `vers` | the values that change (On/Off, BreadCrumb), `Cluster.data_ver` |
| `req`, `resp` | the write being handled with what is left of it; what the last request was answered |

A request is handled to its end under the lock of the node, so reads and invokes are one step.
A write is cut where the device may lose power: `ReceiveWrite`, for each attribute
`RefuseItem`, `WriteScalar` or `StartList`, for each list operation `ListOpStored`,
`ListOpNotStored` or `ListOpFails`, then `FinishWrite`. `ListOpNotStored` is an image that does not
fit, which leaves the file alone, or a write of the file that fails, which leaves it as it was, empty or
cut. `PowerLossInStore` leaves the file cut after any entry, or with an entry whose last field
(`fab_idx`) is missing; `Restart` loads it. `EndList` answers for an item; for one with a wildcard
path only a success is answered (`skip_error`), so that an operation that was not stored may leave no
trace in the answer. `AckedIsStored` therefore asks for an answer of success to every item that names
the list. The data version filters of reads, wildcard iteration with its swallowed
errors (`VisitClusters`, `VisitAttributes`), the order of checks in a write and the statuses they
answer are the code's. Not kept: the layout of messages, attributes whose value is fixed at
build time other than by being there (their access matters and is kept), and `Timed` flags
(the code ignores them).

What may be asked and what the table may hold at first are constants. Their types are stated as
assumptions (`RequestsAssumption`, `TablesAssumption`), which TLC evaluates for the sets of the
run and the proofs use.

## 5. Commissioning

`Commissioning` is one state machine over the NOC and general commissioning clusters, the
fail-safe, the fabric table and its files, and the administrator's ACL entry.

| variable | code |
|---|---|
| `life` | running, or stopped by a panic of a command or at boot |
| `fabrics`, `files` | `FabricMgrInner.fabrics`; for each index the six files of `Fabric::store`, each of some fabric and whole, cut, or empty |
| `acl`, `aclFile` | entries by fabric index |
| `failsafe` | `FailSafeInner.state` |
| `sessions` | `Session.mode` and `Session.data` (the CSR's key pair, the root certificate) |
| `window`, `csrs`, `boots`, `answer` | the commissioning window; key pairs made; restarts; last status |
| `acked`, `adds`, `hidden`, `spoilt` | history: fabrics acknowledged, NOCs added since arming, indexes mDNS refused at a start, indexes where a failed write of the private key left a part of it and no fabric was added since. No guard reads them. |

`GenCommCommand` and `NocCommand` have one action for each command, with every refusal.
`AddNoc` is split by what happens to its writes: `AddNoc` (all made), `AddNocNotStored` (one
failed: the command is refused, earlier files stay), `PowerLossInFabric` and
`PowerLossInAcl`. A write that fails or loses power leaves the old file, an empty one, or a
prefix (`Written`, `ListParts`). `Boot` is `FabricMgr::load`, `Matter::new` with the decision to open the window.
`OpenPlain` is the first packet of an address, `EstablishPase` and `EstablishCase` stand for the
handshakes of `ExchangeMgr`; `DropSession` for evictions.

`handle_command_path` looks neither at the mode of a session nor at its privileges, so every
command comes on sessions in the clear too: such a session arms the fail-safe in its name and may
ask for a CSR, while `AddTrustedRootCert` answers it `Ok` and stores nothing, as it does over CASE.

A write of the private key that fails after a part of it was written makes files load (any
part of a key but none is taken) although the fabric is not in memory, its index still free. The next
AddNOC there puts this right, but a restart would load it, and one that is interrupted would leave
files of two fabrics or a short IPK. `MemoryIsFile`, `WholeFabric` and `BootNeverPanics` exempt these
indexes (`spoilt`); a power loss at the same place does no harm to them, since the device then
starts and takes the index as used.

Assumed: the default crypto build (mbedTLS), by which a private key of any length
loads but a short IPK panics; a certificate parses only if whole (`Cert::new` reads to its
last field). `PublishFails` lets mDNS refuse a name, which makes `FabricMgr::load` skip a
fabric and hand its index out again; the properties exempt such indexes, and the history
variable `hidden` says which.

## 6. The libraries

| module | code | what is a step |
|---|---|---|
| `Buffers` | `utils/writebuf.rs`, `parsebuf.rs` | no variables: the operations on a buffer as functions, failing without effect |
| `Tlv` | `tlv/writer.rs`, `TLVListIterator` of `parser.rs`, the derived `to_tlv` | one call of `TLVWriter`; those of a derived struct follow one another, a step for each field |
| `TlvReaders` | the rest of `parser.rs`, `traits.rs`, the derived `from_tlv` | no step: operators on what `Tlv` has written |
| `Asn1` | `cert/asn1_writer.rs` | one call of `ASN1Writer` |
| `DerValue` | what a `CertConsumer` is to make of its calls | abstract: putting, starting or ending a value among those begun, or giving up |
| `Cert` | `cert/mod.rs`, `validate_certs` of `case.rs` | a call of `encode`, with those it has still to make in `todo`; one link of a chain |
| `Datagram` | `plain_hdr.rs`, `proto_hdr.rs`, `packet.rs`, `Session::do_send` and `recv` | sending; arriving, perhaps cut; decoding either header |
| `PacketPool` | `BufferPool` of `packet.rs`, `boxslab` | making or dropping a packet |

Bytes are naturals and numbers sequences of digits. The lengths at which encodings change their
form are the code's in proportion to the size of a byte (`BYTE` values in `Tlv`, `BASE` in `Asn1`),
so that small values meet the boundaries. AES-CCM and ECDSA are external: a seal opens exactly
with the key, nonce, header and text it was made with; a signature is the pair of key and
signed bytes. Both ends of a session have the same keys and node ids.

Two things about datagrams do not hold of the code, and `AcceptedIsSent` says what holds beside them.
`do_send` gives an answer in the clear to a peer with a node id a destination (`SetDest`), whose eight
bytes `PlainHdr::decode` leaves to the protocol header: such a datagram is not `Legible`, and of it only
the flags, session and counter are promised (`Understood`); nor is a sealed one with a source, whose
header is not of the eight bytes that are taken as additional data. And a sealed datagram cut so short
that less than a MIC is left makes the receiver panic (`OpenPanics`), which the property excludes
for those that are whole or in the clear.

Of a certificate `AcceptedAsIssued` promises what its encoding keeps (`Said`). That leaves out unknown
names and usages, a path length, the future extensions, and the century of a date, of which `utctime`
writes two digits of the year (`UtcTime`).

`MCLibrary` joins the five parts (documents, certificate encoding, chains, datagrams, pools) to
one specification: they share no state, `part` says which one a behaviour is of.

`Asn1` is shown to implement `DerValue` (`WritesDer`). The writer does not know the length of a value
until it ends, so it keeps three bytes for it and moves the content back over those it does not
need; `DerValue` has no buffer, only the values begun, each with its tag and the DER form of what it
holds so far. The mapping `Begun` reads these off the buffer: `depth` says where each begins, and each
ends before the tag of the one inside it. An error of the writer (no room, too deep, a length that
two bytes cannot hold, nothing to end, a call that fails) is giving up, and what a caller finds in the buffer
then is not looked at, as in the code.

## 7. The runs

`MAX_SESSIONS`, `MAX_EXCHANGES`, `MAX_WORKQ` and `MAX_MRP_ENTRIES` are 16, 8, 3, 4 in the
code and 1 or 2 here: what matters is that every table fills up, that there is one peer
or exchange more than there is room for, and that a slot is reused. All state is
finite, no run needs a state constraint.

| run | instance | what it shows |
|---|---|---|
| `requests` | 3 peers, 2 sessions, 3 exchange ids, 2 entries; interaction model packets with every use of the R and A flags | `TypeOK`, `ExchangeOnItsSession`, `NoSpuriousAck`, `EndsCleanly`, `LruEviction`, and `KeepsPromise` (implements `Conversations`) |
| `peers` | 2 addresses, 2 nodes, 2 sessions, 1 exchange; CASE on plain and encrypted packets, with and without a node id | `ServedInPlace` |
| `handshakes` | 1 peer, 2 sessions, 2 exchanges, 3 ids, queue of 1; CASE and PASE interleaved | `IdsDifferBeforeWrap`, `PaseOnce` |
| `turn` | 1 session, 2 exchanges, CASE | `TurnEnds`, under fairness |
| `late_ack`, `ack_overflow`, `self_wait`, `busy_drops` | the smallest that shows it | the findings, section 8 |
| `data_model` | 2 fabrics and index 0, 2 entries each, 2 subjects and 1 target an entry; 5 sessions; 3 requests, 1 restart | `FabricQuota`, `SlotsSuffice`, `FabricIsolation`, `ListsFollowOps`, `OnlyAdminsWrite`, `AckedIsStored`, `RestartKeepsGrants`, `ReadReportsExactly`, `VersionTellsValue`, and `KeepsLists` (implements `FabricLists`) |
| `data_version` | the same | the finding, section 8 |
| `commissioning` | 2 fabrics beside index 0, 1 entry each, 2 sessions, 2 roots, 2 key pairs, 2 restarts, mDNS may refuse | `MemoryIsFile`, `WholeFabric`, `BootNeverPanics`, `AckedSurvives`, `AdminOfItsFabric`, `KeyUsedOnce`, `OneNocPerArming`, `CompleteMeansStored` |
| `library` | a buffer of 14 bytes and 4 writes; 6 calls of the DER writer in any order, or those of a certificate, a buffer of 160, `BASE` 16; 3 certificates and 15 alterations of each, in chains of 3 for 2 fabrics; datagrams up to a buffer of 64, to peers with and without a node id; 3 packets | `CutReadsPrefix` (what was written is read back, whole or cut), `ChildrenAreDirect`, `EqualBothWays`, `StructReadsBack`, `DecodersAgree`, `AcceptedAsIssued`, `AcceptedIsSent`, `PoolsAgree`, and `WritesDer` (`Asn1` implements `DerValue`) |

Bounds of the newer runs. `data_model`: the initial tables are an empty one, that of two
commissioned fabrics, and one with a single free slot, so that quotas, the full table, every
list operation at the first, last and no index, a store that does not fit (`ACL_KV_MAX_SIZE` is 11
in units of `Cost`, less than the cost of a full table) and an index that wraps (`IndexMod` 4,
item 5) all come up within `MaxRequests` 3; data versions wrap at 2, and a write of two items has one of them fail behind a wildcard. `commissioning`: `MaxCsr` 2
makes two NOCs possible in one behaviour, the least for an index to be given out twice or a fabric
to be mixed of two; `MaxBoots` 2 lets one restart follow on the files of another. `library`:
the buffer runs out in the middle of every kind of element; payloads reach from none to one byte
more than fits; contents of 0, 5 and 60 bytes need each form of a DER length, for a value that is
put and for the one around it, and three long ones overrun the buffer; `MAX_DEPTH` is the code's 10, which neither a certificate nor 6 calls reach (the theorem covers it). They all stop
when their bounds are reached, hence `CHECK_DEADLOCK FALSE` there.

Addresses and exchange ids are interchangeable and treated as symmetric in the runs that
check safety only; nodes are not (`NodeZero`), nor session ids (ordered). So are the sessions and
the root certificates of `commissioning`.

Packets are filtered where it changes nothing: one that does not decrypt, or is not an
initiator's, is dropped before its other fields are read, so one of each per address and
exchange is enough (`Telling`). All packets may come in any order and any number of
times, so duplication, reordering and loss need no action of their own.

In the runs of `ExchangeMgr`, `CHECK_DEADLOCK FALSE` is set because the device really stops
in `blocked` and `panic`;
`TurnEnds` shows it stops nowhere else.

Fairness: `FairSpec` has weak fairness of `LoopStep`, the steps of the thread that need
no datagram: a running thread that is not blocked goes on. Nothing is assumed of the
network, and the clock is not fair. `BusySpec` (only for `self_wait`) adds strong
fairness of receiving good standalone acks: the counterexample is then not that packets
merely stop coming, and the device is stuck however many arrive.

Every property has a mutant, an operator named `...Bug` next to the definition it
replaces: a table bound not kept, an ack for every packet, a purge that does not wait, a
use not noted, an eviction that leaves exchanges behind, a session matched without
its address, an exchange found on another session, an id counter that does not move, a
window left open, an ack that is retried without end; an entry too many, a list index
counted over all fabrics, an entry under the fabric the writer names, everybody let in, a list not
stored, an entry appended to the list although a slot before its last one is free, a privilege mistaken, a wildcard walk that stops, a version not moved; the IPK stored
last, an empty key file not noticed, an index given out twice, an ACL quota not looked at, a key
not taken, an addition not recorded, a fail-safe that any session disarms; a string not moved, a
length not checked, a tag not compared, a nested value skipped wrongly, a field lost, a walk that
does not look at tags, a shift that is left out, a field not encoded, a header not sealed, a buffer
not freed. TLC finds the property violated
under each.

## 8. Findings

* **late_ack** - `AckEntry::has_timed_out` is `ack_timeout > now` (`mrp.rs:54`). An ack is
  "ready" until its timeout and never after it: normally the turn that receives a packet
  acks it at once, but an entry that outlives its timeout in a turn that ended in an error
  is never sent as a standalone ack.
* **ack_overflow** - `pending_acks` unwraps an insertion into a map of 4 while 8 exchanges
  may have an entry (`exchange.rs:298`). Needs several turns that end in errors within
  200 ms.
* **self_wait** - `sync_send` blocks the only consumer of the queue (`case.rs:147`,
  `queue.rs:44`). Needs handshakes whose answer cannot be sent (the queue is skipped then),
  so that sessions pile up.
* **busy_drops** - denying a second PBKDFParamRequest drops the handshake under way
  (`pake.rs:180`).
* **data_version** - a write of the ACL list that fails in the middle (an item that does not
  decode, the quota, the store) has changed the list, and has stored the change, but the data
  version is moved on only after success (`access_control.rs:123`).

Met while modelling and not made a run: an `AckEntry` is cleared before the packet that
carries it is known to leave (`mrp.rs:96` before the refusal at 103-107), and `owed` minus
the entries in the table shows such lost acks; a closed exchange whose last answer is not
acked is never purged; the session of a successful handshake is dropped if the eviction
for it fails (`mgr.rs:102`). They are listed as hazards.
Most of the next ones are too:
`Operate` and `Manage` change places in the file (`privilege.rs:51`, harmless on this node as
`RestartKeepsGrants` shows); a fabric stored without its administrator's entry is kept after a
power loss; the index of a fabric that mDNS refused at a start is given out again; an extended key
usage of 7 indexes past a table (`cert/mod.rs:144`); the fail-safe never expires;
a plain header with a destination, as `do_send` makes, is not one that `decode` understands
(`session.rs:237`, `plain_hdr.rs:53`); a sealed datagram shorter than its MIC makes the receiver panic
(`crypto_mbedtls.rs:330`); a failed write of a private key leaves files that load for a fabric that
was refused (`posix.rs:50`, `fabric.rs:162`); a failed write of the access control list leaves an empty or
cut file on a running device; the errors of a write with a wildcard path are not answered, that of
an operation not stored included (`data_model/core.rs:94`); dates a hundred years apart encode alike
(`asn1_writer.rs:240`); commands are handled in the clear (`data_model/core.rs:167`).

## 9. Proofs

All for every value of the constants that satisfies the named assumptions
(`SessionTableAssumption`, `NoSessionAssumption`, `ExchangeMgrAssumption`,
`NoneAssumption`, `PacketsAssumption`; `CommissioningAssumption` and the `NoneAssumption` of
`Commissioning`; `PoolAssumption`, `DatagramAssumption`, `HeadersAssumption`; `Asn1Assumption`; `TlvAssumption`;
`AclAssumption`, `DataModelAssumption`, `TablesAssumption`,
`RequestsAssumption`): table sizes are positive, there are more session ids than session slots,
exchange ids are finite in number, absence values differ from records, packets are packets,
requests are requests, headers have the parts that their flags announce, a byte has an even number of values and more than two, calls of the DER writer
have a tag and bytes, tags have the bytes of their kind, what is written as TLV is of the type its
call takes, and the access control list starts as one a commissioned device may have.

* `ExchangeMgr_proofs`: `Inductive` (`Spec => []IInv`), and from it `TypeCorrect`,
  `BoundToItsSession`, `ServesItsPacket`. `IInv` strengthens the three by `LoopShape`.
  `ExchangeOnItsSession` is not inductive without `ServedInPlace`, since `GetExchange`
  opens an exchange on the slot in `rx`, which must be that of an occupied session even
  when an eviction made room for it in the same turn; `ServedInPlace` needs in turn that
  handlers do not touch sessions; and the typing of `rx` depends on `pc`.
  One lemma per action; those shared by several (a packet accepted, an eviction, an
  update of the exchange of this turn, a queued session) come first.

  `Refinement` (`Spec => KeepsPromise`), in the same module. `heldAt` maps the
  exchange table to places; a turn's receive may be an `Arrive` or a `Replace`,
  `GetExchange` a `Begin`, `Purge` an `End`; everything else stutters.
* `ExchangeMgr_ends`, of what leaves the tables: `AcksAreOwed` (`NoSpuriousAck`, inductive
  together with `IInv`) and `ExchangesEndCleanly` (`EndsCleanly`); `UsesAreOrdered` (ranks stay distinct and the slot used last
  has the greatest), and from it `EvictsOldSession` (`LruEviction`).
* `ExchangeMgr_ids`: `IdsAlwaysDiffer` (`IdsDifferBeforeWrap`) and `OnePasePerWindow`
  (`PaseOnce`). An id is reserved for an exchange or for the PASE handshake, moves to the queue
  and from there to a slot; `IdInv` says of all four places together that no id is in two of
  them and that each is below `next_sess_id`, which is why the next one reserved is new. It is
  only kept until the counter starts over, where the code has nothing else to rely on.
* `Library_proofs`: `PoolsAlwaysAgree`, for pools of any size. `PoolsAgree` is inductive
  with the types of `pool` and `boxes`.

  `AcceptedIsAlwaysSent` (`AcceptedIsSent`), for all headers, payloads and keys, every size of a
  packet's buffer and every place where a datagram is cut. Its lemmas are about where one sequence
  occurs in another (`OccursAt`: `Joins`, `OccursIn`, `ReadBack`): a buffer between `start` and `end`
  holds what was appended to it or put before it (`Filled`, `CopyFills`, `PrependFills`), so the bytes
  of a datagram are the plain header, the protocol header, the payload and the MIC in this order
  (`PlainIsEncoded`, `ProtoIsEncoded`, `SentIs`, `PartsOccur`), and a read that stays in the part
  that arrived finds what was written there (`PlainIsDecoded`, `ProtoIsDecoded`); bits give back
  the flags they were made of (`FlagsBack`); what opens under a key is whole, because the seal is
  over a text of one length (`OpenIs`). A destination leaves a header one (`DestIsHdr`), of which the
  fixed part is still read (`Misread`), and a sealed datagram that is not legible is not opened at all
  (`NotOpened`). The invariant, `DatagramInv`, says of which datagram the
  packet holds how many bytes, and how far they were decoded; the property does not carry enough
  of this to be inductive.
* `Asn1_proofs`: `EncodesDer` (`Asn1Spec => WritesDer`), the refinement of `DerValue`, for every base,
  length of the buffer, depth and set of calls. The invariant is that a writer without an error is
  `Sound`: the values begun are `Nested`, each three bytes and a tag behind the start of the one
  around it, inside what is written. A call only writes behind what is written (`PutWrites`,
  `StartRefines`), which leaves the slices of all values but the last as they were (`SlicesAgree`)
  and lengthens the last (`SliceGrows`). The hard call is `end_compound` (`EndDoes`, `EndBytes`): two
  overlays, of the length and of the moved content, whose place depends on the form of the length,
  leave in the slice of the surrounding value just tag, length and content, and every value further out
  untouched (`EndedLevels`). That the writer's length is the abstract one, which is given as the two
  bytes of which it is the number, needs those bytes to be unique (`DigitsDiffer`, `LengthIsDer`).
* `Tlv_proofs`: `CutsReadPrefix` (`TlvSpec => []CutReadsPrefix`), for every size of a byte and of the
  buffer, all tags, values, containers and structs. An element is a sequence of bytes (`Encoded`), and
  each call of the writer puts a first part of one behind what is there: all of it if it succeeds,
  less if it fails (`Puts`, `CallDoes`); the string that is written in place and then moved comes to the
  same (`InPlaceIsPut`), and the narrowed integer is the one given, with zeros (`NarrowestIs`). The
  invariant, `TlvInv`, is that every element of the document is whole between two edges that rise
  (`WholeAs`, `EdgesRise`), and that behind the last there is nothing, or after a failed call a part of
  an element (`Tail_`); the property is not inductive, as it says only what is read. On the reader's
  side `NextIs`: from a place where an element begins it is read if it is whole in what is left, and
  nothing is if it is not, wherever in its head, tag, length or value the cut falls. `ElementsAre`
  then follows the iterator from edge to edge, by a least counterexample instead of an induction.
  `Writable` assumes, as the code does without checking, that the length of a string fits two bytes:
  a longer one would be written with a length cut to 16 bits.
* `Commissioning_proofs`: `AlwaysIInv` and from it `MemoryIsAlwaysFile`, `FabricsAreWhole`,
  `StartsAlways`, `AckedAlwaysSurvives`, `AdminsStayOnTheirFabric`, `KeysAreUsedOnce`,
  `OneNocForEachArming` and `CompleteAlwaysMeansStored`, for any number of fabrics, sessions, key
  pairs and restarts. The invariant says why the order of `Fabric::store` matters: load needs the
  private key, which is written last, so that files with one are the files of one fabric
  (`StoreInv`), and an AddNOC that is cut short before it leaves an index that does not load and is
  still free. The exception is a write of the key that fails half-way on a device that goes on
  running: its index is then in `spoilt`, and until a fabric is added there `StoreInv` says of it only
  that a fabric in memory is the one of its files. `AclInv` follows an administrator's entry in memory and in the file to the fabric it
  was added for; it holds because an entry is only added after the fabric is stored. `KeyInv`
  needs keys in files to differ as well as keys in memory, since a restart turns one into the
  other. `ArmInv` ties the fail-safe's index to `adds`. Each action has its lemma.

  `CMTypeCorrect` (`CMTypeOK`) adds the bounds of the lists and that a PASE session moved to a fabric
  is on one that exists.
* `DataModel_proofs`: for any number of fabrics, entries, requests and restarts.
  `Invariant` (`Spec => []IInv`) with `IInv` the types (`TInv`), `FabricQuota`, `AckInv` and
  `AckedIsStored`. `AckedIsStored` speaks of an answer that was given; it is not inductive
  without `AckInv`, that while a write is under way and each item of the list so far was answered with success
  the file is the image of the table: an item that fails to be stored leaves another status, or with a
  wildcard path none, which stays so in the answer. `FabricQuota` needs that an image has as many entries of each fabric as
  its table and a torn image no more (`ImageWithinQuota`, `TornIsPart`).
  `SlotsAreEnough` is then a count: the slots used are those of the fabrics, each within its quota.
  `FabricsAreIsolated` and `OpsAreFollowed` (`ListsFollowOps`) relate the entry that `NthSlot` finds to
  the list a fabric sees: both are the rank of a slot among those of the fabric (`Ranks`,
  `RankedSlots`, `ListIs`), so an addition in a gap inserts at the rank of that gap and a deletion
  moves the ranks above it down. `OnlyAdministratorsWrite` goes through all walks of a wildcard
  path, `VersionsTell` through the bumps of a version, `RestartsKeepGrants` through the accesses of the
  node, none of which asks for `Operate` or `Manage`.
  `ListsAreKept` (`Spec => KeepsLists`) is the refinement of `FabricLists`. An operation on the table is
  one operation on one list (`OpChanges`); numbering entries without gaps keeps the order of each
  fabric's (`ImageList`), so saving and an operation commute (`SavedOps`); and an image cut anywhere
  shows each fabric a first part of its list (`TornList`), which for the list being changed may or
  may not have the change in it (`CutAfterOp`).

The loop of a walk (`ForEach`, `Level`) has a closed form where a recursive one would be as natural,
because the provers cannot do induction over data as such. What needs an induction here and is in their
reach goes by a least counterexample: least elements and pigeonholes, for which the libraries use
induction theorems with an operator parameter, and what `FlattenSeq` makes of a sequence of sequences
(`Flattened`, which needs first that its recursive definition has a solution, `FlattenedExists`), are
proved from `WFMin` and cardinalities.

Only model-checked, and why:

* `ChildrenAreDirect`, `EqualBothWays`, `StructReadsBack` and `DecodersAgree` of `TlvReaders`: these
  readers walk containers of any depth, by recursion, about which the prover can show nothing. What they
  are built on, the list iterator, reads what was written: that is `CutsReadPrefix`.
* `AcceptedAsIssued` of `Cert`: that two certificates with the same encoding say the same is an
  induction over what they contain, and the bits of a Key Usage are reversed by recursion. What is
  proved is the step below it: the bytes that a signature is over are the DER form of the calls.
* `TurnEnds`, which like all liveness is out of its reach.

## 10. Not modelled, and why

SPAKE2+ and the cryptographic back ends are arithmetic or wrappers of libraries; UDP and mDNS
are I/O, present as failures and refusals. The template cluster, the examples and the TLV tool are
demonstrations. Printing of certificates and of TLV, and the layout of interaction model
messages and attestation responses, are formatting. The code handles no subscriptions, no timed
requests, no retransmission, no RemoveFabric and no fail-safe expiry, so neither has the
model. `PROJECT.json` lists every part with its files, and every hazard with the line it bites.
